---------------------------- MODULE TriageProofs ----------------------------
(***************************************************************************)
(* Proofs about Triage for every set of tabs and videos, and any number of *)
(* saves, lock tokens and restarts.                                        *)
(***************************************************************************)
EXTENDS Triage, TLAPS

\* What a step may do to the entry of a video: nobody's save is lost, a revision
\* stands for one content, and a cleanup only for a no-object decision.
Newer(old, new) ==
    /\ old.rev <= new.rev
    /\ old.seen \subseteq new.seen
    /\ old.rev = new.rev => old.seen = new.seen /\ old.noObject = new.noObject
    /\ new.cleanup # "none" => new.noObject

\* Memory and disk differ at most in a SAM3 mark that was not flushed.
Same(m, d) ==
    /\ m.rev = d.rev /\ m.seen = d.seen /\ m.noObject = d.noObject
    /\ m.export = d.export /\ m.cleanup = d.cleanup

\* A revision somebody has seen: if it is still the current one, it is no less
\* than what is on disk.
Sound(v, rev, seen) ==
    /\ rev <= disk[v].rev
    /\ rev = disk[v].rev => disk[v].seen \subseteq seen

EntryInv(v) == Same(memory[v], disk[v]) /\ (disk[v].cleanup # "none" => disk[v].noObject)

WriterInv ==
    /\ \A t \in Tabs : request[t].at = "applied" <=> writer = t
    /\ writer # None => \A v \in Videos : Newer(disk[v], draft[v])

RequestInv(t) ==
    LET r == request[t] IN
    /\ r.at \in {"sent", "ready", "marking", "answered"} => Sound(r.video, r.rev, r.seen)
    /\ r.at = "marking" /\ disk[r.video].rev = r.rev => disk[r.video].noObject
    /\ r.at # "idle" /\ ~r.old => tab[t].at = "editing" /\ tab[t].video = r.video
    /\ r.at \in {"idle", "answered"} => ~r.old

TabInv(t) == tab[t].at = "editing" => Sound(tab[t].video, tab[t].rev, tab[t].seen)

TriageInv ==
    /\ TypeOK
    /\ \A v \in Videos : EntryInv(v)
    /\ WriterInv
    /\ \A t \in Tabs : RequestInv(t) /\ TabInv(t)

-----------------------------------------------------------------------------
(* Types *)

Places == {"sent", "ready", "applied", "marking", "answered"}
Request == {Idle} \cup Underway \cup Ended

LEMMA Kind ==
  ASSUME NEW r \in Request
  PROVE  /\ r.at \in Places => r \in Underway
         /\ r.at \in {"lock_lost", "failed"} => r \in Ended
         /\ r.at = "idle" => r = Idle
         /\ r.at \in {"idle", "lock_lost", "failed"} \cup Places
<1>1. CASE r = Idle
  <2>1. r.at = "idle"
    BY <1>1 DEF Idle
  <2> QED BY <1>1, <2>1 DEF Places
<1>2. CASE r \in Underway
  <2>1. r.at \in Places
    BY <1>2 DEF Underway, Places
  <2> QED BY <1>2, <2>1 DEF Places
<1>3. CASE r \in Ended
  <2>1. r.at \in {"lock_lost", "failed"}
    BY <1>3 DEF Ended
  <2> QED BY <1>3, <2>1 DEF Places
<1> QED BY <1>1, <1>2, <1>3 DEF Request

\* How a request goes on: to another place, or to its end.
At(r, s, place) ==
    s.at = place /\ s.old = r.old /\ s.video = r.video /\ s.rev = r.rev /\ s.seen = r.seen
Over(s) == s.at = "idle" /\ ~s.old
Refused(r, s) == s.at \in {"lock_lost", "failed"} /\ s.video = r.video /\ ~s.old /\ ~r.old

LEMMA Placed ==
  ASSUME NEW r \in Underway, NEW place \in Places
  PROVE  [r EXCEPT !.at = place] \in Underway /\ At(r, [r EXCEPT !.at = place], place)
BY DEF Underway, Places, At

LEMMA Left ==
  ASSUME NEW r \in Underway
  PROVE  LET s == [r EXCEPT !.old = TRUE]
         IN  s \in Underway /\ s.at = r.at /\ s.old /\ s.video = r.video /\ s.rev = r.rev /\ s.seen = r.seen
BY DEF Underway

\* The answer of a handler.
LEMMA Answered ==
  ASSUME request \in [Tabs -> Request], NEW t \in Tabs, request[t] \in Underway,
         NEW outcome \in Outcomes, Answer(t, outcome)
  PROVE  /\ request' \in [Tabs -> Request]
         /\ \A u \in Tabs \ {t} : request'[u] = request[u]
         /\ \/ Over(request'[t])
            \/ Refused(request[t], request'[t])
            \/ /\ At(request[t], request'[t], "answered") /\ ~request[t].old
               /\ outcome = "answered"
<1> DEFINE r == request[t]
           s == [r EXCEPT !.at = "answered"]
           e == [at |-> outcome, video |-> r.video, old |-> FALSE]
<1>1. s \in Underway /\ At(r, s, "answered")
  BY Placed DEF Places
<1>2. /\ outcome # "answered" /\ ~r.old => e \in Ended /\ Refused(r, e)
      /\ Over(Idle)
  BY DEF Outcomes, Ended, Underway, Refused, Over, Idle
<1>3. /\ outcome = "answered" => request' = [request EXCEPT ![t] = IF r.old THEN Idle ELSE s]
      /\ outcome # "answered" => request' = [request EXCEPT ![t] = IF r.old THEN Idle ELSE e]
  BY Zenon DEF Answer
<1>4. r.old \in BOOLEAN
  BY DEF Underway
<1> HIDE DEF s, e
<1>5. /\ request' \in [Tabs -> Request]
      /\ \A u \in Tabs \ {t} : request'[u] = request[u]
      /\ request'[t] = IF r.old THEN Idle ELSE IF outcome = "answered" THEN s ELSE e
  BY <1>1, <1>2, <1>3 DEF Request
<1> QED BY <1>1, <1>2, <1>4, <1>5

-----------------------------------------------------------------------------
(* What everybody knows stays true *)

DiskStep == \A v \in Videos : Newer(disk[v], disk'[v])

LEMMA DiskKept == ASSUME TriageInv, disk' = disk PROVE DiskStep
BY DEF TriageInv, TypeOK, EntryInv, DiskStep, Newer, Entry

LEMMA SoundKept ==
  ASSUME TypeOK, disk' \in [Videos -> Entry], DiskStep, NEW v \in Videos, NEW rev \in Nat,
         NEW seen, Sound(v, rev, seen)
  PROVE  /\ rev <= disk'[v].rev
         /\ rev = disk'[v].rev =>
              /\ rev = disk[v].rev /\ disk'[v].seen \subseteq seen
              /\ disk'[v].noObject = disk[v].noObject
<1>1. disk[v].rev \in Nat /\ disk'[v].rev \in Nat
  BY DEF TypeOK, Entry
<1> QED BY <1>1 DEF DiskStep, Newer, Sound

LEMMA RequestTyped ==
  ASSUME TypeOK, NEW t \in Tabs
  PROVE  /\ request \in [Tabs -> Request] /\ request[t] \in Request
         /\ request[t].at \in Places => request[t] \in Underway
         /\ request[t].at \in {"lock_lost", "failed"} => request[t] \in Ended
         /\ request[t].at = "idle" => request[t] = Idle
         /\ request[t].at \in {"idle", "lock_lost", "failed"} \cup Places
         /\ request[t] \in Underway =>
              /\ request[t].video \in Videos /\ request[t].rev \in Nat
              /\ request[t].seen \subseteq 1..MaxSaves /\ request[t].old \in BOOLEAN
<1>1. request \in [Tabs -> Request] /\ request[t] \in Request
  BY DEF TypeOK, Request
<1> QED BY <1>1, Kind DEF Underway

LEMMA PageTyped ==
  ASSUME TypeOK, NEW t \in Tabs, tab[t].at # "closed"
  PROVE  /\ tab[t] \in Page /\ tab[t].video \in Videos /\ tab[t].rev \in Nat
         /\ tab[t].seen \subseteq 1..MaxSaves
<1>1. tab[t] \in Page
  BY DEF TypeOK, Closed
<1> QED BY <1>1 DEF Page

\* A tab and a request that a step leaves alone.
LEMMA Bystander ==
  ASSUME TriageInv, disk' \in [Videos -> Entry], DiskStep, NEW t \in Tabs,
         request'[t] = request[t], tab'[t] = tab[t]
  PROVE  RequestInv(t)' /\ TabInv(t)'
<1>0. TypeOK /\ RequestInv(t) /\ TabInv(t)
  BY DEF TriageInv
<1>1. TabInv(t)'
  <2> SUFFICES ASSUME tab[t].at = "editing" PROVE Sound(tab[t].video, tab[t].rev, tab[t].seen)'
    BY DEF TabInv
  <2>1. tab[t].video \in Videos /\ tab[t].rev \in Nat /\ Sound(tab[t].video, tab[t].rev, tab[t].seen)
    BY <1>0, PageTyped DEF TabInv
  <2> QED BY <1>0, <2>1, SoundKept DEF Sound
<1>2. RequestInv(t)'
  <2> DEFINE r == request[t]
  <2>1. CASE r.at \in {"sent", "ready", "marking", "answered"}
    <3>1. r.video \in Videos /\ r.rev \in Nat /\ Sound(r.video, r.rev, r.seen)
      BY <1>0, <2>1, RequestTyped DEF RequestInv, Places
    <3>2. /\ r.rev <= disk'[r.video].rev
          /\ r.rev = disk'[r.video].rev =>
               /\ r.rev = disk[r.video].rev /\ disk'[r.video].seen \subseteq r.seen
               /\ disk'[r.video].noObject = disk[r.video].noObject
      BY <1>0, <3>1, SoundKept
    <3> QED BY <1>0, <2>1, <3>2 DEF RequestInv, Sound
  <2>2. CASE r.at \notin {"sent", "ready", "marking", "answered"}
    BY <1>0, <2>2 DEF RequestInv
  <2> QED BY <2>1, <2>2
<1> QED BY <1>1, <1>2

\* A request that is over, or goes on to a place where nothing is asked of it.
LEMMA Ending ==
  ASSUME NEW t \in Tabs, Over(request'[t])
  PROVE  RequestInv(t)'
BY DEF RequestInv, Over

LEMMA Refusal ==
  ASSUME NEW t \in Tabs, RequestInv(t), request[t].at # "idle",
         Refused(request[t], request'[t]), tab'[t] = tab[t]
  PROVE  RequestInv(t)'
BY DEF RequestInv, Refused

OnlyTab(t) == \A u \in Tabs \ {t} : request'[u] = request[u] /\ tab'[u] = tab[u]

LEMMA Combine ==
  ASSUME TriageInv, TypeOK', DiskStep, \A v \in Videos : EntryInv(v)', WriterInv',
         NEW t \in Tabs, OnlyTab(t), RequestInv(t)', TabInv(t)'
  PROVE  TriageInv'
<1>1. disk' \in [Videos -> Entry]
  BY DEF TypeOK
<1>2. \A u \in Tabs \ {t} : RequestInv(u)' /\ TabInv(u)'
  BY <1>1, Bystander DEF OnlyTab
<1> QED BY <1>2 DEF TriageInv

\* Steps that leave the documents and the writer alone.
LEMMA CombineQuiet ==
  ASSUME TriageInv, TypeOK', UNCHANGED <<disk, memory, writer, draft>>,
         NEW t \in Tabs, OnlyTab(t), RequestInv(t)', TabInv(t)',
         request'[t].at = "applied" <=> request[t].at = "applied"
  PROVE  TriageInv'
<1>1. \A v \in Videos : EntryInv(v)'
  BY DEF TriageInv, EntryInv
<1>2. WriterInv'
  BY DEF TriageInv, WriterInv, OnlyTab
<1> QED BY <1>1, <1>2, DiskKept, Combine

LEMMA InitInv == Init => TriageInv
<1> SUFFICES ASSUME Init PROVE TriageInv
  OBVIOUS
<1>1. NoEntry \in Entry /\ Exported \in Entry /\ Exported.cleanup = "none" /\ NoEntry.cleanup = "none"
  BY TriageAssumption DEF NoEntry, Exported, Entry
<1>2. PICK entry \in Entry : entry.cleanup = "none" /\ disk = [v \in Videos |-> entry]
  BY <1>1 DEF Init
<1>3. TypeOK
  BY <1>2, TriageAssumption DEF Init, TypeOK, Lock, NoLock
<1>4. \A v \in Videos : EntryInv(v)
  BY <1>2 DEF Init, EntryInv, Same
<1>5. WriterInv
  BY TriageAssumption DEF Init, WriterInv, Idle
<1>6. \A t \in Tabs : RequestInv(t) /\ TabInv(t)
  BY DEF Init, RequestInv, TabInv, Idle, Closed
<1> QED BY <1>3, <1>4, <1>5, <1>6 DEF TriageInv

-----------------------------------------------------------------------------
(* The server *)

LEMMA EnterInv == ASSUME TriageInv, NEW t \in Tabs, EnterFence(t) PROVE TriageInv'
<1>0. /\ TypeOK /\ request[t].at = "sent" /\ request[t] \in Underway
      /\ UNCHANGED <<durable, lockVars, disk, writer, draft, restarts, browserVars>>
      /\ memory' \in {disk, memory}
  BY RequestTyped DEF TriageInv, EnterFence, Places
<1>1. /\ request' \in [Tabs -> Request] /\ fence' \in Tabs \cup {None}
      /\ \A u \in Tabs \ {t} : request'[u] = request[u]
      /\ \/ Over(request'[t])
         \/ Refused(request[t], request'[t])
         \/ At(request[t], request'[t], "ready")
  <2>1. CASE Answer(t, "lock_lost") /\ UNCHANGED fence
    BY <1>0, <2>1, RequestTyped, Answered DEF Outcomes, TypeOK
  <2>2. CASE /\ request' = [request EXCEPT ![t].at = "ready"]
             /\ fence' = IF durable THEN t ELSE None
    <3> DEFINE s == [request[t] EXCEPT !.at = "ready"]
    <3>1. s \in Underway /\ At(request[t], s, "ready")
      BY <1>0, Placed DEF Places
    <3>2. request' = [request EXCEPT ![t] = s]
      BY <2>2
    <3> HIDE DEF s
    <3> QED BY <1>0, <2>2, <3>1, <3>2, RequestTyped DEF Request
  <2> QED BY <2>1, <2>2 DEF EnterFence
<1>2. TypeOK'
  BY <1>0, <1>1 DEF TypeOK, Request, lockVars, browserVars
<1>3. \A v \in Videos : EntryInv(v)'
  BY <1>0 DEF TriageInv, EntryInv, Same
<1>4. request'[t].at # "applied"
  BY <1>1 DEF Over, Refused, At
<1>5. WriterInv'
  BY <1>0, <1>1, <1>4 DEF TriageInv, WriterInv
<1>6. RequestInv(t)'
  <2>1. RequestInv(t) /\ UNCHANGED <<disk, tab>>
    BY <1>0 DEF TriageInv, browserVars
  <2>2. CASE At(request[t], request'[t], "ready")
    BY <1>0, <2>1, <2>2 DEF RequestInv, Sound, At
  <2> QED BY <1>0, <1>1, <2>1, <2>2, Ending, Refusal
<1>7. TabInv(t)'
  BY <1>0 DEF TriageInv, TabInv, Sound, browserVars
<1> QED BY <1>0, <1>1, <1>2, <1>3, <1>5, <1>6, <1>7, DiskKept, Combine DEF OnlyTab, browserVars

\* What each writer makes of an entry.
LEMMA SavedNewer ==
  ASSUME NEW e \in Entry, NEW seen \in SUBSET (1..MaxSaves), e.seen \subseteq seen
  PROVE  Saved(e, seen) \in Entry /\ Newer(e, Saved(e, seen))
<1>1. e.rev \in Nat /\ e.rev + 1 \in Nat /\ e.export \in BOOLEAN
  BY DEF Entry
<1> DEFINE n == Saved(e, seen)
<1>2. n \in Entry
  BY <1>1, TriageAssumption DEF Saved, Entry
<1>3. n.rev = e.rev + 1 /\ n.seen = seen /\ n.cleanup = "none"
  BY DEF Saved
<1> HIDE DEF n
<1>4. Newer(e, n)
  <2>1. e.rev <= n.rev /\ e.rev # n.rev
    BY <1>1, <1>3
  <2>2. e.seen \subseteq n.seen
    BY <1>3
  <2> QED BY <1>3, <2>1, <2>2, Zenon DEF Newer
<1> QED BY <1>2, <1>4 DEF n

LEMMA EmptiedNewer ==
  ASSUME NEW e \in Entry, NEW seen \in SUBSET (1..MaxSaves), e.seen \subseteq seen,
         e.cleanup # "none" => e.noObject
  PROVE  Emptied(e, seen) \in Entry /\ Newer(e, Emptied(e, seen))
<1>1. e.rev \in Nat /\ e.rev + 1 \in Nat
  BY DEF Entry
<1>2. CASE SameDecision(e)
  <2>1. Emptied(e, seen) = [rev |-> e.rev, seen |-> e.seen, noObject |-> e.noObject,
                            export |-> e.export, mark |-> e.mark,
                            cleanup |-> IF e.cleanup = "none" THEN "none" ELSE "pending"]
    BY <1>2 DEF Emptied, Entry
  <2>2. e.noObject
    BY <1>2 DEF SameDecision
  <2> QED BY <1>1, <2>1, <2>2 DEF Entry, Newer
<1>3. CASE ~SameDecision(e)
  <2>1. Emptied(e, seen) = [rev |-> e.rev + 1, seen |-> seen, noObject |-> TRUE,
                            export |-> FALSE, mark |-> e.mark,
                            cleanup |-> IF e.export THEN "pending" ELSE "none"]
    BY <1>3 DEF Emptied, Entry
  <2> DEFINE n == Emptied(e, seen)
  <2> HIDE DEF n
  <2>2. n \in Entry
    BY <1>1, <2>1, TriageAssumption DEF Entry, n
  <2>3. n.rev = e.rev + 1 /\ n.seen = seen /\ n.noObject
    BY <2>1 DEF n
  <2>4. Newer(e, n)
    <3>1. e.rev <= n.rev /\ e.rev # n.rev
      BY <1>1, <2>3
    <3>2. e.seen \subseteq n.seen
      BY <2>3
    <3> QED BY <2>3, <3>1, <3>2, Zenon DEF Newer
  <2> QED BY <2>2, <2>4 DEF n
<1> QED BY <1>2, <1>3

LEMMA CleanupNewer ==
  ASSUME NEW e \in Entry, NEW rev \in Nat, NEW outcome \in {"queued", "deferred"},
         e.cleanup # "none" => e.noObject, e.rev = rev => e.noObject
  PROVE  /\ CleanupMarked(e, rev, outcome) \in Entry
         /\ Newer(e, CleanupMarked(e, rev, outcome))
BY DEF CleanupMarked, Entry, Newer

LEMMA NewerThanDisk ==
  ASSUME TriageInv, NEW v \in Videos, NEW new, Newer(memory[v], new) \/ Newer(disk[v], new)
  PROVE  Newer(disk[v], new)
BY DEF TriageInv, EntryInv, Same, Newer

\* The readers' document, too, has a cleanup only in a no-object entry.
LEMMA MemorySound ==
  ASSUME TriageInv, NEW v \in Videos
  PROVE  /\ memory[v] \in Entry /\ disk[v] \in Entry
         /\ memory[v].cleanup # "none" => memory[v].noObject
         /\ disk[v].cleanup # "none" => disk[v].noObject
         /\ Newer(memory[v], memory[v]) /\ Newer(disk[v], disk[v])
BY DEF TriageInv, TypeOK, EntryInv, Same, Newer, Entry

LEMMA ApplyInv == ASSUME TriageInv, NEW t \in Tabs, Apply(t) PROVE TriageInv'
<1> DEFINE r == request[t]
<1>0. /\ TypeOK /\ r.at = "ready" /\ r \in Underway /\ writer = None
      /\ r.video \in Videos /\ r.seen \in SUBSET (1..MaxSaves) /\ r.rev \in Nat
      /\ UNCHANGED <<durable, lockVars, disk, memory, restarts, browserVars>>
      /\ request \in [Tabs -> Request] /\ RequestInv(t)
  BY RequestTyped DEF TriageInv, Apply, Places
<1>1. CASE ~BaseIsCurrent(r)
  <2>1. /\ Answer(t, "failed") /\ UNCHANGED <<writer, draft>>
        /\ fence' \in Tabs \cup {None}
    BY <1>0, <1>1 DEF Apply, TypeOK
  <2>2. /\ request' \in [Tabs -> Request]
        /\ \A u \in Tabs \ {t} : request'[u] = request[u]
        /\ Over(request'[t]) \/ Refused(r, request'[t])
    BY <1>0, <2>1, Answered DEF Outcomes
  <2>3. TypeOK'
    BY <1>0, <2>1, <2>2 DEF TypeOK, Request, lockVars, browserVars
  <2>4. request'[t].at # "applied" /\ OnlyTab(t)
    BY <1>0, <2>2 DEF Over, Refused, OnlyTab, browserVars
  <2>5. RequestInv(t)' /\ TabInv(t)'
    BY <1>0, <2>2, Ending, Refusal DEF TriageInv, TabInv, Sound, browserVars
  <2> QED BY <1>0, <2>1, <2>3, <2>4, <2>5, CombineQuiet
<1>2. CASE BaseIsCurrent(r)
  <2> DEFINE new == IF r.kind = "save" THEN Saved(memory[r.video], r.seen)
                    ELSE Emptied(memory[r.video], r.seen)
             s == [r EXCEPT !.at = "applied"]
  <2>1. /\ writer' = t /\ UNCHANGED fence
        /\ draft' = [memory EXCEPT ![r.video] = new]
        /\ request' = [request EXCEPT ![t] = s]
    BY <1>2 DEF Apply
  <2>2. s \in Underway /\ At(r, s, "applied")
    BY <1>0, Placed DEF Places
  <2>3. memory[r.video].seen \subseteq r.seen
    BY <1>0, <1>2 DEF BaseIsCurrent, TriageInv, EntryInv, Same, RequestInv, Sound
  <2>4. new \in Entry /\ Newer(memory[r.video], new)
    BY <1>0, <2>3, MemorySound, SavedNewer, EmptiedNewer
  <2> HIDE DEF new, s
  <2>5. /\ draft' \in [Videos -> Entry]
        /\ \A v \in Videos : Newer(disk[v], draft'[v])
    <3>1. memory \in [Videos -> Entry]
      BY <1>0 DEF TypeOK
    <3>2. \A v \in Videos : Newer(memory[v], draft'[v])
      BY <1>0, <2>1, <2>4, <3>1, MemorySound
    <3> QED BY <1>0, <2>1, <2>4, <3>1, <3>2, NewerThanDisk
  <2>6. /\ request' \in [Tabs -> Request] /\ request'[t] = s
        /\ \A u \in Tabs \ {t} : request'[u] = request[u]
    BY <1>0, <2>1, <2>2 DEF Request
  <2>7. TypeOK'
    BY <1>0, <2>1, <2>5, <2>6, TriageAssumption DEF TypeOK, Request, lockVars, browserVars
  <2>8. \A v \in Videos : EntryInv(v)'
    BY <1>0 DEF TriageInv, EntryInv
  <2>9. WriterInv'
    <3>1. \A u \in Tabs \ {t} : request[u].at # "applied"
      BY <1>0, TriageAssumption DEF TriageInv, WriterInv
    <3>2. request'[t].at = "applied"
      BY <2>2, <2>6 DEF At
    <3> QED BY <1>0, <2>1, <2>5, <2>6, <3>1, <3>2 DEF WriterInv
  <2>10. RequestInv(t)'
    BY <1>0, <2>2, <2>6 DEF RequestInv, At, browserVars
  <2>11. TabInv(t)' /\ OnlyTab(t)
    BY <1>0, <2>6 DEF TriageInv, TabInv, Sound, OnlyTab, browserVars
  <2> QED BY <1>0, <2>7, <2>8, <2>9, <2>10, <2>11, DiskKept, Combine
<1> QED BY <1>1, <1>2

LEMMA Flushed ==
  ASSUME NEW r \in Underway, NEW place \in Places, NEW e \in Entry
  PROVE  /\ Told(r, place, e) \in Underway /\ Told(r, place, e).at = place
         /\ Told(r, place, e).rev = e.rev /\ Told(r, place, e).seen = e.seen
         /\ Told(r, place, e).old = r.old /\ Told(r, place, e).video = r.video
<1> DEFINE seen == e.seen
           rev == e.rev
<1>1. rev \in Nat /\ seen \in SUBSET (1..MaxSaves)
  BY DEF Entry
<1>2. Told(r, place, e) = [r EXCEPT !.at = place, !.rev = rev, !.seen = seen]
  BY DEF Told
<1> HIDE DEF seen, rev
<1>3. /\ Told(r, place, e) \in Underway /\ Told(r, place, e).at = place
      /\ Told(r, place, e).rev = rev /\ Told(r, place, e).seen = seen
      /\ Told(r, place, e).old = r.old /\ Told(r, place, e).video = r.video
  BY <1>1, <1>2 DEF Underway, Places
<1> QED BY <1>3 DEF seen, rev

LEMMA FlushInv == ASSUME TriageInv, NEW t \in Tabs, Flush(t) PROVE TriageInv' /\ DiskStep
<1> DEFINE r == request[t]
           e == draft[r.video]
           m == Told(r, "marking", e)
           a == Told(r, "answered", e)
           marks == r.kind = "no_object" /\ e.cleanup = "pending"
<1>0. /\ TypeOK /\ r.at = "applied" /\ r \in Underway /\ writer = t
      /\ r.video \in Videos /\ r.old \in BOOLEAN
      /\ UNCHANGED <<durable, lockVars, restarts, browserVars>>
      /\ request \in [Tabs -> Request] /\ RequestInv(t)
      /\ disk' = draft /\ memory' = draft /\ LeaveWriter(t)
  BY RequestTyped DEF TriageInv, WriterInv, Flush, Places
<1>1. draft \in [Videos -> Entry] /\ \A v \in Videos : Newer(disk[v], draft[v])
  BY <1>0, TriageAssumption DEF TriageInv, TypeOK, WriterInv
<1>2. /\ e \in Entry /\ e.rev \in Nat /\ e.seen \in SUBSET (1..MaxSaves)
      /\ e.cleanup # "none" => e.noObject
  BY <1>0, <1>1 DEF Entry, Newer
<1>3. request' = [request EXCEPT ![t] = IF marks THEN m ELSE IF r.old THEN Idle ELSE a]
  BY Zenon DEF Flush
<1>4. /\ m \in Underway /\ m.at = "marking" /\ m.rev = e.rev /\ m.seen = e.seen
      /\ m.old = r.old /\ m.video = r.video
      /\ a \in Underway /\ a.at = "answered" /\ a.rev = e.rev /\ a.seen = e.seen
      /\ a.old = r.old /\ a.video = r.video
  <2> HIDE DEF e
  <2> QED BY <1>0, <1>2, Flushed DEF Places
<1> HIDE DEF m, a
<1>5. /\ request' \in [Tabs -> Request]
      /\ \A u \in Tabs \ {t} : request'[u] = request[u]
      /\ request'[t] = IF marks THEN m ELSE IF r.old THEN Idle ELSE a
  BY <1>0, <1>3, <1>4 DEF Request
<1>6. TypeOK'
  BY <1>0, <1>1, <1>5 DEF TypeOK, Request, LeaveWriter, lockVars, browserVars
<1>7. \A v \in Videos : EntryInv(v)' /\ Newer(disk[v], disk'[v])
  <2>1. \A v \in Videos : memory'[v] = disk'[v] /\ (disk'[v].cleanup # "none" => disk'[v].noObject)
    BY <1>0, <1>1 DEF Newer
  <2> QED BY <1>0, <1>1, <2>1 DEF EntryInv, Same
<1>8. WriterInv'
  <2>1. request'[t].at # "applied"
    BY <1>4, <1>5 DEF Idle
  <2>2. \A u \in Tabs \ {t} : request[u].at # "applied"
    BY <1>0 DEF TriageInv, WriterInv
  <2> QED BY <1>0, <1>5, <2>1, <2>2, TriageAssumption DEF WriterInv, LeaveWriter
<1>9. RequestInv(t)'
  <2>1. disk'[r.video] = e /\ UNCHANGED tab
    BY <1>0 DEF browserVars
  <2>2. CASE marks
    <3>1. request'[t] = m /\ e.noObject
      BY <1>2, <1>5, <2>2
    <3>2. r.old \/ (tab[t].at = "editing" /\ tab[t].video = r.video)
      BY <1>0 DEF RequestInv
    <3> HIDE DEF e, r
    <3> QED BY <1>0, <1>2, <1>4, <2>1, <3>1, <3>2 DEF RequestInv, Sound
  <2>3. CASE ~marks /\ ~r.old
    <3>1. request'[t] = a
      BY <1>5, <2>3
    <3>2. tab[t].at = "editing" /\ tab[t].video = r.video
      BY <1>0, <2>3 DEF RequestInv
    <3>3. ~a.old
      BY <1>4, <2>3
    <3> HIDE DEF e, r
    <3> QED BY <1>0, <1>2, <1>4, <2>1, <3>1, <3>2, <3>3 DEF RequestInv, Sound
  <2>4. CASE ~marks /\ r.old
    BY <1>5, <2>4, Ending DEF Over, Idle
  <2> QED BY <2>2, <2>3, <2>4
<1>10. TabInv(t)'
  <2> SUFFICES ASSUME tab[t].at = "editing" PROVE Sound(tab[t].video, tab[t].rev, tab[t].seen)'
    BY <1>0 DEF TabInv, browserVars
  <2>1. tab[t].video \in Videos /\ tab[t].rev \in Nat /\ Sound(tab[t].video, tab[t].rev, tab[t].seen)
    BY <1>0, PageTyped DEF TriageInv, TabInv
  <2>2. disk' \in [Videos -> Entry] /\ DiskStep /\ UNCHANGED tab
    BY <1>0, <1>1, <1>7 DEF DiskStep, browserVars
  <2> QED BY <1>0, <2>1, <2>2, SoundKept DEF Sound
<1> QED BY <1>0, <1>5, <1>6, <1>7, <1>8, <1>9, <1>10, Combine DEF OnlyTab, DiskStep, browserVars

LEMMA FlushFailsInv == ASSUME TriageInv, NEW t \in Tabs, FlushFails(t) PROVE TriageInv'
<1>0. /\ TypeOK /\ request[t].at = "applied" /\ request[t] \in Underway /\ writer = t
      /\ UNCHANGED <<durable, lockVars, disk, memory, restarts, browserVars>>
      /\ request \in [Tabs -> Request] /\ RequestInv(t) /\ LeaveWriter(t) /\ Answer(t, "failed")
  BY RequestTyped DEF TriageInv, WriterInv, FlushFails, Places
<1>1. /\ request' \in [Tabs -> Request]
      /\ \A u \in Tabs \ {t} : request'[u] = request[u]
      /\ Over(request'[t]) \/ Refused(request[t], request'[t])
  BY <1>0, Answered DEF Outcomes
<1>2. TypeOK'
  BY <1>0, <1>1 DEF TypeOK, Request, LeaveWriter, lockVars, browserVars
<1>3. WriterInv'
  <2>1. request'[t].at # "applied"
    BY <1>1 DEF Over, Refused
  <2>2. \A u \in Tabs \ {t} : request[u].at # "applied"
    BY <1>0 DEF TriageInv, WriterInv
  <2> QED BY <1>0, <1>1, <2>1, <2>2, TriageAssumption DEF WriterInv, LeaveWriter
<1>4. RequestInv(t)' /\ TabInv(t)'
  BY <1>0, <1>1, Ending, Refusal DEF TriageInv, TabInv, Sound, browserVars
<1>5. \A v \in Videos : EntryInv(v)'
  BY <1>0 DEF TriageInv, EntryInv
<1> QED BY <1>0, <1>1, <1>2, <1>3, <1>4, <1>5, DiskKept, Combine DEF OnlyTab, browserVars

\* Nobody else is affected when a document is written in one step.
LEMMA CombineWritten ==
  ASSUME TriageInv, TypeOK', writer = None, UNCHANGED <<writer, draft>>,
         \A v \in Videos : Same(memory'[v], disk'[v]) /\ Newer(disk[v], disk'[v]),
         UNCHANGED <<request, tab>>
  PROVE  TriageInv'
<1>1. DiskStep /\ (\A v \in Videos : EntryInv(v)') /\ disk' \in [Videos -> Entry]
  BY DEF DiskStep, EntryInv, Newer, TypeOK
<1>2. WriterInv'
  BY DEF TriageInv, WriterInv
<1>3. \A t \in Tabs : RequestInv(t)' /\ TabInv(t)'
  BY <1>1, Bystander
<1> QED BY <1>1, <1>2, <1>3 DEF TriageInv

LEMMA MarkCleanupInv ==
  ASSUME TriageInv, NEW t \in Tabs, MarkCleanup(t) PROVE TriageInv' /\ DiskStep
<1> DEFINE r == request[t]
           source == IF durable THEN disk ELSE memory
<1>0. /\ TypeOK /\ r.at = "marking" /\ r \in Underway /\ writer = None
      /\ r.video \in Videos /\ r.rev \in Nat
      /\ UNCHANGED <<durable, lockVars, fence, writer, draft, restarts, browserVars>>
      /\ request \in [Tabs -> Request] /\ RequestInv(t)
      /\ \E outcome \in Outcomes : Answer(t, outcome)
  BY RequestTyped DEF TriageInv, MarkCleanup, Places, Outcomes
<1>1. source \in [Videos -> Entry] /\ source \in {disk, memory}
  BY <1>0 DEF TypeOK
<1>2. \A v \in Videos : /\ source[v].rev = disk[v].rev /\ source[v].noObject = disk[v].noObject
                        /\ source[v].cleanup # "none" => source[v].noObject
                        /\ source[v] \in Entry /\ Newer(source[v], source[v])
  BY <1>1, MemorySound DEF TriageInv, EntryInv, Same
<1>3. source[r.video].rev = r.rev => source[r.video].noObject
  BY <1>0, <1>2 DEF RequestInv
<1>4. /\ disk' \in [Videos -> Entry] /\ memory' \in [Videos -> Entry]
      /\ \A v \in Videos : Newer(disk[v], disk'[v]) /\ EntryInv(v)'
  <2>1. CASE disk' = disk /\ memory' = source
    <3> HIDE DEF source
    <3>1. \A v \in Videos : Newer(disk[v], disk[v])
      BY MemorySound
    <3>2. CASE memory' = disk
      BY <1>0, <2>1, <3>1, <3>2 DEF TypeOK, EntryInv, Same, Newer
    <3>3. CASE memory' = memory
      BY <1>0, <2>1, <3>1, <3>3 DEF TriageInv, TypeOK, EntryInv
    <3> QED BY <1>1, <2>1, <3>2, <3>3
  <2>2. ASSUME NEW outcome \in {"queued", "deferred"},
               disk' = [source EXCEPT ![r.video] =
                          CleanupMarked(source[r.video], r.rev, outcome)],
               memory' = disk'
        PROVE  /\ disk' \in [Videos -> Entry] /\ memory' \in [Videos -> Entry]
               /\ \A v \in Videos : Newer(disk[v], disk'[v]) /\ EntryInv(v)'
    <3> DEFINE new == CleanupMarked(source[r.video], r.rev, outcome)
    <3>1. new \in Entry /\ Newer(source[r.video], new)
      <4> HIDE DEF source
      <4> QED BY <1>0, <1>2, <1>3, CleanupNewer
    <3>2. disk' = [source EXCEPT ![r.video] = new] /\ memory' = disk'
      BY <2>2
    <3>3. /\ disk' \in [Videos -> Entry] /\ memory' \in [Videos -> Entry]
          /\ \A v \in Videos : Newer(source[v], disk'[v])
      <4> HIDE DEF source, new
      <4> QED BY <1>0, <1>1, <1>2, <3>1, <3>2
    <3>4. \A v \in Videos : Newer(disk[v], disk'[v])
      BY <1>1, <3>3, NewerThanDisk
    <3> QED BY <3>2, <3>3, <3>4 DEF EntryInv, Same, Newer
  <2> QED BY <2>1, <2>2 DEF MarkCleanup
<1>5. /\ request' \in [Tabs -> Request]
      /\ \A u \in Tabs \ {t} : request'[u] = request[u]
      /\ Over(request'[t]) \/ Refused(r, request'[t]) \/ (At(r, request'[t], "answered") /\ ~r.old)
  BY <1>0, Answered
<1>6. TypeOK'
  BY <1>0, <1>4, <1>5 DEF TypeOK, Request, lockVars, browserVars
<1>7. \A v \in Videos : EntryInv(v)'
  BY <1>4
<1>8. DiskStep
  BY <1>4 DEF DiskStep
<1>9. WriterInv'
  <2>1. request'[t].at # "applied"
    BY <1>5 DEF Over, Refused, At
  <2> QED BY <1>0, <1>5, <2>1 DEF TriageInv, WriterInv
<1>10. RequestInv(t)'
  <2>1. tab'[t] = tab[t]
    BY <1>0 DEF browserVars
  <2>2. CASE At(r, request'[t], "answered") /\ ~r.old
    <3>1. Sound(r.video, r.rev, r.seen)
      BY <1>0 DEF RequestInv
    <3>2. r.rev <= disk'[r.video].rev /\ (r.rev = disk'[r.video].rev => disk'[r.video].seen \subseteq r.seen)
      BY <1>0, <1>4, <1>8, <3>1, SoundKept
    <3> QED BY <1>0, <2>1, <2>2, <3>2 DEF RequestInv, Sound, At
  <2> QED BY <1>0, <1>5, <2>1, <2>2, Ending, Refusal
<1>11. TabInv(t)'
  <2> SUFFICES ASSUME tab[t].at = "editing" PROVE Sound(tab[t].video, tab[t].rev, tab[t].seen)'
    BY <1>0 DEF TabInv, browserVars
  <2>1. tab[t].video \in Videos /\ tab[t].rev \in Nat /\ Sound(tab[t].video, tab[t].rev, tab[t].seen)
    BY <1>0, PageTyped DEF TriageInv, TabInv
  <2> QED BY <1>0, <1>4, <1>8, <2>1, SoundKept DEF Sound, browserVars
<1> QED BY <1>0, <1>5, <1>6, <1>7, <1>8, <1>9, <1>10, <1>11, Combine DEF OnlyTab, browserVars

LEMMA FinishExportInv ==
  ASSUME TriageInv, NEW v \in Videos, FinishExport(v) PROVE TriageInv' /\ DiskStep
<1> DEFINE source == IF durable THEN disk ELSE memory
           new == [source[v] EXCEPT !.export = TRUE]
<1>0. /\ TypeOK /\ writer = None /\ disk' = [source EXCEPT ![v] = new] /\ memory' = disk'
      /\ UNCHANGED <<durable, lockVars, fence, writer, draft, restarts, request, browserVars>>
  BY DEF TriageInv, FinishExport
<1>1. source \in [Videos -> Entry] /\ source \in {disk, memory}
  BY <1>0 DEF TypeOK
<1>2. \A u \in Videos : /\ source[u].cleanup # "none" => source[u].noObject
                        /\ source[u] \in Entry /\ Newer(source[u], source[u])
  BY <1>1, MemorySound
<1>3. new \in Entry /\ Newer(source[v], new)
  <2>1. source[v] \in Entry /\ (source[v].cleanup # "none" => source[v].noObject)
    BY <1>2
  <2> HIDE DEF source
  <2>2. /\ new \in Entry /\ new.rev = source[v].rev /\ new.seen = source[v].seen
        /\ new.noObject = source[v].noObject /\ new.cleanup = source[v].cleanup
    BY <2>1 DEF Entry
  <2>3. source[v].rev <= new.rev
    BY <2>1, <2>2 DEF Entry
  <2> HIDE DEF new
  <2> QED BY <2>1, <2>2, <2>3 DEF Newer
<1> HIDE DEF new
<1>4. /\ disk' \in [Videos -> Entry]
      /\ \A u \in Videos : Newer(source[u], disk'[u])
  <2> HIDE DEF source
  <2> QED BY <1>0, <1>1, <1>2, <1>3
<1>5. \A u \in Videos : Newer(disk[u], disk'[u])
  BY <1>1, <1>4, NewerThanDisk
<1>6. TypeOK'
  BY <1>0, <1>4 DEF TypeOK, lockVars, browserVars
<1>7. \A u \in Videos : Same(memory'[u], disk'[u])
  BY <1>0 DEF Same
<1> QED BY <1>0, <1>5, <1>6, <1>7, CombineWritten DEF DiskStep, browserVars

LEMMA Sam3ResultInv ==
  ASSUME TriageInv, NEW v \in Videos, Sam3Result(v) PROVE TriageInv' /\ DiskStep
<1> DEFINE source == IF durable THEN disk ELSE memory
           new == [source[v] EXCEPT !.mark = TRUE]
<1>0. /\ TypeOK /\ writer = None /\ memory' = [source EXCEPT ![v] = new] /\ disk' \in {disk, memory'}
      /\ UNCHANGED <<durable, lockVars, fence, writer, draft, restarts, request, browserVars>>
  BY DEF TriageInv, Sam3Result
<1>1. source \in [Videos -> Entry] /\ source \in {disk, memory}
  BY <1>0 DEF TypeOK
<1>2. \A u \in Videos : /\ Same(source[u], disk[u]) /\ source[u] \in Entry
                        /\ disk[u] \in Entry /\ Newer(disk[u], disk[u])
                        /\ Newer(source[u], source[u])
  BY <1>1, MemorySound DEF TriageInv, EntryInv, Same
<1>3. new \in Entry /\ Same(new, source[v])
  <2>1. source[v] \in Entry
    BY <1>2
  <2> HIDE DEF source
  <2> QED BY <2>1 DEF Entry, Same
<1> HIDE DEF new
<1>4. /\ memory' \in [Videos -> Entry] /\ \A u \in Videos : Same(memory'[u], disk[u])
  <2> HIDE DEF source
  <2>1. Same(new, disk[v])
    BY <1>2, <1>3 DEF Same
  <2> QED BY <1>0, <1>1, <1>2, <1>3, <2>1
<1>5. disk' \in [Videos -> Entry] /\ \A u \in Videos : Same(memory'[u], disk'[u])
  BY <1>0, <1>4 DEF Same, TypeOK
<1>6. \A u \in Videos : Newer(disk[u], disk'[u])
  BY <1>0, <1>2, <1>4 DEF Newer, Same
<1>7. TypeOK'
  BY <1>0, <1>4, <1>5 DEF TypeOK, lockVars, browserVars
<1> QED BY <1>0, <1>5, <1>6, <1>7, CombineWritten DEF DiskStep, browserVars

LEMMA ExpireInv == ASSUME TriageInv, NEW v \in Videos, Expire(v) PROVE TriageInv'
<1>0. /\ locks' = [locks EXCEPT ![v] = NoLock]
      /\ UNCHANGED <<durable, tokens, storeVars, restarts, request, browserVars>>
  BY DEF Expire
<1>1. NoLock \in Lock
  BY TriageAssumption DEF NoLock, Lock
<1>2. TypeOK'
  BY <1>0, <1>1 DEF TriageInv, TypeOK, storeVars, browserVars
<1> QED BY <1>0, <1>2
        DEF TriageInv, EntryInv, WriterInv, RequestInv, TabInv, Sound, storeVars, browserVars

\* What is lost with the process: the draft and the requests, no document.
LEMMA RestartInv == ASSUME TriageInv, Restart PROVE TriageInv'
<1>0. /\ TypeOK /\ memory' = disk /\ writer' = None /\ draft' = None /\ fence' = None
      /\ restarts' \in 0..MaxRestarts
      /\ request' = [t \in Tabs |-> IF request[t].at = "idle" \/ request[t].old THEN Idle
                       ELSE [at |-> "failed", video |-> request[t].video, old |-> FALSE]]
      /\ UNCHANGED <<durable, tokens, disk, browserVars>>
  BY TriageAssumption DEF TriageInv, Restart, TypeOK
<1>1. locks' \in [Videos -> Lock]
  <2>1. NoLock \in Lock
    BY TriageAssumption DEF NoLock, Lock
  <2> QED BY <1>0, <2>1 DEF Restart, TypeOK
<1>2. ASSUME NEW t \in Tabs
      PROVE  /\ request'[t] \in Request
             /\ Over(request'[t]) \/ (Refused(request[t], request'[t]) /\ request[t].at # "idle")
  <2>1. CASE request[t].at = "idle" \/ request[t].old
    BY <1>0, <2>1 DEF Over, Idle, Request
  <2>2. CASE ~(request[t].at = "idle" \/ request[t].old)
    <3>1. request[t].video \in Videos
      <4>1. request[t] \in Underway \cup Ended
        BY <1>0, <2>2, RequestTyped DEF Request, Idle
      <4> QED BY <4>1 DEF Underway, Ended
    <3>2. request'[t] = [at |-> "failed", video |-> request[t].video, old |-> FALSE]
      BY <1>0, <2>2
    <3> QED BY <2>2, <3>1, <3>2 DEF Request, Ended, Refused
  <2> QED BY <2>1, <2>2
<1>3. TypeOK'
  <2>1. request' \in [Tabs -> Request]
    BY <1>0, <1>2
  <2> QED BY <1>0, <1>1, <2>1 DEF TypeOK, Request, browserVars
<1>4. \A v \in Videos : EntryInv(v)'
  BY <1>0 DEF TriageInv, EntryInv, Same
<1>5. WriterInv'
  <2>1. \A t \in Tabs : request'[t].at # "applied"
    BY <1>2 DEF Over, Refused
  <2> QED BY <1>0, <2>1, TriageAssumption DEF WriterInv
<1>6. ASSUME NEW t \in Tabs PROVE RequestInv(t)' /\ TabInv(t)'
  <2>1. tab'[t] = tab[t] /\ RequestInv(t)
    BY <1>0 DEF TriageInv, browserVars
  <2> QED BY <1>0, <1>2, <2>1, Ending, Refusal DEF TriageInv, TabInv, Sound, browserVars
<1> QED BY <1>3, <1>4, <1>5, <1>6 DEF TriageInv

-----------------------------------------------------------------------------
(* The tabs *)

LEMMA LeaveStep ==
  ASSUME TriageInv, NEW t \in Tabs, Leave(t), UNCHANGED disk
  PROVE  /\ request' \in [Tabs -> Request] /\ tab' \in [Tabs -> {Closed} \cup Page]
         /\ OnlyTab(t) /\ RequestInv(t)' /\ TabInv(t)'
         /\ request'[t].at = "applied" <=> request[t].at = "applied"
<1> DEFINE r == request[t]
           s == [r EXCEPT !.old = TRUE]
           ended == r.at \in {"idle"} \cup Outcomes
<1>0. /\ TypeOK /\ RequestInv(t) /\ request \in [Tabs -> Request]
      /\ r.at \in {"idle", "lock_lost", "failed"} \cup Places
      /\ r.at \in Places => r \in Underway
  BY RequestTyped DEF TriageInv
<1>1. tab' = [tab EXCEPT ![t] = Closed] /\ request' = [request EXCEPT ![t] = IF ended THEN Idle ELSE s]
  BY Zenon DEF Leave
<1>2. ~ended => /\ r.at \in Places /\ r.at # "answered"
                /\ s \in Underway /\ s.at = r.at /\ s.old /\ s.video = r.video /\ s.rev = r.rev
                /\ s.seen = r.seen
  BY <1>0, Left DEF Outcomes, Places
<1> HIDE DEF s
<1>3. /\ request' \in [Tabs -> Request] /\ request'[t] = IF ended THEN Idle ELSE s
      /\ tab' \in [Tabs -> {Closed} \cup Page] /\ tab'[t] = Closed /\ OnlyTab(t)
  BY <1>0, <1>1, <1>2 DEF TypeOK, Request, OnlyTab
<1>4. RequestInv(t)'
  <2>1. CASE ended
    BY <1>3, <2>1, Ending DEF Over, Idle
  <2>2. CASE ~ended
    <3>1. s.at = r.at /\ s.at \notin {"idle", "answered"}
      BY <1>2, <2>2 DEF Outcomes
    <3> HIDE DEF ended
    <3> QED BY <1>0, <1>2, <1>3, <2>2, <3>1 DEF RequestInv, Sound
  <2> QED BY <2>1, <2>2
<1>5. TabInv(t)'
  BY <1>3 DEF TabInv, Closed
<1>6. request'[t].at = "applied" <=> r.at = "applied"
  BY <1>2, <1>3 DEF Outcomes, Idle
<1> QED BY <1>3, <1>4, <1>5, <1>6

LEMMA LeaveInv ==
  ASSUME TriageInv, NEW t \in Tabs, Heartbeat(t) \/ Close(t)
  PROVE  TriageInv'
<1>1. Leave(t) /\ UNCHANGED <<durable, storeVars, restarts, saves>>
  BY DEF Heartbeat, Close
<1>2. locks' \in [Videos -> Lock] /\ tokens' = tokens
  <2>1. NoLock \in Lock
    BY TriageAssumption DEF NoLock, Lock
  <2> QED BY <2>1 DEF Heartbeat, Close, ReleaseLock, TriageInv, TypeOK, lockVars
<1>3. TypeOK'
  BY <1>1, <1>2, LeaveStep DEF TriageInv, TypeOK, Request, storeVars
<1> QED BY <1>1, <1>3, LeaveStep, CombineQuiet DEF storeVars

LEMMA OpenInv ==
  ASSUME TriageInv, NEW t \in Tabs, NEW v \in Videos, Open(t, v)
  PROVE  TriageInv'
<1>0. /\ TypeOK /\ tab[t].at = "closed" /\ tokens < MaxTokens /\ AcquireLock(v, t)
      /\ UNCHANGED <<durable, storeVars, restarts, saves, request>>
  BY DEF TriageInv, Open
<1>1. locks' \in [Videos -> Lock] /\ tokens' \in 0..MaxTokens
  BY <1>0, TriageAssumption DEF AcquireLock, TypeOK, Lock, lockVars
<1> DEFINE p == [Closed EXCEPT !.at = "loading", !.video = v, !.token = locks'[v].token]
<1>2. tab' \in {tab, [tab EXCEPT ![t] = p]}
  BY DEF Open
<1>3. p \in Page /\ p.at = "loading"
  <2>1. locks'[v].token \in 0..MaxTokens
    BY <1>1 DEF Lock
  <2> QED BY <2>1, TriageAssumption DEF Page, Closed
<1> HIDE DEF p
<1>4. TypeOK'
  BY <1>0, <1>1, <1>2, <1>3 DEF TypeOK, storeVars
<1>5. OnlyTab(t) /\ tab'[t].at # "editing"
  BY <1>0, <1>2, <1>3 DEF OnlyTab, TypeOK
<1>6. RequestInv(t)' /\ TabInv(t)'
  BY <1>0, <1>5 DEF TriageInv, RequestInv, TabInv, Sound, storeVars
<1> QED BY <1>0, <1>4, <1>5, <1>6, CombineQuiet DEF storeVars

LEMMA LoadInv == ASSUME TriageInv, NEW t \in Tabs, Load(t) PROVE TriageInv'
<1> DEFINE entry == memory[tab[t].video]
           p == [tab[t] EXCEPT !.at = "editing", !.rev = entry.rev, !.seen = entry.seen]
<1>0. /\ TypeOK /\ tab[t].at = "loading" /\ tab[t] \in Page /\ tab[t].video \in Videos
      /\ UNCHANGED <<durable, lockVars, storeVars, restarts, saves, request>>
      /\ tab' = [tab EXCEPT ![t] = p] /\ RequestInv(t)
  BY PageTyped DEF TriageInv, Load
<1>1. entry \in Entry /\ entry.rev \in Nat /\ entry.seen \in SUBSET (1..MaxSaves)
      /\ Same(entry, disk[tab[t].video]) /\ disk[tab[t].video] \in Entry
  BY <1>0, MemorySound DEF TriageInv, EntryInv, Entry
<1>2. p \in Page /\ p.at = "editing" /\ p.video = tab[t].video /\ p.rev = entry.rev
      /\ p.seen = entry.seen
  <2> HIDE DEF entry
  <2> QED BY <1>0, <1>1 DEF Page
<1> HIDE DEF entry, p
<1>3. tab' \in [Tabs -> {Closed} \cup Page] /\ tab'[t] = p /\ OnlyTab(t)
  BY <1>0, <1>2 DEF TypeOK, OnlyTab
<1>4. TypeOK'
  BY <1>0, <1>3 DEF TypeOK, lockVars, storeVars
<1>5. TabInv(t)'
  <2>1. p.rev <= disk[p.video].rev
    BY <1>1, <1>2 DEF Same, Entry
  <2> QED BY <1>0, <1>1, <1>2, <1>3, <2>1 DEF TabInv, Sound, Same, storeVars
<1>6. RequestInv(t)'
  BY <1>0 DEF RequestInv, Sound, storeVars
<1> QED BY <1>0, <1>3, <1>4, <1>5, <1>6, CombineQuiet DEF storeVars

LEMMA SendInv ==
  ASSUME TriageInv, NEW t \in Tabs, NEW kind \in Kinds, Send(t, kind)
  PROVE  TriageInv'
<1> DEFINE p == tab[t]
           s == [at |-> "sent", kind |-> kind, video |-> p.video, token |-> p.token,
                 rev |-> p.rev, seen |-> p.seen \cup {saves'}, old |-> FALSE]
<1>0. /\ TypeOK /\ p.at = "editing" /\ request[t].at = "idle" /\ p \in Page
      /\ p.video \in Videos /\ p.rev \in Nat /\ p.seen \subseteq 1..MaxSaves
      /\ UNCHANGED <<durable, lockVars, storeVars, restarts, tab>>
      /\ request' = [request EXCEPT ![t] = s]
      /\ request \in [Tabs -> Request] /\ Sound(p.video, p.rev, p.seen) /\ TabInv(t)
  BY PageTyped, RequestTyped DEF TriageInv, TabInv, Send
<1>1. saves' \in 1..MaxSaves
  BY <1>0, TriageAssumption DEF Send, TypeOK
<1>2. s \in Underway
  <2>1. p.token \in 0..MaxTokens
    BY <1>0 DEF Page
  <2> QED BY <1>0, <1>1, <2>1 DEF Underway
<1>3. /\ s.at = "sent" /\ ~s.old /\ s.video = p.video /\ s.rev = p.rev
      /\ p.seen \subseteq s.seen
  OBVIOUS
<1> HIDE DEF s
<1>4. request' \in [Tabs -> Request] /\ request'[t] = s /\ OnlyTab(t)
  BY <1>0, <1>2 DEF Request, OnlyTab
<1>5. TypeOK'
  BY <1>0, <1>1, <1>4 DEF TypeOK, Request, lockVars, storeVars
<1>6. RequestInv(t)'
  <2>1. disk' = disk /\ tab' = tab
    BY <1>0 DEF storeVars
  <2>2. Sound(p.video, p.rev, s.seen)
    BY <1>0, <1>3 DEF Sound
  <2> QED BY <1>0, <1>3, <1>4, <2>1, <2>2 DEF RequestInv, Sound
<1>7. TabInv(t)'
  BY <1>0 DEF TabInv, Sound, storeVars
<1> QED BY <1>0, <1>3, <1>4, <1>5, <1>6, <1>7, CombineQuiet DEF storeVars

LEMMA TakeAnswerInv ==
  ASSUME TriageInv, NEW t \in Tabs, TakeAnswer(t)
  PROVE  TriageInv'
<1> DEFINE r == request[t]
           p == [tab[t] EXCEPT !.rev = r.rev, !.seen = r.seen]
<1>0. /\ TypeOK /\ r.at = "answered" /\ r \in Underway /\ r.rev \in Nat
      /\ r.seen \subseteq 1..MaxSaves
      /\ UNCHANGED <<durable, lockVars, storeVars, restarts, saves>>
      /\ request' = [request EXCEPT ![t] = Idle] /\ tab' = [tab EXCEPT ![t] = p]
      /\ request \in [Tabs -> Request] /\ RequestInv(t)
  BY RequestTyped DEF TriageInv, TakeAnswer, Places
<1>1. /\ tab[t].at = "editing" /\ tab[t].video = r.video /\ tab[t] \in Page
      /\ Sound(r.video, r.rev, r.seen)
  <2>1. tab[t].at = "editing" /\ tab[t].video = r.video /\ Sound(r.video, r.rev, r.seen)
    BY <1>0 DEF RequestInv
  <2> QED BY <1>0, <2>1, PageTyped
<1>2. p \in Page /\ p.at = "editing" /\ p.video = r.video /\ p.rev = r.rev /\ p.seen = r.seen
  BY <1>0, <1>1 DEF Page
<1> HIDE DEF p
<1>3. /\ request' \in [Tabs -> Request] /\ request'[t] = Idle
      /\ tab' \in [Tabs -> {Closed} \cup Page] /\ tab'[t] = p /\ OnlyTab(t)
  BY <1>0, <1>2 DEF TypeOK, Request, OnlyTab
<1>4. TypeOK'
  BY <1>0, <1>3 DEF TypeOK, Request, lockVars, storeVars
<1>5. TabInv(t)'
  BY <1>0, <1>1, <1>2, <1>3 DEF TabInv, Sound, storeVars
<1>6. RequestInv(t)'
  BY <1>3, Ending DEF Over, Idle
<1> QED BY <1>0, <1>3, <1>4, <1>5, <1>6, CombineQuiet DEF storeVars, Idle

LEMMA TakeErrorInv ==
  ASSUME TriageInv, NEW t \in Tabs, TakeError(t)
  PROVE  TriageInv'
<1>0. /\ TypeOK /\ request[t].at \in Outcomes
      /\ UNCHANGED <<durable, lockVars, storeVars, restarts, saves>>
      /\ request' = [request EXCEPT ![t] = Idle]
      /\ tab' \in {tab, [tab EXCEPT ![t] = Closed]}
      /\ request \in [Tabs -> Request] /\ TabInv(t)
  BY RequestTyped DEF TriageInv, TakeError
<1>1. /\ request' \in [Tabs -> Request] /\ request'[t] = Idle
      /\ tab' \in [Tabs -> {Closed} \cup Page] /\ tab'[t] \in {tab[t], Closed} /\ OnlyTab(t)
  BY <1>0 DEF TypeOK, Request, OnlyTab
<1>2. TypeOK'
  BY <1>0, <1>1 DEF TypeOK, Request, lockVars, storeVars
<1>3. TabInv(t)'
  BY <1>0, <1>1 DEF TabInv, Sound, Closed, storeVars
<1>4. RequestInv(t)'
  BY <1>1, Ending DEF Over, Idle
<1> QED BY <1>0, <1>1, <1>2, <1>3, <1>4, CombineQuiet DEF storeVars, Idle, Outcomes

-----------------------------------------------------------------------------
(* The theorems *)

LEMMA InvStep == TriageInv /\ [Next]_vars => TriageInv' /\ DiskStep
<1> SUFFICES ASSUME TriageInv, [Next]_vars PROVE TriageInv' /\ DiskStep
  OBVIOUS
<1>1. ASSUME NEW t \in Tabs, Serve(t) PROVE TriageInv' /\ DiskStep
  <2>1. CASE EnterFence(t)
    BY <2>1, EnterInv, DiskKept DEF EnterFence
  <2>2. CASE Apply(t)
    BY <2>2, ApplyInv, DiskKept DEF Apply
  <2>3. CASE Flush(t)
    BY <2>3, FlushInv
  <2>4. CASE FlushFails(t)
    BY <2>4, FlushFailsInv, DiskKept DEF FlushFails
  <2>5. CASE MarkCleanup(t)
    BY <2>5, MarkCleanupInv
  <2> QED BY <1>1, <2>1, <2>2, <2>3, <2>4, <2>5 DEF Serve
<1>2. ASSUME NEW t \in Tabs, Browse(t) PROVE TriageInv' /\ DiskStep
  <2>1. ASSUME NEW v \in Videos, Open(t, v) PROVE TriageInv' /\ DiskStep
    BY <2>1, OpenInv, DiskKept DEF Open, storeVars
  <2>2. CASE Load(t)
    BY <2>2, LoadInv, DiskKept DEF Load, storeVars
  <2>3. CASE Heartbeat(t) \/ Close(t)
    BY <2>3, LeaveInv, DiskKept DEF Heartbeat, Close, storeVars
  <2>4. ASSUME NEW kind \in Kinds, Send(t, kind) PROVE TriageInv' /\ DiskStep
    BY <2>4, SendInv, DiskKept DEF Send, storeVars
  <2>5. CASE TakeAnswer(t)
    BY <2>5, TakeAnswerInv, DiskKept DEF TakeAnswer, storeVars
  <2>6. CASE TakeError(t)
    BY <2>6, TakeErrorInv, DiskKept DEF TakeError, storeVars
  <2> QED BY <1>2, <2>1, <2>2, <2>3, <2>4, <2>5, <2>6 DEF Browse
<1>3. ASSUME NEW v \in Videos, Expire(v) \/ FinishExport(v) \/ Sam3Result(v)
      PROVE  TriageInv' /\ DiskStep
  <2>1. CASE Expire(v)
    BY <2>1, ExpireInv, DiskKept DEF Expire, storeVars
  <2> QED BY <1>3, <2>1, FinishExportInv, Sam3ResultInv
<1>4. CASE Restart
  BY <1>4, RestartInv, DiskKept DEF Restart
<1>5. CASE UNCHANGED vars
  <2>1. TriageInv'
    BY <1>5 DEF vars, lockVars, storeVars, browserVars, TriageInv, TypeOK, EntryInv, WriterInv,
                RequestInv, TabInv, Sound
  <2> QED BY <1>5, <2>1, DiskKept DEF vars, storeVars
<1> QED BY <1>1, <1>2, <1>3, <1>4, <1>5 DEF Next

THEOREM Invariance == Spec => []TriageInv
BY InitInv, InvStep, PTL DEF Spec

\* Every variable has its type, the requests and the tabs included, however many
\* tabs, videos, saves, tokens and restarts there are.
THEOREM TypeCorrect == Spec => []TypeOK
<1>1. TriageInv => TypeOK
  BY DEF TriageInv
<1> QED BY <1>1, Invariance, PTL

\* Readers are never shown a save that a restart could take back, and the state
\* of a cleanup stands only in a no-object entry, wherever the API fails.
THEOREM EntriesAreSound == Spec => []EntriesSound
<1>1. TriageInv => EntriesSound
  BY DEF TriageInv, EntryInv, Same, EntriesSound
<1> QED BY <1>1, Invariance, PTL

\* No committed save disappears under one that was not made on top of it: the
\* revision decides it alone, whoever holds, steals or loses the triage lock.
THEOREM NoSaveIsOverwritten == Spec => NoSaveOverwritten
<1>1. TriageInv /\ [Next]_vars => [\A v \in Videos : disk[v].seen \subseteq disk'[v].seen]_vars
  BY InvStep DEF DiskStep, Newer
<1> QED BY <1>1, Invariance, PTL DEF Spec, NoSaveOverwritten
=============================================================================
