------------------------------- MODULE Triage -------------------------------
(***************************************************************************)
(* The triage of the videos of one object: the lock registry of the API    *)
(* (locks.py), the annotation document of the object (store.py) in memory  *)
(* and on disk, the requests that change it (routers/annotations.py), and  *)
(* the browser tabs that open, save and close a video.                     *)
(*                                                                         *)
(* The content of an entry is abstracted to what the properties tell       *)
(* apart: its revision, whether it is a no-object decision, whether it has *)
(* an export, the state of its cleanup, the SAM3 mark, and the set "seen"  *)
(* of the saves it was derived from.                                       *)
(***************************************************************************)
EXTENDS Naturals, FiniteSets

CONSTANTS
    Tabs, Videos, None,
    MaxSaves,       \* bound: mutations sent by the tabs
    MaxTokens,      \* bound: lock tokens handed out
    MaxRestarts     \* bound: restarts of the API process

ASSUME TriageAssumption ==
    /\ None \notin Tabs
    /\ MaxSaves \in Nat /\ MaxTokens \in Nat /\ MaxRestarts \in Nat

VARIABLES
    durable,        \* is there a database (durable_jobs.enabled())?
    locks,          \* LockRegistry._locks
    tokens,         \* number of tokens handed out
    disk,           \* annotations.json
    memory,         \* AnnotationStore._doc
    fence,          \* holder of the advisory lock of the object, or None
    writer,         \* holder of AnnotationStore._lock, or None
    draft,          \* the candidate of the writer, or None
    saves,          \* number of mutations sent so far, the names in "seen"
    restarts,
    request,        \* the mutation of each tab on its way
    tab             \* the video each tab has open

lockVars    == <<locks, tokens>>
storeVars   == <<disk, memory, fence, writer, draft>>
browserVars == <<saves, tab>>
vars == <<durable, lockVars, storeVars, restarts, request, browserVars>>

(***************************************************************************)
(* Locks.  An expired lock is gone: _live pops it before anyone sees it,   *)
(* and _load drops it from the mirror.  locks.json has every lock (each    *)
(* change of holder is mirrored by force), but a debounced renewal leaves  *)
(* an earlier expiry there: a restart brings some of the locks back.       *)
(***************************************************************************)
NoLock == [holder |-> None, token |-> 0]
Lock   == [holder : Tabs \cup {None}, token : 0..MaxTokens]

HeldBy(v, t, k) == k # 0 /\ locks[v] = [holder |-> t, token |-> k]

Acquirable(v, t, force) == locks[v].holder \in {None, t} \/ force

\* LockRegistry.acquire: renewal, or a new lock with a new token.
AcquireLock(v, t) ==
    IF locks[v].holder = t
    THEN UNCHANGED lockVars
    ELSE /\ tokens' = tokens + 1
         /\ locks' = [locks EXCEPT ![v] = [holder |-> t, token |-> tokens']]

ReleaseLock(v, t, k) ==
    /\ IF HeldBy(v, t, k)
       THEN locks' = [locks EXCEPT ![v] = NoLock]
       ELSE UNCHANGED locks
    /\ UNCHANGED tokens

\* TTL_SECONDS without a heartbeat.
Expire(v) ==
    /\ locks[v] # NoLock
    /\ locks' = [locks EXCEPT ![v] = NoLock]
    /\ UNCHANGED <<durable, tokens, storeVars, restarts, request, browserVars>>

(***************************************************************************)
(* Entries of the document.                                                *)
(***************************************************************************)
NoEntry == [rev |-> 0, seen |-> {}, noObject |-> FALSE, export |-> FALSE,
            cleanup |-> "none", mark |-> FALSE]

\* An entry of an earlier run, saved once and exported.
Exported == [NoEntry EXCEPT !.rev = 1, !.export = TRUE]

\* put_one, apply: the content is that of the tab, which had seen "seen";
\* the export stays, the cleanup and the SAM3 mark go.
Saved(entry, seen) ==
    [rev |-> entry.rev + 1, seen |-> seen, noObject |-> FALSE, export |-> entry.export,
     cleanup |-> "none", mark |-> FALSE]

\* mark_no_object, apply: the same decision again keeps the revision.  Every
\* decision asks for the removal of the export and keeps the notes.
SameDecision(entry) == entry.noObject /\ ~entry.export

Emptied(entry, seen) ==
    IF SameDecision(entry)
    THEN [entry EXCEPT !.cleanup = IF @ = "none" THEN @ ELSE "pending"]
    ELSE [entry EXCEPT !.rev = @ + 1, !.seen = seen, !.noObject = TRUE,
                       !.export = FALSE,
                       !.cleanup = IF entry.export THEN "pending" ELSE "none"]

\* Faulty: the outcome is written into whatever the entry is by now.
CleanupMarkedAnyway(entry, rev, outcome) == [entry EXCEPT !.cleanup = outcome]

\* _update_cleanup_marker
CleanupMarked(entry, rev, outcome) ==
    IF entry.rev = rev THEN [entry EXCEPT !.cleanup = outcome] ELSE entry

(***************************************************************************)
(* The server side of a mutation.  A request is a record; "at" is how far  *)
(* its handler got.  "old" says that the tab has left the video since.     *)
(***************************************************************************)
Idle == [at |-> "idle", old |-> FALSE]
Kinds == {"save", "no_object"}
Outcomes == {"answered", "lock_lost", "failed"}

\* The handler answers; nobody listens once the tab has left the video.
Answer(t, outcome) ==
    request' = [request EXCEPT ![t] =
                  IF @.old THEN Idle
                  ELSE IF outcome = "answered" THEN [@ EXCEPT !.at = outcome]
                  ELSE [at |-> outcome, video |-> @.video, old |-> FALSE]]

\* _video_mutation_lock and _require_lock: advisory lock, reload, and the
\* triage lock last.  A server without database only looks at that.  The look
\* before the first await of the handler refuses nothing that this one takes.
EnterFence(t) ==
    LET r == request[t] IN
    /\ r.at = "sent"
    /\ fence = None
    /\ memory' = IF durable THEN disk ELSE memory
    /\ IF HeldBy(r.video, t, r.token)
       THEN /\ request' = [request EXCEPT ![t].at = "ready"]
            /\ fence' = IF durable THEN t ELSE None
       ELSE /\ Answer(t, "lock_lost")
            /\ UNCHANGED fence
    /\ UNCHANGED <<durable, lockVars, disk, writer, draft, restarts, browserVars>>

\* Faulty: the triage lock is trusted to keep other saves away.
BaseIsLocked(r) == memory[r.video].rev >= r.rev

BaseIsCurrent(r) == memory[r.video].rev = r.rev

\* mutate_threaded: a private copy is changed; a stale revision is a 409.
Apply(t) ==
    LET r == request[t] IN
    /\ r.at = "ready"
    /\ writer = None
    /\ IF BaseIsCurrent(r)
       THEN /\ writer' = t
            /\ draft' = [memory EXCEPT ![r.video] =
                            IF r.kind = "save" THEN Saved(@, r.seen) ELSE Emptied(@, r.seen)]
            /\ request' = [request EXCEPT ![t].at = "applied"]
            /\ UNCHANGED fence
       ELSE /\ Answer(t, "failed")
            /\ fence' = IF durable THEN None ELSE fence
            /\ UNCHANGED <<writer, draft>>
    /\ UNCHANGED <<durable, lockVars, disk, memory, restarts, browserVars>>

LeaveWriter(t) ==
    /\ writer' = None
    /\ draft' = None
    /\ fence' = IF durable THEN None ELSE fence

\* entry_revision of the response, from the entry that was flushed.
Told(r, place, entry) == [r EXCEPT !.at = place, !.rev = entry.rev, !.seen = entry.seen]

\* _flush(candidate): on disk first, then the document of the readers.  A
\* cleanup that is wanted is queued before the handler answers.
Flush(t) ==
    LET r == request[t]  entry == draft[r.video] IN
    /\ r.at = "applied"
    /\ disk' = draft /\ memory' = draft
    /\ LeaveWriter(t)
    /\ request' = [request EXCEPT ![t] =
         IF r.kind = "no_object" /\ entry.cleanup = "pending"
         THEN Told(@, "marking", entry)
         ELSE IF r.old THEN Idle
         ELSE Told(@, "answered", entry)]
    /\ UNCHANGED <<durable, lockVars, restarts, browserVars>>

FlushFails(t) ==
    /\ request[t].at = "applied"
    /\ LeaveWriter(t)
    /\ Answer(t, "failed")
    /\ UNCHANGED <<durable, lockVars, disk, memory, restarts, browserVars>>

\* The second fence of mark_no_object: the job of the cleanup was queued or not.
\* It looks at no triage lock (force), but its flush may fail too.
MarkCleanup(t) ==
    LET r == request[t]  source == IF durable THEN disk ELSE memory IN
    /\ r.at = "marking"
    /\ fence = None /\ writer = None
    /\ \/ /\ \E outcome \in IF durable THEN {"queued", "deferred"} ELSE {"deferred"} :
                disk' = [source EXCEPT ![r.video] = CleanupMarked(@, r.rev, outcome)]
          /\ memory' = disk'
          /\ Answer(t, "answered")
       \/ /\ Answer(t, "failed")
          /\ memory' = source
          /\ UNCHANGED disk
    /\ UNCHANGED <<durable, lockVars, fence, writer, draft, restarts, browserVars>>

\* Some export of the video completes (ExportPublish has the detail).
FinishExport(v) ==
    /\ fence = None /\ writer = None
    /\ LET source == IF durable THEN disk ELSE memory IN
       /\ source[v].rev > 0 /\ ~source[v].noObject /\ ~source[v].export
       /\ disk' = [source EXCEPT ![v].export = TRUE]
    /\ memory' = disk'
    /\ UNCHANGED <<durable, lockVars, fence, writer, draft, restarts, request, browserVars>>

\* AnnotationStore.mutate, used for a SAM3 result: the readers' document
\* changes first, then it is flushed, and an error leaves it changed.
Sam3Result(v) ==
    /\ fence = None /\ writer = None
    /\ LET source == IF durable THEN disk ELSE memory IN
       /\ source[v].export /\ ~source[v].mark
       /\ memory' = [source EXCEPT ![v].mark = TRUE]
    /\ disk' \in {disk, memory'}
    /\ UNCHANGED <<durable, lockVars, fence, writer, draft, restarts, request, browserVars>>

\* The process ends; bind and load read both files back, the locks that have
\* not expired by then.
Restart ==
    /\ restarts < MaxRestarts
    /\ restarts' = restarts + 1
    /\ memory' = disk
    /\ fence' = None /\ writer' = None /\ draft' = None
    /\ \E kept \in SUBSET Videos :
          locks' = [v \in Videos |-> IF v \in kept THEN locks[v] ELSE NoLock]
    /\ request' = [t \in Tabs |-> IF request[t].at = "idle" \/ request[t].old THEN Idle
                     ELSE [at |-> "failed", video |-> request[t].video, old |-> FALSE]]
    /\ UNCHANGED <<durable, tokens, disk, browserVars>>

(***************************************************************************)
(* The tabs.  A tab that is refused the lock, or learns that it lost it,   *)
(* turns read only: it sends nothing more, and here it is as good as       *)
(* closed.                                                                 *)
(***************************************************************************)
Closed == [at |-> "closed", video |-> None, token |-> 0, rev |-> 0, seen |-> {}]

Leave(t) ==
    /\ tab' = [tab EXCEPT ![t] = Closed]
    /\ request' = [request EXCEPT ![t] = IF @.at \in {"idle"} \cup Outcomes THEN Idle
                                         ELSE [@ EXCEPT !.old = TRUE]]

\* POST /lock; a tab that was closed before the answer leaves its lock behind.
Open(t, v) ==
    /\ tab[t].at = "closed"
    /\ tokens < MaxTokens
    /\ \E force \in BOOLEAN : Acquirable(v, t, force)
    /\ AcquireLock(v, t)
    /\ tab' \in {tab, [tab EXCEPT ![t] = [Closed EXCEPT !.at = "loading", !.video = v,
                                                        !.token = locks'[v].token]]}
    /\ UNCHANGED <<durable, storeVars, restarts, saves, request>>

\* GET /annotations/{video}, from memory.
Load(t) ==
    /\ tab[t].at = "loading"
    /\ LET entry == memory[tab[t].video] IN
       tab' = [tab EXCEPT ![t].at = "editing", ![t].rev = entry.rev, ![t].seen = entry.seen]
    /\ UNCHANGED <<durable, lockVars, storeVars, restarts, saves, request>>

\* save, markNoBoom; their buttons wait for the one under way.
Send(t, kind) ==
    /\ tab[t].at = "editing"
    /\ request[t].at = "idle"
    /\ saves < MaxSaves
    /\ saves' = saves + 1
    /\ request' = [request EXCEPT ![t] =
         [at |-> "sent", kind |-> kind, video |-> tab[t].video, token |-> tab[t].token,
          rev |-> tab[t].rev, seen |-> tab[t].seen \cup {saves'}, old |-> FALSE]]
    /\ UNCHANGED <<durable, lockVars, storeVars, restarts, tab>>

TakeAnswer(t) ==
    LET r == request[t] IN
    /\ r.at = "answered"
    /\ request' = [request EXCEPT ![t] = Idle]
    /\ tab' = [tab EXCEPT ![t].rev = r.rev, ![t].seen = r.seen]
    /\ UNCHANGED <<durable, lockVars, storeVars, restarts, saves>>

\* An error, or an answer that never came: the tab keeps its revision.  A
\* 409 that names another lock makes it read only, if a save got it.
TakeError(t) ==
    LET r == request[t] IN
    /\ r.at \in Outcomes
    /\ request' = [request EXCEPT ![t] = Idle]
    /\ tab' \in IF r.at = "lock_lost" /\ locks[r.video] # NoLock
                THEN {tab, [tab EXCEPT ![t] = Closed]} ELSE {tab}
    /\ UNCHANGED <<durable, lockVars, storeVars, restarts, saves>>

\* setActiveVideo every HEARTBEAT_MS renews the lock (which only puts off
\* Expire) or reports it lost.
Heartbeat(t) ==
    /\ tab[t].at \in {"loading", "editing"}
    /\ ~HeldBy(tab[t].video, t, tab[t].token)
    /\ Leave(t)
    /\ UNCHANGED <<durable, lockVars, storeVars, restarts, saves>>

\* close with its release, or the end of the tab without one.
Close(t) ==
    /\ tab[t].at # "closed"
    /\ Leave(t)
    /\ \/ ReleaseLock(tab[t].video, t, tab[t].token)
       \/ UNCHANGED lockVars
    /\ UNCHANGED <<durable, storeVars, restarts, saves>>

-----------------------------------------------------------------------------
Init ==
    /\ durable \in BOOLEAN
    /\ locks = [v \in Videos |-> NoLock]
    /\ tokens = 0
    /\ \E entry \in {NoEntry, Exported} : disk = [v \in Videos |-> entry]
    /\ memory = disk
    /\ fence = None /\ writer = None /\ draft = None
    /\ saves = 0 /\ restarts = 0
    /\ request = [t \in Tabs |-> Idle]
    /\ tab = [t \in Tabs |-> Closed]

Serve(t) ==
    \/ EnterFence(t) \/ Apply(t) \/ Flush(t) \/ FlushFails(t)
    \/ MarkCleanup(t)

Browse(t) ==
    \/ \E v \in Videos : Open(t, v)
    \/ Load(t) \/ Heartbeat(t)
    \/ \E kind \in Kinds : Send(t, kind)
    \/ TakeAnswer(t) \/ TakeError(t) \/ Close(t)

Next ==
    \/ \E t \in Tabs : Serve(t) \/ Browse(t)
    \/ \E v \in Videos : Expire(v) \/ FinishExport(v) \/ Sam3Result(v)
    \/ Restart

Spec == Init /\ [][Next]_vars

-----------------------------------------------------------------------------
Entry == [rev : Nat, seen : SUBSET (1..MaxSaves), noObject : BOOLEAN, export : BOOLEAN,
          cleanup : {"none", "pending", "queued", "deferred"}, mark : BOOLEAN]

Underway == [at : {"sent", "ready", "applied", "marking", "answered"}, kind : Kinds,
             video : Videos, token : 0..MaxTokens, rev : Nat, seen : SUBSET (1..MaxSaves),
             old : BOOLEAN]
Ended == [at : {"lock_lost", "failed"}, video : Videos, old : {FALSE}]

Page == [at : {"loading", "editing"}, video : Videos, token : 0..MaxTokens, rev : Nat,
         seen : SUBSET (1..MaxSaves)]

TypeOK ==
    /\ durable \in BOOLEAN /\ saves \in 0..MaxSaves /\ restarts \in 0..MaxRestarts
    /\ locks \in [Videos -> Lock] /\ tokens \in 0..MaxTokens
    /\ disk \in [Videos -> Entry] /\ memory \in [Videos -> Entry]
    /\ fence \in Tabs \cup {None} /\ writer \in Tabs \cup {None}
    /\ IF writer = None THEN draft = None ELSE draft \in [Videos -> Entry]
    /\ request \in [Tabs -> {Idle} \cup Underway \cup Ended]
    /\ tab \in [Tabs -> {Closed} \cup Page]

(***************************************************************************)
(* A save replaces only what its author had seen: whatever happens to the  *)
(* locks (expiry, theft, force, a restart that brings back an old mirror), *)
(* no committed save disappears under one that was not made on top of it.  *)
(***************************************************************************)
NoSaveOverwritten == [][\A v \in Videos : disk[v].seen \subseteq disk'[v].seen]_vars

(***************************************************************************)
(* Readers are never shown a save that a restart could take back, and the  *)
(* state of a cleanup stands only in the no-object entry that asked for    *)
(* it, although it is written under a second fence.                        *)
(***************************************************************************)
EntriesSound ==
    /\ TypeOK
    /\ \A v \in Videos :
          /\ memory[v].seen \subseteq disk[v].seen
          /\ disk[v].cleanup # "none" => disk[v].noObject

=============================================================================
