----------------------------- MODULE Projection -----------------------------
(***************************************************************************)
(* The rebuildable projection of one object's videos that makes the        *)
(* library cheap to list (server/pipeline_projection.py), and the three    *)
(* protocols that write it: a mutation reserves an event, publishes the    *)
(* canonical file and reconciles after unlocking (pipeline_mutation.py);   *)
(* a repair reads the canonical files and applies what it read             *)
(* (pipeline_reconcile.py); an archive or restore raises the object's      *)
(* barrier and rewrites the registry (workspace.update).                   *)
(*                                                                         *)
(* Not every change of what a source is derived from announces itself with *)
(* an event.  `canon` is what only changes behind one: the annotation, the *)
(* generation in use and its reviews.  `quiet` is the rest: prompt.json,   *)
(* which a re-export replaces under the fence, prompt_override.json, and   *)
(* the SAM3 row, which changes under no fence.  A source has both, or says *)
(* that the object is archived, whatever the files hold.                   *)
(***************************************************************************)
EXTENDS Integers, FiniteSets

CONSTANTS
  Video,         \* videos of the object
  Value,         \* contents a canonical file may have
  Proc,          \* requests, repair jobs and rollouts, in any process
  Nobody,        \* no holder of a fence
  Archived,      \* the source of an archived object
  MaxMutations,  \* bound: mutations, quiet changes, archives and restores
  MaxFaults      \* bound: crashes, failed statements and lock timeouts

ASSUME ProjectionAssumption ==
  /\ Nobody \notin Proc
  /\ Archived \notin Value /\ Archived \notin [canon: Value, quiet: Value]
  /\ MaxMutations \in Nat /\ MaxFaults \in Nat

VARIABLES
  events,       \* video_pipeline_projection_events, by event_seq
  lastSeq,      \* its sequence, which barriers draw from too
  row,          \* video_pipeline_projection
  barrier,      \* video_pipeline_projection_barriers
  canon,        \* the canonical files, as far as events announce them
  quiet,        \* what else the identity of a source is made of
  archived,     \* objects.json
  videoFence,   \* holder of the advisory keys of video_fence
  objectFence,  \* holder of object_fence
  pc, vid, seen, intent,  \* of each process: place, video, value, event_seq
  drops,        \* may a fence be lost while its holder works on?  Never changes
  mutations, faults       \* counters of the bounds

table   == <<events, lastSeq, row, barrier>>
files   == <<canon, quiet, archived>>
fences  == <<videoFence, objectFence>>
local   == <<vid, seen, intent>>
bounds  == <<drops, mutations, faults>>
vars    == <<events, lastSeq, row, barrier, canon, quiet, archived, videoFence,
             objectFence, pc, vid, seen, intent, drops, mutations, faults>>

Source == [canon: Value, quiet: Value] \cup {Archived}
Status == {"pending", "applied", "superseded"}

\* An event of a mutation is identified by what it writes, of a repair by the source.
Event  == [video: Video, kind: {"mutation", "repair"}, source: Source \cup Value,
           status: Status]
Seqs   == DOMAIN events

\* derive_pipeline_source / _terminal_source of the files as they are.
SourceOf(v) ==
  IF archived THEN Archived ELSE [canon |-> canon[v], quiet |-> quiet[v]]

Live(v)   == {s \in Seqs : events[s].video = v /\ events[s].status # "superseded"}
Latest(v) == IF Live(v) = {} THEN 0 ELSE CHOOSE s \in Live(v) : \A t \in Live(v) : t <= s
Pending(s) == s \in Seqs /\ events[s].status = "pending"

-----------------------------------------------------------------------------
(* The statements *)

New(v, kind, source) == [video |-> v, kind |-> kind, source |-> source,
                         status |-> "pending"]

\* INSERT INTO events, after the rows in `retired` were superseded.
Reserved(event, retired) ==
  /\ events' = [s \in Seqs \cup {lastSeq + 1} |->
                  IF s = lastSeq + 1 THEN event
                  ELSE IF s \in retired THEN [events[s] EXCEPT !.status = "superseded"]
                  ELSE events[s]]
  /\ lastSeq' = lastSeq + 1

SameIdentity(v, kind, source) ==
  {s \in Live(v) : events[s].kind = kind /\ events[s].source = source}

\* reserve_intent: a live event of the same identity is reused.
ReserveIntent(p, v, source) ==
  /\ LET same == SameIdentity(v, "mutation", source)
     IN  \/ \E s \in same : intent' = [intent EXCEPT ![p] = s]
            /\ UNCHANGED <<events, lastSeq>>
         \/ /\ same = {}
            /\ Reserved(New(v, "mutation", source), {})
            /\ intent' = [intent EXCEPT ![p] = lastSeq + 1]
  /\ UNCHANGED <<row, barrier>>

\* Faulty: an event newer than the projection does not ask for a new one.
AlreadyProjectedBefore(v, source) == row[v].seq > barrier /\ row[v].source = source

\* reserve_repair_intent: the projection is already right.
AlreadyProjected(v, source) ==
  /\ row[v].seq > barrier /\ row[v].source = source
  /\ Latest(v) <= row[v].seq

\* ... or a repair of the same source is waiting to be applied.
ReusableRepair(v, source) ==
  LET s == Latest(v)
  IN  /\ s > barrier /\ Pending(s)
      /\ events[s].kind = "repair" /\ events[s].source = source

ReserveRepair(p, v, source) ==
  /\ \/ /\ ReusableRepair(v, source)
        /\ intent' = [intent EXCEPT ![p] = Latest(v)]
        /\ UNCHANGED <<events, lastSeq>>
     \/ /\ ~ReusableRepair(v, source)
        /\ Reserved(New(v, "repair", source), SameIdentity(v, "repair", source))
        /\ intent' = [intent EXCEPT ![p] = lastSeq + 1]
  /\ UNCHANGED <<row, barrier>>

Marked(s, status) == [events EXCEPT ![s].status = status]

\* Faulty: closes every other event of the video, newer ones too.
ApplyIntentClosingAll(s, snapshot) ==
  LET v == events[s].video
  IN  /\ s > barrier /\ s >= row[v].seq
      /\ row' = [row EXCEPT ![v] = [seq |-> s, source |-> snapshot]]
      /\ events' = [t \in Seqs |->
           IF t = s THEN [events[t] EXCEPT !.status = "applied"]
           ELSE IF t \in Live(v) THEN [events[t] EXCEPT !.status = "superseded"]
           ELSE events[t]]

\* apply_intent, by where the event stands to the barrier and to the row.
ApplyIntent(s, snapshot) ==
  LET v == events[s].video
  IN  \/ /\ s <= barrier
         /\ events' = Marked(s, "superseded")
         /\ UNCHANGED row
      \/ /\ s > barrier /\ s >= row[v].seq
         /\ row' = IF s = row[v].seq THEN row
                   ELSE [row EXCEPT ![v] = [seq |-> s, source |-> snapshot]]
         /\ events' = [t \in Seqs |->
              IF t = s THEN [events[t] EXCEPT !.status = "applied"]
              ELSE IF t \in Live(v) /\ t < s THEN [events[t] EXCEPT !.status = "superseded"]
              ELSE events[t]]
      \/ /\ s > barrier /\ s < row[v].seq
         /\ events' = Marked(s, "superseded")
         /\ UNCHANGED row

\* get_many: what the library is told of a video.
ProjectionStatus(v) ==
  LET shown == IF row[v].seq # 0 THEN row[v].seq ELSE Latest(v)
  IN  CASE row[v].seq = 0 /\ ~Pending(Latest(v)) -> "missing"
        [] shown <= barrier -> "stale"
        [] shown > barrier /\ Pending(Latest(v)) /\ Latest(v) > row[v].seq -> "pending"
        [] OTHER -> IF events[shown].status = "applied" /\ Latest(v) = row[v].seq
                    THEN "current" ELSE "stale"

-----------------------------------------------------------------------------
(* Steps of a process *)

Goto(p, label) == pc' = [pc EXCEPT ![p] = label]

\* Leaving both context managers, in whatever way.
ReleaseFences(p) ==
  /\ videoFence' = IF videoFence = p THEN Nobody ELSE videoFence
  /\ objectFence' = IF objectFence = p THEN Nobody ELSE objectFence

\* The function returns or raises: nothing of what it read survives.
Return(p) ==
  /\ ReleaseFences(p)
  /\ seen' = [seen EXCEPT ![p] = Archived]
  /\ intent' = [intent EXCEPT ![p] = 0]
  /\ Goto(p, "idle")
  /\ UNCHANGED vid

Fault == faults < MaxFaults /\ faults' = faults + 1 /\ UNCHANGED drops

\* video_advisory_lock takes the object's annotation key too, so mutations of all
\* the videos of an object exclude each other.  A request is refused when it comes
\* to an archived object, but may have come before and waited for the lock.
StartMutation(p, v) ==
  /\ pc[p] = "idle" /\ videoFence = Nobody
  /\ mutations < MaxMutations /\ mutations' = mutations + 1
  /\ videoFence' = p
  /\ vid' = [vid EXCEPT ![p] = v]
  /\ Goto(p, "mutating")
  /\ UNCHANGED <<table, files, objectFence, seen, intent, drops, faults>>

\* The identity is that of the content about to be written.
Reserve(p) ==
  /\ pc[p] = "mutating"
  /\ \E x \in Value : /\ ReserveIntent(p, vid[p], x)
                      /\ seen' = [seen EXCEPT ![p] = x]
  /\ Goto(p, "reserved")
  /\ UNCHANGED <<files, fences, vid, bounds>>

Publish(p) ==
  /\ pc[p] = "reserved"
  /\ canon' = [canon EXCEPT ![vid[p]] = seen[p]]
  /\ Goto(p, "published")
  /\ UNCHANGED <<table, quiet, archived, fences, local, bounds>>

\* "Call only after the canonical commit and all outer locks release."
EndMutation(p) ==
  /\ pc[p] = "published" /\ videoFence = p
  /\ ReleaseFences(p)
  /\ seen' = [seen EXCEPT ![p] = Archived]
  /\ Goto(p, "reconciling")
  /\ UNCHANGED <<table, files, vid, intent, bounds>>

\* Unlocking over the connection that held the fence raises if that is gone.
UnlockRaises(p) ==
  /\ pc[p] = "published" /\ videoFence # p
  /\ Return(p)
  /\ UNCHANGED <<table, files, bounds>>

\* run_video_export before publish_staged_export, save_override, clear_override:
\* the fence of a mutation, without its event.
StartReplace(p, v) ==
  /\ pc[p] = "idle" /\ videoFence = Nobody
  /\ mutations < MaxMutations /\ mutations' = mutations + 1
  /\ videoFence' = p
  /\ vid' = [vid EXCEPT ![p] = v]
  /\ Goto(p, "replacing")
  /\ UNCHANGED <<table, files, objectFence, seen, intent, drops, faults>>

\* What follows is left to others: a completed export is a mutation of its own.
Replace(p) ==
  /\ pc[p] = "replacing"
  /\ \E x \in Value : quiet' = [quiet EXCEPT ![vid[p]] = x]
  /\ Goto(p, "leaving")
  /\ UNCHANGED <<table, canon, archived, fences, local, bounds>>

\* A SAM3 job is submitted, taken, cancelled, reaped or fails.
ChangeQueue(v) ==
  /\ mutations < MaxMutations /\ mutations' = mutations + 1
  /\ \E x \in Value : quiet' = [quiet EXCEPT ![v] = x]
  /\ UNCHANGED <<table, canon, archived, fences, pc, local, drops, faults>>

\* _verified_snapshot: the library also compares the source it derives itself.
Usable(v) == ProjectionStatus(v) = "current" /\ row[v].source = SourceOf(v)

\* The job enqueued by a listing, or a rollout candidate; the object may have been
\* archived since.
StartRepair(p, v) ==
  /\ pc[p] = "idle"
  /\ ~Usable(v)
  /\ vid' = [vid EXCEPT ![p] = v]
  /\ Goto(p, "reconciling")
  /\ UNCHANGED <<table, files, fences, seen, intent, bounds>>

\* Faulty: reads without the object fence.
LockVideoOnly(p) ==
  /\ pc[p] = "reconciling" /\ videoFence = Nobody
  /\ videoFence' = p
  /\ Goto(p, "reading")
  /\ UNCHANGED <<table, files, objectFence, local, bounds>>

LockVideo(p) ==
  /\ pc[p] = "reconciling" /\ videoFence = Nobody
  /\ videoFence' = p
  /\ Goto(p, "fenced")
  /\ UNCHANGED <<table, files, objectFence, local, bounds>>

LockObject(p) ==
  /\ pc[p] = "fenced" /\ objectFence = Nobody
  /\ objectFence' = p
  /\ Goto(p, "reading")
  /\ UNCHANGED <<table, files, videoFence, local, bounds>>

ReadSource(p) ==
  /\ pc[p] = "reading"
  /\ seen' = [seen EXCEPT ![p] = SourceOf(vid[p])]
  /\ Goto(p, "repairing")
  /\ UNCHANGED <<table, files, fences, vid, intent, bounds>>

Repair(p) ==
  /\ pc[p] = "repairing"
  /\ \/ /\ AlreadyProjected(vid[p], seen[p])
        /\ Goto(p, "leaving")
        /\ UNCHANGED <<table, intent>>
     \/ /\ ~AlreadyProjected(vid[p], seen[p])
        /\ ReserveRepair(p, vid[p], seen[p])
        /\ Goto(p, "applying")
  /\ UNCHANGED <<files, fences, vid, seen, bounds>>

Apply(p) ==
  /\ pc[p] = "applying"
  /\ ApplyIntent(intent[p], seen[p])
  /\ Goto(p, "leaving")
  /\ UNCHANGED <<lastSeq, barrier, files, fences, local, bounds>>

Leave(p) ==
  /\ pc[p] = "leaving"
  /\ Return(p)
  /\ UNCHANGED <<table, files, bounds>>

StartLifecycle(p) ==
  /\ pc[p] = "idle" /\ objectFence = Nobody
  /\ mutations < MaxMutations /\ mutations' = mutations + 1
  /\ objectFence' = p
  /\ Goto(p, "lifecycle")
  /\ UNCHANGED <<table, files, videoFence, local, drops, faults>>

\* Faulty: the barrier does not draw its number from the sequence.
InvalidateObjectOffSequence(p) ==
  /\ pc[p] = "lifecycle"
  /\ barrier' = lastSeq + 1
  /\ Goto(p, "invalidated")
  /\ UNCHANGED <<events, lastSeq, row, files, fences, local, bounds>>

\* The barrier draws a number of its own from the events' sequence.
InvalidateObject(p) ==
  /\ pc[p] = "lifecycle"
  /\ lastSeq' = lastSeq + 1
  /\ barrier' = lastSeq + 1
  /\ Goto(p, "invalidated")
  /\ UNCHANGED <<events, row, files, fences, local, bounds>>

\* Label and display name are behind the barrier too, and leave `archived` alone.
CommitRegistry(p) ==
  /\ pc[p] = "invalidated"
  /\ archived' \in BOOLEAN
  /\ Goto(p, "leaving")
  /\ UNCHANGED <<table, canon, quiet, fences, local, bounds>>

\* The process dies, a statement or a file write fails, the job lost its lease at
\* publication_fence, or a lock wait times out: everything held is let go, and a
\* reserved event stays pending (fail_intent only counts the attempt).
Fails(p) ==
  /\ pc[p] # "idle"
  /\ Fault
  /\ Return(p)
  /\ UNCHANGED <<table, files, mutations>>

\* A listing enqueues nothing: get_object answers 409 for an archived object, or
\* every projection is usable.
ListInVain ==
  /\ \A p \in Proc : pc[p] = "idle"
  /\ archived \/ \A v \in Video : Usable(v)
  /\ UNCHANGED vars

\* A listing that enqueues the repair of v.
ListAndRepair(p, v) == ~archived /\ StartRepair(p, v)

\* The server drops a connection that holds a fence; its holder does not look at
\* it again before it unlocks.
FenceDrops(p) ==
  /\ drops /\ Fault
  /\ \/ videoFence = p /\ videoFence' = Nobody /\ UNCHANGED objectFence
     \/ objectFence = p /\ objectFence' = Nobody /\ UNCHANGED videoFence
  /\ UNCHANGED <<table, files, pc, local, mutations>>

-----------------------------------------------------------------------------

Init ==
  /\ events = [s \in {} |-> 0] /\ lastSeq = 0
  /\ row = [v \in Video |-> [seq |-> 0, source |-> Archived]]
  /\ barrier = 0
  /\ canon \in [Video -> Value] /\ quiet \in [Video -> Value] /\ archived = FALSE
  /\ videoFence = Nobody /\ objectFence = Nobody
  /\ pc = [p \in Proc |-> "idle"]
  /\ vid \in [Proc -> Video] /\ \A p, q \in Proc : vid[p] = vid[q]
  /\ seen = [p \in Proc |-> Archived]
  /\ intent = [p \in Proc |-> 0]
  /\ drops \in BOOLEAN /\ mutations = 0 /\ faults = 0

Step(p) ==
  \/ Reserve(p) \/ Publish(p) \/ EndMutation(p) \/ UnlockRaises(p)
  \/ ReadSource(p) \/ Repair(p) \/ Apply(p) \/ Leave(p)
  \/ Replace(p) \/ InvalidateObject(p) \/ CommitRegistry(p)

Lock(p) == LockVideo(p) \/ LockObject(p)

Next ==
  \/ \E p \in Proc :
       \/ Step(p) \/ Lock(p) \/ StartLifecycle(p) \/ Fails(p) \/ FenceDrops(p)
       \/ \E v \in Video : StartMutation(p, v) \/ StartReplace(p, v) \/ StartRepair(p, v)
  \/ \E v \in Video : ChangeQueue(v)
  \/ ListInVain

Spec == Init /\ [][Next]_vars

\* Processes that are up keep running, advisory locks are granted in the order
\* they were asked for, and the library of an object that is not archived keeps
\* being listed: each listing enqueues the repair of every video whose projection
\* it could not use.
Fairness ==
  /\ \A p \in Proc : WF_vars(Step(p)) /\ SF_vars(Lock(p))
  /\ \A v \in Video : SF_vars(\E p \in Proc : ListAndRepair(p, v))

FairSpec == Spec /\ Fairness

-----------------------------------------------------------------------------
(* Properties *)

Labels == {"idle", "mutating", "reserved", "published", "reconciling", "fenced",
           "reading", "repairing", "applying", "leaving", "replacing", "lifecycle",
           "invalidated"}

\* Types; and at most one event of a video is applied, the one the row holds, also
\* when a fence is lost and two processes apply what they read at different times.
TypeOK ==
  /\ lastSeq \in Nat /\ Seqs \subseteq 1..lastSeq
  /\ events \in [Seqs -> Event]
  /\ row \in [Video -> [seq: 0..lastSeq, source: Source]]
  /\ barrier \in 0..lastSeq
  /\ canon \in [Video -> Value] /\ quiet \in [Video -> Value] /\ archived \in BOOLEAN
  /\ videoFence \in Proc \cup {Nobody} /\ objectFence \in Proc \cup {Nobody}
  /\ pc \in [Proc -> Labels]
  /\ vid \in [Proc -> Video] /\ seen \in [Proc -> Source \cup Value]
  /\ intent \in [Proc -> 0..lastSeq]
  /\ mutations \in 0..MaxMutations /\ faults \in 0..MaxFaults /\ drops \in BOOLEAN
  /\ \A s \in Seqs : events[s].status = "applied" => row[events[s].video].seq = s

\* Says of the object and of canon what is so now.
Announced(v, source) ==
  IF archived THEN source = Archived
  ELSE source # Archived /\ source.canon = canon[v]

\* No event is missed: a projection reported "current" has the annotation, the
\* generation and the reviews of its video, and the object's state, as they are
\* now, at every step of every mutation, repair, archive and restore, unless a
\* fence can be lost.  Of what changes quietly it may be behind, which is why
\* _verified_snapshot compares the whole identity as well.
CurrentMissesNoEvent ==
  ~drops => \A v \in Video : ProjectionStatus(v) = "current" => Announced(v, row[v].source)

\* Events keep their order, however late they are applied: the projection never
\* goes back to an older one, and a pending event is only closed by a projection
\* at least as new, by the barrier, or in favour of a newer pending event of its
\* video (apply_intent, the barrier statements).
EventsInOrder ==
  [][/\ \A v \in Video : row'[v] # row[v] => row'[v].seq > row[v].seq /\ row'[v].seq > barrier
     /\ \A s \in Seqs : Pending(s) /\ ~Pending(s)' =>
          \/ row'[events[s].video].seq >= s
          \/ s <= barrier'
          \/ \E t \in Seqs' : t > s /\ Pending(t)' /\ events'[t].video = events[s].video]_vars

\* Once changes stop, every video of an object that is not archived gets a
\* projection the library can use and keeps it: whatever changed quietly, and even
\* if a holder without its fence had overwritten it.
EventuallyUsable == <>[](archived \/ \A v \in Video : Usable(v))
=============================================================================
