---------------------------- MODULE Sam3Publish ----------------------------
(***************************************************************************)
(* How the result of a SAM3 job reaches the annotation: routers/sam3.py    *)
(* (_finish_done_result), publish_generation of pipeline_core/sam3_runs.py *)
(* and the worker sam3_runner/queue_client.py, on top of Sam3Queue.        *)
(*                                                                         *)
(* One API process (run.py: workers=1) with one event loop, one GPU worker *)
(* with a heartbeat thread.  A generation has the identity of its job      *)
(* (run_id).  What is in the export root, frames and prompts, is known by  *)
(* the annotation revision it was exported from: two revisions never have  *)
(* the same prompt digest.                                                 *)
(***************************************************************************)
EXTENDS Sam3Queue, Sequences

CONSTANT MaxFaults  \* bound: crashes, restarts and failing steps together

ASSUME Sam3PublishAssumption == MaxFaults \in Nat

NoLease == <<0, 0>>

VARIABLES
  entry,       \* the annotation: revision, status, export and entry["sam3"]
  disk,        \* the revision whose frames are in the export root, 0 if none
  staged,      \* the revision of the frames a lease has finished segmenting
  generation,  \* runs/<run_id>: the attempt it came from and its frames
  announced,   \* generations with a reserved `sam3_published` event
  pointer,     \* current.json
  indexed,     \* generations in annotation_runs
  asked,       \* the revision a manual request has read, 0 if none
  completing,  \* the caller that enqueues inside finalize_video_export's fence
  request,     \* the POST .../result of each lease inside the API
  reply,       \* acknowledgements of failure or cancellation on their way
  loop,        \* the statement the event loop waits for, <<>> if it is free
  worker,      \* the GPU worker
  faults       \* how many faults happened

fileVars == <<disk, staged, generation, announced, pointer>>
apiVars  == <<asked, completing, request, reply, loop>>
vars     == <<queueVars, fileVars, apiVars, entry, indexed, worker, faults>>

-----------------------------------------------------------------------------
(* The event loop and the fence of the video *)

LoopFree == loop = <<>>
Turn(statement) == loop \in {<<>>, statement}

\* Inside owned_lease, and before and after it inside the fence.
Owning  == {"owned", "placed", "announced", "pointed", "written",
            "commit", "withdraw", "rollback"}
Fencing == Owning \cup {"fenced", "leaving", "refusing"}

FenceFree == completing = {} /\ \A l \in Lease : request[l] \notin Fencing

-----------------------------------------------------------------------------
(* Annotation, export, enqueueing *)

\* PUT annotations: a new entry without entry["sam3"]; the export stays named.
Edit ==
  /\ LoopFree /\ FenceFree
  /\ entry.rev < MaxRevision
  /\ entry' = [entry EXCEPT !.rev = @ + 1, !.noObject = FALSE, !.run = 0]
  /\ UNCHANGED <<queueVars, fileVars, apiVars, indexed, worker, faults>>

\* no_object: everything of the entry stays but the export.
MarkNoObject ==
  /\ LoopFree /\ FenceFree
  /\ entry.rev < MaxRevision /\ ~ entry.noObject
  /\ entry' = [entry EXCEPT !.rev = @ + 1, !.noObject = TRUE, !.export = 0]
  /\ UNCHANGED <<queueVars, fileVars, apiVars, indexed, worker, faults>>

\* worker.py publishes frames under the same fence and for the revision it
\* finds there (ExportPublish has the renames).
PublishFrames ==
  /\ FenceFree
  /\ ~ entry.noObject /\ entry.rev > 0 /\ disk # entry.rev
  /\ disk' = entry.rev
  /\ UNCHANGED <<queueVars, staged, generation, announced, pointer, apiVars, entry,
                 indexed, worker, faults>>

\* finalize_video_export: completes the export and, if the object has auto_sam3,
\* enqueues inside the fence.
CompleteExport(c) ==
  /\ LoopFree /\ FenceFree
  /\ ~ entry.noObject /\ entry.rev > 0 /\ disk = entry.rev
  /\ entry' = [entry EXCEPT !.export = entry.rev]
  /\ \/ /\ BeginEnqueue(c, [rev |-> entry.rev, model |-> "default", force |-> FALSE])
        /\ completing' = {c}
     \/ UNCHANGED <<queueVars, completing>>
  /\ UNCHANGED <<fileVars, asked, request, reply, loop, indexed, worker, faults>>

\* POST .../sam3: reads revision and export from the entry, outside the fence ...
ReadEntry(c) ==
  /\ LoopFree /\ caller[c] = Idle /\ asked[c] = 0
  /\ entry.export # 0
  /\ asked' = [asked EXCEPT ![c] = entry.rev]
  /\ UNCHANGED <<queueVars, fileVars, completing, request, reply, loop, entry, indexed,
                 worker, faults>>

\* ... and enqueues in a thread, with the model of the registry.
AskManually(c, force) ==
  /\ asked[c] # 0
  /\ BeginEnqueue(c, [rev |-> asked[c], model |-> "pinned", force |-> force])
  /\ asked' = [asked EXCEPT ![c] = 0]
  /\ UNCHANGED <<fileVars, completing, request, reply, loop, entry, indexed, worker, faults>>

EndEnqueue(c) ==
  /\ Enqueue(c)
  /\ completing' = completing \ {c}
  /\ UNCHANGED <<fileVars, asked, request, reply, loop, entry, indexed, worker, faults>>

\* DELETE .../sam3 runs its UPDATE on the event loop.  (A prompt override runs the
\* same UPDATE in a thread and inside the fence.)
CancelRoute ==
  /\ Turn(<<"cancel">>)
  /\ Cancel
  /\ loop' = <<>>
  /\ UNCHANGED <<fileVars, asked, completing, request, reply, entry, indexed, worker, faults>>

LoopWaits(statement) ==
  /\ LoopFree
  /\ loop' = statement
  /\ UNCHANGED <<queueVars, fileVars, asked, completing, request, reply, entry, indexed,
                 worker, faults>>

CancelWaits == (\E j \in Known : Pending(j) /\ Locked(j)) /\ LoopWaits(<<"cancel">>)

LeaseExpires(j) ==
  /\ Expire(j) \/ ReapElsewhere(j)
  /\ UNCHANGED <<fileVars, apiVars, entry, indexed, worker, faults>>

-----------------------------------------------------------------------------
(* The GPU worker *)

Resting == [pc |-> "idle", lease |-> NoLease, told |-> FALSE, lost |-> FALSE]

\* next_job: take runs on the event loop.
NextJob ==
  /\ worker = Resting /\ Turn(<<"take">>)
  /\ Take
  /\ worker' \in IF First = {} THEN {worker}
                 ELSE {[Resting EXCEPT !.pc = "segmenting", !.lease = <<j, jobs'[j].token>>] : j \in First}
  /\ loop' = <<>>
  /\ UNCHANGED <<fileVars, asked, completing, request, reply, entry, indexed, faults>>

TakeWaits == worker = Resting /\ (\E j \in Reapable : Locked(j)) /\ LoopWaits(<<"take">>)

\* serve: next_job times out, the worker sleeps and asks again.
PollFails == worker = Resting /\ ~ LoopFree /\ UNCHANGED vars

\* JobHeartbeat runs until the finally of process_job.
Beating == worker.pc \in {"segmenting", "posted"}

\* The heartbeat of a lease, an UPDATE on the event loop.
Beat(l) ==
  /\ Turn(<<"heartbeat", l>>)
  /\ LoopFree => Beating /\ worker.lease = l
  /\ Heartbeat(l)
  /\ worker' = IF ~ (Beating /\ worker.lease = l) THEN worker
               ELSE IF Held(l) THEN [worker EXCEPT !.told = @ \/ jobs[l[1]].cancel]
               ELSE [worker EXCEPT !.lost = TRUE]
  /\ loop' = <<>>
  /\ UNCHANGED <<fileVars, asked, completing, request, reply, entry, indexed, faults>>

BeatWaits == Beating /\ ~ Free(worker.lease) /\ LoopWaits(<<"heartbeat", worker.lease>>)

\* run_segment over all segments.  should_skip looks into the staging of this
\* very lease, which nobody has written before.
Segment ==
  /\ worker.pc = "segmenting" /\ disk # 0 /\ staged[worker.lease] = 0
  /\ staged' = [staged EXCEPT ![worker.lease] = disk]
  /\ UNCHANGED <<queueVars, disk, generation, announced, pointer, apiVars, entry, indexed,
                 worker, faults>>

PostDone ==
  /\ worker.pc = "segmenting" /\ staged[worker.lease] # 0 /\ LoopFree
  /\ worker' = [worker EXCEPT !.pc = "posted"]
  /\ request' = [request EXCEPT ![worker.lease] = "sent"]
  /\ UNCHANGED <<queueVars, fileVars, asked, completing, reply, loop, entry, indexed, faults>>

\* Nobody waits for the answer any more.
Dropped == IF request[worker.lease] \in {"ended", "refused"}
           THEN [request EXCEPT ![worker.lease] = "none"] ELSE request

\* A failed segment, an exception, a result refused or timed out: finish("error").
\* A cancellation the heartbeat was told of: finish("cancelled").
Acknowledge(terminal) ==
  /\ \/ terminal = "error" /\ Beating
     \/ terminal = "cancelled" /\ worker.pc = "segmenting" /\ worker.told
  /\ reply' = reply \cup {<<worker.lease, terminal>>}
  /\ request' = Dropped
  /\ worker' = Resting
  /\ UNCHANGED <<queueVars, fileVars, asked, completing, loop, entry, indexed, faults>>

\* LeaseLost, or the answer to the result: nothing more to say.
LeaveJob ==
  /\ \/ worker.pc = "segmenting" /\ worker.lost
     \/ worker.pc = "posted" /\ request[worker.lease] = "ended"
  /\ request' = Dropped
  /\ worker' = Resting
  /\ UNCHANGED <<queueVars, fileVars, asked, completing, reply, loop, entry, indexed, faults>>

\* POST .../result with another state than done: queue.finish in a thread.
AcceptFailure(l, terminal) ==
  /\ <<l, terminal>> \in reply /\ LoopFree
  /\ SettleFailure(l, terminal)
  /\ reply' = reply \ {<<l, terminal>>}
  /\ UNCHANGED <<fileVars, asked, completing, request, loop, entry, indexed, worker, faults>>

-----------------------------------------------------------------------------
(* The result of a lease: result and _finish_done_result *)

Advance(l, from, to) == request[l] = from /\ request' = [request EXCEPT ![l] = to]

\* The worker reads the answer only if it still waits.
Answer(l, from, answer) ==
  Advance(l, from, IF worker.pc = "posted" /\ worker.lease = l THEN answer ELSE "none")

Unwritten == UNCHANGED <<fileVars, entry, indexed>>
Elsewhere == UNCHANGED <<asked, completing, reply, loop, worker, faults>>

KnowLease(l) ==
  /\ LoopFree
  /\ GetLease(l)
  /\ IF Held(l) THEN Advance(l, "sent", "known") ELSE Answer(l, "sent", "refused")
  /\ Unwritten /\ Elsewhere

EnterFence(l) ==
  /\ LoopFree /\ FenceFree
  /\ Advance(l, "known", "fenced")
  /\ UNCHANGED queueVars /\ Unwritten /\ Elsewhere

EnterLease(l) ==
  /\ LoopFree
  /\ \/ OwnLease(l) /\ Advance(l, "fenced", "owned")
     \/ ~ Held(l) /\ Advance(l, "fenced", "refusing") /\ UNCHANGED queueVars
  /\ Unwritten /\ Elsewhere

\* Faulty: the revision of the entry is not compared.
MatchesAnyRevision(j) == ~ entry.noObject

\* _matches_annotation_revision
Matches(j) == entry.rev = jobs[j].rev /\ ~ entry.noObject

\* The item as owned_lease returned it, and the entry under the fence.
Stale(j) == jobs[j].cancel \/ ~ Matches(j)

WithdrawStale(l) ==
  /\ LoopFree
  /\ Stale(l[1]) /\ Advance(l, "owned", "withdraw")
  /\ UNCHANGED queueVars /\ Unwritten /\ Elsewhere

\* Faulty: what an earlier attempt published is replaced.
PlaceAgain(l) ==
  /\ LoopFree
  /\ ~ Stale(l[1]) /\ Advance(l, "owned", "placed")
  /\ staged[l] = disk
  /\ generation' = [generation EXCEPT ![l[1]] = [attempt |-> l[2], frames |-> disk]]
  /\ staged' = [staged EXCEPT ![l] = 0]
  /\ UNCHANGED <<queueVars, disk, announced, pointer, entry, indexed>> /\ Elsewhere

\* publish_generation: the staging of this lease becomes the generation, unless an
\* earlier attempt's already is.  Either is validated against what is on disk.
Place(l) ==
  /\ LoopFree
  /\ ~ Stale(l[1]) /\ Advance(l, "owned", "placed")
  /\ \/ generation[l[1]].frames = disk /\ UNCHANGED <<generation, staged>>
     \/ /\ generation[l[1]].frames = 0 /\ staged[l] = disk
        /\ generation' = [generation EXCEPT ![l[1]] = [attempt |-> l[2], frames |-> disk]]
        /\ staged' = [staged EXCEPT ![l] = 0]
  /\ UNCHANGED <<queueVars, disk, announced, pointer, entry, indexed>> /\ Elsewhere

\* Sam3GenerationError: what was segmented is not what is on disk.
RefuseGeneration(l) ==
  /\ LoopFree
  /\ ~ Stale(l[1]) /\ Advance(l, "owned", "rollback")
  /\ generation[l[1]].frames # disk
  /\ generation[l[1]].frames = 0 => staged[l] # disk
  /\ UNCHANGED queueVars /\ Unwritten /\ Elsewhere

\* before_publish and the pointer, in the thread of publish_generation.
Announce(l) ==
  /\ Advance(l, "placed", "announced")
  /\ announced' = announced \cup {l[1]}
  /\ UNCHANGED <<queueVars, disk, staged, generation, pointer, entry, indexed>> /\ Elsewhere

SwitchPointer(l) ==
  /\ Advance(l, "announced", "pointed")
  /\ pointer' = l[1]
  /\ UNCHANGED <<queueVars, disk, staged, generation, announced, entry, indexed>> /\ Elsewhere

\* Faulty: the row is settled first, the entry never.
WriteNothing(l) ==
  /\ LoopFree
  /\ Advance(l, "pointed", "written")
  /\ UNCHANGED queueVars /\ Unwritten /\ Elsewhere

\* store.mutate(apply) looks at the revision once more.
WriteEntry(l) ==
  /\ LoopFree
  /\ Advance(l, "pointed", IF Matches(l[1]) THEN "written" ELSE "rollback")
  /\ entry' = IF Matches(l[1]) THEN [entry EXCEPT !.run = l[1]] ELSE entry
  /\ UNCHANGED <<queueVars, fileVars, indexed>> /\ Elsewhere

\* owned.finish wrote row and index, the thread of the lease is told to commit.
FinishOwned(l) ==
  /\ LoopFree
  /\ Advance(l, "written", "commit")
  /\ UNCHANGED queueVars /\ Unwritten /\ Elsewhere

\* Faulty: a rollback leaves the row locked.
LeaveLeaseLocked(l) ==
  /\ \/ /\ Advance(l, "commit", "leaving") /\ CommitOwned(l, "done")
        /\ indexed' = indexed \cup {l[1]}
     \/ Advance(l, "withdraw", "leaving") /\ CommitOwned(l, "cancelled") /\ UNCHANGED indexed
     \/ Advance(l, "rollback", "refusing") /\ UNCHANGED <<queueVars, indexed>>
  /\ UNCHANGED <<fileVars, entry>> /\ Elsewhere

\* __exit__ of owned_lease in its own thread.
LeaveLease(l) ==
  /\ \/ /\ Advance(l, "commit", "leaving") /\ CommitOwned(l, "done")
        /\ indexed' = indexed \cup {l[1]}
     \/ Advance(l, "withdraw", "leaving") /\ CommitOwned(l, "cancelled") /\ UNCHANGED indexed
     \/ Advance(l, "rollback", "refusing") /\ RollbackOwned(l) /\ UNCHANGED indexed
  /\ UNCHANGED <<fileVars, entry>> /\ Elsewhere

LeaveFence(l) ==
  /\ LoopFree
  /\ Answer(l, "leaving", "ended") \/ Answer(l, "refusing", "refused")
  /\ UNCHANGED queueVars /\ Unwritten /\ Elsewhere

-----------------------------------------------------------------------------
(* Faults *)

\* Any step inside owned_lease may raise.
RequestRaises(l) ==
  /\ faults < MaxFaults /\ LoopFree
  /\ request[l] \in {"owned", "placed", "announced", "pointed", "written"}
  /\ request' = [request EXCEPT ![l] = "rollback"]
  /\ faults' = faults + 1
  /\ UNCHANGED <<queueVars, asked, completing, reply, loop, worker>> /\ Unwritten

\* The API process ends with its threads; PostgreSQL rolls back and unlocks.
RestartApi ==
  /\ faults < MaxFaults
  /\ faults' = faults + 1
  /\ request' = [l \in Lease |-> IF worker.pc = "posted" /\ worker.lease = l THEN "refused" ELSE "none"]
  /\ owner' = [j \in Job |-> 0]
  /\ caller' = [c \in Caller |-> Idle]
  /\ asked' = [c \in Caller |-> 0]
  /\ completing' = {} /\ reply' = {} /\ loop' = <<>>
  /\ UNCHANGED <<jobs, clock, worker>> /\ Unwritten

\* Its connection may be gone, its request goes on.
CrashWorker ==
  /\ faults < MaxFaults /\ worker # Resting
  /\ faults' = faults + 1
  /\ request' = Dropped
  /\ worker' = Resting
  /\ UNCHANGED <<queueVars, asked, completing, reply, loop>> /\ Unwritten

-----------------------------------------------------------------------------
Init ==
  /\ QueueInit
  /\ entry = [rev |-> 0, noObject |-> FALSE, export |-> 0, run |-> 0]
  /\ disk = 0
  /\ staged = [l \in Lease |-> 0]
  /\ generation = [j \in Job |-> [attempt |-> 0, frames |-> 0]]
  /\ announced = {} /\ pointer = 0 /\ indexed = {}
  /\ asked = [c \in Caller |-> 0] /\ completing = {}
  /\ request = [l \in Lease |-> "none"]
  /\ reply = {} /\ loop = <<>>
  /\ worker = Resting
  /\ faults = 0

Triage == Edit \/ MarkNoObject \/ PublishFrames \/ CancelRoute \/ CancelWaits

Submit(c) == \/ CompleteExport(c) \/ ReadEntry(c) \/ EndEnqueue(c)
             \/ \E force \in BOOLEAN : AskManually(c, force)

Work == \/ NextJob \/ TakeWaits \/ PollFails \/ BeatWaits \/ Segment \/ PostDone \/ LeaveJob
        \/ \E terminal \in {"error", "cancelled"} : Acknowledge(terminal)

Serve(l) == \/ Beat(l) \/ KnowLease(l) \/ EnterFence(l) \/ EnterLease(l) \/ WithdrawStale(l)
            \/ Place(l) \/ RefuseGeneration(l) \/ Announce(l) \/ SwitchPointer(l)
            \/ WriteEntry(l) \/ FinishOwned(l) \/ LeaveLease(l) \/ LeaveFence(l)
            \/ RequestRaises(l)
            \/ \E terminal \in {"error", "cancelled"} : AcceptFailure(l, terminal)

Next == \/ Triage \/ Work \/ RestartApi \/ CrashWorker
        \/ \E c \in Caller : Submit(c)
        \/ \E j \in Job : LeaseExpires(j)
        \/ \E l \in Lease : Serve(l)

Spec == Init /\ [][Next]_vars

-----------------------------------------------------------------------------
(* Properties *)

\* Every variable stays in its domain, and the row is locked exactly while a request
\* is between entering and leaving owned_lease (sam3_postgres.owned_lease).
TypeOK ==
  /\ QueueTypeOK
  /\ entry \in [rev: 0..MaxRevision, noObject: BOOLEAN, export: 0..MaxRevision,
                run: Job \cup {0}]
  /\ disk \in 0..MaxRevision
  /\ staged \in [Lease -> 0..MaxRevision]
  /\ generation \in [Job -> [attempt: 0..MaxAttempts, frames: 0..MaxRevision]]
  /\ announced \subseteq Job /\ pointer \in Job \cup {0} /\ indexed \subseteq Job
  /\ asked \in [Caller -> 0..MaxRevision] /\ completing \subseteq Caller
  /\ request \in [Lease -> Fencing \cup {"none", "sent", "known", "ended", "refused"}]
  /\ reply \subseteq Lease \X {"error", "cancelled"}
  /\ loop \in {<<>>, <<"cancel">>, <<"take">>} \cup ({"heartbeat"} \X Lease)
  /\ worker \in [pc: {"idle", "segmenting", "posted"}, lease: Lease \cup {NoLease},
                 told: BOOLEAN, lost: BOOLEAN]
  /\ faults \in 0..MaxFaults
  /\ \A l \in Lease : owner[l[1]] = l[2] <=> request[l] \in Owning

\* The job may publish now: its row is leased, nobody asked to cancel it, and the
\* annotation still is the one it was enqueued for.
MayPublish(j) == Leased(j) /\ ~ jobs[j].cancel /\ entry.rev = jobs[j].rev /\ ~ entry.noObject

\* Pointer and annotation entry turn to a run only while its job may publish, and by the
\* request whose lease is the row's latest (_finish_done_result under fence and lease).
PublishIsCurrent ==
  [][/\ pointer' # pointer =>
          \E l \in Lease : /\ l[1] = pointer' /\ request[l] = "announced"
                           /\ jobs[l[1]].token = l[2] /\ MayPublish(l[1])
     /\ entry'.run \notin {0, entry.run} => MayPublish(entry'.run)]_vars

\* `done` means that all four stores have the run: a generation made from frames, its
\* announcement, its index, and the entry as long as neither the annotation nor the
\* pointer moved on (routers/sam3.py _finish_done_result, whatever crashed before).
DoneIsComplete ==
  \A j \in Job : jobs[j].state = "done" =>
    /\ generation[j].frames # 0 /\ j \in announced /\ j \in indexed
    /\ entry.rev = jobs[j].rev /\ pointer = j => entry.run = j

\* A published generation is never replaced, by no retry and no late attempt
\* (publish_generation: "published paths are append-only").
GenerationImmutable ==
  [][\A j \in Job : generation[j].frames # 0 => generation'[j] = generation[j]]_vars

\* The event loop never waits for a row that only a request which needs the event loop
\* can unlock (heartbeat, cancel and take of routers/sam3.py are not run in a thread).
NoCircularWait ==
  ~ LoopFree => \A l \in Lease : request[l] \notin Owning \ {"commit", "withdraw", "rollback"}
=============================================================================
