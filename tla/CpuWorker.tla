----------------------------- MODULE CpuWorker -----------------------------
(***************************************************************************)
(* The CPU worker processes of services/app/worker.py: the claim loop of   *)
(* main(), the heartbeat thread of each job, the way a handler makes its   *)
(* result visible, and the best-effort settlement; with the API process    *)
(* that commits a video export on the worker's behalf.                     *)
(*                                                                         *)
(* A handler is abstracted to the order of its queue calls: any number of  *)
(* update_progress checks, then its commit, in one of three ways:          *)
(*   "fenced"   under owned_job_lease, in the worker (dataset exports,     *)
(*              projection repair);                                        *)
(*   "reported" by the API under owned_job_lease, asked for over HTTP      *)
(*              after the handler returned (video_export);                 *)
(*   "guarded"  after one more update_progress, with no lock held on the   *)
(*              row (proxies, purge, downloads, cleanup).                  *)
(***************************************************************************)
EXTENDS JobQueue

CONSTANT Worker  \* processes

VARIABLES
  commitMode,  \* how the handler of a job's kind commits, fixed from the start
  pc,        \* where a worker is
  job,       \* the job it claimed
  tok,       \* the lease token it was given
  beat,      \* its heartbeat thread and what lease_errors holds
  requests,  \* completion requests in flight: <<job, token>>
  api,       \* the API's transaction on a job: "none", "open" or "applied"
  commits,   \* history: tokens of the attempts whose effect became visible
  stale      \* history: tokens of the attempts that returned a stale result

workerVars == <<commitMode, pc, job, tok, beat>>
apiVars    == <<requests, api>>
history    == <<commits, stale>>
vars       == <<jobs, lastToken, rowLock, commitMode, pc, job, tok, beat,
                requests, api, commits, stale>>

Pc == {"idle", "running", "committing", "applied", "returned", "reporting",
       "answered", "succeeded", "failed", "cancelled"}

Goto(w, label) == pc' = [pc EXCEPT ![w] = label] /\ UNCHANGED commitMode

\* The statement runs now and does not find the row: "lease perdido".
LeaseLost(w) == Unlocked(job[w]) /\ ~LeaseHeld(job[w], tok[w])

-----------------------------------------------------------------------------
(* Claim loop *)

ClaimJob(w) ==
  /\ pc[w] = "idle"
  /\ \E j \in Job : Claim("cpu", j) /\ job' = [job EXCEPT ![w] = j]
  /\ tok' = [tok EXCEPT ![w] = lastToken + 1]
  /\ beat' = [beat EXCEPT ![w] = "on"]
  /\ Goto(w, "running")
  /\ UNCHANGED <<apiVars, history>>

Poll(w) ==
  /\ pc[w] = "idle"
  /\ ClaimNothing("cpu")
  /\ UNCHANGED <<workerVars, apiVars, history>>

\* keep_lease: one beat.  Any exception, of a lost lease or of the database, ends
\* the thread and is kept in lease_errors, as is the news of a cancellation.
Beat(w) ==
  /\ pc[w] # "idle" /\ beat[w] = "on"
  /\ \/ /\ Heartbeat(job[w], tok[w])
        /\ beat' = [beat EXCEPT ![w] = IF jobs[job[w]].cancel THEN "cancel" ELSE "on"]
     \/ /\ beat' = [beat EXCEPT ![w] = "error"]
        /\ UNCHANGED queueVars
  /\ UNCHANGED <<commitMode, pc, job, tok, apiVars, history>>

-----------------------------------------------------------------------------
(* Handler *)

\* queue.update_progress inside a handler.
Progress(w) ==
  /\ pc[w] = "running"
  /\ \/ /\ Heartbeat(job[w], tok[w])
        /\ Goto(w, IF jobs[job[w]].cancel THEN "cancelled" ELSE "running")
     \/ /\ LeaseLost(w)
        /\ Goto(w, "failed")
        /\ UNCHANGED queueVars
  /\ UNCHANGED <<job, tok, beat, apiVars, history>>

\* ffmpeg, the filesystem, MinIO or the database failed inside the handler.
HandlerFails(w) ==
  /\ pc[w] = "running"
  /\ Goto(w, "failed")
  /\ UNCHANGED <<queueVars, job, tok, beat, apiVars, history>>

\* _stale_result: the annotation moved on, the job has nothing to commit.
StaleResult(w) ==
  /\ pc[w] = "running" /\ commitMode[job[w]] = "reported"
  /\ stale' = stale \cup {tok[w]}
  /\ Goto(w, "returned")
  /\ UNCHANGED <<queueVars, job, tok, beat, apiVars, commits>>

\* The export is on disk; only the API may declare it complete.
ExportReady(w) ==
  /\ pc[w] = "running" /\ commitMode[job[w]] = "reported"
  /\ Goto(w, "returned")
  /\ UNCHANGED <<queueVars, job, tok, beat, apiVars, history>>

\* before_publish / publish_guard of an unfenced commit, which raise when the job is
\* cancelled; run_object_purge does not look at the answer and goes on.
GuardCommit(w) ==
  /\ pc[w] = "running" /\ commitMode[job[w]] = "guarded"
  /\ Heartbeat(job[w], tok[w])
  /\ Goto(w, "committing")
  /\ UNCHANGED <<job, tok, beat, apiVars, history>>

\* publication_fence: owned_job_lease or Cancelled.
EnterFence(w) ==
  /\ pc[w] = "running" /\ commitMode[job[w]] = "fenced"
  /\ \/ /\ BeginOwned(job[w], tok[w])
        /\ Goto(w, "committing")
     \/ /\ Unlocked(job[w])
        /\ ~LeaseHeld(job[w], tok[w]) \/ jobs[job[w]].cancel
        /\ Goto(w, "cancelled")
        /\ UNCHANGED queueVars
  /\ UNCHANGED <<job, tok, beat, apiVars, history>>

\* The rename, upload or projection row that makes the result visible.
Apply(w) ==
  /\ pc[w] = "committing"
  /\ commits' = [commits EXCEPT ![job[w]] = @ \cup {tok[w]}]
  /\ Goto(w, "applied")
  /\ UNCHANGED <<queueVars, job, tok, beat, apiVars, stale>>

\* Faulty: an error inside the fence is taken for success.
LeaveFenceQuietly(w) ==
  /\ pc[w] \in {"committing", "applied"}
  /\ IF commitMode[job[w]] = "fenced" THEN EndOwned(job[w]) ELSE UNCHANGED queueVars
  /\ Goto(w, "returned")
  /\ UNCHANGED <<job, tok, beat, apiVars, history>>

\* Leaving the fence; nothing to leave in a guarded commit.  A handler that commits
\* in several places may fail, or find its job cancelled, after the first.
LeaveFence(w) ==
  /\ pc[w] \in {"committing", "applied"}
  /\ IF commitMode[job[w]] = "fenced" THEN EndOwned(job[w]) ELSE UNCHANGED queueVars
  /\ \E after \in {"returned", "failed", "cancelled"} :
       /\ after # "failed" => pc[w] = "applied"
       /\ Goto(w, after)
  /\ UNCHANGED <<job, tok, beat, apiVars, history>>

-----------------------------------------------------------------------------
(* After the handler *)

\* if lease_errors: raise lease_errors[0]; then the completion report, if any.
AfterHandler(w) ==
  /\ pc[w] = "returned"
  /\ \/ beat[w] = "cancel" /\ Goto(w, "cancelled") /\ UNCHANGED requests
     \/ beat[w] = "error" /\ Goto(w, "failed") /\ UNCHANGED requests
     \/ /\ beat[w] = "on"
        /\ IF commitMode[job[w]] = "reported" /\ tok[w] \notin stale
           THEN requests' = requests \cup {<<job[w], tok[w]>>} /\ Goto(w, "reporting")
           ELSE UNCHANGED requests /\ Goto(w, "succeeded")
  /\ UNCHANGED <<queueVars, job, tok, beat, api, history>>

\* complete_export_internal: the advisory lock is not modelled here, the
\* annotation checks are the choice between ApiApply and ApiReject.
ApiBegin(j, t) ==
  /\ <<j, t>> \in requests /\ api[j] = "none"
  /\ BeginOwned(j, t)
  /\ api' = [api EXCEPT ![j] = "open"]
  /\ UNCHANGED <<workerVars, requests, history>>

ApiApply(j) ==
  /\ api[j] = "open"
  /\ commits' = [commits EXCEPT ![j] = @ \cup {rowLock[j]}]
  /\ api' = [api EXCEPT ![j] = "applied"]
  /\ UNCHANGED <<queueVars, workerVars, requests, stale>>

\* 200 once the transaction is committed; the worker may have stopped waiting.
ApiAnswer(j) ==
  /\ api[j] = "applied"
  /\ EndOwned(j)
  /\ api' = [api EXCEPT ![j] = "none"]
  /\ requests' = requests \ {<<j, rowLock[j]>>}
  /\ \E W \in SUBSET {w \in Worker : /\ pc[w] = "reporting"
                                     /\ <<job[w], tok[w]>> = <<j, rowLock[j]>>} :
       pc' = [w \in Worker |-> IF w \in W THEN "answered" ELSE pc[w]]
  /\ UNCHANGED <<commitMode, job, tok, beat, history>>

\* 409, or the API process dies with the transaction open.
ApiReject(j, t) ==
  /\ <<j, t>> \in requests
  /\ \/ api[j] = "none" /\ UNCHANGED queueVars
     \/ api[j] # "none" /\ rowLock[j] = t /\ EndOwned(j)
  /\ api' = [api EXCEPT ![j] = "none"]
  /\ requests' = requests \ {<<j, t>>}
  /\ UNCHANGED <<workerVars, history>>

\* urlopen raises: rejected, unreachable, timed out, or the answer was lost.
ReportFails(w) ==
  /\ pc[w] = "reporting"
  /\ Goto(w, "failed")
  /\ UNCHANGED <<queueVars, job, tok, beat, apiVars, history>>

\* The second `if lease_errors`, after the API answered 200.
AfterReport(w) ==
  /\ pc[w] = "answered"
  /\ Goto(w, CASE beat[w] = "on" -> "succeeded"
               [] beat[w] = "cancel" -> "cancelled"
               [] beat[w] = "error" -> "failed")
  /\ UNCHANGED <<queueVars, job, tok, beat, apiVars, history>>

SettleStatement(w) ==
  \/ pc[w] = "succeeded" /\ Finish(job[w], tok[w], "done")
  \/ pc[w] = "cancelled" /\ Finish(job[w], tok[w], "cancelled")
  \/ pc[w] = "failed"    /\ RetryOrFail(job[w], tok[w])

\* _settle_job_best_effort: a lost lease or a database error is only logged.
Settle(w) ==
  /\ pc[w] \in {"succeeded", "cancelled", "failed"}
  /\ SettleStatement(w) \/ UNCHANGED queueVars
  /\ Goto(w, "idle")
  /\ beat' = [beat EXCEPT ![w] = "off"]
  /\ UNCHANGED <<job, tok, apiVars, history>>

\* The container dies: its connections go, so does the row lock it held.
Crash(w) ==
  /\ pc[w] # "idle"
  /\ IF pc[w] \in {"committing", "applied"} /\ commitMode[job[w]] = "fenced"
     THEN EndOwned(job[w]) ELSE UNCHANGED queueVars
  /\ Goto(w, "idle")
  /\ beat' = [beat EXCEPT ![w] = "off"]
  /\ UNCHANGED <<job, tok, apiVars, history>>

-----------------------------------------------------------------------------

WorkerInit ==
  /\ Init
  /\ commitMode \in [Job -> {"fenced", "reported", "guarded"}]
  /\ pc = [w \in Worker |-> "idle"]
  /\ job \in [Worker -> Job] /\ job = [w \in Worker |-> CHOOSE j \in Job : TRUE]
  /\ tok = [w \in Worker |-> 0]
  /\ beat = [w \in Worker |-> "off"]
  /\ requests = {}
  /\ api = [j \in Job |-> "none"]
  /\ commits = [j \in Job |-> {}]
  /\ stale = {}

\* What a live worker process keeps doing.
Advance(w) ==
  \/ HandlerFails(w) \/ StaleResult(w) \/ ExportReady(w)
  \/ GuardCommit(w) \/ EnterFence(w) \/ Apply(w) \/ LeaveFence(w)
  \/ AfterHandler(w) \/ ReportFails(w) \/ AfterReport(w) \/ Settle(w)

Operator ==
  /\ \E j \in Job : Create(j) \/ Cancel(j)
  /\ UNCHANGED <<workerVars, apiVars, history>>

TimePasses(j) == Expire(j) /\ UNCHANGED <<workerVars, apiVars, history>>

ApiStep(j) ==
  \/ ApiApply(j) \/ ApiAnswer(j)
  \/ \E r \in requests : r[1] = j /\ (ApiBegin(j, r[2]) \/ ApiReject(j, r[2]))

WorkerNext ==
  \/ \E w \in Worker : \/ ClaimJob(w) \/ Poll(w) \/ Beat(w) \/ Progress(w)
                       \/ Advance(w) \/ Crash(w)
  \/ Operator
  \/ \E j \in Job : ApiStep(j) \/ TimePasses(j)

WorkerSpec == WorkerInit /\ [][WorkerNext]_vars

\* A lease nobody works under is not renewed, so its expiry comes.
Orphaned(j) == \A w \in Worker : pc[w] = "idle" \/ tok[w] # jobs[j].token

\* Processes that are up keep running, requests are answered one way or the
\* other, and the clock moves.  Crashes, cancellations and submissions are not
\* required to happen; nor is a crash required not to.
Fairness ==
  /\ \A w \in Worker : WF_vars(ClaimJob(w) \/ Poll(w)) /\ WF_vars(Advance(w))
  /\ \A j \in Job : WF_vars(ApiStep(j)) /\ WF_vars(Orphaned(j) /\ TimePasses(j))

FairSpec == WorkerSpec /\ Fairness

-----------------------------------------------------------------------------
(* Properties *)

\* Types; and a row lock always belongs to somebody who will release it: the API
\* inside owned_job_lease, or the worker between its commit and the end of its
\* transaction, whatever failed or was cancelled in between.
WorkerTypeOK ==
  /\ TypeOK
  /\ commitMode \in [Job -> {"fenced", "reported", "guarded"}]
  /\ pc \in [Worker -> Pc]
  /\ job \in [Worker -> Job]
  /\ tok \in [Worker -> 0..lastToken]
  /\ beat \in [Worker -> {"off", "on", "cancel", "error"}]
  /\ requests \subseteq Job \X (1..lastToken)
  /\ api \in [Job -> {"none", "open", "applied"}]
  /\ commits \in [Job -> SUBSET (1..lastToken)]
  /\ stale \subseteq 1..lastToken
  /\ \A j \in Job : rowLock[j] # 0 =>
       \/ api[j] # "none"
       \/ \E w \in Worker : /\ pc[w] \in {"committing", "applied"}
                            /\ job[w] = j /\ tok[w] = rowLock[j]

\* An effect committed under the row lock, by the worker or by the API, is the
\* effect of the lease in force: never of an attempt that was superseded, settled
\* or cancelled before the commit, however long the commit takes.
FencedCommitByCurrentLease ==
  [][\A j \in Job : commitMode[j] # "guarded" /\ commits'[j] # commits[j] =>
       /\ Active(j) /\ ~jobs[j].cancel
       /\ commits'[j] = commits[j] \cup {jobs[j].token}]_vars

\* A job is recorded done only if the attempt that recorded it committed its
\* effect, or found that the annotation had moved on.
DoneWasCommitted ==
  \A j \in Job : jobs[j].state = "done" => jobs[j].result \in commits[j] \cup stale

\* Every locked row has somebody who releases it, and what is done was committed.
WorkersSound == WorkerTypeOK /\ DoneWasCommitted

\* Every submitted CPU job is eventually settled, whatever crashes, expires or
\* is cancelled on the way.
EverySubmissionSettles ==
  \A j \in Job : WorkerKind[j] = "cpu" =>
    (jobs[j].state \in {"queued"} \cup ActiveState ~> Terminal(j))

\* A cancellation accepted while the job was active ends in "cancelled".
CancellationIsAnswered ==
  \A j \in Job : WorkerKind[j] = "cpu" =>
    (Active(j) /\ jobs[j].cancel ~> jobs[j].state = "cancelled")
=============================================================================
