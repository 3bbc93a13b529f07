----------------------------- MODULE MCJobQueue -----------------------------
(***************************************************************************)
(* The queue of the CPU side.  Its statements in any order, on two rows of *)
(* different priority; and two workers competing for a job that commits in *)
(* any of the three ways.  The workers have a queue of their own, so one   *)
(* of the two runs in a behaviour.                                         *)
(***************************************************************************)
EXTENDS JobQueue, TLC
CONSTANTS j1, j2, w1, w2

VARIABLES part, workerJobs, lastClaim, workerLock,
          commitMode, pc, job, tok, beat, requests, api, commits, stale

MCPriority   == (j1 :> 50) @@ (j2 :> 70)
MCWorkerKind == [j \in Job |-> "cpu"]

Workers == INSTANCE CpuWorker
             WITH jobs <- workerJobs, lastToken <- lastClaim, rowLock <- workerLock,
                  Job <- {j1}, Worker <- {w1, w2}, MaxIncarnations <- 1, ReapLimit <- 100,
                  Priority <- (j1 :> 50), WorkerKind <- (j1 :> "cpu")

workerState == <<workerJobs, lastClaim, workerLock,
                 commitMode, pc, job, tok, beat, requests, api, commits, stale>>
mcVars == <<part, queueVars, workerState>>

MCInit ==
  /\ part \in {"statements", "workers"}
  /\ Init
  /\ Workers!WorkerInit
  /\ part = "statements" => commitMode[j1] = "fenced"

MCNext ==
  \/ part = "statements" /\ Next /\ UNCHANGED <<part, workerState>>
  \/ part = "workers" /\ Workers!WorkerNext /\ UNCHANGED <<part, queueVars>>

\* A step of the workers, as the fairness of CpuWorker has it.
Step(A) == part = "workers" /\ A /\ UNCHANGED <<part, queueVars>>

MCFairness ==
  /\ \A w \in {w1, w2} :
       /\ WF_mcVars(Step(Workers!ClaimJob(w) \/ Workers!Poll(w)))
       /\ WF_mcVars(Step(Workers!Advance(w)))
  /\ WF_mcVars(Step(Workers!ApiStep(j1)))
  /\ WF_mcVars(Step(Workers!Orphaned(j1) /\ Workers!TimePasses(j1)))

MCSpec == MCInit /\ [][MCNext]_mcVars /\ MCFairness

\* CpuWorker: locks have an owner, and what is done was committed.
WorkersSound == part = "workers" => Workers!WorkersSound

\* CpuWorker: under the row lock only the lease in force commits.
FencedCommitByCurrentLease == Workers!FencedCommitByCurrentLease

\* CpuWorker: every submission settles.
EverySubmissionSettles == Workers!EverySubmissionSettles

\* CpuWorker: every cancellation is answered.
CancellationIsAnswered == Workers!CancellationIsAnswered
=============================================================================
