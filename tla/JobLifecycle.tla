---------------------------- MODULE JobLifecycle ----------------------------
(***************************************************************************)
(* What the durable queue promises to whoever submits a job, without the   *)
(* leases, tokens, row locks and reaping that keep the promise: the states *)
(* a row of `jobs` shows through durable_jobs.get.  JobQueue implements it.*)
(***************************************************************************)
EXTENDS Naturals

CONSTANTS Job, MaxAttempts

VARIABLE view   \* what the submitter sees of each job

Settled == {"done", "error", "cancelled"}
Status  == {"absent", "waiting", "working"} \cup Settled

At(status, tries, stop) == [status |-> status, tries |-> tries, stop |-> stop]
Fresh(status) == At(status, 0, FALSE)

\* Submitting again is possible only once the last submission was answered.
Submitted(old, new) ==
  /\ old.status \in {"absent"} \cup Settled
  /\ new = Fresh("waiting")

\* An attempt starts, the first or one that replaces an attempt that died.
Attempted(old, new) ==
  /\ old.status \in {"waiting", "working"}
  /\ ~old.stop /\ old.tries < MaxAttempts
  /\ new = At("working", old.tries + 1, old.stop)

\* A failed attempt leaves the job to the next one.
GivenBack(old, new) ==
  /\ old.status = "working" /\ ~old.stop /\ old.tries < MaxAttempts
  /\ new = At("waiting", old.tries, old.stop)

\* A job that was asked to stop can only answer "cancelled".
Answered(old, new) ==
  /\ old.status = "working"
  /\ \E answer \in Settled : /\ old.stop => answer = "cancelled"
                             /\ new = At(answer, old.tries, old.stop)

StopRequested(old, new) ==
  \/ old.status = "waiting" /\ new = At("cancelled", old.tries, old.stop)
  \/ old.status = "working" /\ new = At("working", old.tries, TRUE)

JobStep(old, new) ==
  \/ Submitted(old, new)
  \/ Attempted(old, new)
  \/ GivenBack(old, new)
  \/ Answered(old, new)
  \/ StopRequested(old, new)

LifecycleInit == view = [j \in Job |-> Fresh("absent")]

\* A statement may answer several jobs at once (the reaper).
LifecycleNext ==
  view' \in [Job -> [status: Status, tries: Nat, stop: BOOLEAN]]
  /\ \A j \in Job : view'[j] = view[j] \/ JobStep(view[j], view'[j])

Lifecycle == LifecycleInit /\ [][LifecycleNext]_view
=============================================================================
