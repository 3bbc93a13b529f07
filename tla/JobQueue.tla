------------------------------ MODULE JobQueue ------------------------------
(***************************************************************************)
(* The PostgreSQL table `jobs` and the statements the CPU side runs on it: *)
(* pipeline_core/jobs.py (claim, heartbeat, update_progress,               *)
(* retry_or_fail, finish) and server/durable_jobs.py (create, cancel,      *)
(* renew_owned_lease, owned_job_lease).                                    *)
(*                                                                         *)
(* Each action is one committed statement.  Callers are left open: any     *)
(* statement may be issued at any moment with any lease token ever handed  *)
(* out, so a worker that slept through the expiry of its lease, a delayed  *)
(* heartbeat or a replayed callback is one of the behaviours.  CpuWorker   *)
(* closes the module with the real callers.                                *)
(*                                                                         *)
(* Time is the action Expire: `lease_expires_at > now()` is lease "live",  *)
(* `lease_expires_at <= now()` is "expired", NULL is "none".  Payload,     *)
(* progress and error texts are left out; `result` keeps the token of the  *)
(* attempt that wrote it.                                                  *)
(***************************************************************************)
EXTENDS Naturals, FiniteSets

CONSTANTS
  Job,              \* the rows, one per idempotency key
  MaxAttempts,      \* column max_attempts (3 unless the insert says otherwise)
  Priority,         \* column priority, a function of the job's kind
  WorkerKind,       \* column worker_kind: "cpu" or "gpu"
  ReapLimit,        \* LIMIT of the CTE expired_terminal_candidates (100)
  MaxIncarnations   \* bound: how often one idempotency key is submitted

ASSUME JobQueueAssumption ==
  /\ IsFiniteSet(Job)
  /\ MaxAttempts \in Nat \ {0}
  /\ Priority \in [Job -> Nat]
  /\ WorkerKind \in [Job -> {"cpu", "gpu"}]
  /\ ReapLimit \in Nat \ {0}
  /\ MaxIncarnations \in Nat \ {0}

VARIABLES
  jobs,       \* the table
  lastToken,  \* gen_random_uuid(): every claim draws a token never used before
  rowLock     \* the token of the transaction that keeps the row locked, 0 if none

queueVars == <<jobs, lastToken, rowLock>>

ActiveState   == {"leased", "running"}
TerminalState == {"done", "error", "cancelled"}
JobState      == {"absent", "queued"} \cup ActiveState \cup TerminalState

Row == [state: JobState, attempts: Nat, token: Nat, lease: {"none", "live", "expired"},
        cancel: BOOLEAN, result: Nat, created: Nat, incarnation: Nat]

AbsentRow == [state |-> "absent", attempts |-> 0, token |-> 0, lease |-> "none",
              cancel |-> FALSE, result |-> 0, created |-> 0, incarnation |-> 0]

Active(j)   == jobs[j].state \in ActiveState
Terminal(j) == jobs[j].state \in TerminalState
Unlocked(j) == rowLock[j] = 0

\* Faulty: the token alone opens the row.
LeaseHeldByTokenOnly(j, t) == jobs[j].token = t

\* The WHERE clause every lease-holder statement carries.
LeaseHeld(j, t) == /\ jobs[j].token = t
                   /\ Active(j)
                   /\ jobs[j].lease = "live"

-----------------------------------------------------------------------------
(* Submission *)

\* How many rows existed when this one was inserted: created_at, as an order.
Inserted == {j \in Job : jobs[j].state # "absent"}

Submitted(created, incarnation) ==
  [AbsentRow EXCEPT !.state = "queued", !.created = created, !.incarnation = incarnation]

Insert(j) ==
  /\ jobs[j].state = "absent"
  /\ jobs' = [jobs EXCEPT ![j] = Submitted(Cardinality(Inserted), 1)]
  /\ UNCHANGED <<lastToken, rowLock>>

\* Faulty: the attempts of the last submission count on.
RequeueKeepingAttempts(j) ==
  /\ Terminal(j)
  /\ Unlocked(j)
  /\ jobs[j].incarnation < MaxIncarnations
  /\ jobs' = [jobs EXCEPT ![j] = [Submitted(@.created, @.incarnation + 1)
                                    EXCEPT !.attempts = jobs[j].attempts]]
  /\ UNCHANGED <<lastToken, rowLock>>

\* ON CONFLICT DO UPDATE ... WHERE jobs.state IN (terminal); created_at stays.
Requeue(j) ==
  /\ Terminal(j)
  /\ Unlocked(j)
  /\ jobs[j].incarnation < MaxIncarnations
  /\ jobs' = [jobs EXCEPT ![j] = Submitted(@.created, @.incarnation + 1)]
  /\ UNCHANGED <<lastToken, rowLock>>

\* A conflicting active row is returned as it is.
Create(j) == Insert(j) \/ Requeue(j)

-----------------------------------------------------------------------------
(* Claiming *)

\* Faulty: forgets the expired leases of cancelled jobs that have attempts left.
ReapableIfExhausted == {j \in Job : /\ Active(j)
                                    /\ jobs[j].lease = "expired"
                                    /\ jobs[j].attempts >= MaxAttempts
                                    /\ Unlocked(j)}

\* Expired leases that may not be retried; FOR UPDATE SKIP LOCKED.
Reapable == {j \in Job : /\ Active(j)
                         /\ jobs[j].lease = "expired"
                         /\ jobs[j].cancel \/ jobs[j].attempts >= MaxAttempts
                         /\ Unlocked(j)}

ReapBatches == {R \in SUBSET Reapable :
                  \/ R = Reapable /\ Cardinality(Reapable) <= ReapLimit
                  \/ Cardinality(R) = ReapLimit}

Reaped(row) ==
  [row EXCEPT !.state = IF row.cancel THEN "cancelled" ELSE "error",
              !.token = 0, !.lease = "none"]

\* Faulty: the job of a dead worker is not taken over.
ClaimableIfQueued(kind) == {j \in Job : /\ WorkerKind[j] = kind
                                        /\ ~jobs[j].cancel
                                        /\ jobs[j].attempts < MaxAttempts
                                        /\ jobs[j].state = "queued"
                                        /\ Unlocked(j)}

Claimable(kind) == {j \in Job : /\ WorkerKind[j] = kind
                                /\ ~jobs[j].cancel
                                /\ jobs[j].attempts < MaxAttempts
                                /\ \/ jobs[j].state = "queued"
                                   \/ Active(j) /\ jobs[j].lease = "expired"
                                /\ Unlocked(j)}

\* ORDER BY priority ASC, created_at ASC
ClaimsBefore(j, k) == \/ Priority[j] < Priority[k]
                      \/ /\ Priority[j] = Priority[k]
                         /\ jobs[j].created <= jobs[k].created

Leased(row, t) ==
  [row EXCEPT !.state = "leased", !.token = t, !.lease = "live",
              !.attempts = row.attempts + 1]

\* One CLAIM_SQL statement that returns job j: the reaping CTE and the claim.
Claim(kind, j) ==
  /\ j \in Claimable(kind)
  /\ \A k \in Claimable(kind) : ClaimsBefore(j, k)
  /\ \E R \in ReapBatches :
       jobs' = [k \in Job |-> IF k = j THEN Leased(jobs[k], lastToken + 1)
                              ELSE IF k \in R THEN Reaped(jobs[k])
                              ELSE jobs[k]]
  /\ lastToken' = lastToken + 1
  /\ UNCHANGED rowLock

\* CLAIM_SQL without a candidate returns no row, but still reaps.
ClaimNothing(kind) ==
  /\ Claimable(kind) = {}
  /\ \E R \in ReapBatches :
       jobs' = [k \in Job |-> IF k \in R THEN Reaped(jobs[k]) ELSE jobs[k]]
  /\ UNCHANGED <<lastToken, rowLock>>

-----------------------------------------------------------------------------
(* Statements of the lease holder *)

\* heartbeat and update_progress renew the lease even when a cancellation is
\* pending; they only report it to the caller.
Renewed(row) == [row EXCEPT !.state = "running", !.lease = "live"]

Heartbeat(j, t) ==
  /\ LeaseHeld(j, t)
  /\ Unlocked(j)
  /\ jobs' = [jobs EXCEPT ![j] = Renewed(@)]
  /\ UNCHANGED <<lastToken, rowLock>>

\* Faulty: a cancelled job with attempts left is queued again.
GivenUpForRetry(row) ==
  [row EXCEPT !.state = IF row.attempts < MaxAttempts THEN "queued" ELSE "error",
              !.token = 0, !.lease = "none"]

GivenUp(row) ==
  [row EXCEPT !.state = CASE row.cancel -> "cancelled"
                          [] ~row.cancel /\ row.attempts < MaxAttempts -> "queued"
                          [] OTHER -> "error",
              !.token = 0, !.lease = "none"]

RetryOrFail(j, t) ==
  /\ LeaseHeld(j, t)
  /\ Unlocked(j)
  /\ jobs' = [jobs EXCEPT ![j] = GivenUp(@)]
  /\ UNCHANGED <<lastToken, rowLock>>

\* Faulty: the outcome of the handler wins over the cancellation.
FinishedDespiteCancel(row, outcome) ==
  [row EXCEPT !.state  = outcome,
              !.result = IF outcome # "done" THEN 0 ELSE row.token,
              !.lease  = "none"]

\* finish keeps lease_token in the row and clears only lease_expires_at.
Finished(row, outcome) ==
  [row EXCEPT !.state  = IF row.cancel THEN "cancelled" ELSE outcome,
              !.result = IF row.cancel \/ outcome # "done" THEN 0 ELSE row.token,
              !.lease  = "none"]

Finish(j, t, outcome) ==
  /\ outcome \in TerminalState
  /\ LeaseHeld(j, t)
  /\ Unlocked(j)
  /\ jobs' = [jobs EXCEPT ![j] = Finished(@, outcome)]
  /\ UNCHANGED <<lastToken, rowLock>>

\* renew_owned_lease refuses a job whose cancellation was requested.
RenewOwnedLease(j, t) ==
  /\ LeaseHeld(j, t)
  /\ ~jobs[j].cancel
  /\ Unlocked(j)
  /\ UNCHANGED queueVars

\* Faulty: opens the transaction although a cancellation is pending.
BeginOwnedDespiteCancel(j, t) ==
  /\ LeaseHeld(j, t)
  /\ Unlocked(j)
  /\ rowLock' = [rowLock EXCEPT ![j] = t]
  /\ UNCHANGED <<jobs, lastToken>>

\* owned_job_lease: the same UPDATE, left uncommitted around an external commit.
BeginOwned(j, t) ==
  /\ LeaseHeld(j, t)
  /\ ~jobs[j].cancel
  /\ Unlocked(j)
  /\ rowLock' = [rowLock EXCEPT ![j] = t]
  /\ UNCHANGED <<jobs, lastToken>>

\* COMMIT or ROLLBACK of that transaction, also the one a lost connection makes.
\* Others saw the old lease_expires_at until now: a commit shows the renewed one,
\* which may still lie ahead though the old one has passed.
EndOwned(j) ==
  /\ ~Unlocked(j)
  /\ rowLock' = [rowLock EXCEPT ![j] = 0]
  /\ \E lease \in {jobs[j].lease, "live"} :
       jobs' = [jobs EXCEPT ![j] = [@ EXCEPT !.lease = lease]]
  /\ UNCHANGED lastToken

-----------------------------------------------------------------------------
(* Operator and clock *)

\* Faulty: a state the table does not have.
WithdrawnToCancelling(row) ==
  IF row.state = "queued" THEN [row EXCEPT !.state = "cancelled"]
                          ELSE [row EXCEPT !.state = "cancelling", !.cancel = TRUE]

\* A queued job is cancelled on the spot, a held one is only marked.
Withdrawn(row) ==
  IF row.state = "queued" THEN [row EXCEPT !.state = "cancelled"]
                          ELSE [row EXCEPT !.cancel = TRUE]

\* cancel, cancel_others, cancel_stale_video_exports: one row of the UPDATE.
Cancel(j) ==
  /\ jobs[j].state \in {"queued"} \cup ActiveState
  /\ Unlocked(j)
  /\ jobs' = [jobs EXCEPT ![j] = Withdrawn(@)]
  /\ UNCHANGED <<lastToken, rowLock>>

\* now() passes lease_expires_at, whatever the holder is doing.
Expire(j) ==
  /\ jobs[j].lease = "live"
  /\ jobs' = [jobs EXCEPT ![j] = [@ EXCEPT !.lease = "expired"]]
  /\ UNCHANGED <<lastToken, rowLock>>

-----------------------------------------------------------------------------

Init ==
  /\ jobs = [j \in Job |-> AbsentRow]
  /\ lastToken = 0
  /\ rowLock = [j \in Job |-> 0]

Holder(j, t) ==
  \/ Heartbeat(j, t)
  \/ RetryOrFail(j, t)
  \/ \E outcome \in TerminalState : Finish(j, t, outcome)
  \/ RenewOwnedLease(j, t)
  \/ BeginOwned(j, t)

Next ==
  \/ \E j \in Job : Create(j) \/ Cancel(j) \/ Expire(j) \/ EndOwned(j)
  \/ \E kind \in {"cpu", "gpu"} :
       ClaimNothing(kind) \/ \E j \in Job : Claim(kind, j)
  \/ \E j \in Job, t \in 1..lastToken : Holder(j, t)

Spec == Init /\ [][Next]_queueVars

-----------------------------------------------------------------------------
(* Properties *)

\* The table holds rows of the declared columns.
TypeOK ==
  /\ jobs \in [Job -> Row]
  /\ lastToken \in Nat
  /\ rowLock \in [Job -> Nat]

\* A queued row is one some claim will accept.  The claim skips cancelled and
\* exhausted rows and the reaper looks only at expired leases, so a row queued
\* with either mark would wait for ever: no statement may produce one.
QueuedIsClaimable ==
  \A j \in Job : jobs[j].state = "queued" =>
                   ~jobs[j].cancel /\ jobs[j].attempts < MaxAttempts

\* A row has a lease exactly while it is leased or running: a row in either state
\* without an expiry would be out of the reach of both claim and reaper.
LeaseIffActive ==
  \A j \in Job : (jobs[j].lease # "none") <=> Active(j)

\* No token opens two rows, and none was handed out by anything but a claim.
TokensUnique ==
  /\ \A j \in Job : jobs[j].token <= lastToken
  /\ \A j, k \in Job : jobs[j].token = jobs[k].token /\ j # k => jobs[j].token = 0

\* While a transaction keeps the row for an external commit, the job stays with
\* the lease that opened it: not reclaimed, not settled and not cancelled, even
\* if the lease runs out before the commit.
OwnedCommitExclusive ==
  \A j \in Job : rowLock[j] # 0 =>
                   /\ Active(j)
                   /\ jobs[j].token = rowLock[j]
                   /\ ~jobs[j].cancel

\* A result is the one written by the last lease of a job that ended done.
ResultOfLastLease ==
  \A j \in Job : /\ jobs[j].state = "done" <=> jobs[j].result # 0
                 /\ jobs[j].result # 0 => jobs[j].result = jobs[j].token

\* What a row shows is what happened to the job, in every order of claims, late
\* settlements and cancellations: somebody can still take it or has it, no other
\* row has its token, and its result is that of its last lease.
RowsSound == QueuedIsClaimable /\ LeaseIffActive /\ TokensUnique /\ ResultOfLastLease

\* A job is claimed at most MaxAttempts times between two submissions.
AttemptsBounded == \A j \in Job : jobs[j].attempts <= MaxAttempts

\* A settled job changes only by being submitted again: no late heartbeat,
\* finish or cancel of an older holder reaches it.
SettledStays ==
  [][\A j \in Job : Terminal(j) =>
       \/ jobs'[j] = jobs[j]
       \/ jobs'[j].incarnation = jobs[j].incarnation + 1]_queueVars

\* A cancellation accepted on a running job is never answered with "done" or a
\* further attempt.
CancelSticks ==
  [][\A j \in Job : Active(j) /\ jobs[j].cancel =>
       \/ Active(j)' /\ jobs'[j].cancel /\ jobs'[j].token = jobs[j].token
       \/ jobs'[j].state = "cancelled"]_queueVars

\* The columns a submitter reads (durable_jobs.get).
Seen(row) ==
  [status |-> CASE row.state = "queued" -> "waiting"
                [] row.state \in ActiveState -> "working"
                [] OTHER -> row.state,
   tries  |-> row.attempts,
   stop   |-> row.cancel]

Submitter == INSTANCE JobLifecycle WITH view <- [j \in Job |-> Seen(jobs[j])]

\* Whatever holders, reapers and the clock do, a submitter sees the life of a job
\* that JobLifecycle describes.
ImplementsLifecycle == Submitter!Lifecycle
=============================================================================
