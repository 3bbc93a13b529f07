--------------------------- MODULE JobQueueProofs ---------------------------
(***************************************************************************)
(* Proofs about JobQueue for every set of jobs, every max_attempts and any *)
(* interleaving of holders, reapers, operators and the clock, and, after   *)
(* them, about CpuWorker, for any number of workers and crashes.           *)
(***************************************************************************)
EXTENDS CpuWorker, FiniteSetTheorems, TLAPS

\* created_at of a new row is a number.
LEMMA InsertedCounted == Cardinality(Inserted) \in Nat
<1>1. IsFiniteSet(Inserted)
  BY JobQueueAssumption, FS_Subset DEF Inserted
<1> QED BY <1>1, FS_CardinalityType

-----------------------------------------------------------------------------
(* What the statements write is a row. *)

\* The row a submission writes (durable_jobs.create).
LEMMA SubmittedIsRow ==
  ASSUME NEW created \in Nat, NEW incarnation \in Nat
  PROVE  Submitted(created, incarnation) \in Row
BY DEF Submitted, AbsentRow, Row, JobState

\* The row a claim writes (CLAIM_SQL, UPDATE jobs AS job).
LEMMA LeasedIsRow ==
  ASSUME NEW row \in Row, NEW t \in Nat
  PROVE  Leased(row, t) \in Row
<1>1. row.attempts + 1 \in Nat
  BY DEF Row
<1> QED BY <1>1 DEF Leased, Row, JobState, ActiveState, TerminalState

\* The row the reaping CTE writes (CLAIM_SQL, expired_terminal).
LEMMA ReapedIsRow ==
  ASSUME NEW row \in Row
  PROVE  Reaped(row) \in Row
BY DEF Reaped, Row, JobState, ActiveState, TerminalState

\* The rows the holder's statements, the operator and the clock write.
LEMMA HolderWritesRows ==
  ASSUME NEW row \in Row
  PROVE  /\ Renewed(row) \in Row
         /\ GivenUp(row) \in Row
         /\ \A outcome \in TerminalState : Finished(row, outcome) \in Row
         /\ Withdrawn(row) \in Row
         /\ [row EXCEPT !.lease = "expired"] \in Row
         /\ \A lease \in {row.lease, "live"} : [row EXCEPT !.lease = lease] \in Row
<1>1. Renewed(row) \in Row
  BY DEF Renewed, Row, JobState, ActiveState
<1>2. GivenUp(row) \in Row
  BY DEF GivenUp, Row, JobState, TerminalState
<1>3. ASSUME NEW outcome \in TerminalState PROVE Finished(row, outcome) \in Row
  BY DEF Finished, Row, JobState, TerminalState
<1>4. Withdrawn(row) \in Row
  <2>1. [row EXCEPT !.state = "cancelled"] \in Row
    BY DEF Row, JobState, TerminalState
  <2>2. [row EXCEPT !.cancel = TRUE] \in Row
    BY DEF Row
  <2> QED BY <2>1, <2>2 DEF Withdrawn
<1>5. [row EXCEPT !.lease = "expired"] \in Row
  BY DEF Row
<1>6. ASSUME NEW lease \in {row.lease, "live"} PROVE [row EXCEPT !.lease = lease] \in Row
  BY DEF Row
<1> QED BY <1>1, <1>2, <1>3, <1>4, <1>5, <1>6

-----------------------------------------------------------------------------
(* Type correctness *)

\* Every statement keeps the table well typed.
LEMMA TypingStep == TypeOK /\ [Next]_queueVars => TypeOK'
<1> SUFFICES ASSUME TypeOK, [Next]_queueVars PROVE TypeOK' OBVIOUS
<1> USE DEF TypeOK
<1>1. ASSUME NEW j \in Job, Create(j) PROVE TypeOK'
  <2>1. CASE Insert(j)
    BY <2>1, InsertedCounted, SubmittedIsRow DEF Insert
  <2>2. CASE Requeue(j)
    <3>1. jobs[j].incarnation + 1 \in Nat /\ jobs[j].created \in Nat
      BY DEF Row
    <3> QED BY <2>2, <3>1, SubmittedIsRow DEF Requeue
  <2> QED BY <1>1, <2>1, <2>2 DEF Create
<1>2. ASSUME NEW j \in Job, Cancel(j) PROVE TypeOK'
  BY <1>2, HolderWritesRows DEF Cancel
<1>3. ASSUME NEW j \in Job, Expire(j) PROVE TypeOK'
  BY <1>3, HolderWritesRows DEF Expire
<1>4. ASSUME NEW j \in Job, EndOwned(j) PROVE TypeOK'
  <2>1. PICK lease \in {jobs[j].lease, "live"} :
               jobs' = [jobs EXCEPT ![j] = [jobs[j] EXCEPT !.lease = lease]]
    BY <1>4 DEF EndOwned
  <2>2. [jobs[j] EXCEPT !.lease = lease] \in Row
    BY <2>1, HolderWritesRows
  <2> QED BY <1>4, <2>1, <2>2 DEF EndOwned
<1>5. ASSUME NEW kind \in {"cpu", "gpu"}, ClaimNothing(kind) PROVE TypeOK'
  BY <1>5, ReapedIsRow DEF ClaimNothing
<1>6. ASSUME NEW kind \in {"cpu", "gpu"}, NEW j \in Job, Claim(kind, j) PROVE TypeOK'
  BY <1>6, ReapedIsRow, LeasedIsRow DEF Claim
<1>7. ASSUME NEW j \in Job, NEW t \in 1..lastToken, Holder(j, t) PROVE TypeOK'
  <2>1. CASE Heartbeat(j, t)
    BY <2>1, HolderWritesRows DEF Heartbeat
  <2>2. CASE RetryOrFail(j, t)
    BY <2>2, HolderWritesRows DEF RetryOrFail
  <2>3. ASSUME NEW outcome \in TerminalState, Finish(j, t, outcome) PROVE TypeOK'
    BY <2>3, HolderWritesRows DEF Finish
  <2>4. CASE RenewOwnedLease(j, t)
    BY <2>4 DEF RenewOwnedLease, queueVars
  <2>5. CASE BeginOwned(j, t)
    BY <2>5 DEF BeginOwned
  <2> QED BY <1>7, <2>1, <2>2, <2>3, <2>4, <2>5 DEF Holder
<1>8. CASE UNCHANGED queueVars
  BY <1>8 DEF queueVars
<1> QED BY <1>1, <1>2, <1>3, <1>4, <1>5, <1>6, <1>7, <1>8 DEF Next

\* The table is well typed in every reachable state.
THEOREM TypeCorrect == Spec => []TypeOK
<1>1. Init => TypeOK
  BY DEF Init, TypeOK, AbsentRow, Row, JobState
<1> QED BY <1>1, TypingStep, PTL DEF Spec

-----------------------------------------------------------------------------
(* The inductive invariant *)

\* What every statement preserves of the single row it writes.
RowInv(row) ==
  /\ row.state = "queued" => ~row.cancel /\ row.attempts < MaxAttempts
  /\ row.attempts <= MaxAttempts
  /\ (row.lease # "none") <=> row.state \in ActiveState
  /\ row.state \in ActiveState => row.token # 0
  /\ row.state = "done" <=> row.result # 0
  /\ row.result # 0 => row.result = row.token

QueueInv ==
  /\ TypeOK
  /\ \A j \in Job : RowInv(jobs[j])
  /\ TokensUnique
  /\ OwnedCommitExclusive

\* Submission, claim and reaping write rows that satisfy RowInv.
LEMMA ClaimSideKeepsRowInv ==
  ASSUME NEW row \in Row, RowInv(row)
  PROVE  /\ \A created, incarnation \in Nat : RowInv(Submitted(created, incarnation))
         /\ row.state \in ActiveState => RowInv(Reaped(row))
         /\ \A t \in Nat \ {0} :
              /\ row.state \in {"queued"} \cup ActiveState
              /\ row.attempts < MaxAttempts
              => RowInv(Leased(row, t))
<1>1. ASSUME NEW created \in Nat, NEW incarnation \in Nat
      PROVE  RowInv(Submitted(created, incarnation))
  BY JobQueueAssumption DEF RowInv, Submitted, AbsentRow, ActiveState
<1>2. ASSUME row.state \in ActiveState PROVE RowInv(Reaped(row))
  BY <1>2 DEF RowInv, Reaped, ActiveState, Row
<1>3. ASSUME NEW t \in Nat \ {0}, row.state \in {"queued"} \cup ActiveState,
             row.attempts < MaxAttempts
      PROVE  RowInv(Leased(row, t))
  BY <1>3, JobQueueAssumption DEF RowInv, Leased, ActiveState, Row
<1> QED BY <1>1, <1>2, <1>3

\* So do the statements of the holder, the operator and the clock.
LEMMA HolderSideKeepsRowInv ==
  ASSUME NEW row \in Row, RowInv(row)
  PROVE  /\ row.state \in ActiveState =>
              /\ RowInv(Renewed(row))
              /\ RowInv(GivenUp(row))
              /\ \A outcome \in TerminalState : RowInv(Finished(row, outcome))
              /\ RowInv([row EXCEPT !.lease = "expired"])
              /\ RowInv([row EXCEPT !.lease = "live"])
              /\ RowInv(Withdrawn(row))
         /\ row.state = "queued" => RowInv(Withdrawn(row))
<1>1. ASSUME row.state \in ActiveState PROVE RowInv(Renewed(row))
  BY <1>1 DEF RowInv, Renewed, ActiveState, Row
<1>2. ASSUME row.state \in ActiveState PROVE RowInv(GivenUp(row))
  BY <1>2 DEF RowInv, GivenUp, ActiveState, Row
<1>3. ASSUME row.state \in ActiveState, NEW outcome \in TerminalState
      PROVE  RowInv(Finished(row, outcome))
  BY <1>3 DEF RowInv, Finished, ActiveState, TerminalState, Row
<1>4. ASSUME row.state \in ActiveState
      PROVE  /\ RowInv([row EXCEPT !.lease = "expired"])
             /\ RowInv([row EXCEPT !.lease = "live"])
             /\ RowInv(Withdrawn(row))
  BY <1>4 DEF RowInv, Withdrawn, ActiveState, Row
<1>5. ASSUME row.state = "queued" PROVE RowInv(Withdrawn(row))
  BY <1>5 DEF RowInv, Withdrawn, ActiveState, Row
<1> QED BY <1>1, <1>2, <1>3, <1>4, <1>5

\* A step that draws no token and only drops some leaves tokens unique.
LEMMA TokensKept ==
  ASSUME TypeOK, TokensUnique, lastToken' = lastToken,
         \A k \in Job : jobs'[k].token = jobs[k].token \/ jobs'[k].token = 0
  PROVE  TokensUnique'
BY DEF TypeOK, TokensUnique, Row

\* QueueInv is inductive: one step per statement, and under it the row it writes,
\* the tokens it moves and the rows it must not touch.
LEMMA InvariantStep == QueueInv /\ [Next]_queueVars => QueueInv'
<1> SUFFICES ASSUME QueueInv, [Next]_queueVars PROVE QueueInv' OBVIOUS
<1> USE DEF QueueInv
<1>0. TypeOK'
  BY TypingStep
<1> DEFINE Kept == /\ \A j \in Job : RowInv(jobs[j])'
                   /\ TokensUnique'
                   /\ OwnedCommitExclusive'
<1>T. \A j \in Job : jobs[j] \in Row
  BY DEF TypeOK
<1> SUFFICES Kept
  BY <1>0
\* A statement on one unlocked row.
<1>S. ASSUME NEW j \in Job, NEW row, jobs' = [jobs EXCEPT ![j] = row], RowInv(row),
             Unlocked(j), lastToken' = lastToken, rowLock' = rowLock,
             row.token = jobs[j].token \/ row.token = 0
      PROVE  Kept
  <2>1. \A k \in Job : jobs'[k] = IF k = j THEN row ELSE jobs[k]
    BY <1>S DEF TypeOK
  <2>2. TokensUnique'
    BY <1>S, <2>1, TokensKept
  <2>3. OwnedCommitExclusive'
    BY <1>S, <2>1 DEF OwnedCommitExclusive, Unlocked, Active
  <2> QED BY <1>S, <2>1, <2>2, <2>3
<1>1. ASSUME NEW j \in Job, Create(j) PROVE Kept
  <2>1. CASE Insert(j)
    <3>1. RowInv(Submitted(Cardinality(Inserted), 1))
      BY <1>T, InsertedCounted, ClaimSideKeepsRowInv
    <3>2. Unlocked(j)
      BY <2>1 DEF Insert, OwnedCommitExclusive, Unlocked, Active, ActiveState
    <3>3. Submitted(Cardinality(Inserted), 1).token = 0
      BY DEF Submitted, AbsentRow
    <3> QED BY <2>1, <3>1, <3>2, <3>3, <1>S DEF Insert
  <2>2. CASE Requeue(j)
    <3> DEFINE row == Submitted(jobs[j].created, jobs[j].incarnation + 1)
    <3>1. jobs[j].incarnation + 1 \in Nat /\ jobs[j].created \in Nat
      BY <1>T DEF Row
    <3>2. RowInv(row) /\ row.token = 0
      BY <1>T, <3>1, ClaimSideKeepsRowInv DEF Submitted, AbsentRow
    <3>3. jobs' = [jobs EXCEPT ![j] = row]
      BY <2>2 DEF Requeue
    <3> HIDE DEF row
    <3> QED BY <2>2, <3>2, <3>3, <1>S DEF Requeue
  <2> QED BY <1>1, <2>1, <2>2 DEF Create
<1>2. ASSUME NEW j \in Job, Cancel(j) PROVE Kept
  <2>1. RowInv(Withdrawn(jobs[j]))
    BY <1>2, <1>T, HolderSideKeepsRowInv DEF Cancel, RowInv
  <2>2. Withdrawn(jobs[j]).token = jobs[j].token
    BY <1>T DEF Withdrawn, Row
  <2> QED BY <1>2, <2>1, <2>2, <1>S DEF Cancel
\* The clock does not wait for row locks, but it touches the lease only.
<1>L. ASSUME NEW j \in Job, NEW lease \in {"live", "expired"}, Active(j),
             jobs' = [jobs EXCEPT ![j] = [jobs[j] EXCEPT !.lease = lease]],
             lastToken' = lastToken, rowLock'[j] \in {rowLock[j], 0},
             \A k \in Job : k # j => rowLock'[k] = rowLock[k]
      PROVE  Kept
  <2>1. RowInv([jobs[j] EXCEPT !.lease = lease])
    BY <1>L, <1>T, HolderSideKeepsRowInv DEF Active
  <2>2. \A k \in Job : /\ k # j => jobs'[k] = jobs[k]
                       /\ jobs'[j] = [jobs[j] EXCEPT !.lease = lease]
    BY <1>L DEF TypeOK
  <2>3. \A k \in Job : /\ jobs'[k].token = jobs[k].token
                       /\ jobs'[k].state = jobs[k].state
                       /\ jobs'[k].cancel = jobs[k].cancel
    BY <1>T, <2>2 DEF Row
  <2>4. TokensUnique'
    BY <1>L, <2>3, TokensKept
  <2>5. OwnedCommitExclusive'
    BY <1>L, <2>3 DEF OwnedCommitExclusive, Active
  <2> QED BY <2>1, <2>2, <2>4, <2>5
<1>3. ASSUME NEW j \in Job, Expire(j) PROVE Kept
  <2>1. Active(j)
    BY <1>3 DEF Expire, RowInv, Active
  <2> QED BY <1>3, <2>1, <1>L DEF Expire
<1>4. ASSUME NEW j \in Job, EndOwned(j) PROVE Kept
  <2>1. PICK lease \in {jobs[j].lease, "live"} :
               jobs' = [jobs EXCEPT ![j] = [jobs[j] EXCEPT !.lease = lease]]
    BY <1>4 DEF EndOwned
  <2>2. Active(j)
    BY <1>4 DEF EndOwned, OwnedCommitExclusive, Unlocked
  <2>3. lease \in {"live", "expired"}
    BY <1>T, <2>2 DEF RowInv, Active, Row
  <2>4. /\ lastToken' = lastToken /\ rowLock'[j] \in {rowLock[j], 0}
        /\ \A k \in Job : k # j => rowLock'[k] = rowLock[k]
    BY <1>4 DEF EndOwned, TypeOK
  <2> QED BY <2>1, <2>2, <2>3, <2>4, <1>L
<1>5. ASSUME NEW kind \in {"cpu", "gpu"}, ClaimNothing(kind) PROVE Kept
  <2>1. PICK R \in ReapBatches :
               jobs' = [k \in Job |-> IF k \in R THEN Reaped(jobs[k]) ELSE jobs[k]]
    BY <1>5 DEF ClaimNothing
  <2>2. \A k \in R : k \in Job /\ Active(k) /\ Unlocked(k)
    BY DEF ReapBatches, Reapable
  <2>3. \A k \in Job : RowInv(jobs'[k])
    BY <1>T, <2>1, <2>2, ClaimSideKeepsRowInv DEF Active
  <2>4. \A k \in Job : jobs'[k].token = jobs[k].token \/ jobs'[k].token = 0
    BY <1>T, <2>1 DEF Reaped, Row
  <2>5. TokensUnique'
    BY <1>5, <2>4, TokensKept DEF ClaimNothing
  <2>6. OwnedCommitExclusive'
    BY <1>5, <2>1, <2>2 DEF ClaimNothing, OwnedCommitExclusive, Unlocked, Active
  <2> QED BY <2>3, <2>5, <2>6
<1>6. ASSUME NEW kind \in {"cpu", "gpu"}, NEW j \in Job, Claim(kind, j) PROVE Kept
  <2>1. PICK R \in ReapBatches :
               jobs' = [k \in Job |-> IF k = j THEN Leased(jobs[k], lastToken + 1)
                                      ELSE IF k \in R THEN Reaped(jobs[k])
                                      ELSE jobs[k]]
    BY <1>6 DEF Claim
  <2>2. \A k \in R : k \in Job /\ Active(k) /\ Unlocked(k)
    BY DEF ReapBatches, Reapable
  <2>3. /\ jobs[j].state \in {"queued"} \cup ActiveState
        /\ jobs[j].attempts < MaxAttempts /\ Unlocked(j)
    BY <1>6 DEF Claim, Claimable, Active
  <2>4. lastToken + 1 \in Nat \ {0}
    BY DEF TypeOK
  <2>5. \A k \in Job : RowInv(jobs'[k])
    BY <1>T, <2>1, <2>2, <2>3, <2>4, ClaimSideKeepsRowInv DEF Active
  <2>6. /\ jobs'[j].token = lastToken + 1
        /\ \A k \in Job : k # j => jobs'[k].token = jobs[k].token \/ jobs'[k].token = 0
    BY <1>T, <2>1 DEF Leased, Reaped, Row
  <2>7. lastToken' = lastToken + 1 /\ \A k \in Job : jobs[k].token \in Nat
    BY <1>6, <1>T DEF Claim, Row
  <2>8. TokensUnique'
    BY <2>4, <2>6, <2>7 DEF TokensUnique, TypeOK
  <2>9. OwnedCommitExclusive'
    BY <1>6, <2>1, <2>2, <2>3 DEF Claim, OwnedCommitExclusive, Unlocked, Active
  <2> QED BY <2>5, <2>8, <2>9
<1>7. ASSUME NEW j \in Job, NEW t \in 1..lastToken, Holder(j, t) PROVE Kept
  <2>1. CASE Heartbeat(j, t)
    <3>1. RowInv(Renewed(jobs[j])) /\ Renewed(jobs[j]).token = jobs[j].token
      BY <2>1, <1>T, HolderSideKeepsRowInv DEF Heartbeat, LeaseHeld, Active, Renewed, Row
    <3> QED BY <2>1, <3>1, <1>S DEF Heartbeat
  <2>2. CASE RetryOrFail(j, t)
    <3>1. RowInv(GivenUp(jobs[j])) /\ GivenUp(jobs[j]).token = 0
      BY <2>2, <1>T, HolderSideKeepsRowInv DEF RetryOrFail, LeaseHeld, Active, GivenUp, Row
    <3> QED BY <2>2, <3>1, <1>S DEF RetryOrFail
  <2>3. ASSUME NEW outcome \in TerminalState, Finish(j, t, outcome) PROVE Kept
    <3>1. /\ RowInv(Finished(jobs[j], outcome))
          /\ Finished(jobs[j], outcome).token = jobs[j].token
      BY <2>3, <1>T, HolderSideKeepsRowInv DEF Finish, LeaseHeld, Active, Finished, Row
    <3> QED BY <2>3, <3>1, <1>S DEF Finish
  <2>4. CASE RenewOwnedLease(j, t)
    BY <2>4 DEF RenewOwnedLease, queueVars, TokensUnique, OwnedCommitExclusive, Active
  <2>5. CASE BeginOwned(j, t)
    BY <2>5, <1>T DEF BeginOwned, LeaseHeld, TypeOK, TokensUnique, OwnedCommitExclusive, Active
  <2> QED BY <1>7, <2>1, <2>2, <2>3, <2>4, <2>5 DEF Holder
<1>8. CASE UNCHANGED queueVars
  BY <1>8 DEF queueVars, TokensUnique, OwnedCommitExclusive, Active
<1> QED BY <1>1, <1>2, <1>3, <1>4, <1>5, <1>6, <1>7, <1>8 DEF Next

\* The conjunction of all the invariants holds in every reachable state.
LEMMA Invariance == Spec => []QueueInv
<1>1. Init => QueueInv
  BY JobQueueAssumption
     DEF Init, QueueInv, TypeOK, AbsentRow, Row, JobState, RowInv, ActiveState,
         TokensUnique, OwnedCommitExclusive
<1> QED BY <1>1, InvariantStep, PTL DEF Spec

\* While owned_job_lease keeps a row for an external commit, no claim, reaper,
\* cancellation or late holder takes the job from the lease that opened it.
THEOREM ExclusiveOwnership == Spec => []OwnedCommitExclusive
BY Invariance, PTL DEF QueueInv

\* No two rows ever carry the same lease token.
THEOREM DistinctTokens == Spec => []TokensUnique
BY Invariance, PTL DEF QueueInv

\* No queued row is ever out of the claim's reach.
THEOREM NoUnclaimableRow == Spec => []QueuedIsClaimable
<1>1. QueueInv => QueuedIsClaimable
  BY DEF QueueInv, RowInv, QueuedIsClaimable
<1> QED BY <1>1, Invariance, PTL

\* Rows that are leased or running, and only they, have an expiry.
THEOREM ExpiryOfActiveRows == Spec => []LeaseIffActive
<1>1. QueueInv => LeaseIffActive
  BY DEF QueueInv, RowInv, LeaseIffActive, Active
<1> QED BY <1>1, Invariance, PTL

\* A done row holds the result of its last lease, no other row holds one.
THEOREM ResultProvenance == Spec => []ResultOfLastLease
<1>1. QueueInv => ResultOfLastLease
  BY DEF QueueInv, RowInv, ResultOfLastLease
<1> QED BY <1>1, Invariance, PTL

\* Rows always show what happened to their jobs.
THEOREM RowsAreSound == Spec => []RowsSound
BY DistinctTokens, NoUnclaimableRow, ExpiryOfActiveRows, ResultProvenance, PTL DEF RowsSound

\* No submission is attempted more than max_attempts times.
THEOREM BoundedAttempts == Spec => []AttemptsBounded
<1>1. QueueInv => AttemptsBounded
  BY DEF QueueInv, RowInv, AttemptsBounded
<1> QED BY <1>1, Invariance, PTL

-----------------------------------------------------------------------------
(* Steps, row by row *)

\* What one statement may do to one row.
RowStep(old, new) ==
  \/ new = old
  \/ /\ old.state = "absent"
     /\ \E created \in Nat : new = Submitted(created, 1)
  \/ /\ old.state \in TerminalState
     /\ new = Submitted(old.created, old.incarnation + 1)
  \/ /\ old.state \in {"queued"} \cup ActiveState
     /\ ~old.cancel /\ old.attempts < MaxAttempts
     /\ \E t \in Nat : new = Leased(old, t)
  \/ /\ old.state \in ActiveState
     /\ old.cancel \/ old.attempts >= MaxAttempts
     /\ new = Reaped(old)
  \/ /\ old.state \in ActiveState
     /\ \/ new \in {Renewed(old), GivenUp(old)}
        \/ \E outcome \in TerminalState : new = Finished(old, outcome)
        \/ \E lease \in {"live", "expired"} : new = [old EXCEPT !.lease = lease]
  \/ /\ old.state \in {"queued"} \cup ActiveState
     /\ new = Withdrawn(old)

\* Whatever statement runs, and however many rows it writes, each row takes one
\* of those steps.
LEMMA StepsRowByRow ==
  ASSUME QueueInv, [Next]_queueVars
  PROVE  \A k \in Job : RowStep(jobs[k], jobs'[k])
<1> USE DEF QueueInv
<1> DEFINE Goal == \A k \in Job : RowStep(jobs[k], jobs'[k])
<1>T. \A j \in Job : jobs[j] \in Row
  BY DEF TypeOK
<1>S. ASSUME NEW j \in Job, NEW row, jobs' = [jobs EXCEPT ![j] = row],
             RowStep(jobs[j], row)
      PROVE  Goal
  <2>1. \A k \in Job : jobs'[k] = IF k = j THEN row ELSE jobs[k]
    BY <1>S DEF TypeOK
  <2> QED BY <2>1, <1>S DEF RowStep
<1>1. ASSUME NEW j \in Job, Create(j) PROVE Goal
  <2>1. CASE Insert(j)
    BY <2>1, <1>S, InsertedCounted DEF Insert, RowStep
  <2>2. CASE Requeue(j)
    BY <2>2, <1>S DEF Requeue, RowStep, Terminal
  <2> QED BY <1>1, <2>1, <2>2 DEF Create
<1>2. ASSUME NEW j \in Job, Cancel(j) PROVE Goal
  BY <1>2, <1>S DEF Cancel, RowStep
<1>3. ASSUME NEW j \in Job, Expire(j) PROVE Goal
  BY <1>3, <1>S DEF Expire, RowStep, RowInv
<1>4. ASSUME NEW j \in Job, EndOwned(j) PROVE Goal
  <2>1. PICK lease \in {jobs[j].lease, "live"} :
               jobs' = [jobs EXCEPT ![j] = [jobs[j] EXCEPT !.lease = lease]]
    BY <1>4 DEF EndOwned
  <2>2. Active(j)
    BY <1>4 DEF EndOwned, OwnedCommitExclusive, Unlocked
  <2>3. lease \in {"live", "expired"}
    BY <1>T, <2>2 DEF RowInv, Active, Row
  <2> QED BY <2>1, <2>2, <2>3, <1>S DEF RowStep, Active
<1>5. ASSUME NEW kind \in {"cpu", "gpu"}, ClaimNothing(kind) PROVE Goal
  BY <1>5 DEF ClaimNothing, ReapBatches, Reapable, RowStep, Active
<1>6. ASSUME NEW kind \in {"cpu", "gpu"}, NEW j \in Job, Claim(kind, j) PROVE Goal
  <2>1. PICK R \in ReapBatches :
               jobs' = [k \in Job |-> IF k = j THEN Leased(jobs[k], lastToken + 1)
                                      ELSE IF k \in R THEN Reaped(jobs[k])
                                      ELSE jobs[k]]
    BY <1>6 DEF Claim
  <2>2. \A k \in R : RowStep(jobs[k], Reaped(jobs[k]))
    BY DEF ReapBatches, Reapable, RowStep, Active
  <2>3. lastToken + 1 \in Nat
    BY DEF TypeOK
  <2>4. RowStep(jobs[j], Leased(jobs[j], lastToken + 1))
    BY <1>6, <2>3 DEF Claim, Claimable, RowStep, Active
  <2>5. \A k \in Job : RowStep(jobs[k], jobs[k])
    BY DEF RowStep
  <2> QED BY <2>1, <2>2, <2>4, <2>5
<1>7. ASSUME NEW j \in Job, NEW t \in 1..lastToken, Holder(j, t) PROVE Goal
  <2>1. CASE Heartbeat(j, t)
    BY <2>1, <1>S DEF Heartbeat, LeaseHeld, Active, RowStep
  <2>2. CASE RetryOrFail(j, t)
    BY <2>2, <1>S DEF RetryOrFail, LeaseHeld, Active, RowStep
  <2>3. ASSUME NEW outcome \in TerminalState, Finish(j, t, outcome) PROVE Goal
    BY <2>3, <1>S DEF Finish, LeaseHeld, Active, RowStep
  <2>4. CASE RenewOwnedLease(j, t)
    BY <2>4 DEF RenewOwnedLease, queueVars, RowStep
  <2>5. CASE BeginOwned(j, t)
    BY <2>5 DEF BeginOwned, RowStep
  <2> QED BY <1>7, <2>1, <2>2, <2>3, <2>4, <2>5 DEF Holder
<1>8. CASE UNCHANGED queueVars
  BY <1>8 DEF queueVars, RowStep
<1> QED BY <1>1, <1>2, <1>3, <1>4, <1>5, <1>6, <1>7, <1>8 DEF Next

\* A settled job changes only by being submitted again.
THEOREM SettledJobsStay == Spec => SettledStays
<1>1. ASSUME QueueInv, [Next]_queueVars
      PROVE  [\A j \in Job : Terminal(j) =>
                \/ jobs'[j] = jobs[j]
                \/ jobs'[j].incarnation = jobs[j].incarnation + 1]_queueVars
  <2> SUFFICES ASSUME NEW j \in Job, Terminal(j)
               PROVE  \/ jobs'[j] = jobs[j]
                      \/ jobs'[j].incarnation = jobs[j].incarnation + 1
    OBVIOUS
  <2>1. RowStep(jobs[j], jobs'[j])
    BY <1>1, StepsRowByRow
  <2>2. jobs[j].state \notin {"absent", "queued"} \cup ActiveState
    BY DEF Terminal, TerminalState, ActiveState
  <2>3. Submitted(jobs[j].created, jobs[j].incarnation + 1).incarnation
          = jobs[j].incarnation + 1
    BY DEF Submitted, AbsentRow
  <2> QED BY <2>1, <2>2, <2>3 DEF RowStep
<1> QED BY <1>1, Invariance, PTL DEF Spec, SettledStays

\* A cancellation accepted on a held job is answered by "cancelled" only.
THEOREM CancellationsStick == Spec => CancelSticks
<1>1. ASSUME QueueInv, [Next]_queueVars
      PROVE  [\A j \in Job : Active(j) /\ jobs[j].cancel =>
                \/ Active(j)' /\ jobs'[j].cancel /\ jobs'[j].token = jobs[j].token
                \/ jobs'[j].state = "cancelled"]_queueVars
  <2> SUFFICES ASSUME NEW j \in Job, Active(j), jobs[j].cancel
               PROVE  \/ Active(j)' /\ jobs'[j].cancel /\ jobs'[j].token = jobs[j].token
                      \/ jobs'[j].state = "cancelled"
    OBVIOUS
  <2>1. RowStep(jobs[j], jobs'[j]) /\ jobs[j] \in Row
    BY <1>1, StepsRowByRow DEF QueueInv, TypeOK
  <2> DEFINE old == jobs[j]  new == jobs'[j]
  <2>2. /\ Reaped(old).state = "cancelled"
        /\ GivenUp(old).state = "cancelled"
        /\ \A outcome \in TerminalState : Finished(old, outcome).state = "cancelled"
    BY <2>1 DEF Reaped, GivenUp, Finished, Row
  <2>3. ASSUME \/ new \in {old, Renewed(old), Withdrawn(old)}
               \/ \E lease \in {"live", "expired"} : new = [old EXCEPT !.lease = lease]
        PROVE  new.state \in ActiveState /\ new.cancel /\ new.token = old.token
    <3>0. /\ Renewed(old).state = "running" /\ Renewed(old).cancel = old.cancel
          /\ Renewed(old).token = old.token
      BY <2>1 DEF Renewed, Row
    <3>1. CASE new = old \/ new = Renewed(old)
      BY <3>0, <3>1 DEF Active, ActiveState
    <3>2. CASE new = Withdrawn(old)
      BY <2>1, <3>2 DEF Withdrawn, Active, ActiveState, Row
    <3>3. ASSUME NEW lease \in {"live", "expired"}, new = [old EXCEPT !.lease = lease]
          PROVE  new.state \in ActiveState /\ new.cancel /\ new.token = old.token
      BY <2>1, <3>3 DEF Active, ActiveState, Row
    <3> QED BY <2>3, <3>1, <3>2, <3>3
  <2>4. old.state \in ActiveState /\ old.state \notin {"absent"} \cup TerminalState
    BY DEF Active, ActiveState, TerminalState
  <2> QED BY <2>1, <2>2, <2>3, <2>4 DEF RowStep, Active
<1> QED BY <1>1, Invariance, PTL DEF Spec, CancelSticks

-----------------------------------------------------------------------------
(* The table implements the life of a job. *)

\* A step of a row is a step of its life, or none a submitter sees.
LEMMA RowStepIsLifecycleStep ==
  ASSUME NEW old \in Row, NEW new \in Row, RowInv(old), RowStep(old, new)
  PROVE  Seen(new) = Seen(old) \/ Submitter!JobStep(Seen(old), Seen(new))
<1> DEFINE Goal == Seen(new) = Seen(old) \/ Submitter!JobStep(Seen(old), Seen(new))
<1> USE DEF Seen, Submitter!JobStep, Submitter!At, Submitter!Settled, ActiveState, TerminalState
<1>1. CASE new = old
  BY <1>1
<1>2. ASSUME old.state \in {"absent"} \cup TerminalState,
             NEW created, NEW incarnation, new = Submitted(created, incarnation)
      PROVE  Goal
  BY <1>2 DEF Submitter!Submitted, Submitter!Fresh, Submitted, AbsentRow
<1>3. ASSUME old.state \in {"queued"} \cup ActiveState, ~old.cancel,
             old.attempts < MaxAttempts, NEW t \in Nat, new = Leased(old, t)
      PROVE  Goal
  BY <1>3 DEF Submitter!Attempted, Leased, Row
<1>4. ASSUME old.state \in ActiveState, new = Reaped(old)
      PROVE  Goal
  BY <1>4 DEF Submitter!Answered, Reaped, Row
<1>5. ASSUME old.state \in ActiveState, new = GivenUp(old)
      PROVE  Goal
  BY <1>5 DEF Submitter!Answered, Submitter!GivenBack, GivenUp, Row
<1>6. ASSUME old.state \in ActiveState, NEW outcome \in TerminalState,
             new = Finished(old, outcome)
      PROVE  Goal
  BY <1>6 DEF Submitter!Answered, Finished, Row
<1>7. ASSUME old.state \in ActiveState,
             \/ new = Renewed(old)
             \/ \E lease \in {"live", "expired"} : new = [old EXCEPT !.lease = lease]
      PROVE  Goal
  BY <1>7 DEF Renewed, Row
<1>8. ASSUME old.state \in {"queued"} \cup ActiveState, new = Withdrawn(old)
      PROVE  Goal
  <2>1. CASE old.state = "queued"
    BY <2>1, <1>8 DEF Submitter!StopRequested, Withdrawn, Row
  <2>2. CASE old.state \in ActiveState
    BY <2>2, <1>8 DEF Submitter!StopRequested, Withdrawn, Row
  <2> QED BY <1>8, <2>1, <2>2
<1> QED BY <1>1, <1>2, <1>3, <1>4, <1>5, <1>6, <1>7, <1>8 DEF RowStep

\* A row as its submitter sees it is a state of JobLifecycle.
LEMMA SeenIsView ==
  ASSUME NEW row \in Row
  PROVE  Seen(row) \in [status: Submitter!Status, tries: Nat, stop: BOOLEAN]
BY DEF Seen, Row, JobState, ActiveState, TerminalState, Submitter!Status, Submitter!Settled

\* Every behaviour of the table is, through durable_jobs.get, one of JobLifecycle.
THEOREM QueueImplementsLifecycle == Spec => ImplementsLifecycle
<1> DEFINE seen == [j \in Job |-> Seen(jobs[j])]
<1>1. Init => Submitter!LifecycleInit
  BY DEF Init, Submitter!LifecycleInit, Submitter!Fresh, Submitter!At, Seen, AbsentRow, ActiveState
<1>2. ASSUME QueueInv, QueueInv', [Next]_queueVars
      PROVE  [Submitter!LifecycleNext]_seen
  <2>1. \A j \in Job : jobs[j] \in Row /\ jobs'[j] \in Row /\ RowInv(jobs[j])
    BY <1>2 DEF QueueInv, TypeOK
  <2>2. \A j \in Job : \/ Seen(jobs'[j]) = Seen(jobs[j])
                       \/ Submitter!JobStep(Seen(jobs[j]), Seen(jobs'[j]))
    BY <1>2, <2>1, StepsRowByRow, RowStepIsLifecycleStep
  <2>3. \A j \in Job :
          Seen(jobs'[j]) \in [status: Submitter!Status, tries: Nat, stop: BOOLEAN]
    BY <2>1, SeenIsView
  <2> QED BY <2>2, <2>3 DEF Submitter!LifecycleNext
<1> QED BY <1>1, <1>2, Invariance, PTL DEF Spec, ImplementsLifecycle, Submitter!Lifecycle

-----------------------------------------------------------------------------
(* The workers: what they have in hand *)

WorkerTyped ==
  /\ commitMode \in [Job -> {"fenced", "reported", "guarded"}]
  /\ pc \in [Worker -> Pc]
  /\ job \in [Worker -> Job]
  /\ tok \in [Worker -> 0..lastToken]
  /\ beat \in [Worker -> {"off", "on", "cancel", "error"}]
  /\ requests \subseteq Job \X (1..lastToken)
  /\ api \in [Job -> {"none", "open", "applied"}]
  /\ commits \in [Job -> SUBSET (1..lastToken)]
  /\ stale \subseteq 1..lastToken

\* A worker at work has a heartbeat and a token that no other worker was given.
TokenInv ==
  /\ \A w \in Worker : pc[w] # "idle" => tok[w] # 0 /\ beat[w] # "off"
  /\ \A v, w \in Worker : tok[v] = tok[w] /\ tok[v] # 0 => v = w

\* Who keeps a row locked: the API for a reported job, its worker for a fenced one.
LockInv ==
  /\ \A w \in Worker : pc[w] \in {"committing", "applied"} =>
       /\ commitMode[job[w]] # "reported"
       /\ commitMode[job[w]] = "fenced" => rowLock[job[w]] = tok[w]
  /\ \A j \in Job : api[j] # "none" => commitMode[j] = "reported" /\ rowLock[j] # 0
  /\ \A r \in requests : commitMode[r[1]] = "reported"
  /\ \A w \in Worker : pc[w] = "reporting" => commitMode[job[w]] = "reported"
  /\ \A j \in Job : rowLock[j] # 0 =>
       \/ api[j] # "none"
       \/ /\ commitMode[j] = "fenced"
          /\ \E w \in Worker : /\ pc[w] \in {"committing", "applied"}
                               /\ job[w] = j /\ tok[w] = rowLock[j]

\* Whose effect is there: the worker's at its place, the API's, and that of done jobs.
CommitInv ==
  /\ \A w \in Worker :
       /\ \/ pc[w] \in {"applied", "answered"}
          \/ pc[w] = "returned" /\ commitMode[job[w]] # "reported"
          => tok[w] \in commits[job[w]]
       /\ pc[w] = "succeeded" => tok[w] \in commits[job[w]] \cup stale
  /\ \A j \in Job : api[j] = "applied" => rowLock[j] \in commits[j]
  /\ DoneWasCommitted

WorkerInv == QueueInv /\ WorkerTyped /\ TokenInv /\ LockInv /\ CommitInv

-----------------------------------------------------------------------------
(* What the statements do to what the workers rely on *)

\* No row becomes done, and none that is done has another result.
NoneDone == \A k \in Job : jobs'[k].state = "done" =>
                             jobs[k].state = "done" /\ jobs'[k].result = jobs[k].result

\* Statements other than a claim, a finish and the two ends of owned_job_lease.
LEMMA PlainStatements ==
  ASSUME TypeOK, NEW j \in Job, NEW t \in Nat,
         \/ Heartbeat(j, t) \/ RetryOrFail(j, t) \/ Create(j) \/ Cancel(j) \/ Expire(j)
         \/ ClaimNothing("cpu") \/ Finish(j, t, "cancelled")
  PROVE  lastToken' = lastToken /\ rowLock' = rowLock /\ NoneDone
<1> DEFINE Plain == lastToken' = lastToken /\ rowLock' = rowLock /\ NoneDone
<1>T. \A k \in Job : jobs[k] \in Row
  BY DEF TypeOK
<1>S. ASSUME NEW row, jobs' = [jobs EXCEPT ![j] = row], lastToken' = lastToken,
             rowLock' = rowLock,
             row.state = "done" => jobs[j].state = "done" /\ row.result = jobs[j].result
      PROVE  Plain
  <2>1. \A k \in Job : jobs'[k] = IF k = j THEN row ELSE jobs[k]
    BY <1>S DEF TypeOK
  <2> QED BY <2>1, <1>S DEF NoneDone
<1>1. CASE Heartbeat(j, t)
  <2>1. Renewed(jobs[j]).state = "running"
    BY <1>T DEF Renewed, Row
  <2> QED BY <1>1, <2>1, <1>S DEF Heartbeat
<1>2. CASE RetryOrFail(j, t)
  <2>1. GivenUp(jobs[j]).state # "done"
    BY <1>T DEF GivenUp, Row
  <2> QED BY <1>2, <2>1, <1>S DEF RetryOrFail
<1>3. CASE Create(j)
  <2>1. \A created, incarnation : Submitted(created, incarnation).state = "queued"
    BY DEF Submitted, AbsentRow
  <2> QED BY <1>3, <2>1, <1>S DEF Create, Insert, Requeue
<1>4. CASE Cancel(j)
  <2>1. Withdrawn(jobs[j]).state # "done"
    BY <1>4, <1>T DEF Withdrawn, Row, Cancel, ActiveState
  <2> QED BY <1>4, <2>1, <1>S DEF Cancel
<1>5. CASE Expire(j)
  <2> DEFINE row == [jobs[j] EXCEPT !.lease = "expired"]
  <2>1. row.state = jobs[j].state /\ row.result = jobs[j].result
    BY <1>T DEF Row
  <2>2. jobs' = [jobs EXCEPT ![j] = row]
    BY <1>5 DEF Expire
  <2> HIDE DEF row
  <2> QED BY <1>5, <2>1, <2>2, <1>S DEF Expire
<1>6. CASE ClaimNothing("cpu")
  <2>1. \A k \in Job : Reaped(jobs[k]).state # "done"
    BY <1>T DEF Reaped, Row
  <2> QED BY <1>6, <2>1 DEF ClaimNothing, NoneDone
<1>7. CASE Finish(j, t, "cancelled")
  <2>1. Finished(jobs[j], "cancelled").state # "done"
    BY <1>T DEF Finished, Row
  <2> QED BY <1>7, <2>1, <1>S DEF Finish
<1> QED BY <1>1, <1>2, <1>3, <1>4, <1>5, <1>6, <1>7

\* A claim draws the next token.
LEMMA ClaimEffect ==
  ASSUME TypeOK, NEW j \in Job, Claim("cpu", j)
  PROVE  lastToken' = lastToken + 1 /\ rowLock' = rowLock /\ NoneDone
<1>1. \A k \in Job : jobs[k] \in Row
  BY DEF TypeOK
<1>2. \A k \in Job : Reaped(jobs[k]).state # "done" /\ Leased(jobs[k], lastToken + 1).state # "done"
  BY <1>1 DEF Reaped, Leased, Row
<1> QED BY <1>2 DEF Claim, NoneDone

\* Only finish makes a row done, with the token of its caller for a result.
LEMMA FinishEffect ==
  ASSUME TypeOK, NEW j \in Job, NEW t \in Nat, Finish(j, t, "done")
  PROVE  /\ lastToken' = lastToken /\ rowLock' = rowLock
         /\ jobs'[j].state = "done" => jobs'[j].result = t
         /\ \A k \in Job : k # j => jobs'[k] = jobs[k]
<1>1. jobs[j] \in Row /\ jobs[j].token = t
  BY DEF TypeOK, Finish, LeaseHeld
<1>2. Finished(jobs[j], "done").state = "done" => Finished(jobs[j], "done").result = t
  BY <1>1 DEF Finished, Row
<1> QED BY <1>2 DEF Finish, TypeOK

\* The ends of owned_job_lease move one lock and no state.
LEMMA OwnedEffects ==
  ASSUME TypeOK, NEW j \in Job, NEW t \in Nat
  PROVE  /\ BeginOwned(j, t) => /\ lastToken' = lastToken /\ NoneDone
                                /\ rowLock[j] = 0 /\ rowLock'[j] = t
                                /\ \A k \in Job : k # j => rowLock'[k] = rowLock[k]
         /\ EndOwned(j) => /\ lastToken' = lastToken /\ NoneDone
                           /\ rowLock'[j] = 0
                           /\ \A k \in Job : k # j => rowLock'[k] = rowLock[k]
<1>1. ASSUME BeginOwned(j, t)
      PROVE  /\ lastToken' = lastToken /\ NoneDone
             /\ rowLock[j] = 0 /\ rowLock'[j] = t
             /\ \A k \in Job : k # j => rowLock'[k] = rowLock[k]
  BY <1>1 DEF BeginOwned, NoneDone, Unlocked, TypeOK
<1>2. ASSUME EndOwned(j)
      PROVE  /\ lastToken' = lastToken /\ NoneDone
             /\ rowLock'[j] = 0
             /\ \A k \in Job : k # j => rowLock'[k] = rowLock[k]
  <2>1. PICK lease \in {jobs[j].lease, "live"} :
               jobs' = [jobs EXCEPT ![j] = [jobs[j] EXCEPT !.lease = lease]]
    BY <1>2 DEF EndOwned
  <2>2. \A k \in Job : jobs'[k].state = jobs[k].state /\ jobs'[k].result = jobs[k].result
    BY <2>1 DEF TypeOK, Row
  <2> QED BY <1>2, <2>2 DEF EndOwned, NoneDone, TypeOK
<1> QED BY <1>1, <1>2

\* A row that is locked belongs to a lease that was drawn, and is not cancelled.
LEMMA LockedRow ==
  ASSUME QueueInv, NEW j \in Job, rowLock[j] # 0
  PROVE  /\ rowLock[j] \in 1..lastToken /\ jobs[j].token = rowLock[j]
         /\ Active(j) /\ ~jobs[j].cancel
BY DEF QueueInv, OwnedCommitExclusive, TokensUnique, TypeOK, Row

-----------------------------------------------------------------------------
(* The workers run the statements of the queue, and keep their types *)

\* A worker that has a job has a token that was drawn for it.
LEMMA InHand ==
  ASSUME WorkerInv, NEW w \in Worker
  PROVE  /\ job[w] \in Job /\ tok[w] \in Nat
         /\ pc[w] # "idle" => tok[w] \in 1..lastToken /\ beat[w] # "off"
BY DEF WorkerInv, WorkerTyped, TokenInv, QueueInv, TypeOK

\* Whatever workers, API, operators and clock do to the queue is one of its statements.
LEMMA StepIsStatement ==
  ASSUME WorkerInv, [WorkerNext]_vars
  PROVE  [Next]_queueVars
<1> DEFINE Statement == [Next]_queueVars
<1>C. \A j \in Job : Create(j) \/ Cancel(j) \/ Expire(j) \/ EndOwned(j) => Statement
  BY DEF Next
<1>K. ClaimNothing("cpu") \/ (\E j \in Job : Claim("cpu", j)) => Statement
  BY DEF Next
<1>H. \A j \in Job, t \in 1..lastToken : Holder(j, t) => Statement
  BY DEF Next
<1>Q. UNCHANGED queueVars => Statement
  OBVIOUS
<1> HIDE DEF Statement
<1>1. ASSUME NEW w \in Worker, ClaimJob(w) \/ Poll(w) PROVE Statement
  BY <1>1, <1>K DEF ClaimJob, Poll
<1>2. ASSUME NEW w \in Worker, pc[w] # "idle",
             \/ Beat(w) \/ Progress(w) \/ GuardCommit(w) \/ EnterFence(w) \/ Settle(w)
      PROVE  Statement
  <2>1. job[w] \in Job /\ tok[w] \in 1..lastToken
    BY <1>2, InHand
  <2>2. Holder(job[w], tok[w]) => Statement
    BY <2>1, <1>H
  <2>3. "done" \in TerminalState /\ "cancelled" \in TerminalState
    BY DEF TerminalState
  <2>4. CASE Beat(w)
    BY <2>2, <2>4, <1>Q DEF Beat, Holder
  <2>5. CASE Progress(w)
    BY <2>2, <2>5, <1>Q DEF Progress, Holder
  <2>6. CASE GuardCommit(w)
    BY <2>2, <2>6 DEF GuardCommit, Holder
  <2>7. CASE EnterFence(w)
    BY <2>2, <2>7, <1>Q DEF EnterFence, Holder
  <2>8. CASE Settle(w)
    BY <2>2, <2>3, <2>8, <1>Q DEF Settle, SettleStatement, Holder
  <2> QED BY <1>2, <2>4, <2>5, <2>6, <2>7, <2>8
<1>3. ASSUME NEW w \in Worker, LeaveFence(w) \/ Crash(w) PROVE Statement
  BY <1>3, InHand, <1>C, <1>Q DEF LeaveFence, Crash
<1>4. ASSUME NEW w \in Worker,
             \/ HandlerFails(w) \/ StaleResult(w) \/ ExportReady(w) \/ Apply(w)
             \/ AfterHandler(w) \/ ReportFails(w) \/ AfterReport(w)
      PROVE  Statement
  BY <1>4, <1>Q DEF HandlerFails, StaleResult, ExportReady, Apply, AfterHandler, ReportFails,
                    AfterReport
<1>5. ASSUME NEW j \in Job, NEW t, <<j, t>> \in requests, ApiBegin(j, t) \/ ApiReject(j, t)
      PROVE  Statement
  <2>1. t \in 1..lastToken
    BY <1>5 DEF WorkerInv, WorkerTyped
  <2> QED BY <1>5, <2>1, <1>C, <1>H, <1>Q DEF ApiBegin, ApiReject, Holder
<1>6. ASSUME NEW j \in Job, ApiApply(j) \/ ApiAnswer(j) \/ TimePasses(j) PROVE Statement
  BY <1>6, <1>C, <1>Q DEF ApiApply, ApiAnswer, TimePasses
<1>7. ASSUME Operator PROVE Statement
  <2>1. PICK j \in Job : Create(j) \/ Cancel(j)
    BY <1>7 DEF Operator
  <2> QED BY <2>1, <1>C
<1>8. ASSUME UNCHANGED vars PROVE Statement
  BY <1>8, <1>Q DEF vars, queueVars
<1>9. ASSUME NEW j \in Job, ApiStep(j) PROVE Statement
  <2>1. ASSUME NEW r \in requests, r[1] = j, ApiBegin(j, r[2]) \/ ApiReject(j, r[2])
        PROVE  Statement
    <3>1. r = <<j, r[2]>>
      BY <2>1 DEF WorkerInv, WorkerTyped
    <3> QED BY <2>1, <3>1, <1>5
  <2> QED BY <1>9, <2>1, <1>6 DEF ApiStep
<1>10. ASSUME NEW w \in Worker, Advance(w) PROVE Statement
  <2>1. GuardCommit(w) \/ EnterFence(w) \/ Settle(w) => pc[w] # "idle"
    BY DEF GuardCommit, EnterFence, Settle
  <2> QED BY <1>10, <2>1, <1>2, <1>3, <1>4 DEF Advance
<1>11. ASSUME NEW w \in Worker, Beat(w) \/ Progress(w) PROVE Statement
  <2>1. pc[w] # "idle"
    BY <1>11 DEF Beat, Progress
  <2> QED BY <1>11, <2>1, <1>2
<1> QED BY <1>1, <1>3, <1>6, <1>7, <1>8, <1>9, <1>10, <1>11 DEF WorkerNext, Statement

\* A place to go to.
LEMMA MovedPc ==
  ASSUME pc \in [Worker -> Pc], commitMode \in [Job -> {"fenced", "reported", "guarded"}],
         NEW w \in Worker, NEW label \in Pc, Goto(w, label)
  PROVE  /\ pc' \in [Worker -> Pc] /\ pc'[w] = label
         /\ \A v \in Worker : v # w => pc'[v] = pc[v]
         /\ commitMode' = commitMode
BY DEF Goto

LEMMA WorkerTypedStep ==
  ASSUME WorkerInv, [WorkerNext]_vars
  PROVE  WorkerTyped'
<1> USE DEF WorkerInv
<1>0. TypeOK /\ WorkerTyped /\ lastToken \in Nat
  BY DEF QueueInv, TypeOK
<1> DEFINE Places == commitMode' = commitMode /\ pc' \in [Worker -> Pc]
<1>P. \A w \in Worker, label \in Pc : Goto(w, label) => Places
  BY <1>0 DEF WorkerTyped, Goto
\* Tokens only grow in number.
<1>G. ASSUME lastToken' \in Nat, lastToken' >= lastToken,
             Places, job' \in [Worker -> Job], tok' \in [Worker -> 0..lastToken'],
             beat' \in [Worker -> {"off", "on", "cancel", "error"}],
             requests' \subseteq Job \X (1..lastToken),
             api' \in [Job -> {"none", "open", "applied"}],
             commits' \in [Job -> SUBSET (1..lastToken)], stale' \subseteq 1..lastToken
      PROVE  WorkerTyped'
  <2>1. 1..lastToken \subseteq 1..lastToken'
    BY <1>0, <1>G
  <2>2. requests' \subseteq Job \X (1..lastToken') /\ stale' \subseteq 1..lastToken'
    BY <1>G, <2>1
  <2>3. SUBSET (1..lastToken) \subseteq SUBSET (1..lastToken')
    BY <2>1
  <2>4. commits' \in [Job -> SUBSET (1..lastToken')]
    BY <1>G, <2>3
  <2> QED BY <1>G, <1>0, <2>2, <2>4 DEF WorkerTyped
<1>L. \A w \in Worker : job[w] \in Job /\ tok[w] \in Nat
  BY InHand
\* Most steps draw no token and hand none over.
<1>S. ASSUME lastToken' = lastToken, Places, UNCHANGED <<job, tok>>,
             beat' \in [Worker -> {"off", "on", "cancel", "error"}],
             requests' \subseteq Job \X (1..lastToken),
             api' \in [Job -> {"none", "open", "applied"}],
             commits' \in [Job -> SUBSET (1..lastToken)], stale' \subseteq 1..lastToken
      PROVE  WorkerTyped'
  BY <1>S, <1>G, <1>0 DEF WorkerTyped
<1> HIDE DEF Places
<1>N. UNCHANGED queueVars => lastToken' = lastToken
  BY DEF queueVars
<1>U. UNCHANGED <<commitMode, pc>> => Places
  BY <1>0 DEF WorkerTyped, Places
<1>1. ASSUME NEW w \in Worker, ClaimJob(w) PROVE WorkerTyped'
  <2>1. PICK j \in Job : Claim("cpu", j) /\ job' = [job EXCEPT ![w] = j]
    BY <1>1 DEF ClaimJob
  <2>2. lastToken' = lastToken + 1
    BY <1>0, <2>1, ClaimEffect
  <2>3. job' \in [Worker -> Job]
    BY <1>0, <2>1 DEF WorkerTyped
  <2>4. tok' \in [Worker -> 0..lastToken'] /\ lastToken' \in Nat /\ lastToken' >= lastToken
    BY <1>0, <1>1, <2>2 DEF ClaimJob, WorkerTyped
  <2>5. beat' \in [Worker -> {"off", "on", "cancel", "error"}]
    BY <1>0, <1>1 DEF ClaimJob, WorkerTyped
  <2>6. Places /\ UNCHANGED <<apiVars, history>>
    BY <1>1, <1>P DEF ClaimJob, Pc
  <2> QED BY <1>0, <2>3, <2>4, <2>5, <2>6, <1>G DEF WorkerTyped, apiVars, history
<1>2. ASSUME UNCHANGED workerVars, UNCHANGED <<apiVars, history>>, lastToken' = lastToken
      PROVE  WorkerTyped'
  BY <1>0, <1>2, <1>U, <1>S DEF WorkerTyped, workerVars, apiVars, history
<1>3. ASSUME NEW w \in Worker, Beat(w) PROVE WorkerTyped'
  <2>1. lastToken' = lastToken
    BY <1>0, <1>3, <1>L, <1>N, PlainStatements DEF Beat
  <2>2. beat' \in [Worker -> {"off", "on", "cancel", "error"}]
    BY <1>0, <1>3 DEF Beat, WorkerTyped
  <2> QED BY <1>0, <1>3, <2>1, <2>2, <1>U, <1>S DEF Beat, WorkerTyped, apiVars, history
\* Places and the beat of one worker.
<1>M. ASSUME NEW w \in Worker, NEW label \in Pc, Goto(w, label), lastToken' = lastToken,
             UNCHANGED <<job, tok>>, beat' \in {beat, [beat EXCEPT ![w] = "off"]},
             UNCHANGED apiVars, UNCHANGED history
      PROVE  WorkerTyped'
  <2>1. beat' \in [Worker -> {"off", "on", "cancel", "error"}]
    BY <1>0, <1>M DEF WorkerTyped
  <2>2. Places
    BY <1>M, <1>P
  <2> QED BY <1>0, <1>M, <2>1, <2>2, <1>S DEF WorkerTyped, apiVars, history
<1>4. ASSUME NEW w \in Worker, Progress(w) PROVE WorkerTyped'
  <2>1. lastToken' = lastToken
    BY <1>0, <1>4, <1>L, <1>N, PlainStatements DEF Progress
  <2> QED BY <1>4, <2>1, <1>M DEF Progress, Pc
<1>5. ASSUME NEW w \in Worker, HandlerFails(w) \/ ExportReady(w) \/ ReportFails(w)
      PROVE  WorkerTyped'
  BY <1>5, <1>N, <1>M DEF HandlerFails, ExportReady, ReportFails, Pc
<1>6. ASSUME NEW w \in Worker, GuardCommit(w) PROVE WorkerTyped'
  <2>1. lastToken' = lastToken
    BY <1>0, <1>6, <1>L, PlainStatements DEF GuardCommit
  <2> QED BY <1>6, <2>1, <1>M DEF GuardCommit, Pc
<1>7. ASSUME NEW w \in Worker, EnterFence(w) PROVE WorkerTyped'
  <2>1. lastToken' = lastToken
    BY <1>0, <1>7, <1>L, <1>N, OwnedEffects DEF EnterFence
  <2> QED BY <1>7, <2>1, <1>M DEF EnterFence, Pc
<1>8. ASSUME NEW w \in Worker, AfterReport(w) PROVE WorkerTyped'
  <2>1. beat[w] \in {"off", "on", "cancel", "error"}
    BY <1>0 DEF WorkerTyped
  <2>2. beat[w] # "off"
    BY <1>8, InHand DEF AfterReport
  <2>3. \E label \in Pc : Goto(w, label)
    BY <1>8, <2>1, <2>2 DEF AfterReport, Pc
  <2> QED BY <1>8, <2>3, <1>N, <1>M DEF AfterReport
<1>9. ASSUME NEW w \in Worker, LeaveFence(w) PROVE WorkerTyped'
  <2>1. lastToken' = lastToken
    BY <1>0, <1>9, <1>L, <1>N, OwnedEffects DEF LeaveFence
  <2> QED BY <1>9, <2>1, <1>M DEF LeaveFence, Pc
<1>10. ASSUME NEW w \in Worker, Crash(w) PROVE WorkerTyped'
  <2>1. lastToken' = lastToken
    BY <1>0, <1>10, <1>L, <1>N, OwnedEffects DEF Crash
  <2> QED BY <1>10, <2>1, <1>M DEF Crash, Pc
<1>11. ASSUME NEW w \in Worker, Settle(w) PROVE WorkerTyped'
  <2>1. lastToken' = lastToken
    BY <1>0, <1>11, <1>L, <1>N, PlainStatements, FinishEffect DEF Settle, SettleStatement
  <2> QED BY <1>11, <2>1, <1>M DEF Settle, Pc
<1>12. ASSUME NEW w \in Worker, StaleResult(w) PROVE WorkerTyped'
  <2>1. tok[w] \in 1..lastToken
    BY <1>12, InHand DEF StaleResult
  <2>2. Places /\ UNCHANGED queueVars /\ stale' \subseteq 1..lastToken
    BY <1>0, <1>12, <2>1, <1>P DEF StaleResult, Pc, WorkerTyped
  <2> QED BY <1>0, <1>12, <2>2, <1>N, <1>S DEF StaleResult, WorkerTyped, apiVars
<1>13. ASSUME NEW w \in Worker, Apply(w) PROVE WorkerTyped'
  <2>1. tok[w] \in 1..lastToken
    BY <1>13, InHand DEF Apply
  <2>2. Places /\ UNCHANGED queueVars /\ commits' \in [Job -> SUBSET (1..lastToken)]
    BY <1>0, <1>13, <2>1, <1>P, <1>L DEF Apply, Pc, WorkerTyped
  <2> QED BY <1>0, <1>13, <2>2, <1>N, <1>S DEF Apply, WorkerTyped, apiVars
<1>14. ASSUME NEW w \in Worker, AfterHandler(w) PROVE WorkerTyped'
  <2>1. <<job[w], tok[w]>> \in Job \X (1..lastToken)
    BY <1>14, InHand DEF AfterHandler
  <2>2. Places /\ UNCHANGED queueVars /\ requests' \subseteq Job \X (1..lastToken)
    BY <1>0, <1>14, <2>1, <1>P DEF AfterHandler, Pc, WorkerTyped
  <2> QED BY <1>0, <1>14, <2>2, <1>N, <1>S DEF AfterHandler, WorkerTyped, history
<1>15. ASSUME NEW j \in Job, NEW t \in Nat, ApiBegin(j, t) PROVE WorkerTyped'
  <2>1. lastToken' = lastToken
    BY <1>0, <1>15, OwnedEffects DEF ApiBegin
  <2>2. api' \in [Job -> {"none", "open", "applied"}]
    BY <1>0, <1>15 DEF ApiBegin, WorkerTyped
  <2> QED BY <1>0, <1>15, <2>1, <2>2, <1>U, <1>S DEF ApiBegin, WorkerTyped, workerVars, history
<1>16. ASSUME NEW j \in Job, NEW t \in Nat, ApiReject(j, t) PROVE WorkerTyped'
  <2>1. lastToken' = lastToken
    BY <1>0, <1>16, <1>N, OwnedEffects DEF ApiReject
  <2>2. /\ api' \in [Job -> {"none", "open", "applied"}]
        /\ requests' \subseteq Job \X (1..lastToken)
    BY <1>0, <1>16 DEF ApiReject, WorkerTyped
  <2> QED BY <1>0, <1>16, <2>1, <2>2, <1>U, <1>S DEF ApiReject, WorkerTyped, workerVars, history
<1>17. ASSUME NEW j \in Job, ApiApply(j) PROVE WorkerTyped'
  <2>1. rowLock[j] \in 1..lastToken
    BY <1>17, LockedRow DEF ApiApply, LockInv
  <2>2. UNCHANGED queueVars /\ commits' \in [Job -> SUBSET (1..lastToken)]
    BY <1>0, <1>17, <2>1 DEF ApiApply, WorkerTyped
  <2>3. api' \in [Job -> {"none", "open", "applied"}]
    BY <1>0, <1>17 DEF ApiApply, WorkerTyped
  <2> QED BY <1>0, <1>17, <2>2, <2>3, <1>N, <1>U, <1>S DEF ApiApply, WorkerTyped, workerVars
<1>18. ASSUME NEW j \in Job, ApiAnswer(j) PROVE WorkerTyped'
  <2>1. lastToken' = lastToken
    BY <1>0, <1>18, OwnedEffects DEF ApiAnswer
  <2>2. /\ api' \in [Job -> {"none", "open", "applied"}]
        /\ requests' \subseteq Job \X (1..lastToken)
    BY <1>0, <1>18 DEF ApiAnswer, WorkerTyped
  <2>3. Places
    BY <1>0, <1>18 DEF ApiAnswer, WorkerTyped, Places, Pc
  <2> QED BY <1>0, <1>18, <2>1, <2>2, <2>3, <1>S DEF ApiAnswer, WorkerTyped, history
<1>19. ASSUME Operator PROVE WorkerTyped'
  BY <1>0, <1>19, <1>2, PlainStatements DEF Operator
<1>20. ASSUME NEW j \in Job, TimePasses(j) PROVE WorkerTyped'
  BY <1>0, <1>20, <1>2, PlainStatements DEF TimePasses
<1>21. ASSUME NEW w \in Worker, Poll(w) PROVE WorkerTyped'
  <2>1. job[w] \in Job
    BY <1>L
  <2> QED BY <1>0, <1>21, <1>2, <2>1, PlainStatements DEF Poll
<1>22. CASE UNCHANGED vars
  BY <1>22, <1>2 DEF vars, workerVars, apiVars, history
<1>23. ASSUME NEW j \in Job, ApiStep(j) PROVE WorkerTyped'
  <2>1. \A r \in requests : r[2] \in Nat
    BY <1>0 DEF WorkerTyped
  <2> QED BY <1>23, <2>1, <1>15, <1>16, <1>17, <1>18 DEF ApiStep
<1>24. ASSUME NEW w \in Worker, Advance(w) PROVE WorkerTyped'
  BY <1>24, <1>5, <1>6, <1>7, <1>8, <1>9, <1>11, <1>12, <1>13, <1>14 DEF Advance
<1> QED BY <1>1, <1>3, <1>4, <1>10, <1>19, <1>20, <1>21, <1>22, <1>23, <1>24 DEF WorkerNext

-----------------------------------------------------------------------------
(* Tokens and locks of the workers *)

\* Tokens change hands only in a claim, and only a claim puts a worker to work.
LEMMA KeptInHand ==
  ASSUME WorkerInv, [WorkerNext]_vars, ~ \E w \in Worker : ClaimJob(w)
  PROVE  /\ UNCHANGED <<tok, job, commitMode>>
         /\ \A v \in Worker : pc[v] = "idle" => pc'[v] = "idle"
         /\ \A v \in Worker : pc'[v] # "idle" => beat'[v] # "off"
<1> USE DEF WorkerInv
<1> DEFINE Kept == /\ UNCHANGED <<tok, job, commitMode>>
                   /\ \A v \in Worker : pc[v] = "idle" => pc'[v] = "idle"
                   /\ \A v \in Worker : pc'[v] # "idle" => beat'[v] # "off"
<1>0. /\ pc \in [Worker -> Pc] /\ beat \in [Worker -> {"off", "on", "cancel", "error"}]
      /\ \A v \in Worker : pc[v] # "idle" => beat[v] # "off"
  BY DEF WorkerTyped, TokenInv
<1>1. ASSUME UNCHANGED <<pc, tok, job, commitMode, beat>> PROVE Kept
  BY <1>0, <1>1
<1>2. ASSUME NEW w \in Worker, pc[w] # "idle", NEW label, Goto(w, label),
             UNCHANGED <<tok, job>>,
             beat' = beat \/ (label = "idle" /\ beat' = [beat EXCEPT ![w] = "off"])
      PROVE  Kept
  <2>1. /\ commitMode' = commitMode /\ pc'[w] = label
        /\ \A v \in Worker : v # w => pc'[v] = pc[v]
    BY <1>0, <1>2 DEF Goto
  <2>2. \A v \in Worker : v # w => beat'[v] = beat[v]
    BY <1>0, <1>2
  <2>3. pc'[w] # "idle" => beat'[w] # "off"
    BY <1>0, <1>2, <2>1
  <2> QED BY <1>0, <1>2, <2>1, <2>2, <2>3
<1>3. ASSUME NEW w \in Worker, Beat(w) PROVE Kept
  BY <1>0, <1>3 DEF Beat
<1>4. ASSUME NEW j \in Job, ApiAnswer(j) PROVE Kept
  <2>1. \A v \in Worker : pc'[v] \in {pc[v], "answered"} /\ (pc[v] = "idle" => pc'[v] = "idle")
    BY <1>0, <1>4 DEF ApiAnswer
  <2> QED BY <1>0, <1>4, <2>1 DEF ApiAnswer
<1> HIDE DEF Kept
<1>5. ASSUME NEW w \in Worker, Poll(w) PROVE Kept
  BY <1>5, <1>1 DEF Poll, workerVars
<1>6. ASSUME NEW w \in Worker, Progress(w) \/ Settle(w) \/ Crash(w) PROVE Kept
  BY <1>6, <1>2 DEF Progress, Settle, Crash
<1>7. ASSUME NEW w \in Worker, Advance(w) PROVE Kept
  <2>1. HandlerFails(w) \/ StaleResult(w) \/ ExportReady(w) \/ GuardCommit(w) => Kept
    BY <1>2 DEF HandlerFails, StaleResult, ExportReady, GuardCommit
  <2>2. EnterFence(w) \/ Apply(w) \/ LeaveFence(w) => Kept
    BY <1>2 DEF EnterFence, Apply, LeaveFence
  <2>3. AfterHandler(w) \/ ReportFails(w) \/ AfterReport(w) => Kept
    BY <1>2 DEF AfterHandler, ReportFails, AfterReport
  <2> QED BY <1>6, <1>7, <2>1, <2>2, <2>3 DEF Advance
<1>8. ASSUME NEW j \in Job, ApiStep(j) PROVE Kept
  BY <1>1, <1>4, <1>8 DEF ApiStep, ApiBegin, ApiReject, ApiApply, workerVars
<1>9. ASSUME Operator \/ (\E j \in Job : TimePasses(j)) \/ UNCHANGED vars PROVE Kept
  BY <1>1, <1>9 DEF Operator, TimePasses, vars, workerVars
<1> QED BY <1>3, <1>5, <1>6, <1>7, <1>8, <1>9 DEF WorkerNext, Kept

LEMMA TokenStep ==
  ASSUME WorkerInv, [WorkerNext]_vars
  PROVE  TokenInv'
<1> USE DEF WorkerInv
<1>1. ASSUME NEW w \in Worker, ClaimJob(w) PROVE TokenInv'
  <2>0. WorkerTyped /\ TypeOK /\ TokenInv
    BY DEF QueueInv
  <2>1. \A v \in Worker : tok[v] \in 0..lastToken
    BY <2>0 DEF WorkerTyped
  <2>2. /\ tok'[w] = lastToken + 1 /\ lastToken \in Nat
        /\ \A v \in Worker : v # w => tok'[v] = tok[v]
    BY <1>1, <2>0 DEF ClaimJob, WorkerTyped, TypeOK
  <2>3. /\ beat'[w] = "on"
        /\ \A v \in Worker : v # w => pc'[v] = pc[v] /\ beat'[v] = beat[v]
    BY <1>1, <2>0 DEF ClaimJob, WorkerTyped, Goto
  <2>4. \A v \in Worker : pc'[v] # "idle" => tok'[v] # 0 /\ beat'[v] # "off"
    BY <2>0, <2>2, <2>3 DEF TokenInv
  <2>5. \A u, v \in Worker : tok'[u] = tok'[v] /\ tok'[u] # 0 => u = v
    BY <2>0, <2>1, <2>2 DEF TokenInv
  <2> QED BY <2>4, <2>5 DEF TokenInv
<1>2. ASSUME ~ \E w \in Worker : ClaimJob(w) PROVE TokenInv'
  BY <1>2, KeptInHand DEF TokenInv
<1> QED BY <1>1, <1>2

\* Between the guard of a commit and its end.
Inside == {"committing", "applied"}

\* No lock of a row is left behind or taken over.
LEMMA LockStep ==
  ASSUME WorkerInv, [WorkerNext]_vars
  PROVE  LockInv'
<1> USE DEF WorkerInv
<1>0. WorkerTyped /\ TokenInv /\ LockInv /\ TypeOK
  BY DEF QueueInv
<1>L. \A w \in Worker : job[w] \in Job /\ tok[w] \in Nat
  BY InHand
<1>Q. UNCHANGED queueVars => rowLock' = rowLock
  BY DEF queueVars
<1> DEFINE Same == UNCHANGED <<tok, job, commitMode>>
           Asked == \A r \in requests' : r \in requests \/ commitMode[r[1]] = "reported"
\* Steps that take and leave no lock.
<1>S. ASSUME Same, rowLock' = rowLock, Asked,
             \A j \in Job : api'[j] = "none" <=> api[j] = "none",
             \A v \in Worker : pc'[v] \in Inside =>
               pc[v] \in Inside \/ commitMode[job[v]] = "guarded",
             \A v \in Worker : pc[v] \in Inside /\ commitMode[job[v]] = "fenced" =>
               pc'[v] \in Inside,
             \A v \in Worker : pc'[v] = "reporting" =>
               pc[v] = "reporting" \/ commitMode[job[v]] = "reported"
      PROVE  LockInv'
  <2>1. \A j \in Job : rowLock[j] # 0 =>
          \/ api'[j] # "none"
          \/ /\ commitMode[j] = "fenced"
             /\ \E w \in Worker : pc'[w] \in Inside /\ job[w] = j /\ tok[w] = rowLock[j]
    BY <1>0, <1>S DEF LockInv, Inside
  <2>2. \A w \in Worker : pc'[w] \in Inside =>
          /\ commitMode[job[w]] # "reported"
          /\ commitMode[job[w]] = "fenced" => rowLock[job[w]] = tok[w]
    BY <1>0, <1>S DEF LockInv, Inside
  <2> QED BY <1>0, <1>S, <2>1, <2>2 DEF LockInv, Inside
\* A step that gives the lock of a row back.
<1>E. ASSUME NEW j \in Job, Same, rowLock'[j] = 0,
             \A k \in Job : k # j => rowLock'[k] = rowLock[k],
             Asked, api'[j] = "none", \A k \in Job : k # j => api'[k] = api[k],
             \A v \in Worker : pc'[v] \in Inside => pc[v] \in Inside,
             \A v \in Worker : pc[v] \in Inside /\ job[v] # j => pc'[v] \in Inside,
             \A v \in Worker : commitMode[j] = "fenced" /\ job[v] = j => pc'[v] \notin Inside,
             \A v \in Worker : pc'[v] = "reporting" => pc[v] = "reporting"
      PROVE  LockInv'
  <2>1. \A k \in Job : rowLock'[k] # 0 =>
          \/ api'[k] # "none"
          \/ /\ commitMode[k] = "fenced"
             /\ \E w \in Worker : pc'[w] \in Inside /\ job[w] = k /\ tok[w] = rowLock'[k]
    BY <1>0, <1>E DEF LockInv, Inside
  <2>2. \A w \in Worker : pc'[w] \in Inside =>
          /\ commitMode[job[w]] # "reported"
          /\ commitMode[job[w]] = "fenced" => rowLock'[job[w]] = tok[w]
    BY <1>0, <1>E, <1>L DEF LockInv, Inside
  <2>3. \A k \in Job : api'[k] # "none" => commitMode[k] = "reported" /\ rowLock'[k] # 0
    BY <1>0, <1>E DEF LockInv
  <2> QED BY <1>0, <1>E, <2>1, <2>2, <2>3 DEF LockInv, Inside
\* A step that takes the lock of a row nobody has.
<1>B. ASSUME NEW j \in Job, NEW t \in Nat \ {0}, Same, rowLock[j] = 0, rowLock'[j] = t,
             \A k \in Job : k # j => rowLock'[k] = rowLock[k],
             UNCHANGED requests, \A k \in Job : k # j => api'[k] = api[k],
             api'[j] # "none" => commitMode[j] = "reported",
             \A v \in Worker : pc[v] \in Inside => pc'[v] \in Inside,
             \A v \in Worker : pc'[v] \in Inside =>
               pc[v] \in Inside \/ (job[v] = j /\ tok[v] = t /\ commitMode[j] = "fenced"),
             \A v \in Worker : pc'[v] = "reporting" => pc[v] = "reporting",
             \/ api'[j] # "none"
             \/ /\ commitMode[j] = "fenced"
                /\ \E w \in Worker : pc'[w] \in Inside /\ job[w] = j /\ tok[w] = t
      PROVE  LockInv'
  <2>1. \A k \in Job : rowLock'[k] # 0 =>
          \/ api'[k] # "none"
          \/ /\ commitMode[k] = "fenced"
             /\ \E w \in Worker : pc'[w] \in Inside /\ job[w] = k /\ tok[w] = rowLock'[k]
    BY <1>0, <1>B DEF LockInv, Inside
  <2>2. \A v \in Worker : pc[v] \in Inside /\ commitMode[job[v]] = "fenced" => job[v] # j
    BY <1>0, <1>B DEF LockInv, Inside, TokenInv
  <2>3. \A w \in Worker : pc'[w] \in Inside =>
          /\ commitMode[job[w]] # "reported"
          /\ commitMode[job[w]] = "fenced" => rowLock'[job[w]] = tok[w]
    BY <1>0, <1>B, <1>L, <2>2 DEF LockInv, Inside
  <2>4. \A k \in Job : api'[k] # "none" => commitMode[k] = "reported" /\ rowLock'[k] # 0
    BY <1>0, <1>B DEF LockInv
  <2> QED BY <1>0, <1>B, <2>1, <2>3, <2>4 DEF LockInv, Inside
<1> HIDE DEF Same, Asked
<1>1. ASSUME NEW w \in Worker, ClaimJob(w) PROVE LockInv'
  <2>1. rowLock' = rowLock /\ UNCHANGED <<commitMode, requests, api>>
    BY <1>0, <1>1, ClaimEffect DEF ClaimJob, Goto, apiVars
  <2>2. /\ pc[w] = "idle" /\ pc'[w] = "running"
        /\ \A v \in Worker : v # w => pc'[v] = pc[v] /\ job'[v] = job[v] /\ tok'[v] = tok[v]
    BY <1>0, <1>1 DEF ClaimJob, Goto, WorkerTyped
  <2> QED BY <1>0, <2>1, <2>2 DEF LockInv
<1>K. ASSUME ~ \E w \in Worker : ClaimJob(w) PROVE Same
  BY <1>K, KeptInHand DEF Same
<1>R. UNCHANGED requests => Asked
  BY DEF Asked
\* A worker that moves without a lock changing hands.
<1>M. ASSUME NEW w \in Worker, NEW label \in Pc, Goto(w, label), Same, rowLock' = rowLock,
             Asked, UNCHANGED api,
             label \in Inside => pc[w] \in Inside \/ commitMode[job[w]] = "guarded",
             pc[w] \in Inside /\ commitMode[job[w]] = "fenced" => label \in Inside,
             label = "reporting" => commitMode[job[w]] = "reported"
      PROVE  LockInv'
  <2>1. pc'[w] = label /\ \A v \in Worker : v # w => pc'[v] = pc[v]
    BY <1>0, <1>M DEF Goto, WorkerTyped
  <2> QED BY <1>M, <2>1, <1>S
\* One that gives the lock of its job back.
<1>F. ASSUME NEW w \in Worker, NEW label \in Pc \ Inside, label # "reporting", Goto(w, label),
             Same, pc[w] \in Inside, commitMode[job[w]] = "fenced", EndOwned(job[w]),
             UNCHANGED apiVars
      PROVE  LockInv'
  <2>1. pc'[w] = label /\ \A v \in Worker : v # w => pc'[v] = pc[v]
    BY <1>0, <1>F DEF Goto, WorkerTyped
  <2>2. rowLock'[job[w]] = 0 /\ \A k \in Job : k # job[w] => rowLock'[k] = rowLock[k]
    BY <1>0, <1>F, <1>L, OwnedEffects
  <2>3. \A v \in Worker : pc[v] \in Inside /\ job[v] = job[w] => v = w
    BY <1>0, <1>F DEF LockInv, TokenInv, Inside
  <2>4. api[job[w]] = "none"
    BY <1>0, <1>F, <1>L DEF LockInv
  <2>5. Asked /\ UNCHANGED api
    BY <1>F, <1>R DEF apiVars
  <2> QED BY <1>F, <1>L, <2>1, <2>2, <2>3, <2>4, <2>5, <1>E
<1> USE DEF Inside
<1>2. ASSUME NEW w \in Worker, Same, Beat(w) PROVE LockInv'
  <2>1. rowLock' = rowLock
    BY <1>0, <1>2, <1>L, <1>Q, PlainStatements DEF Beat
  <2> QED BY <1>2, <2>1, <1>R, <1>S DEF Beat, apiVars
<1>3. ASSUME NEW w \in Worker, Same, Progress(w) PROVE LockInv'
  <2>1. rowLock' = rowLock
    BY <1>0, <1>3, <1>L, <1>Q, PlainStatements DEF Progress
  <2> QED BY <1>3, <2>1, <1>R, <1>M DEF Progress, Pc, apiVars
<1>4. ASSUME NEW w \in Worker, Same,
             \/ HandlerFails(w) \/ StaleResult(w) \/ ExportReady(w) \/ Apply(w) \/ ReportFails(w)
      PROVE  LockInv'
  BY <1>4, <1>Q, <1>R, <1>M
     DEF HandlerFails, StaleResult, ExportReady, Apply, ReportFails, Pc, apiVars
<1>5. ASSUME NEW w \in Worker, Same, GuardCommit(w) PROVE LockInv'
  <2>1. rowLock' = rowLock
    BY <1>0, <1>5, <1>L, PlainStatements DEF GuardCommit
  <2> QED BY <1>5, <2>1, <1>R, <1>M DEF GuardCommit, Pc, apiVars
<1>6. ASSUME NEW w \in Worker, Same, EnterFence(w) PROVE LockInv'
  <2>1. CASE Goto(w, "cancelled") /\ UNCHANGED queueVars
    BY <1>6, <2>1, <1>Q, <1>R, <1>M DEF EnterFence, Pc, apiVars
  <2>2. CASE BeginOwned(job[w], tok[w]) /\ Goto(w, "committing")
    <3>1. pc'[w] = "committing" /\ \A v \in Worker : v # w => pc'[v] = pc[v]
      BY <1>0, <2>2 DEF Goto, WorkerTyped
    <3>2. /\ rowLock[job[w]] = 0 /\ rowLock'[job[w]] = tok[w]
          /\ \A k \in Job : k # job[w] => rowLock'[k] = rowLock[k]
      BY <1>0, <2>2, <1>L, OwnedEffects
    <3>3. tok[w] \in Nat \ {0} /\ pc[w] = "running" /\ commitMode[job[w]] = "fenced"
      BY <1>0, <1>6, <1>L DEF EnterFence, TokenInv
    <3>4. UNCHANGED requests /\ UNCHANGED api /\ api[job[w]] = "none"
      BY <1>0, <1>6, <1>L, <3>3 DEF EnterFence, apiVars, LockInv
    <3> QED BY <1>6, <1>L, <3>1, <3>2, <3>3, <3>4, <1>B
  <2> QED BY <1>6, <2>1, <2>2 DEF EnterFence
<1>7. ASSUME NEW w \in Worker, Same, LeaveFence(w) PROVE LockInv'
  <2>0. PICK label \in {"returned", "failed", "cancelled"} : Goto(w, label)
    BY <1>7 DEF LeaveFence
  <2>1. label \in Pc \ Inside /\ label # "reporting"
    BY DEF Pc
  <2>2. Goto(w, label) /\ pc[w] \in Inside /\ UNCHANGED apiVars
    BY <1>7, <2>0 DEF LeaveFence
  <2>3. CASE commitMode[job[w]] = "fenced"
    <3>1. EndOwned(job[w])
      BY <1>7, <2>3 DEF LeaveFence
    <3> QED BY <1>7, <2>1, <2>2, <2>3, <3>1, <1>F
  <2>4. CASE commitMode[job[w]] # "fenced"
    <3>1. rowLock' = rowLock
      BY <1>7, <2>4, <1>Q DEF LeaveFence
    <3> QED BY <1>7, <2>1, <2>2, <2>4, <3>1, <1>R, <1>M DEF apiVars
  <2> QED BY <2>3, <2>4
<1>8. ASSUME NEW w \in Worker, Same, Crash(w) PROVE LockInv'
  <2>1. "idle" \in Pc \ Inside /\ Goto(w, "idle") /\ UNCHANGED apiVars
    BY <1>8 DEF Crash, Pc
  <2>2. CASE pc[w] \in Inside /\ commitMode[job[w]] = "fenced"
    <3>1. EndOwned(job[w])
      BY <1>8, <2>2 DEF Crash
    <3> QED BY <1>8, <2>1, <2>2, <3>1, <1>F
  <2>3. CASE ~ (pc[w] \in Inside /\ commitMode[job[w]] = "fenced")
    <3>1. rowLock' = rowLock
      BY <1>8, <2>3, <1>Q DEF Crash
    <3> QED BY <1>8, <2>1, <2>3, <3>1, <1>R, <1>M DEF apiVars
  <2> QED BY <2>2, <2>3
<1>9. ASSUME NEW w \in Worker, Same, AfterHandler(w) PROVE LockInv'
  <2>1. rowLock' = rowLock /\ UNCHANGED api /\ pc[w] = "returned"
    BY <1>9, <1>Q DEF AfterHandler
  <2>2. CASE /\ commitMode[job[w]] = "reported"
             /\ requests' = requests \cup {<<job[w], tok[w]>>} /\ Goto(w, "reporting")
    <3>1. Asked
      BY <2>2 DEF Asked
    <3> QED BY <1>9, <2>1, <2>2, <3>1, <1>M DEF Pc
  <2>3. CASE UNCHANGED requests /\ \E label \in {"cancelled", "failed", "succeeded"} : Goto(w, label)
    BY <1>9, <2>1, <2>3, <1>R, <1>M DEF Pc
  <2> QED BY <1>9, <2>2, <2>3 DEF AfterHandler
<1>10. ASSUME NEW w \in Worker, Same, AfterReport(w) PROVE LockInv'
  <2>1. beat[w] \in {"on", "cancel", "error"}
    BY <1>0, <1>10 DEF AfterReport, WorkerTyped, TokenInv
  <2>2. \E label \in {"cancelled", "failed", "succeeded"} : Goto(w, label)
    BY <1>10, <2>1 DEF AfterReport
  <2> QED BY <1>10, <2>2, <1>Q, <1>R, <1>M DEF AfterReport, Pc, apiVars
<1>11. ASSUME NEW w \in Worker, Same, Settle(w) PROVE LockInv'
  <2>1. rowLock' = rowLock
    BY <1>0, <1>11, <1>L, <1>Q, PlainStatements, FinishEffect DEF Settle, SettleStatement
  <2> QED BY <1>11, <2>1, <1>R, <1>M DEF Settle, Pc, apiVars
\* The steps that move no worker.
<1>W. ASSUME Same, UNCHANGED pc, rowLock' = rowLock, UNCHANGED requests,
             \A j \in Job : api'[j] = "none" <=> api[j] = "none"
      PROVE  LockInv'
  BY <1>W, <1>R, <1>S
<1>12. ASSUME Same, Operator PROVE LockInv'
  <2>1. rowLock' = rowLock
    BY <1>0, <1>12, PlainStatements DEF Operator
  <2> QED BY <1>12, <2>1, <1>W DEF Operator, workerVars, apiVars
<1>13. ASSUME NEW j \in Job, Same, TimePasses(j) PROVE LockInv'
  <2>1. rowLock' = rowLock
    BY <1>0, <1>13, PlainStatements DEF TimePasses
  <2> QED BY <1>13, <2>1, <1>W DEF TimePasses, workerVars, apiVars
<1>14. ASSUME NEW w \in Worker, Same, Poll(w) PROVE LockInv'
  <2>1. rowLock' = rowLock
    BY <1>0, <1>14, <1>L, PlainStatements DEF Poll
  <2> QED BY <1>14, <2>1, <1>W DEF Poll, workerVars, apiVars
<1>15. ASSUME NEW j \in Job, Same, ApiApply(j) PROVE LockInv'
  <2>1. \A k \in Job : api'[k] = "none" <=> api[k] = "none"
    BY <1>0, <1>15 DEF ApiApply, WorkerTyped
  <2> QED BY <1>15, <2>1, <1>Q, <1>W DEF ApiApply, workerVars
<1>16. ASSUME NEW j \in Job, NEW t \in Nat \ {0}, Same, ApiBegin(j, t) PROVE LockInv'
  <2>1. /\ rowLock[j] = 0 /\ rowLock'[j] = t
        /\ \A k \in Job : k # j => rowLock'[k] = rowLock[k]
    BY <1>0, <1>16, OwnedEffects DEF ApiBegin
  <2>2. commitMode[j] = "reported"
    BY <1>0, <1>16 DEF ApiBegin, LockInv
  <2>3. api'[j] # "none" /\ \A k \in Job : k # j => api'[k] = api[k]
    BY <1>0, <1>16 DEF ApiBegin, WorkerTyped
  <2> QED BY <1>16, <2>1, <2>2, <2>3, <1>B DEF ApiBegin, workerVars
<1>17. ASSUME NEW j \in Job, NEW t \in Nat \ {0}, Same, ApiReject(j, t) PROVE LockInv'
  <2>1. Asked
    BY <1>17 DEF ApiReject, Asked
  <2>2. CASE api[j] = "none" /\ UNCHANGED queueVars
    <3>1. \A k \in Job : api'[k] = api[k]
      BY <1>0, <1>17, <2>2 DEF ApiReject, WorkerTyped
    <3> QED BY <1>17, <2>1, <2>2, <3>1, <1>Q, <1>S DEF ApiReject, workerVars
  <2>3. CASE api[j] # "none" /\ EndOwned(j)
    <3>1. rowLock'[j] = 0 /\ \A k \in Job : k # j => rowLock'[k] = rowLock[k]
      BY <1>0, <2>3, OwnedEffects
    <3>2. api'[j] = "none" /\ \A k \in Job : k # j => api'[k] = api[k]
      BY <1>0, <1>17 DEF ApiReject, WorkerTyped
    <3>3. commitMode[j] = "reported"
      BY <1>0, <2>3 DEF LockInv
    <3> QED BY <1>17, <2>1, <3>1, <3>2, <3>3, <1>E DEF ApiReject, workerVars
  <2> QED BY <1>17, <2>2, <2>3 DEF ApiReject
<1>18. ASSUME NEW j \in Job, Same, ApiAnswer(j) PROVE LockInv'
  <2>1. rowLock'[j] = 0 /\ \A k \in Job : k # j => rowLock'[k] = rowLock[k]
    BY <1>0, <1>18, OwnedEffects DEF ApiAnswer
  <2>2. api'[j] = "none" /\ \A k \in Job : k # j => api'[k] = api[k]
    BY <1>0, <1>18 DEF ApiAnswer, WorkerTyped
  <2>3. commitMode[j] = "reported"
    BY <1>0, <1>18 DEF ApiAnswer, LockInv
  <2>4. \A v \in Worker : pc'[v] = pc[v] \/ (pc[v] = "reporting" /\ pc'[v] = "answered")
    BY <1>0, <1>18 DEF ApiAnswer
  <2>5. Asked
    BY <1>18 DEF ApiAnswer, Asked
  <2>6. \A v \in Worker : /\ pc'[v] \in Inside <=> pc[v] \in Inside
                          /\ pc'[v] = "reporting" => pc[v] = "reporting"
    BY <2>4
  <2> HIDE DEF Inside
  <2> QED BY <1>18, <2>1, <2>2, <2>3, <2>5, <2>6, <1>E
<1>19. ASSUME UNCHANGED vars PROVE LockInv'
  BY <1>19, <1>W DEF vars, Same
<1>20. ASSUME NEW j \in Job, Same, ApiStep(j) PROVE LockInv'
  <2>1. ASSUME NEW r \in requests, r[1] = j, ApiBegin(j, r[2]) \/ ApiReject(j, r[2])
        PROVE  LockInv'
    <3>1. r[2] \in Nat \ {0}
      BY <1>0 DEF WorkerTyped, TypeOK
    <3> QED BY <1>20, <2>1, <3>1, <1>16, <1>17
  <2> QED BY <1>20, <2>1, <1>15, <1>18 DEF ApiStep
<1>21. ASSUME NEW w \in Worker, Same, Advance(w) PROVE LockInv'
  BY <1>21, <1>4, <1>5, <1>6, <1>7, <1>9, <1>10, <1>11 DEF Advance
<1>22. CASE \E w \in Worker : ClaimJob(w)
  BY <1>1, <1>22
<1>23. CASE ~ \E w \in Worker : ClaimJob(w)
  <2>1. Same
    BY <1>23, <1>K
  <2> QED BY <1>23, <2>1, <1>2, <1>3, <1>8, <1>12, <1>13, <1>14, <1>19, <1>20, <1>21
             DEF WorkerNext
<1> QED BY <1>22, <1>23

-----------------------------------------------------------------------------
(* What was committed *)

\* An effect that a worker or the API counts on is not lost.
LEMMA CommitStep ==
  ASSUME WorkerInv, [WorkerNext]_vars
  PROVE  CommitInv'
<1> USE DEF WorkerInv
<1>0. /\ WorkerTyped /\ TokenInv /\ LockInv /\ CommitInv /\ TypeOK
      /\ \A j \in Job : rowLock[j] # 0 => rowLock[j] \in Nat
  BY DEF QueueInv, TypeOK
<1>L. \A w \in Worker : job[w] \in Job /\ tok[w] \in Nat
  BY InHand
<1>Q. UNCHANGED queueVars => NoneDone /\ rowLock' = rowLock
  BY DEF queueVars, NoneDone
<1> DEFINE Same == UNCHANGED <<tok, job, commitMode>>
           More == stale \subseteq stale' /\ \A j \in Job : commits[j] \subseteq commits'[j]
           Earned(v) ==
             /\ pc'[v] \in {"applied", "answered"} => tok[v] \in commits'[job[v]]
             /\ pc'[v] = "returned" /\ commitMode[job[v]] # "reported" =>
                  tok[v] \in commits'[job[v]]
             /\ pc'[v] = "succeeded" => tok[v] \in commits'[job[v]] \cup stale'
           Recorded == \A j \in Job : api'[j] = "applied" => rowLock'[j] \in commits'[j]
\* A worker that stays where it is has what it had.
<1>E. ASSUME More, NEW v \in Worker, pc'[v] = pc[v] PROVE Earned(v)
  BY <1>0, <1>E, <1>L DEF CommitInv
<1>D. ASSUME More, NoneDone PROVE DoneWasCommitted'
  BY <1>0, <1>D DEF CommitInv, DoneWasCommitted, NoneDone
<1>C. ASSUME Same, DoneWasCommitted', Recorded, \A v \in Worker : Earned(v) PROVE CommitInv'
  BY <1>C DEF CommitInv
<1>A. ASSUME More, UNCHANGED api, rowLock' = rowLock PROVE Recorded
  BY <1>0, <1>A DEF CommitInv
<1>K. ASSUME ~ \E w \in Worker : ClaimJob(w) PROVE Same
  BY <1>K, KeptInHand
<1>H. UNCHANGED history => More
  BY DEF history
\* One worker moves.
<1>M. ASSUME NEW w \in Worker, NEW label, Goto(w, label), Same, More, NoneDone, Recorded,
             label \notin {"applied", "answered", "returned", "succeeded"}
               \/ (pc'[w] = label => Earned(w))
      PROVE  CommitInv'
  <2>1. pc'[w] = label /\ \A v \in Worker : v # w => pc'[v] = pc[v]
    BY <1>0, <1>M DEF Goto, WorkerTyped
  <2>2. Earned(w)
    BY <1>M, <2>1
  <2> HIDE DEF Earned, Recorded
  <2> QED BY <1>M, <2>1, <2>2, <1>C, <1>D, <1>E
<1>W. ASSUME Same, UNCHANGED pc, More, NoneDone, Recorded PROVE CommitInv'
  BY <1>W, <1>C, <1>D, <1>E
<1> HIDE DEF Same, More, Recorded
<1>1. ASSUME NEW w \in Worker, ClaimJob(w) PROVE CommitInv'
  <2>1. rowLock' = rowLock /\ NoneDone /\ UNCHANGED <<commitMode, api, commits, stale>>
    BY <1>0, <1>1, ClaimEffect DEF ClaimJob, Goto, apiVars, history
  <2>2. /\ pc'[w] = "running"
        /\ \A v \in Worker : v # w => pc'[v] = pc[v] /\ job'[v] = job[v] /\ tok'[v] = tok[v]
    BY <1>0, <1>1 DEF ClaimJob, Goto, WorkerTyped
  <2>3. DoneWasCommitted'
    BY <2>1, <1>D DEF More
  <2> QED BY <1>0, <2>1, <2>2, <2>3 DEF CommitInv
<1>2. ASSUME NEW w \in Worker, Same, Beat(w) PROVE CommitInv'
  <2>1. rowLock' = rowLock /\ NoneDone
    BY <1>0, <1>2, <1>L, <1>Q, PlainStatements DEF Beat
  <2> QED BY <1>2, <2>1, <1>A, <1>H, <1>W DEF Beat, apiVars
<1>3. ASSUME NEW w \in Worker, Same, Progress(w) PROVE CommitInv'
  <2>1. rowLock' = rowLock /\ NoneDone
    BY <1>0, <1>3, <1>L, <1>Q, PlainStatements DEF Progress
  <2> QED BY <1>3, <2>1, <1>A, <1>H, <1>M DEF Progress, apiVars
<1>4. ASSUME NEW w \in Worker, Same, HandlerFails(w) \/ ReportFails(w) PROVE CommitInv'
  BY <1>4, <1>Q, <1>A, <1>H, <1>M DEF HandlerFails, ReportFails, apiVars
<1>5. ASSUME NEW w \in Worker, Same, ExportReady(w) PROVE CommitInv'
  BY <1>5, <1>Q, <1>A, <1>H, <1>M DEF ExportReady, apiVars
<1>6. ASSUME NEW w \in Worker, Same, StaleResult(w) PROVE CommitInv'
  <2>1. More
    BY <1>6 DEF StaleResult, More
  <2> QED BY <1>6, <2>1, <1>Q, <1>A, <1>M DEF StaleResult, apiVars
<1>7. ASSUME NEW w \in Worker, Same, GuardCommit(w) PROVE CommitInv'
  <2>1. rowLock' = rowLock /\ NoneDone
    BY <1>0, <1>7, <1>L, PlainStatements DEF GuardCommit
  <2> QED BY <1>7, <2>1, <1>A, <1>H, <1>M DEF GuardCommit, apiVars
\* The ends of owned_job_lease move no lock that the API has.
<1>N. ASSUME NEW j \in Job, commitMode[j] # "reported", UNCHANGED api, More,
             \A k \in Job : k # j => rowLock'[k] = rowLock[k]
      PROVE  Recorded
  BY <1>0, <1>N DEF Recorded, More, LockInv, CommitInv
<1>8. ASSUME NEW w \in Worker, Same, EnterFence(w) PROVE CommitInv'
  <2>1. CASE Goto(w, "cancelled") /\ UNCHANGED queueVars
    BY <1>8, <2>1, <1>Q, <1>A, <1>H, <1>M DEF EnterFence, apiVars
  <2>2. CASE BeginOwned(job[w], tok[w]) /\ Goto(w, "committing")
    <3>1. NoneDone /\ \A k \in Job : k # job[w] => rowLock'[k] = rowLock[k]
      BY <1>0, <2>2, <1>L, OwnedEffects
    <3>2. Recorded
      BY <1>8, <1>L, <3>1, <1>H, <1>N DEF EnterFence, apiVars
    <3> QED BY <1>8, <2>2, <3>1, <3>2, <1>H, <1>M DEF EnterFence
  <2> QED BY <1>8, <2>1, <2>2 DEF EnterFence
<1>9. ASSUME NEW w \in Worker, Same, Apply(w) PROVE CommitInv'
  <2>1. More /\ tok[w] \in commits'[job[w]]
    BY <1>0, <1>9, <1>L DEF Apply, More, WorkerTyped
  <2> QED BY <1>9, <2>1, <1>Q, <1>A, <1>M DEF Apply, apiVars
<1>10. ASSUME NEW w \in Worker, Same, LeaveFence(w) \/ Crash(w) PROVE CommitInv'
  <2>1. More /\ UNCHANGED api /\ UNCHANGED commits
    BY <1>10, <1>H DEF LeaveFence, Crash, apiVars, history
  <2>2. NoneDone /\ Recorded
    <3>1. CASE EndOwned(job[w]) /\ commitMode[job[w]] = "fenced"
      <4>1. NoneDone /\ \A k \in Job : k # job[w] => rowLock'[k] = rowLock[k]
        BY <1>0, <3>1, <1>L, OwnedEffects
      <4> QED BY <1>L, <2>1, <3>1, <4>1, <1>N
    <3>2. CASE UNCHANGED queueVars
      BY <2>1, <3>2, <1>Q, <1>A
    <3> QED BY <1>10, <3>1, <3>2 DEF LeaveFence, Crash
  <2>3. pc[w] = "applied" => tok[w] \in commits'[job[w]]
    BY <1>0, <2>1 DEF CommitInv
  <2>4. CASE Crash(w)
    BY <1>10, <2>1, <2>2, <2>4, <1>M DEF Crash
  <2>5. CASE LeaveFence(w) /\ pc[w] = "applied"
    BY <1>10, <2>1, <2>2, <2>3, <2>5, <1>M DEF LeaveFence
  <2>6. CASE LeaveFence(w) /\ pc[w] # "applied"
    BY <1>10, <2>1, <2>2, <2>6, <1>M DEF LeaveFence
  <2> QED BY <1>10, <2>4, <2>5, <2>6
<1>11. ASSUME NEW w \in Worker, Same, AfterHandler(w) PROVE CommitInv'
  <2>1. More /\ NoneDone /\ Recorded
    BY <1>11, <1>Q, <1>A, <1>H DEF AfterHandler
  <2>2. CASE \E label \in {"cancelled", "failed", "reporting"} : Goto(w, label)
    BY <1>11, <2>1, <2>2, <1>M
  <2>3. CASE Goto(w, "succeeded") /\ ~ (commitMode[job[w]] = "reported" /\ tok[w] \notin stale)
    <3>1. tok[w] \in commits[job[w]] \cup stale
      BY <1>0, <1>11, <2>3 DEF AfterHandler, CommitInv
    <3>2. tok[w] \in commits'[job[w]] \cup stale'
      BY <2>1, <3>1, <1>L DEF More
    <3> QED BY <1>11, <2>1, <2>3, <3>2, <1>M
  <2> QED BY <1>11, <2>2, <2>3 DEF AfterHandler
<1>12. ASSUME NEW w \in Worker, Same, AfterReport(w) PROVE CommitInv'
  <2>1. More /\ NoneDone /\ Recorded
    BY <1>12, <1>Q, <1>A, <1>H DEF AfterReport, apiVars
  <2>2. tok[w] \in commits'[job[w]] \cup stale'
    BY <1>0, <1>12, <2>1, <1>L DEF AfterReport, CommitInv, More
  <2>3. beat[w] \in {"on", "cancel", "error"}
    BY <1>0, <1>12 DEF AfterReport, WorkerTyped, TokenInv
  <2>4. \E label \in {"cancelled", "failed", "succeeded"} : Goto(w, label)
    BY <1>12, <2>3 DEF AfterReport
  <2> QED BY <1>12, <2>1, <2>2, <2>4, <1>M
\* The settlement is where a job becomes done.
<1>13. ASSUME NEW w \in Worker, Same, Settle(w) PROVE CommitInv'
  <2>1. More /\ UNCHANGED api /\ Goto(w, "idle")
    BY <1>13, <1>H DEF Settle, apiVars
  <2>2. CASE pc[w] = "succeeded" /\ Finish(job[w], tok[w], "done")
    <3>1. rowLock' = rowLock
      BY <1>0, <2>2, <1>L, FinishEffect
    <3>2. Recorded
      BY <2>1, <3>1, <1>A
    <3>3. ASSUME NEW k \in Job, jobs'[k].state = "done"
          PROVE  jobs'[k].result \in commits'[k] \cup stale'
      <4>1. CASE k = job[w]
        <5>1. jobs'[k].result = tok[w]
          BY <1>0, <2>2, <3>3, <4>1, <1>L, FinishEffect
        <5> QED BY <1>0, <2>1, <2>2, <4>1, <5>1 DEF CommitInv, More
      <4>2. CASE k # job[w]
        <5>1. jobs'[k] = jobs[k]
          BY <1>0, <2>2, <4>2, <1>L, FinishEffect
        <5> QED BY <1>0, <2>1, <3>3, <5>1 DEF CommitInv, DoneWasCommitted, More
      <4> QED BY <4>1, <4>2
    <3>4. pc'[w] = "idle" /\ \A v \in Worker : v # w => pc'[v] = pc[v]
      BY <1>0, <2>1 DEF Goto, WorkerTyped
    <3>5. \A v \in Worker : Earned(v)
      BY <2>1, <3>4, <1>E
    <3>6. DoneWasCommitted'
      BY <3>3 DEF DoneWasCommitted
    <3> HIDE DEF Earned
    <3> QED BY <1>13, <3>2, <3>5, <3>6, <1>C
  <2>3. CASE \/ pc[w] = "cancelled" /\ Finish(job[w], tok[w], "cancelled")
             \/ pc[w] = "failed" /\ RetryOrFail(job[w], tok[w])
             \/ UNCHANGED queueVars
    <3>1. rowLock' = rowLock /\ NoneDone
      BY <1>0, <2>3, <1>L, <1>Q, PlainStatements
    <3> QED BY <1>13, <2>1, <3>1, <1>A, <1>M
  <2> QED BY <1>13, <2>2, <2>3 DEF Settle, SettleStatement
<1>14. ASSUME Same, Operator PROVE CommitInv'
  <2>1. rowLock' = rowLock /\ NoneDone
    BY <1>0, <1>14, PlainStatements DEF Operator
  <2> QED BY <1>14, <2>1, <1>A, <1>H, <1>W DEF Operator, workerVars, apiVars
<1>15. ASSUME NEW j \in Job, Same, TimePasses(j) PROVE CommitInv'
  <2>1. rowLock' = rowLock /\ NoneDone
    BY <1>0, <1>15, PlainStatements DEF TimePasses
  <2> QED BY <1>15, <2>1, <1>A, <1>H, <1>W DEF TimePasses, workerVars, apiVars
<1>16. ASSUME NEW w \in Worker, Same, Poll(w) PROVE CommitInv'
  <2>1. rowLock' = rowLock /\ NoneDone
    BY <1>0, <1>16, <1>L, PlainStatements DEF Poll
  <2> QED BY <1>16, <2>1, <1>A, <1>H, <1>W DEF Poll, workerVars, apiVars
<1>17. ASSUME NEW j \in Job, Same, ApiApply(j) PROVE CommitInv'
  <2>1. /\ More /\ rowLock[j] \in commits'[j]
        /\ \A k \in Job : k # j => api'[k] = api[k]
    BY <1>0, <1>17 DEF ApiApply, More, WorkerTyped
  <2>2. Recorded
    BY <1>0, <1>17, <2>1, <1>Q DEF ApiApply, Recorded, CommitInv, More
  <2> QED BY <1>17, <2>1, <2>2, <1>Q, <1>W DEF ApiApply, workerVars
<1>18. ASSUME NEW j \in Job, NEW t \in Nat, Same, ApiBegin(j, t) PROVE CommitInv'
  <2>1. NoneDone /\ \A k \in Job : k # j => rowLock'[k] = rowLock[k]
    BY <1>0, <1>18, OwnedEffects DEF ApiBegin
  <2>2. api'[j] = "open" /\ \A k \in Job : k # j => api'[k] = api[k]
    BY <1>0, <1>18 DEF ApiBegin, WorkerTyped
  <2>3. More
    BY <1>18, <1>H DEF ApiBegin
  <2>4. Recorded
    BY <1>0, <2>1, <2>2, <2>3 DEF Recorded, CommitInv, More
  <2> QED BY <1>18, <2>1, <2>3, <2>4, <1>W DEF ApiBegin, workerVars
<1>19. ASSUME NEW j \in Job, NEW t \in Nat, Same, ApiReject(j, t) \/ ApiAnswer(j) PROVE CommitInv'
  <2>1. NoneDone /\ \A k \in Job : k # j => rowLock'[k] = rowLock[k]
    BY <1>0, <1>19, <1>Q, OwnedEffects DEF ApiReject, ApiAnswer
  <2>2. api'[j] = "none" /\ \A k \in Job : k # j => api'[k] = api[k]
    BY <1>0, <1>19 DEF ApiReject, ApiAnswer, WorkerTyped
  <2>3. More
    BY <1>19, <1>H DEF ApiReject, ApiAnswer
  <2>4. Recorded
    BY <1>0, <2>1, <2>2, <2>3 DEF Recorded, CommitInv, More
  <2>5. CASE ApiReject(j, t)
    BY <1>19, <2>1, <2>3, <2>4, <2>5, <1>W DEF ApiReject, workerVars
  <2>6. CASE ApiAnswer(j)
    <3>1. PICK W \in SUBSET {w \in Worker : /\ pc[w] = "reporting"
                                            /\ <<job[w], tok[w]>> = <<j, rowLock[j]>>} :
                 pc' = [w \in Worker |-> IF w \in W THEN "answered" ELSE pc[w]]
      BY <2>6 DEF ApiAnswer
    <3>2. rowLock[j] \in commits'[j]
      BY <1>0, <2>3, <2>6 DEF ApiAnswer, CommitInv, More
    <3>3. \A v \in W : Earned(v)
      BY <3>1, <3>2
    <3>4. \A v \in Worker : Earned(v)
      BY <2>3, <3>1, <3>3, <1>E
    <3> HIDE DEF Earned
    <3> QED BY <1>19, <2>1, <2>3, <2>4, <3>4, <1>C, <1>D
  <2> QED BY <1>19, <2>5, <2>6
<1>20. ASSUME UNCHANGED vars PROVE CommitInv'
  <2>1. Same /\ UNCHANGED history /\ UNCHANGED queueVars /\ UNCHANGED api /\ UNCHANGED pc
    BY <1>20 DEF vars, history, queueVars, Same
  <2> QED BY <2>1, <1>Q, <1>A, <1>H, <1>W
<1>21. ASSUME NEW j \in Job, Same, ApiStep(j) PROVE CommitInv'
  <2>1. \A r \in requests : r[2] \in Nat
    BY <1>0 DEF WorkerTyped, TypeOK
  <2>2. 0 \in Nat
    OBVIOUS
  <2> QED BY <1>21, <2>1, <2>2, <1>17, <1>18, <1>19 DEF ApiStep
<1>22. ASSUME NEW w \in Worker, Same, Advance(w) PROVE CommitInv'
  BY <1>22, <1>4, <1>5, <1>6, <1>7, <1>8, <1>9, <1>10, <1>11, <1>12, <1>13 DEF Advance
<1>23. CASE \E w \in Worker : ClaimJob(w)
  BY <1>1, <1>23
<1>24. CASE ~ \E w \in Worker : ClaimJob(w)
  <2>1. Same
    BY <1>24, <1>K
  <2> QED BY <1>24, <2>1, <1>2, <1>3, <1>10, <1>14, <1>15, <1>16, <1>20, <1>21, <1>22
             DEF WorkerNext
<1> QED BY <1>23, <1>24

-----------------------------------------------------------------------------
(* The theorems about the workers *)

LEMMA WorkerInvariance == WorkerSpec => []WorkerInv
<1>1. WorkerInit => WorkerInv
  <2> SUFFICES ASSUME WorkerInit PROVE WorkerInv OBVIOUS
  <2>1. QueueInv
    BY JobQueueAssumption
       DEF WorkerInit, Init, QueueInv, TypeOK, AbsentRow, Row, JobState, RowInv, ActiveState,
           TokensUnique, OwnedCommitExclusive
  <2>2. WorkerTyped
    BY DEF WorkerInit, Init, WorkerTyped, Pc
  <2>3. TokenInv /\ LockInv
    BY DEF WorkerInit, Init, TokenInv, LockInv
  <2>4. CommitInv
    BY DEF WorkerInit, Init, CommitInv, DoneWasCommitted, AbsentRow
  <2> QED BY <2>1, <2>2, <2>3, <2>4 DEF WorkerInv
<1>2. WorkerInv /\ [WorkerNext]_vars => WorkerInv'
  <2> SUFFICES ASSUME WorkerInv, [WorkerNext]_vars PROVE WorkerInv' OBVIOUS
  <2>1. QueueInv'
    BY StepIsStatement, InvariantStep DEF WorkerInv
  <2> QED BY <2>1, WorkerTypedStep, TokenStep, LockStep, CommitStep DEF WorkerInv
<1> QED BY <1>1, <1>2, PTL DEF WorkerSpec

\* Workers, API, operators and clock only run the statements of JobQueue, with
\* tokens that were drawn: whatever holds of the queue for any callers holds here.
THEOREM WorkersRunTheQueue == WorkerSpec => Spec
<1>1. WorkerInit => Init
  BY DEF WorkerInit
<1>2. WorkerInv /\ [WorkerNext]_vars => [Next]_queueVars
  BY StepIsStatement
<1> QED BY <1>1, <1>2, WorkerInvariance, PTL DEF WorkerSpec, Spec

\* So a submitter sees the promised life of a job, settled jobs stay as they are,
\* and cancellations are not taken back, with crashing workers and lost answers.
THEOREM PromisesOfTheQueueHold ==
  WorkerSpec => ImplementsLifecycle /\ SettledStays /\ CancelSticks /\ []OwnedCommitExclusive
BY WorkersRunTheQueue, QueueImplementsLifecycle, SettledJobsStay, CancellationsStick,
   ExclusiveOwnership

\* Every locked row has somebody who will release it: the API in its transaction,
\* or the worker between its commit and the end of its transaction.
THEOREM LocksHaveOwners == WorkerSpec => []WorkerTypeOK
<1>1. WorkerInv => WorkerTypeOK
  BY DEF WorkerInv, QueueInv, WorkerTyped, LockInv, WorkerTypeOK
<1> QED BY <1>1, WorkerInvariance, PTL

\* A job is recorded done only by an attempt whose effect is visible, or one that
\* found nothing left to do.
THEOREM DoneIsCommitted == WorkerSpec => []DoneWasCommitted
<1>1. WorkerInv => DoneWasCommitted
  BY DEF WorkerInv, CommitInv
<1> QED BY <1>1, WorkerInvariance, PTL

\* So no lock outlives its owner, and "done" means committed, whatever crashes,
\* expires or is cancelled between the two.
THEOREM WorkersAreSound == WorkerSpec => []WorkersSound
BY LocksHaveOwners, DoneIsCommitted, PTL DEF WorkersSound

\* What is committed under owned_job_lease is committed by the lease in force, on
\* a job that is neither settled nor cancelled.
THEOREM FencedCommitsAreCurrent == WorkerSpec => FencedCommitByCurrentLease
<1> DEFINE Current ==
      \A j \in Job : commitMode[j] # "guarded" /\ commits'[j] # commits[j] =>
        /\ Active(j) /\ ~jobs[j].cancel
        /\ commits'[j] = commits[j] \cup {jobs[j].token}
<1>1. ASSUME WorkerInv, [WorkerNext]_vars PROVE Current
  <2>0. WorkerTyped /\ QueueInv /\ LockInv /\ TokenInv
    BY <1>1 DEF WorkerInv
  <2>1. CASE UNCHANGED commits
    BY <2>1
  <2>2. ASSUME NEW w \in Worker, Apply(w) PROVE Current
    <3> SUFFICES ASSUME NEW j \in Job, commitMode[j] # "guarded", commits'[j] # commits[j]
                 PROVE  /\ Active(j) /\ ~jobs[j].cancel
                        /\ commits'[j] = commits[j] \cup {jobs[j].token}
      OBVIOUS
    <3>1. j = job[w] /\ commits'[j] = commits[j] \cup {tok[w]} /\ pc[w] = "committing"
      BY <2>0, <2>2 DEF Apply, WorkerTyped
    <3>2. rowLock[j] = tok[w] /\ tok[w] # 0
      BY <2>0, <3>1 DEF LockInv, TokenInv, WorkerTyped
    <3> QED BY <2>0, <3>1, <3>2, LockedRow
  <2>3. ASSUME NEW i \in Job, ApiApply(i) PROVE Current
    <3> SUFFICES ASSUME NEW j \in Job, commitMode[j] # "guarded", commits'[j] # commits[j]
                 PROVE  /\ Active(j) /\ ~jobs[j].cancel
                        /\ commits'[j] = commits[j] \cup {jobs[j].token}
      OBVIOUS
    <3>1. j = i /\ commits'[j] = commits[j] \cup {rowLock[j]} /\ api[j] = "open"
      BY <2>0, <2>3 DEF ApiApply, WorkerTyped
    <3>2. rowLock[j] # 0
      BY <2>0, <3>1 DEF LockInv
    <3> QED BY <2>0, <3>1, <3>2, LockedRow
  <2>4. UNCHANGED history => UNCHANGED commits
    BY DEF history
  <2> HIDE DEF Current
  <2>5. ASSUME NEW w \in Worker, Advance(w) PROVE Current
    <3>1. \/ Apply(w) \/ UNCHANGED commits
      BY <2>4, <2>5 DEF Advance, HandlerFails, StaleResult, ExportReady, GuardCommit, EnterFence,
            LeaveFence, AfterHandler, ReportFails, AfterReport, Settle
    <3> QED BY <3>1, <2>1, <2>2
  <2>6. ASSUME NEW w \in Worker,
               ClaimJob(w) \/ Poll(w) \/ Beat(w) \/ Progress(w) \/ Crash(w)
        PROVE  Current
    BY <2>1, <2>4, <2>6 DEF ClaimJob, Poll, Beat, Progress, Crash
  <2>7. ASSUME NEW j \in Job, ApiStep(j) \/ TimePasses(j) PROVE Current
    BY <2>1, <2>3, <2>4, <2>7 DEF ApiStep, ApiAnswer, ApiBegin, ApiReject, TimePasses
  <2>8. CASE Operator \/ UNCHANGED vars
    BY <2>1, <2>4, <2>8 DEF Operator, vars
  <2> QED BY <1>1, <2>5, <2>6, <2>7, <2>8 DEF WorkerNext
<1>2. WorkerInv /\ [WorkerNext]_vars => [Current]_vars
  BY <1>1
<1> QED BY <1>2, WorkerInvariance, PTL DEF WorkerSpec, FencedCommitByCurrentLease

=============================================================================
