----------------------------- MODULE Sam3Proofs -----------------------------
(***************************************************************************)
(* Proofs about Sam3Queue for every number of jobs, attempts, revisions    *)
(* and enqueuing threads, and, after them, about Sam3Publish, whose steps  *)
(* contain those of the queue, for any number of faults as well; at the    *)
(* end about Sam3Session, for every number of pages, sessions and tests.   *)
(***************************************************************************)
EXTENDS Sam3Publish, Sam3Session, WellFoundedInduction, TLAPS

-----------------------------------------------------------------------------
(* What the statements write, row by row *)

LeasedState  == {"leased", "running"}
PendingState == {"queued"} \cup LeasedState

\* A row is leased exactly while it has a token, and the token is its last attempt.
RowInv(row) ==
  /\ row \in Row
  /\ row.state \in LeasedState <=> row.token # 0
  /\ row.token # 0 => row.token = row.attempts

\* A row that was never claimed, or gave its lease back, has no token.
LEMMA NoToken == 0 \in 0..MaxAttempts
BY Sam3QueueAssumption

LiveRow(row) == row.state \in PendingState /\ ~ row.cancel

\* A statement that inserts nothing neither moves a row in the order of enqueue,
\* nor revives one that was settled or asked to stop.
RowStep(old, new) ==
  /\ RowInv(new)
  /\ new.rev = old.rev /\ new.created = old.created
  /\ new.state = "absent" <=> old.state = "absent"
  /\ LiveRow(new) => LiveRow(old)
  /\ old.state \in {"done", "error", "cancelled"} => new = old

\* The UPDATEs of enqueue and cancel.
LEMMA WithdrawnStep ==
  ASSUME NEW row, RowInv(row), row.state \in PendingState
  PROVE  /\ RowStep(row, Withdrawn(row))
         /\ ~ LiveRow(Withdrawn(row))
BY DEF RowInv, RowStep, LiveRow, Withdrawn, Row, PendingState, LeasedState

\* The UPDATEs of take.
LEMMA TakenStep ==
  ASSUME NEW row, RowInv(row)
  PROVE  /\ row.state \in LeasedState => RowStep(row, Reaped(row))
         /\ row.state \in PendingState /\ ~ row.cancel /\ row.attempts < MaxAttempts
              => RowStep(row, Claimed(row))
<1>1. ASSUME row.state \in LeasedState PROVE RowStep(row, Reaped(row))
  <2>1. Reaped(row) \in Row
    BY NoToken DEF RowInv, Reaped, Released, Row
  <2>2. /\ Reaped(row).state = IF row.cancel THEN "cancelled" ELSE "error"
        /\ Reaped(row).token = 0
        /\ Reaped(row).rev = row.rev /\ Reaped(row).created = row.created
    BY DEF RowInv, Reaped, Released, Row
  <2> QED BY <1>1, <2>1, <2>2 DEF RowInv, RowStep, LiveRow, PendingState, LeasedState
<1>2. ASSUME row.state \in PendingState, ~ row.cancel, row.attempts < MaxAttempts
      PROVE  RowStep(row, Claimed(row))
  <2>1. row.attempts + 1 \in 0..MaxAttempts /\ row.attempts + 1 # 0
    BY <1>2, Sam3QueueAssumption DEF RowInv, Row
  <2> QED BY <1>2, <2>1 DEF RowInv, RowStep, LiveRow, Claimed, Row, PendingState, LeasedState
<1> QED BY <1>1, <1>2

\* The statements of lease holders, and the clock.
LEMMA HolderStep ==
  ASSUME NEW row, RowInv(row), row.state \in LeasedState
  PROVE  /\ \A terminal \in {"done", "error", "cancelled"} : RowStep(row, Finished(row, terminal))
         /\ \A lease \in {"live", "expired"} : RowStep(row, [row EXCEPT !.lease = lease])
         /\ RowStep(row, [row EXCEPT !.state = "running", !.lease = "live"])
<1>1. ASSUME NEW terminal \in {"done", "error", "cancelled"}
      PROVE  RowStep(row, Finished(row, terminal))
  BY <1>1, NoToken DEF RowInv, RowStep, LiveRow, Finished, Released, Row, PendingState, LeasedState
<1>2. ASSUME NEW lease \in {"live", "expired"}
      PROVE  RowStep(row, [row EXCEPT !.lease = lease])
  BY <1>2 DEF RowInv, RowStep, LiveRow, Row, PendingState, LeasedState
<1>3. RowStep(row, [row EXCEPT !.state = "running", !.lease = "live"])
  BY DEF RowInv, RowStep, LiveRow, Row, PendingState, LeasedState
<1> QED BY <1>1, <1>2, <1>3

\* A row no statement touches.
LEMMA SameStep ==
  ASSUME NEW row, RowInv(row)
  PROVE  RowStep(row, row)
BY DEF RowStep

\* The INSERT of enqueue.
LEMMA InsertedRow ==
  ASSUME NEW ask, ask.rev \in 0..MaxRevision, ask.model \in Model, ask.created \in Nat
  PROVE  RowInv(Inserted(ask))
BY NoToken DEF RowInv, Inserted, AbsentRow, Row, LeasedState

-----------------------------------------------------------------------------
(* The inductive invariant *)

RowsTyped == /\ jobs \in [Job -> Row]
             /\ \A j \in Job : RowInv(jobs[j])

CallersTyped ==
  /\ caller \in [Caller -> [rev: 0..MaxRevision, model: Model, force: BOOLEAN, created: Nat]]
  /\ clock \in Nat

\* now() tells transactions of enqueue apart, and so the rows they insert.
Stamps ==
  /\ \A c \in Caller : caller[c].created <= clock
  /\ \A c, d \in Caller : caller[c] # Idle /\ caller[d] # Idle
                            /\ caller[c].created = caller[d].created => c = d
  /\ \A j \in Known : jobs[j].created <= clock
  /\ \A c \in Caller, j \in Known : caller[c] # Idle => caller[c].created # jobs[j].created
  /\ \A i, j \in Known : jobs[i].created = jobs[j].created => i = j

Owners == owner \in [Job -> 0..MaxAttempts] /\ OwnerKeepsRow

QueueInv == RowsTyped /\ CallersTyped /\ Stamps /\ Owners /\ OneLiveJob

\* QueueInv says what QueueTypeOK says, row by row.
LEMMA InvIsTyped == QueueInv => QueueTypeOK
BY DEF QueueInv, RowsTyped, CallersTyped, Owners, RowInv, QueueTypeOK, Leased, LeasedState

\* Every statement that inserts nothing moves each row by one of those steps.
TableStep == /\ jobs' \in [Job -> Row]
             /\ \A j \in Job : RowStep(jobs[j], jobs'[j])

\* Such a statement keeps the order and the single live job.
LEMMA TableStepKeeps ==
  ASSUME QueueInv, TableStep, UNCHANGED <<caller, clock>>
  PROVE  RowsTyped' /\ CallersTyped' /\ Stamps' /\ OneLiveJob'
<1>1. RowsTyped' /\ CallersTyped'
  BY DEF QueueInv, TableStep, RowStep, RowsTyped, CallersTyped
<1>2. Known' = Known
  BY DEF TableStep, RowStep, Known
<1>3. Stamps'
  BY <1>2 DEF QueueInv, TableStep, RowStep, Stamps, Known
<1>4. OneLiveJob'
  BY DEF QueueInv, TableStep, RowStep, LiveRow, OneLiveJob, Pending, Leased, PendingState, LeasedState
<1> QED BY <1>1, <1>3, <1>4

\* A statement on one row is such a statement.
LEMMA OneRow ==
  ASSUME QueueInv, NEW j \in Job, NEW row, RowStep(jobs[j], row),
         jobs' = [jobs EXCEPT ![j] = row]
  PROVE  TableStep
<1>1. \A k \in Job : jobs'[k] = IF k = j THEN row ELSE jobs[k]
  BY DEF QueueInv, RowsTyped
<1>2. row \in Row
  BY DEF RowStep, RowInv
<1> QED BY <1>1, <1>2, SameStep DEF QueueInv, RowsTyped, TableStep

\* So is one that leaves the table alone.
LEMMA NoRow ==
  ASSUME QueueInv, jobs' = jobs
  PROVE  TableStep
BY SameStep DEF QueueInv, RowsTyped, TableStep

\* A row nobody owns may move, and the owner of one that stays keeps it.
LEMMA UnlockedMoves ==
  ASSUME QueueInv, owner' = owner,
         \A j \in Job : Locked(j) => /\ jobs'[j].token = jobs[j].token
                                     /\ jobs'[j].attempts = jobs[j].attempts
                                     /\ jobs'[j].state = jobs[j].state
  PROVE  Owners'
BY DEF QueueInv, Owners, OwnerKeepsRow, Locked, Leased

\* The row of a lease that is held is leased, and the lease is its last attempt.
LEMMA HeldRow ==
  ASSUME QueueInv, NEW l \in Lease, Held(l)
  PROVE  /\ l[1] \in Job /\ l[2] \in 1..MaxAttempts
         /\ RowInv(jobs[l[1]]) /\ jobs[l[1]].state \in LeasedState
         /\ jobs[l[1]].token = l[2] /\ jobs[l[1]].attempts = l[2]
BY DEF QueueInv, RowsTyped, RowInv, Held, Lease, Leased, LeasedState

-----------------------------------------------------------------------------
(* What enqueue decides by *)

\* ORDER BY ... DESC LIMIT 1 finds a row whenever there is one.
LEMMA Largest ==
  ASSUME NEW n \in Nat, NEW T \in SUBSET (0..n), T # {}
  PROVE  \E m \in T : \A t \in T : t <= m
<1> DEFINE D == {n - t : t \in T}
<1>1. D \subseteq Nat /\ D # {}
  <2>1. ASSUME NEW t \in T PROVE n - t \in Nat
    <3>1. t \in 0..n
      OBVIOUS
    <3> QED BY <3>1
  <2> QED BY <2>1
<1>2. \E d \in D : \A e \in D : ~ (<<e, d>> \in OpToRel(<, Nat))
  <2> HIDE DEF D
  <2> QED BY <1>1, NatLessThanWellFounded, WFMin, Zenon
<1>3. PICK d \in D : \A e \in D : ~ (e < d)
  BY <1>1, <1>2 DEF OpToRel
<1>4. PICK m \in T : d = n - m
  OBVIOUS
<1>5. ASSUME NEW t \in T PROVE t <= m
  <2>1. n - t \in D
    OBVIOUS
  <2>2. ~ (n - t < n - m)
    BY <1>3, <1>4, <2>1
  <2>3. t \in 0..n /\ m \in 0..n
    OBVIOUS
  <2> QED BY <2>2, <2>3
<1> QED BY <1>5

\* Among the rows known there is one that ORDER BY annotation_revision DESC,
\* created_at DESC puts first, and none is of a newer revision.
LEMMA LatestExists ==
  ASSUME QueueInv, Known # {}
  PROVE  \E j \in Latest : \A k \in Known : jobs[k].rev <= jobs[j].rev
<1> DEFINE Revs  == {jobs[k].rev : k \in Known}
<1>1. \A k \in Known : jobs[k].rev \in 0..MaxRevision /\ jobs[k].created \in 0..clock
  BY DEF QueueInv, RowsTyped, CallersTyped, Stamps, Known, Row
<1>2. PICK r \in Revs : \A t \in Revs : t <= r
  <2>1. Revs \in SUBSET (0..MaxRevision) /\ Revs # {}
    BY <1>1
  <2> HIDE DEF Revs
  <2> QED BY <2>1, Largest, Sam3QueueAssumption
<1> DEFINE Stmps == {jobs[k].created : k \in {i \in Known : jobs[i].rev = r}}
<1>3. PICK s \in Stmps : \A t \in Stmps : t <= s
  <2>1. Stmps \in SUBSET (0..clock) /\ Stmps # {}
    BY <1>1
  <2>2. clock \in Nat
    BY DEF QueueInv, CallersTyped
  <2> HIDE DEF Stmps
  <2> QED BY <2>1, <2>2, Largest
<1>4. PICK j \in Known : jobs[j].rev = r /\ jobs[j].created = s
  OBVIOUS
<1>5. \A k \in Known : jobs[k].rev <= jobs[j].rev
  BY <1>2, <1>4
<1>6. ASSUME NEW k \in Known \ {j}, ~ (jobs[j].rev > jobs[k].rev)
      PROVE  jobs[j].rev = jobs[k].rev /\ jobs[j].created > jobs[k].created
  <2>1. jobs[k].rev = jobs[j].rev
    BY <1>1, <1>5, <1>6
  <2>2. jobs[k].created <= jobs[j].created
    BY <1>3, <1>4, <2>1
  <2>3. jobs[k].created # jobs[j].created
    BY DEF QueueInv, Stamps
  <2> QED BY <1>1, <2>1, <2>2, <2>3
<1>7. j \in Latest
  BY <1>6 DEF Latest
<1> QED BY <1>5, <1>7

\* An enqueue that is not answered asks for no older revision than any row known.
LEMMA UnansweredIsNewest ==
  ASSUME QueueInv, NEW c \in Caller, ~ Answered(caller[c])
  PROVE  \A k \in Known : jobs[k].rev <= caller[c].rev
<1> SUFFICES ASSUME Known # {} PROVE \A k \in Known : jobs[k].rev <= caller[c].rev
  OBVIOUS
<1>1. PICK j \in Latest : \A k \in Known : jobs[k].rev <= jobs[j].rev
  BY LatestExists
<1>2. ~ (jobs[j].rev > caller[c].rev)
  BY DEF Answered
<1>3. \A k \in Known : jobs[k].rev \in Nat
  BY DEF QueueInv, RowsTyped, Known, Row
<1>4. caller[c].rev \in Nat /\ j \in Known
  BY DEF QueueInv, CallersTyped, Latest
<1> QED BY <1>1, <1>2, <1>3, <1>4

-----------------------------------------------------------------------------
(* Every statement keeps the invariant *)

\* The statements that insert nothing, row by row: each is a TableStep, and none
\* touches the row of an owner but the commit of that owner.
OtherNext ==
  \/ Take \/ Cancel
  \/ \E j \in Job : Expire(j) \/ ReapElsewhere(j)
  \/ \E l \in Lease :
       \/ Heartbeat(l) \/ GetLease(l) \/ OwnLease(l) \/ RollbackOwned(l)
       \/ \E terminal \in {"error", "cancelled"} : SettleFailure(l, terminal)
       \/ \E terminal \in {"done", "cancelled"} : CommitOwned(l, terminal)

LEMMA OtherStep ==
  ASSUME QueueInv, OtherNext
  PROVE  TableStep /\ Owners' /\ UNCHANGED <<caller, clock>>
<1> DEFINE Goal == TableStep /\ Owners' /\ UNCHANGED <<caller, clock>>
<1>R. \A j \in Job : RowInv(jobs[j])
  BY DEF QueueInv, RowsTyped
<1>J. jobs \in [Job -> Row] /\ owner \in [Job -> 0..MaxAttempts]
  BY DEF QueueInv, RowsTyped, Owners
\* A statement on one row that is not locked.
<1>S. ASSUME NEW j \in Job, ~ Locked(j), NEW row, RowStep(jobs[j], row),
             jobs' = [jobs EXCEPT ![j] = row], UNCHANGED <<owner, caller, clock>>
      PROVE  Goal
  <2>1. TableStep
    BY <1>S, OneRow
  <2>2. \A k \in Job : Locked(k) => jobs'[k] = jobs[k]
    BY <1>S, <1>J
  <2> QED BY <1>S, <2>1, <2>2, UnlockedMoves
<1>0. ASSUME UNCHANGED queueVars PROVE Goal
  BY <1>0, NoRow, UnlockedMoves DEF queueVars
<1>1. ASSUME Take PROVE Goal
  <2> DEFINE Taken(j) == IF j \in Reapable THEN Reaped(jobs[j])
                         ELSE IF j \in First THEN Claimed(jobs[j]) ELSE jobs[j]
  <2>1. ASSUME NEW j \in Job PROVE RowStep(jobs[j], Taken(j))
    <3>1. CASE j \in Reapable
      BY <3>1, <1>R, TakenStep DEF Reapable, Leased, LeasedState
    <3>2. CASE j \notin Reapable /\ j \in First
      BY <3>2, <1>R, TakenStep DEF First, Claimable, Leased, LeasedState, PendingState
    <3>3. CASE j \notin Reapable /\ j \notin First
      BY <3>3, <1>R, SameStep
    <3> QED BY <3>1, <3>2, <3>3
  <2>2. jobs' = [j \in Job |-> Taken(j)] /\ UNCHANGED <<owner, caller, clock>>
    BY <1>1 DEF Take
  <2>3. \A j \in Job : Locked(j) => Taken(j) = jobs[j]
    BY <1>1 DEF Take, First, Claimable
  <2> HIDE DEF Taken
  <2>4. TableStep
    BY <2>1, <2>2 DEF TableStep, RowStep, RowInv
  <2> QED BY <2>2, <2>3, <2>4, UnlockedMoves
<1>2. ASSUME Cancel PROVE Goal
  <2>1. ASSUME NEW j \in Job
        PROVE  RowStep(jobs[j], IF Pending(j) THEN Withdrawn(jobs[j]) ELSE jobs[j])
    BY <1>R, WithdrawnStep, SameStep DEF Pending, Leased, LeasedState, PendingState
  <2>2. /\ jobs' = [j \in Job |-> IF Pending(j) THEN Withdrawn(jobs[j]) ELSE jobs[j]]
        /\ UNCHANGED <<owner, caller, clock>>
    BY <1>2 DEF Cancel
  <2>3. TableStep
    BY <2>1, <2>2 DEF TableStep, RowStep, RowInv
  <2>4. \A j \in Job : Locked(j) => jobs'[j] = jobs[j]
    BY <1>2, <2>2 DEF Cancel, Known, Pending, Leased
  <2> QED BY <2>2, <2>3, <2>4, UnlockedMoves
\* The clock looks at no lock, but a lease that runs out stays the row's lease.
<1>3. ASSUME NEW j \in Job, Expire(j) PROVE Goal
  <2> DEFINE row == [jobs[j] EXCEPT !.lease = "expired"]
  <2>1. RowStep(jobs[j], row)
    BY <1>3, <1>R, HolderStep DEF Expire, Leased, LeasedState
  <2>2. jobs' = [jobs EXCEPT ![j] = row] /\ UNCHANGED <<owner, caller, clock>>
    BY <1>3 DEF Expire
  <2>3. TableStep
    BY <2>1, <2>2, OneRow
  <2>4. \A k \in Job : /\ jobs'[k].token = jobs[k].token
                       /\ jobs'[k].attempts = jobs[k].attempts
                       /\ jobs'[k].state = jobs[k].state
    BY <2>2, <1>J DEF Row
  <2> QED BY <2>2, <2>3, <2>4, UnlockedMoves
<1>4. ASSUME NEW j \in Job, ReapElsewhere(j) PROVE Goal
  <2>1. RowStep(jobs[j], Reaped(jobs[j]))
    BY <1>4, <1>R, TakenStep DEF ReapElsewhere, Reapable, Leased, LeasedState
  <2> QED BY <1>4, <2>1, <1>S DEF ReapElsewhere
\* The statements that look whether the lease is held.
<1>H. ASSUME NEW l \in Lease, NEW row, Free(l), HeldRowBecomes(l, row),
             Held(l) => RowStep(jobs[l[1]], row), UNCHANGED <<owner, caller, clock>>
      PROVE  Goal
  <2>1. CASE Held(l)
    BY <2>1, <1>H, <1>S, HeldRow DEF Free, HeldRowBecomes
  <2>2. CASE ~ Held(l)
    BY <2>2, <1>H, <1>0 DEF HeldRowBecomes, queueVars
  <2> QED BY <2>1, <2>2
<1>5. ASSUME NEW l \in Lease, Heartbeat(l) PROVE Goal
  <2>1. Held(l) => RowStep(jobs[l[1]], [jobs[l[1]] EXCEPT !.state = "running", !.lease = "live"])
    BY HeldRow, HolderStep
  <2> QED BY <1>5, <2>1, <1>H DEF Heartbeat
<1>6. ASSUME NEW l \in Lease, GetLease(l) PROVE Goal
  <2>1. Held(l) => RowStep(jobs[l[1]], [jobs[l[1]] EXCEPT !.lease = "live"])
    BY HeldRow, HolderStep
  <2> QED BY <1>6, <2>1, <1>H DEF GetLease
<1>7. ASSUME NEW l \in Lease, NEW terminal \in {"error", "cancelled"}, SettleFailure(l, terminal)
      PROVE  Goal
  <2>1. Held(l) => RowStep(jobs[l[1]], Finished(jobs[l[1]], terminal))
    BY HeldRow, HolderStep
  <2> QED BY <1>7, <2>1, <1>H DEF SettleFailure
<1>8. ASSUME NEW l \in Lease, OwnLease(l) PROVE Goal
  <2>1. TableStep
    BY <1>8, NoRow DEF OwnLease
  <2>2. Owners'
    BY <1>8, <1>J, HeldRow DEF OwnLease, QueueInv, Owners, OwnerKeepsRow, Locked, Leased, LeasedState
  <2> QED BY <1>8, <2>1, <2>2 DEF OwnLease
<1>9. ASSUME NEW l \in Lease, RollbackOwned(l) PROVE Goal
  <2>1. TableStep
    BY <1>9, NoRow DEF RollbackOwned
  <2>2. Owners'
    BY <1>9, <1>J, NoToken DEF RollbackOwned, Lease, QueueInv, Owners, OwnerKeepsRow, Locked, Leased
  <2> QED BY <1>9, <2>1, <2>2 DEF RollbackOwned
<1>10. ASSUME NEW l \in Lease, NEW terminal \in {"done", "cancelled"}, CommitOwned(l, terminal)
       PROVE  Goal
  <2>1. l[1] \in Job /\ Locked(l[1]) /\ Leased(l[1])
    BY <1>10 DEF CommitOwned, Lease, Locked, QueueInv, Owners, OwnerKeepsRow
  <2>2. RowStep(jobs[l[1]], Finished(jobs[l[1]], terminal))
    BY <2>1, <1>R, HolderStep DEF Leased, LeasedState
  <2>3. jobs' = [jobs EXCEPT ![l[1]] = Finished(jobs[l[1]], terminal)]
    BY <1>10 DEF CommitOwned
  <2>4. TableStep
    BY <2>1, <2>2, <2>3, OneRow
  <2>5. \A k \in Job : k # l[1] => jobs'[k] = jobs[k]
    BY <2>3, <1>J
  <2>6. Owners'
    BY <1>10, <2>1, <2>5, <1>J, NoToken
       DEF CommitOwned, QueueInv, Owners, OwnerKeepsRow, Locked, Leased
  <2> QED BY <1>10, <2>4, <2>6 DEF CommitOwned
<1> QED BY <1>1, <1>2, <1>3, <1>4, <1>5, <1>6, <1>7, <1>8, <1>9, <1>10 DEF OtherNext

\* A transaction of enqueue takes a stamp no caller and no row has.
LEMMA BeginStep ==
  ASSUME QueueInv, NEW c \in Caller, NEW ask \in Asked, BeginEnqueue(c, ask)
  PROVE  QueueInv'
<1> DEFINE call == [rev |-> ask.rev, model |-> ask.model, force |-> ask.force,
                    created |-> clock + 1]
<1>0. /\ clock \in Nat /\ clock' = clock + 1
      /\ caller' = [caller EXCEPT ![c] = call]
      /\ jobs' = jobs /\ owner' = owner
  BY DEF QueueInv, CallersTyped, BeginEnqueue
<1>1. call \in [rev: 0..MaxRevision, model: Model, force: BOOLEAN, created: Nat]
  BY <1>0, Sam3QueueAssumption DEF Asked, Revision
<1>2. \A d \in Caller : caller'[d] = IF d = c THEN call ELSE caller[d]
  BY <1>0 DEF QueueInv, CallersTyped
<1>3. CallersTyped'
  BY <1>0, <1>1 DEF QueueInv, CallersTyped
<1>4. RowsTyped' /\ OneLiveJob' /\ Known' = Known /\ Owners'
  BY <1>0 DEF QueueInv, RowsTyped, OneLiveJob, Pending, Leased, Known, Owners, OwnerKeepsRow, Locked
<1>5. /\ \A d \in Caller : caller[d].created \in Nat /\ caller[d].created <= clock
      /\ \A j \in Known : jobs[j].created \in Nat /\ jobs[j].created <= clock
  BY DEF QueueInv, CallersTyped, RowsTyped, Stamps, Known, Row
<1>6. call.created = clock + 1
  OBVIOUS
<1> HIDE DEF call
<1>7. Stamps'
  <2>1. \A d \in Caller : caller'[d].created <= clock'
    BY <1>0, <1>2, <1>5, <1>6
  <2>2. \A d, e \in Caller : caller'[d] # Idle /\ caller'[e] # Idle
                             /\ caller'[d].created = caller'[e].created => d = e
    BY <1>0, <1>2, <1>5, <1>6 DEF QueueInv, Stamps
  <2>3. \A j \in Known : jobs'[j].created <= clock'
    BY <1>0, <1>5
  <2>4. \A d \in Caller, j \in Known : caller'[d] # Idle => caller'[d].created # jobs'[j].created
    BY <1>0, <1>2, <1>5, <1>6 DEF QueueInv, Stamps
  <2>5. \A i, j \in Known : jobs'[i].created = jobs'[j].created => i = j
    BY <1>0 DEF QueueInv, Stamps
  <2> QED BY <1>4, <2>1, <2>2, <2>3, <2>4, <2>5 DEF Stamps
<1> QED BY <1>3, <1>4, <1>7 DEF QueueInv

\* A caller that goes leaves the others and the rows their stamps.
LEMMA CallerGoes ==
  ASSUME QueueInv, NEW c \in Caller, caller' = [caller EXCEPT ![c] = Idle], clock' = clock
  PROVE  /\ CallersTyped'
         /\ \A d \in Caller : caller'[d] = IF d = c THEN Idle ELSE caller[d]
         /\ \A d \in Caller : caller'[d].created <= clock'
<1>1. \A d \in Caller : caller'[d] = IF d = c THEN Idle ELSE caller[d]
  BY DEF QueueInv, CallersTyped
<1>2. Idle \in [rev: 0..MaxRevision, model: Model, force: BOOLEAN, created: Nat]
  BY Sam3QueueAssumption DEF Idle, Model
<1>3. CallersTyped'
  BY <1>1, <1>2 DEF QueueInv, CallersTyped
<1>4. Idle.created <= clock
  BY DEF QueueInv, CallersTyped, Idle
<1> QED BY <1>1, <1>3, <1>4 DEF QueueInv, Stamps

\* An enqueue that is answered changes nothing else.
LEMMA AnsweredStep ==
  ASSUME QueueInv, NEW c \in Caller, EnqueueAnswered(c)
  PROVE  QueueInv'
<1>0. /\ caller' = [caller EXCEPT ![c] = Idle]
      /\ UNCHANGED <<jobs, owner, clock>>
  BY DEF EnqueueAnswered
<1>1. RowsTyped' /\ OneLiveJob' /\ Known' = Known /\ Owners'
  BY <1>0 DEF QueueInv, RowsTyped, OneLiveJob, Pending, Leased, Known, Owners, OwnerKeepsRow, Locked
<1>2. /\ \A d \in Caller : caller'[d] = IF d = c THEN Idle ELSE caller[d]
      /\ \A d \in Caller : caller'[d].created <= clock'
  BY <1>0, CallerGoes
<1>3. Stamps'
  <2>1. \A d, e \in Caller : caller'[d] # Idle /\ caller'[e] # Idle
                             /\ caller'[d].created = caller'[e].created => d = e
    BY <1>2 DEF QueueInv, Stamps
  <2>2. \A d \in Caller, j \in Known : caller'[d] # Idle => caller'[d].created # jobs'[j].created
    BY <1>0, <1>2 DEF QueueInv, Stamps
  <2> QED BY <1>0, <1>1, <1>2, <2>1, <2>2 DEF QueueInv, Stamps
<1> QED BY <1>0, <1>1, <1>3, CallerGoes DEF QueueInv

\* What EnqueueNew does to the table.
NewRow(c, new) ==
  /\ new \in Job \ Known
  /\ jobs' \in [Job -> Row]
  /\ jobs'[new] = Inserted(caller[c])
  /\ \A j \in Job \ {new} :
       /\ RowStep(jobs[j], jobs'[j])
       /\ ~ LiveRow(jobs'[j])
       /\ Locked(j) => jobs'[j] = jobs[j]
  /\ \A k \in Known : jobs[k].rev <= caller[c].rev

LEMMA NewStep ==
  ASSUME QueueInv, NEW c \in Caller, EnqueueNew(c)
  PROVE  \E new \in Job : NewRow(c, new)
<1>0. PICK new \in Job \ Known :
        jobs' = [j \in Job |-> IF j = new THEN Inserted(caller[c])
                               ELSE IF j \in Superseded(caller[c]) THEN Withdrawn(jobs[j])
                               ELSE jobs[j]]
  BY DEF EnqueueNew
<1>R. \A j \in Job : RowInv(jobs[j])
  BY DEF QueueInv, RowsTyped
<1>1. \A k \in Known : jobs[k].rev <= caller[c].rev
  BY UnansweredIsNewest DEF EnqueueNew
<1>2. RowInv(Inserted(caller[c]))
  BY InsertedRow DEF QueueInv, CallersTyped
<1>3. ASSUME NEW j \in Job \ {new}
      PROVE  /\ RowStep(jobs[j], jobs'[j])
             /\ ~ LiveRow(jobs'[j])
             /\ Locked(j) => jobs'[j] = jobs[j]
  <2>1. CASE j \in Superseded(caller[c])
    <3>1. jobs'[j] = Withdrawn(jobs[j]) /\ ~ Locked(j)
      BY <1>0, <2>1 DEF EnqueueNew
    <3>2. jobs[j].state \in PendingState
      BY <2>1 DEF Superseded, Pending, Leased, PendingState, LeasedState
    <3> QED BY <1>R, <3>1, <3>2, WithdrawnStep
  <2>2. CASE j \notin Superseded(caller[c])
    <3>1. jobs'[j] = jobs[j]
      BY <1>0, <2>2
    <3>2. jobs[j].state \notin PendingState
      BY <1>1, <2>2 DEF Superseded, Known, Pending, Leased, PendingState, LeasedState
    <3> QED BY <1>R, <3>1, <3>2, SameStep DEF LiveRow
  <2> QED BY <2>1, <2>2
<1>4. jobs' \in [Job -> Row]
  <2>1. \A j \in Job : jobs'[j] \in Row
    BY <1>0, <1>2, <1>3 DEF RowStep, RowInv
  <2> QED BY <1>0, <2>1
<1> QED BY <1>0, <1>1, <1>3, <1>4 DEF NewRow

LEMMA NewKeeps ==
  ASSUME QueueInv, NEW c \in Caller, EnqueueNew(c)
  PROVE  QueueInv'
<1>0. PICK new \in Job : NewRow(c, new)
  BY NewStep
<1> USE <1>0 DEF NewRow
<1>1. /\ caller[c] # Idle /\ caller' = [caller EXCEPT ![c] = Idle]
      /\ owner' = owner /\ clock' = clock
  BY DEF EnqueueNew
<1>2. RowInv(Inserted(caller[c]))
  BY InsertedRow DEF QueueInv, CallersTyped
<1>3. RowsTyped'
  BY <1>2 DEF RowsTyped, RowStep
<1>4. /\ Inserted(caller[c]).created = caller[c].created
      /\ Inserted(caller[c]).state = "queued"
  BY DEF Inserted, AbsentRow
<1>5. OneLiveJob'
  BY DEF OneLiveJob, LiveRow, Pending, Leased, PendingState, LeasedState
<1>6. Known' = Known \cup {new}
  BY <1>4 DEF Known, RowStep
<1>7. ~ Locked(new)
  BY DEF QueueInv, Owners, OwnerKeepsRow, Leased, Known
<1>8. Owners'
  BY <1>1, <1>7, UnlockedMoves
<1>9. \A j \in Known : jobs'[j].created = jobs[j].created
  BY DEF RowStep, Known
<1>10. Stamps'
  <2>1. \A d \in Caller : caller'[d].created <= clock'
    BY <1>1, CallerGoes
  <2>2. \A d, e \in Caller : caller'[d] # Idle /\ caller'[e] # Idle
                             /\ caller'[d].created = caller'[e].created => d = e
    BY <1>1, CallerGoes DEF QueueInv, Stamps
  <2>3. \A j \in Known' : jobs'[j].created <= clock'
    BY <1>1, <1>4, <1>6, <1>9 DEF QueueInv, Stamps
  <2>4. \A d \in Caller, j \in Known' : caller'[d] # Idle => caller'[d].created # jobs'[j].created
    <3>1. ASSUME NEW d \in Caller, NEW j \in Known, caller'[d] # Idle
          PROVE  caller'[d].created # jobs'[j].created
      BY <1>1, <1>9, <3>1, CallerGoes DEF QueueInv, Stamps
    <3>2. ASSUME NEW d \in Caller, caller'[d] # Idle
          PROVE  caller'[d].created # jobs'[new].created
      <4>1. d # c /\ caller'[d] = caller[d]
        BY <1>1, <3>2, CallerGoes
      <4> QED BY <1>1, <1>4, <3>2, <4>1 DEF QueueInv, Stamps
    <3> QED BY <1>6, <3>1, <3>2
  <2>5. \A i, j \in Known' : jobs'[i].created = jobs'[j].created => i = j
    BY <1>1, <1>4, <1>6, <1>9 DEF QueueInv, Stamps
  <2> QED BY <2>1, <2>2, <2>3, <2>4, <2>5 DEF Stamps
<1> QED BY <1>1, <1>3, <1>5, <1>8, <1>10, CallerGoes DEF QueueInv

\* QueueInv is inductive.
LEMMA InvariantStep == QueueInv /\ [QueueNext]_queueVars => QueueInv'
<1> SUFFICES ASSUME QueueInv, [QueueNext]_queueVars PROVE QueueInv' OBVIOUS
<1>1. CASE OtherNext
  BY <1>1, OtherStep, TableStepKeeps DEF QueueInv
<1>2. ASSUME NEW c \in Caller, Enqueue(c) PROVE QueueInv'
  BY <1>2, AnsweredStep, NewKeeps DEF Enqueue
<1>3. ASSUME NEW c \in Caller, NEW ask \in Asked, BeginEnqueue(c, ask) PROVE QueueInv'
  BY <1>3, BeginStep
<1>4. CASE UNCHANGED queueVars
  <2>1. UNCHANGED <<caller, clock, owner, jobs>>
    BY <1>4 DEF queueVars
  <2>2. TableStep /\ Owners'
    BY <2>1, NoRow, UnlockedMoves
  <2> QED BY <2>1, <2>2, TableStepKeeps DEF QueueInv
<1> QED BY <1>1, <1>2, <1>3, <1>4 DEF QueueNext, OtherNext

\* It holds initially.
LEMMA QueueInitInv == QueueInit => QueueInv
<1> SUFFICES ASSUME QueueInit PROVE QueueInv
  OBVIOUS
<1>1. AbsentRow \in Row
  BY NoToken, Sam3QueueAssumption DEF AbsentRow, Row, Model
<1>2. RowsTyped
  BY <1>1 DEF QueueInit, RowsTyped, RowInv, AbsentRow, LeasedState
<1>3. CallersTyped
  BY Sam3QueueAssumption DEF QueueInit, CallersTyped, Idle, Model
<1>4. Known = {}
  BY DEF QueueInit, Known, AbsentRow
<1>5. Stamps
  BY <1>4 DEF QueueInit, Stamps, Idle
<1>6. Owners
  BY NoToken DEF QueueInit, Owners, OwnerKeepsRow, Locked
<1>7. OneLiveJob
  BY DEF QueueInit, OneLiveJob, Pending, Leased, AbsentRow
<1> QED BY <1>2, <1>3, <1>5, <1>6, <1>7 DEF QueueInv

\* It holds in every reachable state.
LEMMA Invariance == QueueSpec => []QueueInv
BY QueueInitInv, InvariantStep, PTL DEF QueueSpec

-----------------------------------------------------------------------------
(* What a single statement may never do *)

\* No statement moves a row that is settled.
LEMMA SettledStep ==
  ASSUME QueueInv, QueueNext
  PROVE  \A j \in Job : Settled(j) => jobs'[j] = jobs[j]
<1> SUFFICES ASSUME NEW j \in Job, Settled(j) PROVE jobs'[j] = jobs[j]
  OBVIOUS
<1>1. CASE OtherNext
  BY <1>1, OtherStep DEF TableStep, RowStep, Settled
<1>2. ASSUME NEW c \in Caller, EnqueueNew(c) PROVE jobs'[j] = jobs[j]
  BY <1>2, NewStep DEF NewRow, RowStep, Settled, Known
<1>3. ASSUME NEW c \in Caller, EnqueueAnswered(c) PROVE jobs'[j] = jobs[j]
  BY <1>3 DEF EnqueueAnswered
<1>4. ASSUME NEW c \in Caller, NEW ask \in Asked, BeginEnqueue(c, ask)
      PROVE  jobs'[j] = jobs[j]
  BY <1>4 DEF BeginEnqueue
<1> QED BY <1>1, <1>2, <1>3, <1>4 DEF QueueNext, OtherNext, Enqueue

\* No statement inserts a row of an older revision.
LEMMA MonotoneStep ==
  ASSUME QueueInv, QueueNext
  PROVE  \A j \in Job : jobs[j].state = "absent" /\ jobs'[j].state # "absent"
           => \A k \in Known : jobs[k].rev <= jobs'[j].rev
<1> SUFFICES ASSUME NEW j \in Job, jobs[j].state = "absent", jobs'[j].state # "absent"
             PROVE  \A k \in Known : jobs[k].rev <= jobs'[j].rev
  OBVIOUS
<1>1. CASE OtherNext
  BY <1>1, OtherStep DEF TableStep, RowStep
<1>2. ASSUME NEW c \in Caller, EnqueueNew(c)
      PROVE  \A k \in Known : jobs[k].rev <= jobs'[j].rev
  <2>1. PICK new \in Job : NewRow(c, new)
    BY <1>2, NewStep
  <2>2. j = new
    BY <2>1 DEF NewRow, RowStep
  <2>3. jobs'[j].rev = caller[c].rev
    BY <2>1, <2>2 DEF NewRow, Inserted, AbsentRow
  <2> QED BY <2>1, <2>3 DEF NewRow
<1>3. ASSUME NEW c \in Caller, EnqueueAnswered(c) PROVE jobs' = jobs
  BY <1>3 DEF EnqueueAnswered
<1>4. ASSUME NEW c \in Caller, NEW ask \in Asked, BeginEnqueue(c, ask) PROVE jobs' = jobs
  BY <1>4 DEF BeginEnqueue
<1> QED BY <1>1, <1>2, <1>3, <1>4 DEF QueueNext, OtherNext, Enqueue

-----------------------------------------------------------------------------
(* What holds for every value of the constants *)

\* The rows, the locks and the callers stay in their domains, and a row has a lease
\* token exactly while it is leased or running.
THEOREM TypeCorrect == QueueSpec => []QueueTypeOK
BY Invariance, InvIsTyped, PTL

\* The row a publication is made under keeps its lease until owned_lease ends.
THEOREM PublisherKeepsRow == QueueSpec => []OwnerKeepsRow
<1>1. QueueInv => OwnerKeepsRow
  BY DEF QueueInv, Owners
<1> QED BY <1>1, Invariance, PTL

\* However many callers enqueue, and in whatever order their transactions take the
\* advisory lock, one job at most is pending that was not asked to stop.
THEOREM SingleLiveJob == QueueSpec => []OneLiveJob
<1>1. QueueInv => OneLiveJob
  BY DEF QueueInv
<1> QED BY <1>1, Invariance, PTL

\* A job that is done, failed or cancelled never changes again.
THEOREM SettledJobsStay == QueueSpec => SettledStays
<1>1. QueueInv /\ [QueueNext]_queueVars
        => [\A j \in Job : Settled(j) => jobs'[j] = jobs[j]]_queueVars
  BY SettledStep
<1> QED BY <1>1, Invariance, PTL DEF QueueSpec, SettledStays

\* A delayed enqueue never adds work of an older revision than a job already known.
THEOREM EnqueuesAreMonotone == QueueSpec => EnqueueMonotone
<1>1. QueueInv /\ [QueueNext]_queueVars
        => [\A j \in Job : jobs[j].state = "absent" /\ jobs'[j].state # "absent"
             => \A k \in Known : jobs[k].rev <= jobs'[j].rev]_queueVars
  BY MonotoneStep
<1> QED BY <1>1, Invariance, PTL DEF QueueSpec, EnqueueMonotone

-----------------------------------------------------------------------------
(* Sam3Publish: the inductive invariant *)

\* What a request has behind it that publishes, and when it has done what.
Publishing == {"placed", "announced", "pointed", "written", "commit"}
Announced  == Publishing \ {"placed"}
Pointed    == Announced \ {"announced"}
Entered    == Pointed \ {"pointed"}

EntryTyped == /\ entry \in [rev: 0..MaxRevision, noObject: BOOLEAN, export: 0..MaxRevision,
                            run: Job \cup {0}]
              /\ asked \in [Caller -> 0..MaxRevision] /\ completing \subseteq Caller

FilesTyped == /\ disk \in 0..MaxRevision
              /\ staged \in [Lease -> 0..MaxRevision]
              /\ generation \in [Job -> [attempt: 0..MaxAttempts, frames: 0..MaxRevision]]
              /\ announced \subseteq Job /\ pointer \in Job \cup {0} /\ indexed \subseteq Job

RequestState == Fencing \cup {"none", "sent", "known", "ended", "refused"}

RequestsTyped == request \in [Lease -> RequestState]

\* The worker is at work on a lease, whatever it sends names one.
WorkerTyped ==
  /\ worker \in [pc: {"idle", "segmenting", "posted"}, lease: Lease \cup {NoLease},
                 told: BOOLEAN, lost: BOOLEAN]
  /\ worker.pc # "idle" => worker.lease \in Lease
  /\ reply \subseteq Lease \X {"error", "cancelled"}
  /\ loop \in {<<>>, <<"cancel">>, <<"take">>} \cup ({"heartbeat"} \X Lease)
  /\ faults \in 0..MaxFaults

\* The fence of the video lets one request in at a time, and no enqueue beside it.
FenceInv == \A l \in Lease : request[l] \in Fencing =>
              completing = {} /\ \A m \in Lease : request[m] \in Fencing => m = l

\* A request is inside owned_lease exactly while the row is locked for it.
LockInv == \A l \in Lease : owner[l[1]] = l[2] <=> request[l] \in Owning

\* A result is sent once: by the attempt that was claimed, after it has segmented.
SentInv ==
  /\ \A l \in Lease : request[l] # "none" => l[2] <= jobs[l[1]].attempts
  /\ worker.pc # "idle" => worker.lease[2] <= jobs[worker.lease[1]].attempts
  /\ worker.pc = "segmenting" => request[worker.lease] = "none"

\* A row that was not inserted yet has no attempts.
AbsentInv == \A j \in Job : jobs[j].state = "absent" => jobs[j].attempts = 0

\* No prompt was written for a revision the annotation has not reached.
RevisionInv == /\ \A c \in Caller : asked[c] <= entry.rev /\ caller[c].rev <= entry.rev
               /\ \A j \in Job : jobs[j].rev <= entry.rev

\* What was segmented was on disk.
FramesInv == /\ \A l \in Lease : staged[l] # 0 => disk # 0
             /\ \A l \in Lease : request[l] \notin {"none", "ended", "refused"} => disk # 0

\* Up to the commit of a publication the row, the annotation and the pointer stay as
\* the request has found and left them: the lease keeps the row, the fence the others.
Published(l) ==
  /\ request[l] \in Publishing => MayPublish(l[1]) /\ generation[l[1]].frames # 0
  /\ request[l] \in Announced => l[1] \in announced
  /\ request[l] \in Pointed => pointer = l[1]
  /\ request[l] \in Entered => entry.run = l[1]

PublishedInv == \A l \in Lease : Published(l)

\* DoneIsComplete, job by job.
Complete(j) ==
  jobs[j].state = "done" =>
    /\ generation[j].frames # 0 /\ j \in announced /\ j \in indexed
    /\ entry.rev = jobs[j].rev /\ pointer = j => entry.run = j

CompleteInv == \A j \in Job : Complete(j)

TypedInv == EntryTyped /\ FilesTyped /\ RequestsTyped /\ WorkerTyped

\* Who may do what, and what has been done.
OrderInv == FenceInv /\ LockInv /\ AbsentInv /\ SentInv /\ RevisionInv /\ FramesInv
StoreInv == PublishedInv /\ CompleteInv

PublishInv == QueueInv /\ TypedInv /\ OrderInv /\ StoreInv
-----------------------------------------------------------------------------
(* What a statement does to the rows of others *)

\* The part of a row that a publication rests on.
SameJob(old, new) == /\ new.state = old.state /\ new.rev = old.rev
                     /\ new.token = old.token /\ new.attempts = old.attempts
                     /\ new.cancel = old.cancel

\* No statement but the commit of a publication makes a job done, none takes an attempt
\* or a row back.
RowMove(old, new) == /\ old.attempts <= new.attempts
                     /\ new.state \in {"absent", "done"} => new = old

\* What one statement does to the table: a locked row stays the job it was, and only an
\* enqueue that was not answered adds a revision.
TableMoves ==
  /\ \A j \in Job : RowMove(jobs[j], jobs'[j])
  /\ \A j \in Job : Locked(j) => SameJob(jobs[j], jobs'[j])
  /\ \A j \in Job : \/ jobs'[j].rev = jobs[j].rev
                    \/ \E c \in Caller : jobs'[j].rev = caller[c].rev

\* The statements that neither take nor end an owned_lease.
QuietNext ==
  \/ Take \/ Cancel
  \/ \E c \in Caller : Enqueue(c)
  \/ \E j \in Job : Expire(j) \/ ReapElsewhere(j)
  \/ \E l \in Lease :
       \/ Heartbeat(l) \/ GetLease(l)
       \/ \E terminal \in {"error", "cancelled"} : SettleFailure(l, terminal)

\* What the callers of an enqueue may ask for never grows by it.
CallersMove == \A c \in Caller : caller'[c].rev \in {0, caller[c].rev}

\* An INSERT or UPDATE, row by row.
LEMMA RowMoves ==
  ASSUME NEW row \in Row
  PROVE  /\ RowMove(row, row) /\ SameJob(row, row)
         /\ row.state \in PendingState => RowMove(row, Withdrawn(row))
         /\ RowMove(row, Reaped(row)) /\ RowMove(row, Claimed(row))
         /\ \A terminal \in {"error", "cancelled"} : RowMove(row, Finished(row, terminal))
         /\ \A lease \in {"live", "expired"} :
              row.state \in LeasedState =>
                /\ RowMove(row, [row EXCEPT !.lease = lease])
                /\ SameJob(row, [row EXCEPT !.lease = lease])
         /\ row.state \in LeasedState =>
              RowMove(row, [row EXCEPT !.state = "running", !.lease = "live"])
<1>0. /\ row.attempts \in Nat /\ row.attempts <= row.attempts
      /\ row.attempts <= row.attempts + 1
  BY Sam3QueueAssumption DEF Row
<1>1. RowMove(row, row) /\ SameJob(row, row)
  BY <1>0 DEF RowMove, SameJob
<1>2. row.state \in PendingState => RowMove(row, Withdrawn(row))
  BY <1>0 DEF RowMove, Withdrawn, Row, PendingState, LeasedState
<1>3. RowMove(row, Reaped(row)) /\ RowMove(row, Claimed(row))
  BY <1>0 DEF RowMove, Reaped, Released, Claimed, Row
<1>4. \A terminal \in {"error", "cancelled"} : RowMove(row, Finished(row, terminal))
  BY <1>0 DEF RowMove, Finished, Released, Row
<1>5. ASSUME NEW lease \in {"live", "expired"}, row.state \in LeasedState
      PROVE  /\ RowMove(row, [row EXCEPT !.lease = lease])
             /\ SameJob(row, [row EXCEPT !.lease = lease])
  BY <1>0, <1>5 DEF RowMove, SameJob, Row, LeasedState
<1>6. row.state \in LeasedState =>
        RowMove(row, [row EXCEPT !.state = "running", !.lease = "live"])
  BY <1>0 DEF RowMove, Row, LeasedState
<1> QED BY <1>1, <1>2, <1>3, <1>4, <1>5, <1>6

\* A statement on one row that is not locked.
LEMMA UnlockedRow ==
  ASSUME QueueInv, NEW j \in Job, ~ Locked(j), NEW row, RowMove(jobs[j], row),
         row.rev = jobs[j].rev, jobs' = [jobs EXCEPT ![j] = row]
  PROVE  TableMoves
<1>1. jobs \in [Job -> Row]
  BY DEF QueueInv, RowsTyped
<1>2. \A k \in Job : jobs'[k] = IF k = j THEN row ELSE jobs[k]
  BY <1>1
<1>3. \A k \in Job : RowMove(jobs[k], jobs[k]) /\ SameJob(jobs[k], jobs[k])
  BY <1>1, RowMoves
<1> QED BY <1>2, <1>3 DEF TableMoves

\* No statement on the table.
LEMMA NoMove ==
  ASSUME QueueInv, jobs' = jobs
  PROVE  TableMoves
<1>1. \A k \in Job : RowMove(jobs[k], jobs[k]) /\ SameJob(jobs[k], jobs[k])
  BY RowMoves DEF QueueInv, RowsTyped
<1> QED BY <1>1 DEF TableMoves

\* The statements that look whether the lease is held.
LEMMA HeldMoves ==
  ASSUME QueueInv, NEW l \in Lease, NEW row, Free(l), HeldRowBecomes(l, row),
         Held(l) => RowMove(jobs[l[1]], row) /\ row.rev = jobs[l[1]].rev
  PROVE  TableMoves
<1>1. CASE Held(l)
  <2>1. l[1] \in Job /\ ~ Locked(l[1]) /\ jobs' = [jobs EXCEPT ![l[1]] = row]
    BY <1>1, HeldRow DEF Free, HeldRowBecomes
  <2> QED BY <1>1, <2>1, UnlockedRow
<1>2. CASE ~ Held(l)
  BY <1>2, NoMove DEF HeldRowBecomes
<1> QED BY <1>1, <1>2

\* The INSERT of an enqueue, and the UPDATE before it.
LEMMA EnqueueMoves ==
  ASSUME QueueInv, AbsentInv, NEW c \in Caller, Enqueue(c)
  PROVE  TableMoves /\ CallersMove /\ owner' = owner
<1>J. jobs \in [Job -> Row]
  BY DEF QueueInv, RowsTyped
<1>C. CallersMove
  <2>1. caller' = [caller EXCEPT ![c] = Idle]
    BY DEF Enqueue, EnqueueAnswered, EnqueueNew
  <2>2. \A d \in Caller : caller'[d] = IF d = c THEN Idle ELSE caller[d]
    BY <2>1 DEF QueueInv, CallersTyped
  <2> QED BY <2>2 DEF CallersMove, Idle
<1>1. CASE EnqueueAnswered(c)
  BY <1>1, <1>C, NoMove DEF EnqueueAnswered
<1>2. CASE EnqueueNew(c)
  <2>0. PICK new \in Job \ Known :
          jobs' = [j \in Job |-> IF j = new THEN Inserted(caller[c])
                                 ELSE IF j \in Superseded(caller[c]) THEN Withdrawn(jobs[j])
                                 ELSE jobs[j]]
    BY <1>2 DEF EnqueueNew
  <2>1. ASSUME NEW j \in Job, j \in Superseded(caller[c])
        PROVE  RowMove(jobs[j], Withdrawn(jobs[j])) /\ Withdrawn(jobs[j]).rev = jobs[j].rev
    <3>1. jobs[j] \in Row /\ jobs[j].state \in PendingState
      BY <1>J, <2>1 DEF Superseded, Pending, Leased, PendingState, LeasedState
    <3> QED BY <3>1, RowMoves DEF Withdrawn, Row
  <2>2. /\ RowMove(jobs[new], Inserted(caller[c]))
        /\ Inserted(caller[c]).rev = caller[c].rev
        /\ ~ Locked(new)
    <3>1. jobs[new].state = "absent" /\ jobs[new].attempts = 0
      BY DEF AbsentInv, Known
    <3> QED BY <3>1 DEF RowMove, Inserted, AbsentRow, QueueInv, Owners, OwnerKeepsRow, Leased
  <2>3. \A j \in Job : j \in Superseded(caller[c]) => ~ Locked(j)
    BY <1>2 DEF EnqueueNew
  <2>4. ASSUME NEW j \in Job PROVE RowMove(jobs[j], jobs'[j])
    BY <1>J, <2>0, <2>1, <2>2, RowMoves
  <2>5. ASSUME NEW j \in Job, Locked(j) PROVE SameJob(jobs[j], jobs'[j])
    BY <1>J, <2>0, <2>2, <2>3, <2>5, RowMoves
  <2>6. ASSUME NEW j \in Job
        PROVE  jobs'[j].rev = jobs[j].rev \/ \E d \in Caller : jobs'[j].rev = caller[d].rev
    BY <2>0, <2>1, <2>2
  <2>7. owner' = owner
    BY <1>2 DEF EnqueueNew
  <2> QED BY <1>C, <2>4, <2>5, <2>6, <2>7 DEF TableMoves
<1> QED BY <1>1, <1>2 DEF Enqueue

\* Any of the quiet statements.
LEMMA QuietMoves ==
  ASSUME QueueInv, AbsentInv, QuietNext
  PROVE  TableMoves /\ CallersMove /\ owner' = owner /\ QueueInv'
<1>J. jobs \in [Job -> Row] /\ \A j \in Job : RowInv(jobs[j])
  BY DEF QueueInv, RowsTyped
<1>Q. QueueInv'
  BY InvariantStep DEF QuietNext, QueueNext
<1> DEFINE Goal == TableMoves /\ CallersMove /\ owner' = owner
<1>0. ASSUME NEW c \in Caller, Enqueue(c) PROVE Goal
  BY <1>0, EnqueueMoves
<1>C. ASSUME caller' = caller PROVE CallersMove
  BY <1>C DEF CallersMove
<1>1. ASSUME Take PROVE Goal
  <2>1. /\ jobs' = [j \in Job |-> IF j \in Reapable THEN Reaped(jobs[j])
                                  ELSE IF j \in First THEN Claimed(jobs[j]) ELSE jobs[j]]
        /\ owner' = owner /\ caller' = caller
    BY <1>1 DEF Take
  <2>2. \A j \in Job : (j \in Reapable \/ j \in First) => ~ Locked(j)
    BY <1>1 DEF Take, First, Claimable
  <2>3. \A j \in Job : /\ Reaped(jobs[j]).rev = jobs[j].rev
                       /\ Claimed(jobs[j]).rev = jobs[j].rev
    BY <1>J DEF Reaped, Released, Claimed, Row
  <2>4. \A j \in Job : RowMove(jobs[j], jobs'[j])
    BY <1>J, <2>1, RowMoves
  <2>5. \A j \in Job : Locked(j) => SameJob(jobs[j], jobs'[j])
    BY <1>J, <2>1, <2>2, RowMoves
  <2>6. \A j \in Job : jobs'[j].rev = jobs[j].rev
    BY <2>1, <2>3
  <2> QED BY <1>C, <2>1, <2>4, <2>5, <2>6 DEF TableMoves
<1>2. ASSUME Cancel PROVE Goal
  <2>1. /\ jobs' = [j \in Job |-> IF Pending(j) THEN Withdrawn(jobs[j]) ELSE jobs[j]]
        /\ owner' = owner /\ caller' = caller
    BY <1>2 DEF Cancel
  <2>2. \A j \in Job : Pending(j) => ~ Locked(j) /\ jobs[j].state \in PendingState
    BY <1>2 DEF Cancel, Known, Pending, Leased, PendingState, LeasedState
  <2>3. \A j \in Job : Withdrawn(jobs[j]).rev = jobs[j].rev
    BY <1>J DEF Withdrawn, Row
  <2>4. \A j \in Job : RowMove(jobs[j], jobs'[j])
    BY <1>J, <2>1, <2>2, RowMoves
  <2>5. \A j \in Job : Locked(j) => SameJob(jobs[j], jobs'[j])
    BY <1>J, <2>1, <2>2, RowMoves
  <2>6. \A j \in Job : jobs'[j].rev = jobs[j].rev
    BY <2>1, <2>3
  <2> QED BY <1>C, <2>1, <2>4, <2>5, <2>6 DEF TableMoves
<1>3. ASSUME NEW j \in Job, Expire(j) PROVE Goal
  <2>1. /\ jobs' = [jobs EXCEPT ![j].lease = "expired"]
        /\ owner' = owner /\ caller' = caller /\ jobs[j].state \in LeasedState
    BY <1>3 DEF Expire, Leased, LeasedState
  <2>2. \A k \in Job : jobs'[k] = IF k = j THEN [jobs[j] EXCEPT !.lease = "expired"] ELSE jobs[k]
    BY <1>J, <2>1
  <2>3. \A k \in Job : RowMove(jobs[k], jobs'[k]) /\ SameJob(jobs[k], jobs'[k])
    BY <1>J, <2>1, <2>2, RowMoves
  <2> QED BY <1>C, <2>1, <2>3 DEF TableMoves, SameJob
<1>4. ASSUME NEW j \in Job, ReapElsewhere(j) PROVE Goal
  <2>1. RowMove(jobs[j], Reaped(jobs[j])) /\ Reaped(jobs[j]).rev = jobs[j].rev
    BY <1>J, RowMoves DEF Reaped, Released, Row
  <2> QED BY <1>4, <1>C, <2>1, UnlockedRow DEF ReapElsewhere
<1>5. ASSUME NEW l \in Lease, Heartbeat(l) PROVE Goal
  <2>1. Held(l) => /\ RowMove(jobs[l[1]], [jobs[l[1]] EXCEPT !.state = "running", !.lease = "live"])
                   /\ [jobs[l[1]] EXCEPT !.state = "running", !.lease = "live"].rev = jobs[l[1]].rev
    BY HeldRow, RowMoves DEF RowInv, Row
  <2> QED BY <1>5, <1>C, <2>1, HeldMoves DEF Heartbeat
<1>6. ASSUME NEW l \in Lease, GetLease(l) PROVE Goal
  <2>1. Held(l) => /\ RowMove(jobs[l[1]], [jobs[l[1]] EXCEPT !.lease = "live"])
                   /\ [jobs[l[1]] EXCEPT !.lease = "live"].rev = jobs[l[1]].rev
    BY HeldRow, RowMoves DEF RowInv, Row
  <2> QED BY <1>6, <1>C, <2>1, HeldMoves DEF GetLease
<1>7. ASSUME NEW l \in Lease, NEW terminal \in {"error", "cancelled"}, SettleFailure(l, terminal)
      PROVE  Goal
  <2>1. Held(l) => /\ RowMove(jobs[l[1]], Finished(jobs[l[1]], terminal))
                   /\ Finished(jobs[l[1]], terminal).rev = jobs[l[1]].rev
    BY HeldRow, RowMoves DEF Finished, Released, RowInv, Row
  <2> QED BY <1>7, <1>C, <2>1, HeldMoves DEF SettleFailure
<1> QED BY <1>Q, <1>0, <1>1, <1>2, <1>3, <1>4, <1>5, <1>6, <1>7 DEF QuietNext

-----------------------------------------------------------------------------
(* Types *)

LEMMA Numbers == /\ MaxRevision \in Nat /\ MaxAttempts \in Nat \ {0} /\ MaxFaults \in Nat
                 /\ 0 \in 0..MaxRevision /\ 0 \in 0..MaxAttempts
BY Sam3QueueAssumption, Sam3PublishAssumption

\* What an action leaves alone stays in its domain.
LEMMA EntryStays ==
  ASSUME EntryTyped, UNCHANGED <<entry, asked, completing>>
  PROVE  EntryTyped'
BY DEF EntryTyped

LEMMA FilesStay ==
  ASSUME FilesTyped, UNCHANGED <<fileVars, indexed>>
  PROVE  FilesTyped'
BY DEF FilesTyped, fileVars

LEMMA RequestsSame ==
  ASSUME RequestsTyped, UNCHANGED request
  PROVE  RequestsTyped'
BY DEF RequestsTyped

LEMMA WorkerStays ==
  ASSUME WorkerTyped, UNCHANGED <<worker, reply, loop, faults>>
  PROVE  WorkerTyped'
BY DEF WorkerTyped

\* One request goes on.
LEMMA Advances ==
  ASSUME RequestsTyped, NEW l \in Lease, NEW from, NEW to \in RequestState, Advance(l, from, to)
  PROVE  /\ RequestsTyped'
         /\ request[l] = from
         /\ \A m \in Lease : request'[m] = IF m = l THEN to ELSE request[m]
BY DEF RequestsTyped, Advance

\* The annotation, the export and the enqueues.
SubmitNext == \E c \in Caller : Submit(c)

LEMMA SubmitTyped ==
  ASSUME TypedInv, SubmitNext \/ Edit \/ MarkNoObject \/ PublishFrames
  PROVE  TypedInv'
<1> USE DEF TypedInv
<1>0. /\ entry \in [rev: 0..MaxRevision, noObject: BOOLEAN, export: 0..MaxRevision,
                    run: Job \cup {0}]
      /\ asked \in [Caller -> 0..MaxRevision] /\ completing \subseteq Caller
  BY DEF EntryTyped
<1>1. ASSUME Edit \/ MarkNoObject PROVE TypedInv'
  <2>1. entry.rev + 1 \in 0..MaxRevision
    BY <1>0, <1>1, Numbers DEF Edit, MarkNoObject
  <2>2. EntryTyped'
    BY <1>0, <1>1, <2>1, Numbers DEF Edit, MarkNoObject, EntryTyped, apiVars
  <2> QED BY <1>1, <2>2, FilesStay, RequestsSame, WorkerStays DEF Edit, MarkNoObject, apiVars
<1>2. ASSUME PublishFrames PROVE TypedInv'
  <2>1. FilesTyped'
    BY <1>0, <1>2 DEF PublishFrames, FilesTyped
  <2> QED BY <1>2, <2>1, EntryStays, RequestsSame, WorkerStays DEF PublishFrames, apiVars
<1>3. ASSUME NEW c \in Caller, CompleteExport(c) PROVE TypedInv'
  <2>1. EntryTyped'
    BY <1>0, <1>3 DEF CompleteExport, EntryTyped
  <2> QED BY <1>3, <2>1, FilesStay, RequestsSame, WorkerStays DEF CompleteExport
<1>4. ASSUME NEW c \in Caller, ReadEntry(c) PROVE TypedInv'
  <2>1. EntryTyped'
    BY <1>0, <1>4 DEF ReadEntry, EntryTyped
  <2> QED BY <1>4, <2>1, FilesStay, RequestsSame, WorkerStays DEF ReadEntry
<1>5. ASSUME NEW c \in Caller, NEW force \in BOOLEAN, AskManually(c, force) PROVE TypedInv'
  <2>1. EntryTyped'
    BY <1>0, <1>5, Numbers DEF AskManually, EntryTyped
  <2> QED BY <1>5, <2>1, FilesStay, RequestsSame, WorkerStays DEF AskManually
<1>6. ASSUME NEW c \in Caller, EndEnqueue(c) PROVE TypedInv'
  <2>1. EntryTyped'
    BY <1>0, <1>6 DEF EndEnqueue, EntryTyped
  <2> QED BY <1>6, <2>1, FilesStay, RequestsSame, WorkerStays DEF EndEnqueue
<1> QED BY <1>1, <1>2, <1>3, <1>4, <1>5, <1>6 DEF SubmitNext, Submit

\* The GPU worker, the statements that wait on the event loop, and the clock.
WorkNext == \/ CancelRoute \/ CancelWaits \/ Work \/ CrashWorker
            \/ \E j \in Job : LeaseExpires(j)
            \/ \E l \in Lease : \/ Beat(l)
                                \/ \E terminal \in {"error", "cancelled"} : AcceptFailure(l, terminal)

\* A claim gives the row a lease of its own.
LEMMA ClaimedLease ==
  ASSUME QueueInv, Take, NEW j \in First
  PROVE  /\ j \in Job /\ <<j, jobs'[j].token>> \in Lease
         /\ jobs'[j].token = jobs[j].attempts + 1 /\ jobs'[j].attempts = jobs[j].attempts + 1
<1>1. jobs[j] \in Row /\ j \in Job
  BY DEF QueueInv, RowsTyped, First, Claimable
<1>2. ~ jobs[j].cancel /\ jobs[j].attempts < MaxAttempts
  BY DEF First, Claimable
<1>3. jobs[j].attempts \in Nat /\ j \notin Reapable
  BY <1>1, <1>2, Numbers DEF Reapable, Row
<1>4. jobs'[j] = Claimed(jobs[j])
  BY <1>1, <1>3 DEF Take
<1>5. jobs'[j].token = jobs[j].attempts + 1 /\ jobs'[j].attempts = jobs[j].attempts + 1
  BY <1>1, <1>4 DEF Claimed, Row
<1> QED BY <1>1, <1>2, <1>3, <1>5, Numbers DEF Lease

\* An answer that nobody reads any more.
LEMMA DroppedRequests ==
  ASSUME RequestsTyped
  PROVE  /\ Dropped \in [Lease -> RequestState]
         /\ \A l \in Lease : \/ Dropped[l] = request[l]
                             \/ request[l] \in {"ended", "refused"} /\ Dropped[l] = "none"
BY DEF Dropped, RequestsTyped, RequestState

LEMMA WorkTyped ==
  ASSUME QueueInv, TypedInv, WorkNext
  PROVE  TypedInv'
<1> USE DEF TypedInv
<1>W. /\ worker \in [pc: {"idle", "segmenting", "posted"}, lease: Lease \cup {NoLease},
                     told: BOOLEAN, lost: BOOLEAN]
      /\ worker.pc # "idle" => worker.lease \in Lease
      /\ reply \subseteq Lease \X {"error", "cancelled"}
      /\ loop \in {<<>>, <<"cancel">>, <<"take">>} \cup ({"heartbeat"} \X Lease)
      /\ faults \in 0..MaxFaults
  BY DEF WorkerTyped
<1>R. /\ Resting \in [pc: {"idle", "segmenting", "posted"}, lease: Lease \cup {NoLease},
                      told: BOOLEAN, lost: BOOLEAN]
      /\ Resting.pc = "idle"
  BY DEF Resting
\* The worker and what it sends.
<1>V. ASSUME WorkerTyped', UNCHANGED <<fileVars, entry, indexed, asked, completing>>,
             request' \in {request, Dropped}
      PROVE  TypedInv'
  <2>1. RequestsTyped'
    BY <1>V, DroppedRequests DEF RequestsTyped
  <2> QED BY <1>V, <2>1, EntryStays, FilesStay
<1>1. ASSUME CancelRoute PROVE TypedInv'
  <2>1. WorkerTyped'
    BY <1>W, <1>1 DEF CancelRoute, WorkerTyped
  <2> QED BY <1>1, <2>1, <1>V DEF CancelRoute
<1>2. ASSUME CancelWaits \/ TakeWaits PROVE TypedInv'
  <2>1. WorkerTyped'
    BY <1>W, <1>2 DEF CancelWaits, TakeWaits, LoopWaits, WorkerTyped
  <2> QED BY <1>2, <2>1, <1>V DEF CancelWaits, TakeWaits, LoopWaits
<1>3. ASSUME BeatWaits PROVE TypedInv'
  <2>1. worker.lease \in Lease
    BY <1>W, <1>3 DEF BeatWaits, Beating
  <2>2. WorkerTyped'
    BY <1>W, <1>3, <2>1 DEF BeatWaits, LoopWaits, WorkerTyped
  <2> QED BY <1>3, <2>2, <1>V DEF BeatWaits, LoopWaits
<1>4. ASSUME NextJob PROVE TypedInv'
  <2>1. CASE First = {}
    <3>1. WorkerTyped'
      BY <1>W, <1>4, <2>1 DEF NextJob, WorkerTyped
    <3> QED BY <1>4, <3>1, <1>V DEF NextJob
  <2>2. CASE First # {}
    <3>1. PICK j \in First :
            worker' = [Resting EXCEPT !.pc = "segmenting", !.lease = <<j, jobs'[j].token>>]
      BY <1>4, <2>2 DEF NextJob
    <3>2. <<j, jobs'[j].token>> \in Lease
      BY <1>4, ClaimedLease DEF NextJob
    <3>3. /\ worker' \in [pc: {"idle", "segmenting", "posted"}, lease: Lease \cup {NoLease},
                          told: BOOLEAN, lost: BOOLEAN]
          /\ worker'.lease \in Lease
      BY <1>R, <3>1, <3>2 DEF Resting
    <3>4. WorkerTyped'
      BY <1>W, <1>4, <3>3 DEF NextJob, WorkerTyped
    <3> QED BY <1>4, <3>4, <1>V DEF NextJob
  <2> QED BY <2>1, <2>2
<1>5. ASSUME PollFails PROVE TypedInv'
  <2>1. UNCHANGED <<worker, reply, loop, faults, fileVars, entry, indexed, asked, completing, request>>
    BY <1>5 DEF PollFails, vars, apiVars
  <2>2. WorkerTyped'
    BY <2>1, WorkerStays
  <2> QED BY <2>1, <2>2, <1>V
<1>6. ASSUME Segment PROVE TypedInv'
  <2>1. FilesTyped'
    BY <1>6 DEF Segment, FilesTyped
  <2> QED BY <1>6, <2>1, EntryStays, RequestsSame, WorkerStays DEF Segment, apiVars
<1>7. ASSUME PostDone PROVE TypedInv'
  <2>1. RequestsTyped'
    BY <1>7 DEF PostDone, RequestsTyped, RequestState
  <2>2. /\ worker' \in [pc: {"idle", "segmenting", "posted"}, lease: Lease \cup {NoLease},
                        told: BOOLEAN, lost: BOOLEAN]
        /\ worker'.pc # "idle" => worker'.lease \in Lease
    BY <1>W, <1>7 DEF PostDone
  <2>3. WorkerTyped'
    BY <1>W, <1>7, <2>2 DEF PostDone, WorkerTyped
  <2> QED BY <1>7, <2>1, <2>3, EntryStays, FilesStay DEF PostDone
<1>8. ASSUME LeaveJob PROVE TypedInv'
  <2>1. WorkerTyped'
    BY <1>W, <1>R, <1>8 DEF LeaveJob, WorkerTyped
  <2> QED BY <1>8, <2>1, <1>V DEF LeaveJob
<1>9. ASSUME NEW terminal \in {"error", "cancelled"}, Acknowledge(terminal) PROVE TypedInv'
  <2>1. worker.lease \in Lease
    BY <1>W, <1>9 DEF Acknowledge, Beating
  <2>2. WorkerTyped'
    BY <1>W, <1>R, <1>9, <2>1 DEF Acknowledge, WorkerTyped
  <2> QED BY <1>9, <2>2, <1>V DEF Acknowledge
<1>10. ASSUME CrashWorker PROVE TypedInv'
  <2>1. faults' \in 0..MaxFaults
    BY <1>W, <1>10, Numbers DEF CrashWorker
  <2>2. WorkerTyped'
    BY <1>W, <1>R, <1>10, <2>1 DEF CrashWorker, WorkerTyped
  <2> QED BY <1>10, <2>2, <1>V DEF CrashWorker, Unwritten
<1>11. ASSUME NEW j \in Job, LeaseExpires(j) PROVE TypedInv'
  BY <1>11, EntryStays, FilesStay, RequestsSame, WorkerStays DEF LeaseExpires, apiVars
<1>12. ASSUME NEW l \in Lease, Beat(l) PROVE TypedInv'
  <2>1. jobs[l[1]].cancel \in BOOLEAN
    BY DEF QueueInv, RowsTyped, Row, Lease
  <2>2. /\ worker' \in [pc: {"idle", "segmenting", "posted"}, lease: Lease \cup {NoLease},
                        told: BOOLEAN, lost: BOOLEAN]
        /\ worker'.pc = worker.pc /\ worker'.lease = worker.lease
    BY <1>W, <1>12, <2>1 DEF Beat
  <2>3. WorkerTyped'
    BY <1>W, <1>12, <2>2 DEF Beat, WorkerTyped
  <2> QED BY <1>12, <2>3, <1>V DEF Beat
<1>13. ASSUME NEW l \in Lease, NEW terminal \in {"error", "cancelled"}, AcceptFailure(l, terminal)
       PROVE  TypedInv'
  <2>1. WorkerTyped'
    BY <1>W, <1>13 DEF AcceptFailure, WorkerTyped
  <2> QED BY <1>13, <2>1, <1>V DEF AcceptFailure
<1> QED BY <1>1, <1>2, <1>3, <1>4, <1>5, <1>6, <1>7, <1>8, <1>9, <1>10, <1>11, <1>12, <1>13
       DEF WorkNext, Work

\* The result of a lease.
ResultNext(l) ==
  \/ KnowLease(l) \/ EnterFence(l) \/ EnterLease(l) \/ WithdrawStale(l)
  \/ Place(l) \/ RefuseGeneration(l) \/ Announce(l) \/ SwitchPointer(l)
  \/ WriteEntry(l) \/ FinishOwned(l) \/ LeaveLease(l) \/ LeaveFence(l) \/ RequestRaises(l)

LEMMA ResultTyped ==
  ASSUME QueueInv, TypedInv, NEW l \in Lease, ResultNext(l)
  PROVE  TypedInv'
<1> USE DEF TypedInv
<1>L. l[1] \in Job /\ l[2] \in 0..MaxAttempts
  BY Numbers DEF Lease
<1>E. /\ entry \in [rev: 0..MaxRevision, noObject: BOOLEAN, export: 0..MaxRevision,
                    run: Job \cup {0}]
      /\ asked \in [Caller -> 0..MaxRevision] /\ completing \subseteq Caller
  BY DEF EntryTyped
<1>F. /\ disk \in 0..MaxRevision
      /\ staged \in [Lease -> 0..MaxRevision]
      /\ generation \in [Job -> [attempt: 0..MaxAttempts, frames: 0..MaxRevision]]
      /\ announced \subseteq Job /\ pointer \in Job \cup {0} /\ indexed \subseteq Job
  BY DEF FilesTyped
<1>R. RequestsTyped'
  BY DEF ResultNext, KnowLease, EnterFence, EnterLease, WithdrawStale, Place, RefuseGeneration,
         Announce, SwitchPointer, WriteEntry, FinishOwned, LeaveLease, LeaveFence, RequestRaises,
         Answer, Advance, RequestsTyped, RequestState, Fencing, Owning
<1>W. WorkerTyped'
  <2>1. CASE RequestRaises(l)
    <3>1. faults' \in 0..MaxFaults
      BY <2>1, Numbers DEF RequestRaises, WorkerTyped
    <3> QED BY <2>1, <3>1 DEF RequestRaises, WorkerTyped
  <2>2. CASE ~ RequestRaises(l)
    <3>1. Elsewhere
      BY <2>2 DEF ResultNext, KnowLease, EnterFence, EnterLease, WithdrawStale, Place,
                  RefuseGeneration, Announce, SwitchPointer, WriteEntry, FinishOwned, LeaveLease,
                  LeaveFence
    <3> QED BY <3>1, WorkerStays DEF Elsewhere
  <2> QED BY <2>1, <2>2
<1>V. UNCHANGED <<asked, completing>>
  BY DEF ResultNext, KnowLease, EnterFence, EnterLease, WithdrawStale, Place, RefuseGeneration,
         Announce, SwitchPointer, WriteEntry, FinishOwned, LeaveLease, LeaveFence, RequestRaises,
         Elsewhere
<1>1. ASSUME Unwritten PROVE TypedInv'
  BY <1>1, <1>R, <1>W, <1>V, EntryStays, FilesStay DEF Unwritten
<1>2. ASSUME Place(l) PROVE TypedInv'
  <2>1. FilesTyped'
    BY <1>L, <1>F, <1>2, Numbers DEF Place, FilesTyped
  <2> QED BY <1>2, <2>1, <1>R, <1>W, <1>V, EntryStays DEF Place
<1>3. ASSUME Announce(l) \/ SwitchPointer(l) PROVE TypedInv'
  <2>1. FilesTyped'
    BY <1>L, <1>F, <1>3 DEF Announce, SwitchPointer, FilesTyped
  <2> QED BY <1>3, <2>1, <1>R, <1>W, <1>V, EntryStays DEF Announce, SwitchPointer
<1>4. ASSUME WriteEntry(l) PROVE TypedInv'
  <2>1. EntryTyped'
    BY <1>L, <1>E, <1>V, <1>4 DEF WriteEntry, EntryTyped
  <2> QED BY <1>4, <2>1, <1>R, <1>W, FilesStay DEF WriteEntry
<1>5. ASSUME LeaveLease(l) PROVE TypedInv'
  <2>1. FilesTyped'
    BY <1>L, <1>F, <1>5 DEF LeaveLease, FilesTyped, fileVars
  <2> QED BY <1>5, <2>1, <1>R, <1>W, <1>V, EntryStays DEF LeaveLease
<1> QED BY <1>1, <1>2, <1>3, <1>4, <1>5
       DEF ResultNext, KnowLease, EnterFence, EnterLease, WithdrawStale, RefuseGeneration,
           FinishOwned, LeaveFence, RequestRaises

LEMMA RestartTyped ==
  ASSUME TypedInv, RestartApi
  PROVE  TypedInv'
<1> USE DEF TypedInv
<1>1. EntryTyped'
  BY Numbers DEF RestartApi, Unwritten, EntryTyped
<1>2. FilesTyped'
  BY FilesStay DEF RestartApi, Unwritten
<1>3. RequestsTyped'
  BY DEF RestartApi, RequestsTyped, RequestState
<1>4. faults' \in 0..MaxFaults
  BY Numbers DEF RestartApi, WorkerTyped
<1>5. WorkerTyped'
  BY <1>4 DEF RestartApi, WorkerTyped
<1> QED BY <1>1, <1>2, <1>3, <1>5

\* Whatever happens, every variable stays in its domain.
LEMMA TypedStep ==
  ASSUME QueueInv, TypedInv, [Next]_vars
  PROVE  TypedInv'
<1>1. CASE UNCHANGED vars
  <2>1. UNCHANGED <<entry, asked, completing, fileVars, indexed, request, worker, reply, loop, faults>>
    BY <1>1 DEF vars, apiVars
  <2> QED BY <2>1, EntryStays, FilesStay, RequestsSame, WorkerStays DEF TypedInv
<1>2. CASE SubmitNext \/ Edit \/ MarkNoObject \/ PublishFrames
  BY <1>2, SubmitTyped
<1>3. CASE WorkNext
  BY <1>3, WorkTyped
<1>4. CASE \E l \in Lease : ResultNext(l)
  BY <1>4, ResultTyped
<1>5. CASE RestartApi
  BY <1>5, RestartTyped
<1> QED BY <1>1, <1>2, <1>3, <1>4, <1>5 DEF Next, Triage, Serve, SubmitNext, WorkNext, ResultNext

-----------------------------------------------------------------------------
(* Steps outside the fence: what they leave alone *)

\* One statement of the queue, or none.
QueueStays == QueueInv' /\ TableMoves /\ owner' = owner

\* No request enters the fence, goes on in it or leaves it; an enqueue may end.
RequestsStay ==
  /\ completing' \subseteq completing
  /\ \A m \in Lease : request'[m] # request[m] => /\ request[m] \notin Fencing
                                                /\ request'[m] \notin Fencing

\* No request goes on; an answer may be dropped.
AnswersStay == \A m \in Lease : request'[m] # request[m] => request'[m] = "none"

\* The worker stays at its job, or ends it.
WorkStays == worker'.pc # "idle" => worker'.pc = worker.pc /\ worker'.lease = worker.lease

\* No revision is read or asked for anew.
AsksStay == CallersMove /\ \A c \in Caller : asked'[c] \in {0, asked[c]}

LEMMA QuietStays ==
  ASSUME QueueInv, AbsentInv, QuietNext
  PROVE  QueueStays /\ CallersMove
BY QuietMoves DEF QueueStays

LEMMA UnchangedStays ==
  ASSUME QueueInv, UNCHANGED queueVars
  PROVE  QueueStays /\ CallersMove
<1>1. QueueInv'
  BY InvariantStep
<1> QED BY <1>1, NoMove DEF queueVars, QueueStays, CallersMove

LEMMA BeginStays ==
  ASSUME QueueInv, NEW c \in Caller, NEW ask \in Asked, BeginEnqueue(c, ask)
  PROVE  /\ QueueStays
         /\ \A d \in Caller : caller'[d].rev = IF d = c THEN ask.rev ELSE caller[d].rev
<1>1. \A d \in Caller : caller'[d].rev = IF d = c THEN ask.rev ELSE caller[d].rev
  BY DEF BeginEnqueue, QueueInv, CallersTyped
<1> QED BY <1>1, BeginStep, NoMove DEF BeginEnqueue, QueueStays

\* Who is in the fence, and whose row is locked.
LEMMA FenceStays ==
  ASSUME FenceInv, LockInv, RequestsStay, owner' = owner
  PROVE  FenceInv' /\ LockInv'
<1>1. \A m \in Lease : /\ request'[m] \in Fencing => request[m] \in Fencing
                       /\ request'[m] \in Owning <=> request[m] \in Owning
  BY DEF RequestsStay, Fencing
<1>2. FenceInv'
  BY <1>1 DEF FenceInv, RequestsStay
<1>3. LockInv'
  BY <1>1 DEF LockInv
<1> QED BY <1>2, <1>3

\* Attempts only grow, and rows are inserted without any.
LEMMA AbsentStays ==
  ASSUME AbsentInv, TableMoves
  PROVE  AbsentInv'
BY DEF AbsentInv, TableMoves, RowMove

LEMMA AttemptsGrow ==
  ASSUME QueueInv, QueueInv', TableMoves, NEW j \in Job, NEW n \in Nat, n <= jobs[j].attempts
  PROVE  n <= jobs'[j].attempts
<1>1. jobs[j].attempts \in Nat /\ jobs'[j].attempts \in Nat
  BY DEF QueueInv, RowsTyped, Row
<1> QED BY <1>1 DEF TableMoves, RowMove

LEMMA RequestsStaySent ==
  ASSUME QueueInv, SentInv, QueueInv', TableMoves,
         \A m \in Lease : request'[m] # "none" => request[m] # "none"
  PROVE  \A l \in Lease : request'[l] # "none" => l[2] <= jobs'[l[1]].attempts
<1> SUFFICES ASSUME NEW l \in Lease, request'[l] # "none" PROVE l[2] <= jobs'[l[1]].attempts
  OBVIOUS
<1>1. l[1] \in Job /\ l[2] \in Nat
  BY DEF Lease
<1>2. l[2] <= jobs[l[1]].attempts
  BY DEF SentInv
<1> QED BY <1>1, <1>2, AttemptsGrow

LEMMA SentStays ==
  ASSUME QueueInv, TypedInv, SentInv, QueueInv', TableMoves, WorkStays,
         \A m \in Lease : request'[m] # "none" => request[m] # "none"
  PROVE  SentInv'
<1>1. \A l \in Lease : request'[l] # "none" => l[2] <= jobs'[l[1]].attempts
  BY RequestsStaySent
<1>2. ASSUME worker'.pc # "idle" PROVE worker'.lease[2] <= jobs'[worker'.lease[1]].attempts
  <2>1. /\ worker.lease \in Lease /\ worker'.lease = worker.lease /\ worker.pc # "idle"
        /\ worker.lease[2] <= jobs[worker.lease[1]].attempts
    BY <1>2 DEF WorkStays, TypedInv, WorkerTyped, SentInv
  <2>2. worker.lease[1] \in Job /\ worker.lease[2] \in Nat
    BY <2>1 DEF Lease
  <2>3. worker.lease[2] <= jobs'[worker.lease[1]].attempts
    BY <2>1, <2>2, AttemptsGrow
  <2> QED BY <2>1, <2>3
<1>3. ASSUME worker'.pc = "segmenting" PROVE request'[worker'.lease] = "none"
  <2>1. worker.lease \in Lease /\ worker'.lease = worker.lease /\ worker.pc = "segmenting"
    BY <1>3 DEF WorkStays, TypedInv, WorkerTyped
  <2>2. request[worker.lease] = "none"
    BY <2>1 DEF SentInv
  <2> QED BY <2>1, <2>2
<1> QED BY <1>1, <1>2, <1>3 DEF SentInv

\* Revisions asked for.
LEMMA RevisionStays ==
  ASSUME QueueInv, TypedInv, RevisionInv, TypedInv', TableMoves,
         entry.rev <= entry'.rev,
         \A c \in Caller : asked'[c] <= entry'.rev /\ caller'[c].rev <= entry'.rev
  PROVE  RevisionInv'
<1>1. entry.rev \in Nat /\ entry'.rev \in Nat
  BY DEF TypedInv, EntryTyped
<1>2. /\ \A c \in Caller : caller[c].rev \in Nat
      /\ \A j \in Job : jobs[j].rev \in Nat
  BY DEF QueueInv, CallersTyped, RowsTyped, Row
<1>3. ASSUME NEW j \in Job PROVE jobs'[j].rev <= entry'.rev
  <2>1. PICK r \in Nat : jobs'[j].rev = r /\ r <= entry.rev
    BY <1>2 DEF TableMoves, RevisionInv
  <2> QED BY <1>1, <2>1
<1> QED BY <1>3 DEF RevisionInv

LEMMA AsksStayBehind ==
  ASSUME QueueInv, TypedInv, RevisionInv, TypedInv', TableMoves, AsksStay, entry.rev <= entry'.rev
  PROVE  RevisionInv'
<1>1. entry.rev \in Nat /\ entry'.rev \in Nat
  BY DEF TypedInv, EntryTyped
<1>2. \A c \in Caller : asked[c] \in Nat /\ caller[c].rev \in Nat
  BY DEF QueueInv, CallersTyped, TypedInv, EntryTyped
<1>3. ASSUME NEW c \in Caller PROVE asked'[c] <= entry'.rev /\ caller'[c].rev <= entry'.rev
  <2>1. asked[c] <= entry.rev /\ caller[c].rev <= entry.rev
    BY DEF RevisionInv
  <2>2. /\ asked'[c] = 0 \/ asked'[c] = asked[c]
        /\ caller'[c].rev = 0 \/ caller'[c].rev = caller[c].rev
    BY DEF AsksStay, CallersMove
  <2>3. asked'[c] <= entry'.rev
    BY <1>1, <1>2, <2>1, <2>2
  <2>4. caller'[c].rev <= entry'.rev
    BY <1>1, <1>2, <2>1, <2>2
  <2> QED BY <2>3, <2>4
<1> QED BY <1>3, RevisionStays

\* Frames.
LEMMA FramesStay ==
  ASSUME FramesInv, AnswersStay, UNCHANGED <<disk, staged>>
  PROVE  FramesInv'
BY DEF FramesInv, AnswersStay

\* The row of a publication under way, and what is published.
LEMMA OwnerIsLeased ==
  ASSUME QueueInv, LockInv, NEW l \in Lease, request[l] \in Owning
  PROVE  /\ l[1] \in Job /\ Locked(l[1]) /\ Leased(l[1])
         /\ jobs[l[1]].token = l[2] /\ jobs[l[1]].attempts = l[2]
BY DEF QueueInv, Owners, OwnerKeepsRow, LockInv, Locked, Lease

LEMMA MayPublishStays ==
  ASSUME NEW j \in Job, MayPublish(j), SameJob(jobs[j], jobs'[j]),
         entry'.rev = entry.rev, entry'.noObject = entry.noObject
  PROVE  MayPublish(j)'
BY DEF MayPublish, SameJob, Leased

\* A step that leaves the files and the annotation alone.
LEMMA PublishedStays ==
  ASSUME QueueInv, LockInv, PublishedInv, \A j \in Job : Locked(j) => SameJob(jobs[j], jobs'[j]),
         \A m \in Lease : request'[m] \in Publishing => request'[m] = request[m],
         UNCHANGED <<generation, announced, pointer>>,
         entry'.rev = entry.rev, entry'.noObject = entry.noObject, entry'.run = entry.run
  PROVE  PublishedInv'
<1> SUFFICES ASSUME NEW l \in Lease PROVE Published(l)'
  BY DEF PublishedInv
<1>0. Entered \subseteq Pointed /\ Pointed \subseteq Announced /\ Announced \subseteq Publishing
  BY DEF Entered, Pointed, Announced
<1>1. CASE request'[l] \in Publishing
  <2>1. request'[l] = request[l] /\ Published(l)
    BY <1>1 DEF PublishedInv
  <2>2. request[l] \in Owning
    BY <1>1, <2>1 DEF Publishing, Owning
  <2>3. l[1] \in Job /\ MayPublish(l[1]) /\ SameJob(jobs[l[1]], jobs'[l[1]])
    BY <1>1, <2>1, <2>2, OwnerIsLeased DEF Published
  <2>4. MayPublish(l[1])'
    BY <2>3, MayPublishStays
  <2> QED BY <2>1, <2>4 DEF Published
<1>2. CASE request'[l] \notin Publishing
  BY <1>0, <1>2 DEF Published
<1> QED BY <1>1, <1>2

\* A step that finds the fence free.
LEMMA NobodyPublishes ==
  ASSUME FenceFree, UNCHANGED request
  PROVE  /\ PublishedInv'
         /\ \A l \in Lease : request[l] \notin Fencing
<1>1. \A l \in Lease : request[l] \notin Fencing
  BY DEF FenceFree
<1>2. Publishing \subseteq Fencing /\ Announced \subseteq Fencing /\ Pointed \subseteq Fencing
      /\ Entered \subseteq Fencing
  BY DEF Publishing, Announced, Pointed, Entered, Fencing, Owning
<1>3. \A l \in Lease : request'[l] \notin Fencing
  BY <1>1
<1>4. ASSUME NEW l \in Lease PROVE Published(l)'
  BY <1>2, <1>3 DEF Published
<1> QED BY <1>1, <1>4 DEF PublishedInv

\* What is done stays complete while no one publishes or edits.
LEMMA CompleteStays ==
  ASSUME CompleteInv, \A j \in Job : RowMove(jobs[j], jobs'[j]),
         UNCHANGED <<generation, announced, indexed, pointer>>,
         entry'.rev = entry.rev, entry'.run = entry.run
  PROVE  CompleteInv'
BY DEF CompleteInv, Complete, RowMove

-----------------------------------------------------------------------------
(* Steps outside the fence: each keeps the invariant *)

\* A statement of the queue beside which nothing happens to entry and generations.
LEMMA AsideStep ==
  ASSUME PublishInv, TypedInv', QueueStays, AsksStay, RequestsStay, SentInv', FramesInv',
         UNCHANGED <<generation, announced, pointer, entry, indexed>>
  PROVE  PublishInv'
<1> USE DEF PublishInv, OrderInv, StoreInv, QueueStays
<1>1. FenceInv' /\ LockInv'
  BY FenceStays
<1>2. AbsentInv'
  BY AbsentStays
<1>3. RevisionInv'
  <2>1. entry.rev <= entry'.rev
    BY DEF TypedInv, EntryTyped
  <2> QED BY <2>1, AsksStayBehind
<1>4. PublishedInv'
  <2>1. \A m \in Lease : request'[m] \in Publishing => request'[m] = request[m]
    BY DEF RequestsStay, Publishing, Fencing, Owning
  <2>2. \A j \in Job : Locked(j) => SameJob(jobs[j], jobs'[j])
    BY DEF TableMoves
  <2> QED BY <2>1, <2>2, PublishedStays
<1>5. CompleteInv'
  <2>1. \A j \in Job : RowMove(jobs[j], jobs'[j])
    BY DEF TableMoves
  <2> QED BY <2>1, CompleteStays
<1> QED BY <1>1, <1>2, <1>3, <1>4, <1>5

\* The same when the worker goes no further either.
LEMMA BesideStep ==
  ASSUME PublishInv, TypedInv', QueueStays, AsksStay, RequestsStay, AnswersStay, WorkStays,
         UNCHANGED <<fileVars, entry, indexed>>
  PROVE  PublishInv'
<1> USE DEF PublishInv, OrderInv
<1>1. SentInv'
  <2>1. \A m \in Lease : request'[m] # "none" => request[m] # "none"
    BY DEF AnswersStay
  <2> QED BY <2>1, SentStays DEF QueueStays
<1>2. FramesInv'
  BY FramesStay DEF fileVars
<1> QED BY <1>1, <1>2, AsideStep DEF fileVars

\* The annotation changes under the free fence, and is a newer revision then.
LEMMA AnnotateStep ==
  ASSUME PublishInv, TypedInv', Edit \/ MarkNoObject
  PROVE  PublishInv'
<1> USE DEF PublishInv, OrderInv, StoreInv
<1>0. /\ UNCHANGED <<queueVars, fileVars, apiVars, indexed, worker>>
      /\ FenceFree /\ entry' .rev = entry.rev + 1
  BY DEF Edit, MarkNoObject, TypedInv, EntryTyped
<1>U. UNCHANGED <<disk, staged, generation, announced, pointer, request, completing, asked>>
  BY <1>0 DEF fileVars, apiVars
<1>E. entry.rev \in Nat /\ entry'.rev \in Nat /\ entry.rev <= entry'.rev
  BY <1>0 DEF TypedInv, EntryTyped
<1>Q. QueueStays /\ CallersMove
  BY <1>0, UnchangedStays
<1>1. FenceInv' /\ LockInv' /\ FramesInv'
  <2>1. RequestsStay /\ AnswersStay
    BY <1>U DEF RequestsStay, AnswersStay
  <2> QED BY <2>1, <1>U, <1>Q, FenceStays, FramesStay DEF QueueStays
<1>2. AbsentInv' /\ SentInv'
  BY <1>0, <1>U, <1>Q, AbsentStays, SentStays DEF QueueStays, WorkStays
<1>3. RevisionInv'
  <2>1. AsksStay
    BY <1>U, <1>Q DEF AsksStay
  <2> QED BY <2>1, <1>E, <1>Q, AsksStayBehind DEF QueueStays
<1>4. PublishedInv'
  BY <1>0, <1>U, NobodyPublishes
<1>5. CompleteInv'
  <2>1. ASSUME NEW j \in Job PROVE Complete(j)'
    <3>1. jobs'[j] = jobs[j] /\ indexed' = indexed
      BY <1>0 DEF queueVars
    <3>2. jobs[j].rev <= entry.rev /\ jobs[j].rev \in Nat
      BY DEF RevisionInv, QueueInv, RowsTyped, Row
    <3>3. entry'.rev # jobs'[j].rev
      BY <1>0, <1>E, <3>1, <3>2
    <3> QED BY <1>U, <3>1, <3>3 DEF CompleteInv, Complete
  <2> QED BY <2>1 DEF CompleteInv
<1> QED BY <1>Q, <1>1, <1>2, <1>3, <1>4, <1>5 DEF QueueStays

\* Frames are published for the revision of the annotation.
LEMMA FramesStep ==
  ASSUME PublishInv, TypedInv', PublishFrames
  PROVE  PublishInv'
<1> USE DEF PublishInv, OrderInv, StoreInv
<1>0. /\ UNCHANGED <<queueVars, staged, generation, announced, pointer, apiVars, entry, indexed, worker>>
      /\ disk' # 0
  BY DEF PublishFrames, TypedInv, EntryTyped
<1>U. UNCHANGED <<request, completing, asked>>
  BY <1>0 DEF apiVars
<1>Q. QueueStays /\ CallersMove
  BY <1>0, UnchangedStays
<1>1. FenceInv' /\ LockInv'
  <2>1. RequestsStay
    BY <1>U DEF RequestsStay
  <2> QED BY <2>1, <1>Q, FenceStays DEF QueueStays
<1>2. AbsentInv' /\ SentInv'
  BY <1>0, <1>U, <1>Q, AbsentStays, SentStays DEF QueueStays, WorkStays
<1>3. RevisionInv'
  <2>1. AsksStay
    BY <1>U, <1>Q DEF AsksStay
  <2>2. entry.rev <= entry'.rev
    BY <1>0 DEF TypedInv, EntryTyped
  <2> QED BY <2>1, <2>2, <1>Q, AsksStayBehind DEF QueueStays
<1>4. FramesInv'
  BY <1>0, <1>U DEF FramesInv
<1>5. PublishedInv'
  BY <1>0, <1>U, PublishedStays, <1>Q DEF QueueStays, TableMoves
<1>6. CompleteInv'
  BY <1>0, CompleteStays, <1>Q DEF QueueStays, TableMoves
<1> QED BY <1>Q, <1>1, <1>2, <1>3, <1>4, <1>5, <1>6 DEF QueueStays

\* An export is completed, a revision is read, and either may be asked for.
LEMMA AskStep ==
  ASSUME PublishInv, TypedInv', NEW c \in Caller,
         CompleteExport(c) \/ ReadEntry(c) \/ \E force \in BOOLEAN : AskManually(c, force)
  PROVE  PublishInv'
<1> USE DEF PublishInv, OrderInv, StoreInv
<1>0. /\ UNCHANGED <<fileVars, request, indexed, worker>>
      /\ entry'.rev = entry.rev /\ entry'.noObject = entry.noObject /\ entry'.run = entry.run
  BY DEF CompleteExport, ReadEntry, AskManually, TypedInv, EntryTyped
<1>U. UNCHANGED <<disk, staged, generation, announced, pointer>>
  BY <1>0 DEF fileVars
<1>E. /\ entry.rev \in Nat /\ asked[c] \in Nat /\ asked[c] <= entry.rev
      /\ \A d \in Caller : caller[d].rev <= entry.rev /\ asked[d] <= entry.rev
      /\ asked[c] # 0 => asked[c] \in Revision
      /\ entry.rev > 0 => entry.rev \in Revision
  BY Numbers DEF TypedInv, EntryTyped, RevisionInv, Revision
<1>1. /\ QueueStays
      /\ \A d \in Caller : asked'[d] <= entry'.rev /\ caller'[d].rev <= entry'.rev
  <2>1. CASE CompleteExport(c)
    <3>1. asked' = asked /\ entry.rev \in Revision
      BY <1>E, <2>1 DEF CompleteExport
    <3>2. CASE UNCHANGED queueVars
      <4>1. caller' = caller
        BY <3>2 DEF queueVars
      <4> QED BY <1>0, <1>E, <3>1, <3>2, <4>1, UnchangedStays
    <3>3. CASE BeginEnqueue(c, [rev |-> entry.rev, model |-> "default", force |-> FALSE])
      <4> DEFINE ask == [rev |-> entry.rev, model |-> "default", force |-> FALSE]
      <4>1. ask \in Asked /\ ask.rev = entry.rev
        BY <3>1 DEF Asked, Model
      <4> HIDE DEF ask
      <4>2. QueueStays /\ \A d \in Caller : caller'[d].rev = IF d = c THEN ask.rev ELSE caller[d].rev
        BY <3>3, <4>1, BeginStays DEF ask
      <4>3. \A d \in Caller : caller'[d].rev <= entry.rev
        BY <1>E, <4>1, <4>2
      <4> QED BY <1>0, <1>E, <3>1, <4>2, <4>3
    <3> QED BY <2>1, <3>2, <3>3 DEF CompleteExport
  <2>2. CASE ReadEntry(c)
    <3>1. UNCHANGED queueVars /\ caller' = caller
      BY <2>2 DEF ReadEntry, queueVars
    <3>2. \A d \in Caller : asked'[d] = IF d = c THEN entry.rev ELSE asked[d]
      BY <2>2 DEF ReadEntry, TypedInv, EntryTyped
    <3>3. \A d \in Caller : asked'[d] <= entry.rev
      BY <1>E, <3>2
    <3> QED BY <1>0, <1>E, <3>1, <3>3, UnchangedStays
  <2>3. ASSUME NEW force \in BOOLEAN, AskManually(c, force)
        PROVE  /\ QueueStays
               /\ \A d \in Caller : asked'[d] <= entry'.rev /\ caller'[d].rev <= entry'.rev
    <3> DEFINE ask == [rev |-> asked[c], model |-> "pinned", force |-> force]
    <3>1. ask \in Asked /\ ask.rev = asked[c]
      BY <1>E, <2>3 DEF AskManually, Asked, Model
    <3> HIDE DEF ask
    <3>2. QueueStays /\ \A d \in Caller : caller'[d].rev = IF d = c THEN ask.rev ELSE caller[d].rev
      BY <2>3, <3>1, BeginStays DEF AskManually, ask
    <3>3. \A d \in Caller : asked'[d] = IF d = c THEN 0 ELSE asked[d]
      BY <2>3 DEF AskManually, TypedInv, EntryTyped
    <3>4. \A d \in Caller : caller'[d].rev <= entry.rev
      BY <1>E, <3>1, <3>2
    <3>5. \A d \in Caller : asked'[d] <= entry.rev
      BY <1>E, <3>3
    <3> QED BY <1>0, <3>2, <3>4, <3>5
  <2> QED BY <2>1, <2>2, <2>3
<1>2. FenceInv' /\ LockInv' /\ FramesInv'
  <2>1. CASE completing' = completing
    <3>1. RequestsStay /\ AnswersStay
      BY <1>0, <2>1 DEF RequestsStay, AnswersStay
    <3> QED BY <1>1, <1>U, <3>1, FenceStays, FramesStay DEF QueueStays
  <2>2. CASE completing' # completing
    <3>1. FenceFree
      BY <2>2 DEF CompleteExport, ReadEntry, AskManually
    <3>2. FenceInv'
      BY <1>0, <3>1 DEF FenceFree, FenceInv
    <3>3. LockInv'
      BY <1>0, <1>1 DEF LockInv, QueueStays
    <3>4. FramesInv'
      BY <1>0, <1>U DEF FramesInv
    <3> QED BY <3>2, <3>3, <3>4
  <2> QED BY <2>1, <2>2
<1>3. AbsentInv' /\ SentInv'
  BY <1>0, <1>1, AbsentStays, SentStays DEF QueueStays, WorkStays
<1>4. RevisionInv'
  <2>1. entry.rev <= entry'.rev
    BY <1>0, <1>E
  <2> QED BY <1>1, <2>1, RevisionStays DEF QueueStays
<1>5. PublishedInv'
  BY <1>0, <1>U, <1>1, PublishedStays DEF QueueStays, TableMoves
<1>6. CompleteInv'
  BY <1>0, <1>U, <1>1, CompleteStays DEF QueueStays, TableMoves
<1> QED BY <1>1, <1>2, <1>3, <1>4, <1>5, <1>6 DEF QueueStays

\* The statements on the queue and on the event loop, and the worker.
LEMMA WorkStep ==
  ASSUME PublishInv, TypedInv', WorkNext \/ \E c \in Caller : EndEnqueue(c)
  PROVE  PublishInv'
<1> USE DEF PublishInv, OrderInv
\* A quiet statement, or none, of which the requests learn nothing.
<1>B. ASSUME QuietNext \/ UNCHANGED queueVars, UNCHANGED <<fileVars, entry, indexed>>,
             WorkStays, asked' = asked, completing' \subseteq completing,
             request' \in {request, Dropped}
      PROVE  PublishInv'
  <2>1. QueueStays /\ CallersMove
    BY <1>B, QuietStays, UnchangedStays
  <2>2. \A m \in Lease : \/ request'[m] = request[m]
                         \/ request[m] \in {"ended", "refused"} /\ request'[m] = "none"
    BY <1>B, DroppedRequests DEF TypedInv
  <2>3. RequestsStay /\ AnswersStay
    BY <1>B, <2>2 DEF RequestsStay, AnswersStay, Fencing, Owning
  <2>4. AsksStay
    BY <1>B, <2>1 DEF AsksStay
  <2> QED BY <1>B, <2>1, <2>3, <2>4, BesideStep
<1>0. worker' = worker \/ worker' = Resting => WorkStays
  BY DEF WorkStays, Resting
<1>1. ASSUME NEW c \in Caller, EndEnqueue(c) PROVE PublishInv'
  BY <1>0, <1>1, <1>B DEF EndEnqueue, QuietNext
<1>2. ASSUME CancelRoute PROVE PublishInv'
  BY <1>0, <1>2, <1>B DEF CancelRoute, QuietNext
<1>3. ASSUME CancelWaits \/ TakeWaits \/ BeatWaits PROVE PublishInv'
  BY <1>0, <1>3, <1>B DEF CancelWaits, TakeWaits, BeatWaits, LoopWaits
<1>4. ASSUME PollFails PROVE PublishInv'
  BY <1>0, <1>4, <1>B DEF PollFails, vars, apiVars
<1>5. ASSUME NEW j \in Job, LeaseExpires(j) PROVE PublishInv'
  BY <1>0, <1>5, <1>B DEF LeaseExpires, apiVars, QuietNext
<1>6. ASSUME NEW l \in Lease, NEW terminal \in {"error", "cancelled"}, AcceptFailure(l, terminal)
      PROVE  PublishInv'
  BY <1>0, <1>6, <1>B DEF AcceptFailure, QuietNext
<1>7. ASSUME NEW terminal \in {"error", "cancelled"}, Acknowledge(terminal) PROVE PublishInv'
  BY <1>0, <1>7, <1>B DEF Acknowledge
<1>8. ASSUME LeaveJob \/ CrashWorker PROVE PublishInv'
  BY <1>0, <1>8, <1>B DEF LeaveJob, CrashWorker, Unwritten
<1>9. ASSUME NEW l \in Lease, Beat(l) PROVE PublishInv'
  <2>1. worker'.pc = worker.pc /\ worker'.lease = worker.lease
    BY <1>9 DEF Beat, TypedInv, WorkerTyped
  <2>2. WorkStays
    BY <2>1 DEF WorkStays
  <2>3. QuietNext
    BY <1>9 DEF Beat, QuietNext
  <2> QED BY <1>9, <2>2, <2>3, <1>B DEF Beat
<1>10. ASSUME NextJob PROVE PublishInv'
  <2>0. UNCHANGED <<fileVars, asked, completing, request, entry, indexed>>
    BY <1>10 DEF NextJob
  <2>1. QueueStays /\ CallersMove
    BY <1>10, QuietStays DEF NextJob, QuietNext
  <2>2. RequestsStay /\ AnswersStay /\ AsksStay
    BY <2>0, <2>1 DEF RequestsStay, AnswersStay, AsksStay
  <2>3. CASE First = {}
    BY <1>10, <2>3, <1>0, <2>0, <2>1, <2>2, BesideStep DEF NextJob
  <2>4. CASE First # {}
    <3>1. PICK j \in First :
            worker' = [Resting EXCEPT !.pc = "segmenting", !.lease = <<j, jobs'[j].token>>]
      BY <1>10, <2>4 DEF NextJob
    <3>2. /\ j \in Job /\ <<j, jobs'[j].token>> \in Lease
          /\ jobs'[j].token = jobs[j].attempts + 1 /\ jobs'[j].attempts = jobs[j].attempts + 1
      BY <1>10, ClaimedLease DEF NextJob
    <3>3. worker'.lease = <<j, jobs'[j].token>>
      BY <3>1 DEF Resting
    <3>4. worker'.lease[1] = j /\ worker'.lease[2] = jobs'[j].token /\ worker'.lease \in Lease
      BY <3>2, <3>3
    <3>5. jobs[j].attempts \in Nat
      BY <3>2 DEF QueueInv, RowsTyped, Row
    <3>6. worker'.lease[2] <= jobs'[worker'.lease[1]].attempts
      BY <3>2, <3>4, <3>5
    <3>7. ~ (worker'.lease[2] <= jobs[worker'.lease[1]].attempts)
      BY <3>2, <3>4, <3>5
    <3>8. request'[worker'.lease] = "none"
      BY <2>0, <3>4, <3>7 DEF SentInv
    <3>9. \A l \in Lease : request'[l] # "none" => l[2] <= jobs'[l[1]].attempts
      BY <2>0, <2>1, RequestsStaySent DEF QueueStays
    <3>10. SentInv'
      BY <3>6, <3>8, <3>9 DEF SentInv
    <3>11. FramesInv'
      BY <2>0, <2>2, FramesStay DEF fileVars
    <3> QED BY <2>0, <2>1, <2>2, <3>10, <3>11, AsideStep DEF fileVars
  <2> QED BY <2>3, <2>4
<1>11. ASSUME Segment PROVE PublishInv'
  <2>0. UNCHANGED <<queueVars, disk, generation, announced, pointer, request, asked, completing,
                    entry, indexed, worker>>
    BY <1>11 DEF Segment, apiVars
  <2>1. QueueStays /\ CallersMove
    BY <2>0, UnchangedStays
  <2>2. RequestsStay /\ AsksStay
    BY <2>0, <2>1 DEF RequestsStay, AsksStay
  <2>3. SentInv'
    BY <1>0, <2>0, <2>1, SentStays DEF QueueStays
  <2>4. FramesInv'
    BY <1>11, <2>0 DEF Segment, FramesInv
  <2> QED BY <2>0, <2>1, <2>2, <2>3, <2>4, AsideStep
<1>12. ASSUME PostDone PROVE PublishInv'
  <2>0. UNCHANGED <<queueVars, fileVars, asked, completing, entry, indexed>>
    BY <1>12 DEF PostDone
  <2>1. QueueStays /\ CallersMove
    BY <2>0, UnchangedStays
  <2>2. /\ worker.lease \in Lease /\ request[worker.lease] = "none"
        /\ worker.lease[2] <= jobs[worker.lease[1]].attempts
        /\ worker'.pc = "posted" /\ worker'.lease = worker.lease
        /\ staged[worker.lease] # 0
    BY <1>12 DEF PostDone, TypedInv, WorkerTyped, SentInv
  <2>3. \A m \in Lease : request'[m] = IF m = worker.lease THEN "sent" ELSE request[m]
    BY <1>12, <2>2 DEF PostDone, TypedInv, RequestsTyped
  <2>4. RequestsStay /\ AsksStay
    BY <2>0, <2>1, <2>2, <2>3 DEF RequestsStay, AsksStay, Fencing, Owning
  <2>5. SentInv'
    BY <2>0, <2>2, <2>3 DEF SentInv, queueVars
  <2>6. FramesInv'
    BY <2>0, <2>2, <2>3 DEF FramesInv, fileVars
  <2> QED BY <2>0, <2>1, <2>4, <2>5, <2>6, AsideStep DEF fileVars
<1> QED BY <1>1, <1>2, <1>3, <1>4, <1>5, <1>6, <1>7, <1>8, <1>9, <1>10, <1>11, <1>12
        DEF WorkNext, Work

-----------------------------------------------------------------------------
(* The result of a lease: each step keeps the invariant *)

\* The request of one lease goes on, the others stay.
Goes(l, to) == \A m \in Lease : request'[m] = IF m = l THEN to ELSE request[m]

\* No row comes or goes, none is claimed.
RowsStay == \A j \in Job : /\ jobs'[j].attempts = jobs[j].attempts
                           /\ jobs'[j].rev = jobs[j].rev
                           /\ jobs'[j].state = "absent" => jobs[j].state = "absent"

\* Only the request in the fence is at work.
LEMMA OrderInside ==
  ASSUME PublishInv, NEW l \in Lease, NEW to, Goes(l, to),
         request[l] \in Fencing, LockInv', RowsStay,
         UNCHANGED <<disk, asked, completing, caller, worker>>, entry'.rev = entry.rev,
         \A m \in Lease : staged'[m] \in {0, staged[m]}
  PROVE  OrderInv'
<1> USE DEF PublishInv, OrderInv, Goes
<1>1. FenceInv'
  BY DEF FenceInv
<1>2. AbsentInv'
  BY DEF AbsentInv, RowsStay
<1>3. SentInv'
  <2>1. request[l] # "none"
    BY DEF Fencing, Owning
  <2>2. \A m \in Lease : request'[m] # "none" => m[2] <= jobs'[m[1]].attempts
    BY <2>1 DEF SentInv, RowsStay, Lease
  <2>3. worker'.pc # "idle" => worker'.lease[2] <= jobs'[worker'.lease[1]].attempts
    <3>1. worker.pc # "idle" => worker.lease[1] \in Job
      BY DEF TypedInv, WorkerTyped, Lease
    <3> QED BY <3>1 DEF SentInv, RowsStay
  <2>4. worker'.pc = "segmenting" => request'[worker'.lease] = "none"
    BY <2>1 DEF SentInv, TypedInv, WorkerTyped
  <2> QED BY <2>2, <2>3, <2>4 DEF SentInv
<1>4. RevisionInv'
  BY DEF RevisionInv, RowsStay
<1>5. FramesInv'
  <2>1. request[l] \notin {"none", "ended", "refused"}
    BY DEF Fencing, Owning
  <2>2. disk # 0
    BY <2>1 DEF FramesInv
  <2> QED BY <2>2 DEF FramesInv
<1> QED BY <1>1, <1>2, <1>3, <1>4, <1>5

\* The others have published nothing.
LEMMA PublishedAlone ==
  ASSUME FenceInv, NEW l \in Lease, NEW to, Goes(l, to), request[l] \in Fencing, Published(l)'
  PROVE  PublishedInv'
<1>1. Publishing \subseteq Fencing /\ Announced \subseteq Fencing /\ Pointed \subseteq Fencing
      /\ Entered \subseteq Fencing
  BY DEF Publishing, Announced, Pointed, Entered, Fencing, Owning
<1>2. ASSUME NEW m \in Lease, m # l PROVE Published(m)'
  <2>1. request'[m] = request[m] /\ request[m] \notin Fencing
    BY <1>2 DEF Goes, FenceInv
  <2> QED BY <1>1, <2>1 DEF Published
<1> QED BY <1>2 DEF PublishedInv

\* A request that has published nothing yet, or nothing any more.
LEMMA NothingPublished ==
  ASSUME NEW l \in Lease, NEW to, Goes(l, to), to \notin Publishing
  PROVE  Published(l)'
BY DEF Goes, Published, Publishing, Announced, Pointed, Entered

\* No statement of the queue.
LEMMA RowsSame ==
  ASSUME PublishInv, UNCHANGED queueVars
  PROVE  /\ QueueInv' /\ RowsStay /\ jobs' = jobs /\ owner' = owner /\ caller' = caller
         /\ \A j \in Job : RowMove(jobs[j], jobs'[j])
BY UnchangedStays DEF PublishInv, queueVars, RowsStay, QueueStays, TableMoves

\* Within owned_lease, or outside of it, no lock changes hands.
LEMMA LockStays ==
  ASSUME LockInv, NEW l \in Lease, NEW to, Goes(l, to), owner' = owner,
         request[l] \in Owning <=> to \in Owning
  PROVE  LockInv'
BY DEF LockInv, Goes

\* A step of the request in the fence that writes nothing, and says nothing to the queue.
LEMMA SilentStep ==
  ASSUME PublishInv, TypedInv', NEW l \in Lease, NEW to, Goes(l, to),
         request[l] \in Fencing, to \notin Publishing \ {"commit"},
         to = "commit" => request[l] = "written",
         request[l] \in Owning <=> to \in Owning,
         UNCHANGED queueVars, Unwritten, UNCHANGED <<asked, completing, worker>>
  PROVE  PublishInv'
<1> USE DEF PublishInv, StoreInv
<1>0. /\ UNCHANGED <<disk, staged, generation, announced, pointer, entry, indexed>>
      /\ QueueInv' /\ RowsStay /\ jobs' = jobs /\ owner' = owner /\ caller' = caller
      /\ \A j \in Job : RowMove(jobs[j], jobs'[j])
  BY RowsSame DEF Unwritten, fileVars
<1>1. OrderInv'
  <2>1. LockInv'
    BY <1>0, LockStays DEF OrderInv
  <2> QED BY <1>0, <2>1, OrderInside
<1>2. Published(l)'
  <2>1. CASE to = "commit"
    <3>1. request[l] = "written" /\ request'[l] = "commit" /\ Published(l)
      BY <2>1 DEF Goes, PublishedInv
    <3>2. MayPublish(l[1])' = MayPublish(l[1])
      BY <1>0 DEF MayPublish, Leased
    <3> QED BY <1>0, <3>1, <3>2 DEF Published, Publishing, Announced, Pointed, Entered
  <2>2. CASE to # "commit"
    BY <2>2, NothingPublished
  <2> QED BY <2>1, <2>2
<1>3. PublishedInv'
  BY <1>2, PublishedAlone DEF OrderInv
<1>4. CompleteInv'
  BY <1>0, CompleteStays
<1> QED BY <1>0, <1>1, <1>3, <1>4

\* The lease is known, and the fence taken when it is free.
LEMMA EnterStep ==
  ASSUME PublishInv, TypedInv', NEW l \in Lease, KnowLease(l) \/ EnterFence(l)
  PROVE  PublishInv'
<1> USE DEF PublishInv, OrderInv, StoreInv
<1>0. /\ UNCHANGED <<disk, staged, generation, announced, pointer, entry, indexed, asked,
                     completing, worker>>
      /\ RequestsTyped
  BY DEF KnowLease, EnterFence, Unwritten, Elsewhere, fileVars, TypedInv
<1>1. CASE KnowLease(l)
  <2>1. QueueStays /\ CallersMove
    BY <1>1, QuietStays DEF KnowLease, QuietNext
  <2>2. PICK to \in {"known", "refused", "none"} : request[l] = "sent" /\ Goes(l, to)
    BY <1>0, <1>1 DEF KnowLease, Answer, Advance, Goes, RequestsTyped
  <2>3. RequestsStay /\ AsksStay
    BY <1>0, <2>1, <2>2 DEF RequestsStay, AsksStay, Goes, Fencing, Owning
  <2>4. SentInv'
    BY <1>0, <2>1, <2>2, SentStays DEF QueueStays, WorkStays, Goes
  <2>5. FramesInv'
    BY <1>0, <2>2 DEF FramesInv, Goes
  <2> QED BY <1>0, <2>1, <2>3, <2>4, <2>5, AsideStep
<1>2. CASE EnterFence(l)
  <2>0. UNCHANGED queueVars /\ FenceFree /\ request[l] = "known" /\ Goes(l, "fenced")
    BY <1>0, <1>2 DEF EnterFence, Advance, Goes, RequestsTyped
  <2>1. /\ QueueInv' /\ RowsStay /\ jobs' = jobs /\ owner' = owner /\ caller' = caller
        /\ \A j \in Job : RowMove(jobs[j], jobs'[j])
    BY <2>0, RowsSame
  <2>2. completing = {} /\ \A m \in Lease : request[m] \notin Fencing
    BY <2>0 DEF FenceFree
  <2>3. FenceInv'
    BY <1>0, <2>0, <2>2 DEF FenceInv, Goes
  <2>4. LockInv'
    BY <2>0, <2>1, LockStays DEF Owning
  <2>5. AbsentInv' /\ RevisionInv'
    BY <1>0, <2>1 DEF AbsentInv, RevisionInv
  <2>6. SentInv'
    BY <1>0, <2>0, <2>1 DEF SentInv, Goes, TypedInv, WorkerTyped
  <2>7. FramesInv'
    BY <1>0, <2>0 DEF FramesInv, Goes
  <2>8. PublishedInv'
    <3>1. \A m \in Lease : request'[m] \notin Publishing
      BY <2>0, <2>2 DEF Goes, Publishing, Fencing, Owning
    <3>2. Announced \subseteq Publishing /\ Pointed \subseteq Publishing /\ Entered \subseteq Publishing
      BY DEF Announced, Pointed, Entered
    <3> QED BY <3>1, <3>2 DEF PublishedInv, Published
  <2>9. CompleteInv'
    BY <1>0, <2>1, CompleteStays
  <2> QED BY <2>1, <2>3, <2>4, <2>5, <2>6, <2>7, <2>8, <2>9
<1> QED BY <1>1, <1>2

\* The row is locked for the request: it is leased, and nobody else's.
LEMMA OwnStep ==
  ASSUME PublishInv, TypedInv', NEW l \in Lease, EnterLease(l)
  PROVE  PublishInv'
<1> USE DEF PublishInv, OrderInv, StoreInv
<1>0. /\ UNCHANGED <<disk, staged, generation, announced, pointer, entry, indexed, asked,
                     completing, worker>>
      /\ RequestsTyped /\ Unwritten
  BY DEF EnterLease, Unwritten, Elsewhere, fileVars, TypedInv
<1>1. CASE Advance(l, "fenced", "refusing") /\ UNCHANGED queueVars
  <2>1. request[l] = "fenced" /\ Goes(l, "refusing")
    BY <1>0, <1>1 DEF Advance, Goes, RequestsTyped
  <2> QED BY <1>0, <1>1, <2>1, SilentStep DEF Fencing, Owning, Publishing
<1>2. CASE OwnLease(l) /\ Advance(l, "fenced", "owned")
  <2>0. request[l] = "fenced" /\ Goes(l, "owned")
    BY <1>0, <1>2 DEF Advance, Goes, RequestsTyped
  <2>1. QueueInv'
    BY <1>2, InvariantStep DEF QueueNext
  <2>2. jobs' = jobs /\ caller' = caller /\ ~ Locked(l[1])
    BY <1>2 DEF OwnLease
  <2>3. RowsStay /\ \A j \in Job : RowMove(jobs[j], jobs'[j])
    BY <2>2, RowMoves DEF RowsStay, QueueInv, RowsTyped
  <2>4. LockInv'
    <3>1. \A j \in Job : owner'[j] = IF j = l[1] THEN l[2] ELSE owner[j]
      BY <1>2 DEF OwnLease, QueueInv, Owners
    <3>2. ASSUME NEW m \in Lease PROVE owner'[m[1]] = m[2] <=> request'[m] \in Owning
      <4>1. m[1] \in Job /\ m[2] # 0 /\ (m # l => m[1] # l[1] \/ m[2] # l[2])
        BY DEF Lease
      <4>2. CASE m = l
        BY <2>0, <3>1, <4>1, <4>2 DEF Goes, Owning
      <4>3. CASE m # l /\ m[1] = l[1]
        <5>1. request[m] \notin Owning
          BY <2>2, <4>1, <4>3 DEF LockInv, Locked
        <5> QED BY <2>0, <3>1, <4>1, <4>3, <5>1 DEF Goes
      <4>4. CASE m[1] # l[1]
        BY <2>0, <3>1, <4>1, <4>4 DEF Goes, LockInv
      <4> QED BY <4>2, <4>3, <4>4
    <3> QED BY <3>2 DEF LockInv
  <2>5. OrderInv'
    BY <1>0, <2>0, <2>2, <2>3, <2>4, OrderInside DEF Fencing
  <2>6. PublishedInv'
    <3>1. Published(l)'
      BY <2>0, NothingPublished DEF Publishing
    <3> QED BY <2>0, <3>1, PublishedAlone DEF Fencing
  <2>7. CompleteInv'
    BY <1>0, <2>3, CompleteStays
  <2> QED BY <2>1, <2>5, <2>6, <2>7
<1> QED BY <1>1, <1>2 DEF EnterLease

\* The generation is placed, announced and pointed to, and the entry written.
LEMMA StoreStep ==
  ASSUME PublishInv, TypedInv', NEW l \in Lease,
         Place(l) \/ Announce(l) \/ SwitchPointer(l) \/ WriteEntry(l)
  PROVE  PublishInv'
<1> USE DEF PublishInv, OrderInv, StoreInv
<1>0. /\ UNCHANGED <<queueVars, disk, indexed, asked, completing, worker>>
      /\ entry'.rev = entry.rev /\ entry'.noObject = entry.noObject
      /\ l[1] \in Job /\ RequestsTyped
      /\ entry \in [rev: 0..MaxRevision, noObject: BOOLEAN, export: 0..MaxRevision,
                    run: Job \cup {0}]
  BY DEF Place, Announce, SwitchPointer, WriteEntry, Elsewhere, TypedInv, EntryTyped, fileVars, Lease
<1>1. /\ QueueInv' /\ RowsStay /\ jobs' = jobs /\ owner' = owner /\ caller' = caller
      /\ \A j \in Job : RowMove(jobs[j], jobs'[j])
  BY <1>0, RowsSame
<1>2. PICK to \in RequestState :
        /\ Goes(l, to) /\ request[l] \in {"owned", "placed", "announced", "pointed"}
        /\ to \in {"placed", "announced", "pointed", "written", "rollback"}
  BY <1>0 DEF Place, Announce, SwitchPointer, WriteEntry, Advance, Goes, RequestsTyped,
              RequestState, Fencing, Owning
<1>3. request[l] \in Owning /\ request[l] \in Fencing /\ to \in Owning
  BY <1>2 DEF Owning, Fencing
<1>4. OrderInv'
  <2>1. \A m \in Lease : staged'[m] \in {0, staged[m]}
    BY DEF Place, Announce, SwitchPointer, WriteEntry, fileVars, TypedInv, FilesTyped
  <2>2. LockInv'
    BY <1>1, <1>2, <1>3, LockStays
  <2> QED BY <1>0, <1>1, <1>2, <1>3, <2>1, <2>2, OrderInside
<1>5. /\ Leased(l[1]) /\ jobs[l[1]].state # "done"
      /\ request'[l] = to
      /\ MayPublish(l[1])' = MayPublish(l[1])
      /\ Published(l)
  BY <1>0, <1>1, <1>2, <1>3, OwnerIsLeased DEF Leased, MayPublish, Goes, PublishedInv
<1>6. ASSUME Published(l)', CompleteInv' PROVE PublishInv'
  BY <1>1, <1>2, <1>3, <1>4, <1>6, PublishedAlone
<1>7. CASE Place(l)
  <2>0. /\ request[l] = "owned" /\ to = "placed" /\ ~ Stale(l[1])
        /\ UNCHANGED <<announced, pointer, entry>>
    BY <1>2, <1>7 DEF Place, Advance, Goes, RequestsTyped, TypedInv
  <2>1. disk # 0
    BY <2>0 DEF FramesInv
  <2>2. /\ \A j \in Job : generation[j].frames # 0 => generation'[j] = generation[j]
        /\ generation'[l[1]].frames # 0
    BY <1>0, <1>7, <2>1 DEF Place, TypedInv, FilesTyped
  <2>3. Published(l)'
    <3>1. MayPublish(l[1])
      BY <1>5, <2>0 DEF Stale, Matches, MayPublish
    <3> QED BY <1>5, <2>0, <2>2, <3>1 DEF Published, Announced, Pointed, Entered
  <2>4. CompleteInv'
    BY <1>0, <1>1, <2>0, <2>2 DEF CompleteInv, Complete
  <2> QED BY <1>6, <2>3, <2>4
<1>8. CASE Announce(l)
  <2>0. /\ request[l] = "placed" /\ to = "announced" /\ announced' = announced \cup {l[1]}
        /\ UNCHANGED <<generation, pointer, entry>>
    BY <1>2, <1>8 DEF Announce, Advance, Goes, RequestsTyped, TypedInv
  <2>1. Published(l)'
    BY <1>5, <2>0 DEF Published, Publishing, Announced, Pointed, Entered
  <2>2. CompleteInv'
    BY <1>0, <1>1, <2>0 DEF CompleteInv, Complete
  <2> QED BY <1>6, <2>1, <2>2
<1>9. CASE SwitchPointer(l)
  <2>0. /\ request[l] = "announced" /\ to = "pointed" /\ pointer' = l[1]
        /\ UNCHANGED <<generation, announced, entry>>
    BY <1>2, <1>9 DEF SwitchPointer, Advance, Goes, RequestsTyped, TypedInv
  <2>1. Published(l)'
    BY <1>5, <2>0 DEF Published, Publishing, Announced, Pointed, Entered
  <2>2. CompleteInv'
    BY <1>0, <1>1, <1>5, <2>0 DEF CompleteInv, Complete
  <2> QED BY <1>6, <2>1, <2>2
<1>10. CASE WriteEntry(l)
  <2>0. /\ request[l] = "pointed" /\ to = IF Matches(l[1]) THEN "written" ELSE "rollback"
        /\ UNCHANGED <<generation, announced, pointer>>
        /\ entry' = IF Matches(l[1]) THEN [entry EXCEPT !.run = l[1]] ELSE entry
    BY <1>2, <1>10 DEF WriteEntry, Advance, Goes, RequestsTyped, TypedInv, fileVars
  <2>1. MayPublish(l[1]) /\ Matches(l[1]) /\ pointer = l[1]
    BY <1>5, <2>0 DEF Published, Publishing, Pointed, Announced, MayPublish, Matches
  <2>2. entry'.run = l[1] /\ to = "written"
    BY <1>0, <2>0, <2>1
  <2>3. Published(l)'
    BY <1>5, <2>0, <2>1, <2>2 DEF Published, Publishing, Announced, Pointed, Entered
  <2>4. CompleteInv'
    BY <1>0, <1>1, <1>5, <2>0, <2>1 DEF CompleteInv, Complete
  <2> QED BY <1>6, <2>3, <2>4
<1> QED BY <1>7, <1>8, <1>9, <1>10

\* owned_lease ends: the row is done when everything else is, or it is withdrawn, or
\* the next attempt goes on with what this one left.
LEMMA LeaveStep ==
  ASSUME PublishInv, TypedInv', NEW l \in Lease, LeaveLease(l)
  PROVE  PublishInv'
<1> USE DEF PublishInv, OrderInv, StoreInv
<1>0. /\ UNCHANGED <<disk, staged, generation, announced, pointer, entry, asked,
                     completing, worker>>
      /\ l[1] \in Job /\ RequestsTyped
      /\ jobs \in [Job -> Row] /\ owner \in [Job -> 0..MaxAttempts]
  BY DEF LeaveLease, Elsewhere, TypedInv, fileVars, Lease, QueueInv, RowsTyped, Owners
<1>1. PICK to \in {"leaving", "refusing"} :
        Goes(l, to) /\ request[l] \in {"commit", "withdraw", "rollback"}
  BY <1>0 DEF LeaveLease, Advance, Goes, RequestsTyped
<1>2. QueueInv'
  <2>1. QueueNext
    BY DEF LeaveLease, QueueNext
  <2> QED BY <2>1, InvariantStep
<1>3. owner' = [owner EXCEPT ![l[1]] = 0] /\ owner[l[1]] = l[2] /\ caller' = caller
  BY DEF LeaveLease, CommitOwned, RollbackOwned
<1>4. LockInv'
  <2>1. ASSUME NEW m \in Lease PROVE owner'[m[1]] = m[2] <=> request'[m] \in Owning
    <3>1. m[1] \in Job /\ m[2] # 0 /\ (m # l => m[1] # l[1] \/ m[2] # l[2])
      BY DEF Lease
    <3>2. \A j \in Job : owner'[j] = IF j = l[1] THEN 0 ELSE owner[j]
      BY <1>0, <1>3
    <3>3. CASE m = l
      BY <1>0, <1>1, <3>1, <3>2, <3>3 DEF Goes, Owning
    <3>4. CASE m # l
      <4>1. request'[m] = request[m] /\ (owner[m[1]] = m[2] <=> request[m] \in Owning)
        BY <1>1, <3>4 DEF Goes, LockInv
      <4> QED BY <1>3, <3>1, <3>2, <3>4, <4>1
    <3> QED BY <3>3, <3>4
  <2> QED BY <2>1 DEF LockInv
\* What is written of the row.
<1>5. PICK terminal \in {"done", "cancelled"} :
        /\ jobs' = [jobs EXCEPT ![l[1]] = Finished(@, terminal)] \/ jobs' = jobs
        /\ terminal = "done" => request[l] = "commit" /\ indexed' = indexed \cup {l[1]}
        /\ terminal # "done" => indexed' = indexed
  BY <1>0, <1>1 DEF LeaveLease, CommitOwned, RollbackOwned, Advance
<1>6. /\ Finished(jobs[l[1]], terminal).attempts = jobs[l[1]].attempts
      /\ Finished(jobs[l[1]], terminal).rev = jobs[l[1]].rev
      /\ Finished(jobs[l[1]], terminal).state \in {"done", "cancelled"}
      /\ Finished(jobs[l[1]], terminal).state = "done" => terminal = "done"
  BY <1>0 DEF Finished, Released, Row
<1>7. RowsStay
  BY <1>0, <1>5, <1>6 DEF RowsStay
<1>8. OrderInv'
  BY <1>0, <1>1, <1>3, <1>4, <1>7, OrderInside DEF Fencing, Owning
<1>9. PublishedInv'
  <2>1. Published(l)'
    BY <1>1, NothingPublished DEF Publishing
  <2> QED BY <1>1, <2>1, PublishedAlone DEF Fencing, Owning
<1>10. CompleteInv'
  <2>1. ASSUME NEW j \in Job, j # l[1] PROVE Complete(j)'
    <3>1. jobs'[j] = jobs[j] /\ indexed \subseteq indexed'
      BY <1>0, <1>5, <2>1
    <3> QED BY <1>0, <3>1 DEF CompleteInv, Complete
  <2>2. Complete(l[1])'
    <3>1. jobs[l[1]].state # "done"
      BY <1>1, OwnerIsLeased DEF Leased, Owning
    <3>2. CASE jobs'[l[1]].state = "done"
      <4>1. terminal = "done"
        BY <1>0, <1>5, <1>6, <3>1, <3>2
      <4>2. request[l] = "commit" /\ l[1] \in indexed'
        BY <1>5, <4>1
      <4>3. generation[l[1]].frames # 0 /\ l[1] \in announced /\ entry.run = l[1]
        BY <4>2 DEF PublishedInv, Published, Publishing, Announced, Pointed, Entered
      <4> QED BY <1>0, <4>2, <4>3 DEF Complete
    <3>3. CASE jobs'[l[1]].state # "done"
      BY <3>3 DEF Complete
    <3> QED BY <3>2, <3>3
  <2> QED BY <2>1, <2>2 DEF CompleteInv
<1> QED BY <1>2, <1>8, <1>9, <1>10

\* The steps of the request in the fence that write nothing.
LEMMA QuietResultStep ==
  ASSUME PublishInv, TypedInv', NEW l \in Lease,
         \/ WithdrawStale(l) \/ RefuseGeneration(l) \/ FinishOwned(l) \/ LeaveFence(l)
         \/ RequestRaises(l)
  PROVE  PublishInv'
<1>0. /\ UNCHANGED queueVars /\ Unwritten /\ UNCHANGED <<asked, completing, worker>>
      /\ RequestsTyped
  BY DEF WithdrawStale, RefuseGeneration, FinishOwned, LeaveFence, RequestRaises, Elsewhere,
         PublishInv, TypedInv
<1>1. PICK to \in RequestState :
        /\ Goes(l, to) /\ request[l] \in Fencing
        /\ to \notin Publishing \ {"commit"} /\ (to = "commit" => request[l] = "written")
        /\ request[l] \in Owning <=> to \in Owning
  <2>1. CASE WithdrawStale(l)
    BY <1>0, <2>1 DEF WithdrawStale, Advance, Goes, RequestsTyped, RequestState, Fencing, Owning,
                      Publishing
  <2>2. CASE RefuseGeneration(l)
    BY <1>0, <2>2 DEF RefuseGeneration, Advance, Goes, RequestsTyped, RequestState, Fencing,
                      Owning, Publishing
  <2>3. CASE FinishOwned(l)
    BY <1>0, <2>3 DEF FinishOwned, Advance, Goes, RequestsTyped, RequestState, Fencing, Owning,
                      Publishing
  <2>4. CASE LeaveFence(l)
    BY <1>0, <2>4 DEF LeaveFence, Answer, Advance, Goes, RequestsTyped, RequestState, Fencing,
                      Owning, Publishing
  <2>5. CASE RequestRaises(l)
    BY <1>0, <2>5 DEF RequestRaises, Goes, RequestsTyped, RequestState, Fencing, Owning, Publishing
  <2> QED BY <2>1, <2>2, <2>3, <2>4, <2>5
<1> QED BY <1>0, <1>1, SilentStep

\* The API process ends: no request, no call and no lock survives it.
LEMMA RestartStep ==
  ASSUME PublishInv, TypedInv', RestartApi
  PROVE  PublishInv'
<1> USE DEF PublishInv, OrderInv, StoreInv
<1>0. /\ UNCHANGED <<disk, staged, generation, announced, pointer, entry, indexed, jobs, clock,
                     worker>>
      /\ owner' = [j \in Job |-> 0] /\ caller' = [c \in Caller |-> Idle]
      /\ asked' = [c \in Caller |-> 0] /\ completing' = {}
      /\ \A m \in Lease : request'[m] \in {"none", "refused"}
      /\ \A m \in Lease : request'[m] # "none" => worker.pc = "posted" /\ worker.lease = m
  BY DEF RestartApi, Unwritten, fileVars
<1>1. QueueInv'
  <2>1. RowsTyped' /\ OneLiveJob' /\ Known' = Known
    BY <1>0 DEF QueueInv, RowsTyped, OneLiveJob, Pending, Leased, Known
  <2>2. CallersTyped'
    BY <1>0, Numbers DEF QueueInv, CallersTyped, Idle, Model
  <2>3. Stamps'
    <3>1. \A c \in Caller : caller'[c] = Idle /\ Idle.created <= clock'
      BY <1>0 DEF QueueInv, CallersTyped, Idle
    <3> QED BY <1>0, <2>1, <3>1 DEF QueueInv, Stamps
  <2>4. Owners'
    BY <1>0, Numbers DEF Owners, OwnerKeepsRow, Locked
  <2> QED BY <2>1, <2>2, <2>3, <2>4 DEF QueueInv
<1>2. /\ Publishing \cap {"none", "refused"} = {} /\ Fencing \cap {"none", "refused"} = {}
      /\ Owning \cap {"none", "refused"} = {}
      /\ Announced \subseteq Publishing /\ Pointed \subseteq Publishing /\ Entered \subseteq Publishing
  BY DEF Publishing, Fencing, Owning, Announced, Pointed, Entered
<1>3. FenceInv' /\ PublishedInv'
  BY <1>0, <1>2 DEF FenceInv, PublishedInv, Published
<1>4. LockInv'
  BY <1>0, <1>2 DEF LockInv, Lease
<1>5. AbsentInv' /\ FramesInv'
  BY <1>0 DEF AbsentInv, FramesInv
<1>6. SentInv'
  BY <1>0 DEF SentInv, TypedInv, WorkerTyped
<1>7. RevisionInv'
  BY <1>0 DEF RevisionInv, TypedInv, EntryTyped, Idle
<1>8. CompleteInv'
  BY <1>0 DEF CompleteInv, Complete
<1> QED BY <1>1, <1>3, <1>4, <1>5, <1>6, <1>7, <1>8

-----------------------------------------------------------------------------
(* The invariant *)

LEMMA PublishInit == Init => PublishInv
<1> SUFFICES ASSUME Init PROVE PublishInv
  OBVIOUS
<1>1. QueueInv
  BY QueueInitInv DEF Init
<1>2. EntryTyped /\ FilesTyped
  BY Numbers DEF Init, EntryTyped, FilesTyped
<1>3. RequestsTyped /\ WorkerTyped
  BY Numbers DEF Init, RequestsTyped, RequestState, WorkerTyped, Resting
<1>4. /\ \A l \in Lease : request[l] = "none" /\ staged[l] = 0 /\ l[1] \in Job /\ l[2] # 0
      /\ \A j \in Job : jobs[j] = AbsentRow /\ owner[j] = 0
      /\ \A c \in Caller : caller[c] = Idle /\ asked[c] = 0
      /\ worker.pc = "idle" /\ entry.rev = 0
  BY DEF Init, QueueInit, Resting, Lease
<1>5. FenceInv /\ LockInv /\ AbsentInv /\ SentInv /\ RevisionInv /\ FramesInv
  BY <1>4 DEF FenceInv, LockInv, AbsentInv, SentInv, RevisionInv, FramesInv, Fencing, Owning,
              AbsentRow, Idle
<1>6. PublishedInv /\ CompleteInv
  BY <1>4 DEF PublishedInv, Published, Publishing, Announced, Pointed, Entered, CompleteInv,
              Complete, AbsentRow
<1> QED BY <1>1, <1>2, <1>3, <1>5, <1>6 DEF PublishInv, TypedInv, OrderInv, StoreInv

LEMMA PublishStep == PublishInv /\ [Next]_vars => PublishInv'
<1> SUFFICES ASSUME PublishInv, [Next]_vars PROVE PublishInv'
  OBVIOUS
<1>0. TypedInv'
  BY TypedStep DEF PublishInv
<1>1. CASE UNCHANGED vars
  <2>1. PollFails \/ UNCHANGED vars
    BY <1>1
  <2>2. UNCHANGED <<queueVars, fileVars, entry, indexed, asked, completing, request, worker>>
    BY <1>1 DEF vars, apiVars
  <2>3. QueueStays /\ CallersMove
    BY <2>2, UnchangedStays DEF PublishInv
  <2>4. AsksStay /\ RequestsStay /\ AnswersStay /\ WorkStays
    BY <2>2, <2>3 DEF AsksStay, RequestsStay, AnswersStay, WorkStays
  <2> QED BY <1>0, <2>2, <2>3, <2>4, BesideStep
<1>2. CASE Edit \/ MarkNoObject \/ PublishFrames
  BY <1>0, <1>2, AnnotateStep, FramesStep
<1>3. CASE WorkNext
  BY <1>0, <1>3, WorkStep
<1>4. ASSUME NEW c \in Caller, Submit(c) PROVE PublishInv'
  BY <1>0, <1>4, AskStep, WorkStep DEF Submit
<1>5. ASSUME NEW l \in Lease, ResultNext(l) PROVE PublishInv'
  BY <1>0, <1>5, EnterStep, OwnStep, StoreStep, LeaveStep, QuietResultStep DEF ResultNext
<1>6. CASE RestartApi
  BY <1>0, <1>6, RestartStep
<1> QED BY <1>1, <1>2, <1>3, <1>4, <1>5, <1>6 DEF Next, Triage, Serve, WorkNext, ResultNext

\* It holds in every reachable state.
LEMMA PublishInvariance == Spec => []PublishInv
BY PublishInit, PublishStep, PTL DEF Spec

-----------------------------------------------------------------------------
(* What holds for every value of the constants *)

\* Every variable stays in its domain, and the row is locked exactly while a request is
\* between entering and leaving owned_lease, also when the API restarts.
THEOREM TypesAndLocks == Spec => []TypeOK
<1>1. PublishInv => TypeOK
  BY InvIsTyped DEF PublishInv, TypedInv, OrderInv, EntryTyped, FilesTyped, RequestsTyped,
                    RequestState, WorkerTyped, LockInv, TypeOK
<1> QED BY <1>1, PublishInvariance, PTL

\* A job that is done has its generation, its announcement, its index and, unless
\* annotation or pointer moved on, its entry; whatever crashed, failed or came late.
THEOREM DoneIsInEveryStore == Spec => []DoneIsComplete
<1>1. PublishInv => DoneIsComplete
  BY DEF PublishInv, StoreInv, CompleteInv, Complete, DoneIsComplete
<1> QED BY <1>1, PublishInvariance, PTL

\* Pointer and entry turn to a run only under its lease, while nobody asked to cancel
\* it and the annotation is the one it was enqueued for: between the check and the
\* switch neither an edit, a cancellation nor another attempt comes in.
THEOREM OnlyCurrentRunsArePublished == Spec => PublishIsCurrent
<1> DEFINE Current == /\ pointer' # pointer =>
                           \E l \in Lease : /\ l[1] = pointer' /\ request[l] = "announced"
                                            /\ jobs[l[1]].token = l[2] /\ MayPublish(l[1])
                      /\ entry'.run \notin {0, entry.run} => MayPublish(entry'.run)
<1>1. PublishInv /\ [Next]_vars => [Current]_vars
  <2> SUFFICES ASSUME PublishInv, Next PROVE Current
    OBVIOUS
  <2>0. EntryTyped /\ RequestsTyped /\ LockInv /\ PublishedInv
    BY DEF PublishInv, TypedInv, OrderInv, StoreInv
  <2>1. ASSUME NEW l \in Lease, SwitchPointer(l) PROVE Current
    <3>1. request[l] = "announced" /\ pointer' = l[1] /\ entry' = entry
      BY <2>1 DEF SwitchPointer, Advance
    <3>2. MayPublish(l[1])
      BY <2>0, <3>1 DEF PublishedInv, Published, Publishing
    <3>3. jobs[l[1]].token = l[2]
      BY <2>0, <3>1, OwnerIsLeased DEF PublishInv, Owning
    <3> QED BY <3>1, <3>2, <3>3
  <2>2. ASSUME NEW l \in Lease, WriteEntry(l) PROVE Current
    <3>1. request[l] = "pointed" /\ pointer' = pointer
      BY <2>2 DEF WriteEntry, Advance, fileVars
    <3>2. entry'.run \in {l[1], entry.run}
      BY <2>0, <2>2 DEF WriteEntry, EntryTyped
    <3>3. MayPublish(l[1])
      BY <2>0, <3>1 DEF PublishedInv, Published, Publishing
    <3> QED BY <3>1, <3>2, <3>3
  <2>3. ASSUME pointer' = pointer, entry'.run \in {0, entry.run} PROVE Current
    BY <2>3
  <2>4. CASE Edit \/ MarkNoObject \/ PublishFrames \/ \E c \in Caller : Submit(c)
    <3>1. pointer' = pointer /\ entry'.run \in {0, entry.run}
      BY <2>0, <2>4 DEF Edit, MarkNoObject, PublishFrames, Submit, CompleteExport, ReadEntry,
                        AskManually, EndEnqueue, fileVars, EntryTyped
    <3> QED BY <2>3, <3>1
  <2>5. CASE WorkNext \/ RestartApi
    <3>1. pointer' = pointer /\ entry' = entry
      BY <2>5 DEF WorkNext, Work, CancelRoute, CancelWaits, LoopWaits, NextJob, TakeWaits,
                  PollFails, BeatWaits, Segment, PostDone, LeaveJob, Acknowledge, CrashWorker,
                  LeaseExpires, Beat, AcceptFailure, RestartApi, Unwritten, fileVars, vars
    <3> QED BY <2>3, <3>1
  <2>6. ASSUME NEW l \in Lease, ResultNext(l), ~ SwitchPointer(l), ~ WriteEntry(l)
        PROVE  Current
    <3>1. pointer' = pointer /\ entry' = entry
      BY <2>6 DEF ResultNext, KnowLease, EnterFence, EnterLease, WithdrawStale, Place,
                  RefuseGeneration, Announce, FinishOwned, LeaveLease, LeaveFence, RequestRaises,
                  Unwritten, fileVars
    <3> QED BY <2>3, <3>1
  <2> QED BY <2>1, <2>2, <2>4, <2>5, <2>6 DEF Next, Triage, Serve, WorkNext, ResultNext
<1> QED BY <1>1, PublishInvariance, PTL DEF Spec, PublishIsCurrent

\* The generation of a run is never replaced once it is there.
THEOREM GenerationsAreAppendOnly == Spec => GenerationImmutable
<1> DEFINE Stays == \A j \in Job : generation[j].frames # 0 => generation'[j] = generation[j]
<1>1. PublishInv /\ [Next]_vars => [Stays]_vars
  <2> SUFFICES ASSUME PublishInv, Next PROVE Stays
    OBVIOUS
  <2>1. ASSUME NEW l \in Lease, Place(l) PROVE Stays
    BY <2>1 DEF Place, PublishInv, TypedInv, FilesTyped
  <2>2. ASSUME generation' = generation PROVE Stays
    BY <2>2
  <2>3. CASE Edit \/ MarkNoObject \/ PublishFrames \/ \E c \in Caller : Submit(c)
    BY <2>2, <2>3 DEF Edit, MarkNoObject, PublishFrames, Submit, CompleteExport, ReadEntry,
                      AskManually, EndEnqueue, fileVars
  <2>4. CASE WorkNext \/ RestartApi
    BY <2>2, <2>4 DEF WorkNext, Work, CancelRoute, CancelWaits, LoopWaits, NextJob, TakeWaits,
                PollFails, BeatWaits, Segment, PostDone, LeaveJob, Acknowledge, CrashWorker,
                LeaseExpires, Beat, AcceptFailure, RestartApi, Unwritten, fileVars, vars
  <2>5. ASSUME NEW l \in Lease, ResultNext(l), ~ Place(l) PROVE Stays
    BY <2>2, <2>5 DEF ResultNext, KnowLease, EnterFence, EnterLease, WithdrawStale, WriteEntry,
                SwitchPointer, RefuseGeneration, Announce, FinishOwned, LeaveLease, LeaveFence,
                RequestRaises, Unwritten, fileVars
  <2> QED BY <2>1, <2>3, <2>4, <2>5 DEF Next, Triage, Serve, WorkNext, ResultNext
<1> QED BY <1>1, PublishInvariance, PTL DEF Spec, GenerationImmutable

\* What Sam3Queue promises of its statements holds of the API and the worker that use
\* them too: they make no others, and a restart of the API, which ends all transactions
\* and calls at once, moves no row.
THEOREM QueuePromisesHold ==
  Spec => /\ [](OneLiveJob /\ OwnerKeepsRow)
          /\ SettledStays /\ EnqueueMonotone
<1> DEFINE Settle == \A j \in Job : Settled(j) => jobs'[j] = jobs[j]
           Grow   == \A j \in Job : jobs[j].state = "absent" /\ jobs'[j].state # "absent"
                       => \A k \in Known : jobs[k].rev <= jobs'[j].rev
<1>1. PublishInv => OneLiveJob /\ OwnerKeepsRow
  BY DEF PublishInv, QueueInv, Owners
<1>2. PublishInv /\ [Next]_vars => [Settle /\ Grow]_queueVars
  <2> SUFFICES ASSUME PublishInv, [Next]_vars PROVE (Settle /\ Grow) \/ UNCHANGED queueVars
    OBVIOUS
  <2>1. CASE QueueNext
    BY <2>1, SettledStep, MonotoneStep DEF PublishInv
  <2>2. CASE RestartApi
    <3>1. jobs' = jobs
      BY <2>2 DEF RestartApi
    <3> QED BY <3>1
  <2>3. ASSUME NEW c \in Caller, CompleteExport(c) PROVE QueueNext \/ UNCHANGED queueVars
    <3>1. entry.rev \in Revision
      BY <2>3, Numbers DEF CompleteExport, PublishInv, TypedInv, EntryTyped, Revision
    <3>2. [rev |-> entry.rev, model |-> "default", force |-> FALSE] \in Asked
      BY <3>1 DEF Asked, Model
    <3> QED BY <2>3, <3>2 DEF CompleteExport, QueueNext
  <2>4. ASSUME NEW c \in Caller, NEW force \in BOOLEAN, AskManually(c, force) PROVE QueueNext
    <3>1. asked[c] \in Revision
      BY <2>4, Numbers DEF AskManually, PublishInv, TypedInv, EntryTyped, Revision
    <3>2. [rev |-> asked[c], model |-> "pinned", force |-> force] \in Asked
      BY <3>1 DEF Asked, Model
    <3> QED BY <2>4, <3>2 DEF AskManually, QueueNext
  <2>5. ASSUME NEW c \in Caller, ReadEntry(c) \/ EndEnqueue(c)
        PROVE  QueueNext \/ UNCHANGED queueVars
    BY <2>5 DEF ReadEntry, EndEnqueue, QueueNext
  <2>6. CASE Edit \/ MarkNoObject \/ PublishFrames \/ UNCHANGED vars
    BY <2>6 DEF Edit, MarkNoObject, PublishFrames, vars
  <2>7. ASSUME WorkNext PROVE QueueNext \/ UNCHANGED queueVars
    <3>1. ASSUME CancelRoute \/ NextJob \/ \E j \in Job : LeaseExpires(j) PROVE QueueNext
      BY <3>1 DEF CancelRoute, NextJob, LeaseExpires, QueueNext
    <3>2. ASSUME NEW l \in Lease,
                 Beat(l) \/ \E terminal \in {"error", "cancelled"} : AcceptFailure(l, terminal)
          PROVE  QueueNext
      BY <3>2 DEF Beat, AcceptFailure, QueueNext
    <3>3. ASSUME CancelWaits \/ TakeWaits \/ PollFails \/ BeatWaits \/ Segment \/ PostDone
                   \/ LeaveJob \/ CrashWorker
                   \/ \E terminal \in {"error", "cancelled"} : Acknowledge(terminal)
          PROVE  UNCHANGED queueVars
      BY <3>3 DEF CancelWaits, TakeWaits, BeatWaits, LoopWaits, PollFails, Segment, PostDone,
                  LeaveJob, CrashWorker, Acknowledge, vars
    <3> QED BY <2>7, <3>1, <3>2, <3>3 DEF WorkNext, Work
  <2>8. ASSUME NEW l \in Lease, ResultNext(l) PROVE QueueNext \/ UNCHANGED queueVars
    BY <2>8 DEF ResultNext, KnowLease, EnterFence, EnterLease, WithdrawStale, Place,
                RefuseGeneration, Announce, SwitchPointer, WriteEntry, FinishOwned, LeaveLease,
                LeaveFence, RequestRaises, QueueNext
  <2> HIDE DEF Settle, Grow
  <2> QED BY <2>1, <2>2, <2>3, <2>4, <2>5, <2>6, <2>7, <2>8
          DEF Next, Triage, Submit, Serve, WorkNext, ResultNext
<1>3. Spec => [](OneLiveJob /\ OwnerKeepsRow)
  BY <1>1, PublishInvariance, PTL
<1>4. Spec => [][Settle /\ Grow]_queueVars
  BY <1>2, PublishInvariance, PTL DEF Spec
<1>5. [Settle /\ Grow]_queueVars => [Settle]_queueVars /\ [Grow]_queueVars
  OBVIOUS
<1>6. [][Settle /\ Grow]_queueVars => [][Settle]_queueVars /\ [][Grow]_queueVars
  BY <1>5, PTL
<1> QED BY <1>3, <1>4, <1>6 DEF SettledStays, EnqueueMonotone

(***************************************************************************)
(*                               Sam3Session                               *)
(***************************************************************************)

-----------------------------------------------------------------------------
(* The inductive invariant *)

Session == [segment : Segments, state : States, taken : BOOLEAN, pending : Nat,
            seq : Nat, last : Nat, mask : BOOLEAN]

Answering == {"testing", "masked", "empty"}

Doing == [at : {"polling", "loading", "waiting"} \cup Answering, id : Nat, seq : Nat]

Page == [at : {"away", "opened", "shown"}, segment : Segments \cup {None}, id : Nat,
         state : States \cup {"none"}]

File == [id : Nat, seq : Nat]

\* A session nobody has taken has shown nothing.
SessionInv(s) ==
  /\ s \in Session /\ s.seq <= MaxTests /\ s.last <= s.seq /\ s.pending \in {0, s.seq}
  /\ ~ s.taken => s.last = 0

\* What the worker w, the session s it serves and the files of its segment say of
\* each other: it was taken; a session that is ready with a preview waits for no answer.
Serves(w, s, dir) ==
  /\ s.taken
  /\ w.at = "loading" => s.last = 0
  /\ w.at \in Answering => w.seq <= s.seq /\ (w.seq = s.seq => s.pending = 0)
  /\ w.at = "masked" => 1 \in DOMAIN dir /\ dir[1] = [id |-> w.id, seq |-> w.seq]
  /\ s.state = "ready" /\ s.last # 0 =>
       /\ w.at = "waiting" /\ s.pending = 0 /\ s.last = s.seq
       /\ s.mask => \E n \in DOMAIN dir : dir[n] = [id |-> w.id, seq |-> s.last]

RegistryInv ==
  /\ sessions \in Seq(Session) /\ Len(sessions) <= MaxSessions
  /\ \A i \in Ids : SessionInv(sessions[i])

WorkerInv ==
  /\ gpu \in Doing /\ gpu.seq <= MaxTests
  /\ gpu.at = "polling" => gpu.id = 0
  /\ gpu.at # "polling" => gpu.id \in Ids

FilesInv ==
  /\ previews \in [Segments -> Seq(File)]
  /\ \A g \in Segments : Len(previews[g]) <= Keep

\* A page knows of one of the n sessions, or of none.
PageInv(p, n) == /\ p \in Page /\ p.id <= n
                 /\ p.at = "opened" \/ p.state = "ready" => p.id # 0

PagesInv == /\ tab \in [Tabs -> Page]
            /\ \A t \in Tabs : PageInv(tab[t], Len(sessions))

ServingInv ==
  gpu.at # "polling" =>
    Serves(gpu, sessions[gpu.id], previews[sessions[gpu.id].segment])

SessionsInv == /\ sessionFaults \in 0..MaxSessionFaults
               /\ RegistryInv /\ WorkerInv /\ FilesInv /\ PagesInv /\ ServingInv

-----------------------------------------------------------------------------
(* The registry *)

LEMMA Smallest ==
  ASSUME NEW L \in SUBSET Nat, L # {}
  PROVE  \E i \in L : \A j \in L : i <= j
<1>1. PICK i \in L : \A j \in L : ~ (<<j, i>> \in OpToRel(<, Nat))
  BY NatLessThanWellFounded, WFMin, Zenon
<1>2. \A j \in L : ~ (j < i)
  BY <1>1 DEF OpToRel
<1>3. \A j \in L : i <= j
  BY <1>2
<1> QED BY <1>3

LEMMA LiveSession ==
  ASSUME NEW g
  PROVE  ForSegment(g) = 0 \/ ForSegment(g) \in Ids
<1> DEFINE Live == {i \in Ids : Alive(sessions[i]) /\ sessions[i].segment = g}
<1>1. CASE Live = {}
  BY <1>1 DEF ForSegment
<1>2. CASE Live # {}
  <2>1. Live \in SUBSET Nat /\ Live \subseteq Ids
    BY DEF Ids
  <2>2. \E i \in Live : \A j \in Live : i <= j
    <3> HIDE DEF Live
    <3> QED BY <1>2, <2>1, Smallest
  <2>3. ForSegment(g) = CHOOSE i \in Live : \A j \in Live : i <= j
    BY <1>2 DEF ForSegment
  <2>4. ForSegment(g) \in Live
    <3> HIDE DEF Live
    <3> QED BY <2>2, <2>3
  <2> QED BY <2>1, <2>4
<1> QED BY <1>1, <1>2

LEMMA SetOne ==
  ASSUME RegistryInv, NEW i \in Ids, NEW s, SessionInv(s), Set(i, s)
  PROVE  /\ RegistryInv' /\ Len(sessions') = Len(sessions) /\ Ids' = Ids
         /\ sessions'[i] = s /\ \A j \in Ids \ {i} : sessions'[j] = sessions[j]
<1>1. sessions' = [sessions EXCEPT ![i] = s] /\ s \in Session /\ sessions \in Seq(Session)
  BY DEF Set, SessionInv, RegistryInv
<1>2. sessions' \in Seq(Session) /\ Len(sessions') = Len(sessions)
  BY <1>1 DEF Ids
<1>3. sessions'[i] = s /\ \A j \in Ids \ {i} : sessions'[j] = sessions[j]
  BY <1>1 DEF Ids
<1>4. \A j \in Ids : SessionInv(sessions'[j])
  BY <1>3 DEF RegistryInv
<1>5. Ids' = Ids
  BY <1>2 DEF Ids
<1> QED BY <1>2, <1>3, <1>4, <1>5 DEF RegistryInv

\* The end of a session, as close, fail and an expiry write it.
LEMMA EndOne ==
  ASSUME RegistryInv, NEW i \in Ids, NEW state \in {"closed", "error", "busy"},
         Set(i, [sessions[i] EXCEPT !.state = state])
  PROVE  /\ RegistryInv' /\ Len(sessions') = Len(sessions) /\ Ids' = Ids
         /\ sessions'[i] = [sessions[i] EXCEPT !.state = state]
         /\ \A j \in Ids \ {i} : sessions'[j] = sessions[j]
<1>1. SessionInv([sessions[i] EXCEPT !.state = state])
  BY DEF RegistryInv, SessionInv, Session, States
<1> QED BY <1>1, SetOne

\* An ended session says nothing of its preview.
LEMMA EndedServes ==
  ASSUME NEW w, NEW dir, NEW s \in Session, Serves(w, s, dir),
         NEW state \in States, state # "ready"
  PROVE  Serves(w, [s EXCEPT !.state = state], dir)
BY DEF Serves, Session, Answering

LEMMA SessionInitInv == SessionInit => SessionsInv
<1> SUFFICES ASSUME SessionInit PROVE SessionsInv
  OBVIOUS
<1> USE SessionAssumption DEF SessionInit
<1>1. RegistryInv
  BY DEF RegistryInv, Ids
<1>2. WorkerInv
  BY DEF WorkerInv, Doing, Polling
<1>3. FilesInv
  <2>1. <<>> \in Seq(File) /\ Len(<<>>) = 0
    OBVIOUS
  <2> QED BY <2>1 DEF FilesInv
<1>4. PagesInv
  BY DEF PagesInv, PageInv, Page, Away
<1>5. ServingInv
  BY DEF ServingInv, Polling
<1> QED BY <1>1, <1>2, <1>3, <1>4, <1>5 DEF SessionsInv

-----------------------------------------------------------------------------
(* The pages *)

\* A page that shows what the registry says of one of its sessions, or of none.
LEMMA PageOne ==
  ASSUME PagesInv, NEW t \in Tabs, NEW p, tab' = [tab EXCEPT ![t] = p],
         Len(sessions) \in Nat, Len(sessions') \in Nat, Len(sessions) <= Len(sessions'),
         PageInv(p, Len(sessions'))
  PROVE  PagesInv'
<1>1. p \in Page /\ tab' \in [Tabs -> Page]
  BY DEF PagesInv, PageInv
<1>2. tab'[t] = p /\ \A u \in Tabs \ {t} : tab'[u] = tab[u]
  BY DEF PagesInv
<1>3. \A u \in Tabs : PageInv(tab[u], Len(sessions'))
  BY DEF PagesInv, PageInv, Page
<1>4. \A u \in Tabs : PageInv(tab'[u], Len(sessions'))
  BY <1>2, <1>3
<1> QED BY <1>1, <1>4 DEF PagesInv

LEMMA OnePage ==
  ASSUME PagesInv, NEW t \in Tabs, NEW p, tab' = [tab EXCEPT ![t] = p],
         Len(sessions) \in Nat, Len(sessions') = Len(sessions), PageInv(p, Len(sessions))
  PROVE  PagesInv'
<1>1. Len(sessions') \in Nat /\ Len(sessions) <= Len(sessions') /\ PageInv(p, Len(sessions'))
  OBVIOUS
<1> QED BY <1>1, PageOne

LEMMA SamePages ==
  ASSUME PagesInv, UNCHANGED tab, Len(sessions') = Len(sessions)
  PROVE  PagesInv'
BY DEF PagesInv

\* The worker serves as before when its session is what it was.
LEMMA SameServing ==
  ASSUME ServingInv, UNCHANGED <<gpu, previews>>,
         gpu.at # "polling" => sessions'[gpu.id] = sessions[gpu.id]
  PROVE  ServingInv'
BY DEF ServingInv

\* What another action writes to one session, which ends or is asked for a test.
LEMMA SessionEnds ==
  ASSUME SessionsInv, NEW i \in Ids, NEW state \in {"closed", "error"},
         Set(i, [sessions[i] EXCEPT !.state = state]), UNCHANGED <<gpu, previews>>
  PROVE  /\ RegistryInv' /\ Len(sessions') = Len(sessions) /\ WorkerInv' /\ ServingInv'
<1>1. /\ RegistryInv' /\ Len(sessions') = Len(sessions) /\ Ids' = Ids
      /\ sessions'[i] = [sessions[i] EXCEPT !.state = state]
      /\ \A j \in Ids \ {i} : sessions'[j] = sessions[j]
  BY EndOne DEF SessionsInv
<1>2. WorkerInv'
  BY <1>1 DEF SessionsInv, WorkerInv
<1>3. ServingInv'
  <2>1. SUFFICES ASSUME gpu.at # "polling"
        PROVE Serves(gpu, sessions'[gpu.id], previews[sessions'[gpu.id].segment])
    BY DEF ServingInv
  <2>2. gpu.id \in Ids /\ Serves(gpu, sessions[gpu.id], previews[sessions[gpu.id].segment])
    BY <2>1 DEF SessionsInv, WorkerInv, ServingInv
  <2>3. CASE gpu.id = i
    <3>1. sessions[i] \in Session /\ sessions'[i].segment = sessions[i].segment
      BY <1>1 DEF SessionsInv, RegistryInv, SessionInv, Session
    <3>2. state \in States /\ state # "ready"
      BY DEF States
    <3>3. Serves(gpu, [sessions[i] EXCEPT !.state = state], previews[sessions[i].segment])
      BY <2>2, <2>3, <3>1, <3>2, EndedServes
    <3> QED BY <1>1, <2>3, <3>1, <3>3
  <2>4. CASE gpu.id # i
    BY <1>1, <2>2, <2>4
  <2> QED BY <2>3, <2>4
<1> QED BY <1>1, <1>2, <1>3

LEMMA OpenStep ==
  ASSUME SessionsInv, NEW t \in Tabs, NEW g \in Segments, Open(t, g)
  PROVE  SessionsInv'
<1> USE DEF SessionsInv
<1> DEFINE i == IF ForSegment(g) # 0 THEN ForSegment(g) ELSE Len(sessions) + 1
<1>1. UNCHANGED <<gpu, previews, sessionFaults>> /\ FilesInv'
  BY DEF Open, FilesInv
<1>2. Len(sessions) \in Nat /\ sessions \in Seq(Session)
  BY DEF RegistryInv
<1>3. tab' = [tab EXCEPT ![t] = [at |-> "opened", segment |-> g, id |-> i,
                                 state |-> sessions'[i].state]]
  BY DEF Open
<1>4. /\ RegistryInv' /\ Len(sessions') \in Nat /\ Len(sessions) <= Len(sessions')
      /\ i \in Ids' /\ Ids \subseteq Ids' /\ \A j \in Ids : sessions'[j] = sessions[j]
  <2>1. CASE ForSegment(g) # 0
    <3>1. sessions' = sessions /\ i \in Ids
      BY <2>1, LiveSession DEF Open
    <3> QED BY <1>2, <3>1 DEF RegistryInv, Ids
  <2>2. CASE ForSegment(g) = 0
    <3>1. sessions' = Append(sessions, Opening(g)) /\ Len(sessions) < MaxSessions /\ i = Len(sessions) + 1
      BY <2>2 DEF Open
    <3>2. Opening(g) \in Session /\ SessionInv(Opening(g))
      BY SessionAssumption DEF Opening, Session, States, SessionInv
    <3>3. /\ sessions' \in Seq(Session) /\ Len(sessions') = Len(sessions) + 1
          /\ sessions'[Len(sessions) + 1] = Opening(g)
          /\ \A j \in Ids : sessions'[j] = sessions[j]
      BY <1>2, <3>1, <3>2 DEF Ids
    <3>4. Ids' = Ids \cup {Len(sessions) + 1} /\ Len(sessions') <= MaxSessions
      BY <1>2, <3>1, <3>3, SessionAssumption DEF Ids
    <3>5. RegistryInv'
      BY <3>2, <3>3, <3>4 DEF RegistryInv
    <3>6. Len(sessions') \in Nat /\ Len(sessions) <= Len(sessions') /\ i \in Ids'
      BY <1>2, <3>1, <3>3, <3>4
    <3> QED BY <3>3, <3>4, <3>5, <3>6
  <2> QED BY <2>1, <2>2
<1>5. sessions'[i] \in Session /\ i \in Nat /\ i # 0 /\ i <= Len(sessions')
  BY <1>4 DEF RegistryInv, SessionInv, Ids
<1>6. [at |-> "opened", segment |-> g, id |-> i, state |-> sessions'[i].state] \in Page
  BY <1>5 DEF Page, Session
<1>7. PagesInv'
  <2> DEFINE p == [at |-> "opened", segment |-> g, id |-> i, state |-> sessions'[i].state]
  <2>1. PageInv(p, Len(sessions'))
    BY <1>5, <1>6 DEF PageInv
  <2>2. tab' = [tab EXCEPT ![t] = p]
    BY <1>3
  <2> HIDE DEF p
  <2> QED BY <1>2, <1>4, <2>1, <2>2, PageOne
<1>8. WorkerInv'
  BY <1>1, <1>4 DEF WorkerInv
<1>9. ServingInv'
  BY <1>1, <1>4, SameServing DEF WorkerInv
<1> QED BY <1>1, <1>4, <1>7, <1>8, <1>9

LEMMA AskOne ==
  ASSUME NEW s \in Session, NEW new,
         new = [s EXCEPT !.seq = s.seq + 1, !.pending = s.seq + 1, !.state = "busy"]
  PROVE  /\ new \in Session /\ new.seq = s.seq + 1 /\ new.pending = s.seq + 1
         /\ new.state = "busy" /\ new.last = s.last /\ new.taken = s.taken
         /\ new.segment = s.segment
<1>1. s.seq + 1 \in Nat /\ "busy" \in States
  BY DEF Session, States
<1> QED BY <1>1 DEF Session

LEMMA RequestStep ==
  ASSUME SessionsInv, NEW t \in Tabs, RequestPreview(t)
  PROVE  SessionsInv'
<1> USE DEF SessionsInv
<1> DEFINE i == tab[t].id
           s == sessions[i]
           new == [s EXCEPT !.seq = s.seq + 1, !.pending = s.seq + 1, !.state = "busy"]
<1>1. UNCHANGED <<gpu, previews, sessionFaults>> /\ FilesInv'
  BY DEF RequestPreview, FilesInv
<1>2. tab[t] \in Page /\ i # 0 /\ i <= Len(sessions) /\ Len(sessions) \in Nat
  BY DEF RequestPreview, PagesInv, PageInv, RegistryInv
<1>3. i \in Ids
  BY <1>2 DEF Page, Ids
<1>4. SessionInv(s)
  BY <1>3 DEF RegistryInv
<1>5. CASE Alive(s)
  <2>1. s.seq < MaxTests /\ Set(i, new)
    BY <1>5 DEF RequestPreview
  <2>2. /\ s.seq \in Nat /\ s.last \in Nat /\ s.pending \in Nat /\ s.taken \in BOOLEAN
        /\ s.mask \in BOOLEAN /\ s.segment \in Segments /\ s \in Session
    BY <1>4 DEF SessionInv, Session
  <2>3. /\ new \in Session /\ new.seq = s.seq + 1 /\ new.pending = s.seq + 1 /\ new.state = "busy"
        /\ new.last = s.last /\ new.taken = s.taken /\ new.segment = s.segment
    BY <2>2, AskOne
  <2> HIDE DEF new
  <2>4. SessionInv(new)
    <3>1. MaxTests \in Nat /\ s.last <= s.seq /\ (~ s.taken => s.last = 0)
      BY <1>4, SessionAssumption DEF SessionInv
    <3>2. new.seq <= MaxTests /\ new.last <= new.seq
      BY <2>1, <2>2, <2>3, <3>1
    <3> QED BY <2>3, <3>1, <3>2 DEF SessionInv
  <2>5. /\ RegistryInv' /\ Len(sessions') = Len(sessions) /\ Ids' = Ids
        /\ sessions'[i] = new /\ \A j \in Ids \ {i} : sessions'[j] = sessions[j]
    BY <1>3, <2>1, <2>4, SetOne
  <2>6. tab' = [tab EXCEPT ![t] = [tab[t] EXCEPT !.at = "shown", !.state = "busy"]]
    BY <1>5 DEF RequestPreview, PagesInv
  <2>7. PagesInv'
    <3> DEFINE p == [tab[t] EXCEPT !.at = "shown", !.state = "busy"]
    <3>1. PageInv(p, Len(sessions))
      BY <1>2, <2>5 DEF PageInv, Page, States
    <3>2. tab' = [tab EXCEPT ![t] = p]
      BY <2>6
    <3> HIDE DEF p
    <3> QED BY <1>2, <2>5, <3>1, <3>2, OnePage
  <2>8. WorkerInv'
    BY <1>1, <2>5 DEF WorkerInv
  <2>9. ServingInv'
    <3>1. CASE gpu.at = "polling" \/ gpu.id # i
      BY <1>1, <2>5, <3>1, SameServing DEF WorkerInv
    <3>2. CASE gpu.at # "polling" /\ gpu.id = i
      <4>1. Serves(gpu, s, previews[s.segment]) /\ gpu.seq \in Nat
        BY <3>2 DEF ServingInv, WorkerInv, Doing
      <4>2. gpu.at \in Answering => gpu.seq <= s.seq + 1 /\ gpu.seq # s.seq + 1
        BY <2>2, <4>1 DEF Serves
      <4>3. Serves(gpu, new, previews[s.segment])
        BY <2>3, <4>1, <4>2 DEF Serves
      <4> QED BY <1>1, <2>3, <2>5, <3>2, <4>3 DEF ServingInv
    <3> QED BY <3>1, <3>2
  <2> QED BY <1>1, <2>5, <2>7, <2>8, <2>9
<1>6. CASE ~ Alive(s)
  <2>1. /\ sessions' = sessions /\ Len(sessions') = Len(sessions)
        /\ tab' = [tab EXCEPT ![t] = [tab[t] EXCEPT !.at = "shown"]]
    BY <1>6 DEF RequestPreview, PagesInv
  <2>2. PageInv([tab[t] EXCEPT !.at = "shown"], Len(sessions))
    BY <1>2, <2>1 DEF PageInv, Page
  <2>3. PagesInv'
    <3> DEFINE p == [tab[t] EXCEPT !.at = "shown"]
    <3>1. PageInv(p, Len(sessions)) /\ tab' = [tab EXCEPT ![t] = p]
      BY <2>1, <2>2
    <3> HIDE DEF p
    <3> QED BY <1>2, <2>1, <3>1, OnePage
  <2> QED BY <1>1, <2>1, <2>3 DEF RegistryInv, WorkerInv, ServingInv, Ids
<1> QED BY <1>5, <1>6

LEMMA PageStep ==
  ASSUME SessionsInv, NEW t \in Tabs, Poll(t) \/ Leave(t) \/ Propagate(t)
  PROVE  SessionsInv'
<1> USE DEF SessionsInv
<1>1. UNCHANGED <<gpu, previews, sessionFaults>> /\ FilesInv'
  BY DEF Poll, Leave, Propagate, FilesInv
<1>2. Len(sessions) \in Nat /\ tab[t] \in Page
  BY DEF RegistryInv, PagesInv
<1>3. \A n \in Nat : PageInv(Away, n)
  BY DEF PageInv, Away, Page
<1>4. CASE Poll(t)
  <2> DEFINE i == ForSegment(tab[t].segment)
             p == [tab[t] EXCEPT !.id = i, !.state = IF i = 0 THEN "none" ELSE sessions[i].state]
  <2>1. /\ sessions' = sessions /\ Len(sessions') = Len(sessions)
        /\ tab' = [tab EXCEPT ![t] = p] /\ tab[t].at = "shown"
    BY <1>4 DEF Poll, PagesInv
  <2>2. i = 0 \/ i \in Ids
    BY LiveSession
  <2>3. i \in Nat /\ i <= Len(sessions) /\ (i # 0 => sessions[i] \in Session)
    BY <1>2, <2>2 DEF Ids, RegistryInv, SessionInv
  <2>4. p \in Page
    BY <1>2, <2>3 DEF Page, Session
  <2>5. p.id = i /\ p.at = "shown" /\ (i = 0 => p.state = "none")
    BY <1>2, <2>1 DEF Page
  <2>6. PageInv(p, Len(sessions))
    BY <2>1, <2>3, <2>4, <2>5 DEF PageInv
  <2> HIDE DEF p, i
  <2>7. PagesInv'
    BY <1>2, <2>1, <2>6, OnePage
  <2> QED BY <1>1, <2>1, <2>7 DEF RegistryInv, WorkerInv, ServingInv, Ids
<1>5. CASE sessions' = sessions /\ tab' = [tab EXCEPT ![t] = Away]
  <2>1. Len(sessions') = Len(sessions) /\ PageInv(Away, Len(sessions))
    BY <1>2, <1>3, <1>5
  <2>2. PagesInv'
    BY <1>2, <1>5, <2>1, OnePage
  <2> QED BY <1>1, <1>5, <2>2 DEF RegistryInv, WorkerInv, ServingInv, Ids
<1>6. CASE \E i \in Ids : /\ Set(i, [sessions[i] EXCEPT !.state = "closed"])
                          /\ tab' = [tab EXCEPT ![t] = Away]
  <2>1. RegistryInv' /\ Len(sessions') = Len(sessions) /\ WorkerInv' /\ ServingInv'
    BY <1>1, <1>6, SessionEnds
  <2>2. PageInv(Away, Len(sessions))
    BY <1>2, <1>3
  <2>3. PagesInv'
    BY <1>2, <1>6, <2>1, <2>2, OnePage
  <2> QED BY <1>1, <2>1, <2>3
<1>7. Leave(t) => sessions' = sessions /\ tab' = [tab EXCEPT ![t] = Away]
  BY DEF Leave
<1>8. ASSUME Propagate(t) PROVE SessionsInv'
  <2>1. tab[t].id = 0 \/ tab[t].id \in Ids
    BY <1>2 DEF PagesInv, PageInv, Page, Ids
  <2>2. \/ sessions' = sessions /\ tab' = [tab EXCEPT ![t] = Away]
        \/ /\ tab[t].id # 0 /\ Set(tab[t].id, [sessions[tab[t].id] EXCEPT !.state = "closed"])
           /\ tab' = [tab EXCEPT ![t] = Away]
    BY <1>8 DEF Propagate
  <2> QED BY <1>5, <1>6, <2>1, <2>2
<1> QED BY <1>4, <1>5, <1>7, <1>8

-----------------------------------------------------------------------------
(* The worker *)

\* What every step of the worker knows of the session it serves.
LEMMA Served ==
  ASSUME SessionsInv, gpu.at # "polling"
  PROVE  /\ gpu.id \in Ids /\ SessionInv(sessions[gpu.id]) /\ gpu \in Doing
         /\ Serves(gpu, sessions[gpu.id], previews[sessions[gpu.id].segment])
         /\ Len(sessions) \in Nat
BY DEF SessionsInv, RegistryInv, WorkerInv, ServingInv

\* The worker comes back to its queues.
LEMMA BackToPolling ==
  ASSUME RegistryInv, gpu' = Polling
  PROVE  WorkerInv' /\ ServingInv'
<1>1. MaxTests \in Nat
  BY SessionAssumption
<1> QED BY <1>1 DEF WorkerInv, ServingInv, Polling, Doing

LEMMA SameRegistry ==
  ASSUME SessionsInv, UNCHANGED <<sessions, previews, tab>>
  PROVE  RegistryInv' /\ FilesInv' /\ PagesInv' /\ Ids' = Ids
BY DEF SessionsInv, RegistryInv, FilesInv, PagesInv, Ids

LEMMA ExpireStep ==
  ASSUME SessionsInv, NEW i \in Ids, ExpireIdle(i)
  PROVE  SessionsInv'
<1>1. UNCHANGED <<gpu, previews, tab, sessionFaults>> /\ FilesInv'
  BY DEF ExpireIdle, SessionsInv, FilesInv
<1>2. RegistryInv' /\ Len(sessions') = Len(sessions) /\ WorkerInv' /\ ServingInv'
  BY <1>1, SessionEnds DEF ExpireIdle
<1>3. PagesInv'
  BY <1>1, <1>2, SamePages DEF SessionsInv
<1> QED BY <1>1, <1>2, <1>3 DEF SessionsInv

LEMMA TakeStep ==
  ASSUME SessionsInv, TakeSession
  PROVE  SessionsInv'
<1>1. PICK i \in Ids : /\ ~ sessions[i].taken /\ sessions[i].state = "opening"
                       /\ Set(i, [sessions[i] EXCEPT !.taken = TRUE])
                       /\ gpu' = [at |-> "loading", id |-> i, seq |-> 0]
  BY DEF TakeSession
<1>2. UNCHANGED <<previews, tab, sessionFaults>> /\ FilesInv'
  BY DEF TakeSession, SessionsInv, FilesInv
<1>3. SessionInv(sessions[i])
  BY DEF SessionsInv, RegistryInv
<1> DEFINE s == [sessions[i] EXCEPT !.taken = TRUE]
<1>4. SessionInv(s) /\ s.taken /\ s.last = 0 /\ s.state = "opening"
  BY <1>1, <1>3 DEF SessionInv, Session
<1>5. Set(i, s)
  BY <1>1
<1> HIDE DEF s
<1>6. RegistryInv' /\ Len(sessions') = Len(sessions) /\ Ids' = Ids /\ sessions'[i] = s
  BY <1>4, <1>5, SetOne DEF SessionsInv
<1>7. PagesInv'
  BY <1>2, <1>6, SamePages DEF SessionsInv
<1>8. WorkerInv'
  <2>1. i \in Nat /\ MaxTests \in Nat
    BY SessionAssumption DEF Ids
  <2> QED BY <1>1, <1>6, <2>1 DEF WorkerInv, Doing
<1>9. ServingInv'
  BY <1>1, <1>4, <1>6 DEF ServingInv, Serves, Answering
<1> QED BY <1>2, <1>6, <1>7, <1>8, <1>9 DEF SessionsInv

\* The session the worker serves ends while it lets it go.
LEMMA LetGo ==
  ASSUME SessionsInv, gpu.at # "polling", gpu' = Polling, UNCHANGED <<previews, tab>>,
         sessionFaults' \in 0..MaxSessionFaults,
         \/ UNCHANGED sessions
         \/ Set(gpu.id, [sessions[gpu.id] EXCEPT !.state = "error"])
  PROVE  SessionsInv'
<1>1. gpu.id \in Ids /\ RegistryInv
  BY Served DEF SessionsInv
<1>2. RegistryInv' /\ Len(sessions') = Len(sessions)
  <2>1. CASE UNCHANGED sessions
    BY <1>1, <2>1 DEF RegistryInv, Ids
  <2>2. CASE Set(gpu.id, [sessions[gpu.id] EXCEPT !.state = "error"])
    BY <1>1, <2>2, EndOne
  <2> QED BY <2>1, <2>2
<1>3. WorkerInv' /\ ServingInv'
  BY <1>1, BackToPolling
<1>4. PagesInv' /\ FilesInv'
  BY <1>2, SamePages DEF SessionsInv, FilesInv
<1> QED BY <1>2, <1>3, <1>4 DEF SessionsInv

LEMMA FaultTyped ==
  ASSUME SessionsInv, Fault
  PROVE  sessionFaults' \in 0..MaxSessionFaults
BY SessionAssumption DEF SessionsInv, Fault

\* The worker goes on with a session that becomes s.
LEMMA GoesOn ==
  ASSUME SessionsInv, gpu.at # "polling", NEW s, SessionInv(s), Set(gpu.id, s),
         UNCHANGED <<previews, tab>>, sessionFaults' \in 0..MaxSessionFaults,
         gpu' \in Doing, gpu'.at # "polling", gpu'.id = gpu.id, gpu'.seq <= MaxTests,
         Serves(gpu', s, previews[s.segment])
  PROVE  SessionsInv'
<1>1. gpu.id \in Ids
  BY Served
<1>2. RegistryInv' /\ Len(sessions') = Len(sessions) /\ Ids' = Ids /\ sessions'[gpu.id] = s
  BY <1>1, SetOne DEF SessionsInv
<1>3. WorkerInv' /\ ServingInv'
  BY <1>1, <1>2 DEF WorkerInv, ServingInv
<1>4. PagesInv' /\ FilesInv'
  BY <1>2, SamePages DEF SessionsInv, FilesInv
<1> QED BY <1>2, <1>3, <1>4 DEF SessionsInv

\* The worker goes on and the registry stays as it is.
LEMMA GoesOnAlone ==
  ASSUME SessionsInv, gpu.at # "polling", UNCHANGED <<sessions, previews, tab>>,
         sessionFaults' \in 0..MaxSessionFaults,
         gpu' \in Doing, gpu'.at # "polling", gpu'.id = gpu.id, gpu'.seq <= MaxTests,
         Serves(gpu', sessions[gpu.id], previews[sessions[gpu.id].segment])
  PROVE  SessionsInv'
<1>1. RegistryInv' /\ FilesInv' /\ PagesInv' /\ Ids' = Ids
  BY SameRegistry
<1>2. WorkerInv' /\ ServingInv'
  BY <1>1, Served DEF WorkerInv, ServingInv
<1> QED BY <1>1, <1>2 DEF SessionsInv

LEMMA LoadStep ==
  ASSUME SessionsInv, Load
  PROVE  SessionsInv'
<1> DEFINE s == sessions[gpu.id]
           new == [s EXCEPT !.state = "ready"]
<1>1. gpu.at = "loading" /\ UNCHANGED <<previews, tab, sessionFaults>>
  BY DEF Load
<1>2. sessionFaults' \in 0..MaxSessionFaults
  BY <1>1 DEF SessionsInv
<1>3. SessionInv(s) /\ gpu \in Doing /\ Serves(gpu, s, previews[s.segment]) /\ gpu.seq <= MaxTests
  BY <1>1, Served DEF SessionsInv, WorkerInv
<1>4. CASE Set(gpu.id, new) /\ gpu' = [gpu EXCEPT !.at = "waiting"]
  <2>1. SessionInv(new) /\ new.taken /\ new.last = 0 /\ new.segment = s.segment
    BY <1>1, <1>3 DEF SessionInv, Session, States, Serves
  <2>2. gpu' \in Doing /\ gpu'.at = "waiting" /\ gpu'.id = gpu.id /\ gpu'.seq = gpu.seq
    BY <1>3, <1>4 DEF Doing
  <2>3. Serves(gpu', new, previews[new.segment])
    BY <2>1, <2>2 DEF Serves, Answering
  <2> HIDE DEF new
  <2> QED BY <1>1, <1>2, <1>3, <1>4, <2>1, <2>2, <2>3, GoesOn
<1>5. CASE /\ gpu' = Polling
           /\ UNCHANGED sessions \/ Set(gpu.id, [s EXCEPT !.state = "error"])
  BY <1>1, <1>2, <1>5, LetGo
<1> QED BY <1>4, <1>5 DEF Load

LEMMA LoadFailsStep ==
  ASSUME SessionsInv, LoadFails
  PROVE  SessionsInv'
<1>1. /\ gpu.at = "loading" /\ gpu' = Polling /\ UNCHANGED <<previews, tab>> /\ Fault
      /\ UNCHANGED sessions \/ Set(gpu.id, [sessions[gpu.id] EXCEPT !.state = "error"])
  BY DEF LoadFails
<1>2. sessionFaults' \in 0..MaxSessionFaults
  BY <1>1, FaultTyped
<1> QED BY <1>1, <1>2, LetGo

LEMMA DiesStep ==
  ASSUME SessionsInv, WorkerDies
  PROVE  SessionsInv'
<1>1. /\ gpu.at # "polling" /\ gpu' = Polling /\ UNCHANGED <<previews, tab>> /\ Fault
      /\ UNCHANGED sessions
  BY DEF WorkerDies
<1>2. sessionFaults' \in 0..MaxSessionFaults
  BY <1>1, FaultTyped
<1> QED BY <1>1, <1>2, LetGo

LEMMA CommandStep ==
  ASSUME SessionsInv, NextCommand
  PROVE  SessionsInv'
<1> DEFINE s == sessions[gpu.id]
           new == [s EXCEPT !.pending = 0]
<1>1. gpu.at = "waiting" /\ UNCHANGED <<previews, tab, sessionFaults>>
  BY DEF NextCommand
<1>2. sessionFaults' \in 0..MaxSessionFaults
  BY <1>1 DEF SessionsInv
<1>3. SessionInv(s) /\ gpu \in Doing /\ Serves(gpu, s, previews[s.segment])
  BY <1>1, Served
<1>4. CASE gpu' = Polling /\ UNCHANGED sessions
  BY <1>1, <1>2, <1>4, LetGo
<1>5. CASE /\ s.pending # 0 /\ Set(gpu.id, new)
           /\ gpu' = [gpu EXCEPT !.at = "testing", !.seq = s.pending]
  <2>1. /\ s \in Session /\ s.seq \in Nat /\ s.pending = s.seq /\ s.seq <= MaxTests /\ s.taken
        /\ s.state = "ready" => s.last = 0
    BY <1>3, <1>5 DEF SessionInv, Session, Serves
  <2>2. /\ SessionInv(new) /\ new.taken /\ new.seq = s.seq /\ new.pending = 0
        /\ new.state = s.state /\ new.last = s.last /\ new.segment = s.segment
    BY <1>3, <2>1 DEF SessionInv, Session
  <2>3. gpu' \in Doing /\ gpu'.at = "testing" /\ gpu'.id = gpu.id /\ gpu'.seq = s.seq
    BY <1>3, <1>5, <2>1 DEF Doing, Answering
  <2>4. Serves(gpu', new, previews[new.segment])
    BY <2>1, <2>2, <2>3 DEF Serves
  <2> HIDE DEF new
  <2> QED BY <1>1, <1>2, <1>5, <2>1, <2>2, <2>3, <2>4, GoesOn
<1> QED BY <1>4, <1>5 DEF NextCommand

\* A file leaves a directory, and another comes first in what is left of it.
LEMMA WithoutOne ==
  ASSUME NEW dir \in Seq(File), NEW n \in DOMAIN dir
  PROVE  RemoveAt(dir, n) \in Seq(File)
<1>1. n \in 1..Len(dir) /\ Len(dir) \in Nat
  OBVIOUS
<1>2. SubSeq(dir, 1, n - 1) \in Seq(File) /\ SubSeq(dir, n + 1, Len(dir)) \in Seq(File)
  BY <1>1
<1> QED BY <1>2 DEF RemoveAt

LEMMA NewestFirst ==
  ASSUME NEW f \in File, NEW others \in Seq(File), NEW all, all = <<f>> \o others
  PROVE  LET dir == SubSeq(all, 1, Smaller(Len(all), Keep)) IN
         dir \in Seq(File) /\ Len(dir) <= Keep /\ 1 \in DOMAIN dir /\ dir[1] = f
<1>1. all \in Seq(File) /\ Len(all) \in Nat /\ Len(all) >= 1 /\ all[1] = f
  OBVIOUS
<1> DEFINE m == Smaller(Len(all), Keep)
<1>2. m \in 1..Len(all) /\ m <= Keep
  BY <1>1, SessionAssumption DEF Smaller
<1> HIDE DEF m
<1>3. SubSeq(all, 1, m) \in Seq(File) /\ Len(SubSeq(all, 1, m)) = m /\ SubSeq(all, 1, m)[1] = all[1]
  BY <1>1, <1>2
<1>4. 1 \in DOMAIN SubSeq(all, 1, m)
  BY <1>2, <1>3
<1> QED BY <1>1, <1>2, <1>3, <1>4 DEF m

LEMMA SegmentStep ==
  ASSUME SessionsInv, NEW found \in BOOLEAN, SegmentFrame(found)
  PROVE  SessionsInv'
<1> DEFINE s == sessions[gpu.id]
           g == s.segment
           f == [id |-> gpu.id, seq |-> gpu.seq]
<1>1. /\ gpu.at = "testing" /\ UNCHANGED <<sessions, tab, sessionFaults>>
      /\ gpu' = [gpu EXCEPT !.at = IF found THEN "masked" ELSE "empty"]
  BY DEF SegmentFrame
<1>2. SessionInv(s) /\ gpu \in Doing /\ Serves(gpu, s, previews[g]) /\ gpu.id \in Ids
  BY <1>1, Served
<1>3. /\ gpu' \in Doing /\ gpu'.id = gpu.id /\ gpu'.seq = gpu.seq
      /\ gpu'.at = (IF found THEN "masked" ELSE "empty") /\ f \in File
  BY <1>1, <1>2 DEF Doing, Answering, File
<1>4. RegistryInv' /\ PagesInv' /\ WorkerInv'
  <2>1. RegistryInv' /\ PagesInv'
    BY <1>1 DEF SessionsInv, RegistryInv, PagesInv, Ids
  <2> QED BY <1>1, <1>2, <1>3, <2>1 DEF SessionsInv, WorkerInv, Ids
<1>5. g \in Segments /\ previews \in [Segments -> Seq(File)] /\ previews[g] \in Seq(File)
  BY <1>2 DEF SessionInv, Session, SessionsInv, FilesInv
<1>6. FilesInv' /\ (found => 1 \in DOMAIN previews'[g] /\ previews'[g][1] = f)
  <2>1. CASE ~ found
    <3>1. previews' = previews
      BY <2>1 DEF SegmentFrame
    <3> QED BY <2>1, <3>1 DEF SessionsInv, FilesInv
  <2>2. CASE found
    <3> DEFINE same == {n \in DOMAIN previews[g] : previews[g][n].seq = gpu.seq}
               others == IF same = {} THEN previews[g]
                         ELSE RemoveAt(previews[g], CHOOSE n \in same : TRUE)
               all == <<f>> \o others
               dir == SubSeq(all, 1, Smaller(Len(all), Keep))
    <3>1. others \in Seq(File)
      <4>1. CASE same = {}
        BY <1>5, <4>1
      <4>2. CASE same # {}
        <5>1. (CHOOSE n \in same : TRUE) \in DOMAIN previews[g]
          BY <4>2
        <5> QED BY <1>5, <4>2, <5>1, WithoutOne
      <4> QED BY <4>1, <4>2
    <3>2. previews' = [previews EXCEPT ![g] = dir]
      BY <2>2 DEF SegmentFrame
    <3> HIDE DEF others
    <3>3. dir \in Seq(File) /\ Len(dir) <= Keep /\ 1 \in DOMAIN dir /\ dir[1] = f
      BY <1>3, <3>1, NewestFirst
    <3> HIDE DEF dir
    <3>4. previews'[g] = dir /\ \A h \in Segments \ {g} : previews'[h] = previews[h]
      BY <1>5, <3>2
    <3>5. previews' \in [Segments -> Seq(File)]
      BY <1>5, <3>2, <3>3
    <3> QED BY <3>3, <3>4, <3>5 DEF SessionsInv, FilesInv
  <2> QED BY <2>1, <2>2
<1>7. ServingInv'
  <2>1. ~ (s.state = "ready" /\ s.last # 0) /\ s.taken
        /\ gpu.seq <= s.seq /\ (gpu.seq = s.seq => s.pending = 0)
    BY <1>1, <1>2 DEF Serves, Answering
  <2>2. gpu'.at = "masked" => found
    BY <1>3
  <2>3. Serves(gpu', s, previews'[g])
    BY <1>3, <1>6, <2>1, <2>2 DEF Serves
  <2>4. sessions'[gpu'.id] = s
    BY <1>1, <1>3
  <2> QED BY <2>3, <2>4 DEF ServingInv
<1> QED BY <1>1, <1>4, <1>6, <1>7 DEF SessionsInv

\* An answer is delivered, with or without a mask, and the worker waits.
LEMMA Delivered ==
  ASSUME SessionsInv, gpu.at \in Answering, NEW mask \in BOOLEAN, mask => gpu.at = "masked",
         \/ UNCHANGED sessions
         \/ /\ sessions[gpu.id].seq = gpu.seq
            /\ Set(gpu.id, [sessions[gpu.id] EXCEPT !.last = sessions[gpu.id].seq,
                                                    !.mask = mask, !.state = "ready"]),
         gpu' = [gpu EXCEPT !.at = "waiting"], UNCHANGED <<previews, tab>>,
         sessionFaults' \in 0..MaxSessionFaults
  PROVE  SessionsInv'
<1> DEFINE s == sessions[gpu.id]
           new == [s EXCEPT !.last = s.seq, !.mask = mask, !.state = "ready"]
<1>1. gpu.at # "polling"
  BY DEF Answering
<1>2. /\ SessionInv(s) /\ gpu \in Doing /\ Serves(gpu, s, previews[s.segment])
      /\ gpu.seq <= MaxTests
  BY <1>1, Served DEF SessionsInv, WorkerInv
<1>3. gpu' \in Doing /\ gpu'.at = "waiting" /\ gpu'.id = gpu.id /\ gpu'.seq = gpu.seq
  BY <1>2 DEF Doing
<1>4. s.taken /\ ~ (s.state = "ready" /\ s.last # 0)
      /\ (gpu.seq = s.seq => s.pending = 0)
  BY <1>2 DEF Serves, Answering
<1>5. CASE UNCHANGED sessions
  <2>1. Serves(gpu', s, previews[s.segment])
    BY <1>3, <1>4 DEF Serves, Answering
  <2> QED BY <1>1, <1>2, <1>3, <1>5, <2>1, GoesOnAlone
<1>6. CASE s.seq = gpu.seq /\ Set(gpu.id, new)
  <2>1. s.seq \in Nat /\ s \in Session
    BY <1>2 DEF SessionInv, Session
  <2>2. /\ new \in Session /\ new.seq = s.seq /\ new.last = s.seq /\ new.pending = s.pending
        /\ new.taken = s.taken /\ new.segment = s.segment /\ new.mask = mask
    BY <2>1 DEF Session, States
  <2>3. SessionInv(new)
    BY <1>2, <1>4, <2>1, <2>2 DEF SessionInv
  <2>4. mask => \E n \in DOMAIN previews[s.segment] :
                   previews[s.segment][n] = [id |-> gpu.id, seq |-> s.seq]
    BY <1>2, <1>6 DEF Serves
  <2>5. Serves(gpu', new, previews[new.segment])
    BY <1>3, <1>4, <1>6, <2>2, <2>4 DEF Serves, Answering
  <2> HIDE DEF new
  <2> QED BY <1>1, <1>2, <1>3, <1>6, <2>3, <2>5, GoesOn
<1> QED BY <1>5, <1>6

LEMMA DeliverStep ==
  ASSUME SessionsInv, Deliver
  PROVE  SessionsInv'
<1> DEFINE mask == gpu.at = "masked"
<1>1. /\ gpu.at \in Answering /\ gpu' = [gpu EXCEPT !.at = "waiting"] /\ UNCHANGED <<previews, tab>>
      /\ \/ UNCHANGED sessions
         \/ /\ sessions[gpu.id].seq = gpu.seq
            /\ Set(gpu.id, [sessions[gpu.id] EXCEPT !.last = sessions[gpu.id].seq,
                                                    !.mask = mask, !.state = "ready"])
  BY DEF Deliver, Answering, LatestTest
<1>2. sessionFaults' \in 0..MaxSessionFaults
  BY DEF Deliver, SessionsInv
<1>3. mask \in BOOLEAN /\ (mask => gpu.at = "masked")
  OBVIOUS
<1> HIDE DEF mask
<1> QED BY <1>1, <1>2, <1>3, Delivered

LEMMA DeliverFailsStep ==
  ASSUME SessionsInv, DeliverFails
  PROVE  SessionsInv'
<1>1. /\ gpu.at \in Answering /\ gpu' = [gpu EXCEPT !.at = "waiting"] /\ UNCHANGED <<previews, tab>>
      /\ Fault
      /\ \/ UNCHANGED sessions
         \/ /\ sessions[gpu.id].seq = gpu.seq
            /\ Set(gpu.id, [sessions[gpu.id] EXCEPT !.last = sessions[gpu.id].seq,
                                                    !.mask = FALSE, !.state = "ready"])
  BY DEF DeliverFails, Answering, LatestTest
<1>2. sessionFaults' \in 0..MaxSessionFaults
  BY <1>1, FaultTyped
<1> QED BY <1>1, <1>2, Delivered

LEMMA RegistryLost ==
  ASSUME SessionsInv, Restart
  PROVE  SessionsInv'
<1>1. /\ UNCHANGED <<gpu, previews, tab>> /\ Fault
      /\ sessions' = [i \in Ids |-> [sessions[i] EXCEPT !.state = "lost"]]
  BY DEF Restart
<1>2. sessionFaults' \in 0..MaxSessionFaults
  BY <1>1, FaultTyped
<1>3. Len(sessions) \in Nat /\ Ids = 1..Len(sessions)
  BY DEF SessionsInv, RegistryInv, Ids
<1>4. \A i \in Ids : /\ SessionInv(sessions'[i]) /\ sessions'[i].state = "lost"
                     /\ sessions'[i].segment = sessions[i].segment
                     /\ sessions'[i] = [sessions[i] EXCEPT !.state = "lost"]
  <2> SUFFICES ASSUME NEW i \in Ids
               PROVE  /\ SessionInv(sessions'[i]) /\ sessions'[i].state = "lost"
                      /\ sessions'[i].segment = sessions[i].segment
                      /\ sessions'[i] = [sessions[i] EXCEPT !.state = "lost"]
    OBVIOUS
  <2>1. SessionInv(sessions[i]) /\ sessions'[i] = [sessions[i] EXCEPT !.state = "lost"]
    BY <1>1 DEF SessionsInv, RegistryInv
  <2> QED BY <2>1 DEF SessionInv, Session, States
<1>5. sessions' \in Seq(Session) /\ Len(sessions') = Len(sessions) /\ Ids' = Ids
  <2>1. \A i \in 1..Len(sessions) : sessions'[i] \in Session
    BY <1>3, <1>4 DEF SessionInv
  <2>2. sessions' \in [1..Len(sessions) -> Session]
    BY <1>1, <1>3, <2>1
  <2>3. sessions' \in Seq(Session) /\ Len(sessions') = Len(sessions)
    BY <1>3, <2>2
  <2> QED BY <2>3 DEF Ids
<1>6. RegistryInv' /\ WorkerInv' /\ FilesInv' /\ PagesInv'
  <2>1. RegistryInv'
    BY <1>4, <1>5 DEF SessionsInv, RegistryInv
  <2>2. WorkerInv' /\ FilesInv'
    BY <1>1, <1>5 DEF SessionsInv, WorkerInv, FilesInv
  <2>3. PagesInv'
    BY <1>1, <1>5, SamePages DEF SessionsInv
  <2> QED BY <2>1, <2>2, <2>3
<1>7. ServingInv'
  <2> SUFFICES ASSUME gpu.at # "polling"
               PROVE  Serves(gpu, sessions'[gpu.id], previews[sessions'[gpu.id].segment])
    BY <1>1 DEF ServingInv
  <2>1. /\ gpu.id \in Ids /\ sessions[gpu.id] \in Session
        /\ Serves(gpu, sessions[gpu.id], previews[sessions[gpu.id].segment])
    BY Served DEF SessionInv
  <2>2. Serves(gpu, [sessions[gpu.id] EXCEPT !.state = "lost"], previews[sessions[gpu.id].segment])
    <3>1. "lost" \in States /\ "lost" # "ready"
      BY DEF States
    <3> QED BY <2>1, <3>1, EndedServes
  <2> QED BY <1>4, <2>1, <2>2
<1> QED BY <1>2, <1>6, <1>7 DEF SessionsInv

-----------------------------------------------------------------------------
LEMMA SessionStep == SessionsInv /\ [SessionNext]_sessionVars => SessionsInv'
<1> SUFFICES ASSUME SessionsInv, [SessionNext]_sessionVars PROVE SessionsInv'
  OBVIOUS
<1>1. CASE \E t \in Tabs : \/ RequestPreview(t) \/ Poll(t) \/ Leave(t) \/ Propagate(t)
                           \/ \E g \in Segments : Open(t, g)
  BY <1>1, RequestStep, PageStep, OpenStep
<1>2. CASE \E i \in Ids : ExpireIdle(i)
  BY <1>2, ExpireStep
<1>3. CASE WorkerStep
  BY <1>3, TakeStep, LoadStep, CommandStep, DeliverStep, SegmentStep DEF WorkerStep
<1>4. CASE LoadFails \/ DeliverFails \/ WorkerDies \/ Restart
  BY <1>4, LoadFailsStep, DeliverFailsStep, DiesStep, RegistryLost
<1>5. CASE UNCHANGED sessionVars
  BY <1>5 DEF sessionVars, SessionsInv, RegistryInv, WorkerInv, FilesInv, PagesInv, ServingInv, Ids
<1> QED BY <1>1, <1>2, <1>3, <1>4, <1>5 DEF SessionNext

LEMMA SessionsAlways == SessionSpec => []SessionsInv
BY SessionInitInv, SessionStep, PTL DEF SessionSpec

LEMMA SessionsTyped == SessionsInv => SessionTypeOK
<1> SUFFICES ASSUME SessionsInv PROVE SessionTypeOK
  OBVIOUS
<1> USE DEF SessionsInv
<1>1. \A i \in Ids : LET s == sessions[i] IN
         /\ s.segment \in Segments /\ s.state \in States
         /\ s.taken \in BOOLEAN /\ s.mask \in BOOLEAN
         /\ s.seq \in 0..MaxTests /\ s.last \in 0..s.seq /\ s.pending \in {0, s.seq}
  BY SessionAssumption DEF RegistryInv, SessionInv, Session
<1>2. gpu.at \in {"polling", "loading", "waiting", "testing", "masked", "empty"}
  BY DEF WorkerInv, Doing, Answering
<1>3. gpu.id \in 0..Len(sessions) /\ gpu.seq \in 0..MaxTests
  BY SessionAssumption DEF WorkerInv, Doing, RegistryInv, Ids
<1>4. \A t \in Tabs : tab[t].at \in {"away", "opened", "shown"}
  BY DEF PagesInv, Page
<1> QED BY <1>1, <1>2, <1>3, <1>4 DEF SessionTypeOK, RegistryInv, FilesInv

\* The session on the GPU shows the preview of the boxes tested last, for any
\* number of pages, segments, sessions, tests and faults: no late answer, and no
\* file of another session with the same number, takes its place (deliver,
\* _preview, _cleanup_previews).
THEOREM SessionsAreSound == SessionSpec => []SessionsSound
<1>1. SessionsInv => PreviewOfLastBoxes
  <2> SUFFICES ASSUME SessionsInv, NEW i \in Ids, gpu.id = i, sessions[i].state = "ready",
                      sessions[i].last # 0
               PROVE  /\ sessions[i].last = sessions[i].seq
                      /\ sessions[i].mask => \E n \in DOMAIN previews[sessions[i].segment] :
                           previews[sessions[i].segment][n] = [id |-> i, seq |-> sessions[i].last]
    BY DEF PreviewOfLastBoxes
  <2>1. gpu.at # "polling"
    BY DEF SessionsInv, WorkerInv, Ids
  <2> QED BY <2>1, Served DEF Serves
<1> QED BY <1>1, SessionsTyped, SessionsAlways, PTL DEF SessionsSound
=============================================================================
