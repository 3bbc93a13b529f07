----------------------------- MODULE Sam3Queue -----------------------------
(***************************************************************************)
(* The SAM3 rows of one video in the table `jobs` and the statements of    *)
(* server/sam3_postgres.py on them.                                        *)
(*                                                                         *)
(* As in JobQueue each action is one committed statement and the callers   *)
(* are left open: any revision may be asked for at any time (the manual    *)
(* route reads the annotation outside the fence), and any lease ever given *)
(* may be used at any time.  Sam3Publish closes the module with the API    *)
(* and the GPU worker.  The SELECT of enqueue and its UPDATE are one step  *)
(* here: between the two a row may be claimed, given back, withdrawn or    *)
(* settled, and the UPDATE looks at its state anew.                        *)
(*                                                                         *)
(* `attempts` of a row only grows, because a new submission is a new row:  *)
(* the lease token of a claim is the pair of job and attempt.              *)
(***************************************************************************)
EXTENDS Naturals, FiniteSets

CONSTANTS
  Caller,       \* threads of the API that enqueue
  MaxJobs,      \* bound: transactions of enqueue, each of which inserts at most a row
  MaxAttempts,  \* column max_attempts, inserted as 3
  MaxRevision   \* bound: revisions of the annotation

ASSUME Sam3QueueAssumption ==
  /\ IsFiniteSet(Caller)
  /\ MaxJobs \in Nat
  /\ MaxAttempts \in Nat \ {0}
  /\ MaxRevision \in Nat

Job      == 1..MaxJobs
Lease    == Job \X (1..MaxAttempts)
Revision == 1..MaxRevision
Model    == {"default", "pinned"}

VARIABLES
  jobs,    \* the rows, numbered in the order they were inserted
  owner,   \* the attempt whose owned_lease keeps the row locked, 0 if none
  caller,  \* what each enqueuing thread is about to do
  clock    \* transactions begun by enqueue so far: now() as an order

queueVars == <<jobs, owner, caller, clock>>

-----------------------------------------------------------------------------
(* Rows *)

Row == [state: {"absent", "queued", "leased", "running", "done", "error", "cancelled"},
        rev: 0..MaxRevision, model: Model, attempts: 0..MaxAttempts,
        token: 0..MaxAttempts, lease: {"none", "live", "expired"}, cancel: BOOLEAN,
        created: Nat]

AbsentRow == [state |-> "absent", rev |-> 0, model |-> "default", attempts |-> 0,
              token |-> 0, lease |-> "none", cancel |-> FALSE, created |-> 0]

Known      == {j \in Job : jobs[j].state # "absent"}
Leased(j)  == jobs[j].state \in {"leased", "running"}
Pending(j) == jobs[j].state = "queued" \/ Leased(j)     \* QueueItem.active
Settled(j) == jobs[j].state \in {"done", "error", "cancelled"}
Locked(j)  == owner[j] # 0

\* lease_token = X AND state IN ('leased','running') AND lease_expires_at > now()
Held(l) == /\ jobs[l[1]].token = l[2]
           /\ Leased(l[1])
           /\ jobs[l[1]].lease = "live"

Released(row) == [row EXCEPT !.token = 0, !.lease = "none"]

\* Faulty: a worker's row is settled under it.
WithdrawnAtOnce(row) == [row EXCEPT !.state = "cancelled"]

Withdrawn(row) == IF row.state = "queued" THEN [row EXCEPT !.state = "cancelled"]
                  ELSE [row EXCEPT !.cancel = TRUE]

\* The CASEs of _finish_cursor.
Finished(row, terminal) ==
  IF row.cancel \/ terminal = "cancelled"
  THEN [Released(row) EXCEPT !.state = "cancelled", !.cancel = TRUE]
  ELSE IF terminal = "error" /\ row.attempts < MaxAttempts
  THEN [Released(row) EXCEPT !.state = "queued"]
  ELSE [Released(row) EXCEPT !.state = terminal]

-----------------------------------------------------------------------------
(* Enqueueing *)

Idle == [rev |-> 0, model |-> "default", force |-> FALSE, created |-> 0]

\* finalize_video_export names no model and never forces, the manual route pins one.
Asked == {ask \in [rev: Revision, model: Model, force: BOOLEAN] :
            ask.force => ask.model = "pinned"}

\* The transaction begins, and now() with it, before the advisory lock is asked for.
BeginEnqueue(c, ask) ==
  /\ caller[c] = Idle /\ clock < MaxJobs
  /\ clock' = clock + 1
  /\ caller' = [caller EXCEPT ![c] = [rev |-> ask.rev, model |-> ask.model,
                                      force |-> ask.force, created |-> clock + 1]]
  /\ UNCHANGED <<jobs, owner>>

\* ORDER BY annotation_revision DESC, created_at DESC LIMIT 1
Latest == {j \in Known : \A k \in Known \ {j} :
             \/ jobs[j].rev > jobs[k].rev
             \/ jobs[j].rev = jobs[k].rev /\ jobs[j].created > jobs[k].created}

\* Faulty: only a job of the same revision answers.
AnsweredBySame(ask) == \E j \in Latest :
  /\ jobs[j].rev = ask.rev /\ jobs[j].model = ask.model
  /\ Pending(j) \/ (jobs[j].state = "done" /\ ~ ask.force)

\* The two early returns.
Answered(ask) == \E j \in Latest :
  \/ jobs[j].rev > ask.rev
  \/ /\ jobs[j].rev = ask.rev /\ jobs[j].model = ask.model
     /\ Pending(j) \/ (jobs[j].state = "done" /\ ~ ask.force)

\* Faulty: only the work of older revisions gives way.
SupersededOlder(ask) == {j \in Known : Pending(j) /\ jobs[j].rev < ask.rev}

\* Faulty: settled rows are not left out.
SupersededAll(ask) == {j \in Known : jobs[j].rev <= ask.rev}

Superseded(ask) == {j \in Known : Pending(j) /\ jobs[j].rev <= ask.rev}

Inserted(ask) == [AbsentRow EXCEPT !.state = "queued", !.rev = ask.rev, !.model = ask.model,
                                   !.created = ask.created]

EnqueueAnswered(c) ==
  /\ caller[c] # Idle /\ Answered(caller[c])
  /\ caller' = [caller EXCEPT ![c] = Idle]
  /\ UNCHANGED <<jobs, owner, clock>>

\* One transaction under pg_advisory_xact_lock: withdraw and insert.
EnqueueNew(c) ==
  /\ caller[c] # Idle /\ ~ Answered(caller[c])
  /\ \A j \in Superseded(caller[c]) : ~ Locked(j)
  /\ \E new \in Job \ Known :
       /\ new = Cardinality(Known) + 1
       /\ jobs' = [j \in Job |-> IF j = new THEN Inserted(caller[c])
                                 ELSE IF j \in Superseded(caller[c]) THEN Withdrawn(jobs[j])
                                 ELSE jobs[j]]
  /\ caller' = [caller EXCEPT ![c] = Idle]
  /\ UNCHANGED <<owner, clock>>

Cancel ==
  /\ \A j \in Known : Pending(j) => ~ Locked(j)
  /\ \E j \in Known : Pending(j)
  /\ jobs' = [j \in Job |-> IF Pending(j) THEN Withdrawn(jobs[j]) ELSE jobs[j]]
  /\ UNCHANGED <<owner, caller, clock>>

-----------------------------------------------------------------------------
(* Claiming *)

\* The clock passes lease_expires_at.
Expire(j) ==
  /\ Leased(j) /\ jobs[j].lease = "live"
  /\ jobs' = [jobs EXCEPT ![j].lease = "expired"]
  /\ UNCHANGED <<owner, caller, clock>>

Reapable == {j \in Job : /\ Leased(j) /\ jobs[j].lease = "expired"
                         /\ jobs[j].cancel \/ jobs[j].attempts >= MaxAttempts}

Reaped(row) == [Released(row) EXCEPT !.state = IF row.cancel THEN "cancelled" ELSE "error"]

\* Faulty: the rows are not locked by FOR UPDATE.
ClaimableAnyway ==
  {j \in Job : /\ ~ jobs[j].cancel /\ jobs[j].attempts < MaxAttempts
               /\ jobs[j].state = "queued" \/ (Leased(j) /\ jobs[j].lease = "expired")}

Claimable ==
  {j \in Job : /\ ~ jobs[j].cancel /\ jobs[j].attempts < MaxAttempts
               /\ jobs[j].state = "queued" \/ (Leased(j) /\ jobs[j].lease = "expired")
               /\ ~ Locked(j)}

First == {j \in Claimable : \A k \in Claimable \ {j} : jobs[j].created < jobs[k].created}

Claimed(row) == [row EXCEPT !.state = "leased", !.token = row.attempts + 1,
                            !.lease = "live", !.attempts = row.attempts + 1]

\* take: the reaping UPDATE waits for locked rows, the claim skips them.
Take ==
  /\ \A j \in Reapable : ~ Locked(j)
  /\ jobs' = [j \in Job |-> IF j \in Reapable THEN Reaped(jobs[j])
                            ELSE IF j \in First THEN Claimed(jobs[j]) ELSE jobs[j]]
  /\ UNCHANGED <<owner, caller, clock>>

\* A CPU worker's claim reaps rows of every kind, FOR UPDATE SKIP LOCKED.
ReapElsewhere(j) ==
  /\ j \in Reapable /\ ~ Locked(j)
  /\ jobs' = [jobs EXCEPT ![j] = Reaped(@)]
  /\ UNCHANGED <<owner, caller, clock>>

-----------------------------------------------------------------------------
(* Statements of lease holders: they wait for a locked row they would change *)

Free(l) == Held(l) => ~ Locked(l[1])

HeldRowBecomes(l, row) == jobs' = IF Held(l) THEN [jobs EXCEPT ![l[1]] = row] ELSE jobs

Heartbeat(l) ==
  /\ Free(l)
  /\ HeldRowBecomes(l, [jobs[l[1]] EXCEPT !.state = "running", !.lease = "live"])
  /\ UNCHANGED <<owner, caller, clock>>

GetLease(l) ==
  /\ Free(l)
  /\ HeldRowBecomes(l, [jobs[l[1]] EXCEPT !.lease = "live"])
  /\ UNCHANGED <<owner, caller, clock>>

\* finish of another state than done, outside owned_lease.
SettleFailure(l, terminal) ==
  /\ Free(l)
  /\ HeldRowBecomes(l, Finished(jobs[l[1]], terminal))
  /\ UNCHANGED <<owner, caller, clock>>

\* owned_lease: the renewal it makes is seen by others only if it commits.
OwnLease(l) ==
  /\ Held(l) /\ ~ Locked(l[1])
  /\ owner' = [owner EXCEPT ![l[1]] = l[2]]
  /\ UNCHANGED <<jobs, caller, clock>>

\* The end of the transaction, with a finish that looks at the token only.
CommitOwned(l, terminal) ==
  /\ owner[l[1]] = l[2]
  /\ jobs' = [jobs EXCEPT ![l[1]] = Finished(@, terminal)]
  /\ owner' = [owner EXCEPT ![l[1]] = 0]
  /\ UNCHANGED <<caller, clock>>

RollbackOwned(l) ==
  /\ owner[l[1]] = l[2]
  /\ owner' = [owner EXCEPT ![l[1]] = 0]
  /\ UNCHANGED <<jobs, caller, clock>>

-----------------------------------------------------------------------------
QueueInit ==
  /\ jobs = [j \in Job |-> AbsentRow]
  /\ owner = [j \in Job |-> 0]
  /\ caller = [c \in Caller |-> Idle]
  /\ clock = 0

Enqueue(c) == EnqueueAnswered(c) \/ EnqueueNew(c)

\* `done` without the fence is answered by nobody but the API itself, which checks
\* inside it: routers/sam3.py never calls queue.finish with it.
QueueNext ==
  \/ Take \/ Cancel
  \/ \E c \in Caller :
       \/ Enqueue(c)
       \/ \E ask \in Asked : BeginEnqueue(c, ask)
  \/ \E j \in Job : Expire(j) \/ ReapElsewhere(j)
  \/ \E l \in Lease :
       \/ Heartbeat(l) \/ GetLease(l) \/ OwnLease(l) \/ RollbackOwned(l)
       \/ \E terminal \in {"error", "cancelled"} : SettleFailure(l, terminal)
       \/ \E terminal \in {"done", "cancelled"} : CommitOwned(l, terminal)

QueueSpec == QueueInit /\ [][QueueNext]_queueVars

-----------------------------------------------------------------------------
(* Properties *)

\* The rows, the lock and the callers stay in their domains, a row is absent until it
\* is inserted, and a lease exists exactly while the row is leased (sam3_postgres).
QueueTypeOK ==
  /\ jobs \in [Job -> Row]
  /\ owner \in [Job -> 0..MaxAttempts]
  /\ caller \in [Caller -> [rev: 0..MaxRevision, model: Model, force: BOOLEAN, created: Nat]]
  /\ clock \in Nat
  /\ \A j \in Job : Leased(j) <=> jobs[j].token # 0

\* However enqueues, cancellations, claims and retries interleave, at most one job of
\* the video is queued or running without having been asked to stop
\* (sam3_postgres.enqueue, the withdrawing UPDATE before its INSERT).
OneLiveJob == \A i, j \in Job : Pending(i) /\ ~ jobs[i].cancel /\ Pending(j) /\ ~ jobs[j].cancel
                                  => i = j

\* An enqueue that was delayed never adds work of an older annotation than some job
\* already known (the comment of sam3_postgres.enqueue on delayed export callbacks).
EnqueueMonotone ==
  [][\A j \in Job : jobs[j].state = "absent" /\ jobs'[j].state # "absent"
        => \A k \in Known : jobs[k].rev <= jobs'[j].rev]_queueVars

\* A settled job stays settled, whatever acknowledgement, heartbeat or result of its
\* attempts is still on the way (the WHERE clauses of the lease holders' statements).
SettledStays == [][\A j \in Job : Settled(j) => jobs'[j] = jobs[j]]_queueVars

\* The lease a publication is made under is in force until it ends: nobody claims,
\* cancels, reaps or settles the row meanwhile, also when the lease runs out
\* (owned_lease "hold the live SAM3 job row until metadata and ACK agree").
OwnerKeepsRow ==
  \A j \in Job : Locked(j) => /\ jobs[j].token = owner[j]
                              /\ jobs[j].attempts = owner[j]
                              /\ Leased(j)

=============================================================================
