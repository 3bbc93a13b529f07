-------------------------- MODULE ProxyCacheProofs --------------------------
(***************************************************************************)
(* Proofs about ProxyCache for any windows, any number of readers, of      *)
(* extractions and of faults.                                              *)
(***************************************************************************)
EXTENDS ProxyCache, FiniteSetTheorems, WellFoundedInduction, TLAPS

-----------------------------------------------------------------------------
(* The greatest of some numbers *)

LEMMA Bounded ==
  ASSUME NEW n \in Nat, NEW f \in [1..n -> Nat]
  PROVE  \E m \in Nat : \A a \in 1..n : f[a] <= m
<1> DEFINE Bound(k) == \E m \in Nat : \A a \in 1..k : f[a] <= m
           S == {k \in 0..n : ~ Bound(k)}
<1>0. S \subseteq Nat
  OBVIOUS
<1>1. SUFFICES ASSUME S # {} PROVE FALSE
  <2>1. n \in 0..n
    OBVIOUS
  <2>2. Bound(n)
    BY <2>1, <1>1
  <2> QED BY <2>2
<1>2. \E k \in S : \A j \in S : ~ (<<j, k>> \in OpToRel(<, Nat))
  <2> HIDE DEF S
  <2> QED BY <1>0, <1>1, NatLessThanWellFounded, WFMin, Zenon
<1>3. PICK k \in S : \A j \in S : ~ (j < k)
  <2> HIDE DEF S
  <2> QED BY <1>0, <1>2 DEF OpToRel
<1>4. k # 0
  <2>1. \A a \in 1..0 : f[a] <= 0
    OBVIOUS
  <2>2. Bound(0)
    BY <2>1
  <2> QED BY <2>2, <1>3
<1>5. k - 1 \in 0..n /\ k - 1 < k /\ k \in 1..n
  BY <1>3, <1>4
<1>6. Bound(k - 1)
  BY <1>3, <1>5
<1>7. PICK m \in Nat : \A a \in 1..(k - 1) : f[a] <= m
  BY <1>6
<1>8. f[k] \in Nat
  BY <1>5
<1>9. \A a \in 1..k : a \in 1..(k - 1) \/ a = k
  BY <1>5
<1>10. \A a \in 1..k : f[a] \in Nat
  BY <1>5
<1>11. \A a \in 1..k : f[a] <= m + f[k]
  BY <1>7, <1>8, <1>9, <1>10
<1>12. m + f[k] \in Nat
  BY <1>7, <1>8
<1>13. Bound(k)
  BY <1>11, <1>12
<1> QED BY <1>3, <1>13

LEMMA Greatest ==
  ASSUME NEW S \in SUBSET Nat, S # {}, NEW m \in Nat, \A x \in S : x <= m
  PROVE  Max(S) \in S /\ \A x \in S : x <= Max(S)
<1> DEFINE U == {b \in Nat : \A x \in S : x <= b}
<1>1. \E b \in U : \A c \in U : ~ (<<c, b>> \in OpToRel(<, Nat))
  <2>1. U \subseteq Nat /\ U # {}
    OBVIOUS
  <2> HIDE DEF U
  <2> QED BY <2>1, NatLessThanWellFounded, WFMin, Zenon
<1>2. PICK b \in U : \A c \in U : ~ (c < b)
  BY <1>1 DEF OpToRel
<1>3. b \in S
  <2>1. SUFFICES ASSUME b \notin S PROVE FALSE
    OBVIOUS
  <2>2. \A x \in S : x < b
    BY <1>2, <2>1
  <2>3. b # 0 /\ b - 1 \in Nat /\ b - 1 < b
    <3>1. PICK x \in S : x < b
      BY <2>2
    <3>2. x \in Nat /\ b \in Nat
      OBVIOUS
    <3> QED BY <3>1, <3>2
  <2>4. \A x \in S : x <= b - 1
    BY <1>2, <2>2, <2>3
  <2>5. b - 1 \in U
    BY <2>3, <2>4
  <2> QED BY <2>3, <2>5, <1>2
<1>4. \A x \in S : b >= x
  BY <1>2
<1>5. Max(S) \in S /\ \A x \in S : Max(S) >= x
  BY <1>3, <1>4 DEF Max
<1> QED BY <1>5

\* A mark is later than nothing, and a time.
LEMMA NowIsLater ==
  ASSUME mark \in [Attempts -> Nat], NEW r
  PROVE  Now(r) \in Nat \ {0}
<1> DEFINE S == {0} \cup {mark[t] : t \in {u \in Attempts : root[u] = r}}
<1>1. PICK m \in Nat : \A a \in Attempts : mark[a] <= m
  BY Bounded, CacheAssumption DEF Attempts
<1>2. S \in SUBSET Nat /\ S # {} /\ \A x \in S : x <= m
  BY <1>1
<1> HIDE DEF S
<1>3. Max(S) \in S
  BY <1>1, <1>2, Greatest
<1>4. Max(S) \in Nat
  BY <1>2, <1>3
<1>5. \A k \in Nat : 1 + k \in Nat \ {0}
  OBVIOUS
<1> QED BY <1>4, <1>5 DEF Now, S

-----------------------------------------------------------------------------
(* The inductive invariant *)

Places == {"none", "staging", "final", "trash", "gone"}
Begun  == {"extracting", "locked", "placed", "pointed"}
Ended  == {"done", "failed", "dead"}

Typed ==
    /\ root \in [Attempts -> Roots]
    /\ at \in [Attempts -> {"none"} \cup Begun \cup Ended]
    /\ file \in [Attempts -> Places]
    /\ mark \in [Attempts -> Nat]
    /\ aged \subseteq Attempts
    /\ current \in [Roots -> Attempts \cup {None}]
    /\ lock \in [Roots -> Attempts \cup {None}]
    /\ indexLock \in Attempts \cup {None}
    /\ faults \in 0..MaxFaults

Numbered == {a \in Attempts : seq[a] # 0}

\* The sequences handed out are different, and there are as many as attempts
\* that took one; what a window publishes has one.
SequencesInv ==
    /\ seq \in [Attempts -> Nat]
    /\ sequence = Cardinality(Numbered)
    /\ \A a \in Attempts : seq[a] <= sequence
    /\ \A a, b \in Numbered : seq[a] = seq[b] => a = b
    /\ \A a \in Attempts :
          /\ at[a] \in {"none", "extracting"} => seq[a] = 0
          /\ root[a] \in Windows /\ (file[a] = "final" \/ at[a] = "locked") => seq[a] # 0

\* The directory of an attempt on its way is where the attempt put it.
FilesInv == \A a \in Attempts :
    /\ at[a] = "none" => file[a] = "none"
    /\ at[a] \in {"extracting", "locked"} => file[a] = "staging"
    /\ at[a] \in {"placed", "pointed"} => file[a] = "final"

LocksInv == \A a \in Attempts :
    at[a] \in {"locked", "placed", "pointed"} =>
        lock[root[a]] = a /\ (root[a] \in Windows => indexLock = a)

\* Marked are complete generations of attempts that ended; what is aged and
\* complete is marked.
MarksInv == \A a \in Attempts :
    /\ mark[a] # 0 => file[a] = "final" /\ at[a] \in Ended
    /\ a \in aged => /\ at[a] \in Ended
                     /\ file[a] = "final" => mark[a] # 0
                     /\ file[a] = "staging" => at[a] = "dead"

CurrentInv == \A r \in Roots : current[r] # None =>
    /\ root[current[r]] = r /\ file[current[r]] = "final"
    /\ at[current[r]] \in {"pointed", "done", "dead"}

IndexInv ==
    /\ index \in [Windows -> [seq : Nat, gen : Attempts \cup {None}]]
    /\ \A w \in Windows : index[w] # NoEntry =>
          /\ index[w].gen \in Attempts
          /\ root[index[w].gen] = w /\ at[index[w].gen] \in {"done", "dead"}
          /\ seq[index[w].gen] = index[w].seq /\ index[w].seq # 0

ReadersInv ==
    /\ reader \in [Readers -> [at : {"idle", "located", "serving"}, root : Roots \cup {None},
                               gen : Attempts \cup {None}, late : BOOLEAN]]
    /\ \A x \in Readers :
          /\ reader[x].at # "idle" => reader[x].gen \in Attempts /\ reader[x].root \in Roots
          /\ reader[x].at # "serving" => ~ reader[x].late

\* A fault is what leaves CURRENT on a marked generation.
FaultlessInv == faults = 0 =>
    /\ \A r \in Roots : current[r] # None => mark[current[r]] = 0
    /\ \A x \in Readers : ~ reader[x].late

\* Until the second fault, who resolved a marked generation has it as CURRENT,
\* and the grace period of the others is not over.
ServingInv == faults <= 1 => \A x \in Readers : reader[x].at = "serving" =>
    /\ file[reader[x].gen] = "final"
    /\ reader[x].late => current[root[reader[x].gen]] = reader[x].gen
    /\ ~ reader[x].late => reader[x].gen \notin aged

Inv == /\ Typed /\ SequencesInv /\ FilesInv /\ LocksInv /\ MarksInv
       /\ CurrentInv /\ IndexInv /\ ReadersInv /\ FaultlessInv /\ ServingInv

LEMMA InvInit == Init => Inv
<1> SUFFICES ASSUME Init PROVE Inv
  OBVIOUS
<1> USE DEF Init
<1>1. Typed
  <2>1. root \in [Attempts -> Roots] /\ 0 \in 0..MaxFaults
    BY CacheAssumption DEF Attempts, Roots
  <2> QED BY <2>1 DEF Typed, Places
<1>2. SequencesInv
  <2>1. Numbered = {}
    BY DEF Numbered
  <2>2. Cardinality(Numbered) = 0
    BY <2>1, FS_EmptySet
  <2> QED BY <2>1, <2>2 DEF SequencesInv
<1>3. FilesInv /\ LocksInv /\ MarksInv /\ CurrentInv
  BY DEF FilesInv, LocksInv, MarksInv, CurrentInv
<1>4. IndexInv
  BY DEF IndexInv, NoEntry
<1>5. ReadersInv /\ FaultlessInv /\ ServingInv
  BY DEF ReadersInv, FaultlessInv, ServingInv, Idle
<1> QED BY <1>1, <1>2, <1>3, <1>4, <1>5 DEF Inv

-----------------------------------------------------------------------------
(* What is published, and what the steps do to the marks *)

LEMMA PublishedIsCurrent ==
  ASSUME Typed, NEW r \in Roots
  PROVE  /\ Published(r) \in Attempts \cup {None}
         /\ Published(r) # None => Published(r) = current[r] /\ file[current[r]] = "final"
BY DEF Typed, Published

\* A mark of t changes that of no other.
LEMMA MarkOne ==
  ASSUME Typed, ReadersInv, NEW t \in Attempts, Mark(t)
  PROVE  /\ mark' \in [Attempts -> Nat]
         /\ mark'[t] # 0 /\ \A a \in Attempts \ {t} : mark'[a] = mark[a]
         /\ aged' = aged \ {t}
         /\ ReadersInv'
         /\ \A x \in Readers : /\ reader'[x].at = reader[x].at /\ reader'[x].gen = reader[x].gen
                               /\ reader'[x].late = (reader[x].gen # t /\ reader[x].late)
<1>1. Now(root[t]) \in Nat \ {0}
  BY NowIsLater DEF Typed
<1>2. mark' = [mark EXCEPT ![t] = Now(root[t])] /\ aged' = aged \ {t}
  BY DEF Mark
<1>3. mark' \in [Attempts -> Nat] /\ mark'[t] # 0 /\ \A a \in Attempts \ {t} : mark'[a] = mark[a]
  BY <1>1, <1>2 DEF Typed
<1>4. \A x \in Readers : reader'[x] = IF reader[x].gen = t THEN [reader[x] EXCEPT !.late = FALSE]
                                      ELSE reader[x]
  BY DEF Mark
<1>5. \A x \in Readers :
         /\ reader'[x] \in [at : {"idle", "located", "serving"}, root : Roots \cup {None},
                            gen : Attempts \cup {None}, late : BOOLEAN]
         /\ reader'[x].at = reader[x].at /\ reader'[x].gen = reader[x].gen
         /\ reader'[x].root = reader[x].root
         /\ reader'[x].late = (reader[x].gen # t /\ reader[x].late)
  BY <1>4 DEF ReadersInv
<1>6. reader' = [x \in Readers |-> reader'[x]]
  BY DEF Mark
<1>7. ReadersInv'
  BY <1>5, <1>6 DEF ReadersInv
<1> QED BY <1>2, <1>3, <1>5, <1>7

\* What a collection moves away is no longer CURRENT, and its grace is over.
LEMMA CollectVictims ==
  ASSUME Typed, NEW r \in Roots, Collect(r)
  PROVE  /\ lock[r] = None
         /\ file' \in [Attempts -> Places] /\ mark' \in [Attempts -> Nat]
         /\ \A t \in Attempts :
              \/ /\ t \in aged /\ root[t] = r
                 /\ file[t] = "staging" \/ (file[t] = "final" /\ t # current[r])
                 /\ file'[t] = "trash" /\ mark'[t] = 0
              \/ /\ root[t] = r /\ file[t] = "final" /\ t # current[r] /\ mark[t] = 0
                 /\ file'[t] = file[t] /\ mark'[t] # 0
              \/ file'[t] = file[t] /\ mark'[t] = mark[t]
<1> DEFINE marks == [t \in Attempts |-> IF t \in Stale(r) /\ mark[t] = 0 THEN Now(r) ELSE mark[t]]
           abandoned == {t \in aged : root[t] = r /\ file[t] = "staging"}
<1>1. PICK kept :
        LET victims == ((Stale(r) \cap aged) \ kept) \cup abandoned IN
        /\ file' = [t \in Attempts |-> IF t \in victims THEN "trash" ELSE file[t]]
        /\ mark' = [t \in Attempts |-> IF t \in victims THEN 0 ELSE marks[t]]
  BY Zenon DEF Collect
<1>2. lock[r] = None
  BY DEF Collect
<1> DEFINE victims == ((Stale(r) \cap aged) \ kept) \cup abandoned
<1>3. Now(r) \in Nat \ {0}
  BY NowIsLater DEF Typed
<1>4. \A t \in Attempts : marks[t] \in Nat
  BY <1>3 DEF Typed
<1>5. \A t \in Attempts : t \in victims =>
        /\ t \in aged /\ root[t] = r
        /\ file[t] = "staging" \/ (file[t] = "final" /\ t # current[r])
  BY DEF Stale
<1>6. \A t \in Attempts : t \in victims => file'[t] = "trash" /\ mark'[t] = 0
  BY <1>1
<1>7. \A t \in Attempts : t \notin victims => file'[t] = file[t] /\ mark'[t] = marks[t]
  BY <1>1
<1>8. \A t \in Attempts : \/ marks[t] = mark[t]
                          \/ t \in Stale(r) /\ mark[t] = 0 /\ marks[t] # 0
  BY <1>3
<1>9. file' \in [Attempts -> Places] /\ mark' \in [Attempts -> Nat]
  BY <1>1, <1>4 DEF Typed, Places
<1> HIDE DEF victims, marks
<1> QED BY <1>2, <1>5, <1>6, <1>7, <1>8, <1>9 DEF Stale

\* An eviction marks CURRENT, and unlinks it unless the process dies before.
LEMMA EvictCurrent ==
  ASSUME Typed, NEW r \in Roots, Evict(r)
  PROVE  /\ current[r] \in Attempts /\ Mark(current[r]) /\ Free(r)
         /\ faults' \in 0..MaxFaults /\ faults <= faults'
         /\ UNCHANGED <<root, at, file, seq, lock, indexLock, sequence>>
         /\ \/ current' = current /\ index' = index /\ faults' = faults + 1
            \/ current' = [current EXCEPT ![r] = None] /\ index' = index /\ faults' = faults + 1
            \/ /\ current' = [current EXCEPT ![r] = None] /\ faults' = faults
               /\ index' = IF r \in Windows THEN [index EXCEPT ![r] = NoEntry] ELSE index
<1>1. Published(r) = current[r] /\ current[r] \in Attempts
  BY PublishedIsCurrent DEF Evict
<1>2. PICK done \in {"marked", "unlinked", "all"} :
          /\ done # "all" => faults < MaxFaults
          /\ faults' = IF done = "all" THEN faults ELSE faults + 1
          /\ current' = IF done = "marked" THEN current ELSE [current EXCEPT ![r] = None]
          /\ index' = IF done = "all" /\ r \in Windows
                      THEN [index EXCEPT ![r] = NoEntry] ELSE index
  BY DEF Evict
<1>3. faults' \in 0..MaxFaults /\ faults <= faults'
  BY <1>2, CacheAssumption DEF Typed
<1> QED BY <1>1, <1>2, <1>3 DEF Evict, attemptVars

\* Point moves CURRENT to a, and marks what it named, or misses that and may die.
LEMMA PointCurrent ==
  ASSUME Typed, NEW a \in Attempts, Point(a)
  PROVE  /\ faults' \in 0..MaxFaults /\ faults <= faults'
         /\ \/ at' = [at EXCEPT ![a] = "pointed"] /\ UNCHANGED <<lock, indexLock>>
            \/ at' = [at EXCEPT ![a] = "dead"] /\ Unlock(a)
         /\ current' = [current EXCEPT ![root[a]] = a]
         /\ UNCHANGED <<root, file, seq, index, sequence>>
         /\ \/ current[root[a]] # None /\ Mark(current[root[a]]) /\ faults' = faults
            \/ current[root[a]] = None /\ UNCHANGED <<mark, aged, reader>> /\ faults' = faults
            \/ current[root[a]] # None /\ UNCHANGED <<mark, aged, reader>> /\ faults' = faults + 1
BY CacheAssumption DEF Point, Typed, indexVars

-----------------------------------------------------------------------------
(* The types *)

LEMMA TypedStep == Inv /\ [Next]_vars => Typed'
<1> SUFFICES ASSUME Inv, [Next]_vars PROVE Typed'
  OBVIOUS
<1> USE DEF Inv, attemptVars, indexVars, unchangedByReaders
<1>1. ASSUME NEW a \in Attempts, Extract(a) \/ Fail(a) \/ Place(a) \/ Refused(a) \/ Finish(a)
      PROVE  Typed'
  BY <1>1 DEF Typed, Places, Begun, Ended, Extract, Fail, Unlock, Place, Refused, Finish
<1>2. ASSUME NEW a \in Attempts, Begin(a) PROVE Typed'
  BY <1>2 DEF Typed, Begun, Begin
<1>3. ASSUME NEW a \in Attempts, Point(a) PROVE Typed'
  <2>1. /\ root' = root /\ file' = file /\ faults' \in 0..MaxFaults
        /\ UNCHANGED <<lock, indexLock>> \/ Unlock(a)
    BY <1>3, PointCurrent
  <2>2. at' \in [Attempts -> {"none"} \cup Begun \cup Ended]
    BY <1>3, PointCurrent DEF Typed, Begun, Ended
  <2>3. current' \in [Roots -> Attempts \cup {None}]
    BY <1>3 DEF Point, Typed
  <2>4. mark' \in [Attempts -> Nat] /\ aged' \subseteq Attempts
    <3>1. CASE Mark(current[root[a]]) /\ current[root[a]] # None
      BY <3>1, MarkOne DEF Typed
    <3>2. CASE UNCHANGED <<mark, aged, reader>>
      BY <3>2 DEF Typed
    <3> QED BY <1>3, <3>1, <3>2 DEF Point
  <2> QED BY <2>1, <2>2, <2>3, <2>4 DEF Typed, Unlock
<1>4. ASSUME NEW a \in Attempts, Crash(a) PROVE Typed'
  <2>1. faults' \in 0..MaxFaults
    BY <1>4, CacheAssumption DEF Typed, Crash
  <2> QED BY <1>4, <2>1 DEF Typed, Ended, Unlock, Crash
<1>5. ASSUME NEW a \in Attempts, Age(a) \/ RemoveTrash(a) PROVE Typed'
  BY <1>5 DEF Typed, Places, Age, RemoveTrash
<1>6. ASSUME NEW r \in Roots, Evict(r) PROVE Typed'
  <2>1. mark' \in [Attempts -> Nat] /\ aged' \subseteq Attempts
    BY <1>6, EvictCurrent, MarkOne DEF Typed
  <2>2. current' \in [Roots -> Attempts \cup {None}] /\ faults' \in 0..MaxFaults
    BY <1>6, EvictCurrent DEF Typed
  <2> QED BY <1>6, <2>1, <2>2 DEF Evict, Typed
<1>7. ASSUME NEW r \in Roots, Collect(r) PROVE Typed'
  BY <1>7, CollectVictims DEF Collect, Typed
<1>8. ASSUME NEW w \in Windows, Reconcile(w) PROVE Typed'
  BY <1>8 DEF Reconcile, Typed
<1>9. ASSUME NEW x \in Readers, LocateFull(x) \/ LocateWindow(x) \/ Resolve(x) \/ Served(x)
      PROVE  Typed'
  BY <1>9 DEF Typed, LocateFull, LocateWindow, Resolve, Served
<1>10. CASE UNCHANGED vars
  BY <1>10 DEF vars, Typed
<1> QED BY <1>1, <1>2, <1>3, <1>4, <1>5, <1>6, <1>7, <1>8, <1>9, <1>10 DEF Next, Publish, Sweep

-----------------------------------------------------------------------------
(* The attempts: their directories and their locks *)

LEMMA FilesStep == Inv /\ [Next]_vars => FilesInv'
<1> SUFFICES ASSUME Inv, [Next]_vars PROVE FilesInv'
  OBVIOUS
<1> USE DEF Inv, attemptVars, indexVars, unchangedByReaders
<1>1. ASSUME NEW a \in Attempts, Extract(a) \/ Fail(a) \/ Place(a) \/ Refused(a)
      PROVE  FilesInv'
  BY <1>1 DEF Typed, FilesInv, Extract, Fail, Place, Refused
<1>2. ASSUME NEW a \in Attempts, Begin(a) \/ Finish(a) \/ Crash(a) PROVE FilesInv'
  BY <1>2 DEF Typed, FilesInv, Begin, Finish, Crash
<1>3. ASSUME NEW a \in Attempts, Point(a) PROVE FilesInv'
  BY <1>3, PointCurrent DEF Typed, FilesInv, Point
<1>4. ASSUME NEW a \in Attempts, Age(a) \/ RemoveTrash(a) PROVE FilesInv'
  BY <1>4 DEF Typed, FilesInv, Age, RemoveTrash
<1>5. ASSUME NEW r \in Roots, Evict(r) PROVE FilesInv'
  BY <1>5, EvictCurrent DEF FilesInv
<1>6. ASSUME NEW r \in Roots, Collect(r) PROVE FilesInv'
  <2>1. \A t \in Attempts : file'[t] # file[t] => at[t] \in Ended
    <3> TAKE t \in Attempts
    <3>1. SUFFICES ASSUME file'[t] # file[t] PROVE at[t] \in Ended
      OBVIOUS
    <3>2. t \in aged
      BY <1>6, <3>1, CollectVictims
    <3> QED BY <3>2 DEF MarksInv
  <2>2. at' = at
    BY <1>6 DEF Collect
  <2> QED BY <2>1, <2>2 DEF FilesInv, Ended
<1>7. ASSUME NEW w \in Windows, Reconcile(w) PROVE FilesInv'
  BY <1>7 DEF Reconcile, FilesInv
<1>8. ASSUME NEW x \in Readers, LocateFull(x) \/ LocateWindow(x) \/ Resolve(x) \/ Served(x)
      PROVE  FilesInv'
  BY <1>8 DEF FilesInv, LocateFull, LocateWindow, Resolve, Served
<1>9. CASE UNCHANGED vars
  BY <1>9 DEF vars, FilesInv
<1> QED BY <1>1, <1>2, <1>3, <1>4, <1>5, <1>6, <1>7, <1>8, <1>9 DEF Next, Publish, Sweep

LEMMA LocksStep == Inv /\ [Next]_vars => LocksInv'
<1> SUFFICES ASSUME Inv, [Next]_vars PROVE LocksInv'
  OBVIOUS
<1> USE DEF Inv, attemptVars, indexVars, unchangedByReaders
<1>1. \A a \in Attempts : root[a] \in Roots /\ a # None
  BY CacheAssumption DEF Typed, Attempts
<1>2. ASSUME NEW a \in Attempts,
             \/ Fail(a) \/ Refused(a) \/ Finish(a) \/ Crash(a)
             \/ Point(a) /\ at' = [at EXCEPT ![a] = "dead"] /\ Unlock(a)
      PROVE  LocksInv'
  <2>1. /\ root' = root /\ Unlock(a)
        /\ at'[a] \in Ended /\ \A b \in Attempts \ {a} : at'[b] = at[b]
    <3>1. CASE Point(a) /\ at' = [at EXCEPT ![a] = "dead"] /\ Unlock(a)
      BY <3>1 DEF Typed, Point, Ended
    <3>2. CASE Fail(a) \/ Refused(a) \/ Finish(a) \/ Crash(a)
      BY <3>2 DEF Typed, Fail, Refused, Finish, Crash, Ended
    <3> QED BY <1>2, <3>1, <3>2
  <2>2. ASSUME NEW b \in Attempts, at'[b] \in {"locked", "placed", "pointed"}
        PROVE  lock'[root[b]] = b /\ (root[b] \in Windows => indexLock' = b)
    <3>1. b # a /\ at[b] = at'[b]
      BY <2>1, <2>2 DEF Ended
    <3>2. lock[root[b]] = b /\ (root[b] \in Windows => indexLock = b)
      BY <2>2, <3>1 DEF LocksInv
    <3> QED BY <1>1, <2>1, <3>1, <3>2 DEF Unlock, Typed
  <2> QED BY <2>1, <2>2 DEF LocksInv
<1>3. ASSUME NEW a \in Attempts, Extract(a) \/ Place(a) \/ (Point(a) /\ UNCHANGED <<lock, indexLock>>)
      PROVE  LocksInv'
  <2>1. CASE Extract(a) \/ Place(a)
    BY <1>3, <2>1 DEF Typed, LocksInv, Extract, Place
  <2>2. CASE Point(a) /\ UNCHANGED <<lock, indexLock>>
    <3>1. \A b \in Attempts : at'[b] \in {"locked", "placed", "pointed"}
                               => at[b] \in {"locked", "placed", "pointed"}
      BY <2>2, PointCurrent DEF Typed, Point
    <3> QED BY <2>2, <3>1, PointCurrent DEF LocksInv
  <2> QED BY <1>3, <2>1, <2>2
<1>4. ASSUME NEW a \in Attempts, Begin(a) PROVE LocksInv'
  <2>1. /\ root' = root /\ at'[a] = "locked" /\ \A b \in Attempts \ {a} : at'[b] = at[b]
        /\ lock[root[a]] = None /\ lock' = [lock EXCEPT ![root[a]] = a]
        /\ root[a] \in Windows => indexLock = None /\ indexLock' = a
        /\ root[a] \notin Windows => indexLock' = indexLock
    BY <1>4 DEF Typed, Begin
  <2>2. ASSUME NEW b \in Attempts \ {a}, at'[b] \in {"locked", "placed", "pointed"}
        PROVE  lock'[root[b]] = b /\ (root[b] \in Windows => indexLock' = b)
    <3>1. lock[root[b]] = b /\ (root[b] \in Windows => indexLock = b)
      BY <2>1, <2>2 DEF LocksInv
    <3> QED BY <1>1, <2>1, <3>1 DEF Typed
  <2>3. lock'[root[a]] = a /\ (root[a] \in Windows => indexLock' = a)
    BY <1>1, <2>1 DEF Typed
  <2> QED BY <2>1, <2>2, <2>3 DEF LocksInv
<1>5. ASSUME NEW a \in Attempts, Age(a) \/ RemoveTrash(a) PROVE LocksInv'
  BY <1>5 DEF LocksInv, Age, RemoveTrash
<1>6. ASSUME NEW r \in Roots, Evict(r) \/ Collect(r) PROVE LocksInv'
  BY <1>6 DEF LocksInv, Evict, Collect
<1>7. ASSUME NEW w \in Windows, Reconcile(w) PROVE LocksInv'
  BY <1>7 DEF Reconcile, LocksInv
<1>8. ASSUME NEW x \in Readers, LocateFull(x) \/ LocateWindow(x) \/ Resolve(x) \/ Served(x)
      PROVE  LocksInv'
  BY <1>8 DEF LocksInv, LocateFull, LocateWindow, Resolve, Served
<1>9. CASE UNCHANGED vars
  BY <1>9 DEF vars, LocksInv
<1> QED BY <1>2, <1>3, <1>4, <1>5, <1>6, <1>7, <1>8, <1>9, PointCurrent DEF Next, Publish, Sweep

-----------------------------------------------------------------------------
(* CURRENT and the marks *)

\* A root nobody publishes to has no attempt between the rename and the end.
LEMMA LockFree ==
  ASSUME Inv, NEW r \in Roots, lock[r] = None, NEW a \in Attempts, root[a] = r
  PROVE  at[a] \notin {"locked", "placed", "pointed"}
BY CacheAssumption DEF Inv, LocksInv, Attempts

\* What a publisher finds in CURRENT is of an attempt that ended.
LEMMA PointedOver ==
  ASSUME Inv, NEW a \in Attempts, at[a] = "placed", current[root[a]] # None
  PROVE  /\ current[root[a]] \in Attempts /\ current[root[a]] # a
         /\ root[current[root[a]]] = root[a] /\ at[current[root[a]]] \in {"done", "dead"}
<1> DEFINE c == current[root[a]]
<1>1. c \in Attempts /\ root[a] \in Roots
  BY DEF Inv, Typed
<1>2. root[c] = root[a] /\ at[c] \in {"pointed", "done", "dead"}
  BY <1>1 DEF Inv, CurrentInv
<1>3. c # a /\ lock[root[a]] = a
  BY <1>2 DEF Inv, LocksInv
<1>4. at[c] # "pointed"
  BY <1>1, <1>2, <1>3 DEF Inv, LocksInv
<1> QED BY <1>1, <1>2, <1>3, <1>4

LEMMA CurrentStep == Inv /\ [Next]_vars => CurrentInv'
<1> SUFFICES ASSUME Inv, [Next]_vars PROVE CurrentInv'
  OBVIOUS
<1> USE DEF Inv, attemptVars, indexVars, unchangedByReaders
<1>0. \A r \in Roots : current[r] \in Attempts \cup {None}
  BY DEF Typed
<1>1. ASSUME NEW a \in Attempts, Extract(a) \/ Fail(a) \/ Place(a) \/ Refused(a)
      PROVE  CurrentInv'
  BY <1>0, <1>1 DEF Typed, CurrentInv, Extract, Fail, Place, Refused
<1>2. ASSUME NEW a \in Attempts, Begin(a) \/ Finish(a) \/ Crash(a) PROVE CurrentInv'
  BY <1>0, <1>2 DEF Typed, CurrentInv, Begin, Finish, Crash
<1>3. ASSUME NEW a \in Attempts, Point(a) PROVE CurrentInv'
  <2>1. /\ root' = root /\ file' = file
        /\ at'[a] \in {"pointed", "dead"} /\ \A b \in Attempts \ {a} : at'[b] = at[b]
        /\ current'[root[a]] = a /\ \A r \in Roots \ {root[a]} : current'[r] = current[r]
    BY <1>3, PointCurrent DEF Typed
  <2>2. file[a] = "final" /\ at[a] = "placed"
    BY <1>3 DEF Point, FilesInv
  <2>3. \A r \in Roots \ {root[a]} : current[r] # a
    BY <2>2, CacheAssumption DEF CurrentInv, Attempts
  <2> QED BY <1>0, <2>1, <2>2, <2>3 DEF CurrentInv
<1>4. ASSUME NEW a \in Attempts, Age(a) PROVE CurrentInv'
  BY <1>4 DEF CurrentInv, Age
<1>5. ASSUME NEW a \in Attempts, RemoveTrash(a) PROVE CurrentInv'
  BY <1>0, <1>5 DEF Typed, CurrentInv, RemoveTrash
<1>6. ASSUME NEW r \in Roots, Evict(r) PROVE CurrentInv'
  <2>1. current' = current \/ current' = [current EXCEPT ![r] = None]
    BY <1>6, EvictCurrent
  <2>2. UNCHANGED <<root, at, file>>
    BY <1>6, EvictCurrent
  <2> QED BY <2>1, <2>2 DEF Typed, CurrentInv
<1>7. ASSUME NEW r \in Roots, Collect(r) PROVE CurrentInv'
  <2>1. UNCHANGED <<root, at, current>>
    BY <1>7 DEF Collect
  <2>2. ASSUME NEW s \in Roots, current[s] # None
        PROVE  file'[current[s]] = "final"
    <3>1. root[current[s]] = s /\ file[current[s]] = "final" /\ current[s] \in Attempts
      BY <1>0, <2>2 DEF CurrentInv
    <3> QED BY <1>7, <3>1, CollectVictims
  <2> QED BY <2>1, <2>2 DEF CurrentInv
<1>8. ASSUME NEW w \in Windows, Reconcile(w) PROVE CurrentInv'
  BY <1>8 DEF Reconcile, CurrentInv
<1>9. ASSUME NEW x \in Readers, LocateFull(x) \/ LocateWindow(x) \/ Resolve(x) \/ Served(x)
      PROVE  CurrentInv'
  BY <1>9 DEF CurrentInv, LocateFull, LocateWindow, Resolve, Served
<1>10. CASE UNCHANGED vars
  BY <1>10 DEF vars, CurrentInv
<1> QED BY <1>1, <1>2, <1>3, <1>4, <1>5, <1>6, <1>7, <1>8, <1>9, <1>10 DEF Next, Publish, Sweep

LEMMA MarksStep == Inv /\ [Next]_vars => MarksInv'
<1> SUFFICES ASSUME Inv, [Next]_vars PROVE MarksInv'
  OBVIOUS
<1> USE DEF Inv, attemptVars, indexVars, unchangedByReaders
<1>1. ASSUME NEW a \in Attempts, Extract(a) \/ Fail(a) \/ Place(a) \/ Refused(a)
      PROVE  MarksInv'
  BY <1>1 DEF Typed, MarksInv, Ended, Extract, Fail, Place, Refused
<1>2. ASSUME NEW a \in Attempts, Begin(a) \/ Finish(a) \/ Crash(a) PROVE MarksInv'
  BY <1>2 DEF Typed, MarksInv, Ended, Begin, Finish, Crash
<1>3. ASSUME NEW a \in Attempts, Point(a) PROVE MarksInv'
  <2>1. /\ file' = file
        /\ at[a] = "placed" /\ at'[a] \in {"pointed", "dead"}
        /\ \A b \in Attempts \ {a} : at'[b] = at[b]
    BY <1>3, PointCurrent DEF Typed, Point
  <2>2. CASE Mark(current[root[a]]) /\ current[root[a]] # None
    <3> DEFINE c == current[root[a]]
    <3>1. c \in Attempts /\ c # a /\ at[c] \in {"done", "dead"} /\ file[c] = "final"
      BY <2>1, <2>2, PointedOver DEF CurrentInv, Typed
    <3>2. aged' = aged \ {c} /\ mark'[c] # 0 /\ \A b \in Attempts \ {c} : mark'[b] = mark[b]
      BY <2>2, <3>1, MarkOne
    <3> HIDE DEF c
    <3> QED BY <2>1, <3>1, <3>2 DEF MarksInv, Ended
  <2>3. CASE UNCHANGED <<mark, aged, reader>>
    BY <2>1, <2>3 DEF MarksInv, Ended
  <2> QED BY <1>3, <2>2, <2>3 DEF Point
<1>4. ASSUME NEW a \in Attempts, Age(a) PROVE MarksInv'
  <2>1. UNCHANGED <<at, file, mark>> /\ aged' = aged \cup {a}
    BY <1>4 DEF Age
  <2>2. (mark[a] # 0 /\ file[a] = "final" /\ at[a] \in Ended) \/ (at[a] = "dead" /\ file[a] = "staging")
    BY <1>4 DEF Age, MarksInv
  <2> QED BY <2>1, <2>2 DEF MarksInv, Ended
<1>5. ASSUME NEW a \in Attempts, RemoveTrash(a) PROVE MarksInv'
  BY <1>5 DEF Typed, MarksInv, RemoveTrash
<1>6. ASSUME NEW r \in Roots, Evict(r) PROVE MarksInv'
  <2> DEFINE c == current[r]
  <2>1. UNCHANGED <<root, at, file>> /\ c \in Attempts /\ Mark(c) /\ Free(r)
    BY <1>6, EvictCurrent
  <2>2. root[c] = r /\ file[c] = "final" /\ at[c] \in {"pointed", "done", "dead"}
    BY <2>1, CacheAssumption DEF CurrentInv, Attempts
  <2>3. at[c] \in Ended
    BY <2>1, <2>2, LockFree DEF Ended, Free
  <2>4. aged' = aged \ {c} /\ mark'[c] # 0 /\ \A b \in Attempts \ {c} : mark'[b] = mark[b]
    BY <2>1, MarkOne
  <2> HIDE DEF c
  <2> QED BY <2>1, <2>2, <2>3, <2>4 DEF MarksInv
<1>7. ASSUME NEW r \in Roots, Collect(r) PROVE MarksInv'
  <2>1. UNCHANGED <<at, aged>> /\ lock[r] = None
    BY <1>7 DEF Collect
  <2>2. ASSUME NEW t \in Attempts, root[t] = r, file[t] = "final" PROVE at[t] \in Ended
    BY <2>1, <2>2, LockFree DEF FilesInv, Typed, Begun
  <2>3. ASSUME NEW t \in Attempts
        PROVE  /\ mark'[t] # 0 => file'[t] = "final" /\ at[t] \in Ended
               /\ t \in aged => /\ at[t] \in Ended
                                /\ file'[t] = "final" => mark'[t] # 0
                                /\ file'[t] = "staging" => at[t] = "dead"
    <3>1. CASE file'[t] = "trash" /\ mark'[t] = 0
      BY <3>1 DEF MarksInv
    <3>2. CASE root[t] = r /\ file[t] = "final" /\ file'[t] = file[t] /\ mark'[t] # 0
      BY <2>2, <3>2 DEF MarksInv
    <3>3. CASE file'[t] = file[t] /\ mark'[t] = mark[t]
      BY <3>3 DEF MarksInv
    <3> QED BY <1>7, <3>1, <3>2, <3>3, CollectVictims
  <2> QED BY <2>1, <2>3 DEF MarksInv
<1>8. ASSUME NEW w \in Windows, Reconcile(w) PROVE MarksInv'
  BY <1>8 DEF Reconcile, MarksInv
<1>9. ASSUME NEW x \in Readers, LocateFull(x) \/ LocateWindow(x) \/ Resolve(x) \/ Served(x)
      PROVE  MarksInv'
  BY <1>9 DEF MarksInv, LocateFull, LocateWindow, Resolve, Served
<1>10. CASE UNCHANGED vars
  BY <1>10 DEF vars, MarksInv
<1> QED BY <1>1, <1>2, <1>3, <1>4, <1>5, <1>6, <1>7, <1>8, <1>9, <1>10 DEF Next, Publish, Sweep

-----------------------------------------------------------------------------
(* The index *)

LEMMA IndexedIsReadable == Inv => Readable
BY DEF Inv, IndexInv, SequencesInv, Numbered, Readable, Entries

LEMMA IndexStep == Inv /\ [Next]_vars => IndexInv'
<1> SUFFICES ASSUME Inv, [Next]_vars PROVE IndexInv'
  OBVIOUS
<1> USE DEF Inv, attemptVars, indexVars, unchangedByReaders
<1>1. ASSUME NEW a \in Attempts, Extract(a) \/ Fail(a) \/ Place(a) \/ Refused(a)
      PROVE  IndexInv'
  BY <1>1 DEF Typed, IndexInv, Extract, Fail, Place, Refused
<1>2. ASSUME NEW a \in Attempts, Begin(a) PROVE IndexInv'
  <2>1. UNCHANGED <<root, index>> /\ at[a] = "extracting"
    BY <1>2 DEF Begin
  <2>2. \A b \in Attempts \ {a} : seq'[b] = seq[b] /\ at'[b] = at[b]
    BY <1>2 DEF Begin, Typed, SequencesInv
  <2> QED BY <2>1, <2>2 DEF IndexInv
<1>3. ASSUME NEW a \in Attempts, Point(a) \/ Crash(a) PROVE IndexInv'
  <2>1. UNCHANGED <<root, index, seq>>
    BY <1>3 DEF Point, Crash
  <2>2. at[a] \in Begun /\ \A b \in Attempts \ {a} : at'[b] = at[b]
    BY <1>3 DEF Point, Crash, Typed, Begun
  <2> QED BY <2>1, <2>2 DEF IndexInv, Begun
<1>4. ASSUME NEW a \in Attempts, Finish(a) PROVE IndexInv'
  <2>1. /\ UNCHANGED <<root, seq>> /\ at[a] = "pointed"
        /\ at'[a] = "done" /\ \A b \in Attempts \ {a} : at'[b] = at[b]
    BY <1>4 DEF Finish, Typed
  <2>2. ASSUME NEW w \in Windows, index[w] # NoEntry
        PROVE  /\ index[w].gen \in Attempts
               /\ root[index[w].gen] = w /\ at'[index[w].gen] \in {"done", "dead"}
               /\ seq[index[w].gen] = index[w].seq /\ index[w].seq # 0
    BY <2>1, <2>2 DEF IndexInv
  <2>3. CASE root[a] \in Windows
    <3>1. index' = [w \in Windows |-> IF w = root[a] THEN [seq |-> seq[a], gen |-> a] ELSE index[w]]
      BY <1>4, <2>3, IndexedIsReadable DEF Finish
    <3>2. seq[a] \in Nat /\ seq[a] # 0
      BY <2>1, <2>3 DEF SequencesInv, FilesInv
    <3>3. index' \in [Windows -> [seq : Nat, gen : Attempts \cup {None}]]
      BY <3>1, <3>2 DEF IndexInv
    <3>4. ASSUME NEW w \in Windows, index'[w] # NoEntry
          PROVE  /\ index'[w].gen \in Attempts
                 /\ root[index'[w].gen] = w /\ at'[index'[w].gen] \in {"done", "dead"}
                 /\ seq[index'[w].gen] = index'[w].seq /\ index'[w].seq # 0
      <4>1. CASE w = root[a]
        BY <2>1, <3>1, <3>2, <4>1
      <4>2. CASE w # root[a]
        <5>1. index'[w] = index[w]
          BY <3>1, <4>2
        <5> QED BY <2>2, <3>4, <5>1
      <4> QED BY <4>1, <4>2
    <3> QED BY <2>1, <3>3, <3>4 DEF IndexInv, NoEntry
  <2>4. CASE root[a] \notin Windows
    <3>1. index' = index
      BY <1>4, <2>4 DEF Finish
    <3> QED BY <2>1, <2>2, <3>1 DEF IndexInv, NoEntry
  <2> QED BY <2>3, <2>4
<1>5. ASSUME NEW a \in Attempts, Age(a) \/ RemoveTrash(a) PROVE IndexInv'
  BY <1>5 DEF IndexInv, Age, RemoveTrash
<1>6. ASSUME NEW r \in Roots, Evict(r) PROVE IndexInv'
  <2>1. UNCHANGED <<root, at, seq>>
    BY <1>6, EvictCurrent
  <2>2. index' = index \/ (r \in Windows /\ index' = [index EXCEPT ![r] = NoEntry])
    BY <1>6, EvictCurrent
  <2>3. NoEntry \in [seq : Nat, gen : Attempts \cup {None}]
    BY DEF NoEntry
  <2> HIDE DEF Inv, NoEntry
  <2> QED BY <2>1, <2>2, <2>3 DEF IndexInv, Inv
<1>7. ASSUME NEW r \in Roots, Collect(r) PROVE IndexInv'
  BY <1>7 DEF IndexInv, Collect
<1>8. ASSUME NEW w \in Windows, Reconcile(w) PROVE IndexInv'
  <2>1. UNCHANGED <<root, at, seq>> /\ Free(w) /\ w \in Roots
    BY <1>8 DEF Reconcile, Roots
  <2>2. index' = [v \in Windows |-> IF v = w THEN Wanted(w) ELSE index[v]]
    BY <1>8, IndexedIsReadable DEF Reconcile
  <2>3. CASE Published(w) = None
    <3>1. Wanted(w) = NoEntry
      BY <2>3 DEF Wanted
    <3>2. NoEntry \in [seq : Nat, gen : Attempts \cup {None}]
      BY DEF NoEntry
    <3> HIDE DEF NoEntry
    <3> QED BY <2>1, <2>2, <3>1, <3>2 DEF IndexInv
  <2>4. CASE Published(w) # None
    <3> DEFINE t == Published(w)
    <3>1. t \in Attempts /\ t = current[w] /\ current[w] # None /\ file[t] = "final"
      BY <2>1, <2>4, PublishedIsCurrent
    <3>2. root[t] = w /\ at[t] \in {"pointed", "done", "dead"}
      BY <2>1, <3>1 DEF CurrentInv
    <3>3. at[t] \in {"done", "dead"}
      BY <2>1, <3>1, <3>2, LockFree DEF Free
    <3>4. seq[t] \in Nat /\ seq[t] # 0
      BY <3>1, <3>2 DEF SequencesInv
    <3>5. Wanted(w) = [seq |-> seq[t], gen |-> t]
      BY <2>4 DEF Wanted
    <3> HIDE DEF t
    <3>6. index'[w] = [seq |-> seq[t], gen |-> t] /\ \A v \in Windows \ {w} : index'[v] = index[v]
      BY <2>2, <3>5
    <3>7. index' \in [Windows -> [seq : Nat, gen : Attempts \cup {None}]]
      BY <2>2, <3>1, <3>4, <3>5 DEF IndexInv
    <3>8. /\ index'[w].gen \in Attempts
          /\ root[index'[w].gen] = w /\ at[index'[w].gen] \in {"done", "dead"}
          /\ seq[index'[w].gen] = index'[w].seq /\ index'[w].seq # 0
      BY <3>1, <3>2, <3>3, <3>4, <3>6
    <3> QED BY <2>1, <3>6, <3>7, <3>8 DEF IndexInv, NoEntry
  <2> QED BY <2>3, <2>4
<1>9. ASSUME NEW x \in Readers, LocateFull(x) \/ LocateWindow(x) \/ Resolve(x) \/ Served(x)
      PROVE  IndexInv'
  BY <1>9 DEF IndexInv, LocateFull, LocateWindow, Resolve, Served
<1>10. CASE UNCHANGED vars
  BY <1>10 DEF vars, IndexInv
<1> QED BY <1>1, <1>2, <1>3, <1>4, <1>5, <1>6, <1>7, <1>8, <1>9, <1>10 DEF Next, Publish, Sweep

LEMMA NextSequenceFollows == Inv => NextSequence = sequence + 1 /\ sequence \in Nat
<1> SUFFICES ASSUME Inv PROVE NextSequence = sequence + 1 /\ sequence \in Nat
  OBVIOUS
<1> DEFINE S == {sequence} \cup {index[w].seq : w \in Entries}
<1>1. IsFiniteSet(Attempts) /\ Numbered \subseteq Attempts
  BY FS_Interval, CacheAssumption DEF Attempts, Numbered
<1>2. sequence \in Nat
  BY <1>1, FS_Subset, FS_CardinalityType DEF Inv, SequencesInv
<1>3. \A w \in Entries : index[w].seq \in Nat /\ index[w].seq <= sequence
  BY DEF Inv, IndexInv, SequencesInv, Entries
<1>4. S \in SUBSET Nat /\ S # {} /\ \A x \in S : x <= sequence
  BY <1>2, <1>3
<1>5. sequence \in S
  OBVIOUS
<1> HIDE DEF S
<1>6. Max(S) \in S /\ \A x \in S : x <= Max(S)
  BY <1>2, <1>4, Greatest
<1>7. Max(S) = sequence
  <2>1. Max(S) \in Nat /\ Max(S) <= sequence /\ sequence <= Max(S)
    BY <1>4, <1>5, <1>6, Zenon
  <2>2. \A k \in Nat : k <= sequence /\ sequence <= k => k = sequence
    BY <1>2
  <2> QED BY <2>1, <2>2, Zenon
<1>8. NextSequence = Max(S) + 1
  BY IndexedIsReadable DEF NextSequence, S
<1> QED BY <1>2, <1>7, <1>8

LEMMA SequencesStep == Inv /\ [Next]_vars => SequencesInv'
<1> SUFFICES ASSUME Inv, [Next]_vars PROVE SequencesInv'
  OBVIOUS
<1> USE DEF Inv, attemptVars, indexVars, unchangedByReaders
<1>1. ASSUME NEW a \in Attempts, Extract(a) \/ Fail(a) \/ Place(a) \/ Refused(a)
      PROVE  SequencesInv'
  <2>1. UNCHANGED <<root, seq, sequence>>
    BY <1>1 DEF Extract, Fail, Place, Refused
  <2>2. Numbered' = Numbered
    BY <2>1 DEF Numbered
  <2>3. \A b \in Attempts :
          /\ at'[b] \in {"none", "extracting"} => at[b] \in {"none", "extracting"}
          /\ file'[b] = "final" \/ at'[b] = "locked" => file[b] = "final" \/ at[b] = "locked"
    BY <1>1 DEF Typed, Extract, Fail, Place, Refused
  <2> QED BY <2>1, <2>2, <2>3 DEF SequencesInv
<1>2. ASSUME NEW a \in Attempts, Begin(a), root[a] \in Windows PROVE SequencesInv'
  <2>1. /\ UNCHANGED <<root, file>> /\ sequence' = sequence + 1 /\ sequence \in Nat
        /\ seq' = [seq EXCEPT ![a] = sequence'] /\ seq[a] = 0 /\ file[a] = "staging"
        /\ at'[a] = "locked" /\ \A b \in Attempts \ {a} : at'[b] = at[b]
    BY <1>2, NextSequenceFollows DEF Begin, Typed, SequencesInv, FilesInv
  <2>2. seq' \in [Attempts -> Nat]
    BY <2>1 DEF SequencesInv
  <2>3. seq'[a] = sequence + 1 /\ \A b \in Attempts \ {a} : seq'[b] = seq[b]
    BY <2>1 DEF SequencesInv
  <2>4. \A b \in Attempts : seq[b] \in Nat /\ seq[b] <= sequence
    BY DEF SequencesInv
  <2>5. Numbered' = Numbered \cup {a} /\ a \notin Numbered
    BY <2>1, <2>3 DEF Numbered
  <2>6. IsFiniteSet(Attempts) /\ Numbered \subseteq Attempts
    BY FS_Interval, CacheAssumption DEF Attempts, Numbered
  <2>7. Cardinality(Numbered') = sequence'
    BY <2>1, <2>5, <2>6, FS_Subset, FS_AddElement DEF SequencesInv
  <2>8. \A b \in Attempts : seq'[b] <= sequence'
    BY <2>1, <2>3, <2>4
  <2>9. \A b, c \in Numbered' : seq'[b] = seq'[c] => b = c
    <3>1. \A b \in Numbered : seq'[b] = seq[b] /\ seq[b] # sequence + 1
      BY <2>1, <2>3, <2>4, <2>5 DEF Numbered
    <3> QED BY <2>3, <2>5, <3>1 DEF SequencesInv
  <2>10. \A b \in Attempts :
          /\ at'[b] \in {"none", "extracting"} => seq'[b] = 0
          /\ root'[b] \in Windows /\ (file'[b] = "final" \/ at'[b] = "locked") => seq'[b] # 0
    <3> TAKE b \in Attempts
    <3>1. CASE b = a
      BY <2>1, <2>3, <3>1
    <3>2. CASE b # a
      BY <2>1, <2>3, <3>2 DEF SequencesInv
    <3> QED BY <3>1, <3>2
  <2> QED BY <2>2, <2>7, <2>8, <2>9, <2>10 DEF SequencesInv
<1>3. ASSUME NEW a \in Attempts, Begin(a), root[a] \notin Windows PROVE SequencesInv'
  <2>1. UNCHANGED <<root, file, seq, sequence>>
    BY <1>3 DEF Begin
  <2>2. Numbered' = Numbered
    BY <2>1 DEF Numbered
  <2>3. at'[a] = "locked" /\ \A b \in Attempts \ {a} : at'[b] = at[b]
    BY <1>3 DEF Begin, Typed
  <2> QED BY <1>3, <2>1, <2>2, <2>3 DEF SequencesInv
<1>4. ASSUME NEW a \in Attempts, Point(a) \/ Finish(a) \/ Crash(a) PROVE SequencesInv'
  <2>1. UNCHANGED <<root, file, seq, sequence>>
    BY <1>4 DEF Point, Finish, Crash
  <2>2. Numbered' = Numbered
    BY <2>1 DEF Numbered
  <2>3. at'[a] \notin {"none", "extracting", "locked"} /\ \A b \in Attempts \ {a} : at'[b] = at[b]
    BY <1>4 DEF Point, Finish, Crash, Typed
  <2> QED BY <2>1, <2>2, <2>3 DEF SequencesInv
<1>5. ASSUME NEW a \in Attempts, Age(a) \/ RemoveTrash(a) PROVE SequencesInv'
  <2>1. UNCHANGED <<root, at, seq, sequence>>
    BY <1>5 DEF Age, RemoveTrash
  <2>2. Numbered' = Numbered
    BY <2>1 DEF Numbered
  <2>3. \A b \in Attempts : file'[b] = "final" => file[b] = "final"
    BY <1>5 DEF Age, RemoveTrash, Typed
  <2> QED BY <2>1, <2>2, <2>3 DEF SequencesInv
<1>6. ASSUME NEW r \in Roots, Evict(r) PROVE SequencesInv'
  <2>1. UNCHANGED <<root, at, file, seq, sequence>>
    BY <1>6, EvictCurrent
  <2> QED BY <2>1 DEF SequencesInv, Numbered
<1>7. ASSUME NEW r \in Roots, Collect(r) PROVE SequencesInv'
  <2>1. UNCHANGED <<root, at, seq, sequence>>
    BY <1>7 DEF Collect
  <2>2. \A b \in Attempts : file'[b] = "final" => file[b] = "final"
    BY <1>7, CollectVictims
  <2>3. Numbered' = Numbered
    BY <2>1 DEF Numbered
  <2> QED BY <2>1, <2>2, <2>3 DEF SequencesInv
<1>8. ASSUME NEW w \in Windows, Reconcile(w) PROVE SequencesInv'
  BY <1>8 DEF Reconcile, SequencesInv, Numbered
<1>9. ASSUME NEW x \in Readers, LocateFull(x) \/ LocateWindow(x) \/ Resolve(x) \/ Served(x)
      PROVE  SequencesInv'
  BY <1>9 DEF SequencesInv, Numbered, LocateFull, LocateWindow, Resolve, Served
<1>10. CASE UNCHANGED vars
  BY <1>10 DEF vars, SequencesInv, Numbered
<1> QED BY <1>1, <1>2, <1>3, <1>4, <1>5, <1>6, <1>7, <1>8, <1>9, <1>10 DEF Next, Publish, Sweep

-----------------------------------------------------------------------------
(* The readers *)

LEMMA ReadersStep == Inv /\ [Next]_vars => ReadersInv'
<1> SUFFICES ASSUME Inv, [Next]_vars PROVE ReadersInv'
  OBVIOUS
<1> USE DEF Inv, attemptVars, indexVars, unchangedByReaders
<1>1. ASSUME NEW a \in Attempts, \/ Extract(a) \/ Fail(a) \/ Begin(a) \/ Place(a) \/ Refused(a)
                                 \/ Finish(a) \/ Crash(a) \/ Age(a) \/ RemoveTrash(a)
      PROVE  ReadersInv'
  <2>1. reader' = reader
    BY <1>1 DEF Extract, Fail, Begin, Place, Refused, Finish, Crash, Age, RemoveTrash
  <2> QED BY <2>1 DEF ReadersInv
<1>2. ASSUME NEW a \in Attempts, Point(a) PROVE ReadersInv'
  <2>1. CASE Mark(current[root[a]]) /\ current[root[a]] # None
    BY <2>1, MarkOne DEF Typed
  <2>2. CASE UNCHANGED <<mark, aged, reader>>
    BY <2>2 DEF ReadersInv
  <2> QED BY <1>2, <2>1, <2>2 DEF Point
<1>3. ASSUME NEW r \in Roots, Evict(r) PROVE ReadersInv'
  BY <1>3, EvictCurrent, MarkOne
<1>4. ASSUME NEW r \in Roots, Collect(r) PROVE ReadersInv'
  BY <1>4 DEF ReadersInv, Collect
<1>5. ASSUME NEW w \in Windows, Reconcile(w) PROVE ReadersInv'
  BY <1>5 DEF Reconcile, ReadersInv
<1>6. ASSUME NEW x \in Readers, LocateFull(x) \/ Resolve(x) PROVE ReadersInv'
  <2>1. PICK r \in Roots, t \in Attempts :
            \/ Take(x, r, t)
            \/ reader' = [reader EXCEPT ![x] = Idle]
    <3>1. CASE LocateFull(x)
      <4>1. Full \in Roots
        BY DEF Roots
      <4> QED BY <3>1, <4>1, PublishedIsCurrent DEF LocateFull
    <3>2. CASE Resolve(x)
      <4>1. reader[x].gen \in Attempts /\ reader[x].root \in Roots
        BY <3>2 DEF Resolve, ReadersInv
      <4> QED BY <3>2, <4>1 DEF Resolve
    <3> QED BY <1>6, <3>1, <3>2
  <2>2. CASE Take(x, r, t)
    BY <2>2 DEF Take, ReadersInv
  <2>3. CASE reader' = [reader EXCEPT ![x] = Idle]
    BY <2>3 DEF Idle, ReadersInv
  <2> QED BY <2>1, <2>2, <2>3
<1>7. ASSUME NEW x \in Readers, LocateWindow(x) PROVE ReadersInv'
  <2>1. PICK w \in Candidates :
          reader' = [reader EXCEPT ![x] = [Idle EXCEPT !.at = "located", !.root = w,
                                                       !.gen = index[w].gen]]
    BY <1>7 DEF LocateWindow
  <2>2. w \in Windows /\ index[w] # NoEntry
    BY DEF Candidates, Entries
  <2>3. index[w].gen \in Attempts /\ w \in Roots
    BY <2>2 DEF IndexInv, Roots
  <2> QED BY <2>1, <2>3 DEF Idle, ReadersInv
<1>8. ASSUME NEW x \in Readers, Served(x) PROVE ReadersInv'
  BY <1>8 DEF Served, Idle, ReadersInv
<1>9. CASE UNCHANGED vars
  BY <1>9 DEF vars, ReadersInv
<1> QED BY <1>1, <1>2, <1>3, <1>4, <1>5, <1>6, <1>7, <1>8, <1>9 DEF Next, Publish, Sweep

\* A reader takes what CURRENT names, or serves nothing.
LEMMA ReaderMoves ==
  ASSUME Inv, NEW x \in Readers, LocateFull(x) \/ LocateWindow(x) \/ Resolve(x) \/ Served(x)
  PROVE  /\ UNCHANGED <<root, file, current, mark, aged, faults>>
         /\ \/ \E r \in Roots : current[r] \in Attempts /\ Take(x, r, current[r])
            \/ \E i : i.at # "serving" /\ ~ i.late /\ reader' = [reader EXCEPT ![x] = i]
<1>1. UNCHANGED <<root, file, current, mark, aged, faults>>
  BY DEF LocateFull, LocateWindow, Resolve, Served, unchangedByReaders, attemptVars
<1>2. Idle.at = "idle" /\ ~ Idle.late
  BY DEF Idle
<1>3. CASE LocateFull(x)
  <2>1. Full \in Roots
    BY DEF Roots
  <2>2. Published(Full) \in Attempts /\ Published(Full) = current[Full] /\ Take(x, Full, Published(Full))
    BY <1>3, <2>1, PublishedIsCurrent DEF LocateFull, Inv
  <2> QED BY <1>1, <2>1, <2>2
<1>4. CASE LocateWindow(x)
  <2>1. PICK w \in Candidates :
          reader' = [reader EXCEPT ![x] = [Idle EXCEPT !.at = "located", !.root = w,
                                                       !.gen = index[w].gen]]
    BY <1>4 DEF LocateWindow
  <2> DEFINE i == [Idle EXCEPT !.at = "located", !.root = w, !.gen = index[w].gen]
  <2>2. i.at # "serving" /\ ~ i.late
    BY DEF Idle
  <2> HIDE DEF i
  <2>3. reader' = [reader EXCEPT ![x] = i]
    BY <2>1 DEF i
  <2> QED BY <1>1, <2>2, <2>3
<1>5. CASE Resolve(x)
  <2>1. reader[x].gen \in Attempts /\ reader[x].root \in Roots
    BY <1>5 DEF Resolve, ReadersInv, Inv
  <2>2. CASE Published(reader[x].root) = reader[x].gen
    <3>1. reader[x].gen # None
      BY <2>1, CacheAssumption DEF Attempts
    <3>2. current[reader[x].root] = reader[x].gen
      BY <2>1, <2>2, <3>1, PublishedIsCurrent DEF Inv
    <3> QED BY <1>1, <1>5, <2>1, <2>2, <3>2 DEF Resolve
  <2>3. CASE Published(reader[x].root) # reader[x].gen
    <3>1. reader' = [reader EXCEPT ![x] = Idle]
      BY <1>5, <2>3 DEF Resolve
    <3> QED BY <1>1, <1>2, <3>1
  <2> QED BY <2>2, <2>3
<1>6. CASE Served(x)
  <2>1. reader' = [reader EXCEPT ![x] = Idle]
    BY <1>6 DEF Served
  <2> QED BY <1>1, <1>2, <2>1
<1> QED BY <1>3, <1>4, <1>5, <1>6

LEMMA FaultlessStep == Inv /\ [Next]_vars => FaultlessInv'
<1> SUFFICES ASSUME Inv, [Next]_vars, faults' = 0
    PROVE  /\ \A r \in Roots : current'[r] # None => mark'[current'[r]] = 0
           /\ \A x \in Readers : ~ reader'[x].late
  BY DEF FaultlessInv
<1> USE DEF Inv, attemptVars, indexVars, unchangedByReaders
<1>0. faults \in Nat /\ \A r \in Roots : current[r] \in Attempts \cup {None}
  BY CacheAssumption DEF Typed
<1> DEFINE Goal == /\ \A r \in Roots : current'[r] # None => mark'[current'[r]] = 0
                   /\ \A x \in Readers : ~ reader'[x].late
<1>1. ASSUME NEW a \in Attempts, \/ Extract(a) \/ Fail(a) \/ Begin(a) \/ Place(a) \/ Refused(a)
                                 \/ Finish(a) \/ Age(a) \/ RemoveTrash(a)
      PROVE  Goal
  <2>1. UNCHANGED <<current, mark, reader, faults>>
    BY <1>1 DEF Extract, Fail, Begin, Place, Refused, Finish, Age, RemoveTrash
  <2> QED BY <2>1 DEF FaultlessInv
<1>2. ASSUME NEW a \in Attempts, Point(a) PROVE Goal
  <2>1. faults = 0 \/ faults' = faults + 1
    BY <1>0, <1>2, PointCurrent
  <2>2. faults = 0 /\ \A r \in Roots : current[r] # None => mark[current[r]] = 0
    BY <1>0, <2>1 DEF FaultlessInv
  <2>3. \A x \in Readers : ~ reader[x].late
    BY <2>2 DEF FaultlessInv
  <2>4. current' = [current EXCEPT ![root[a]] = a] /\ at[a] = "placed" /\ root[a] \in Roots
    BY <1>2 DEF Point, Typed
  <2>5. mark[a] = 0
    BY <2>4 DEF MarksInv, Ended
  <2>6. CASE current[root[a]] # None /\ Mark(current[root[a]])
    <3> DEFINE c == current[root[a]]
    <3>1. c \in Attempts /\ c # a /\ root[c] = root[a]
      BY <2>4, <2>6, PointedOver
    <3>2. \A b \in Attempts \ {c} : mark'[b] = mark[b]
      BY <2>6, <3>1, MarkOne
    <3>3. \A x \in Readers : ~ reader'[x].late
      BY <2>3, <2>6, <3>1, MarkOne
    <3>4. ASSUME NEW r \in Roots, current'[r] # None PROVE mark'[current'[r]] = 0
      <4>1. CASE r = root[a]
        <5>1. current'[r] = a
          BY <2>4, <4>1 DEF Typed
        <5> QED BY <2>5, <3>1, <3>2, <5>1
      <4>2. CASE r # root[a]
        <5>1. current'[r] = current[r] /\ current[r] \in Attempts /\ root[current[r]] = r
          BY <1>0, <2>4, <3>4, <4>2 DEF Typed, CurrentInv
        <5>2. current[r] # c /\ mark[current[r]] = 0
          BY <2>2, <3>1, <3>4, <4>2, <5>1
        <5> QED BY <3>2, <5>1, <5>2
      <4> QED BY <4>1, <4>2
    <3> QED BY <3>3, <3>4
  <2>7. CASE UNCHANGED <<mark, aged, reader>>
    BY <1>0, <2>2, <2>3, <2>4, <2>5, <2>7 DEF Typed
  <2> QED BY <1>2, <2>6, <2>7, PointCurrent
<1>3. ASSUME NEW a \in Attempts, Crash(a) PROVE Goal
  BY <1>0, <1>3 DEF Crash
<1>4. ASSUME NEW r \in Roots, Evict(r) PROVE Goal
  <2>1. faults = 0 /\ current' = [current EXCEPT ![r] = None]
    BY <1>0, <1>4, EvictCurrent
  <2> DEFINE c == current[r]
  <2>2. c \in Attempts /\ Mark(c)
    BY <1>4, EvictCurrent
  <2>3. \A b \in Attempts \ {c} : mark'[b] = mark[b]
    BY <2>2, MarkOne
  <2>4. \A x \in Readers : ~ reader'[x].late
    BY <2>1, <2>2, MarkOne DEF FaultlessInv
  <2>5. ASSUME NEW s \in Roots, current'[s] # None PROVE mark'[current'[s]] = 0
    <3>1. s # r /\ current'[s] = current[s] /\ current[s] \in Attempts
      BY <1>0, <2>1, <2>5 DEF Typed
    <3>2. root[current[s]] = s /\ root[c] = r
      BY <2>2, <2>5, <3>1, CacheAssumption DEF CurrentInv, Attempts
    <3>3. mark[current[s]] = 0
      BY <2>1, <2>5, <3>1 DEF FaultlessInv
    <3> QED BY <2>3, <3>1, <3>2, <3>3
  <2> QED BY <2>4, <2>5
<1>5. ASSUME NEW r \in Roots, Collect(r) PROVE Goal
  <2>1. UNCHANGED <<current, reader, faults>>
    BY <1>5 DEF Collect
  <2>2. ASSUME NEW s \in Roots, current[s] # None PROVE mark'[current[s]] = 0
    <3>1. current[s] \in Attempts /\ root[current[s]] = s /\ mark[current[s]] = 0
      BY <1>0, <2>1, <2>2 DEF CurrentInv, FaultlessInv
    <3> QED BY <1>5, <3>1, CollectVictims
  <2> QED BY <2>1, <2>2 DEF FaultlessInv
<1>6. ASSUME NEW w \in Windows, Reconcile(w) PROVE Goal
  BY <1>6 DEF Reconcile, FaultlessInv
<1>7. ASSUME NEW x \in Readers, NEW r \in Roots, NEW t \in Attempts,
             Take(x, r, t), t = current[r], UNCHANGED <<current, mark, faults>>
      PROVE  Goal
  <2>1. mark[t] = 0 /\ \A y \in Readers : ~ reader[y].late
    BY <1>7, CacheAssumption DEF FaultlessInv, Attempts
  <2>2. reader' = [reader EXCEPT ![x] = [at |-> "serving", root |-> r, gen |-> t, late |-> FALSE]]
    BY <1>7, <2>1 DEF Take
  <2> QED BY <1>7, <2>1, <2>2 DEF FaultlessInv, ReadersInv
<1>8. ASSUME NEW x \in Readers, NEW i, reader' = [reader EXCEPT ![x] = i], ~ i.late,
             UNCHANGED <<current, mark, faults>>
      PROVE  Goal
  BY <1>8 DEF FaultlessInv, ReadersInv
<1>9. ASSUME NEW x \in Readers, LocateFull(x) \/ LocateWindow(x) \/ Resolve(x) \/ Served(x)
      PROVE  Goal
  <2> HIDE DEF Goal
  <2>1. CASE \E r \in Roots : current[r] \in Attempts /\ Take(x, r, current[r])
    BY <1>7, <1>9, <2>1, ReaderMoves
  <2>2. CASE \E i : i.at # "serving" /\ ~ i.late /\ reader' = [reader EXCEPT ![x] = i]
    BY <1>8, <1>9, <2>2, ReaderMoves
  <2> QED BY <1>9, <2>1, <2>2, ReaderMoves
<1>10. CASE UNCHANGED vars
  BY <1>10 DEF vars, FaultlessInv
<1> QED BY <1>1, <1>2, <1>3, <1>4, <1>5, <1>6, <1>9, <1>10 DEF Next, Publish, Sweep

LEMMA ServingStep == Inv /\ [Next]_vars => ServingInv'
<1> SUFFICES ASSUME Inv, [Next]_vars, faults' <= 1,
                    NEW x \in Readers, reader'[x].at = "serving"
    PROVE  /\ file'[reader'[x].gen] = "final"
           /\ reader'[x].late => current'[root'[reader'[x].gen]] = reader'[x].gen
           /\ ~ reader'[x].late => reader'[x].gen \notin aged'
  BY DEF ServingInv
<1> USE DEF Inv, attemptVars, indexVars, unchangedByReaders
<1> DEFINE g == reader[x].gen
           Goal == /\ file'[reader'[x].gen] = "final"
                   /\ reader'[x].late => current'[root'[reader'[x].gen]] = reader'[x].gen
                   /\ ~ reader'[x].late => reader'[x].gen \notin aged'
           Before == /\ faults <= 1 /\ reader[x].at = "serving" /\ g \in Attempts /\ root[g] \in Roots
                     /\ file[g] = "final"
                     /\ reader[x].late => current[root[g]] = g
                     /\ ~ reader[x].late => g \notin aged
<1>0. faults \in Nat /\ \A r \in Roots : current[r] \in Attempts \cup {None}
  BY CacheAssumption DEF Typed
<1>1. faults <= 1 /\ reader[x].at = "serving" => Before
  BY DEF ServingInv, ReadersInv, Typed
<1>2. ASSUME NEW a \in Attempts, \/ Extract(a) \/ Fail(a) \/ Begin(a) \/ Place(a) \/ Refused(a)
                                 \/ Finish(a) \/ Crash(a) \/ RemoveTrash(a)
      PROVE  Goal
  <2>1. UNCHANGED <<root, current, aged, reader>>
    BY <1>2 DEF Extract, Fail, Begin, Place, Refused, Finish, Crash, RemoveTrash
  <2>2. Before
    BY <1>0, <1>1, <1>2, <2>1
       DEF Extract, Fail, Begin, Place, Refused, Finish, Crash, RemoveTrash
  <2>3. file' = file \/ \E b \in Attempts : \E p :
                           file' = [file EXCEPT ![b] = p] /\ (file[b] = "final" => p = "final")
    BY <1>2 DEF FilesInv, Extract, Fail, Begin, Place, Refused, Finish, Crash, RemoveTrash
  <2>4. file'[g] = "final"
    BY <2>2, <2>3 DEF Typed
  <2> QED BY <2>1, <2>2, <2>4
<1>3. ASSUME NEW a \in Attempts, Age(a) PROVE Goal
  <2>1. UNCHANGED <<root, at, file, current, reader, faults>> /\ aged' = aged \cup {a}
    BY <1>3 DEF Age
  <2>2. Before
    BY <1>1, <2>1
  <2>3. ~ reader[x].late => g # a
    BY <1>3, <2>2 DEF Age
  <2> QED BY <2>1, <2>2, <2>3
<1>4. ASSUME NEW t \in Attempts, Mark(t), faults <= 1, UNCHANGED <<root, file>>,
             \A b \in Attempts \ {t} : current[root[b]] = b => current'[root[b]] = b
      PROVE  Goal
  <2>1. /\ reader'[x].at = reader[x].at /\ reader'[x].gen = g
        /\ reader'[x].late = (g # t /\ reader[x].late) /\ aged' = aged \ {t}
    BY <1>4, MarkOne
  <2>2. Before
    BY <1>1, <1>4, <2>1
  <2> HIDE DEF g
  <2> QED BY <1>4, <2>1, <2>2
<1>5. ASSUME NEW a \in Attempts, Point(a) PROVE Goal
  <2>1. /\ UNCHANGED <<root, file>> /\ faults <= 1 /\ root[a] \in Roots /\ at[a] = "placed"
        /\ current' = [current EXCEPT ![root[a]] = a]
    BY <1>0, <1>5, PointCurrent DEF Point, Typed
  <2>2. CASE current[root[a]] # None /\ Mark(current[root[a]])
    <3> DEFINE c == current[root[a]]
    <3>1. c \in Attempts /\ Mark(c)
      BY <1>0, <2>1, <2>2
    <3>2. ASSUME NEW b \in Attempts \ {c}, current[root[b]] = b PROVE current'[root[b]] = b
      BY <2>1, <3>2 DEF Typed
    <3> HIDE DEF Goal, c
    <3> QED BY <1>4, <2>1, <3>1, <3>2
  <2>3. CASE /\ UNCHANGED <<mark, aged, reader>>
             /\ current[root[a]] = None \/ faults' = faults + 1
    <3>1. Before
      BY <1>1, <2>1, <2>3
    <3>2. reader[x].late => current'[root[g]] = g
      <4>1. SUFFICES ASSUME reader[x].late PROVE root[g] # root[a]
        BY <2>1, <3>1 DEF Typed
      <4>2. current[root[g]] = g /\ g # None
        BY <3>1, <4>1, CacheAssumption DEF Attempts
      <4>3. faults # 0
        BY <4>1 DEF FaultlessInv
      <4>4. current[root[a]] = None
        BY <1>0, <2>3, <4>3
      <4> QED BY <4>2, <4>4
    <3> QED BY <2>1, <2>3, <3>1, <3>2
  <2> HIDE DEF Goal
  <2> QED BY <1>5, <2>2, <2>3, PointCurrent
<1>6. ASSUME NEW r \in Roots, Evict(r) PROVE Goal
  <2>1. /\ UNCHANGED <<root, file>> /\ faults <= 1 /\ current[r] \in Attempts /\ Mark(current[r])
        /\ current' = current \/ current' = [current EXCEPT ![r] = None]
    BY <1>0, <1>6, EvictCurrent
  <2>2. ASSUME NEW b \in Attempts \ {current[r]}, current[root[b]] = b PROVE current'[root[b]] = b
    BY <2>1, <2>2 DEF Typed
  <2> HIDE DEF Goal
  <2> QED BY <1>4, <2>1, <2>2
<1>7. ASSUME NEW r \in Roots, Collect(r) PROVE Goal
  <2>1. UNCHANGED <<root, current, aged, reader, faults>>
    BY <1>7 DEF Collect
  <2>2. Before
    BY <1>1, <2>1
  <2>3. ~ (g \in aged /\ root[g] = r /\ g # current[r])
    BY <2>2
  <2>4. file'[g] = "final"
    BY <1>7, <2>2, <2>3, CollectVictims
  <2> QED BY <2>1, <2>2, <2>4
<1>8. ASSUME NEW w \in Windows, Reconcile(w) PROVE Goal
  BY <1>1, <1>8 DEF Reconcile
<1>9. ASSUME NEW y \in Readers, LocateFull(y) \/ LocateWindow(y) \/ Resolve(y) \/ Served(y)
      PROVE  Goal
  <2>1. UNCHANGED <<root, file, current, mark, aged, faults>>
    BY <1>9, ReaderMoves
  <2>2. CASE reader'[x] = reader[x]
    BY <1>1, <2>1, <2>2
  <2>3. CASE \E r \in Roots : current[r] \in Attempts /\ Take(y, r, current[r]) /\ x = y
    <3>1. PICK r \in Roots : current[r] \in Attempts /\ Take(x, r, current[r])
      BY <2>3
    <3> DEFINE c == current[r]
    <3>2. root[c] = r /\ file[c] = "final"
      BY <3>1, CacheAssumption DEF CurrentInv, Attempts
    <3>3. reader'[x] = [at |-> "serving", root |-> r, gen |-> c, late |-> mark[c] # 0]
      BY <3>1 DEF Take, ReadersInv
    <3>4. mark[c] = 0 => c \notin aged
      BY <3>1, <3>2 DEF MarksInv
    <3> HIDE DEF c
    <3>5. reader'[x].gen = c /\ reader'[x].late = (mark[c] # 0) /\ current[root[c]] = c
      BY <3>2, <3>3 DEF c
    <3> QED BY <2>1, <3>2, <3>4, <3>5
  <2>4. CASE \E i : i.at # "serving" /\ ~ i.late /\ reader' = [reader EXCEPT ![y] = i] /\ x = y
    BY <2>4 DEF ReadersInv
  <2>5. x # y => reader'[x] = reader[x]
    <3>1. (\E r : Take(y, r, current[r])) \/ (\E i : reader' = [reader EXCEPT ![y] = i])
      BY <1>9, ReaderMoves
    <3> QED BY <3>1 DEF Take, ReadersInv
  <2> HIDE DEF Goal
  <2> QED BY <1>9, <2>2, <2>3, <2>4, <2>5, ReaderMoves
<1>10. CASE UNCHANGED vars
  BY <1>1, <1>10 DEF vars
<1> HIDE DEF Goal
<1>11. ASSUME NEW a \in Attempts, \/ Extract(a) \/ Publish(a) \/ Fail(a) \/ Crash(a)
                                  \/ Age(a) \/ RemoveTrash(a)
       PROVE  Goal
  BY <1>2, <1>3, <1>5, <1>11 DEF Publish
<1>12. ASSUME NEW r \in Roots, Evict(r) \/ Sweep(r) PROVE Goal
  BY <1>6, <1>7, <1>8, <1>12 DEF Sweep
<1>13. Next \/ UNCHANGED vars
  OBVIOUS
<1> HIDE DEF Inv
<1>14. ASSUME Next PROVE Goal
  <2>1. CASE \E a \in Attempts : \/ Extract(a) \/ Publish(a) \/ Fail(a) \/ Crash(a)
                                \/ Age(a) \/ RemoveTrash(a)
    BY <1>11, <2>1
  <2>2. CASE \E r \in Roots : Evict(r) \/ Sweep(r)
    BY <1>12, <2>2
  <2>3. CASE \E y \in Readers : LocateFull(y) \/ LocateWindow(y) \/ Resolve(y) \/ Served(y)
    BY <1>9, <2>3
  <2> QED BY <1>14, <2>1, <2>2, <2>3 DEF Next
<1> QED BY <1>10, <1>13, <1>14 DEF Goal

-----------------------------------------------------------------------------
(* The theorems *)

LEMMA InvStep == Inv /\ [Next]_vars => Inv'
<1> SUFFICES ASSUME Inv, [Next]_vars PROVE Inv'
  OBVIOUS
<1> QED BY TypedStep, SequencesStep, FilesStep, LocksStep, MarksStep, CurrentStep, IndexStep,
           ReadersStep, FaultlessStep, ServingStep DEF Inv

LEMMA InvAlways == Spec => []Inv
BY InvInit, InvStep, PTL DEF Spec

\* A sequence for every attempt is enough for the windows.
LEMMA FewSequences == Inv => sequence \in 0..MaxAttempts
<1> SUFFICES ASSUME Inv PROVE sequence \in 0..MaxAttempts
  OBVIOUS
<1>1. IsFiniteSet(Attempts) /\ Cardinality(Attempts) = MaxAttempts
  BY FS_Interval, CacheAssumption DEF Attempts
<1>2. Numbered \subseteq Attempts
  BY DEF Numbered
<1>3. Cardinality(Numbered) <= MaxAttempts /\ Cardinality(Numbered) \in Nat
  BY <1>1, <1>2, FS_Subset, FS_CardinalityType
<1>4. MaxAttempts \in Nat
  BY CacheAssumption
<1> QED BY <1>3, <1>4 DEF Inv, SequencesInv

LEMMA TypesFollow == Inv => TypeOK
<1> SUFFICES ASSUME Inv PROVE TypeOK
  OBVIOUS
<1> USE DEF Inv
<1>1. sequence \in 0..MaxAttempts /\ MaxAttempts \in Nat
  BY FewSequences, CacheAssumption
<1>2. \A a \in Attempts : seq[a] \in 0..MaxAttempts
  BY <1>1 DEF SequencesInv
<1>3. \A w \in Windows : index[w].seq \in 0..MaxAttempts
  BY <1>1, <1>2 DEF IndexInv, NoEntry
<1>4. seq \in [Attempts -> 0..MaxAttempts]
  BY <1>2 DEF SequencesInv
<1>5. index \in [Windows -> [seq : 0..MaxAttempts, gen : Attempts \cup {None}]]
  BY <1>3 DEF IndexInv
<1> QED BY <1>1, <1>4, <1>5 DEF TypeOK, Typed, Begun, Ended, Places

\* CURRENT names a complete generation, the index can always be read and names
\* only generations that were published, whoever died between its steps and
\* however often (publish_generation, _allocate_window_sequence_locked,
\* _reconcile_window_index).
THEOREM CacheIsSound == Spec => []CacheSound
<1>1. Inv => CacheSound
  <2> SUFFICES ASSUME Inv PROVE CacheSound
    OBVIOUS
  <2>1. \A r \in Roots : current[r] # None => file[current[r]] = "final"
    BY DEF Inv, CurrentInv
  <2>2. \A w \in Entries : /\ root[index[w].gen] = w /\ seq[index[w].gen] = index[w].seq
                           /\ at[index[w].gen] \in {"done", "dead"}
    BY DEF Inv, IndexInv, Entries
  <2> QED BY <2>1, <2>2, TypesFollow, IndexedIsReadable DEF CacheSound
<1> QED BY <1>1, InvAlways, PTL

\* Until the second fault, the file a reader resolved is there until its
\* response ends: the marks and the grace period protect who takes no lock
\* (locate_frame, publish_generation, _retire_proxy_root,
\* collect_stale_generations).
THEOREM ServedFramesExist == Spec => [](faults <= 1 => ServedFrameExists)
<1>1. Inv => (faults <= 1 => ServedFrameExists)
  BY DEF Inv, ServingInv, ServedFrameExists
<1> QED BY <1>1, InvAlways, PTL

====
