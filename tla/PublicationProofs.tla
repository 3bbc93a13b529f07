------------------------- MODULE PublicationProofs -------------------------
(***************************************************************************)
(* Proofs about the jobs that publish a directory: ExportPublish, for any  *)
(* finite set of segments, any number of revisions and attempts, and any   *)
(* number of crashes and file system errors; and DatasetPublish, for any   *)
(* number of requests, of versions of a source and of leases.              *)
(***************************************************************************)
EXTENDS ExportPublish, DatasetPublish, WellFoundedInduction, TLAPS

(***************************************************************************)
(*                              ExportPublish                              *)
(***************************************************************************)

\* What the attempt a has staged, and publishes.
Output(a) == [n \in Segment |-> IF n \in SegmentsOf[forRevision[a]] THEN a ELSE 0]

By == journal.attempt

Publishing == {"making", "retiring", "installing", "marking", "clearing"}
Restoring  == {"restoring", "restored"}

-----------------------------------------------------------------------------
(* Sets of segments and directories *)

LEMMA Numbers == /\ Segment \subseteq Nat /\ MaxRevision \in Nat \ {0} /\ MaxAttempts \in Nat
                 /\ 0 \in 0..MaxRevision /\ 0 \in 0..MaxAttempts
                 /\ Attempt = (0..MaxAttempts) \ {0}
                 /\ Revision = (0..MaxRevision) \ {0}
BY ExportAssumption DEF Attempt, Revision

LEMMA Segments == \A r \in Revision : SegmentsOf[r] \subseteq Segment
BY ExportAssumption DEF Revision

LEMMA Smallest ==
  ASSUME NEW S, S \subseteq Segment, S # {}
  PROVE  First(S) \in S /\ \A m \in S : First(S) <= m
<1>1. S \subseteq Nat
  BY Numbers
<1>2. \E n \in S : \A m \in S : ~ (<<m, n>> \in OpToRel(<, Nat))
  BY <1>1, NatLessThanWellFounded, WFMin, Zenon
<1>3. PICK n \in S : \A m \in S : ~ (m < n)
  BY <1>1, <1>2 DEF OpToRel
<1>4. \A m \in S : n <= m
  BY <1>1, <1>3
<1> QED BY <1>3, <1>4 DEF First

LEMMA EmptyDir == Empty \in Dir /\ \A n \in Segment : Empty[n] = 0
BY Numbers DEF Empty, Dir

LEMMA PutDir ==
  ASSUME NEW dir \in Dir, NEW n \in Segment, NEW gen \in 0..MaxAttempts
  PROVE  /\ Put(dir, n, gen) \in Dir
         /\ \A m \in Segment : Put(dir, n, gen)[m] = IF m = n THEN gen ELSE dir[m]
BY DEF Put, Dir

-----------------------------------------------------------------------------
(* Types, part by part *)

Phases == {"none", "staged", "stale", "published", "failed", "crashed", "reported"}

JournalTyped ==
  Pending => journal \in [attempt: Attempt, owner: Revision, new: SUBSET Segment,
                          old: SUBSET Segment, previousOwner: 0..MaxRevision,
                          rootExisted: BOOLEAN]

DiskTyped ==
  /\ root \in Dir /\ trash \in Dir /\ rubbish \in Dir
  /\ rootExists \in BOOLEAN /\ owner \in 0..MaxRevision

EntryTyped ==
  /\ revision \in Revision /\ noBoom \in BOOLEAN
  /\ {exported, completed, cleanup} \subseteq 0..MaxRevision

AttemptsTyped ==
  /\ staging \in [Attempt -> Dir]
  /\ phase \in [Attempt -> Phases]
  /\ forRevision \in [Attempt -> 0..MaxRevision]

InsideTyped ==
  /\ pc \in {"free", "opened", "writing", "cleaning"} \cup Publishing \cup Restoring
  /\ holder \in 0..MaxAttempts /\ todo \subseteq Segment /\ moved \subseteq Segment
  /\ failing \in BOOLEAN

CountersTyped == cleaned \in BOOLEAN /\ ioErrors \in Nat

Typed == JournalTyped /\ DiskTyped /\ EntryTyped /\ AttemptsTyped /\ InsideTyped /\ CountersTyped

LEMMA TypedParts == Typed => TypeOK
BY DEF TypeOK, Typed, JournalTyped, DiskTyped, EntryTyped, AttemptsTyped, InsideTyped,
       CountersTyped, Phases, Publishing, Restoring

-----------------------------------------------------------------------------
(* Attempts, and who is inside the lock *)

\* No marker and no export is of a revision to come.
EntryInv ==
  /\ exported <= revision /\ owner <= revision
  /\ noBoom => cleanup < revision

\* An attempt that has not ended still has everything it staged, but for the one
\* whose publication is pending.
StagedInv ==
  \A a \in Attempt :
    /\ forRevision[a] <= revision
    /\ phase[a] = "none" <=> forRevision[a] = 0
    /\ phase[a] = "staged" /\ ~ (Pending /\ a = By) => staging[a] = Output(a)

\* The journal is that of an attempt, for a revision that is not older than the
\* one it replaces.
WrittenInv ==
  Pending => /\ phase[By] # "none"
             /\ journal.owner = forRevision[By]
             /\ NewNames = SegmentsOf[journal.owner]
             /\ journal.previousOwner <= journal.owner

\* Who is inside the lock, and for what.
InsideInv ==
  /\ pc \in {"free", "cleaning"} => holder = 0
  /\ holder # 0 => phase[holder] = "staged" /\ forRevision[holder] = revision
  /\ pc \in Publishing \cup {"writing"} => holder # 0 /\ ~ failing
  /\ pc \in Publishing => Pending /\ By = holder
  /\ pc \in Restoring => Pending
  /\ pc = "writing" => ~ Pending
  /\ failing => Pending /\ holder = By /\ ioErrors > 0
  /\ Pending /\ phase[By] = "staged" => holder = By /\ (failing \/ pc \in Publishing)

\* A cleanup is of an older revision, and has not moved what it has still to do.
CleaningInv ==
  /\ pc # "cleaning" => moved = {}
  /\ pc = "cleaning" => /\ noBoom /\ cleaned /\ rootExists /\ owner < revision
                        /\ moved \cap todo = {}
                        /\ \A n \in Segment : n \in moved => root[n] = 0

ControlInv == Typed /\ EntryInv /\ StagedInv /\ WrittenInv /\ InsideInv /\ CleaningInv

USE DEF disk, annotation, attempts, inside, bounds

\* What a step that leaves the variables of a part alone keeps of it.
LEMMA Frames ==
  /\ JournalTyped /\ UNCHANGED journal => JournalTyped'
  /\ DiskTyped /\ UNCHANGED <<root, rootExists, owner, trash, rubbish>> => DiskTyped'
  /\ EntryTyped /\ UNCHANGED annotation => EntryTyped'
  /\ AttemptsTyped /\ UNCHANGED <<staging, attempts>> => AttemptsTyped'
  /\ InsideTyped /\ UNCHANGED inside => InsideTyped'
  /\ CountersTyped /\ UNCHANGED <<cleaned, ioErrors>> => CountersTyped'
  /\ EntryInv /\ UNCHANGED <<annotation, owner>> => EntryInv'
  /\ StagedInv /\ UNCHANGED <<staging, attempts, revision, journal>> => StagedInv'
  /\ WrittenInv /\ UNCHANGED <<attempts, journal>> => WrittenInv'
  /\ InsideInv /\ UNCHANGED <<inside, attempts, revision, journal, ioErrors>> => InsideInv'
<1>1. JournalTyped /\ UNCHANGED journal => JournalTyped'
  BY DEF JournalTyped, Pending
<1>2. DiskTyped /\ UNCHANGED <<root, rootExists, owner, trash, rubbish>> => DiskTyped'
  BY DEF DiskTyped
<1>3. EntryTyped /\ UNCHANGED annotation => EntryTyped'
  BY DEF EntryTyped
<1>4. AttemptsTyped /\ UNCHANGED <<staging, attempts>> => AttemptsTyped'
  BY DEF AttemptsTyped
<1>5. InsideTyped /\ UNCHANGED inside => InsideTyped'
  BY DEF InsideTyped
<1>6. CountersTyped /\ UNCHANGED <<cleaned, ioErrors>> => CountersTyped'
  BY DEF CountersTyped
<1>7. EntryInv /\ UNCHANGED <<annotation, owner>> => EntryInv'
  BY DEF EntryInv
<1>8. StagedInv /\ UNCHANGED <<staging, attempts, revision, journal>> => StagedInv'
  BY DEF StagedInv, Pending, By, Output
<1>9. WrittenInv /\ UNCHANGED <<attempts, journal>> => WrittenInv'
  BY DEF WrittenInv, Pending, By, NewNames
<1>10. InsideInv /\ UNCHANGED <<inside, attempts, revision, journal, ioErrors>> => InsideInv'
  BY DEF InsideInv, Pending, By
<1> QED BY <1>1, <1>2, <1>3, <1>4, <1>5, <1>6, <1>7, <1>8, <1>9, <1>10

LEMMA Errors ==
  ASSUME CountersTyped, IoError, UNCHANGED cleaned
  PROVE  CountersTyped' /\ ioErrors' > 0 /\ (ioErrors > 0 => ioErrors' > 1)
BY DEF CountersTyped, IoError

\* Whoever is inside leaves, in whatever way: returning, raising or killed.
LEMMA Leaving ==
  ASSUME ControlInv,
         NEW outcome \in Phases \ {"none", "staged"},
         phase' = IF holder = 0 THEN phase ELSE [phase EXCEPT ![holder] = outcome],
         staging' \in [Attempt -> Dir],
         \A a \in Attempt \ {holder} : staging'[a] = staging[a],
         UNCHANGED <<forRevision, revision>>,
         Unlock,
         journal' = journal \/ journal' = NoJournal
  PROVE  /\ JournalTyped' /\ AttemptsTyped' /\ InsideTyped'
         /\ StagedInv' /\ WrittenInv' /\ InsideInv' /\ CleaningInv'
<1>1. Pending' => Pending /\ journal' = journal
  BY DEF Pending
<1>2. AttemptsTyped'
  BY DEF ControlInv, Typed, AttemptsTyped
<1>3. InsideTyped'
  <2>1. 0 \in 0..MaxAttempts
    BY Numbers
  <2> QED BY <2>1 DEF InsideTyped, Unlock
<1>4. JournalTyped'
  BY <1>1 DEF ControlInv, Typed, JournalTyped
<1>5. \A a \in Attempt : /\ a = holder => phase'[a] = outcome
                         /\ a # holder => phase'[a] = phase[a]
  <2>1. holder = 0 => \A a \in Attempt : a # holder
    BY Numbers
  <2> QED BY <2>1 DEF ControlInv, Typed, AttemptsTyped
<1>6. StagedInv'
  <2> SUFFICES ASSUME NEW a \in Attempt
               PROVE  /\ forRevision'[a] <= revision'
                      /\ phase'[a] = "none" <=> forRevision'[a] = 0
                      /\ phase'[a] = "staged" /\ ~ (Pending' /\ a = By') => staging'[a] = Output(a)'
    BY DEF StagedInv
  <2>1. /\ forRevision[a] <= revision
        /\ phase[a] = "none" <=> forRevision[a] = 0
        /\ phase[a] = "staged" /\ ~ (Pending /\ a = By) => staging[a] = Output(a)
    BY DEF ControlInv, StagedInv
  <2>2. CASE a = holder
    <3>1. phase[a] = "staged"
      BY <2>2, Numbers DEF ControlInv, InsideInv
    <3> QED BY <2>1, <2>2, <3>1, <1>5
  <2>3. CASE a # holder
    <3>1. phase[a] = "staged" => ~ (Pending /\ a = By)
      BY <2>3 DEF ControlInv, InsideInv
    <3>2. Output(a)' = Output(a)
      BY DEF Output
    <3> QED BY <2>1, <2>3, <3>1, <3>2, <1>5
  <2> QED BY <2>2, <2>3
<1>7. Pending => By \in Attempt
  BY DEF ControlInv, Typed, JournalTyped, By
<1>8. WrittenInv'
  <2> SUFFICES ASSUME Pending'
               PROVE  /\ phase'[By] # "none"
                      /\ journal.owner = forRevision[By]
                      /\ NewNames = SegmentsOf[journal.owner]
                      /\ journal.previousOwner <= journal.owner
    BY <1>1 DEF WrittenInv, By, NewNames
  <2>1. phase'[By] # "none"
    BY <1>1, <1>5, <1>7 DEF ControlInv, WrittenInv
  <2> QED BY <1>1, <2>1 DEF ControlInv, WrittenInv
<1>9. InsideInv'
  <2>1. Pending' => phase'[By'] # "staged"
    <3>1. Pending' => By' = By
      BY <1>1 DEF By
    <3> QED BY <1>1, <1>5, <1>7, <3>1 DEF ControlInv, InsideInv
  <2> QED BY <2>1 DEF InsideInv, Unlock, Publishing, Restoring
<1>10. CleaningInv'
  BY DEF CleaningInv, Unlock
<1> QED BY <1>2, <1>3, <1>4, <1>6, <1>8, <1>9, <1>10

Outcomes == {"stale", "published", "failed"}

\* The process returns or raises, with the journal or without it.
LEMMA Returning ==
  ASSUME ControlInv,
         NEW outcome \in Outcomes, Ended(holder, outcome), Unlock,
         UNCHANGED revision,
         journal' = journal \/ journal' = NoJournal
  PROVE  /\ JournalTyped' /\ AttemptsTyped' /\ InsideTyped'
         /\ StagedInv' /\ WrittenInv' /\ InsideInv' /\ CleaningInv'
<1>1. /\ staging' \in [Attempt -> Dir]
      /\ \A a \in Attempt \ {holder} : staging'[a] = staging[a]
  BY EmptyDir DEF Ended, ControlInv, Typed, AttemptsTyped
<1>2. outcome \in Phases \ {"none", "staged"}
  BY DEF Outcomes, Phases
<1>3. /\ phase' = IF holder = 0 THEN phase ELSE [phase EXCEPT ![holder] = outcome]
      /\ UNCHANGED forRevision
  BY DEF Ended
<1> HIDE DEF Outcomes
<1> QED BY <1>1, <1>2, <1>3, Leaving

\* A recovery that found nothing to do, or did it.
LEMMA AfterRecovery ==
  ASSUME ControlInv,
         NEW result, Recovered(result), pc \in {"opened", "restored"},
         UNCHANGED revision,
         (~ Pending /\ UNCHANGED journal) \/ journal' = NoJournal
  PROVE  /\ JournalTyped' /\ AttemptsTyped' /\ InsideTyped'
         /\ StagedInv' /\ WrittenInv' /\ InsideInv' /\ CleaningInv'
<1>1. CASE holder # 0 /\ ~ failing
  <2>1. /\ pc' = "writing"
        /\ UNCHANGED <<phase, forRevision, staging, holder, todo, moved, failing>>
    BY <1>1 DEF Recovered
  <2>2. ~ Pending'
    BY DEF Pending
  <2>3. JournalTyped' /\ AttemptsTyped' /\ InsideTyped' /\ WrittenInv' /\ CleaningInv'
    BY <2>1, <2>2 DEF JournalTyped, AttemptsTyped, InsideTyped, WrittenInv, CleaningInv,
                      ControlInv, Typed
  <2>4. InsideInv'
    BY <1>1, <2>1, <2>2 DEF InsideInv, ControlInv, Publishing, Restoring
  <2>5. Pending => phase[By] # "staged"
    BY <1>1 DEF ControlInv, InsideInv, Publishing
  <2>6. StagedInv'
    BY <2>1, <2>2, <2>5 DEF StagedInv, ControlInv, Output
  <2> QED BY <2>3, <2>4, <2>6
<1>2. CASE ~ (holder # 0 /\ ~ failing)
  <2>1. PICK outcome \in Outcomes : Ended(holder, outcome) /\ Unlock
    BY <1>2 DEF Recovered, Outcomes
  <2> QED BY <2>1, Returning
<1> QED BY <1>1, <1>2

\* Opening the root, the entry, and errors outside the recovery.
LEMMA ControlRequests ==
  ASSUME ControlInv, OpenRoot \/ Save \/ MarkNoObject \/ PublishFails \/ Crash
  PROVE  ControlInv'
<1> USE DEF ControlInv, Typed
<1>1. CASE OpenRoot
  <2>1. InsideTyped' /\ CleaningInv'
    BY <1>1, Numbers DEF OpenRoot, InsideTyped, CleaningInv
  <2>2. InsideInv'
    BY <1>1 DEF OpenRoot, InsideInv, Pending, By, Publishing, Restoring
  <2> QED BY <1>1, <2>1, <2>2, Frames DEF OpenRoot
<1>2. CASE Save \/ MarkNoObject
  <2>1. /\ pc = "free" /\ revision' = revision + 1 /\ revision < MaxRevision
        /\ UNCHANGED <<disk, attempts, inside, bounds>>
    BY <1>2 DEF Save, MarkNoObject
  <2>2. revision' \in Revision /\ revision <= revision'
    BY <2>1, Numbers DEF EntryTyped, Revision
  <2>3. noBoom' \in BOOLEAN
    BY <1>2 DEF Save, MarkNoObject
  <2>4. {exported', completed', cleanup'} \subseteq 0..MaxRevision
    BY <1>2, Numbers DEF Save, MarkNoObject, EntryTyped
  <2>5. EntryInv'
    <3>1. exported' \in {exported, 0} /\ owner' = owner /\ (noBoom' => cleanup' = exported)
      BY <1>2 DEF Save, MarkNoObject
    <3>2. revision \in Nat /\ exported \in Nat /\ owner \in Nat
      BY Numbers DEF EntryTyped, Revision, DiskTyped
    <3> QED BY <3>1, <3>2, <2>1 DEF EntryInv
  <2>6. StagedInv'
    <3> SUFFICES ASSUME NEW a \in Attempt
                 PROVE  /\ forRevision'[a] <= revision'
                        /\ phase'[a] = "none" <=> forRevision'[a] = 0
                        /\ phase'[a] = "staged" /\ ~ (Pending' /\ a = By')
                             => staging'[a] = Output(a)'
      BY DEF StagedInv
    <3>1. forRevision[a] \in Nat /\ revision \in Nat
      BY Numbers DEF EntryTyped, Revision, AttemptsTyped
    <3>2. forRevision[a] <= revision'
      BY <3>1, <2>1 DEF StagedInv
    <3>3. UNCHANGED <<forRevision, phase, staging, journal>>
      BY <2>1
    <3> QED BY <3>2, <3>3 DEF StagedInv, Pending, By, Output
  <2>7. InsideInv'
    <3>1. UNCHANGED <<inside, phase, forRevision, journal, ioErrors>> /\ holder = 0
      BY <2>1 DEF InsideInv
    <3> QED BY <2>1, <3>1 DEF InsideInv, Pending, By, Publishing, Restoring
  <2>8. CleaningInv'
    BY <2>1 DEF CleaningInv
  <2>9. EntryTyped'
    BY <2>2, <2>3, <2>4 DEF EntryTyped
  <2> HIDE DEF EntryTyped
  <2> QED BY <2>1, <2>5, <2>6, <2>7, <2>8, <2>9, Frames
<1>3. CASE PublishFails
  <2>1. /\ pc \in Publishing /\ pc' = "opened" /\ todo' = {} /\ failing' = TRUE
        /\ UNCHANGED <<disk, annotation, attempts, holder, moved, crashes, cleaned>>
    BY <1>3 DEF PublishFails, Publishing
  <2>2. InsideTyped' /\ CleaningInv'
    BY <2>1 DEF InsideTyped, CleaningInv, Publishing
  <2>3. ioErrors' > 0 /\ CountersTyped'
    BY <1>3, Errors DEF PublishFails
  <2>4. InsideInv'
    BY <2>1, <2>3 DEF InsideInv, Pending, By, Publishing, Restoring
  <2> QED BY <2>1, <2>2, <2>3, <2>4, Frames
<1>4. CASE Crash
  <2>1. /\ pc # "free" /\ Unlock
        /\ phase' = IF holder = 0 THEN phase ELSE [phase EXCEPT ![holder] = "crashed"]
        /\ UNCHANGED <<disk, annotation, forRevision, cleaned, ioErrors>>
    BY <1>4 DEF Crash
  <2>2. "crashed" \in Phases \ {"none", "staged"}
    BY DEF Phases
  <2>3. staging' \in [Attempt -> Dir] /\ \A a \in Attempt \ {holder} : staging'[a] = staging[a]
    BY <2>1 DEF AttemptsTyped
  <2> HIDE DEF Typed, ControlInv
  <2>4. /\ JournalTyped' /\ AttemptsTyped' /\ InsideTyped'
        /\ StagedInv' /\ WrittenInv' /\ InsideInv' /\ CleaningInv'
    BY <2>1, <2>2, <2>3, Leaving
  <2> QED BY <2>1, <2>4, Frames DEF ControlInv, Typed
<1> QED BY <1>1, <1>2, <1>3, <1>4

LEMMA ControlAttempts ==
  ASSUME ControlInv, NEW a \in Attempt,
         StartAttempt(a) \/ BeginPublish(a) \/ CompleteExport(a)
  PROVE  ControlInv'
<1> USE DEF ControlInv, Typed
<1>1. CASE StartAttempt(a)
  <2>1. /\ pc = "free" /\ ~ Pending /\ phase[a] = "none"
        /\ phase' = [phase EXCEPT ![a] = "staged"]
        /\ forRevision' = [forRevision EXCEPT ![a] = revision]
        /\ staging' = [staging EXCEPT ![a] =
                         [n \in Segment |-> IF n \in SegmentsOf[revision] THEN a ELSE 0]]
        /\ UNCHANGED <<root, rootExists, owner, trash, journal, rubbish, annotation,
                       inside, bounds>>
    BY <1>1 DEF StartAttempt
  <2>2. [n \in Segment |-> IF n \in SegmentsOf[revision] THEN a ELSE 0] \in Dir
    BY Numbers DEF Dir
  <2>3. revision \in 0..MaxRevision /\ revision # 0 /\ revision <= revision
    BY Numbers DEF EntryTyped
  <2>4. AttemptsTyped'
    BY <2>1, <2>2, <2>3 DEF AttemptsTyped, Phases
  <2>5. ~ Pending'
    BY <2>1 DEF Pending
  <2>6. WrittenInv' /\ CleaningInv'
    BY <2>1, <2>5 DEF WrittenInv, CleaningInv
  <2>7. holder = 0
    BY <2>1 DEF InsideInv
  <2>8. InsideInv'
    BY <2>1, <2>5, <2>7 DEF InsideInv, Pending
  <2>9. StagedInv'
    <3> SUFFICES ASSUME NEW b \in Attempt
                 PROVE  /\ forRevision'[b] <= revision'
                        /\ phase'[b] = "none" <=> forRevision'[b] = 0
                        /\ staging'[b] = Output(b)' \/ phase'[b] # "staged"
      BY <2>5 DEF StagedInv
    <3>1. CASE b = a
      BY <3>1, <2>1, <2>3 DEF AttemptsTyped, Output
    <3>2. CASE b # a
      BY <3>2, <2>1 DEF AttemptsTyped, Output, StagedInv
    <3> QED BY <3>1, <3>2
  <2> QED BY <2>1, <2>4, <2>6, <2>8, <2>9, Frames
<1>2. CASE BeginPublish(a) /\ forRevision[a] = revision /\ ~ noBoom
  <2>1. /\ pc = "free" /\ phase[a] = "staged" /\ pc' = "opened" /\ holder' = a
        /\ UNCHANGED <<phase, forRevision, staging, todo, moved, failing, disk,
                       annotation, bounds>>
    BY <1>2 DEF BeginPublish
  <2>2. InsideTyped' /\ CleaningInv'
    BY <2>1, Numbers DEF InsideTyped, CleaningInv
  <2>3. Pending => phase[By] # "staged" /\ ~ failing
    BY <2>1, Numbers DEF InsideInv, Publishing, JournalTyped, By
  <2>4. InsideInv'
    BY <1>2, <2>1, <2>3 DEF InsideInv, Pending, By, Publishing, Restoring
  <2> QED BY <2>1, <2>2, <2>4, Frames
<1>3. CASE BeginPublish(a) /\ ~ (forRevision[a] = revision /\ ~ noBoom)
  <2>1. /\ pc = "free" /\ phase[a] = "staged"
        /\ Ended(a, "stale")
        /\ UNCHANGED <<root, rootExists, owner, trash, journal, rubbish, annotation,
                       bounds, inside>>
    BY <1>3 DEF BeginPublish
  <2>2. /\ phase' = [phase EXCEPT ![a] = "stale"]
        /\ staging' = [staging EXCEPT ![a] = Empty]
        /\ UNCHANGED forRevision
    BY <2>1, Numbers DEF Ended
  <2>3. AttemptsTyped'
    BY <2>2, EmptyDir DEF AttemptsTyped, Phases
  <2>4. holder = 0 /\ (Pending => phase[By] # "staged" /\ By # a)
    BY <2>1, Numbers DEF InsideInv, JournalTyped, By
  <2>5. InsideInv'
    BY <2>1, <2>2, <2>4 DEF InsideInv, Pending, By, AttemptsTyped, Publishing, Restoring
  <2>6. WrittenInv'
    BY <2>1, <2>2, <2>4 DEF WrittenInv, Pending, By, NewNames, AttemptsTyped
  <2>7. StagedInv'
    <3> SUFFICES ASSUME NEW b \in Attempt
                 PROVE  /\ forRevision'[b] <= revision'
                        /\ phase'[b] = "none" <=> forRevision'[b] = 0
                        /\ phase'[b] = "staged" /\ ~ (Pending' /\ b = By')
                             => staging'[b] = Output(b)'
      BY DEF StagedInv
    <3>1. CASE b = a
      BY <3>1, <2>1, <2>2 DEF AttemptsTyped, StagedInv
    <3>2. CASE b # a
      BY <3>2, <2>1, <2>2 DEF AttemptsTyped, Output, StagedInv, Pending, By
    <3> QED BY <3>1, <3>2
  <2>8. CleaningInv'
    BY <2>1 DEF CleaningInv
  <2> QED BY <2>1, <2>3, <2>5, <2>6, <2>7, <2>8, Frames
<1>4. CASE CompleteExport(a)
  <2>1. /\ pc = "free" /\ ~ Pending /\ phase[a] = "published" /\ ~ noBoom
        /\ exported' = revision /\ completed' = revision
        /\ phase' = [phase EXCEPT ![a] = "reported"]
        /\ UNCHANGED <<disk, revision, noBoom, cleanup, forRevision, inside, bounds>>
    BY <1>4 DEF CompleteExport
  <2>2. AttemptsTyped'
    BY <2>1 DEF AttemptsTyped, Phases
  <2>3. EntryTyped' /\ EntryInv'
    BY <2>1, Numbers DEF EntryTyped, EntryInv
  <2>4. ~ Pending' /\ holder = 0
    BY <2>1 DEF Pending, InsideInv
  <2>5. WrittenInv' /\ CleaningInv'
    BY <2>1, <2>4 DEF WrittenInv, CleaningInv
  <2>6. InsideInv'
    BY <2>1, <2>4 DEF InsideInv, Pending
  <2>7. StagedInv'
    <3> SUFFICES ASSUME NEW b \in Attempt
                 PROVE  /\ forRevision'[b] <= revision'
                        /\ phase'[b] = "none" <=> forRevision'[b] = 0
                        /\ staging'[b] = Output(b)' \/ phase'[b] # "staged"
      BY <2>4 DEF StagedInv
    <3>1. CASE b = a
      BY <3>1, <2>1 DEF AttemptsTyped, StagedInv
    <3>2. CASE b # a
      BY <3>2, <2>1 DEF AttemptsTyped, Output, StagedInv
    <3> QED BY <3>1, <3>2
  <2> QED BY <2>1, <2>2, <2>3, <2>5, <2>6, <2>7, Frames
<1> QED BY <1>1, <1>2, <1>3, <1>4 DEF BeginPublish

\* The recovery and the publication move segments of the journalled attempt only.
LEMMA StagedKept ==
  ASSUME ControlInv, Pending, UNCHANGED <<attempts, revision, journal>>,
         \A a \in Attempt \ {By} : staging'[a] = staging[a]
  PROVE  StagedInv'
<1> SUFFICES ASSUME NEW a \in Attempt
             PROVE  /\ forRevision'[a] <= revision'
                    /\ phase'[a] = "none" <=> forRevision'[a] = 0
                    /\ phase'[a] = "staged" /\ ~ (Pending' /\ a = By') => staging'[a] = Output(a)'
  BY DEF StagedInv
<1>1. UNCHANGED <<forRevision, phase>> /\ By' = By /\ Pending'
  BY DEF By, Pending
<1> QED BY <1>1 DEF ControlInv, StagedInv, Output

LEMMA PutStagedDir ==
  ASSUME Typed, Pending, NEW n \in Segment, NEW gen \in 0..MaxAttempts
  PROVE  /\ PutStaged(n, gen) \in [Attempt -> Dir]
         /\ \A a \in Attempt \ {By} : PutStaged(n, gen)[a] = staging[a]
         /\ \A m \in Segment : PutStaged(n, gen)[By][m] = IF m = n THEN gen ELSE Staged[m]
<1>1. By \in Attempt
  BY DEF Typed, JournalTyped, By
<1>2. PutStaged(n, gen) = [staging EXCEPT ![By] = Put(Staged, n, gen)]
  BY <1>1 DEF PutStaged, Put, By, Staged, Typed, AttemptsTyped
<1>3. Staged \in Dir
  BY <1>1 DEF Typed, AttemptsTyped, Staged, By
<1>4. /\ Put(Staged, n, gen) \in Dir
      /\ \A m \in Segment : Put(Staged, n, gen)[m] = IF m = n THEN gen ELSE Staged[m]
  BY <1>3, PutDir
<1> QED BY <1>1, <1>2, <1>4 DEF Typed, AttemptsTyped

LEMMA DirValues ==
  ASSUME Typed, NEW n \in Segment
  PROVE  /\ root[n] \in 0..MaxAttempts /\ trash[n] \in 0..MaxAttempts /\ rubbish[n] \in 0..MaxAttempts
         /\ Pending => Staged \in Dir /\ Staged[n] \in 0..MaxAttempts
<1>1. Pending => By \in Attempt
  BY DEF Typed, JournalTyped, By
<1> QED BY <1>1 DEF Typed, DiskTyped, AttemptsTyped, Staged, By, Dir

\* The name the loops of the recovery look at.
LEMMA NextNameFacts ==
  ASSUME todo \subseteq Segment, todo # {}
  PROVE  /\ NextName \in todo
         /\ NextName \notin NewNames => todo \cap NewNames = {}
         /\ \A m \in todo \cap NewNames : NextName <= m
<1>1. CASE todo \cap NewNames # {}
  <2>1. todo \cap NewNames \subseteq Segment
    OBVIOUS
  <2>2. /\ First(todo \cap NewNames) \in todo \cap NewNames
        /\ \A m \in todo \cap NewNames : First(todo \cap NewNames) <= m
    BY <1>1, <2>1, Smallest
  <2> QED BY <1>1, <2>2 DEF NextName
<1>2. CASE todo \cap NewNames = {}
  BY <1>2, Smallest DEF NextName
<1> QED BY <1>1, <1>2

LEMMA ControlRecovery ==
  ASSUME ControlInv, Recovery \/ RecoveryFails
  PROVE  ControlInv'
<1>1. CASE Recover
  <2>1. /\ pc = "opened"
        /\ UNCHANGED <<root, rootExists, owner, trash, rubbish, annotation, bounds>>
    BY <1>1 DEF Recover
  <2>2. CASE \/ ~ Pending /\ Recovered("none") /\ UNCHANGED journal
             \/ Pending /\ journal' = NoJournal /\ Recovered("committed")
    <3>1. /\ JournalTyped' /\ AttemptsTyped' /\ InsideTyped'
          /\ StagedInv' /\ WrittenInv' /\ InsideInv' /\ CleaningInv'
      BY <2>1, <2>2, AfterRecovery
    <3> QED BY <2>1, <3>1, Frames DEF ControlInv, Typed
  <2>3. CASE /\ Pending /\ pc' = "restoring" /\ todo' = NewNames \cup OldNames
             /\ UNCHANGED <<journal, attempts, staging, holder, moved, failing>>
    <3>1. todo' \subseteq Segment
      BY <2>3 DEF ControlInv, Typed, JournalTyped, NewNames, OldNames
    <3>2. InsideTyped' /\ CleaningInv'
      BY <2>1, <2>3, <3>1 DEF ControlInv, Typed, InsideTyped, CleaningInv, Restoring
    <3>3. InsideInv'
      BY <2>1, <2>3 DEF ControlInv, InsideInv, Pending, By, Publishing, Restoring
    <3> QED BY <2>1, <2>3, <3>2, <3>3, Frames DEF ControlInv, Typed
  <2> QED BY <1>1, <2>2, <2>3 DEF Recover
<1>2. CASE RestoreSegment
  <2>1. /\ pc = "restoring" /\ todo # {} /\ Pending
        /\ UNCHANGED <<rootExists, owner, journal, rubbish, annotation, attempts,
                       pc, holder, moved, failing, bounds>>
    BY <1>2 DEF RestoreSegment, ControlInv, InsideInv, Restoring
  <2>2. NextName \in Segment /\ Typed /\ 0 \in 0..MaxAttempts
    BY <2>1, NextNameFacts, Numbers DEF ControlInv, Typed, InsideTyped
  <2>3. /\ root' \in Dir /\ trash' \in Dir /\ staging' \in [Attempt -> Dir]
        /\ \A a \in Attempt \ {By} : staging'[a] = staging[a]
        /\ todo' \subseteq todo
    <3>1. root \in Dir /\ trash \in Dir /\ staging \in [Attempt -> Dir]
      BY DEF ControlInv, Typed, DiskTyped, AttemptsTyped
    <3>2. CASE TakeBack(NextName)
      BY <2>1, <2>2, <3>1, <3>2, DirValues, PutDir, PutStagedDir DEF TakeBack
    <3>3. CASE PutBack(NextName)
      BY <2>1, <2>2, <3>1, <3>3, DirValues, PutDir DEF PutBack
    <3>4. CASE LeaveThere(NextName)
      BY <3>1, <3>4 DEF LeaveThere
    <3> QED BY <1>2, <3>2, <3>3, <3>4 DEF RestoreSegment
  <2>4. DiskTyped' /\ AttemptsTyped' /\ InsideTyped' /\ CleaningInv'
    BY <2>1, <2>3 DEF ControlInv, Typed, DiskTyped, AttemptsTyped, InsideTyped, CleaningInv
  <2>5. StagedInv'
    BY <2>1, <2>3, StagedKept
  <2>6. InsideInv'
    BY <2>1 DEF ControlInv, InsideInv, Pending, By
  <2> QED BY <2>1, <2>4, <2>5, <2>6, Frames DEF ControlInv, Typed
<1>3. CASE RestoreMarker
  <2>1. /\ pc = "restoring" /\ Pending /\ owner' = journal.previousOwner /\ pc' = "restored"
        /\ UNCHANGED <<root, rootExists, trash, staging, journal, rubbish, annotation,
                       attempts, holder, todo, moved, failing, bounds>>
    BY <1>3 DEF RestoreMarker, ControlInv, InsideInv, Restoring
  <2>2. /\ owner' \in 0..MaxRevision /\ owner' <= journal.owner /\ By \in Attempt
        /\ journal.owner \in Nat
    BY <2>1, Numbers DEF ControlInv, Typed, JournalTyped, WrittenInv, By
  <2>3. owner' <= revision
    <3>1. journal.owner <= revision
      BY <2>1, <2>2 DEF ControlInv, WrittenInv, StagedInv
    <3>2. revision \in Nat /\ owner' \in Nat
      BY <2>2, Numbers DEF ControlInv, Typed, EntryTyped
    <3> QED BY <2>2, <3>1, <3>2
  <2>4. DiskTyped' /\ EntryInv' /\ InsideTyped' /\ CleaningInv'
    BY <2>1, <2>2, <2>3 DEF ControlInv, Typed, DiskTyped, EntryInv, InsideTyped, CleaningInv,
                            Restoring
  <2>5. InsideInv'
    BY <2>1 DEF ControlInv, InsideInv, Pending, By, Publishing, Restoring
  <2> QED BY <2>1, <2>4, <2>5, Frames DEF ControlInv, Typed
<1>4. CASE EndRestore
  <2>1. /\ pc = "restored" /\ Pending /\ rootExists' = journal.rootExisted
        /\ journal' = NoJournal /\ Recovered("rolled_back")
        /\ UNCHANGED <<root, owner, trash, rubbish, annotation, bounds>>
    BY <1>4 DEF EndRestore, ControlInv, InsideInv, Restoring
  <2>2. /\ JournalTyped' /\ AttemptsTyped' /\ InsideTyped'
        /\ StagedInv' /\ WrittenInv' /\ InsideInv' /\ CleaningInv'
    BY <2>1, AfterRecovery
  <2>3. DiskTyped'
    BY <2>1 DEF ControlInv, Typed, DiskTyped, JournalTyped
  <2> QED BY <2>1, <2>2, <2>3, Frames DEF ControlInv, Typed
<1>5. CASE RecoveryRaises \/ RecoveryFails
  <2>1. /\ Ended(holder, "failed") /\ Unlock
        /\ UNCHANGED <<root, rootExists, owner, trash, journal, rubbish, annotation, cleaned>>
        /\ IoError \/ UNCHANGED ioErrors
    BY <1>5 DEF RecoveryRaises, RecoveryFails
  <2>2. "failed" \in Outcomes
    BY DEF Outcomes
  <2>3. /\ JournalTyped' /\ AttemptsTyped' /\ InsideTyped'
        /\ StagedInv' /\ WrittenInv' /\ InsideInv' /\ CleaningInv'
    BY <2>1, <2>2, Returning
  <2> QED BY <2>1, <2>3, Frames, Errors DEF ControlInv, Typed
<1> QED BY <1>1, <1>2, <1>3, <1>4, <1>5 DEF Recovery
LEMMA ControlPublication ==
  ASSUME ControlInv, Publication
  PROVE  ControlInv'
<1>1. CASE WriteJournal
  <2>1. /\ pc = "writing" /\ pc' = "making" /\ trash' = Empty
        /\ journal' = [attempt |-> holder, owner |-> forRevision[holder],
                       new |-> In(staging[holder]), old |-> In(root),
                       previousOwner |-> owner, rootExisted |-> rootExists]
        /\ UNCHANGED <<root, rootExists, owner, staging, rubbish, annotation, attempts,
                       holder, todo, moved, failing, bounds>>
    BY <1>1 DEF WriteJournal
  <2>2. /\ holder \in Attempt /\ ~ Pending /\ phase[holder] = "staged"
        /\ forRevision[holder] = revision /\ ~ failing
    BY <2>1, Numbers DEF ControlInv, Typed, InsideTyped, InsideInv
  <2>3. revision \in Revision /\ owner \in 0..MaxRevision /\ owner <= revision
    BY DEF ControlInv, Typed, EntryTyped, DiskTyped, EntryInv
  <2>4. In(staging[holder]) = SegmentsOf[revision]
    <3>1. staging[holder] = Output(holder)
      BY <2>2 DEF ControlInv, StagedInv
    <3>2. \A n \in Segment : Output(holder)[n] # 0 <=> n \in SegmentsOf[revision]
      BY <2>2, Numbers DEF Output
    <3>3. SegmentsOf[revision] \subseteq Segment
      BY <2>3, Segments
    <3> QED BY <3>1, <3>2, <3>3 DEF In
  <2>5. /\ Pending' /\ By' = holder /\ NewNames' = SegmentsOf[revision]
        /\ journal'.owner = revision /\ journal'.previousOwner = owner
    BY <2>1, <2>2, <2>4, Numbers DEF Pending, NoJournal, By, NewNames
  <2>6. JournalTyped'
    <3>1. In(staging[holder]) \subseteq Segment /\ In(root) \subseteq Segment
      BY DEF In
    <3>2. rootExists \in BOOLEAN
      BY DEF ControlInv, Typed, DiskTyped
    <3> QED BY <2>1, <2>2, <2>3, <3>1, <3>2 DEF JournalTyped
  <2>7. DiskTyped' /\ InsideTyped' /\ CleaningInv'
    BY <2>1, EmptyDir DEF ControlInv, Typed, DiskTyped, InsideTyped, CleaningInv, Publishing
  <2>8. WrittenInv'
    BY <2>1, <2>2, <2>3, <2>5 DEF WrittenInv
  <2>9. InsideInv'
    BY <2>1, <2>2, <2>5 DEF ControlInv, InsideInv, Publishing, Restoring
  <2>10. StagedInv'
    BY <2>1, <2>2 DEF ControlInv, StagedInv, Output
  <2> QED BY <2>1, <2>6, <2>7, <2>8, <2>9, <2>10, Frames DEF ControlInv, Typed
<1>2. CASE MakeDirectories
  <2>1. /\ pc = "making" /\ pc' = "retiring" /\ Pending /\ rootExists' = TRUE /\ todo' = OldNames
        /\ UNCHANGED <<root, owner, trash, staging, journal, rubbish, annotation,
                       attempts, holder, moved, failing, bounds>>
    BY <1>2 DEF MakeDirectories, ControlInv, InsideInv, Publishing
  <2>2. todo' \subseteq Segment /\ rootExists' \in BOOLEAN
    BY <2>1 DEF ControlInv, Typed, JournalTyped, OldNames
  <2>3. DiskTyped' /\ InsideTyped' /\ CleaningInv'
    BY <2>1, <2>2 DEF ControlInv, Typed, DiskTyped, InsideTyped, CleaningInv, Publishing
  <2>4. InsideInv'
    BY <2>1 DEF ControlInv, InsideInv, Pending, By, Publishing, Restoring
  <2> QED BY <2>1, <2>3, <2>4, Frames DEF ControlInv, Typed
<1>3. CASE RetireSegment \/ InstallSegment \/ Mark
  <2>1. /\ pc \in {"retiring", "installing", "marking"} /\ pc' \in Publishing
        /\ UNCHANGED <<rootExists, journal, rubbish, annotation, attempts, holder, moved,
                       failing, bounds>>
    BY <1>3 DEF RetireSegment, InstallSegment, Mark, Publishing
  <2>2. /\ Pending /\ By = holder /\ holder # 0 /\ ~ failing
        /\ todo \subseteq Segment
        /\ todo # {} => First(todo) \in Segment
        /\ NewNames \subseteq Segment
    BY <2>1, Smallest
       DEF ControlInv, InsideInv, Publishing, Typed, InsideTyped, JournalTyped, NewNames
  <2>3. /\ root' \in Dir /\ trash' \in Dir /\ staging' \in [Attempt -> Dir]
        /\ \A a \in Attempt \ {By} : staging'[a] = staging[a]
        /\ todo' \subseteq Segment
        /\ owner' \in {owner, journal.owner}
    <3>1. /\ root \in Dir /\ trash \in Dir /\ staging \in [Attempt -> Dir]
          /\ Typed /\ 0 \in 0..MaxAttempts
      BY Numbers DEF ControlInv, Typed, DiskTyped, AttemptsTyped
    <3>2. CASE RetireSegment
      BY <2>2, <3>1, <3>2, DirValues, PutDir DEF RetireSegment
    <3>3. CASE InstallSegment
      BY <2>2, <3>1, <3>3, DirValues, PutDir, PutStagedDir DEF InstallSegment
    <3>4. CASE Mark
      BY <2>2, <3>1, <3>4 DEF Mark
    <3> QED BY <1>3, <3>2, <3>3, <3>4
  <2>4. owner' \in 0..MaxRevision /\ owner' <= revision
    <3>1. By \in Attempt /\ journal.owner \in 0..MaxRevision /\ journal.owner = forRevision[By]
      BY <2>2, Numbers DEF ControlInv, Typed, JournalTyped, By, WrittenInv
    <3>2. forRevision[By] <= revision
      BY <3>1 DEF ControlInv, StagedInv
    <3> QED BY <2>3, <3>1, <3>2 DEF ControlInv, EntryInv, Typed, DiskTyped
  <2>5. DiskTyped' /\ AttemptsTyped' /\ InsideTyped' /\ CleaningInv' /\ EntryInv'
    BY <2>1, <2>3, <2>4
       DEF ControlInv, Typed, DiskTyped, AttemptsTyped, InsideTyped, CleaningInv, EntryInv, Publishing
  <2>6. StagedInv'
    BY <2>1, <2>2, <2>3, StagedKept
  <2>7. InsideInv'
    BY <2>1, <2>2 DEF ControlInv, InsideInv, Pending, By, Publishing, Restoring
  <2> QED BY <2>1, <2>5, <2>6, <2>7, Frames DEF ControlInv, Typed
<1>4. CASE ClearJournal
  <2>1. /\ Ended(holder, "published") /\ Unlock /\ trash' = Empty
        /\ journal' = NoJournal \/ journal' = journal
        /\ IoError \/ UNCHANGED ioErrors
        /\ UNCHANGED <<root, rootExists, owner, rubbish, annotation, cleaned>>
    BY <1>4 DEF ClearJournal, IoError
  <2>2. "published" \in Outcomes
    BY DEF Outcomes
  <2>3. /\ JournalTyped' /\ AttemptsTyped' /\ InsideTyped'
        /\ StagedInv' /\ WrittenInv' /\ InsideInv' /\ CleaningInv'
    BY <2>1, <2>2, Returning
  <2>4. DiskTyped'
    BY <2>1, EmptyDir DEF ControlInv, Typed, DiskTyped
  <2> QED BY <2>1, <2>3, <2>4, Frames, Errors DEF ControlInv, Typed
<1> QED BY <1>1, <1>2, <1>3, <1>4 DEF Publication

LEMMA ControlCleanup ==
  ASSUME ControlInv, Cleanup
  PROVE  ControlInv'
<1>1. CASE BeginCleanup
  <2>1. /\ pc = "free" /\ pc' = "cleaning" /\ noBoom /\ rootExists /\ owner = cleanup
        /\ holder' = 0 /\ todo' = In(root) /\ cleaned' = TRUE
        /\ UNCHANGED <<disk, annotation, attempts, moved, failing, crashes, ioErrors>>
    BY <1>1 DEF BeginCleanup
  <2>2. In(root) \subseteq Segment
    BY DEF In
  <2>3. InsideTyped' /\ CountersTyped'
    BY <2>1, <2>2, Numbers DEF ControlInv, Typed, InsideTyped, CountersTyped
  <2>4. InsideInv'
    BY <2>1 DEF ControlInv, InsideInv, Pending, By, Publishing, Restoring
  <2>5. CleaningInv'
    BY <2>1 DEF ControlInv, CleaningInv, EntryInv
  <2> QED BY <2>1, <2>3, <2>4, <2>5, Frames DEF ControlInv, Typed
<1>2. CASE CleanSegment /\ todo # {}
  <2>1. /\ pc = "cleaning"
        /\ rubbish' = Put(rubbish, First(todo), root[First(todo)])
        /\ root' = Put(root, First(todo), 0)
        /\ todo' = todo \ {First(todo)} /\ moved' = moved \cup {First(todo)}
        /\ UNCHANGED <<pc, holder, failing, rootExists, owner, trash, staging, journal,
                       annotation, attempts, bounds>>
    BY <1>2 DEF CleanSegment
  <2>2. First(todo) \in Segment /\ First(todo) \in todo
    BY <1>2, Smallest DEF ControlInv, Typed, InsideTyped
  <2>3. root' \in Dir /\ rubbish' \in Dir
    BY <2>1, <2>2, DirValues, PutDir, Numbers DEF ControlInv, Typed, DiskTyped
  <2>4. DiskTyped' /\ InsideTyped'
    BY <2>1, <2>2, <2>3 DEF ControlInv, Typed, DiskTyped, InsideTyped
  <2>5. InsideInv'
    BY <2>1 DEF ControlInv, InsideInv, Pending, By, Publishing, Restoring
  <2>6. \A n \in Segment : root'[n] = IF n = First(todo) THEN 0 ELSE root[n]
    <3>1. root \in Dir /\ 0 \in 0..MaxAttempts
      BY Numbers DEF ControlInv, Typed, DiskTyped
    <3> QED BY <2>1, <2>2, <3>1, PutDir
  <2>7. CleaningInv'
    BY <2>1, <2>2, <2>6 DEF ControlInv, CleaningInv
  <2> QED BY <2>1, <2>4, <2>5, <2>7, Frames DEF ControlInv, Typed
<1>3. CASE (CleanSegment /\ todo = {}) \/ CleanupFails
  <2>1. /\ pc = "cleaning" /\ Unlock
        /\ IoError \/ UNCHANGED ioErrors
        /\ UNCHANGED <<rootExists, owner, trash, staging, journal, annotation, attempts, cleaned>>
    BY <1>3 DEF CleanSegment, CleanupFails
  <2>2. root' \in Dir /\ rubbish' \in Dir
    <3>1. CASE CleanupFails
      BY <3>1, Numbers DEF CleanupFails, ControlInv, Typed, DiskTyped, Dir
    <3>2. CASE ~ CleanupFails
      BY <1>3, <3>2, EmptyDir DEF CleanSegment, ControlInv, Typed, DiskTyped
    <3> QED BY <3>1, <3>2
  <2>3. DiskTyped' /\ InsideTyped' /\ CleaningInv'
    BY <2>1, <2>2, Numbers DEF ControlInv, Typed, DiskTyped, InsideTyped, CleaningInv, Unlock
  <2>4. holder = 0 /\ holder' = 0 /\ ~ failing /\ ~ failing'
    BY <2>1, Numbers DEF ControlInv, InsideInv, Unlock, Typed, JournalTyped, By
  <2>5. Pending => phase[By] # "staged"
    BY <2>1, <2>4, Numbers DEF ControlInv, InsideInv, Typed, JournalTyped, By
  <2>6. InsideInv'
    BY <2>1, <2>4, <2>5 DEF InsideInv, Unlock, Pending, By, Publishing, Restoring
  <2> QED BY <2>1, <2>3, <2>6, Frames, Errors DEF ControlInv, Typed
<1> QED BY <1>1, <1>2, <1>3 DEF Cleanup, CleanSegment

LEMMA ControlStuttering ==
  ASSUME ControlInv, UNCHANGED vars
  PROVE  ControlInv'
<1>1. CleaningInv'
  BY DEF vars, ControlInv, CleaningInv
<1> QED BY <1>1, Frames DEF vars, ControlInv, Typed

LEMMA ControlStep ==
  ASSUME ControlInv, [Next]_vars
  PROVE  ControlInv'
BY ControlRequests, ControlAttempts, ControlRecovery, ControlPublication, ControlCleanup,
   ControlStuttering DEF Next

LEMMA ControlInit ==
  ASSUME Init
  PROVE  ControlInv
<1>1. ~ Pending
  BY DEF Init, Pending
<1>2. 1 \in Revision
  BY Numbers DEF Revision
<1>3. JournalTyped /\ DiskTyped /\ AttemptsTyped /\ InsideTyped /\ CountersTyped
  BY <1>1, EmptyDir, Numbers DEF Init, JournalTyped, DiskTyped, AttemptsTyped, InsideTyped,
                        CountersTyped, Phases
<1>4. EntryTyped
  BY <1>2, Numbers DEF Init, EntryTyped
<1>5. EntryInv /\ StagedInv /\ WrittenInv /\ InsideInv /\ CleaningInv
  BY <1>1 DEF Init, EntryInv, StagedInv, WrittenInv, InsideInv, CleaningInv, Publishing, Restoring
<1> QED BY <1>3, <1>4, <1>5 DEF ControlInv, Typed

\* The state is made of directories, markers and revisions, and any journal is
\* that of an attempt: no step of publish_staged_export, of its recovery or of the
\* cleanup takes it out of its types.
THEOREM Types == Spec => []TypeOK
<1>1. Spec => []ControlInv
  BY ControlInit, ControlStep, PTL DEF Spec
<1>2. ControlInv => TypeOK
  BY TypedParts DEF ControlInv
<1> QED BY <1>1, <1>2, PTL

-----------------------------------------------------------------------------
(* Where the segments of a transaction are: dir the published ones, tr the trash,  *)
(* st the staging of the journalled attempt, j the journal, own the marker         *)

\* The content before the transaction.
Kept(dir, tr, j) ==
  [n \in Segment |-> IF tr[n] # 0 THEN tr[n] ELSE IF n \in j.old THEN dir[n] ELSE 0]

\* The segment n in the directory is the newly published one.
New(dir, tr, j, n) == dir[n] # 0 /\ (tr[n] # 0 \/ n \notin j.old)

\* A recovery will find n neither in the directory nor put it there.
Dead(dir, tr, st, j, n) == n \in j.new /\ dir[n] = 0 /\ (tr[n] = 0 \/ st[n] = 0)

\* The directory has segments of the names of the publication, all published by it.
Whole(dir, j)     == \A n \in Segment : dir[n] # 0 <=> n \in j.new
Installed(dir, j) == \A n \in Segment : dir[n] = IF n \in j.new THEN j.attempt ELSE 0

Places(dir, tr, st, j) ==
  \A n \in Segment :
    /\ st[n] \in {0, j.attempt}
    /\ st[n] # 0 => n \in j.new
    /\ tr[n] # 0 => n \in j.old
    /\ New(dir, tr, j, n) => dir[n] = j.attempt /\ n \in j.new /\ st[n] = 0

\* If the marker already names the revision of the publication, new segments are
\* only there with a gap behind them, or when all of them are.
Gap(dir, tr, st, j, own) ==
  own = j.owner =>
    \A m \in Segment : New(dir, tr, j, m) =>
      \/ Installed(dir, j)
      \/ \E k \in Segment : Dead(dir, tr, st, j, k)
      \/ \E k \in Segment : k \in j.new /\ m < k /\ dir[k] = 0

\* A marker that was written follows a whole publication, of which a cleanup may
\* have taken something since.
Marked(dir, tr, st, j, own) ==
  own # j.previousOwner =>
    /\ own = j.owner
    /\ Installed(dir, j) \/ \E k \in Segment : Dead(dir, tr, st, j, k)

OnDisk(dir, tr, st, j, own) ==
  Places(dir, tr, st, j) /\ Gap(dir, tr, st, j, own) /\ Marked(dir, tr, st, j, own)

\* While the segments td are still to be retired, and to be installed.
RetiringAt(dir, tr, st, j, td) ==
  /\ td \subseteq j.old
  /\ \A n \in Segment : /\ st[n] = IF n \in j.new THEN j.attempt ELSE 0
                        /\ dir[n] # 0 <=> n \in td
                        /\ tr[n] # 0 <=> n \in j.old \ td

InstallingAt(dir, tr, st, j, td) ==
  /\ td \subseteq j.new
  /\ \A n \in Segment : /\ dir[n] = IF n \in j.new \ td THEN j.attempt ELSE 0
                        /\ st[n] = IF n \in td THEN j.attempt ELSE 0
                        /\ tr[n] # 0 <=> n \in j.old
  /\ \A m \in j.new \ td, k \in td : m < k

\* Staged segments may go, and a cleanup may take published ones, in any subset:
\* what is gone is then Dead.
LEMMA OnDiskLess ==
  ASSUME NEW dir, NEW tr, NEW st, NEW j, NEW own, NEW dir2, NEW st2,
         OnDisk(dir, tr, st, j, own),
         \A n \in Segment : dir2[n] = dir[n] \/ dir2[n] = 0,
         \A n \in Segment : st2[n] = st[n] \/ st2[n] = 0
  PROVE  OnDisk(dir2, tr, st2, j, own)
<1>1. ASSUME NEW k \in Segment, Dead(dir, tr, st, j, k)
      PROVE  Dead(dir2, tr, st2, j, k)
  BY <1>1 DEF Dead
<1>2. ASSUME NEW m \in Segment, New(dir2, tr, j, m)
      PROVE  New(dir, tr, j, m) /\ dir2[m] = dir[m]
  BY <1>2 DEF New
<1>3. ASSUME Installed(dir, j)
      PROVE  Installed(dir2, j) \/ \E k \in Segment : Dead(dir2, tr, st2, j, k)
  <2>1. CASE \A n \in Segment : dir2[n] = dir[n]
    BY <1>3, <2>1 DEF Installed
  <2>2. ASSUME NEW k \in Segment, dir2[k] # dir[k]
        PROVE  Dead(dir2, tr, st2, j, k)
    <3>1. dir2[k] = 0 /\ dir[k] # 0 /\ k \in j.new
      BY <1>3, <2>2 DEF Installed
    <3>2. tr[k] # 0 => st[k] = 0
      BY <3>1 DEF OnDisk, Places, New
    <3> QED BY <3>1, <3>2 DEF Dead
  <2> QED BY <2>1, <2>2
<1>4. Places(dir2, tr, st2, j)
  BY <1>2 DEF OnDisk, Places
<1>5. Gap(dir2, tr, st2, j, own)
  <2> SUFFICES ASSUME own = j.owner, NEW m \in Segment, New(dir2, tr, j, m)
               PROVE  \/ Installed(dir2, j)
                      \/ \E k \in Segment : Dead(dir2, tr, st2, j, k)
                      \/ \E k \in Segment : k \in j.new /\ m < k /\ dir2[k] = 0
    BY DEF Gap
  <2>1. \/ Installed(dir, j)
        \/ \E k \in Segment : Dead(dir, tr, st, j, k)
        \/ \E k \in Segment : k \in j.new /\ m < k /\ dir[k] = 0
    BY <1>2 DEF OnDisk, Gap
  <2> QED BY <1>1, <1>3, <2>1
<1>6. Marked(dir2, tr, st2, j, own)
  BY <1>1, <1>3 DEF OnDisk, Marked
<1> QED BY <1>4, <1>5, <1>6 DEF OnDisk

LEMMA RetiringOnDisk ==
  ASSUME NEW dir, NEW tr, NEW st, NEW j, NEW own, NEW td,
         RetiringAt(dir, tr, st, j, td), own = j.previousOwner
  PROVE  OnDisk(dir, tr, st, j, own)
<1>1. \A n \in Segment : ~ New(dir, tr, j, n)
  BY DEF RetiringAt, New
<1> QED BY <1>1 DEF RetiringAt, OnDisk, Places, Gap, Marked

LEMMA InstallingOnDisk ==
  ASSUME NEW dir, NEW tr, NEW st, NEW j, NEW own, NEW td,
         j.new \subseteq Segment,
         InstallingAt(dir, tr, st, j, td),
         own = j.previousOwner \/ (own = j.owner /\ td = {})
  PROVE  OnDisk(dir, tr, st, j, own)
<1>1. td = {} => Installed(dir, j)
  BY DEF InstallingAt, Installed
<1>2. Places(dir, tr, st, j)
  BY DEF InstallingAt, Places, New
<1>3. Gap(dir, tr, st, j, own)
  <2> SUFFICES ASSUME NEW m \in Segment, New(dir, tr, j, m), td # {}
               PROVE  \E k \in Segment : k \in j.new /\ m < k /\ dir[k] = 0
    BY <1>1 DEF Gap
  <2>1. PICK k \in td : TRUE
    OBVIOUS
  <2>2. k \in Segment /\ k \in j.new /\ dir[k] = 0
    BY DEF InstallingAt
  <2>3. m \in j.new \ td
    BY DEF InstallingAt, New
  <2> QED BY <2>2, <2>3 DEF InstallingAt
<1>4. Marked(dir, tr, st, j, own)
  BY <1>1 DEF Marked
<1> QED BY <1>2, <1>3, <1>4 DEF OnDisk

-----------------------------------------------------------------------------
(* The transaction, step by step *)

\* What the journal says of the root.
RootInv ==
  /\ journal.previousOwner = journal.owner => OldNames = NewNames
  /\ ~ journal.rootExisted => OldNames = {} /\ journal.previousOwner = 0
  /\ journal.rootExisted \/ owner = journal.owner => rootExists
  /\ pc \in Publishing \ {"making"} => rootExists

\* How far the publication has come.
Progress ==
  /\ pc = "making" => RetiringAt(root, trash, Staged, journal, OldNames)
  /\ pc = "retiring" => RetiringAt(root, trash, Staged, journal, todo)
  /\ pc \in {"installing", "marking", "clearing"} =>
       InstallingAt(root, trash, Staged, journal, todo)
  /\ pc \in {"marking", "clearing"} => todo = {}
  /\ pc \in {"making", "retiring", "installing", "marking"} => owner = journal.previousOwner
  /\ pc = "clearing" => owner = journal.owner

\* How far the recovery has come.  It goes on from a publication that looked
\* incomplete, and looks complete on the way only when it is.
Restored ==
  pc \in Restoring =>
    /\ \A n \in Segment \ todo : trash[n] = 0 /\ ~ New(root, trash, journal, n)
    /\ owner # journal.previousOwner =>
         \E k \in Segment : Dead(root, trash, Staged, journal, k)
    /\ owner = journal.owner /\ Whole(root, journal) =>
         \A n \in Segment : ~ New(root, trash, journal, n)
    /\ pc = "restored" => todo = {} /\ owner = journal.previousOwner

\* The directory as it was when the cleanup began.
Before == [n \in Segment |-> IF n \in moved THEN rubbish[n] ELSE root[n]]

JournalInv ==
  Pending => /\ RootInv /\ Progress /\ Restored
             /\ OnDisk(root, trash, Staged, journal, owner)
             /\ pc = "cleaning" => OnDisk(Before, trash, Staged, journal, owner)

\* TakeBack: a new segment returns to the staging.
LEMMA TakenBack ==
  ASSUME NEW dir, NEW tr, NEW st, NEW j, NEW own, NEW dir2, NEW st2, NEW s \in Segment,
         OnDisk(dir, tr, st, j, own), New(dir, tr, j, s), j.attempt # 0,
         own = j.owner => ~ Whole(dir, j),
         own # j.previousOwner => \E k \in Segment : Dead(dir, tr, st, j, k),
         \A m \in Segment : dir2[m] = IF m = s THEN 0 ELSE dir[m],
         \A m \in Segment : st2[m] = IF m = s THEN dir[s] ELSE st[m]
  PROVE  /\ OnDisk(dir2, tr, st2, j, own) /\ ~ Whole(dir2, j)
         /\ own # j.previousOwner => \E k \in Segment : Dead(dir2, tr, st2, j, k)
         /\ \A m \in Segment : New(dir2, tr, j, m) => New(dir, tr, j, m)
         /\ Kept(dir2, tr, j) = Kept(dir, tr, j)
<1>1. s \in j.new /\ dir[s] = j.attempt /\ dir[s] # 0
  BY DEF OnDisk, Places, New
<1>2. ASSUME NEW m \in Segment, New(dir2, tr, j, m)
      PROVE  m # s /\ New(dir, tr, j, m)
  BY <1>2 DEF New
<1>3. ASSUME NEW k \in Segment, Dead(dir, tr, st, j, k)
      PROVE  Dead(dir2, tr, st2, j, k)
  BY <1>1, <1>3 DEF Dead
<1>4. own = j.owner => ~ Installed(dir, j)
  BY DEF Installed, Whole
<1>5. Places(dir2, tr, st2, j)
  BY <1>1, <1>2 DEF OnDisk, Places
<1>6. Gap(dir2, tr, st2, j, own)
  <2> SUFFICES ASSUME own = j.owner, NEW m \in Segment, New(dir2, tr, j, m)
               PROVE  \/ \E k \in Segment : Dead(dir2, tr, st2, j, k)
                      \/ \E k \in Segment : k \in j.new /\ m < k /\ dir2[k] = 0
    BY DEF Gap
  <2>1. \/ \E k \in Segment : Dead(dir, tr, st, j, k)
        \/ \E k \in Segment : k \in j.new /\ m < k /\ dir[k] = 0
    BY <1>2, <1>4 DEF OnDisk, Gap
  <2> QED BY <1>3, <2>1
<1>7. Marked(dir2, tr, st2, j, own)
  BY <1>3 DEF OnDisk, Marked
<1>8. ~ Whole(dir2, j)
  BY <1>1 DEF Whole
<1>9. ASSUME NEW m \in Segment
      PROVE  Kept(dir2, tr, j)[m] = Kept(dir, tr, j)[m]
  BY DEF Kept, New
<1>10. Kept(dir2, tr, j) = Kept(dir, tr, j)
  BY <1>9 DEF Kept
<1> QED BY <1>2, <1>3, <1>5, <1>6, <1>7, <1>8, <1>10 DEF OnDisk

MovedBack(dir, tr, dir2, tr2, s) ==
  \A m \in Segment : /\ dir2[m] = IF m = s THEN tr[s] ELSE dir[m]
                     /\ tr2[m] = IF m = s THEN 0 ELSE tr[m]

\* PutBack: an old segment returns to the directory, after all new ones of lower name.
LEMMA PutInPlace ==
  ASSUME NEW dir, NEW tr, NEW st, NEW j, NEW own, NEW dir2, NEW tr2, NEW s \in Segment,
         OnDisk(dir, tr, st, j, own), j.attempt # 0,
         tr[s] # 0, dir[s] = 0, s \in j.new => st[s] # 0,
         \A m \in Segment : New(dir, tr, j, m) => s \in j.new /\ s < m,
         own # j.previousOwner => \E k \in Segment : Dead(dir, tr, st, j, k),
         MovedBack(dir, tr, dir2, tr2, s)
  PROVE  /\ OnDisk(dir2, tr2, st, j, own)
         /\ own # j.previousOwner => \E k \in Segment : Dead(dir2, tr2, st, j, k)
         /\ own = j.owner /\ Whole(dir2, j) => \A m \in Segment : ~ New(dir2, tr2, j, m)
         /\ \A m \in Segment : New(dir2, tr2, j, m) => m # s /\ New(dir, tr, j, m)
         /\ Kept(dir2, tr2, j) = Kept(dir, tr, j)
<1> USE DEF MovedBack
<1>1. s \in j.old
  BY DEF OnDisk, Places
<1>2. ASSUME NEW m \in Segment, New(dir2, tr2, j, m)
      PROVE  m # s /\ New(dir, tr, j, m)
  BY <1>1, <1>2 DEF New
<1>3. ASSUME NEW k \in Segment, Dead(dir, tr, st, j, k)
      PROVE  Dead(dir2, tr2, st, j, k)
  BY <1>3 DEF Dead
<1>4. Places(dir2, tr2, st, j)
  BY <1>2 DEF OnDisk, Places
<1>5. ASSUME own = j.owner, NEW m \in Segment, New(dir2, tr2, j, m)
      PROVE  \/ \E k \in Segment : Dead(dir2, tr2, st, j, k)
             \/ \E k \in Segment : k \in j.new /\ m < k /\ dir2[k] = 0
  <2>1. New(dir, tr, j, m) /\ s \in j.new /\ s < m
    BY <1>2, <1>5
  <2>2. ~ Installed(dir, j)
    BY <2>1 DEF Installed
  <2>3. \/ \E k \in Segment : Dead(dir, tr, st, j, k)
        \/ \E k \in Segment : k \in j.new /\ m < k /\ dir[k] = 0
    BY <1>5, <2>1, <2>2 DEF OnDisk, Gap
  <2>4. ASSUME NEW k \in Segment, k \in j.new, m < k, dir[k] = 0
        PROVE  dir2[k] = 0
    <3>1. s \in Nat /\ m \in Nat /\ k \in Nat
      BY Numbers
    <3>2. k # s
      BY <2>1, <2>4, <3>1
    <3> QED BY <2>4, <3>2
  <2> QED BY <1>3, <2>3, <2>4
<1>6. Gap(dir2, tr2, st, j, own)
  BY <1>5 DEF Gap
<1>7. Marked(dir2, tr2, st, j, own)
  BY <1>3 DEF OnDisk, Marked
<1>8. own = j.owner /\ Whole(dir2, j) => \A m \in Segment : ~ New(dir2, tr2, j, m)
  BY <1>5 DEF Whole, Dead
<1>9. ASSUME NEW m \in Segment
      PROVE  Kept(dir2, tr2, j)[m] = Kept(dir, tr, j)[m]
  BY <1>1 DEF Kept
<1>10. Kept(dir2, tr2, j) = Kept(dir, tr, j)
  BY <1>9 DEF Kept
<1> QED BY <1>2, <1>3, <1>4, <1>6, <1>7, <1>8, <1>10 DEF OnDisk

-----------------------------------------------------------------------------
(* The steps of the transaction *)

LEMMA JournalFacts ==
  ASSUME ControlInv, Pending
  PROVE  /\ By \in Attempt /\ By # 0 /\ journal.attempt = By
         /\ NewNames \subseteq Segment /\ OldNames \subseteq Segment
         /\ NewNames = journal.new /\ OldNames = journal.old
         /\ journal.owner \in Revision /\ journal.owner # 0
         /\ journal.previousOwner \in 0..MaxRevision
         /\ journal.rootExisted \in BOOLEAN
BY Numbers DEF ControlInv, Typed, JournalTyped, By, NewNames, OldNames

LEMMA CompleteIsWhole ==
  ASSUME ControlInv, RootInv, Pending
  PROVE  Complete <=> owner = journal.owner /\ Whole(root, journal)
<1>1. In(root) = NewNames <=> Whole(root, journal)
  BY JournalFacts DEF In, Whole
<1> QED BY <1>1, JournalFacts DEF Complete, RootInv

\* Nothing happens to what is published, and at most the caller's staging goes.
LEMMA JournalFrame ==
  ASSUME ControlInv, JournalInv,
         UNCHANGED <<root, rootExists, owner, trash, journal>>,
         Pending => \A n \in Segment : Staged'[n] = Staged[n] \/ Staged'[n] = 0,
         pc' \in {"free", "opened", "writing"}
  PROVE  JournalInv'
<1> SUFFICES ASSUME Pending'
             PROVE  RootInv' /\ Progress' /\ Restored'
                    /\ OnDisk(root, trash, Staged, journal, owner)'
  BY DEF JournalInv
<1>1. Pending
  BY DEF Pending
<1>2. RootInv'
  BY <1>1 DEF JournalInv, RootInv, OldNames, NewNames, Publishing
<1>3. Progress' /\ Restored'
  BY DEF Progress, Restored, Restoring
<1>4. OnDisk(root, trash, Staged', journal, owner)
  BY <1>1, OnDiskLess DEF JournalInv
<1> QED BY <1>2, <1>3, <1>4

LEMMA EndedStaged ==
  ASSUME ControlInv, NEW a \in 0..MaxAttempts, NEW outcome, Ended(a, outcome), UNCHANGED journal,
         Pending
  PROVE  /\ \A n \in Segment : Staged'[n] = Staged[n] \/ Staged'[n] = 0
         /\ a # By => Staged' = Staged
<1>1. By \in Attempt /\ Staged = staging[By] /\ Staged' = staging'[By]
  BY JournalFacts DEF Staged, By
<1>2. staging'[By] = staging[By] \/ (a = By /\ staging'[By] = Empty)
  BY <1>1 DEF Ended, ControlInv, Typed, AttemptsTyped
<1> QED BY <1>1, <1>2, EmptyDir

-----------------------------------------------------------------------------
(* What a reader that recovers first would find *)

RolledBack == Pending /\ ~ Complete
ViewExists == IF RolledBack THEN journal.rootExisted ELSE rootExists
ViewOwner  == IF RolledBack THEN journal.previousOwner ELSE owner

\* The directory dir with the marker own is the output of an attempt for that
\* revision, or is not there at all.
Good(dir, exists, own) ==
  IF exists THEN \E b \in Attempt : /\ forRevision[b] = own /\ forRevision[b] # 0
                                    /\ dir = Output(b)
            ELSE dir = Empty /\ own = 0

\* It is a generation until a cleanup took something of it, and is again one as
\* soon as the current revision is published.
ViewInv ==
  /\ ~ ViewExists => Shown = Empty /\ ViewOwner = 0
  /\ ~ cleaned \/ ViewOwner = revision => Good(Shown, ViewExists, ViewOwner)

-----------------------------------------------------------------------------
(* JournalInv, action by action *)

LEMMA JournalRequests ==
  ASSUME ControlInv, JournalInv,
         \/ OpenRoot \/ Save \/ MarkNoObject \/ PublishFails \/ Crash
         \/ RecoveryRaises \/ RecoveryFails
         \/ \E a \in Attempt : StartAttempt(a) \/ BeginPublish(a) \/ CompleteExport(a)
  PROVE  JournalInv'
<1>1. CASE OpenRoot \/ Save \/ MarkNoObject \/ PublishFails \/ Crash
  <2>1. /\ UNCHANGED disk
        /\ pc' \in {"free", "opened", "writing"}
    BY <1>1 DEF OpenRoot, Save, MarkNoObject, PublishFails, Crash, Unlock
  <2>2. Staged' = Staged
    BY <2>1 DEF Staged
  <2> QED BY <2>1, <2>2, JournalFrame
<1>2. CASE RecoveryRaises \/ RecoveryFails
  <2>1. /\ Ended(holder, "failed") /\ pc' = "free" /\ holder \in 0..MaxAttempts
        /\ UNCHANGED <<root, rootExists, owner, trash, journal>>
    BY <1>2 DEF RecoveryRaises, RecoveryFails, Unlock, ControlInv, Typed, InsideTyped
  <2>2. Pending => \A n \in Segment : Staged'[n] = Staged[n] \/ Staged'[n] = 0
    BY <2>1, EndedStaged
  <2> QED BY <2>1, <2>2, JournalFrame
<1>3. ASSUME NEW a \in Attempt, StartAttempt(a) \/ BeginPublish(a) \/ CompleteExport(a)
      PROVE  JournalInv'
  <2>1. UNCHANGED <<root, rootExists, owner, trash, journal>>
    BY <1>3 DEF StartAttempt, BeginPublish, CompleteExport
  <2>2. CASE ~ Pending
    BY <2>1, <2>2 DEF JournalInv, Pending
  <2>3. CASE Pending
    <3>1. pc' \in {"free", "opened", "writing"}
      BY <1>3 DEF StartAttempt, BeginPublish, CompleteExport
    <3>2. UNCHANGED staging \/ Ended(a, "stale")
      BY <1>3, <2>3 DEF StartAttempt, BeginPublish, CompleteExport
    <3>3. a \in 0..MaxAttempts
      BY Numbers
    <3>4. CASE UNCHANGED staging
      <4>1. Staged' = Staged
        BY <2>1, <3>4 DEF Staged
      <4> QED BY <2>1, <3>1, <4>1, JournalFrame
    <3>5. CASE Ended(a, "stale")
      <4>1. \A n \in Segment : Staged'[n] = Staged[n] \/ Staged'[n] = 0
        BY <2>1, <2>3, <3>3, <3>5, EndedStaged
      <4> QED BY <2>1, <3>1, <4>1, JournalFrame
    <3> QED BY <3>2, <3>4, <3>5
  <2> QED BY <2>2, <2>3
<1> QED BY <1>1, <1>2, <1>3

\* What the three steps of the loops move.
LEMMA RestoreMoves ==
  ASSUME ControlInv, Pending, UNCHANGED journal, NEW s \in Segment
  PROVE  /\ TakeBack(s) =>
              /\ \A m \in Segment : root'[m] = IF m = s THEN 0 ELSE root[m]
              /\ \A m \in Segment : Staged'[m] = IF m = s THEN root[s] ELSE Staged[m]
              /\ UNCHANGED <<trash, todo>>
         /\ PutBack(s) =>
              /\ MovedBack(root, trash, root', trash', s)
              /\ Staged' = Staged /\ todo' = todo \ {s}
         /\ LeaveThere(s) =>
              /\ UNCHANGED <<root, trash>>
              /\ Staged' = Staged /\ todo' = todo \ {s}
<1>1. /\ root \in Dir /\ trash \in Dir /\ Typed /\ s \in Segment
      /\ root[s] \in 0..MaxAttempts /\ trash[s] \in 0..MaxAttempts /\ 0 \in 0..MaxAttempts
  BY DirValues, Numbers DEF ControlInv, Typed, DiskTyped
<1>2. UNCHANGED staging => Staged' = Staged
  BY DEF Staged
<1>3. ASSUME TakeBack(s)
      PROVE  /\ \A m \in Segment : root'[m] = IF m = s THEN 0 ELSE root[m]
             /\ \A m \in Segment : Staged'[m] = IF m = s THEN root[s] ELSE Staged[m]
             /\ UNCHANGED <<trash, todo>>
  <2>1. root' = Put(root, s, 0) /\ UNCHANGED <<trash, todo>>
    BY <1>3 DEF TakeBack
  <2>2. Staged' = PutStaged(s, root[s])[By]
    BY <1>3 DEF TakeBack, Staged, By
  <2>3. \A m \in Segment : root'[m] = IF m = s THEN 0 ELSE root[m]
    BY <1>1, <2>1 DEF Put, Dir
  <2>4. \A m \in Segment : Staged'[m] = IF m = s THEN root[s] ELSE Staged[m]
    BY <1>1, <2>2, PutStagedDir
  <2> QED BY <2>1, <2>3, <2>4
<1>4. ASSUME PutBack(s)
      PROVE  MovedBack(root, trash, root', trash', s) /\ UNCHANGED staging /\ todo' = todo \ {s}
  <2>1. root' = Put(root, s, trash[s]) /\ trash' = Put(trash, s, 0)
    BY <1>4 DEF PutBack
  <2>2. UNCHANGED staging /\ todo' = todo \ {s}
    BY <1>4 DEF PutBack
  <2>3. \A m \in Segment : root'[m] = IF m = s THEN trash[s] ELSE root[m]
    BY <1>1, <2>1 DEF Put, Dir
  <2>4. \A m \in Segment : trash'[m] = IF m = s THEN 0 ELSE trash[m]
    BY <1>1, <2>1 DEF Put, Dir
  <2> QED BY <2>2, <2>3, <2>4 DEF MovedBack
<1>5. LeaveThere(s) => UNCHANGED <<root, trash, staging>> /\ todo' = todo \ {s}
  BY DEF LeaveThere
<1> QED BY <1>2, <1>3, <1>4, <1>5

\* In the recovery, a segment of the journal at a time.
LEMMA Restoration ==
  ASSUME ControlInv, JournalInv, RestoreSegment
  PROVE  /\ JournalInv'
         /\ Kept(root', trash', journal) = Kept(root, trash, journal)
<1> DEFINE s == NextName
<1>1. /\ pc = "restoring" /\ todo # {} /\ Pending /\ ~ Irrecoverable(s)
      /\ TakeBack(s) \/ PutBack(s) \/ LeaveThere(s)
      /\ UNCHANGED <<rootExists, owner, journal, rubbish, pc, moved>>
  BY DEF RestoreSegment, ControlInv, InsideInv, Restoring
<1>2. /\ RootInv /\ OnDisk(root, trash, Staged, journal, owner)
      /\ \A n \in Segment \ todo : trash[n] = 0 /\ ~ New(root, trash, journal, n)
      /\ owner # journal.previousOwner =>
           \E k \in Segment : Dead(root, trash, Staged, journal, k)
      /\ owner = journal.owner /\ Whole(root, journal) =>
           \A n \in Segment : ~ New(root, trash, journal, n)
  BY <1>1 DEF JournalInv, Restored, Restoring
<1>3. /\ s \in todo /\ s \in Segment
      /\ s \notin NewNames => todo \cap NewNames = {}
      /\ \A m \in todo \cap NewNames : s <= m
  BY <1>1, NextNameFacts DEF ControlInv, Typed, InsideTyped
<1>4. /\ journal.attempt # 0 /\ NewNames = journal.new /\ OldNames = journal.old
      /\ NewNames \subseteq Segment
  BY <1>1, JournalFacts
<1>5. Pending' /\ RootInv' /\ Progress'
  BY <1>1, <1>2 DEF RootInv, Progress, Pending, OldNames, NewNames, Publishing
<1> HIDE DEF s
<1>6. SUFFICES /\ OnDisk(root', trash', Staged', journal, owner)
               /\ \A n \in Segment \ todo' : trash'[n] = 0 /\ ~ New(root', trash', journal, n)
               /\ owner # journal.previousOwner =>
                    \E k \in Segment : Dead(root', trash', Staged', journal, k)
               /\ owner = journal.owner /\ Whole(root', journal) =>
                    \A n \in Segment : ~ New(root', trash', journal, n)
               /\ Kept(root', trash', journal) = Kept(root, trash, journal)
  BY <1>1, <1>5 DEF JournalInv, Restored, Restoring
<1>7. CASE TakeBack(s)
  <2>1. /\ New(root, trash, journal, s)
        /\ UNCHANGED <<trash, todo>>
    BY <1>4, <1>7 DEF TakeBack, New
  <2>2. /\ \A m \in Segment : root'[m] = IF m = s THEN 0 ELSE root[m]
        /\ \A m \in Segment : Staged'[m] = IF m = s THEN root[s] ELSE Staged[m]
    BY <1>1, <1>3, <1>7, RestoreMoves
  <2>3. owner = journal.owner => ~ Whole(root, journal)
    BY <1>2, <1>3, <2>1
  <2>4. /\ OnDisk(root', trash, Staged', journal, owner) /\ ~ Whole(root', journal)
        /\ owner # journal.previousOwner =>
             \E k \in Segment : Dead(root', trash, Staged', journal, k)
        /\ \A m \in Segment : New(root', trash, journal, m) => New(root, trash, journal, m)
        /\ Kept(root', trash, journal) = Kept(root, trash, journal)
    BY <1>2, <1>3, <1>4, <2>1, <2>2, <2>3, TakenBack
  <2> QED BY <1>2, <2>1, <2>4
<1>8. CASE PutBack(s)
  <2>1. trash[s] # 0 /\ root[s] = 0 /\ (s \in NewNames => Staged[s] # 0)
    BY <1>1, <1>8 DEF PutBack, Irrecoverable
  <2>2. MovedBack(root, trash, root', trash', s) /\ Staged' = Staged /\ todo' = todo \ {s}
    BY <1>1, <1>3, <1>8, RestoreMoves
  <2>4. ASSUME NEW m \in Segment, New(root, trash, journal, m)
        PROVE  s \in journal.new /\ s < m
    <3>1. m \in todo \cap NewNames
      BY <1>2, <1>4, <2>4 DEF OnDisk, Places
    <3>2. m # s
      BY <2>1, <2>4 DEF New
    <3>3. s \in Nat /\ m \in Nat
      BY <1>3, Numbers
    <3> QED BY <1>3, <1>4, <3>1, <3>2, <3>3
  <2>5. /\ OnDisk(root', trash', Staged, journal, owner)
        /\ owner # journal.previousOwner =>
             \E k \in Segment : Dead(root', trash', Staged, journal, k)
        /\ owner = journal.owner /\ Whole(root', journal) =>
             \A n \in Segment : ~ New(root', trash', journal, n)
        /\ \A m \in Segment : New(root', trash', journal, m) => m # s /\ New(root, trash, journal, m)
        /\ Kept(root', trash', journal) = Kept(root, trash, journal)
    <3>1. s \in Segment /\ journal.attempt # 0 /\ OnDisk(root, trash, Staged, journal, owner)
      BY <1>2, <1>3, <1>4
    <3>2. trash[s] # 0 /\ root[s] = 0 /\ (s \in journal.new => Staged[s] # 0)
      BY <1>4, <2>1
    <3>3. \A m \in Segment : New(root, trash, journal, m) => s \in journal.new /\ s < m
      BY <2>4
    <3>4. owner # journal.previousOwner =>
            \E k \in Segment : Dead(root, trash, Staged, journal, k)
      BY <1>2
    <3> QED BY <2>2, <3>1, <3>2, <3>3, <3>4, PutInPlace
  <2>6. \A m \in Segment \ todo' : trash'[m] = 0
    BY <1>2, <2>2 DEF MovedBack
  <2> QED BY <1>2, <2>2, <2>5, <2>6
<1>9. CASE LeaveThere(s)
  <2>1. trash[s] = 0 /\ ~ New(root, trash, journal, s)
    BY <1>4, <1>9 DEF LeaveThere, New
  <2>2. UNCHANGED <<root, trash>> /\ Staged' = Staged /\ todo' = todo \ {s}
    BY <1>1, <1>3, <1>9, RestoreMoves
  <2> QED BY <1>2, <2>1, <2>2
<1> QED BY <1>1, <1>7, <1>8, <1>9

LEMMA JournalRecovery ==
  ASSUME ControlInv, JournalInv, Recover \/ RestoreMarker \/ EndRestore
  PROVE  JournalInv'
<1>1. CASE Recover /\ pc' # "restoring"
  <2>1. journal' = NoJournal \/ (~ Pending /\ UNCHANGED journal)
    BY <1>1 DEF Recover
  <2> QED BY <2>1 DEF JournalInv, Pending
<1>2. CASE Recover /\ pc' = "restoring"
  <2>1. /\ Pending /\ ~ Complete /\ todo' = NewNames \cup OldNames
        /\ UNCHANGED <<root, rootExists, owner, trash, staging, journal>>
    BY <1>2 DEF Recover, Recovered, Unlock
  <2>2. Staged' = Staged /\ Pending'
    BY <2>1 DEF Staged, Pending
  <2>3. /\ RootInv /\ OnDisk(root, trash, Staged, journal, owner)
        /\ NewNames = journal.new /\ OldNames = journal.old
    BY <2>1, JournalFacts DEF JournalInv
  <2>4. ~ (owner = journal.owner /\ Whole(root, journal))
    BY <2>1, <2>3, CompleteIsWhole
  <2>5. owner # journal.previousOwner => \E k \in Segment : Dead(root, trash, Staged, journal, k)
    <3>1. Installed(root, journal) => Whole(root, journal)
      BY <2>1, JournalFacts DEF Installed, Whole
    <3> QED BY <2>3, <2>4, <3>1 DEF OnDisk, Marked
  <2>6. \A n \in Segment \ todo' : trash[n] = 0 /\ ~ New(root, trash, journal, n)
    BY <2>1, <2>3 DEF OnDisk, Places
  <2>7. Restored'
    BY <1>2, <2>1, <2>2, <2>4, <2>5, <2>6 DEF Restored
  <2>8. RootInv' /\ Progress'
    BY <1>2, <2>1, <2>3 DEF RootInv, Progress, Publishing, OldNames, NewNames
  <2> QED BY <1>2, <2>1, <2>2, <2>3, <2>7, <2>8 DEF JournalInv
<1>3. CASE RestoreMarker
  <2>1. /\ pc = "restoring" /\ pc' = "restored" /\ todo = {} /\ Pending
        /\ owner' = journal.previousOwner
        /\ UNCHANGED <<root, rootExists, trash, staging, journal, todo>>
    BY <1>3 DEF RestoreMarker, ControlInv, InsideInv, Restoring
  <2>2. Staged' = Staged /\ Pending'
    BY <2>1 DEF Staged, Pending
  <2>3. /\ RootInv /\ OnDisk(root, trash, Staged, journal, owner)
        /\ \A n \in Segment : trash[n] = 0 /\ ~ New(root, trash, journal, n)
    BY <2>1 DEF JournalInv, Restored, Restoring
  <2>4. OnDisk(root, trash, Staged, journal, owner')
    BY <2>1, <2>3 DEF OnDisk, Gap, Marked
  <2>5. RootInv'
    BY <2>1, <2>3, JournalFacts DEF RootInv, Publishing, OldNames, NewNames
  <2>6. Progress' /\ Restored'
    BY <2>1, <2>3 DEF Progress, Restored
  <2> QED BY <2>1, <2>2, <2>4, <2>5, <2>6 DEF JournalInv
<1>4. CASE EndRestore
  BY <1>4 DEF EndRestore, JournalInv, Pending
<1> QED BY <1>1, <1>2, <1>3, <1>4

LEMMA FirstOfTodo ==
  ASSUME ControlInv, todo # {}
  PROVE  First(todo) \in todo /\ First(todo) \in Segment /\ \A m \in todo : First(todo) <= m
BY Smallest DEF ControlInv, Typed, InsideTyped

\* rename into the trash.
LEMMA Retirement ==
  ASSUME ControlInv, JournalInv, RetireSegment
  PROVE  /\ JournalInv'
         /\ Kept(root', trash', journal) = Kept(root, trash, journal)
<1>1. /\ pc = "retiring" /\ Pending /\ pc' \in {"retiring", "installing"}
      /\ UNCHANGED <<rootExists, owner, staging, journal>>
  BY DEF RetireSegment, ControlInv, InsideInv, Publishing
<1>2. Staged' = Staged /\ Pending'
  BY <1>1 DEF Staged, Pending
<1>3. /\ RootInv /\ owner = journal.previousOwner
      /\ RetiringAt(root, trash, Staged, journal, todo)
  BY <1>1 DEF JournalInv, Progress
<1>4. NewNames = journal.new /\ NewNames \subseteq Segment
  BY <1>1, JournalFacts
<1>5. RootInv' /\ Restored'
  BY <1>1, <1>3 DEF RootInv, Restored, Restoring, Publishing, OldNames, NewNames
<1>6. CASE todo # {}
  <2> DEFINE s == First(todo)
  <2>1. /\ trash' = Put(trash, s, root[s]) /\ root' = Put(root, s, 0) /\ todo' = todo \ {s}
        /\ pc' = "retiring"
    BY <1>1, <1>6 DEF RetireSegment
  <2>2. s \in todo /\ s \in Segment
    BY <1>6, FirstOfTodo
  <2> HIDE DEF s
  <2>3. /\ root \in Dir /\ trash \in Dir /\ root[s] \in 0..MaxAttempts /\ 0 \in 0..MaxAttempts
    BY <2>2, DirValues, Numbers DEF ControlInv, Typed, DiskTyped
  <2>4. \A m \in Segment : trash'[m] = IF m = s THEN root[s] ELSE trash[m]
    BY <2>1, <2>2, <2>3, PutDir
  <2>5. \A m \in Segment : root'[m] = IF m = s THEN 0 ELSE root[m]
    BY <2>1, <2>2, <2>3, PutDir
  <2>6. RetiringAt(root', trash', Staged, journal, todo')
    BY <1>3, <2>1, <2>2, <2>4, <2>5 DEF RetiringAt
  <2>7. OnDisk(root', trash', Staged, journal, owner)
    BY <1>3, <2>6, RetiringOnDisk
  <2>8. Progress'
    BY <1>1, <1>2, <2>1, <2>6, <1>3 DEF Progress
  <2>9. ASSUME NEW m \in Segment
        PROVE  Kept(root', trash', journal)[m] = Kept(root, trash, journal)[m]
    BY <1>3, <2>2, <2>4, <2>5 DEF RetiringAt, Kept
  <2>10. Kept(root', trash', journal) = Kept(root, trash, journal)
    BY <2>9 DEF Kept
  <2> QED BY <1>1, <1>2, <1>5, <2>1, <2>7, <2>8, <2>10 DEF JournalInv
<1>7. CASE todo = {}
  <2>1. pc' = "installing" /\ todo' = NewNames /\ UNCHANGED <<root, trash>>
    BY <1>7, <1>1 DEF RetireSegment
  <2>2. InstallingAt(root, trash, Staged, journal, todo')
    BY <1>3, <1>4, <1>7, <2>1 DEF RetiringAt, InstallingAt
  <2>3. OnDisk(root, trash, Staged, journal, owner)
    BY <1>3, <1>4, <2>2, InstallingOnDisk
  <2>4. Progress'
    BY <1>1, <1>2, <1>3, <2>1, <2>2 DEF Progress
  <2> QED BY <1>1, <1>2, <1>5, <2>1, <2>3, <2>4 DEF JournalInv
<1> QED BY <1>6, <1>7

\* rename out of the staging.
LEMMA Installation ==
  ASSUME ControlInv, JournalInv, InstallSegment
  PROVE  /\ JournalInv'
         /\ Kept(root', trash', journal) = Kept(root, trash, journal)
         /\ todo # {} => ~ Whole(root, journal)
         /\ todo' # {} => ~ Whole(root', journal)
         /\ todo' = {} => Installed(root', journal)
         /\ todo = {} => root' = root
<1>1. /\ pc = "installing" /\ Pending /\ pc' \in {"installing", "marking"}
      /\ UNCHANGED <<rootExists, owner, trash, journal>>
  BY DEF InstallSegment, ControlInv, InsideInv, Publishing
<1>2. /\ RootInv /\ owner = journal.previousOwner
      /\ InstallingAt(root, trash, Staged, journal, todo)
  BY <1>1 DEF JournalInv, Progress
<1>3. /\ NewNames = journal.new /\ journal.new \subseteq Segment /\ journal.attempt # 0
      /\ By = journal.attempt
  BY <1>1, JournalFacts
<1>4. Pending' /\ RootInv' /\ Restored'
  BY <1>1, <1>2 DEF Pending, RootInv, Restored, Restoring, Publishing, OldNames, NewNames
<1>5. ASSUME InstallingAt(root', trash, Staged', journal, todo'), pc' = "marking" => todo' = {}
      PROVE  JournalInv'
  <2>1. OnDisk(root', trash, Staged', journal, owner)
    BY <1>2, <1>3, <1>5, InstallingOnDisk
  <2>2. Progress'
    BY <1>1, <1>2, <1>5 DEF Progress
  <2> QED BY <1>1, <1>4, <2>1, <2>2 DEF JournalInv
<1>6. CASE todo # {}
  <2> DEFINE s == First(todo)
  <2>1. /\ root' = Put(root, s, Staged[s]) /\ staging' = PutStaged(s, 0) /\ todo' = todo \ {s}
        /\ pc' = "installing"
    BY <1>1, <1>6 DEF InstallSegment
  <2>2. s \in todo /\ s \in Segment /\ \A m \in todo : s <= m
    BY <1>6, FirstOfTodo
  <2> HIDE DEF s
  <2>3. /\ root \in Dir /\ Staged[s] \in 0..MaxAttempts /\ 0 \in 0..MaxAttempts /\ Typed
    BY <1>1, <2>2, DirValues, Numbers DEF ControlInv, Typed, DiskTyped
  <2>4. \A m \in Segment : root'[m] = IF m = s THEN Staged[s] ELSE root[m]
    BY <2>1, <2>2, <2>3, PutDir
  <2>5. \A m \in Segment : Staged'[m] = IF m = s THEN 0 ELSE Staged[m]
    <3>1. Staged' = PutStaged(s, 0)[By]
      BY <1>1, <2>1 DEF Staged, By
    <3> QED BY <1>1, <2>2, <2>3, <3>1, PutStagedDir
  <2>6. InstallingAt(root', trash, Staged', journal, todo')
    <3>1. \A n \in Segment : /\ root'[n] = IF n \in journal.new \ todo' THEN By ELSE 0
                             /\ Staged'[n] = IF n \in todo' THEN By ELSE 0
      BY <1>2, <1>3, <2>1, <2>2, <2>4, <2>5 DEF InstallingAt
    <3>2. ASSUME NEW m \in journal.new \ todo', NEW k \in todo' PROVE m < k
      <4>1. CASE m = s
        <5>1. s \in Nat /\ k \in Nat /\ s <= k /\ s # k
          BY <1>2, <1>3, <2>1, <2>2, <3>2, Numbers DEF InstallingAt
        <5> QED BY <4>1, <5>1
      <4>2. CASE m # s
        BY <1>2, <2>1, <4>2 DEF InstallingAt
      <4> QED BY <4>1, <4>2
    <3> QED BY <1>2, <1>3, <2>1, <3>1, <3>2 DEF InstallingAt
  <2>7. JournalInv'
    BY <1>5, <2>1, <2>6
  <2>8. ASSUME NEW m \in Segment
        PROVE  Kept(root', trash, journal)[m] = Kept(root, trash, journal)[m]
    BY <1>2 DEF InstallingAt, Kept
  <2>9. Kept(root', trash', journal) = Kept(root, trash, journal)
    BY <1>1, <2>8 DEF Kept
  <2>10. ~ Whole(root, journal)
    BY <1>2, <1>3, <2>2 DEF InstallingAt, Whole
  <2>11. todo' # {} => ~ Whole(root', journal)
    BY <1>3, <2>6 DEF InstallingAt, Whole
  <2>12. todo' = {} => Installed(root', journal)
    BY <2>6 DEF InstallingAt, Installed
  <2> QED BY <1>6, <2>7, <2>9, <2>10, <2>11, <2>12
<1>7. CASE todo = {}
  <2>1. pc' = "marking" /\ UNCHANGED <<root, staging, todo>>
    BY <1>1, <1>7 DEF InstallSegment
  <2>2. Staged' = Staged
    BY <1>1, <2>1 DEF Staged
  <2>3. JournalInv'
    BY <1>2, <1>5, <1>7, <2>1, <2>2
  <2>4. Installed(root', journal)
    BY <1>2, <1>7, <2>1 DEF InstallingAt, Installed
  <2> QED BY <1>1, <1>7, <2>1, <2>3, <2>4
<1> QED BY <1>6, <1>7

LEMMA OutputNames ==
  ASSUME ControlInv, NEW a \in Attempt, forRevision[a] # 0
  PROVE  /\ In(Output(a)) = SegmentsOf[forRevision[a]]
         /\ \A n \in Segment : Output(a)[n] = IF n \in In(Output(a)) THEN a ELSE 0
<1>1. forRevision[a] \in Revision
  BY Numbers DEF ControlInv, Typed, AttemptsTyped
<1>2. SegmentsOf[forRevision[a]] \subseteq Segment /\ a # 0
  BY <1>1, Segments, Numbers
<1> QED BY <1>2 DEF In, Output

\* The journal of a publication describes what is there.
LEMMA JournalWritten ==
  ASSUME ControlInv, ViewInv, WriteJournal
  PROVE  /\ JournalInv'
         /\ Kept(root', trash', journal') = root
<1>1. /\ pc = "writing" /\ pc' = "making" /\ trash' = Empty
      /\ journal' = [attempt |-> holder, owner |-> forRevision[holder],
                     new |-> In(staging[holder]), old |-> In(root),
                     previousOwner |-> owner, rootExisted |-> rootExists]
      /\ UNCHANGED <<root, rootExists, owner, staging, todo>>
  BY DEF WriteJournal
<1>2. /\ holder \in Attempt /\ holder # 0 /\ ~ Pending /\ phase[holder] = "staged"
      /\ forRevision[holder] = revision /\ revision \in Revision /\ revision # 0
      /\ root \in Dir /\ rootExists \in BOOLEAN
  BY <1>1, Numbers DEF ControlInv, Typed, InsideTyped, InsideInv, EntryTyped, DiskTyped
<1>3. staging[holder] = Output(holder)
  BY <1>2 DEF ControlInv, StagedInv
<1>4. /\ In(staging[holder]) = SegmentsOf[revision]
      /\ \A n \in Segment : staging[holder][n] = IF n \in In(staging[holder]) THEN holder ELSE 0
  BY <1>2, <1>3, OutputNames
<1>5. /\ ~ rootExists => root = Empty /\ owner = 0
      /\ owner = revision => Good(root, rootExists, owner)
  BY <1>2 DEF ViewInv, ViewExists, ViewOwner, Shown, RolledBack
<1>6. owner = revision => In(root) = SegmentsOf[revision]
  BY <1>2, <1>5, OutputNames DEF Good
<1>7. ~ rootExists => In(root) = {}
  BY <1>5, EmptyDir DEF In
<1>8. RootInv'
  <2>1. /\ journal'.previousOwner = owner /\ journal'.owner = revision
        /\ OldNames' = In(root) /\ NewNames' = SegmentsOf[revision]
        /\ journal'.rootExisted = rootExists
    BY <1>1, <1>2, <1>4 DEF OldNames, NewNames
  <2>2. owner = revision => rootExists
    BY <1>2, <1>5
  <2> QED BY <1>1, <1>5, <1>6, <1>7, <2>1, <2>2 DEF RootInv
<1>9. Staged' = staging[holder]
  BY <1>1 DEF Staged
<1>10. \A n \in Segment : root[n] # 0 <=> n \in In(root)
  BY DEF In
<1>11. RetiringAt(root', trash', Staged', journal', OldNames')
  BY <1>1, <1>4, <1>9, <1>10, EmptyDir DEF RetiringAt, OldNames
<1>12. journal'.previousOwner = owner'
  BY <1>1
<1>13. OnDisk(root', trash', Staged', journal', owner')
  BY <1>11, <1>12, RetiringOnDisk
<1>14. Progress' /\ Restored'
  BY <1>1, <1>11, <1>12 DEF Progress, Restored, Restoring
<1>15. Kept(root', trash', journal') = root
  <2>1. journal'.old = In(root) /\ trash' = Empty /\ root' = root
    BY <1>1
  <2>2. \A n \in Segment : Kept(root', trash', journal')[n] = root[n]
    BY <1>10, <2>1, EmptyDir DEF Kept
  <2> QED BY <1>2, <2>2 DEF Kept, Dir
<1> QED BY <1>1, <1>8, <1>13, <1>14, <1>15 DEF JournalInv

LEMMA JournalPublication ==
  ASSUME ControlInv, JournalInv, ViewInv, Publication
  PROVE  JournalInv'
<1>1. CASE MakeDirectories
  <2>1. /\ pc = "making" /\ pc' = "retiring" /\ Pending /\ rootExists' = TRUE /\ todo' = OldNames
        /\ UNCHANGED <<root, owner, trash, staging, journal>>
    BY <1>1 DEF MakeDirectories, ControlInv, InsideInv, Publishing
  <2>2. Staged' = Staged /\ Pending'
    BY <2>1 DEF Staged, Pending
  <2>3. /\ RootInv /\ owner = journal.previousOwner
        /\ RetiringAt(root, trash, Staged, journal, OldNames)
        /\ OnDisk(root, trash, Staged, journal, owner)
    BY <2>1 DEF JournalInv, Progress
  <2>4. RootInv' /\ Progress' /\ Restored'
    BY <2>1, <2>2, <2>3 DEF RootInv, Progress, Restored, Restoring, OldNames, NewNames
  <2> QED BY <2>1, <2>2, <2>3, <2>4 DEF JournalInv
<1>2. CASE Mark
  <2>1. /\ pc = "marking" /\ pc' = "clearing" /\ Pending /\ owner' = journal.owner
        /\ UNCHANGED <<root, rootExists, trash, staging, journal, todo>>
    BY <1>2 DEF Mark, ControlInv, InsideInv, Publishing
  <2>2. Staged' = Staged /\ Pending'
    BY <2>1 DEF Staged, Pending
  <2>3. RootInv /\ todo = {} /\ InstallingAt(root, trash, Staged, journal, todo)
    BY <2>1 DEF JournalInv, Progress
  <2>4. journal.new \subseteq Segment
    BY <2>1, JournalFacts
  <2>5. OnDisk(root, trash, Staged, journal, owner')
    BY <2>1, <2>3, <2>4, InstallingOnDisk
  <2>6. RootInv' /\ Progress' /\ Restored'
    BY <2>1, <2>2, <2>3 DEF RootInv, Progress, Restored, Restoring, Publishing, OldNames, NewNames
  <2> QED BY <2>1, <2>2, <2>5, <2>6 DEF JournalInv
<1>3. CASE ClearJournal /\ UNCHANGED journal
  <2>1. /\ pc = "clearing" /\ pc' = "free" /\ Pending /\ trash' = Empty
        /\ Ended(holder, "published") /\ holder \in 0..MaxAttempts
        /\ UNCHANGED <<root, rootExists, owner, journal>>
    BY <1>3 DEF ClearJournal, Unlock, ControlInv, InsideInv, Publishing, Typed, InsideTyped
  <2>2. RootInv /\ todo = {} /\ InstallingAt(root, trash, Staged, journal, todo)
        /\ owner = journal.owner
    BY <2>1 DEF JournalInv, Progress
  <2>3. \A n \in Segment : Staged'[n] = 0
    <3>1. \A n \in Segment : Staged'[n] = Staged[n] \/ Staged'[n] = 0
      BY <2>1, EndedStaged
    <3> QED BY <2>2, <3>1 DEF InstallingAt
  <2>4. Pending' /\ RootInv'
    BY <2>1, <2>2 DEF Pending, RootInv, Publishing, OldNames, NewNames
  <2>5. Progress' /\ Restored'
    BY <2>1 DEF Progress, Restored, Restoring
  <2>6. Installed(root, journal)
    BY <2>2 DEF InstallingAt, Installed
  <2>7. OnDisk(root, trash', Staged', journal, owner)
    <3>1. \A n \in Segment : trash'[n] = 0
      BY <2>1, EmptyDir
    <3>2. Places(root, trash', Staged', journal)
      BY <2>3, <2>6, <3>1 DEF Places, New, Installed
    <3> QED BY <2>2, <2>6, <3>2 DEF OnDisk, Gap, Marked
  <2> QED BY <2>1, <2>4, <2>5, <2>7 DEF JournalInv
<1>4. CASE ClearJournal /\ ~ UNCHANGED journal
  BY <1>4 DEF ClearJournal, JournalInv, Pending
<1> QED BY <1>1, <1>2, <1>3, <1>4, JournalWritten, Retirement, Installation DEF Publication

\* A cleanup takes published segments away, or puts all it took back.
LEMMA JournalCleanup ==
  ASSUME ControlInv, JournalInv, Cleanup
  PROVE  JournalInv'
<1>1. UNCHANGED <<rootExists, owner, trash, staging, journal>>
  BY DEF Cleanup, BeginCleanup, CleanSegment, CleanupFails
<1> SUFFICES ASSUME Pending PROVE JournalInv'
  BY <1>1 DEF JournalInv, Pending
<1>2. Pending' /\ Staged' = Staged
  BY <1>1 DEF Pending, Staged
<1>3. RootInv /\ OnDisk(root, trash, Staged, journal, owner)
  BY DEF JournalInv
<1>4. pc' \in {"free", "cleaning"}
  BY DEF Cleanup, BeginCleanup, CleanSegment, CleanupFails, Unlock
<1>5. RootInv' /\ Progress' /\ Restored'
  BY <1>1, <1>3, <1>4 DEF RootInv, Progress, Restored, Restoring, Publishing, OldNames, NewNames
<1>6. SUFFICES /\ OnDisk(root', trash, Staged, journal, owner)
               /\ pc' = "cleaning" => OnDisk(Before', trash, Staged, journal, owner)
  BY <1>1, <1>2, <1>5 DEF JournalInv
<1>7. CASE BeginCleanup
  <2>1. moved = {} /\ UNCHANGED <<root, rubbish, moved>> /\ root \in Dir
    BY <1>7 DEF BeginCleanup, ControlInv, CleaningInv, Typed, DiskTyped
  <2>2. Before' = root
    BY <2>1 DEF Before, Dir
  <2> QED BY <1>3, <2>1, <2>2
<1>8. CASE CleanSegment /\ todo # {}
  <2> DEFINE s == First(todo)
  <2>1. /\ pc = "cleaning"
        /\ rubbish' = Put(rubbish, s, root[s]) /\ root' = Put(root, s, 0)
        /\ moved' = moved \cup {s}
    BY <1>8 DEF CleanSegment
  <2>2. s \in todo /\ s \in Segment
    BY <1>8, FirstOfTodo
  <2>3. s \notin moved
    BY <2>1, <2>2 DEF ControlInv, CleaningInv
  <2> HIDE DEF s
  <2>4. root \in Dir /\ rubbish \in Dir /\ root[s] \in 0..MaxAttempts /\ 0 \in 0..MaxAttempts
    BY <2>2, DirValues, Numbers DEF ControlInv, Typed, DiskTyped
  <2>5. \A m \in Segment : root'[m] = IF m = s THEN 0 ELSE root[m]
    BY <2>1, <2>2, <2>4, PutDir
  <2>6. \A m \in Segment : rubbish'[m] = IF m = s THEN root[s] ELSE rubbish[m]
    BY <2>1, <2>2, <2>4, PutDir
  <2>7. ASSUME NEW m \in Segment PROVE Before'[m] = Before[m]
    BY <2>1, <2>3, <2>5, <2>6 DEF Before
  <2>8. Before' = Before
    BY <2>7 DEF Before
  <2>9. OnDisk(root', trash, Staged, journal, owner)
    BY <1>3, <2>5, OnDiskLess
  <2> QED BY <2>1, <2>8, <2>9 DEF JournalInv
<1>9. CASE CleanSegment /\ todo = {}
  BY <1>3, <1>9 DEF CleanSegment, Unlock
<1>10. CASE CleanupFails
  <2>1. /\ pc = "cleaning" /\ pc' = "free"
        /\ \A n \in Segment : root'[n] = Before[n] \/ root'[n] = 0
    BY <1>10 DEF CleanupFails, Before, Unlock, ControlInv, CleaningInv
  <2> QED BY <2>1, OnDiskLess DEF JournalInv
<1> QED BY <1>7, <1>8, <1>9, <1>10 DEF Cleanup

LEMMA JournalStep ==
  ASSUME ControlInv, JournalInv, ViewInv, [Next]_vars
  PROVE  JournalInv'
<1>1. CASE UNCHANGED vars
  BY <1>1 DEF vars, JournalInv, RootInv, Progress, Restored, Before, Pending, Staged, OldNames, NewNames
<1>2. CASE Next
  BY <1>2, JournalRequests, Restoration, JournalRecovery, JournalPublication, JournalCleanup
     DEF Next, Recovery
<1> QED BY <1>1, <1>2

-----------------------------------------------------------------------------
(* What is shown changes with the commit and with a cleanup only *)

\* A transaction that is being undone looks complete only if the content did not
\* change: then nothing of it is left to undo.
LEMMA NothingToUndo ==
  ASSUME ControlInv, JournalInv, Pending, Complete, pc \in Restoring \cup {"making", "retiring"}
  PROVE  /\ owner = journal.previousOwner /\ journal.rootExisted
         /\ \A n \in Segment : trash[n] = 0 /\ ~ New(root, trash, journal, n)
<1>1. /\ RootInv /\ OnDisk(root, trash, Staged, journal, owner)
      /\ NewNames = journal.new /\ OldNames = journal.old /\ journal.owner # 0
      /\ owner = journal.owner /\ Whole(root, journal)
  BY JournalFacts, CompleteIsWhole DEF JournalInv
<1>2. journal.previousOwner = owner => journal.old = journal.new /\ journal.rootExisted
  BY <1>1 DEF RootInv
<1>3. CASE pc \in Restoring
  <2>1. owner = journal.previousOwner
    BY <1>1, <1>3 DEF JournalInv, Restored, Whole, Dead
  <2>2. \A n \in Segment : ~ New(root, trash, journal, n)
    BY <1>1, <1>3 DEF JournalInv, Restored
  <2>3. \A n \in Segment : trash[n] = 0
    BY <1>1, <1>2, <2>1, <2>2 DEF OnDisk, Places, Whole, New
  <2> QED BY <1>2, <2>1, <2>2, <2>3
<1>4. ASSUME NEW td, RetiringAt(root, trash, Staged, journal, td), owner = journal.previousOwner
      PROVE  \A n \in Segment : trash[n] = 0 /\ ~ New(root, trash, journal, n)
  BY <1>1, <1>2, <1>4 DEF RetiringAt, Whole, New
<1>5. CASE pc \in {"making", "retiring"}
  BY <1>2, <1>4, <1>5 DEF JournalInv, Progress
<1> QED BY <1>3, <1>5

\* From the journal on, and again while it is undone, the previous content is shown.
LEMMA PreviousShown ==
  ControlInv /\ JournalInv /\ Pending /\ pc \in Restoring \cup {"making", "retiring"} =>
    /\ Shown = Kept(root, trash, journal)
    /\ ViewExists <=> journal.rootExisted
    /\ ViewOwner = journal.previousOwner
<1> SUFFICES ASSUME ControlInv, JournalInv, Pending, pc \in Restoring \cup {"making", "retiring"}
             PROVE  /\ Shown = Kept(root, trash, journal)
                    /\ ViewExists <=> journal.rootExisted
                    /\ ViewOwner = journal.previousOwner
  OBVIOUS
<1>1. CASE ~ Complete
  BY <1>1 DEF Shown, ViewExists, ViewOwner, RolledBack, Kept, OldNames
<1>2. CASE Complete
  <2>1. /\ owner = journal.previousOwner /\ journal.rootExisted /\ rootExists /\ root \in Dir
        /\ \A n \in Segment : trash[n] = 0 /\ ~ New(root, trash, journal, n)
    BY <1>2, NothingToUndo DEF Complete, ControlInv, Typed, DiskTyped
  <2>2. \A n \in Segment : Kept(root, trash, journal)[n] = root[n]
    BY <2>1 DEF Kept, New
  <2>3. Kept(root, trash, journal) = root
    BY <2>1, <2>2 DEF Kept, Dir
  <2> QED BY <1>2, <2>1, <2>3 DEF Shown, ViewExists, ViewOwner, RolledBack
<1> QED BY <1>1, <1>2

LEMMA PreviousShownNext ==
  ControlInv' /\ JournalInv' /\ Pending' /\ pc' \in Restoring \cup {"making", "retiring"} =>
    /\ Shown' = Kept(root', trash', journal')
    /\ ViewExists' <=> journal'.rootExisted
    /\ ViewOwner' = journal'.previousOwner
<1>1. (ControlInv /\ JournalInv /\ Pending /\ pc \in Restoring \cup {"making", "retiring"} =>
         /\ Shown = Kept(root, trash, journal)
         /\ ViewExists <=> journal.rootExisted
         /\ ViewOwner = journal.previousOwner)'
  BY PreviousShown, PTL
<1>2. Kept(root, trash, journal)' = Kept(root', trash', journal')
  BY DEF Kept
<1> QED BY <1>1, <1>2

SameView ==
  /\ Shown' = Shown
  /\ ViewExists' <=> ViewExists
  /\ ViewOwner' = ViewOwner

\* The output of the attempt inside is shown from now on.
Committed ==
  /\ pc \in {"installing", "marking"} /\ holder \in Attempt
  /\ Shown' = Output(holder) /\ ViewExists' /\ ViewOwner' = forRevision[holder]

LEMMA ViewFrame ==
  ASSUME UNCHANGED <<root, rootExists, owner, trash, journal>>
  PROVE  SameView
BY DEF SameView, Shown, ViewExists, ViewOwner, RolledBack, Pending, Complete, NewNames, OldNames

\* The commit: the last rename, if the marker had this revision already, or the marker.
LEMMA CommitStep ==
  ASSUME ControlInv, JournalInv, Pending, pc \in {"installing", "marking"},
         UNCHANGED journal, rootExists', owner' = journal.owner,
         Installed(root', journal), root' \in Dir
  PROVE  Committed
<1>1. /\ By \in Attempt /\ holder = By /\ journal.attempt = By /\ By # 0
      /\ journal.owner = forRevision[By] /\ journal.new = SegmentsOf[journal.owner]
      /\ NewNames = journal.new /\ journal.new \subseteq Segment
  BY JournalFacts DEF ControlInv, InsideInv, WrittenInv, Publishing
<1>2. In(root') = journal.new
  BY <1>1 DEF Installed, In
<1>3. Complete' /\ Pending'
  BY <1>1, <1>2 DEF Complete, In, Pending, NewNames
<1>4. Shown' = root' /\ ViewExists' /\ ViewOwner' = owner'
  BY <1>3 DEF Shown, ViewExists, ViewOwner, RolledBack
<1>5. root' = Output(By)
  <2>1. \A n \in Segment : root'[n] = Output(By)[n]
    BY <1>1 DEF Installed, Output
  <2> QED BY <2>1 DEF Output, Dir
<1> QED BY <1>1, <1>4, <1>5 DEF Committed

LEMMA ViewStep ==
  ASSUME ControlInv, JournalInv, ViewInv, ControlInv', JournalInv', [Next]_vars,
         ~ (CleanSegment \/ CleanupFails)
  PROVE  SameView \/ Committed
<1>1. CASE UNCHANGED <<root, rootExists, owner, trash, journal>>
  BY <1>1, ViewFrame
<1>2. CASE Recover /\ ~ UNCHANGED journal
  <2>1. Pending /\ Complete /\ journal' = NoJournal /\ UNCHANGED <<root, rootExists, owner>>
    BY <1>2 DEF Recover
  <2> QED BY <2>1 DEF SameView, Shown, ViewExists, ViewOwner, RolledBack, Pending
<1>3. CASE RestoreSegment
  <2>1. /\ pc = "restoring" /\ pc' = "restoring" /\ Pending /\ Pending' /\ UNCHANGED journal
    BY <1>3 DEF RestoreSegment, ControlInv, InsideInv, Restoring, Pending
  <2>2. Kept(root', trash', journal') = Kept(root, trash, journal)
    BY <1>3, <2>1, Restoration
  <2> QED BY <2>1, <2>2, PreviousShown, PreviousShownNext DEF SameView, Restoring
<1>4. CASE RestoreMarker
  <2>1. /\ pc = "restoring" /\ pc' = "restored" /\ Pending /\ Pending'
        /\ UNCHANGED <<journal, root, trash>>
    BY <1>4 DEF RestoreMarker, ControlInv, InsideInv, Restoring, Pending
  <2>2. Kept(root', trash', journal') = Kept(root, trash, journal)
    BY <2>1
  <2> QED BY <2>1, <2>2, PreviousShown, PreviousShownNext DEF SameView, Restoring
<1>5. CASE EndRestore
  <2>1. /\ pc = "restored" /\ Pending /\ ~ Pending'
        /\ rootExists' = journal.rootExisted /\ UNCHANGED <<root, owner>> /\ root \in Dir
    BY <1>5 DEF EndRestore, ControlInv, InsideInv, Restoring, Pending, Typed, DiskTyped
  <2>2. /\ \A n \in Segment : trash[n] = 0 /\ ~ New(root, trash, journal, n)
        /\ owner = journal.previousOwner
    BY <2>1 DEF JournalInv, Restored, Restoring
  <2>3. Kept(root, trash, journal) = root
    <3>1. \A n \in Segment : Kept(root, trash, journal)[n] = root[n]
      BY <2>2 DEF Kept, New
    <3> QED BY <2>1, <3>1 DEF Kept, Dir
  <2>4. Shown' = root /\ (ViewExists' <=> journal.rootExisted) /\ ViewOwner' = owner
    BY <2>1 DEF Shown, ViewExists, ViewOwner, RolledBack
  <2> QED BY <2>1, <2>2, <2>3, <2>4, PreviousShown DEF SameView, Restoring
<1>6. CASE WriteJournal
  <2>1. /\ pc' = "making" /\ ~ Pending /\ Pending'
        /\ journal'.previousOwner = owner /\ journal'.rootExisted = rootExists
    BY <1>6 DEF WriteJournal, ControlInv, ControlInv, InsideInv, Publishing
  <2>2. Shown = root /\ (ViewExists <=> rootExists) /\ ViewOwner = owner
    BY <2>1 DEF Shown, ViewExists, ViewOwner, RolledBack
  <2>3. Kept(root', trash', journal') = root
    BY <1>6, JournalWritten
  <2> QED BY <2>1, <2>2, <2>3, PreviousShownNext DEF SameView
<1>7. CASE MakeDirectories
  <2>1. /\ pc = "making" /\ pc' = "retiring" /\ Pending /\ Pending'
        /\ UNCHANGED <<journal, root, trash>>
    BY <1>7 DEF MakeDirectories, ControlInv, InsideInv, Publishing, Pending
  <2>2. Kept(root', trash', journal') = Kept(root, trash, journal)
    BY <2>1
  <2> QED BY <2>1, <2>2, PreviousShown, PreviousShownNext DEF SameView
<1>8. CASE RetireSegment /\ todo # {}
  <2>1. /\ pc = "retiring" /\ pc' = "retiring" /\ Pending /\ Pending' /\ UNCHANGED journal
    BY <1>8 DEF RetireSegment, ControlInv, InsideInv, Publishing, Pending
  <2>2. Kept(root', trash', journal') = Kept(root, trash, journal)
    BY <1>8, <2>1, Retirement
  <2> QED BY <2>1, <2>2, PreviousShown, PreviousShownNext DEF SameView
<1>9. CASE InstallSegment /\ todo # {}
  <2>1. /\ pc = "installing" /\ Pending /\ Pending' /\ UNCHANGED <<journal, owner, rootExists>>
        /\ RootInv /\ rootExists
    BY <1>9 DEF InstallSegment, ControlInv, InsideInv, Publishing, Pending, JournalInv, RootInv
  <2>2. /\ Kept(root', trash', journal') = Kept(root, trash, journal)
        /\ ~ Whole(root, journal)
        /\ todo' # {} => ~ Whole(root', journal)
        /\ todo' = {} => Installed(root', journal)
    BY <1>9, <2>1, Installation
  <2>3. ~ Complete
    BY <2>1, <2>2, CompleteIsWhole
  <2>4. NewNames' = journal.new /\ journal.new \subseteq Segment
    BY <2>1, JournalFacts DEF NewNames
  <2>5. Complete' => owner = journal.owner /\ Whole(root', journal)
    BY <2>1, <2>4 DEF Complete, In, Whole
  <2>6. CASE Complete'
    <3>1. root' \in Dir
      BY DEF ControlInv, Typed, DiskTyped
    <3> QED BY <2>1, <2>2, <2>5, <2>6, <3>1, CommitStep
  <2>7. CASE ~ Complete'
    <3>1. /\ Shown' = Kept(root', trash', journal') /\ Shown = Kept(root, trash, journal)
          /\ ViewOwner' = ViewOwner /\ (ViewExists' <=> ViewExists)
      BY <2>1, <2>3, <2>7 DEF Shown, ViewExists, ViewOwner, RolledBack, Kept, OldNames
    <3> QED BY <2>2, <3>1 DEF SameView
  <2> QED BY <2>6, <2>7
<1>10. CASE (RetireSegment \/ InstallSegment) /\ todo = {}
  <2>1. UNCHANGED <<root, rootExists, owner, trash, journal>>
    BY <1>10 DEF RetireSegment, InstallSegment
  <2> QED BY <2>1, ViewFrame
<1>11. CASE Mark
  <2>1. /\ pc = "marking" /\ Pending /\ owner' = journal.owner /\ UNCHANGED <<journal, root, rootExists>>
        /\ root' \in Dir
    BY <1>11 DEF Mark, ControlInv, InsideInv, Publishing, Typed, DiskTyped
  <2>2. rootExists /\ Installed(root, journal)
    BY <2>1 DEF JournalInv, RootInv, Publishing, Progress, InstallingAt, Installed
  <2> QED BY <2>1, <2>2, CommitStep
<1>12. CASE ClearJournal
  <2>1. /\ Complete /\ UNCHANGED <<root, rootExists, owner>>
        /\ journal' = NoJournal \/ UNCHANGED journal
    BY <1>12 DEF ClearJournal
  <2>2. ~ RolledBack /\ ~ RolledBack'
    BY <2>1 DEF RolledBack, Pending, Complete, NewNames
  <2> QED BY <2>1, <2>2 DEF SameView, Shown, ViewExists, ViewOwner, RolledBack
<1>13. \/ UNCHANGED <<root, rootExists, owner, trash, journal>>
       \/ Recover \/ RestoreSegment \/ RestoreMarker \/ EndRestore \/ Publication
  BY DEF Next, vars, OpenRoot, Recovery, RecoveryRaises, PublishFails, RecoveryFails, Crash, Save,
         MarkNoObject, Cleanup, BeginCleanup,
         StartAttempt, BeginPublish, CompleteExport
<1>14. Recover => UNCHANGED <<root, rootExists, owner, trash>>
  BY DEF Recover
<1> QED BY <1>1, <1>2, <1>3, <1>4, <1>5, <1>6, <1>7, <1>8, <1>9, <1>10, <1>11, <1>12, <1>13, <1>14
        DEF Publication

\* An attempt keeps its revision, revisions only grow, and a cleanup is not forgotten.
LEMMA HistoryStep ==
  ASSUME ControlInv, [Next]_vars
  PROVE  /\ cleaned => cleaned'
         /\ revision \in Nat /\ revision <= revision'
         /\ \A b \in Attempt : forRevision[b] # 0 => forRevision'[b] = forRevision[b]
         /\ ioErrors \in Nat /\ ioErrors <= ioErrors'
<1>1. revision \in Nat /\ ioErrors \in Nat
  BY Numbers DEF ControlInv, Typed, EntryTyped, CountersTyped, Revision
<1>2. CASE Save \/ MarkNoObject
  <2>1. revision' = revision + 1 /\ UNCHANGED <<forRevision, cleaned, ioErrors>>
    BY <1>2 DEF Save, MarkNoObject
  <2> QED BY <1>1, <2>1
<1>3. ASSUME NEW a \in Attempt, StartAttempt(a)
      PROVE  \A b \in Attempt : forRevision[b] # 0 => forRevision'[b] = forRevision[b]
  <2>1. forRevision[a] = 0 /\ forRevision' = [forRevision EXCEPT ![a] = revision]
    BY <1>3 DEF StartAttempt, ControlInv, StagedInv
  <2> QED BY <2>1 DEF ControlInv, Typed, AttemptsTyped
<1>4. CASE ~ (Save \/ MarkNoObject)
  <2>1. /\ UNCHANGED revision
        /\ UNCHANGED cleaned \/ cleaned'
        /\ UNCHANGED ioErrors \/ ioErrors' = ioErrors + 1
        /\ UNCHANGED forRevision \/ \E a \in Attempt : StartAttempt(a)
    BY <1>4 DEF Next, vars, OpenRoot, Recovery, Recover, RestoreSegment, RestoreMarker, EndRestore,
                RecoveryRaises, Publication, WriteJournal, MakeDirectories, RetireSegment,
                InstallSegment, Mark, ClearJournal, PublishFails, RecoveryFails, Crash,
                Cleanup, BeginCleanup, CleanSegment, CleanupFails, Recovered, Ended, IoError,
                StartAttempt, BeginPublish, CompleteExport
  <2> QED BY <1>1, <1>3, <2>1
<1> QED BY <1>2, <1>4

LEMMA ViewOwnerBound ==
  ASSUME ControlInv, JournalInv
  PROVE  /\ ViewOwner \in Nat /\ ViewOwner <= revision
         /\ owner < revision /\ Pending => journal.previousOwner < revision
<1>1. revision \in Nat /\ owner \in Nat /\ owner <= revision
  BY Numbers DEF ControlInv, Typed, EntryTyped, Revision, DiskTyped, EntryInv
<1>2. ASSUME Pending
      PROVE  /\ journal.previousOwner \in Nat /\ journal.previousOwner <= revision
             /\ owner < revision => journal.previousOwner < revision
  <2>1. /\ By \in Attempt /\ journal.previousOwner \in Nat /\ journal.owner \in Nat
        /\ journal.previousOwner <= journal.owner /\ journal.owner <= revision
    BY <1>2, JournalFacts, Numbers DEF ControlInv, WrittenInv, StagedInv
  <2>2. owner = journal.previousOwner \/ owner = journal.owner
    BY <1>2 DEF JournalInv, OnDisk, Marked
  <2> QED BY <1>1, <2>1, <2>2
<1> QED BY <1>1, <1>2 DEF ViewOwner, RolledBack

LEMMA GoodKept ==
  ASSUME \A b \in Attempt : forRevision[b] # 0 => forRevision'[b] = forRevision[b],
         NEW b \in Attempt, forRevision[b] # 0
  PROVE  Output(b)' = Output(b) /\ forRevision'[b] = forRevision[b]
BY DEF Output

LEMMA ViewInvStep ==
  ASSUME ControlInv, JournalInv, ViewInv, ControlInv', JournalInv', [Next]_vars
  PROVE  ViewInv'
<1>1. /\ cleaned => cleaned'
      /\ revision \in Nat /\ revision <= revision'
      /\ \A b \in Attempt : forRevision[b] # 0 => forRevision'[b] = forRevision[b]
  BY HistoryStep
<1>2. CASE CleanSegment \/ CleanupFails
  <2>1. /\ cleaned /\ rootExists /\ owner < revision
        /\ UNCHANGED <<rootExists, owner, trash, journal, revision, cleaned>>
    BY <1>2 DEF CleanSegment, CleanupFails, ControlInv, CleaningInv
  <2>2. Pending' => Pending /\ journal.previousOwner < revision
    BY <2>1, ViewOwnerBound DEF Pending
  <2>3. ViewOwner' < revision'
    BY <2>1, <2>2 DEF ViewOwner, RolledBack
  <2>4. ~ ViewExists' => Shown' = Empty /\ ViewOwner' = 0
    <3> SUFFICES ASSUME ~ ViewExists' PROVE Shown' = Empty /\ ViewOwner' = 0
      OBVIOUS
    <3>1. RolledBack' /\ ~ journal'.rootExisted
      BY <2>1 DEF ViewExists
    <3>2. Pending' /\ Pending /\ journal' = journal
      BY <2>1, <3>1 DEF RolledBack, Pending
    <3>3. journal.old = {} /\ journal.previousOwner = 0
      BY <2>1, <3>1, <3>2 DEF JournalInv, RootInv, OldNames
    <3>4. \A n \in Segment : trash[n] = 0
      BY <3>2, <3>3 DEF JournalInv, OnDisk, Places
    <3> QED BY <2>1, <3>1, <3>2, <3>3, <3>4
            DEF Shown, RolledBack, ViewOwner, OldNames, Empty
  <2>5. ViewOwner' # revision'
    <3>1. revision' \in Nat /\ (ViewOwner' = owner \/ ViewOwner' = journal.previousOwner)
      BY <1>1, <2>1 DEF ViewOwner
    <3> QED BY <2>3, <3>1, <1>1, <2>1
  <2> QED BY <2>1, <2>4, <2>5 DEF ViewInv
<1>3. CASE SameView
  <2>1. ~ ViewExists' => Shown' = Empty /\ ViewOwner' = 0
    BY <1>3 DEF SameView, ViewInv
  <2> SUFFICES ASSUME ~ cleaned' \/ ViewOwner' = revision'
               PROVE  Good(Shown, ViewExists, ViewOwner)'
    BY <2>1 DEF ViewInv
  <2>2. ~ cleaned \/ ViewOwner = revision
    <3>1. ViewOwner \in Nat /\ ViewOwner <= revision /\ ViewOwner' = ViewOwner
      BY <1>3, ViewOwnerBound DEF SameView
    <3>2. revision' \in Nat
      BY Numbers DEF ControlInv, Typed, EntryTyped, Revision
    <3> QED BY <1>1, <3>1, <3>2
  <2>3. Good(Shown, ViewExists, ViewOwner)
    BY <2>2 DEF ViewInv
  <2>4. CASE ViewExists
    <3>1. PICK b \in Attempt : forRevision[b] = ViewOwner /\ forRevision[b] # 0 /\ Shown = Output(b)
      BY <2>3, <2>4 DEF Good
    <3>2. Output(b)' = Output(b) /\ forRevision'[b] = forRevision[b]
      BY <1>1, <3>1, GoodKept
    <3> QED BY <1>3, <2>4, <3>1, <3>2 DEF SameView, Good
  <2>5. CASE ~ ViewExists
    BY <1>3, <2>3, <2>5 DEF SameView, Good
  <2> QED BY <2>4, <2>5
<1>4. CASE Committed
  <2>1. holder \in Attempt /\ forRevision[holder] # 0
    BY <1>4, Numbers DEF Committed, ControlInv, InsideInv, Typed, EntryTyped
  <2>2. forRevision'[holder] = forRevision[holder]
    BY <1>1, <2>1
  <2>3. \A b \in Attempt : forRevision[b] # 0 =>
          [n \in Segment |-> IF n \in SegmentsOf[forRevision'[b]] THEN b ELSE 0] = Output(b)
    BY <1>1 DEF Output
  <2>4. \E b \in Attempt : /\ forRevision'[b] = ViewOwner' /\ forRevision'[b] # 0
                           /\ Shown' = Output(b)'
    BY <1>4, <2>1, <2>2, <2>3 DEF Committed, Output
  <2>5. Good(Shown, ViewExists, ViewOwner)'
    BY <1>4, <2>4 DEF Committed, Good
  <2> QED BY <1>4, <2>5 DEF ViewInv, Committed
<1> QED BY <1>2, <1>3, <1>4, ViewStep

LEMMA CompletedStep ==
  ASSUME ControlInv, JournalInv, ViewInv, CompletedHasFrames,
         ControlInv', JournalInv', ViewInv', [Next]_vars
  PROVE  CompletedHasFrames'
<1> SUFFICES ASSUME completed' = revision', ~ noBoom'
             PROVE  \E a \in Attempt :
                      /\ forRevision'[a] = revision'
                      /\ Shown' = [n \in Segment |-> IF n \in SegmentsOf[revision'] THEN a ELSE 0]
  BY DEF CompletedHasFrames
<1>1. revision' # 0
  BY Numbers DEF ControlInv, Typed, EntryTyped
<1>2. ASSUME ViewExists', ViewOwner' = revision'
      PROVE  \E a \in Attempt :
               /\ forRevision'[a] = revision'
               /\ Shown' = [n \in Segment |-> IF n \in SegmentsOf[revision'] THEN a ELSE 0]
  <2>1. Good(Shown, ViewExists, ViewOwner)'
    BY <1>2 DEF ViewInv
  <2> QED BY <1>2, <2>1 DEF Good, Output
<1>3. ASSUME NEW a \in Attempt, CompleteExport(a)
      PROVE  ViewExists' /\ ViewOwner' = revision'
  <2>1. ~ Pending' /\ rootExists' /\ owner' = revision'
    BY <1>3 DEF CompleteExport, Pending
  <2> QED BY <2>1 DEF ViewExists, ViewOwner, RolledBack
<1>4. CASE ~ \E a \in Attempt : CompleteExport(a)
  <2>1. UNCHANGED <<completed, revision, noBoom>>
    <3>1. ~ Save /\ ~ MarkNoObject
      BY <1>1 DEF Save, MarkNoObject
    <3> QED BY <1>4, <3>1
            DEF Next, vars, OpenRoot, Recovery, Recover, RestoreSegment, RestoreMarker, EndRestore,
                RecoveryRaises, Publication, WriteJournal, MakeDirectories, RetireSegment,
                InstallSegment, Mark, ClearJournal, PublishFails, RecoveryFails, Crash,
                Cleanup, BeginCleanup, CleanSegment, CleanupFails,
                StartAttempt, BeginPublish
  <2>2. PICK a \in Attempt :
          /\ forRevision[a] = revision
          /\ Shown = [n \in Segment |-> IF n \in SegmentsOf[revision] THEN a ELSE 0]
    BY <2>1 DEF CompletedHasFrames
  <2>3. CASE SameView
    <3>1. forRevision'[a] = forRevision[a]
      BY <1>1, <2>1, <2>2, HistoryStep
    <3> QED BY <2>1, <2>2, <2>3, <3>1 DEF SameView
  <2>4. CASE Committed
    <3>1. forRevision[holder] = revision
      BY <2>4, Numbers DEF Committed, ControlInv, InsideInv
    <3> QED BY <1>2, <2>1, <2>4, <3>1 DEF Committed
  <2>5. ~ (CleanSegment \/ CleanupFails)
    BY <2>1 DEF CleanSegment, CleanupFails, ControlInv, CleaningInv
  <2> QED BY <2>3, <2>4, <2>5, ViewStep
<1> QED BY <1>2, <1>3, <1>4

-----------------------------------------------------------------------------
(* A recovery accepts the journal *)

\* A second error, while the caller still recovers from the first, removes the
\* staging the journal refers to.
RecoverableInv == ioErrors <= 1 /\ ~ cleaned /\ Pending => Recoverable

\* Any prefix of a publication can be undone.
LEMMA PublicationRecoverable ==
  ControlInv /\ JournalInv /\ pc \in Publishing => Recoverable
<1> SUFFICES ASSUME ControlInv, JournalInv, pc \in Publishing, NEW n \in NewNames \cup OldNames
             PROVE  ~ Irrecoverable(n)
  BY DEF Recoverable
<1>1. Pending
  BY DEF ControlInv, InsideInv
<1>2. /\ n \in Segment /\ journal.attempt # 0
      /\ NewNames = journal.new /\ OldNames = journal.old
  BY <1>1, JournalFacts
<1>3. ASSUME NEW td, RetiringAt(root, trash, Staged, journal, td)
      PROVE  ~ Irrecoverable(n)
  BY <1>2, <1>3 DEF RetiringAt, Irrecoverable
<1>4. ASSUME InstallingAt(root, trash, Staged, journal, todo)
      PROVE  ~ Irrecoverable(n)
  BY <1>2, <1>4 DEF InstallingAt, Irrecoverable
<1> QED BY <1>1, <1>3, <1>4 DEF JournalInv, Progress, Publishing

LEMMA PublicationRecoverableNext ==
  ControlInv' /\ JournalInv' /\ pc' \in Publishing => Recoverable'
<1>1. (ControlInv /\ JournalInv /\ pc \in Publishing => Recoverable)'
  BY PublicationRecoverable, PTL
<1> QED BY <1>1 DEF Publishing

LEMMA RecoverableFrame ==
  ASSUME UNCHANGED <<root, rootExists, owner, trash, journal>>,
         Recoverable, Complete \/ Staged' = Staged
  PROVE  Recoverable'
<1>1. /\ NewNames' = NewNames /\ OldNames' = OldNames /\ (Complete' <=> Complete)
  BY DEF NewNames, OldNames, Complete
<1>2. CASE Complete
  BY <1>1, <1>2 DEF Recoverable
<1>3. CASE Staged' = Staged
  BY <1>1, <1>3 DEF Recoverable, Irrecoverable
<1> QED BY <1>2, <1>3

\* Undoing a segment leaves a state that can be undone.
LEMMA RestorationRecoverable ==
  ASSUME ControlInv, JournalInv, RestoreSegment, Recoverable
  PROVE  Recoverable'
<1>0. PICK s \in Segment : s = NextName
  BY NextNameFacts DEF RestoreSegment, ControlInv, Typed, InsideTyped
<1>1. /\ pc = "restoring" /\ todo # {} /\ Pending /\ ~ Irrecoverable(s)
      /\ TakeBack(s) \/ PutBack(s) \/ LeaveThere(s)
      /\ UNCHANGED <<rootExists, owner, journal>>
  BY <1>0 DEF RestoreSegment, ControlInv, InsideInv, Restoring
<1>2. s \in Segment
  OBVIOUS
<1>3. /\ NewNames' = NewNames /\ OldNames' = OldNames
      /\ NewNames \subseteq Segment /\ OldNames \subseteq Segment
      /\ NewNames = journal.new /\ OldNames = journal.old
  BY <1>1, JournalFacts DEF NewNames, OldNames
<1>4. Places(root, trash, Staged, journal)
  BY <1>1 DEF JournalInv, OnDisk
<1>5. ASSUME ~ Complete, NEW n \in NewNames \cup OldNames, n # s,
             root'[n] = root[n], trash'[n] = trash[n], Staged'[n] = Staged[n]
      PROVE  ~ Irrecoverable(n)'
  <2>1. ~ Irrecoverable(n)
    BY <1>5 DEF Recoverable
  <2> QED BY <1>3, <1>5, <2>1 DEF Irrecoverable
<1>6. CASE TakeBack(s)
  <2>1. New(root, trash, journal, s)
    BY <1>3, <1>6 DEF TakeBack, New
  <2>2. ~ Complete
    BY <1>1, <1>2, <2>1, NothingToUndo DEF Restoring
  <2>3. /\ \A m \in Segment : root'[m] = IF m = s THEN 0 ELSE root[m]
        /\ \A m \in Segment : Staged'[m] = IF m = s THEN root[s] ELSE Staged[m]
        /\ UNCHANGED trash
    BY <1>1, <1>2, <1>6, RestoreMoves
  <2>4. s \in NewNames /\ root[s] # 0 /\ (trash[s] # 0 \/ s \notin OldNames)
    BY <1>6 DEF TakeBack
  <2>5. ~ Irrecoverable(s)'
    BY <1>2, <1>3, <2>3, <2>4 DEF Irrecoverable
  <2>6. ASSUME NEW n \in NewNames \cup OldNames, n # s PROVE ~ Irrecoverable(n)'
    BY <1>3, <1>5, <2>2, <2>3, <2>6
  <2> QED BY <1>3, <2>5, <2>6 DEF Recoverable
<1>7. CASE PutBack(s)
  <2>1. trash[s] # 0 /\ root[s] = 0
    BY <1>7 DEF PutBack
  <2>2. ~ Complete
    BY <1>1, <1>2, <2>1, NothingToUndo DEF Restoring
  <2>3. MovedBack(root, trash, root', trash', s) /\ Staged' = Staged
    BY <1>1, <1>2, <1>7, RestoreMoves
  <2>4. s \in OldNames
    BY <1>2, <1>3, <1>4, <2>1 DEF Places
  <2>5. ~ Irrecoverable(s)'
    BY <1>1, <1>2, <1>3, <2>1, <2>3, <2>4 DEF Irrecoverable, MovedBack
  <2>6. ASSUME NEW n \in NewNames \cup OldNames, n # s PROVE ~ Irrecoverable(n)'
    BY <1>3, <1>5, <2>2, <2>3, <2>6 DEF MovedBack
  <2> QED BY <1>3, <2>5, <2>6 DEF Recoverable
<1>8. CASE LeaveThere(s)
  <2>1. UNCHANGED <<root, trash>> /\ Staged' = Staged
    BY <1>1, <1>2, <1>8, RestoreMoves
  <2> QED BY <1>1, <2>1, RecoverableFrame
<1> QED BY <1>1, <1>6, <1>7, <1>8

LEMMA RecoverableStep ==
  ASSUME ControlInv, JournalInv, RecoverableInv, ControlInv', JournalInv', [Next]_vars
  PROVE  RecoverableInv'
<1> SUFFICES ASSUME ioErrors' <= 1, ~ cleaned', Pending'
             PROVE  Recoverable'
  BY DEF RecoverableInv
<1>1. ioErrors <= 1 /\ ~ cleaned
  <2>1. cleaned => cleaned'
    BY HistoryStep
  <2>2. ioErrors \in Nat /\ ioErrors' \in Nat /\ ioErrors <= ioErrors'
    BY HistoryStep DEF ControlInv, Typed, CountersTyped
  <2> QED BY <2>1, <2>2
<1>2. Pending => Recoverable
  BY <1>1 DEF RecoverableInv
<1>3. CASE UNCHANGED disk
  <2>1. Pending /\ Staged' = Staged
    BY <1>3 DEF Pending, Staged
  <2> QED BY <1>2, <1>3, <2>1, RecoverableFrame
<1>4. ASSUME NEW a \in Attempt, BeginPublish(a), Pending
      PROVE  Recoverable'
  <2>1. /\ pc = "free" /\ phase[a] = "staged" /\ UNCHANGED <<root, rootExists, owner, trash, journal>>
        /\ UNCHANGED staging \/ Ended(a, "stale")
    BY <1>4 DEF BeginPublish
  <2>2. a # By /\ a \in 0..MaxAttempts
    BY <1>4, <2>1, Numbers DEF ControlInv, InsideInv
  <2>3. Staged' = Staged
    <3>1. CASE UNCHANGED staging
      BY <2>1, <3>1 DEF Staged
    <3>2. CASE Ended(a, "stale")
      BY <1>4, <2>1, <2>2, <3>2, EndedStaged
    <3> QED BY <2>1, <3>1, <3>2
  <2> QED BY <1>2, <1>4, <2>1, <2>3, RecoverableFrame
<1>5. CASE RestoreMarker
  <2>1. /\ pc = "restoring" /\ Pending /\ owner' = journal.previousOwner
        /\ UNCHANGED <<root, rootExists, trash, staging, journal>>
    BY <1>5 DEF RestoreMarker, ControlInv, InsideInv, Restoring
  <2>2. Staged' = Staged /\ NewNames' = NewNames /\ OldNames' = OldNames
    BY <2>1 DEF Staged, NewNames, OldNames
  <2>3. CASE Complete
    <3>1. owner' = owner
      BY <2>1, <2>3, NothingToUndo DEF Restoring
    <3> QED BY <1>2, <2>1, <2>2, <3>1, RecoverableFrame
  <2>4. CASE ~ Complete
    BY <1>2, <2>1, <2>2, <2>4 DEF Recoverable, Irrecoverable
  <2> QED BY <2>3, <2>4
<1>6. CASE RecoveryRaises
  <2>1. /\ Pending /\ Irrecoverable(NextName)
        /\ UNCHANGED <<root, rootExists, owner, trash, journal>>
    BY <1>6 DEF RecoveryRaises, ControlInv, InsideInv, Restoring
  <2>2. Complete
    BY <1>2, <2>1 DEF Recoverable, Irrecoverable
  <2> QED BY <1>2, <2>1, <2>2, RecoverableFrame
<1>7. CASE RecoveryFails
  <2>1. /\ Pending /\ IoError /\ Ended(holder, "failed") /\ holder \in 0..MaxAttempts
        /\ pc \notin Publishing /\ UNCHANGED cleaned
        /\ UNCHANGED <<root, rootExists, owner, trash, journal>>
    BY <1>7 DEF RecoveryFails, ControlInv, Typed, InsideTyped, Publishing, Pending
  <2>2. holder # By
    <3>1. ~ failing
      <4>1. CountersTyped
        BY DEF ControlInv, Typed
      <4>2. ioErrors > 0 => ioErrors' > 1 /\ ioErrors' \in Nat
        BY <2>1, <4>1, Errors DEF CountersTyped
      <4> QED BY <4>2 DEF ControlInv, InsideInv
    <3> QED BY <2>1, <3>1, JournalFacts DEF ControlInv, InsideInv
  <2>3. Staged' = Staged
    BY <2>1, <2>2, EndedStaged
  <2> QED BY <1>2, <2>1, <2>3, RecoverableFrame
<1>8. CASE Publication /\ ~ ClearJournal
  <2>1. pc' \in Publishing
    BY <1>8 DEF Publication, WriteJournal, MakeDirectories, RetireSegment, InstallSegment, Mark,
                Publishing
  <2> QED BY <2>1, PublicationRecoverableNext
<1>9. CASE ClearJournal
  <2>1. Complete /\ UNCHANGED <<root, rootExists, owner, journal>>
    BY <1>9 DEF ClearJournal, Pending
  <2> QED BY <2>1 DEF Complete, Recoverable, NewNames
<1>10. CASE Recover
  <2>1. UNCHANGED <<root, rootExists, owner, trash, journal>> /\ Pending
        /\ pc' = "restoring" /\ UNCHANGED staging
    BY <1>10 DEF Recover, Pending
  <2> QED BY <1>3, <1>10, <2>1 DEF Recover
<1>11. ~ EndRestore /\ ~ CleanSegment /\ ~ CleanupFails
  BY <1>1 DEF EndRestore, CleanSegment, CleanupFails, ControlInv, CleaningInv, Pending
<1>12. ASSUME NEW a \in Attempt, StartAttempt(a)
       PROVE  FALSE
  BY <1>12 DEF StartAttempt, Pending
<1>13. CASE RestoreSegment
  <2>1. Pending
    BY <1>13 DEF RestoreSegment, ControlInv, InsideInv, Restoring
  <2> QED BY <1>2, <1>13, <2>1, RestorationRecoverable
<1>14. \/ UNCHANGED disk
       \/ Recovery \/ Publication \/ RecoveryFails \/ CleanSegment \/ CleanupFails
       \/ \E a \in Attempt : StartAttempt(a) \/ BeginPublish(a)
  BY DEF Next, vars, OpenRoot, PublishFails, Crash, Save, MarkNoObject, Cleanup, BeginCleanup,
         CompleteExport
<1>15. ASSUME NEW a \in Attempt, BeginPublish(a)
       PROVE  Pending
  BY <1>15 DEF BeginPublish, Pending
<1>16. RecoveryFails => Pending
  BY DEF RecoveryFails, Pending
<1> QED BY <1>3, <1>4, <1>5, <1>6, <1>7, <1>8, <1>9, <1>10, <1>11, <1>12, <1>13, <1>14, <1>15
        DEF Recovery

-----------------------------------------------------------------------------
(* The theorems *)

ExportInv ==
  ControlInv /\ JournalInv /\ ViewInv /\ CompletedHasFrames /\ RecoverableInv

LEMMA ExportInit ==
  ASSUME Init
  PROVE  ExportInv
<1>1. ControlInv
  BY ControlInit
<1>2. ~ Pending
  BY DEF Init, Pending
<1>3. JournalInv /\ RecoverableInv
  BY <1>2 DEF JournalInv, RecoverableInv
<1>4. ViewInv
  BY <1>2 DEF Init, ViewInv, ViewExists, ViewOwner, Shown, RolledBack, Good
<1>5. CompletedHasFrames
  BY DEF Init, CompletedHasFrames
<1> QED BY <1>1, <1>3, <1>4, <1>5 DEF ExportInv

LEMMA ExportStep ==
  ASSUME ExportInv, [Next]_vars
  PROVE  ExportInv'
<1>1. ControlInv'
  BY ControlStep DEF ExportInv
<1>2. JournalInv'
  BY JournalStep DEF ExportInv
<1>3. ViewInv'
  BY <1>1, <1>2, ViewInvStep DEF ExportInv
<1>4. CompletedHasFrames'
  BY <1>1, <1>2, <1>3, CompletedStep DEF ExportInv
<1>5. RecoverableInv'
  BY <1>1, <1>2, RecoverableStep DEF ExportInv
<1> QED BY <1>1, <1>2, <1>3, <1>4, <1>5 DEF ExportInv

LEMMA ExportInvariant == Spec => []ExportInv
BY ExportInit, ExportStep, PTL DEF Spec

\* Until a cleanup runs, a root without pending transaction holds the whole output
\* of one attempt for the revision of its marker, or is not there: whatever
\* publish_staged_export and its recovery were interrupted by before, and wherever.
THEOREM OneGeneration == Spec => []WholeGeneration
<1>1. ExportInv => WholeGeneration
  <2> SUFFICES ASSUME ExportInv, ~ Pending, ~ cleaned
               PROVE  IF rootExists THEN \E a \in Attempt : Generation(a) /\ owner = forRevision[a]
                                    ELSE root = Empty /\ owner = 0
    BY DEF WholeGeneration
  <2>1. Good(root, rootExists, owner)
    BY DEF ExportInv, ViewInv, Shown, ViewExists, ViewOwner, RolledBack
  <2> QED BY <2>1 DEF Good, Generation, Output
<1> QED BY <1>1, ExportInvariant, PTL

\* An annotation that records its current revision as exported has the frames of
\* that revision on disk, or gets them from the next recovery (finalize_video_export).
THEOREM FramesOfCompleted == Spec => []CompletedHasFrames
<1>1. ExportInv => CompletedHasFrames
  BY DEF ExportInv
<1> QED BY <1>1, ExportInvariant, PTL

\* What a reader that recovers first would find changes with the commit of a
\* publication only: with the last rename or the marker, to the whole output of the
\* attempt inside (publish_staged_export, _recover_publish_locked).
THEOREM CommitIsAtomic == Spec => PublishIsAtomic
<1>1. ExportInv /\ ExportInv' /\ [Next]_vars =>
        [Shown' # Shown /\ pc # "cleaning" =>
           /\ pc \in {"installing", "marking"}
           /\ \A n \in Segment : Shown'[n] \in {0, holder}]_vars
  <2> SUFFICES ASSUME ExportInv, ExportInv', [Next]_vars, Shown' # Shown, pc # "cleaning"
               PROVE  /\ pc \in {"installing", "marking"}
                      /\ \A n \in Segment : Shown'[n] \in {0, holder}
    OBVIOUS
  <2>1. ~ (CleanSegment \/ CleanupFails)
    BY DEF CleanSegment, CleanupFails
  <2>2. Committed
    BY <2>1, ViewStep DEF ExportInv, SameView
  <2> QED BY <2>2 DEF Committed, Output
<1> QED BY <1>1, ExportInvariant, PTL DEF PublishIsAtomic, Spec

\* With at most one file system error so far, and any number of crashes, opening the
\* root accepts the journal it finds (_recover_publish_transaction).  The second
\* error may come while the first is recovered from, and removes the staging.
THEOREM RecoveryAccepts == Spec => [](ioErrors <= 1 => JournalRecoverable)
<1>1. ExportInv => (ioErrors <= 1 => JournalRecoverable)
  BY DEF ExportInv, RecoverableInv, JournalRecoverable
<1> QED BY <1>1, ExportInvariant, PTL

(***************************************************************************)
(*                              DatasetPublish                             *)
(***************************************************************************)

-----------------------------------------------------------------------------
(* The inductive invariant *)

States  == {"settled", "queued", "running"}
Sending == {"list", "upload", "put", "manifest"}
Working == {"check", "copy", "mask", "recheck", "publish", "complete"} \cup Sending
Stages  == {"none", "start", "over"} \cup Working
Content == 0..MaxVersion

Row     == [state : States, snap : Snapshots \cup {None}, token : 0..MaxTokens]
Execution == [at : Stages, key : Keys, snap : Snapshots \cup {None}, frame : Content,
            mask : Content, files : SUBSET Files, short : BOOLEAN, late : BOOLEAN]
Target  == [at : {"absent", "empty", "partial", "complete"}, frame : Content, mask : Content,
            snap : Snapshots \cup {None}]

DatasetTyped ==
    /\ global \in BOOLEAN
    /\ source \in [{"frame", "mask"} -> Versions]
    /\ reservation \in Snapshots \cup {None}
    /\ rows \in [Keys -> Row]
    /\ attempt \in [Tokens -> Execution]
    /\ tokens \in 0..MaxTokens
    /\ target \in Target
    /\ deletion \in {"none", "files", "directory", "release"}
    /\ blob \in [Snapshots -> [frame : Content, mask : Content, manifest : Snapshots \cup {None}]]

\* What is asked for, queued and worked on is a snapshot.
RequestInv ==
    /\ DOMAIN request = Requests
    /\ \A q \in Requests :
          /\ request[q].at = "frame" => \E v \in Versions : request[q].snap = [frame |-> v, mask |-> 0]
          /\ request[q].at \in {"frozen", "reserved"} => request[q].snap \in Snapshots
RowInv == \A k \in Keys : rows[k].state \in {"queued", "running"} => rows[k].snap \in Snapshots

\* A lease that was not handed out has no execution.
TokenInv == \A t \in Tokens : t > tokens => attempt[t] = NoAttempt

\* An execution has copied nothing older than its snapshot, and publishes nothing newer.
AttemptInv ==
    \A t \in Tokens : LET a == attempt[t] IN
       /\ a.at \in {"start"} \cup Working => a.snap \in Snapshots
       /\ a.at \in {"copy", "mask", "recheck"} => a.snap.frame <= source.frame
       /\ a.at \in {"mask", "recheck"} => a.snap.frame <= a.frame /\ a.frame <= source.frame
       /\ a.at \in {"recheck", "publish"} => a.mask = a.snap.mask
       /\ a.at = "publish" => a.frame = a.snap.frame
       /\ a.at \in {"start", "check", "copy", "mask", "recheck", "publish", "list"} => a.files = Files

\* A name of the workspace is kept for one snapshot.
GlobalInv ==
    global =>
       /\ target.at \in {"absent", "complete"} /\ deletion = "none"
       /\ target.at = "complete" => target.snap = reservation
       /\ \A t \in Tokens : attempt[t].at \in Working => attempt[t].snap = reservation

\* A name of an object has one row, and so one owner.
ObjectInv ==
    ~global =>
       /\ \A k \in Keys \ {NameKey} : rows[k].state = "settled"
       /\ \A t \in Tokens : attempt[t].key = NameKey

\* An owner that uploads finds its own dataset, what a deletion has left of it, or none.
SendingInv ==
    \A t \in Tokens : attempt[t].at \in Sending /\ Owns(t) /\ Readable =>
       target.snap = attempt[t].snap

\* The files that an execution is past are in MinIO.
FilesInv ==
    \A t \in Tokens : LET a == attempt[t] IN
       a.at \in Sending /\ ~a.short /\ ~TooLate(a.snap) =>
          /\ "frame" \notin a.files => blob[a.snap].frame = a.snap.frame
          /\ "mask" \notin a.files => blob[a.snap].mask = a.snap.mask
          /\ a.at = "manifest" => a.files = {}

\* What is there to be read, while it is deleted too, is what the snapshot froze.
ReadableInv == Readable => target.frame = target.snap.frame /\ target.mask = target.snap.mask

DatasetInv == /\ DatasetTyped /\ RequestInv /\ RowInv /\ TokenInv /\ AttemptInv /\ GlobalInv /\ ObjectInv
              /\ SendingInv /\ FilesInv /\ ReadableInv /\ AdvertisedIsComplete

-----------------------------------------------------------------------------
(* What the operators do *)

LEMMA Bounds ==
    /\ None \notin Snapshots /\ MaxVersion \in Nat /\ MaxTokens \in Nat
    /\ Versions \subseteq Content /\ Content \subseteq Nat /\ 0 \in Content /\ 1 \in Versions
    /\ Tokens \subseteq 1..MaxTokens /\ Tokens \subseteq 0..MaxTokens /\ Tokens \subseteq Nat
    /\ 0 \in 0..MaxTokens
BY DatasetAssumption DEF Versions, Content, Tokens

LEMMA KeysOf ==
    /\ NameKey \in Keys /\ Snapshots \subseteq Keys
    /\ \A s \in Snapshots : Key(s) \in Keys /\ (~global => Key(s) = NameKey)
BY DEF Keys, Key

\* created again, or as it was
LEMMA CreateEffect ==
    ASSUME DatasetTyped, RowInv, ObjectInv, NEW s \in Snapshots, CreateRow(s), UNCHANGED global
    PROVE  /\ rows' \in [Keys -> Row] /\ RowInv'
           /\ \A k \in Keys : rows'[k].state = "running" => rows'[k] = rows[k]
           /\ ~global => \A k \in Keys \ {NameKey} : rows'[k].state = "settled"
<1> DEFINE new == [state |-> "queued", snap |-> s, token |-> 0]
<1>1. rows' = rows \/ rows' = [rows EXCEPT ![Key(s)] = new]
    BY DEF CreateRow
<1>2. CASE rows' = rows
    BY <1>2 DEF DatasetTyped, RowInv, ObjectInv
<1>3. CASE rows' = [rows EXCEPT ![Key(s)] = new]
    <2>1. new \in Row /\ new.state = "queued" /\ new.snap = s
        BY Bounds DEF Row, States, DatasetTyped
    <2>2. \A k \in Keys : rows'[k] = IF k = Key(s) THEN new ELSE rows[k]
        BY <1>3 DEF DatasetTyped
    <2>3. rows' \in [Keys -> Row]
        BY <1>3, <2>1 DEF DatasetTyped
    <2> HIDE DEF new
    <2> QED BY <2>1, <2>2, <2>3, KeysOf DEF RowInv, ObjectInv
<1> QED BY <1>1, <1>2, <1>3

\* Where an execution is led to, nothing else of it changes.
LEMMA GotoEffect ==
    ASSUME DatasetTyped, NEW t \in Tokens, NEW step \in Stages, Goto(t, step)
    PROVE  /\ attempt' \in [Tokens -> Execution]
           /\ \A u \in Tokens : u # t => attempt'[u] = attempt[u]
           /\ attempt'[t].at = step /\ attempt'[t].key = attempt[t].key
           /\ attempt'[t].snap = attempt[t].snap /\ attempt'[t].frame = attempt[t].frame
           /\ attempt'[t].mask = attempt[t].mask /\ attempt'[t].files = attempt[t].files
           /\ attempt'[t].late = attempt[t].late /\ attempt'[t].short = attempt[t].short
           /\ rows' = rows
BY DEF Goto, DatasetTyped, Execution

\* A row is only given back, or settled.
RowsGivenBack ==
    /\ rows' \in [Keys -> Row]
    /\ \A k \in Keys : rows'[k].state = "running" => rows'[k] = rows[k]
    /\ \A k \in Keys : rows'[k].state # "settled" => rows'[k].snap = rows[k].snap
    /\ \A k \in Keys : rows'[k].state # rows[k].state =>
          rows[k].state = "running" /\ rows'[k].state \in {"queued", "settled"}

\* A row that is let go is queued as it was, or settled.
LEMMA LetGoEffect ==
    ASSUME DatasetTyped, NEW k \in Keys, LetGo(k), rows[k].state = "running"
    PROVE  RowsGivenBack
<1> DEFINE row == [rows[k] EXCEPT !.state = "queued", !.token = 0]
<1>1. row \in Row /\ row.state = "queued" /\ row.snap = rows[k].snap
    BY Bounds DEF Row, States, DatasetTyped
<1>2. NoRow \in Row /\ NoRow.state = "settled"
    BY Bounds DEF NoRow, Row, States
<1>3. rows' = [rows EXCEPT ![k] = row] \/ rows' = [rows EXCEPT ![k] = NoRow]
    BY DEF LetGo
<1> HIDE DEF row, NoRow
<1>4. \E x \in {row, NoRow} : /\ rows' \in [Keys -> Row]
                              /\ \A i \in Keys : rows'[i] = IF i = k THEN x ELSE rows[i]
    BY <1>1, <1>2, <1>3 DEF DatasetTyped
<1> QED BY <1>1, <1>2, <1>4 DEF RowsGivenBack

\* The execution ends, and the row is given back if it is still this lease's.
LEMMA GiveUpEffect ==
    ASSUME DatasetTyped, NEW t \in Tokens, GiveUp(t)
    PROVE  /\ attempt' \in [Tokens -> Execution]
           /\ \A u \in Tokens : u # t => attempt'[u] = attempt[u]
           /\ attempt'[t] = EndedRun(t)
           /\ RowsGivenBack
<1>1. EndedRun(t) \in Execution
    BY Bounds, KeysOf DEF EndedRun, NoAttempt, Execution, DatasetTyped, Stages, Content
<1>2. attempt' = [attempt EXCEPT ![t] = EndedRun(t)]
    BY DEF GiveUp
<1>3. CASE Owns(t)
    <2>1. attempt[t].key \in Keys /\ rows[attempt[t].key].state = "running"
        BY <1>3 DEF Owns, DatasetTyped, Execution
    <2>2. LetGo(attempt[t].key)
        BY <1>3 DEF GiveUp
    <2> QED BY <1>1, <1>2, <2>1, <2>2, LetGoEffect DEF DatasetTyped
<1>4. CASE ~Owns(t)
    BY <1>1, <1>2, <1>4 DEF GiveUp, DatasetTyped, RowsGivenBack
<1> QED BY <1>3, <1>4

\* The execution of t goes on with its snapshot, or ends; what it put too late is kept.
Moves(t) ==
    /\ attempt' \in [Tokens -> Execution]
    /\ \A u \in Tokens : u # t => attempt'[u] = attempt[u]
    /\ \/ attempt'[t] = EndedRun(t)
       \/ /\ attempt'[t].at \in Working
          /\ attempt'[t].key = attempt[t].key /\ attempt'[t].snap = attempt[t].snap
    /\ attempt[t].late => attempt'[t].late /\ attempt'[t].snap = attempt[t].snap

LEMMA GotoMoves ==
    ASSUME DatasetTyped, NEW t \in Tokens, NEW step \in Working, Goto(t, step)
    PROVE  Moves(t) /\ RowsGivenBack
<1>1. step \in Stages
    BY DEF Stages
<1> QED BY <1>1, GotoEffect DEF Moves, RowsGivenBack, DatasetTyped

LEMMA GiveUpMoves ==
    ASSUME DatasetTyped, NEW t \in Tokens, GiveUp(t)
    PROVE  Moves(t) /\ RowsGivenBack
<1>1. attempt[t].late => EndedRun(t).late /\ EndedRun(t).snap = attempt[t].snap
    BY DEF EndedRun, NoAttempt
<1> QED BY <1>1, GiveUpEffect DEF Moves, RowsGivenBack

LEMMA OnlyMoves ==
    ASSUME DatasetTyped, NEW t \in Tokens, NEW x \in Execution, attempt' = [attempt EXCEPT ![t] = x],
           x.at \in Working, x.key = attempt[t].key, x.snap = attempt[t].snap,
           attempt[t].late => x.late, rows' = rows
    PROVE  Moves(t) /\ RowsGivenBack
<1>1. /\ attempt' \in [Tokens -> Execution] /\ attempt'[t] = x
      /\ \A u \in Tokens : u # t => attempt'[u] = attempt[u]
    BY DEF DatasetTyped
<1>2. RowsGivenBack
    BY DEF RowsGivenBack, DatasetTyped
<1> QED BY <1>1, <1>2 DEF Moves

\* What is put in MinIO comes from the dataset that is there.
PutOf(t) ==
    /\ attempt[t].at = "put" /\ Readable
    /\ blob' = [blob EXCEPT ![attempt[t].snap][NextFile(t)] = target[NextFile(t)]]
    /\ attempt'[t].late = (attempt[t].late \/ (~Owns(t) /\ target.snap # attempt[t].snap))
    /\ attempt'[t].files = attempt[t].files \ {NextFile(t)}
    /\ attempt'[t].short = attempt[t].short
    /\ attempt'[t].at = IF attempt'[t].files = {} THEN "manifest" ELSE "upload"

LEMMA PutEffect ==
    ASSUME DatasetTyped, NEW t \in Tokens, PutFile(t)
    PROVE  (GiveUp(t) /\ blob' = blob) \/ PutOf(t)
<1> DEFINE a == attempt[t]
           left == a.files \ {NextFile(t)}
           at == IF left = {} THEN "manifest" ELSE "upload"
           late == a.late \/ (~Owns(t) /\ target.snap # a.snap)
           x == [a EXCEPT !.at = at, !.files = left, !.late = late]
<1>1. \/ GiveUp(t) /\ blob' = blob
      \/ /\ attempt' = [attempt EXCEPT ![t] = x]
         /\ a.at = "put" /\ Readable
         /\ blob' = [blob EXCEPT ![a.snap][NextFile(t)] = target[NextFile(t)]]
    BY DEF PutFile
<1>2. /\ x.at = at /\ x.files = left /\ x.late = late /\ x.short = a.short
    <2> HIDE DEF at, left, late
    <2> QED BY DEF DatasetTyped, Execution
<1>3. CASE attempt' = [attempt EXCEPT ![t] = x]
    <2>1. attempt'[t] = x
        BY <1>3 DEF DatasetTyped
    <2> HIDE DEF x
    <2> QED BY <1>1, <1>2, <2>1 DEF PutOf
<1> QED BY <1>1, <1>3

\* The manifest, too.
Advertised(t) ==
    /\ attempt[t].at = "manifest" /\ Readable /\ Owns(t)
    /\ blob' = [blob EXCEPT ![attempt[t].snap].manifest = target.snap]
    /\ attempt'[t].at = "complete" /\ attempt'[t].snap = attempt[t].snap
    /\ attempt'[t].late = (attempt[t].late \/ attempt[t].short)

LEMMA ManifestEffect ==
    ASSUME DatasetTyped, NEW t \in Tokens, UploadManifest(t)
    PROVE  /\ (GiveUp(t) /\ blob' = blob) \/ Advertised(t)
           /\ Moves(t) /\ RowsGivenBack
<1> DEFINE a == attempt[t]
           x == [a EXCEPT !.at = "complete", !.late = a.late \/ a.short]
<1>1. \/ GiveUp(t) /\ blob' = blob
      \/ /\ attempt' = [attempt EXCEPT ![t] = x] /\ rows' = rows
         /\ a.at = "manifest" /\ Readable /\ Owns(t)
         /\ blob' = [blob EXCEPT ![a.snap].manifest = target.snap]
    BY DEF UploadManifest, Fenced
<1>2. /\ x \in Execution /\ x.at = "complete" /\ x.key = a.key /\ x.snap = a.snap
      /\ x.late = (a.late \/ a.short)
    BY DEF DatasetTyped, Execution, Stages, Working
<1> HIDE DEF x
<1>3. CASE attempt' = [attempt EXCEPT ![t] = x] /\ rows' = rows
    <2>1. attempt'[t] = x
        BY <1>3 DEF DatasetTyped
    <2>2. Moves(t) /\ RowsGivenBack
        BY <1>2, <1>3, OnlyMoves DEF Working
    <2> QED BY <1>1, <1>2, <2>1, <2>2 DEF Advertised
<1> QED BY <1>1, <1>3, GiveUpMoves

\* The list of the files, when it is not given up.
Listed(t, files) ==
    /\ attempt'[t].at = IF files = {} THEN "manifest" ELSE "put"
    /\ attempt'[t].files = files
    /\ attempt'[t].short = (files # Files)

LEMMA ListEffect ==
    ASSUME DatasetTyped, NEW t \in Tokens, ListFiles(t)
    PROVE  /\ GiveUp(t) \/ \E files \in SUBSET Files : Listed(t, files)
           /\ Moves(t) /\ RowsGivenBack
<1> DEFINE a == attempt[t]
           x(files) == [a EXCEPT !.at = IF files = {} THEN "manifest" ELSE "put",
                                 !.files = files, !.short = files # Files]
<1>1. GiveUp(t) \/ \E files \in SUBSET Files : attempt' = [attempt EXCEPT ![t] = x(files)] /\ rows' = rows
    <2>1. CASE GiveUp(t)
        BY <2>1
    <2>2. ASSUME NEW files \in SUBSET Files,
                 attempt' = [attempt EXCEPT
                    ![t].at = IF files = {} THEN "manifest" ELSE "put",
                    ![t].files = files,
                    ![t].short = files # Files]
          PROVE  attempt' = [attempt EXCEPT ![t] = x(files)]
        BY <2>2
    <2>3. ShortLists \cup {Files} \subseteq SUBSET Files
        BY DatasetAssumption DEF Files
    <2> QED BY <2>1, <2>2, <2>3 DEF ListFiles
<1>2. ASSUME NEW files \in SUBSET Files
      PROVE  /\ x(files) \in Execution /\ x(files).at \in Working /\ x(files).key = a.key
             /\ x(files).snap = a.snap /\ (a.late => x(files).late)
             /\ x(files).at = IF files = {} THEN "manifest" ELSE "put"
             /\ x(files).files = files /\ x(files).short = (files # Files)
    <2>1. a \in Execution
        BY DEF DatasetTyped
    <2> QED BY <2>1 DEF Execution, Stages, Working, Sending
<1> HIDE DEF x
<1>3. ASSUME NEW files \in SUBSET Files, attempt' = [attempt EXCEPT ![t] = x(files)], rows' = rows
      PROVE  Listed(t, files) /\ Moves(t) /\ RowsGivenBack
    <2>1. attempt'[t] = x(files)
        BY <1>3 DEF DatasetTyped
    <2>2. Listed(t, files)
        BY <1>2, <2>1 DEF Listed
    <2>3. Moves(t) /\ RowsGivenBack
        BY <1>2, <1>3, OnlyMoves
    <2> QED BY <2>2, <2>3
<1> QED BY <1>1, <1>3, GiveUpMoves

\* A step of an execution that is under way.
LEMMA RunEffect ==
    ASSUME DatasetTyped, NEW t \in Tokens, Run(t)
    PROVE  /\ Moves(t) /\ RowsGivenBack
           /\ attempt[t].at \in {"start"} \cup Working
           /\ UNCHANGED <<global, source, request, tokens, deletion>>
<1>0. attempt[t].at \in {"start"} \cup Working
    BY DEF Run, Start, CheckFrame, CopyFrame, CopyMask, Recheck, Publish, ListFiles, Upload, PutFile,
           UploadManifest, CompleteJob, Working, Sending
<1>1. UNCHANGED <<global, source, request, tokens, deletion>>
    BY DEF Run, Start, CheckFrame, CopyFrame, CopyMask, Recheck, Publish, ListFiles, Upload, PutFile,
           UploadManifest, CompleteJob, unchangedByAttempts
<1>S. source.frame \in Content /\ source.mask \in Content
    BY Bounds DEF DatasetTyped
<1>2. ASSUME Start(t) \/ CheckFrame(t) \/ Recheck(t) \/ Upload(t)
      PROVE  GiveUp(t) \/ \E step \in Working : Goto(t, step)
    BY <1>2 DEF Start, CheckFrame, Recheck, Upload, Working, Sending
<1> DEFINE a == attempt[t]
<1>a. a \in Execution
    BY DEF DatasetTyped
<1>3. ASSUME CopyFrame(t)
      PROVE  Moves(t) /\ RowsGivenBack
    <2> DEFINE x == [a EXCEPT !.at = "mask", !.frame = source.frame]
    <2>1. attempt' = [attempt EXCEPT ![t] = x] /\ rows' = rows
        BY <1>3 DEF CopyFrame
    <2>2. x \in Execution /\ x.at \in Working /\ x.key = a.key /\ x.snap = a.snap /\ x.late = a.late
        BY <1>a, <1>S DEF Execution, Stages, Working
    <2> HIDE DEF x
    <2> QED BY <2>1, <2>2, OnlyMoves
<1>4. ASSUME CopyMask(t)
      PROVE  Moves(t) /\ RowsGivenBack
    <2> DEFINE x == [a EXCEPT !.at = "recheck", !.mask = source.mask]
    <2>1. GiveUp(t) \/ (attempt' = [attempt EXCEPT ![t] = x] /\ rows' = rows)
        BY <1>4 DEF CopyMask
    <2>2. x \in Execution /\ x.at \in Working /\ x.key = a.key /\ x.snap = a.snap /\ x.late = a.late
        BY <1>a, <1>S DEF Execution, Stages, Working
    <2> HIDE DEF x
    <2> QED BY <2>1, <2>2, OnlyMoves, GiveUpMoves
<1>5. ASSUME PutFile(t)
      PROVE  Moves(t) /\ RowsGivenBack
    <2> DEFINE left == a.files \ {NextFile(t)}
               at == IF left = {} THEN "manifest" ELSE "upload"
               late == a.late \/ (~Owns(t) /\ target.snap # a.snap)
               x == [a EXCEPT !.at = at, !.files = left, !.late = late]
    <2>1. GiveUp(t) \/ (attempt' = [attempt EXCEPT ![t] = x] /\ rows' = rows)
        BY <1>5 DEF PutFile
    <2>2. at \in Working /\ late \in BOOLEAN /\ (a.late => late) /\ left \in SUBSET Files
        BY <1>a DEF Working, Sending, Execution
    <2>3. x \in Execution /\ x.at \in Working /\ x.key = a.key /\ x.snap = a.snap /\ x.late = late
        <3> HIDE DEF at, late, left
        <3> QED BY <1>a, <2>2 DEF Execution, Stages
    <2> HIDE DEF x
    <2> QED BY <2>1, <2>2, <2>3, OnlyMoves, GiveUpMoves
<1>6. ASSUME CompleteJob(t)
      PROVE  Moves(t) /\ RowsGivenBack
    <2>1. EndedRun(t) \in Execution
        BY Bounds, KeysOf DEF EndedRun, NoAttempt, Execution, DatasetTyped, Stages, Content
    <2>2. attempt' = [attempt EXCEPT ![t] = EndedRun(t)]
        BY <1>6 DEF CompleteJob
    <2>3. attempt[t].late => EndedRun(t).late /\ EndedRun(t).snap = attempt[t].snap
        BY DEF EndedRun, NoAttempt
    <2>4. Moves(t)
        BY <2>1, <2>2, <2>3 DEF Moves, DatasetTyped
    <2>5. RowsGivenBack
        <3>1. CASE Owns(t)
            <4> DEFINE k == attempt[t].key
            <4>1. k \in Keys /\ rows[k].state = "running"
                BY <3>1 DEF Owns, DatasetTyped, Execution
            <4>2. LetGo(k)
                BY <1>6, <3>1 DEF CompleteJob, LetGo
            <4> QED BY <4>1, <4>2, LetGoEffect
        <3>2. CASE ~Owns(t)
            BY <1>6, <3>2 DEF CompleteJob, RowsGivenBack, DatasetTyped
        <3> QED BY <3>1, <3>2
    <2> QED BY <2>4, <2>5
<1>7. ASSUME Publish(t)
      PROVE  Moves(t) /\ RowsGivenBack
    <2> DEFINE x == [a EXCEPT !.at = "list", !.frame = 0, !.mask = 0]
    <2>1. GiveUp(t) \/ (attempt' = [attempt EXCEPT ![t] = x] /\ rows' = rows)
        BY <1>7 DEF Publish, StartUpload
    <2>2. x \in Execution /\ x.at \in Working /\ x.key = a.key /\ x.snap = a.snap /\ x.late = a.late
        BY <1>a, Bounds DEF Execution, Stages, Working, Sending
    <2> HIDE DEF x
    <2> QED BY <2>1, <2>2, OnlyMoves, GiveUpMoves
<1>8. ASSUME ListFiles(t) \/ UploadManifest(t)
      PROVE  Moves(t) /\ RowsGivenBack
    BY <1>8, ListEffect, ManifestEffect
<1> QED BY <1>0, <1>1, <1>2, <1>3, <1>4, <1>5, <1>6, <1>7, <1>8, GotoMoves, GiveUpMoves DEF Run

\* A claim: a queued row gets a lease that has no execution yet.
LEMMA ClaimEffect ==
    ASSUME DatasetTyped, RowInv, TokenInv, NEW k \in Keys, Claim(k)
    PROVE  LET n == tokens + 1 IN
           /\ tokens' = n /\ n \in Tokens /\ tokens' \in 0..MaxTokens
           /\ attempt[n] = NoAttempt
           /\ attempt' \in [Tokens -> Execution]
           /\ \A u \in Tokens : u # n => attempt'[u] = attempt[u]
           /\ attempt'[n].at = "start" /\ attempt'[n].key = k /\ attempt'[n].snap = rows[k].snap
           /\ attempt'[n].files = Files /\ ~attempt'[n].late
           /\ rows[k].state = "queued" /\ rows[k].snap \in Snapshots
           /\ rows' \in [Keys -> Row]
           /\ rows'[k].token = n /\ rows'[k].snap = rows[k].snap
           /\ \A i \in Keys : i # k => rows'[i] = rows[i]
           /\ UNCHANGED <<global, source, request, reservation, target, deletion, blob>>
<1> DEFINE n == tokens + 1
           x == [NoAttempt EXCEPT !.at = "start", !.key = k, !.snap = rows[k].snap]
           row == [rows[k] EXCEPT !.state = "running", !.token = n]
<1>1. /\ rows[k].state = "queued" /\ rows[k].snap \in Snapshots /\ rows[k] \in Row
      /\ tokens < MaxTokens /\ tokens' = n
      /\ UNCHANGED <<global, source, request, reservation, target, deletion, blob>>
    BY DEF Claim, RowInv, DatasetTyped
<1>2. n \in Tokens /\ n \in 0..MaxTokens /\ n > tokens
    BY <1>1, Bounds DEF DatasetTyped, Tokens
<1>3. attempt[n] = NoAttempt
    BY <1>2 DEF TokenInv
<1>4. /\ x \in Execution /\ x.at = "start" /\ x.key = k /\ x.snap = rows[k].snap
      /\ x.files = Files /\ ~x.late
    BY <1>1, Bounds DEF NoAttempt, Execution, Stages
<1>5. /\ row \in Row /\ row.token = n /\ row.snap = rows[k].snap
    BY <1>1, <1>2 DEF Row, States
<1>6. attempt' = [attempt EXCEPT ![n] = x] /\ rows' = [rows EXCEPT ![k] = row]
    BY <1>1 DEF Claim
<1> HIDE DEF x, row
<1>7. /\ attempt' \in [Tokens -> Execution] /\ attempt'[n] = x
      /\ \A u \in Tokens : u # n => attempt'[u] = attempt[u]
    BY <1>2, <1>4, <1>6 DEF DatasetTyped
<1>8. /\ rows' \in [Keys -> Row] /\ rows'[k] = row
      /\ \A i \in Keys : i # k => rows'[i] = rows[i]
    BY <1>5, <1>6 DEF DatasetTyped
<1> QED BY <1>1, <1>2, <1>3, <1>4, <1>5, <1>7, <1>8

\* The steps that execute nothing.
Around == attempt' = attempt /\ tokens' = tokens /\ blob' = blob

LEMMA Steps ==
    ASSUME [DatasetNext]_datasetVars
    PROVE  (\E t \in Tokens : Run(t)) \/ (\E k \in Keys : Claim(k)) \/ Around
<1> USE DEF Around
<1>1. ASSUME NEW q \in Requests, Ask(q)
      PROVE  Around
    BY <1>1 DEF Ask, ReadFrame, ReadMask, Accept, Create, LoseRequest, unchangedByRequests
<1>2. ASSUME NEW k \in Keys, LoseLease(k)
      PROVE  Around
    BY <1>2 DEF LoseLease
<1>3. ASSUME NEW kind \in {"frame", "mask"}, Change(kind)
      PROVE  Around
    BY <1>3 DEF Change
<1>4. CASE Delete \/ DeleteFiles \/ DeleteDirectory \/ Release
    BY <1>4 DEF Delete, DeleteFiles, DeleteDirectory, Release, unchangedByDelete
<1>5. CASE UNCHANGED datasetVars
    BY <1>5 DEF datasetVars
<1> QED BY <1>1, <1>2, <1>3, <1>4, <1>5 DEF DatasetNext

\* A row that runs did before, or has just been claimed.
LEMMA RowsStep ==
    ASSUME DatasetTyped, RequestInv, RowInv, TokenInv, ObjectInv, [DatasetNext]_datasetVars
    PROVE  /\ rows' \in [Keys -> Row] /\ RowInv'
           /\ \A k \in Keys : rows'[k].state = "running" =>
                 rows'[k] = rows[k] \/ (rows'[k].token = tokens' /\ tokens' = tokens + 1)
           /\ ~global => \A k \in Keys \ {NameKey} : rows'[k].state = "settled"
<1> DEFINE Goal == /\ rows' \in [Keys -> Row] /\ RowInv'
                   /\ \A k \in Keys : rows'[k].state = "running" =>
                         rows'[k] = rows[k] \/ (rows'[k].token = tokens' /\ tokens' = tokens + 1)
                   /\ ~global => \A k \in Keys \ {NameKey} : rows'[k].state = "settled"
<1>1. CASE rows' = rows
    BY <1>1 DEF DatasetTyped, RowInv, ObjectInv
<1>B. ASSUME RowsGivenBack
      PROVE  Goal
    <2>1. \A k \in Keys : rows[k].state = "settled" => rows'[k].state = "settled"
        BY <1>B DEF RowsGivenBack
    <2>2. \A k \in Keys : rows'[k].state \in {"queued", "running"} =>
             rows[k].state \in {"queued", "running"} /\ rows'[k].snap = rows[k].snap
        BY <1>B DEF RowsGivenBack
    <2> QED BY <1>B, <2>1, <2>2 DEF RowsGivenBack, RowInv, ObjectInv
<1>2. ASSUME NEW q \in Requests, Ask(q)
      PROVE  Goal
    <2>1. request[q].at \in {"frozen", "reserved"} => request[q].snap \in Snapshots
        BY DEF RequestInv
    <2>2. UNCHANGED global
        BY <1>2 DEF Ask, ReadFrame, ReadMask, Accept, Create, LoseRequest, unchangedByRequests
    <2>3. \/ rows' = rows
          \/ request[q].at \in {"frozen", "reserved"} /\ CreateRow(request[q].snap)
        BY <1>2 DEF Ask, ReadFrame, ReadMask, Accept, Create, LoseRequest
    <2> QED BY <1>1, <2>1, <2>2, <2>3, CreateEffect
<1>3. ASSUME NEW k \in Keys, LoseLease(k)
      PROVE  Goal
    <2>1. RowsGivenBack
        BY <1>3, LetGoEffect DEF LoseLease
    <2> QED BY <1>B, <2>1
<1>4. ASSUME NEW k \in Keys, Claim(k)
      PROVE  Goal
    <2>1. /\ tokens' = tokens + 1
          /\ rows[k].state = "queued" /\ rows[k].snap \in Snapshots
          /\ rows' \in [Keys -> Row]
          /\ rows'[k].token = tokens + 1 /\ rows'[k].snap = rows[k].snap
          /\ \A i \in Keys : i # k => rows'[i] = rows[i]
        BY <1>4, ClaimEffect
    <2> QED BY <2>1 DEF RowInv, ObjectInv
<1>5. ASSUME NEW t \in Tokens, Run(t)
      PROVE  Goal
    BY <1>B, <1>5, RunEffect
<1>6. \/ rows' = rows \/ \E q \in Requests : Ask(q)
      \/ \E k \in Keys : LoseLease(k) \/ Claim(k)
      \/ \E t \in Tokens : Run(t)
    BY DEF DatasetNext, Change, Delete, DeleteFiles, DeleteDirectory, Release, unchangedByDelete, datasetVars
<1> QED BY <1>1, <1>2, <1>3, <1>4, <1>5, <1>6

\* What the executions make of a step: each goes on with its snapshot, ends or starts.
LEMMA AttemptsStep ==
    ASSUME DatasetTyped, RowInv, TokenInv, ObjectInv, [DatasetNext]_datasetVars
    PROVE  /\ attempt' \in [Tokens -> Execution] /\ TokenInv' /\ tokens' \in 0..MaxTokens
           /\ tokens \in Nat /\ tokens' \in {tokens, tokens + 1}
           /\ \A u \in Tokens : attempt'[u].at \in Working =>
                 /\ attempt[u].at \in {"start"} \cup Working
                 /\ attempt'[u].key = attempt[u].key /\ attempt'[u].snap = attempt[u].snap
                 /\ u <= tokens
           /\ \A u \in Tokens : attempt[u].late =>
                 attempt'[u].late /\ attempt'[u].snap = attempt[u].snap
<1>0. tokens \in Nat /\ \A u \in Tokens : u \in Nat
    BY Bounds DEF DatasetTyped
<1>A. \A u \in Tokens : attempt[u].at \in {"start"} \cup Working => u <= tokens
    BY <1>0 DEF TokenInv, NoAttempt, Working, Sending
<1>1. CASE Around
    BY <1>0, <1>A, <1>1 DEF Around, DatasetTyped, TokenInv
<1>2. ASSUME NEW t \in Tokens, Run(t)
      PROVE  /\ attempt' \in [Tokens -> Execution] /\ TokenInv' /\ tokens' = tokens
             /\ \A u \in Tokens : attempt'[u].at \in Working =>
                   /\ attempt[u].at \in {"start"} \cup Working
                   /\ attempt'[u].key = attempt[u].key /\ attempt'[u].snap = attempt[u].snap
             /\ \A u \in Tokens : attempt[u].late =>
                   attempt'[u].late /\ attempt'[u].snap = attempt[u].snap
    <2>1. /\ Moves(t) /\ attempt[t].at \in {"start"} \cup Working /\ tokens' = tokens
        BY <1>2, RunEffect
    <2>2. EndedRun(t).at \notin Working
        BY DEF EndedRun, NoAttempt, Working, Sending
    <2>3. t <= tokens
        BY <1>A, <2>1
    <2>4. TokenInv'
        BY <1>0, <2>1, <2>3 DEF Moves, TokenInv
    <2> QED BY <2>1, <2>2, <2>4 DEF Moves
<1>3. ASSUME NEW k \in Keys, Claim(k)
      PROVE  /\ attempt' \in [Tokens -> Execution] /\ TokenInv' /\ tokens' \in 0..MaxTokens
             /\ tokens' = tokens + 1
             /\ \A u \in Tokens : attempt'[u].at \in Working =>
                   /\ attempt[u].at \in {"start"} \cup Working
                   /\ attempt'[u].key = attempt[u].key /\ attempt'[u].snap = attempt[u].snap
             /\ \A u \in Tokens : attempt[u].late =>
                   attempt'[u].late /\ attempt'[u].snap = attempt[u].snap
    <2> DEFINE n == tokens + 1
    <2>1. /\ tokens' = n /\ n \in Tokens /\ tokens' \in 0..MaxTokens
          /\ attempt[n] = NoAttempt
          /\ attempt' \in [Tokens -> Execution]
          /\ \A u \in Tokens : u # n => attempt'[u] = attempt[u]
          /\ attempt'[n].at = "start"
        BY <1>3, ClaimEffect
    <2>2. ~attempt[n].late /\ "start" \notin Working
        BY <2>1 DEF NoAttempt, Working, Sending
    <2>3. TokenInv'
        BY <1>0, <2>1 DEF TokenInv
    <2> QED BY <2>1, <2>2, <2>3
<1>4. tokens \in 0..MaxTokens
    BY DEF DatasetTyped
<1> QED BY <1>0, <1>A, <1>1, <1>2, <1>3, <1>4, Steps

\* Who owns a row while it works owned it before.
LEMMA OwnersKept ==
    ASSUME DatasetTyped, RequestInv, RowInv, TokenInv, ObjectInv, [DatasetNext]_datasetVars,
           NEW u \in Tokens, attempt'[u].at \in Working, Owns(u)'
    PROVE  Owns(u)
<1>1. /\ attempt'[u].key = attempt[u].key /\ u <= tokens /\ tokens \in Nat /\ u \in Nat
    BY AttemptsStep, Bounds
<1>2. attempt[u].key \in Keys
    BY DEF DatasetTyped, Execution
<1>3. rows'[attempt[u].key].state = "running" /\ rows'[attempt[u].key].token = u
    BY <1>1 DEF Owns
<1>4. rows'[attempt[u].key] = rows[attempt[u].key]
    BY <1>1, <1>2, <1>3, RowsStep
<1> QED BY <1>3, <1>4 DEF Owns

LEMMA LateKept ==
    ASSUME DatasetTyped, RowInv, TokenInv, ObjectInv, [DatasetNext]_datasetVars, NEW s, TooLate(s)
    PROVE  TooLate(s)'
BY AttemptsStep DEF TooLate

-----------------------------------------------------------------------------
(* Types *)

LEMMA SourceStep ==
    ASSUME DatasetTyped, [DatasetNext]_datasetVars
    PROVE  /\ global' = global /\ source' \in [{"frame", "mask"} -> Versions]
           /\ source.frame \in Nat /\ source'.frame \in Nat /\ source.frame <= source'.frame
           /\ source' = source \/ \E kind \in {"frame", "mask"} : Change(kind)
<1>1. global' = global /\ (source' = source \/ \E kind \in {"frame", "mask"} : Change(kind))
    <2>1. ASSUME NEW q \in Requests, Ask(q)
          PROVE  UNCHANGED <<global, source>>
        BY <2>1 DEF Ask, ReadFrame, ReadMask, Accept, Create, LoseRequest, unchangedByRequests
    <2>2. ASSUME NEW t \in Tokens, Run(t)
          PROVE  UNCHANGED <<global, source>>
        BY <2>2, RunEffect
    <2> QED BY <2>1, <2>2 DEF DatasetNext, Claim, LoseLease, Change, Delete, DeleteFiles, DeleteDirectory,
                  Release, unchangedByDelete, datasetVars
<1>2. ASSUME NEW kind \in {"frame", "mask"}, Change(kind)
      PROVE  /\ source' \in [{"frame", "mask"} -> Versions]
             /\ source'.frame = source.frame \/ source'.frame = source.frame + 1
    <2>1. source[kind] \in Versions /\ source[kind] < MaxVersion
        BY <1>2 DEF DatasetTyped, Change
    <2>2. source[kind] + 1 \in Versions
        BY <2>1, Bounds DEF Versions
    <2>3. source' = [source EXCEPT ![kind] = source[kind] + 1]
        BY <1>2 DEF Change
    <2> QED BY <2>2, <2>3 DEF DatasetTyped
<1>3. source.frame \in Nat
    BY Bounds DEF DatasetTyped
<1> QED BY <1>1, <1>2, <1>3 DEF DatasetTyped

LEMMA ReservationStep ==
    ASSUME DatasetTyped, RequestInv, AttemptInv, [DatasetNext]_datasetVars
    PROVE  reservation' \in Snapshots \cup {None}
<1>1. CASE reservation' = reservation
    BY <1>1 DEF DatasetTyped
<1>2. ASSUME NEW q \in Requests, Accept(q)
      PROVE  reservation' \in Snapshots \cup {None}
    <2>1. request[q].snap \in Snapshots
        BY <1>2 DEF Accept, RequestInv
    <2> QED BY <1>1, <1>2, <2>1 DEF Accept, Reserve
<1>3. ASSUME NEW t \in Tokens, Start(t)
      PROVE  reservation' \in Snapshots \cup {None}
    <2>1. attempt[t].snap \in Snapshots
        BY <1>3 DEF Start, AttemptInv
    <2> QED BY <1>1, <1>3, <2>1 DEF Start, Reserve
<1>4. CASE Release
    BY <1>4 DEF Release
<1>5. ASSUME NEW q \in Requests, Ask(q)
      PROVE  Accept(q) \/ reservation' = reservation
    BY <1>5 DEF Ask, ReadFrame, ReadMask, Create, LoseRequest
<1>6. ASSUME NEW t \in Tokens, Run(t)
      PROVE  Start(t) \/ reservation' = reservation
    BY <1>6 DEF Run, CheckFrame, CopyFrame, CopyMask, Recheck, Publish, ListFiles, Upload, PutFile,
           UploadManifest, CompleteJob
<1>7. ASSUME NEW k \in Keys, Claim(k) \/ LoseLease(k)
      PROVE  reservation' = reservation
    BY <1>7 DEF Claim, LoseLease
<1>8. ASSUME NEW kind \in {"frame", "mask"}, Change(kind)
      PROVE  reservation' = reservation
    BY <1>8 DEF Change
<1>9. ASSUME Delete \/ DeleteFiles \/ DeleteDirectory \/ UNCHANGED datasetVars
      PROVE  reservation' = reservation
    BY <1>9 DEF Delete, DeleteFiles, DeleteDirectory, datasetVars
<1> QED BY <1>1, <1>2, <1>3, <1>4, <1>5, <1>6, <1>7, <1>8, <1>9 DEF DatasetNext

\* A deletion empties the name; only a dataset that is published takes it.
Emptied == target' \in {Partial, EmptyTarget, Absent} /\ ~global

Published(t) ==
    /\ attempt[t].at = "publish" /\ Owns(t)
    /\ target' = [at |-> "complete", frame |-> attempt[t].frame, mask |-> attempt[t].mask,
                  snap |-> attempt[t].snap]

LEMMA TargetStep ==
    ASSUME GlobalInv, [DatasetNext]_datasetVars
    PROVE  target' = target \/ Emptied \/ \E t \in Tokens : Publish(t) /\ Published(t)
<1>1. ASSUME NEW t \in Tokens, Publish(t)
      PROVE  target' = target \/ Published(t)
    BY <1>1 DEF Publish, Published, Fenced
<1>2. CASE Delete \/ DeleteFiles \/ DeleteDirectory
    BY <1>2 DEF Delete, DeleteFiles, DeleteDirectory, Deletable, Emptied, GlobalInv
<1>3. ASSUME NEW q \in Requests, Ask(q)
      PROVE  target' = target
    BY <1>3 DEF Ask, ReadFrame, ReadMask, Accept, Create, LoseRequest, unchangedByRequests
<1>4. ASSUME NEW t \in Tokens, Run(t)
      PROVE  Publish(t) \/ target' = target
    BY <1>4 DEF Run, Start, CheckFrame, CopyFrame, CopyMask, Recheck, ListFiles, Upload, PutFile,
           UploadManifest, CompleteJob
<1>5. ASSUME NEW k \in Keys, Claim(k) \/ LoseLease(k)
      PROVE  target' = target
    BY <1>5 DEF Claim, LoseLease
<1>6. ASSUME NEW kind \in {"frame", "mask"}, Change(kind)
      PROVE  target' = target
    BY <1>6 DEF Change
<1>7. CASE Release \/ UNCHANGED datasetVars
    BY <1>7 DEF Release, datasetVars
<1> QED BY <1>1, <1>2, <1>3, <1>4, <1>5, <1>6, <1>7 DEF DatasetNext

LEMMA BlobStep ==
    ASSUME DatasetTyped, [DatasetNext]_datasetVars
    PROVE  \/ blob' = blob
           \/ \E t \in Tokens : PutFile(t) /\ PutOf(t)
           \/ \E t \in Tokens : UploadManifest(t) /\ Advertised(t)
<1>1. ASSUME NEW t \in Tokens, PutFile(t)
      PROVE  PutOf(t) \/ blob' = blob
    BY <1>1, PutEffect
<1>3. ASSUME NEW t \in Tokens, UploadManifest(t)
      PROVE  Advertised(t) \/ blob' = blob
    BY <1>3, ManifestEffect
<1>4. ASSUME NEW t \in Tokens, Run(t)
      PROVE  PutFile(t) \/ UploadManifest(t) \/ blob' = blob
    BY <1>4 DEF Run, Start, CheckFrame, CopyFrame, CopyMask, Recheck, Publish, ListFiles, Upload, CompleteJob
<1>5. ASSUME NEW k \in Keys, Claim(k)
      PROVE  blob' = blob
    BY <1>5 DEF Claim
<1> QED BY <1>1, <1>3, <1>4, <1>5, Steps DEF Around

LEMMA TypedStep ==
    ASSUME DatasetTyped, RequestInv, RowInv, TokenInv, AttemptInv, GlobalInv, ObjectInv,
           [DatasetNext]_datasetVars
    PROVE  DatasetTyped'
<1>1. target' \in Target
    <2>1. CASE target' = target
        BY <2>1 DEF DatasetTyped
    <2>2. CASE Emptied
        BY <2>2, Bounds DEF Emptied, Partial, EmptyTarget, Absent, Target, DatasetTyped
    <2>3. ASSUME NEW t \in Tokens, Published(t)
          PROVE  target' \in Target
        <3>1. attempt[t] \in Execution
            BY DEF DatasetTyped
        <3> QED BY <2>3, <3>1 DEF Published, Execution, Target
    <2> QED BY <2>1, <2>2, <2>3, TargetStep
<1>2. blob' \in [Snapshots -> [frame : Content, mask : Content, manifest : Snapshots \cup {None}]]
    <2> DEFINE Blob == [frame : Content, mask : Content, manifest : Snapshots \cup {None}]
    <2>1. CASE blob' = blob
        BY <2>1 DEF DatasetTyped
    <2>2. ASSUME NEW t \in Tokens, PutOf(t)
          PROVE  blob' \in [Snapshots -> Blob]
        <3> DEFINE s == attempt[t].snap
                   b == [blob[s] EXCEPT ![NextFile(t)] = target[NextFile(t)]]
        <3>1. s \in Snapshots /\ NextFile(t) \in {"frame", "mask"}
            BY <2>2 DEF PutOf, AttemptInv, Working, Sending, NextFile
        <3>2. blob[s] \in Blob /\ target \in Target
            BY <3>1 DEF DatasetTyped
        <3>3. b \in Blob
            <4>1. CASE NextFile(t) = "frame"
                <5>1. b = [blob[s] EXCEPT !.frame = target.frame]
                    BY <4>1
                <5> QED BY <3>2, <5>1 DEF Target
            <4>2. CASE NextFile(t) = "mask"
                <5>1. b = [blob[s] EXCEPT !.mask = target.mask]
                    BY <4>2
                <5> QED BY <3>2, <5>1 DEF Target
            <4> QED BY <3>1, <4>1, <4>2
        <3>4. blob' = [blob EXCEPT ![s] = b]
            BY <2>2 DEF PutOf
        <3> HIDE DEF b, s
        <3> QED BY <3>1, <3>3, <3>4 DEF DatasetTyped
    <2>3. ASSUME NEW t \in Tokens, Advertised(t)
          PROVE  blob' \in [Snapshots -> Blob]
        <3>1. target.snap \in Snapshots \cup {None}
            BY DEF DatasetTyped, Target
        <3> QED BY <2>3, <3>1 DEF Advertised, DatasetTyped
    <2> QED BY <2>1, <2>2, <2>3, BlobStep
<1>3. deletion' \in {"none", "files", "directory", "release"}
    <2>1. ASSUME NEW t \in Tokens, Run(t)
          PROVE  deletion' = deletion
        BY <2>1, RunEffect
    <2>2. ASSUME NEW q \in Requests, Ask(q)
          PROVE  deletion' = deletion
        BY <2>2 DEF Ask, ReadFrame, ReadMask, Accept, Create, LoseRequest, unchangedByRequests
    <2> QED BY <2>1, <2>2 DEF DatasetTyped, DatasetNext, Claim, LoseLease, Change, Delete, DeleteFiles,
                  DeleteDirectory, Release, datasetVars
<1> QED BY <1>1, <1>2, <1>3, RowsStep, AttemptsStep, SourceStep, ReservationStep DEF DatasetTyped

-----------------------------------------------------------------------------
(* The invariant is kept by every step *)

LEMMA RequestStep ==
    ASSUME DatasetTyped, RequestInv, [DatasetNext]_datasetVars
    PROVE  RequestInv'
<1>1. CASE request' = request
    BY <1>1 DEF RequestInv
<1>2. ASSUME NEW q \in Requests, NEW r, request' = [request EXCEPT ![q] = r],
             r.at = "frame" => \E v \in Versions : r.snap = [frame |-> v, mask |-> 0],
             r.at \in {"frozen", "reserved"} => r.snap \in Snapshots
      PROVE  RequestInv'
    <2>1. DOMAIN request' = Requests /\ \A p \in Requests : request'[p] = IF p = q THEN r ELSE request[p]
        BY <1>2 DEF RequestInv
    <2> QED BY <1>2, <2>1 DEF RequestInv
<1>S. source.frame \in Versions /\ source.mask \in Versions
    BY DEF DatasetTyped
<1>3. ASSUME NEW q \in Requests, ReadFrame(q)
      PROVE  RequestInv'
    <2>1. request' = [request EXCEPT ![q] = [at |-> "frame", snap |-> [frame |-> source.frame, mask |-> 0]]]
        BY <1>3 DEF ReadFrame
    <2> QED BY <1>S, <1>2, <2>1
<1>4. ASSUME NEW q \in Requests, ReadMask(q)
      PROVE  RequestInv'
    <2> DEFINE r == [request[q] EXCEPT !.at = "frozen", !.snap.mask = source.mask]
    <2>1. PICK v \in Versions : request[q].snap = [frame |-> v, mask |-> 0]
        BY <1>4 DEF ReadMask, RequestInv
    <2>2. request[q].at = "frame"
        BY <1>4 DEF ReadMask
    <2>3. request' = [request EXCEPT ![q] = r]
        BY <1>4 DEF ReadMask
    <2>4. r.at = "frozen" /\ r.snap \in Snapshots
        BY <1>S, <2>1, <2>2 DEF Snapshots
    <2> HIDE DEF r
    <2> QED BY <1>2, <2>3, <2>4
<1>5. ASSUME NEW q \in Requests, Accept(q) \/ Create(q) \/ LoseRequest(q)
      PROVE  RequestInv'
    <2>1. request[q].snap \in Snapshots
        BY <1>5 DEF Accept, Create, LoseRequest, RequestInv
    <2>2. \/ request' = [request EXCEPT ![q] = Answered]
          \/ request' = [request EXCEPT ![q] = [request[q] EXCEPT !.at = "reserved"]]
        BY <1>5 DEF Accept, Create, LoseRequest
    <2>3. Answered.at = "over"
        BY DEF Answered
    <2>4. [request[q] EXCEPT !.at = "reserved"].snap \in Snapshots
        BY <2>1
    <2>5. [request[q] EXCEPT !.at = "reserved"].at # "frame"
        OBVIOUS
    <2> QED BY <1>2, <2>2, <2>3, <2>4, <2>5
<1>6. ASSUME NEW t \in Tokens, Run(t)
      PROVE  request' = request
    BY <1>6, RunEffect
<1>7. (\E q \in Requests : Ask(q)) \/ request' = request
    BY <1>6 DEF DatasetNext, Claim, LoseLease, Change, Delete, DeleteFiles, DeleteDirectory, Release,
           unchangedByDelete, datasetVars
<1> QED BY <1>1, <1>3, <1>4, <1>5, <1>7 DEF Ask

\* One execution, with the frame on disk at f.
Sound(a, f) ==
    /\ a.at \in {"start"} \cup Working => a.snap \in Snapshots
    /\ a.at \in {"copy", "mask", "recheck"} => a.snap.frame <= f
    /\ a.at \in {"mask", "recheck"} => a.snap.frame <= a.frame /\ a.frame <= f
    /\ a.at \in {"recheck", "publish"} => a.mask = a.snap.mask
    /\ a.at = "publish" => a.frame = a.snap.frame
    /\ a.at \in {"start", "check", "copy", "mask", "recheck", "publish", "list"} => a.files = Files

LEMMA AttemptStep ==
    ASSUME DatasetTyped, RowInv, TokenInv, AttemptInv, [DatasetNext]_datasetVars
    PROVE  AttemptInv'
<1> USE DEF Sound
<1>0. /\ source.frame \in Nat /\ source'.frame \in Nat /\ source.frame <= source'.frame
      /\ \A s \in Snapshots : s.frame \in Nat
    BY SourceStep, Bounds DEF Snapshots
<1>1. ASSUME NEW u \in Tokens, attempt'[u] = attempt[u]
      PROVE  Sound(attempt'[u], source'.frame)
    <2>1. Sound(attempt[u], source.frame)
        BY DEF AttemptInv
    <2>2. attempt[u].frame \in Nat
        BY Bounds DEF DatasetTyped, Execution
    <2>3. attempt[u].at \in {"copy", "mask", "recheck"} => attempt[u].snap \in Snapshots
        BY <2>1 DEF Working
    <2> QED BY <1>0, <1>1, <2>1, <2>2, <2>3
<1>2. ASSUME NEW t \in Tokens, Run(t)
      PROVE  Sound(attempt'[t], source'.frame)
    <2> DEFINE a == attempt[t]
               b == attempt'[t]
    <2>1. /\ Sound(a, source.frame) /\ a.at \in {"start"} \cup Working /\ source' = source
          /\ a.snap \in Snapshots
        BY <1>2, RunEffect DEF AttemptInv
    <2>2. CASE b = EndedRun(t)
        BY <2>2 DEF EndedRun, NoAttempt, Working, Sending
    <2>3. ASSUME NEW step \in Stages, Goto(t, step)
          PROVE  /\ b.at = step /\ b.snap = a.snap /\ b.frame = a.frame /\ b.mask = a.mask
                 /\ b.files = a.files
        BY <2>3, GotoEffect
    <2>4. GiveUp(t) => b = EndedRun(t)
        BY GiveUpEffect
    <2>5. CASE Start(t)
        <3>1. GiveUp(t) \/ Goto(t, "check") \/ Goto(t, "list")
            BY <2>5 DEF Start
        <3>2. a.at = "start" /\ {"check", "list"} \subseteq Stages
            BY <2>5 DEF Start, Stages, Working, Sending
        <3> QED BY <2>1, <2>2, <2>3, <2>4, <3>1, <3>2
    <2>6. CASE CheckFrame(t)
        <3>1. GiveUp(t) \/ (Goto(t, "copy") /\ source.frame = a.snap.frame)
            BY <2>6 DEF CheckFrame, SnapshotImage
        <3>2. a.at = "check" /\ "copy" \in Stages
            BY <2>6 DEF CheckFrame, Stages, Working
        <3> QED BY <1>0, <2>1, <2>2, <2>3, <2>4, <3>1, <3>2
    <2>7. CASE CopyFrame(t)
        <3>1. attempt' = [attempt EXCEPT ![t] = [a EXCEPT !.at = "mask", !.frame = source.frame]]
            BY <2>7 DEF CopyFrame
        <3>2. a.at = "copy" /\ a \in Execution
            BY <2>7 DEF CopyFrame, DatasetTyped
        <3>3. b = [a EXCEPT !.at = "mask", !.frame = source.frame]
            BY <3>1 DEF DatasetTyped
        <3>4. b.at = "mask" /\ b.frame = source.frame /\ b.snap = a.snap /\ b.files = a.files
            BY <3>2, <3>3 DEF Execution
        <3> QED BY <1>0, <2>1, <3>2, <3>4
    <2>8. CASE CopyMask(t)
        <3>1. \/ GiveUp(t)
              \/ /\ attempt' = [attempt EXCEPT ![t] = [a EXCEPT !.at = "recheck", !.mask = source.mask]]
                 /\ source.mask = a.snap.mask
            BY <2>8 DEF CopyMask
        <3>2. a.at = "mask" /\ a \in Execution
            BY <2>8 DEF CopyMask, DatasetTyped
        <3>3. CASE /\ attempt' = [attempt EXCEPT ![t] = [a EXCEPT !.at = "recheck", !.mask = source.mask]]
                   /\ source.mask = a.snap.mask
            <4>1. b = [a EXCEPT !.at = "recheck", !.mask = source.mask]
                BY <3>3 DEF DatasetTyped
            <4>2. /\ b.at = "recheck" /\ b.mask = source.mask /\ b.frame = a.frame
                  /\ b.snap = a.snap /\ b.files = a.files
                BY <3>2, <4>1 DEF Execution
            <4> QED BY <2>1, <3>2, <3>3, <4>2
        <3> QED BY <2>2, <2>4, <3>1, <3>3
    <2>9. CASE Recheck(t)
        <3>1. GiveUp(t) \/ (Goto(t, "publish") /\ source.frame = a.snap.frame)
            BY <2>9 DEF Recheck, FrameUnchanged, SnapshotImage
        <3>2. a.at = "recheck" /\ "publish" \in Stages /\ a.frame \in Nat
            BY <2>9, Bounds DEF Recheck, Stages, Working, DatasetTyped, Execution
        <3> QED BY <1>0, <2>1, <2>2, <2>3, <2>4, <3>1, <3>2
    <2>10. CASE Upload(t)
        <3>1. GiveUp(t) \/ Goto(t, "put")
            BY <2>10 DEF Upload
        <3>2. "put" \in Stages
            BY DEF Stages, Working, Sending
        <3> QED BY <2>1, <2>2, <2>3, <2>4, <3>1, <3>2
    <2>11. CASE PutFile(t)
        <3>1. GiveUp(t) \/ b.at \in {"upload", "manifest"}
            BY <2>11, PutEffect DEF PutOf
        <3>2. b = EndedRun(t) \/ b.snap = a.snap
            BY <1>2, RunEffect DEF Moves
        <3> QED BY <2>1, <2>2, <2>4, <3>1, <3>2
    <2>12. CASE CompleteJob(t)
        <3>1. b = EndedRun(t)
            BY <2>12 DEF CompleteJob, DatasetTyped
        <3> QED BY <2>2, <3>1
    <2>13. CASE Publish(t)
        <3>1. a.at = "publish" /\ a \in Execution
            BY <2>13 DEF Publish, DatasetTyped
        <3>2. GiveUp(t) \/ b = [a EXCEPT !.at = "list", !.frame = 0, !.mask = 0]
            BY <2>13 DEF Publish, StartUpload, DatasetTyped
        <3>3. GiveUp(t) \/ (b.at = "list" /\ b.snap = a.snap /\ b.files = a.files)
            BY <3>1, <3>2 DEF Execution
        <3> QED BY <2>1, <2>2, <2>4, <3>1, <3>3
    <2>15. CASE UploadManifest(t)
        <3>1. GiveUp(t) \/ (b.at = "complete" /\ b.snap = a.snap)
            BY <2>15, ManifestEffect DEF Advertised
        <3> QED BY <2>1, <2>2, <2>4, <3>1
    <2>14. CASE ListFiles(t)
        <3>1. GiveUp(t) \/ b.at \in {"put", "manifest"}
            BY <2>14, ListEffect DEF Listed
        <3>2. b = EndedRun(t) \/ b.snap = a.snap
            BY <1>2, RunEffect DEF Moves
        <3> QED BY <2>1, <2>2, <2>4, <3>1, <3>2
    <2> QED BY <1>2, <2>5, <2>6, <2>7, <2>8, <2>9, <2>10, <2>11, <2>12, <2>13, <2>14, <2>15 DEF Run
<1>3. ASSUME NEW k \in Keys, Claim(k)
      PROVE  \A u \in Tokens : attempt'[u] = attempt[u] \/ Sound(attempt'[u], source'.frame)
    <2> DEFINE b == attempt'[tokens + 1]
    <2>1. /\ b.at = "start" /\ b.snap \in Snapshots /\ b.files = Files
          /\ \A u \in Tokens : u # tokens + 1 => attempt'[u] = attempt[u]
        BY <1>3, ClaimEffect
    <2>2. Sound(b, source'.frame)
        <3> HIDE DEF b
        <3> QED BY <2>1
    <2> QED BY <2>1, <2>2
<1>4. \A u \in Tokens : attempt'[u] = attempt[u] \/ Sound(attempt'[u], source'.frame)
    BY <1>2, <1>3, Steps, RunEffect DEF Around, Moves
<1>5. \A u \in Tokens : Sound(attempt'[u], source'.frame)
    BY <1>1, <1>4
<1> QED BY <1>5 DEF AttemptInv

\* A name of the workspace, once kept, is kept for ever.
LEMMA KeptStep ==
    ASSUME DatasetTyped, RequestInv, AttemptInv, GlobalInv, [DatasetNext]_datasetVars, global
    PROVE  /\ reservation' = reservation \/ (reservation = None /\ target.at = "absent")
           /\ \A t \in Tokens : Start(t) /\ attempt'[t].at \in Working =>
                 reservation' = attempt[t].snap
<1>1. ASSUME NEW s \in Snapshots, Reservable(s), Reserve(s)
      PROVE  /\ reservation' = reservation \/ (reservation = None /\ target.at = "absent")
             /\ reservation' = s
    <2>1. CASE target.at = "absent"
        BY <1>1, <2>1 DEF Reservable, Reserve
    <2>2. CASE target.at # "absent"
        BY <1>1, <2>2 DEF Reservable, Reserve, GlobalInv
    <2> QED BY <2>1, <2>2
<1>2. ASSUME NEW q \in Requests, Accept(q)
      PROVE  reservation' = reservation \/ (reservation = None /\ target.at = "absent")
    <2>1. request[q].snap \in Snapshots
        BY <1>2 DEF Accept, RequestInv
    <2> QED BY <1>1, <1>2, <2>1 DEF Accept
<1>3. ASSUME NEW t \in Tokens, Start(t)
      PROVE  /\ reservation' = reservation \/ (reservation = None /\ target.at = "absent")
             /\ attempt'[t].at \in Working => reservation' = attempt[t].snap
    <2>1. attempt[t].snap \in Snapshots
        BY <1>3 DEF Start, AttemptInv
    <2>2. CASE Reservable(attempt[t].snap)
        BY <1>1, <1>3, <2>1, <2>2 DEF Start
    <2>3. CASE ~Reservable(attempt[t].snap)
        <3>1. GiveUp(t) /\ reservation' = reservation
            BY <1>3, <2>3 DEF Start
        <3>2. attempt'[t].at = "over"
            BY <3>1, GiveUpEffect DEF EndedRun, NoAttempt
        <3> QED BY <3>1, <3>2 DEF Working, Sending
    <2> QED BY <2>2, <2>3
<1>4. ASSUME NEW q \in Requests, Ask(q)
      PROVE  Accept(q) \/ reservation' = reservation
    BY <1>4 DEF Ask, ReadFrame, ReadMask, Create, LoseRequest
<1>5. ASSUME NEW t \in Tokens, Run(t)
      PROVE  Start(t) \/ reservation' = reservation
    BY <1>5 DEF Run, CheckFrame, CopyFrame, CopyMask, Recheck, Publish, ListFiles, Upload, PutFile,
           UploadManifest, CompleteJob
<1>6. ASSUME \/ \E k \in Keys : Claim(k) \/ LoseLease(k)
             \/ \E kind \in {"frame", "mask"} : Change(kind)
             \/ UNCHANGED datasetVars
      PROVE  reservation' = reservation
    BY <1>6 DEF Claim, LoseLease, Change, datasetVars
<1>7. ~ (Delete \/ DeleteFiles \/ DeleteDirectory \/ Release)
    BY DEF Delete, DeleteFiles, DeleteDirectory, Release, Deletable, GlobalInv
<1> QED BY <1>2, <1>3, <1>4, <1>5, <1>6, <1>7 DEF DatasetNext

\* An execution that begins to work has started.
LEMMA BeginsToWork ==
    ASSUME DatasetTyped, RowInv, TokenInv, [DatasetNext]_datasetVars,
           NEW u \in Tokens, attempt'[u].at \in Working, attempt[u].at \notin Working
    PROVE  Start(u)
<1>1. attempt'[u] # attempt[u]
    OBVIOUS
<1>2. ASSUME NEW k \in Keys, Claim(k)
      PROVE  FALSE
    BY <1>1, <1>2, ClaimEffect DEF Working, Sending
<1>3. ASSUME NEW t \in Tokens, Run(t)
      PROVE  t = u /\ attempt[u].at = "start"
    <2>1. t = u
        BY <1>1, <1>3, RunEffect DEF Moves
    <2> QED BY <1>3, <2>1, RunEffect
<1>4. PICK t \in Tokens : Run(t)
    BY <1>1, <1>2, Steps DEF Around
<1>5. Run(u) /\ attempt[u].at = "start"
    BY <1>3, <1>4
<1> QED BY <1>5 DEF Run, CheckFrame, CopyFrame, CopyMask, Recheck, Publish, ListFiles, Upload, PutFile,
               UploadManifest, CompleteJob

LEMMA GlobalStep ==
    ASSUME DatasetTyped, RequestInv, RowInv, TokenInv, AttemptInv, GlobalInv, ObjectInv,
           [DatasetNext]_datasetVars
    PROVE  GlobalInv'
<1>0. global' = global
    BY SourceStep
<1> SUFFICES ASSUME global
             PROVE  /\ target'.at \in {"absent", "complete"} /\ deletion' = "none"
                    /\ target'.at = "complete" => target'.snap = reservation'
                    /\ \A t \in Tokens : attempt'[t].at \in Working => attempt'[t].snap = reservation'
    BY <1>0 DEF GlobalInv
<1>1. /\ target.at \in {"absent", "complete"} /\ deletion = "none"
      /\ target.at = "complete" => target.snap = reservation
      /\ \A t \in Tokens : attempt[t].at \in Working => attempt[t].snap = reservation
    BY DEF GlobalInv
<1>2. reservation' = reservation \/ (reservation = None /\ target.at = "absent")
    BY KeptStep
<1>3. \A t \in Tokens : attempt[t].at \in Working => reservation # None
    BY <1>1, Bounds DEF AttemptInv
<1>4. \A t \in Tokens : attempt'[t].at \in Working => attempt'[t].snap = reservation'
    <2> SUFFICES ASSUME NEW t \in Tokens, attempt'[t].at \in Working
                 PROVE  attempt'[t].snap = reservation'
        OBVIOUS
    <2>1. attempt'[t].snap = attempt[t].snap
        BY AttemptsStep
    <2>2. CASE attempt[t].at \in Working
        BY <1>1, <1>2, <1>3, <2>1, <2>2
    <2>3. CASE attempt[t].at \notin Working
        BY <2>1, <2>3, BeginsToWork, KeptStep
    <2> QED BY <2>2, <2>3
<1>5. /\ target'.at \in {"absent", "complete"}
      /\ target'.at = "complete" => target'.snap = reservation'
    <2>1. CASE target' = target
        BY <1>1, <1>2, <2>1
    <2>2. ASSUME NEW t \in Tokens, Publish(t), Published(t)
          PROVE  target'.at = "complete" /\ target'.snap = reservation'
        <3>1. attempt[t].at \in Working
            BY <2>2 DEF Published, Working
        <3> QED BY <1>1, <1>2, <1>3, <2>2, <3>1 DEF Published
    <2> QED BY <2>1, <2>2, TargetStep DEF Emptied
<1>6. deletion' = "none"
    <2>1. ASSUME NEW t \in Tokens, Run(t)
          PROVE  deletion' = deletion
        BY <2>1, RunEffect
    <2>2. ASSUME NEW q \in Requests, Ask(q)
          PROVE  deletion' = deletion
        BY <2>2 DEF Ask, ReadFrame, ReadMask, Accept, Create, LoseRequest, unchangedByRequests
    <2> QED BY <1>1, <2>1, <2>2 DEF DatasetNext, Claim, LoseLease, Change, Delete, DeleteFiles,
                  DeleteDirectory, Release, Deletable, datasetVars
<1> QED BY <1>4, <1>5, <1>6

LEMMA ObjectStep ==
    ASSUME DatasetTyped, RequestInv, RowInv, TokenInv, ObjectInv, [DatasetNext]_datasetVars
    PROVE  ObjectInv'
<1>0. global' = global
    BY SourceStep
<1>1. ~global => \A k \in Keys \ {NameKey} : rows'[k].state = "settled"
    BY RowsStep
<1>2. ASSUME ~global, NEW u \in Tokens
      PROVE  attempt'[u].key = NameKey
    <2>0. attempt[u].key = NameKey
        BY <1>2 DEF ObjectInv
    <2>1. ASSUME NEW t \in Tokens, Run(t)
          PROVE  attempt'[u].key = NameKey
        <3>1. Moves(t)
            BY <2>1, RunEffect
        <3>2. EndedRun(t).key = NameKey
            BY DEF EndedRun, NoAttempt
        <3>3. attempt[t].key = NameKey
            BY <1>2 DEF ObjectInv
        <3> QED BY <2>0, <3>1, <3>2, <3>3 DEF Moves
    <2>2. ASSUME NEW k \in Keys, Claim(k)
          PROVE  attempt'[u].key = NameKey
        <3>1. k = NameKey
            BY <1>2, <2>2 DEF Claim, ObjectInv
        <3>2. attempt'[tokens + 1].key = k /\ (u # tokens + 1 => attempt'[u] = attempt[u])
            BY <2>2, ClaimEffect
        <3> QED BY <2>0, <3>1, <3>2
    <2> QED BY <2>0, <2>1, <2>2, Steps DEF Around
<1> QED BY <1>0, <1>1, <1>2 DEF ObjectInv

\* An object has one owner at a time.
LEMMA OneOwner ==
    ASSUME ObjectInv, ~global, NEW t \in Tokens, NEW u \in Tokens, Owns(t), Owns(u)
    PROVE  t = u
BY DEF ObjectInv, Owns

\* Who begins to upload has found its dataset, or put it there.
LEMMA BeginsToSend ==
    ASSUME DatasetTyped, RowInv, TokenInv, ObjectInv, [DatasetNext]_datasetVars,
           NEW u \in Tokens, attempt'[u].at \in Sending, attempt[u].at \notin Sending
    PROVE  /\ Start(u) \/ Publish(u)
           /\ attempt'[u].at = "list" /\ attempt'[u].files = attempt[u].files
           /\ target'.snap = attempt[u].snap
<1>0. attempt'[u].at \in Working /\ attempt'[u] # attempt[u]
    BY DEF Working
<1>1. ASSUME NEW k \in Keys, Claim(k)
      PROVE  FALSE
    BY <1>0, <1>1, ClaimEffect DEF Sending
<1>2. Run(u)
    BY <1>0, <1>1, Steps, RunEffect DEF Around, Moves
<1>3. ~GiveUp(u)
    BY <1>0, GiveUpEffect DEF EndedRun, NoAttempt, Sending
<1>4. \A step \in Stages \ Sending : ~Goto(u, step)
    BY GotoEffect
<1>5. ~CheckFrame(u) /\ ~Recheck(u) /\ ~ListFiles(u) /\ ~Upload(u) /\ ~UploadManifest(u) /\ ~PutFile(u)
    BY <1>3, <1>4 DEF CheckFrame, Recheck, ListFiles, Upload, UploadManifest, PutFile, Stages, Working,
           Sending
<1>6. ~CopyFrame(u) /\ ~CopyMask(u) /\ ~CompleteJob(u)
    <2>1. attempt[u] \in Execution
        BY DEF DatasetTyped
    <2>2. CopyFrame(u) => attempt'[u].at = "mask"
        BY <2>1 DEF CopyFrame, DatasetTyped, Execution
    <2>3. CopyMask(u) => attempt'[u].at = "recheck"
        BY <1>3, <2>1 DEF CopyMask, DatasetTyped, Execution
    <2>4. CompleteJob(u) => attempt'[u].at = "over"
        BY DEF CompleteJob, EndedRun, NoAttempt, DatasetTyped
    <2> QED BY <2>2, <2>3, <2>4 DEF Sending
<1>7. CASE Start(u)
    <2>1. Goto(u, "list") /\ target.at # "absent" /\ Reservable(attempt[u].snap) /\ target' = target
        BY <1>3, <1>4, <1>7 DEF Start, Stages, Working, Sending
    <2>2. attempt'[u].at = "list" /\ attempt'[u].files = attempt[u].files
        BY <2>1, GotoEffect DEF Stages, Working, Sending
    <2> QED BY <1>7, <2>1, <2>2 DEF Reservable
<1>8. CASE Publish(u)
    <2>1. attempt' = [attempt EXCEPT ![u] = [attempt[u] EXCEPT !.at = "list", !.frame = 0, !.mask = 0]]
        BY <1>3, <1>8 DEF Publish, StartUpload
    <2>2. attempt'[u].at = "list" /\ attempt'[u].files = attempt[u].files
        BY <2>1 DEF DatasetTyped, Execution
    <2>3. target'.snap = attempt[u].snap
        BY <1>3, <1>8 DEF Publish
    <2> QED BY <1>8, <2>2, <2>3
<1> QED BY <1>2, <1>5, <1>6, <1>7, <1>8 DEF Run

LEMMA SendingStep ==
    ASSUME DatasetTyped, RequestInv, RowInv, TokenInv, GlobalInv, ObjectInv, SendingInv,
           [DatasetNext]_datasetVars
    PROVE  SendingInv'
<1> SUFFICES ASSUME NEW u \in Tokens, attempt'[u].at \in Sending, Owns(u)', Readable'
             PROVE  target'.snap = attempt'[u].snap
    BY DEF SendingInv
<1>1. Owns(u) /\ attempt'[u].snap = attempt[u].snap
    BY OwnersKept, AttemptsStep DEF Working
<1>2. CASE attempt[u].at \notin Sending
    BY <1>1, <1>2, BeginsToSend
<1>3. CASE attempt[u].at \in Sending
    <2>1. CASE target' = target
        BY <1>1, <1>3, <2>1 DEF SendingInv, Readable
    <2>2. ASSUME NEW t \in Tokens, Published(t)
          PROVE  target'.snap = attempt'[u].snap
        <3>1. CASE global
            <4>1. attempt[t].at \in Working /\ attempt[u].at \in Working
                BY <1>3, <2>2 DEF Published, Working
            <4>2. attempt[t].snap = attempt[u].snap
                BY <3>1, <4>1 DEF GlobalInv
            <4> QED BY <1>1, <2>2, <4>2 DEF Published
        <3>2. CASE ~global
            <4>1. t = u
                BY <1>1, <2>2, <3>2, OneOwner DEF Published
            <4> QED BY <1>3, <2>2, <4>1 DEF Published, Sending
        <3> QED BY <3>1, <3>2
    <2>3. CASE Emptied
        <3>1. Readable /\ target'.snap = target.snap
            BY <2>3 DEF Emptied, Partial, EmptyTarget, Absent, Readable, DatasetTyped, Target
        <3> QED BY <1>1, <1>3, <3>1 DEF SendingInv
    <2> QED BY <2>1, <2>2, <2>3, TargetStep
<1> QED BY <1>2, <1>3

\* A file that is put in time is that of the snapshot.
LEMMA PutInTime ==
    ASSUME DatasetTyped, AttemptInv, SendingInv, ReadableInv,
           NEW t \in Tokens, PutOf(t), ~attempt'[t].late
    PROVE  LET s == attempt[t].snap IN
           /\ s \in Snapshots /\ NextFile(t) \in {"frame", "mask"}
           /\ target.frame = s.frame /\ target.mask = s.mask
<1>1. attempt[t].at = "put" /\ Readable /\ (Owns(t) \/ target.snap = attempt[t].snap)
    BY DEF PutOf
<1>2. attempt[t].snap \in Snapshots /\ NextFile(t) \in {"frame", "mask"}
    BY <1>1 DEF AttemptInv, Working, Sending, NextFile
<1>3. target.snap = attempt[t].snap
    BY <1>1 DEF SendingInv, Sending
<1> QED BY <1>1, <1>2, <1>3 DEF ReadableInv

\* A generation that got nothing too late keeps its files, or gets its own.
LEMMA FilesKept ==
    ASSUME DatasetTyped, RowInv, TokenInv, AttemptInv, ObjectInv, SendingInv, FilesInv,
           ReadableInv, [DatasetNext]_datasetVars, NEW s \in Snapshots, ~TooLate(s)'
    PROVE  /\ blob'[s].frame = blob[s].frame \/ blob'[s].frame = s.frame
           /\ blob'[s].mask = blob[s].mask \/ blob'[s].mask = s.mask
           /\ \A t \in Tokens : PutOf(t) /\ attempt[t].snap = s =>
                 /\ NextFile(t) = "frame" => blob'[s].frame = s.frame
                 /\ NextFile(t) = "mask" => blob'[s].mask = s.mask
<1> DEFINE Blob == [frame : Content, mask : Content, manifest : Snapshots \cup {None}]
<1>0. blob[s] \in Blob
    BY DEF DatasetTyped
<1>1. CASE blob' = blob /\ \A t \in Tokens : ~PutOf(t)
    BY <1>1
<1>2. ASSUME NEW t \in Tokens, PutOf(t), attempt[t].snap = s
      PROVE  /\ blob'[s].frame = blob[s].frame \/ blob'[s].frame = s.frame
             /\ blob'[s].mask = blob[s].mask \/ blob'[s].mask = s.mask
             /\ NextFile(t) = "frame" => blob'[s].frame = s.frame
             /\ NextFile(t) = "mask" => blob'[s].mask = s.mask
    <2>1. ~attempt'[t].late
        <3>1. attempt'[t].at \in Working
            BY <1>2 DEF PutOf, Working, Sending
        <3>2. attempt'[t].snap = s
            BY <1>2, <3>1, AttemptsStep
        <3> QED BY <3>2 DEF TooLate
    <2>2. NextFile(t) \in {"frame", "mask"} /\ target.frame = s.frame /\ target.mask = s.mask
        BY <1>2, <2>1, PutInTime
    <2>3. CASE NextFile(t) = "frame"
        <3>1. blob' = [blob EXCEPT ![s] = [blob[s] EXCEPT !.frame = target.frame]]
            BY <1>2, <2>3 DEF PutOf
        <3>2. blob'[s] = [blob[s] EXCEPT !.frame = target.frame]
            BY <3>1 DEF DatasetTyped
        <3> QED BY <1>0, <2>2, <2>3, <3>2
    <2>4. CASE NextFile(t) = "mask"
        <3>1. blob' = [blob EXCEPT ![s] = [blob[s] EXCEPT !.mask = target.mask]]
            BY <1>2, <2>4 DEF PutOf
        <3>2. blob'[s] = [blob[s] EXCEPT !.mask = target.mask]
            BY <3>1 DEF DatasetTyped
        <3> QED BY <1>0, <2>2, <2>4, <3>2
    <2> QED BY <2>2, <2>3, <2>4
<1>3. ASSUME NEW t \in Tokens, PutOf(t), attempt[t].snap # s
      PROVE  blob'[s] = blob[s]
    BY <1>3 DEF PutOf, DatasetTyped
<1>4. ASSUME NEW t \in Tokens, Advertised(t)
      PROVE  blob'[s].frame = blob[s].frame /\ blob'[s].mask = blob[s].mask
    <2>1. CASE attempt[t].snap = s
        <3>1. blob'[s] = [blob[s] EXCEPT !.manifest = target.snap]
            BY <1>4, <2>1 DEF Advertised, DatasetTyped
        <3> QED BY <1>0, <3>1
    <2>2. CASE attempt[t].snap # s
        BY <1>4, <2>2 DEF Advertised, DatasetTyped
    <2> QED BY <2>1, <2>2
<1> QED BY <1>1, <1>2, <1>3, <1>4, BlobStep

LEMMA FilesStep ==
    ASSUME DatasetTyped, RequestInv, RowInv, TokenInv, AttemptInv, ObjectInv, SendingInv,
           FilesInv, ReadableInv, [DatasetNext]_datasetVars
    PROVE  FilesInv'
<1> SUFFICES ASSUME NEW u \in Tokens, attempt'[u].at \in Sending,
                    ~attempt'[u].short, NEW s, s = attempt'[u].snap, ~TooLate(s)'
             PROVE  /\ "frame" \notin attempt'[u].files => blob'[s].frame = s.frame
                    /\ "mask" \notin attempt'[u].files => blob'[s].mask = s.mask
                    /\ attempt'[u].at = "manifest" => attempt'[u].files = {}
    BY DEF FilesInv, TooLate
<1>1. attempt[u].snap = s /\ attempt[u].at \in {"start"} \cup Working
    BY AttemptsStep DEF Working
<1>2. s \in Snapshots
    BY <1>1 DEF AttemptInv
<1>3. ~TooLate(s)
    BY <1>1, LateKept
<1>4. /\ blob'[s].frame = blob[s].frame \/ blob'[s].frame = s.frame
      /\ blob'[s].mask = blob[s].mask \/ blob'[s].mask = s.mask
      /\ PutOf(u) => /\ NextFile(u) = "frame" => blob'[s].frame = s.frame
                     /\ NextFile(u) = "mask" => blob'[s].mask = s.mask
    BY <1>1, <1>2, FilesKept
<1>5. attempt[u].at \in Sending /\ ~attempt[u].short =>
         /\ "frame" \notin attempt[u].files => blob[s].frame = s.frame
         /\ "mask" \notin attempt[u].files => blob[s].mask = s.mask
         /\ attempt[u].at = "manifest" => attempt[u].files = {}
    BY <1>1, <1>3 DEF FilesInv
<1>6. NextFile(u) \in {"frame", "mask"} /\ attempt[u] \in Execution
    BY DEF NextFile, DatasetTyped
<1>7. CASE attempt'[u].files = Files /\ attempt'[u].at # "manifest"
    BY <1>7 DEF Files
<1>8. CASE /\ attempt[u].at \in Sending /\ attempt'[u].files = attempt[u].files
           /\ attempt'[u].at \in {"put", attempt[u].at} /\ attempt'[u].short = attempt[u].short
    BY <1>1, <1>4, <1>5, <1>8
<1>9. CASE PutOf(u)
    <2>1. /\ attempt[u].at \in Sending /\ ~attempt[u].short
          /\ attempt'[u].files = attempt[u].files \ {NextFile(u)}
          /\ attempt'[u].at = "manifest" => attempt'[u].files = {}
        BY <1>9 DEF PutOf, Sending
    <2> QED BY <1>1, <1>4, <1>5, <1>6, <1>9, <2>1
<1>10. ASSUME attempt[u].at \in Sending
       PROVE  \/ /\ attempt'[u].files = attempt[u].files /\ attempt'[u].at \in {"put", attempt[u].at}
                 /\ attempt'[u].short = attempt[u].short
              \/ attempt'[u].files = Files /\ attempt'[u].at # "manifest"
              \/ PutOf(u)
    <2>0. ~GiveUp(u)
        <3>1. EndedRun(u).at = "over"
            BY DEF EndedRun, NoAttempt
        <3>2. GiveUp(u) => attempt'[u] = EndedRun(u)
            BY DEF GiveUp, DatasetTyped
        <3> QED BY <3>1, <3>2 DEF Sending
    <2>1. CASE attempt'[u] = attempt[u]
        BY <2>1
    <2>2. CASE attempt'[u] # attempt[u]
        <3>1. ASSUME NEW k \in Keys, Claim(k)
              PROVE  FALSE
            BY <1>10, <2>2, <3>1, ClaimEffect DEF NoAttempt, Sending
        <3>2. Run(u)
            BY <2>2, <3>1, Steps, RunEffect DEF Around, Moves
        <3>3. ListFiles(u) \/ Upload(u) \/ PutFile(u) \/ UploadManifest(u)
            BY <1>10, <3>2 DEF Run, Start, CheckFrame, CopyFrame, CopyMask, Recheck, Publish,
                   CompleteJob, Sending
        <3>4. CASE Upload(u)
            <4>1. Goto(u, "put")
                BY <2>0, <3>4 DEF Upload
            <4> QED BY <4>1, GotoEffect DEF Stages, Working, Sending
        <3>5. CASE PutFile(u)
            BY <2>0, <3>5, PutEffect
        <3>6. CASE UploadManifest(u)
            <4>1. attempt'[u].at = "complete"
                BY <2>0, <3>6, ManifestEffect DEF Advertised
            <4> QED BY <4>1 DEF Sending
        <3>7. CASE ListFiles(u)
            <4>2. PICK files \in SUBSET Files : Listed(u, files)
                BY <2>0, <3>7, ListEffect
            <4> QED BY <4>2 DEF Listed, Files
        <3> QED BY <3>3, <3>4, <3>5, <3>6, <3>7
    <2> QED BY <2>1, <2>2
<1>11. CASE attempt[u].at \notin Sending
    <2>1. (Start(u) \/ Publish(u)) /\ attempt'[u].at = "list" /\ attempt'[u].files = attempt[u].files
        BY <1>11, BeginsToSend
    <2>2. attempt[u].files = Files
        BY <2>1 DEF AttemptInv, Start, Publish
    <2> QED BY <1>7, <2>1, <2>2
<1> QED BY <1>7, <1>8, <1>9, <1>10, <1>11

LEMMA ReadableStep ==
    ASSUME DatasetTyped, AttemptInv, GlobalInv, ReadableInv, [DatasetNext]_datasetVars
    PROVE  ReadableInv'
<1>1. CASE target' = target
    BY <1>1 DEF ReadableInv, Readable
<1>2. ASSUME NEW t \in Tokens, Publish(t), Published(t)
      PROVE  ReadableInv'
    <2>1. /\ attempt[t].frame = attempt[t].snap.frame
          /\ attempt[t].mask = attempt[t].snap.mask
        BY <1>2 DEF Published, AttemptInv
    <2> QED BY <1>2, <2>1 DEF Published, ReadableInv, Readable
<1>3. CASE target' = Partial
    <2>1. Readable' => Readable
        BY <1>3 DEF Partial, Readable, DatasetTyped, Target
    <2>2. target'.frame = target.frame /\ target'.mask = target.mask /\ target'.snap = target.snap
        BY <1>3 DEF Partial, DatasetTyped, Target
    <2> QED BY <2>1, <2>2 DEF ReadableInv
<1>4. CASE target' \in {EmptyTarget, Absent}
    BY <1>4 DEF EmptyTarget, Absent, ReadableInv, Readable
<1> QED BY <1>1, <1>2, <1>3, <1>4, TargetStep DEF Emptied

LEMMA AdvertisedStep ==
    ASSUME DatasetTyped, RequestInv, RowInv, TokenInv, AttemptInv, GlobalInv, ObjectInv,
           SendingInv, FilesInv, ReadableInv, AdvertisedIsComplete, [DatasetNext]_datasetVars
    PROVE  AdvertisedIsComplete'
<1> SUFFICES ASSUME NEW s \in Snapshots, blob'[s].manifest # None, ~TooLate(s)'
             PROVE  blob'[s] = [frame |-> s.frame, mask |-> s.mask, manifest |-> s]
    BY DEF AdvertisedIsComplete, TooLate
<1> DEFINE Blob == [frame : Content, mask : Content, manifest : Snapshots \cup {None}]
<1>0. blob[s] \in Blob /\ blob'[s] \in Blob
    BY TypedStep DEF DatasetTyped
<1>1. ~TooLate(s)
    BY LateKept
<1>2. /\ blob'[s].frame = blob[s].frame \/ blob'[s].frame = s.frame
      /\ blob'[s].mask = blob[s].mask \/ blob'[s].mask = s.mask
    BY FilesKept
<1>3. CASE blob'[s].manifest = blob[s].manifest
    <2>1. blob[s] = [frame |-> s.frame, mask |-> s.mask, manifest |-> s]
        BY <1>1, <1>3 DEF AdvertisedIsComplete
    <2>2. blob[s].frame = s.frame /\ blob[s].mask = s.mask /\ blob'[s].manifest = s
        BY <1>3, <2>1
    <2> QED BY <1>0, <1>2, <2>2
<1>4. ASSUME NEW t \in Tokens, Advertised(t), attempt[t].snap = s
      PROVE  blob'[s] = [frame |-> s.frame, mask |-> s.mask, manifest |-> s]
    <2>1. /\ attempt[t].at \in Sending /\ attempt[t].at = "manifest"
          /\ Owns(t) /\ Readable
        BY <1>4 DEF Advertised, Sending
    <2>2. target.snap = s
        BY <1>4, <2>1 DEF SendingInv
    <2>5. ~attempt[t].short
        BY <1>4 DEF Advertised, TooLate
    <2>3. blob[s].frame = s.frame /\ blob[s].mask = s.mask
        BY <1>1, <1>4, <2>1, <2>5 DEF FilesInv
    <2>4. blob'[s] = [blob[s] EXCEPT !.manifest = s]
        BY <1>4, <2>2 DEF Advertised, DatasetTyped
    <2> QED BY <1>0, <2>3, <2>4
<1>5. ASSUME NEW t \in Tokens, Advertised(t), attempt[t].snap # s
      PROVE  blob'[s].manifest = blob[s].manifest
    BY <1>5 DEF Advertised, DatasetTyped
<1>6. ASSUME NEW t \in Tokens, PutOf(t)
      PROVE  blob'[s].manifest = blob[s].manifest
    <2>1. CASE attempt[t].snap # s
        BY <1>6, <2>1 DEF PutOf, DatasetTyped
    <2>2. CASE attempt[t].snap = s /\ NextFile(t) = "frame"
        <3>1. blob'[s] = [blob[s] EXCEPT !.frame = target.frame]
            BY <1>6, <2>2 DEF PutOf, DatasetTyped
        <3> QED BY <1>0, <3>1
    <2>3. CASE attempt[t].snap = s /\ NextFile(t) = "mask"
        <3>1. blob'[s] = [blob[s] EXCEPT !.mask = target.mask]
            BY <1>6, <2>3 DEF PutOf, DatasetTyped
        <3> QED BY <1>0, <3>1
    <2>4. NextFile(t) \in {"frame", "mask"}
        BY DEF NextFile
    <2> QED BY <2>1, <2>2, <2>3, <2>4
<1> QED BY <1>3, <1>4, <1>5, <1>6, BlobStep

-----------------------------------------------------------------------------
(* The theorems *)

LEMMA InitInv ==
    ASSUME DatasetInit
    PROVE  DatasetInv
<1> USE DatasetAssumption DEF DatasetInit
<1>1. /\ FirstSnapshot \in Snapshots /\ NameKey \in Keys /\ NameKey \notin Snapshots
      /\ 1 \in Versions /\ 0 \in Content /\ 1 \in Content
    BY DEF FirstSnapshot, Snapshots, Versions, NameKey, Keys, Content
<1>2. NoAttempt \in Execution
    BY <1>1 DEF NoAttempt, Execution, Stages
<1>3. rows \in [Keys -> Row]
    BY <1>1 DEF NoRow, Row, States
<1>4. target \in Target
    BY <1>1 DEF Absent, Target
<1>5. blob \in [Snapshots -> [frame : Content, mask : Content, manifest : Snapshots \cup {None}]]
    BY <1>1 DEF NoBlob
<1>6. DatasetTyped
    <2>1. source \in [{"frame", "mask"} -> Versions]
        BY <1>1 DEF FirstSnapshot
    <2>2. tokens \in 0..MaxTokens
        OBVIOUS
    <2>3. attempt \in [Tokens -> Execution]
        BY <1>2
    <2>4. /\ global \in BOOLEAN /\ reservation \in Snapshots \cup {None}
          /\ deletion \in {"none", "files", "directory", "release"}
        BY <1>1
    <2> QED BY <1>3, <1>4, <1>5, <2>1, <2>2, <2>3, <2>4 DEF DatasetTyped
<1>7. RequestInv /\ TokenInv
    BY DEF RequestInv, TokenInv
<1>8. RowInv
    BY DEF RowInv, NoRow
<1>9. \A t \in Tokens : attempt[t] = NoAttempt
    OBVIOUS
<1>10. AttemptInv /\ SendingInv /\ FilesInv
    BY <1>9 DEF NoAttempt, AttemptInv, SendingInv, FilesInv, Working, Sending
<1>11. GlobalInv
    BY <1>9 DEF NoAttempt, GlobalInv, Working, Sending, Absent
<1>12. ObjectInv
    BY <1>9 DEF NoAttempt, ObjectInv, NoRow
<1>13. ReadableInv
    BY DEF ReadableInv, Readable, Absent, FirstSnapshot
<1>14. AdvertisedIsComplete
    BY DEF AdvertisedIsComplete, NoBlob, FirstSnapshot
<1> QED BY <1>6, <1>7, <1>8, <1>10, <1>11, <1>12, <1>13, <1>14 DEF DatasetInv

LEMMA StepInv ==
    ASSUME DatasetInv, [DatasetNext]_datasetVars
    PROVE  DatasetInv'
BY TypedStep, RequestStep, RowsStep, AttemptsStep, AttemptStep, GlobalStep, ObjectStep, SendingStep,
   FilesStep, ReadableStep, AdvertisedStep DEF DatasetInv

LEMMA Invariance == DatasetSpec => []DatasetInv
<1>1. DatasetInit => DatasetInv
    BY InitInv
<1>2. DatasetInv /\ [DatasetNext]_datasetVars => DatasetInv'
    BY StepInv
<1> QED BY <1>1, <1>2, PTL DEF DatasetSpec

(***************************************************************************)
(* Rows, leases and deletions stay in the states that the code knows.      *)
(***************************************************************************)
THEOREM DatasetsAreTyped == DatasetSpec => []DatasetTypeOK
<1>1. DatasetInv => DatasetTypeOK
    BY DEF DatasetInv, DatasetTyped, DatasetTypeOK, Row, States, Target
<1> QED BY <1>1, Invariance, PTL

(***************************************************************************)
(* A dataset in its directory is what its snapshot froze, although the     *)
(* sources change while it is copied and its attempts overlap: the frame   *)
(* is looked at before and after the copy, the bytes of a mask are those   *)
(* whose checksum was taken (export_snapshot_atomic of dataset.py and      *)
(* multiclass_dataset.py).                                                 *)
(***************************************************************************)
THEOREM DatasetIsItsSnapshot == DatasetSpec => []DatasetSound
<1>1. DatasetInv => PublishedIsSnapshot
    BY DEF DatasetInv, ReadableInv, Readable, PublishedIsSnapshot
<1> QED BY <1>1, Invariance, DatasetsAreTyped, PTL DEF DatasetSound

(***************************************************************************)
(* An advertised generation has all its files, and they are those of its   *)
(* snapshot, unless an execution put a file of another dataset after its   *)
(* lease was lost, or the manifest after it listed the files while they    *)
(* were being deleted (run_dataset_export, run_global_dataset_export of    *)
(* worker.py).                                                             *)
(***************************************************************************)
THEOREM ManifestsAreComplete == DatasetSpec => []AdvertisedIsComplete
<1>1. DatasetInv => AdvertisedIsComplete
    BY DEF DatasetInv
<1> QED BY <1>1, Invariance, PTL
=============================================================================
