--------------------------- MODULE ExportPublish ---------------------------
(***************************************************************************)
(* The frames exported for one video, in the directory the SAM3 worker     *)
(* reads them from: publish_staged_export with its journal and recovery    *)
(* (server/export.py), the attempts of the worker that call it             *)
(* (run_video_export, run_video_export_cleanup), and the annotation entry  *)
(* that fences them (routers/annotations.py, video_export_completion.py).  *)
(*                                                                         *)
(* Renames, the journal write and the marker write are one step each, made *)
(* in the order of the code; between any two the process may die, and at   *)
(* any of them the file system may answer with an error.  A directory maps *)
(* segment names to the attempt that produced the frames, 0 when the       *)
(* segment is not there.  All of this runs under the video's advisory lock *)
(* and the lock file of the root, so one process is inside at a time.      *)
(***************************************************************************)
EXTENDS Naturals, FiniteSets

CONSTANTS
  Segment,       \* segment names, in the order of the intervals
  MaxRevision,   \* bound: annotation revisions
  SegmentsOf,    \* the intervals of each revision
  MaxAttempts,   \* bound: export attempts, of any job
  MaxCrashes,    \* bound: processes that die while they publish or recover
  MaxIoErrors    \* bound: file system errors

ASSUME ExportAssumption ==
  /\ IsFiniteSet(Segment) /\ Segment \subseteq Nat
  /\ MaxRevision \in Nat \ {0} /\ MaxAttempts \in Nat
  /\ SegmentsOf \in [1..MaxRevision -> (SUBSET Segment) \ {{}}]
  /\ MaxCrashes \in Nat /\ MaxIoErrors \in Nat

VARIABLES
  root, rootExists,   \* the published segments, and their directory
  owner,              \* revision in the ownership marker, 0 without marker
  trash,              \* .replace-*.trash of the journalled transaction
  staging,            \* .export-*.part of each attempt
  journal,            \* the pending transaction, if any
  rubbish,            \* .cleanup-*.trash
  revision, noBoom, exported, completed, cleanup,  \* the annotation entry
  phase, forRevision, \* of each attempt
  pc, holder, todo, moved, failing,  \* the process inside the lock
  crashes, ioErrors,  \* counters of the bounds
  cleaned             \* history: whether a cleanup has begun

disk       == <<root, rootExists, owner, trash, staging, journal, rubbish>>
annotation == <<revision, noBoom, exported, completed, cleanup>>
attempts   == <<phase, forRevision>>
inside     == <<pc, holder, todo, moved, failing>>
bounds     == <<crashes, ioErrors, cleaned>>
vars       == <<root, rootExists, owner, trash, staging, journal, rubbish,
                revision, noBoom, exported, completed, cleanup,
                phase, forRevision, pc, holder, todo, moved, failing,
                crashes, ioErrors, cleaned>>

Attempt  == 1..MaxAttempts
Revision == 1..MaxRevision
Empty    == [n \in Segment |-> 0]
NoJournal == [attempt |-> 0]

In(dir)  == {n \in Segment : dir[n] # 0}
First(S) == CHOOSE n \in S : \A m \in S : n <= m

Pending   == journal # NoJournal
NewNames  == journal.new
OldNames  == journal.old
Staged    == staging[journal.attempt]

Put(dir, n, gen) == [dir EXCEPT ![n] = gen]
PutStaged(n, gen) == [staging EXCEPT ![journal.attempt][n] = gen]

\* Faulty: the marker alone is taken for the whole publication.
CompleteByMarker == rootExists /\ owner = journal.owner

\* _published_transaction_is_complete: the marker is the commit point.
Complete == rootExists /\ owner = journal.owner /\ In(root) = NewNames

-----------------------------------------------------------------------------
(* Entering and leaving the lock *)

\* The attempt has returned or raised: its finally removes its staging.
Ended(a, outcome) ==
  /\ phase' = IF a = 0 THEN phase ELSE [phase EXCEPT ![a] = outcome]
  /\ staging' = IF a = 0 THEN staging ELSE [staging EXCEPT ![a] = Empty]
  /\ UNCHANGED forRevision

Unlock ==
  /\ pc' = "free" /\ holder' = 0 /\ todo' = {} /\ moved' = {} /\ failing' = FALSE

\* export_root_for, from a request, a completion or a starting worker.
OpenRoot ==
  /\ pc = "free"
  /\ pc' = "opened" /\ holder' = 0
  /\ UNCHANGED <<disk, annotation, attempts, todo, moved, failing, bounds>>

\* run_video_export: the root was opened, FFmpeg ran into a staging of its own.
StartAttempt(a) ==
  /\ pc = "free" /\ ~Pending
  /\ phase[a] = "none" /\ \A b \in 1..(a - 1) : phase[b] # "none"
  /\ ~noBoom
  /\ phase' = [phase EXCEPT ![a] = "staged"]
  /\ forRevision' = [forRevision EXCEPT ![a] = revision]
  /\ staging' = [staging EXCEPT ![a] =
                   [n \in Segment |-> IF n \in SegmentsOf[revision] THEN a ELSE 0]]
  /\ UNCHANGED <<root, rootExists, owner, trash, journal, rubbish, annotation,
                 inside, bounds>>

\* The fence on the annotation, read again under the lock.
BeginPublish(a) ==
  /\ pc = "free" /\ phase[a] = "staged"
  /\ IF forRevision[a] = revision /\ ~noBoom
     THEN /\ pc' = "opened" /\ holder' = a
          /\ UNCHANGED <<phase, forRevision, staging, todo, moved, failing>>
     ELSE Ended(a, "stale") /\ UNCHANGED inside
  /\ UNCHANGED <<root, rootExists, owner, trash, journal, rubbish, annotation, bounds>>

-----------------------------------------------------------------------------
(* _recover_publish_locked *)

\* What comes after a recovery that returned `result`: an opener leaves, a
\* publisher goes on, and one whose renames had failed returns or raises.
Recovered(result) ==
  IF holder # 0 /\ ~failing
  THEN /\ pc' = "writing" /\ UNCHANGED <<phase, forRevision, staging, holder, todo, moved, failing>>
  ELSE /\ Ended(holder, IF result = "committed" THEN "published" ELSE "failed")
       /\ Unlock

Recover ==
  /\ pc = "opened"
  /\ \/ /\ ~Pending
        /\ Recovered("none")
        /\ UNCHANGED journal
     \/ /\ Pending /\ Complete
        /\ journal' = NoJournal
        /\ Recovered("committed")
     \/ /\ Pending /\ ~Complete
        /\ pc' = "restoring" /\ todo' = NewNames \cup OldNames
        /\ UNCHANGED <<journal, attempts, staging, holder, moved, failing>>
  /\ UNCHANGED <<root, rootExists, owner, trash, rubbish, annotation, bounds>>

\* Faulty: restores in the opposite order of the publication.
NextNameFromTheEnd ==
  LET S == IF todo \cap NewNames # {} THEN todo \cap NewNames ELSE todo
  IN  CHOOSE n \in S : \A m \in S : m <= n

\* The loop over the new segments, then that over the old ones.
NextName == IF todo \cap NewNames # {} THEN First(todo \cap NewNames) ELSE First(todo)

\* "irrecuperavel", "ambiguo ou ausente", "duplicado", "conflitante".
Irrecoverable(n) ==
  \/ n \in NewNames /\ trash[n] # 0 /\ (root[n] # 0 <=> Staged[n] # 0)
  \/ n \in NewNames \cap OldNames /\ trash[n] = 0 /\ (root[n] = 0 \/ Staged[n] = 0)
  \/ n \in NewNames \ OldNames /\ trash[n] = 0 /\ root[n] # 0 /\ Staged[n] # 0
  \/ n \in OldNames \ NewNames /\ (trash[n] # 0 <=> root[n] # 0)

\* A copy in the trash proves that the one in root is the newly published.
TakeBack(n) ==
  /\ n \in NewNames /\ root[n] # 0
  /\ trash[n] # 0 \/ n \notin OldNames
  /\ root' = Put(root, n, 0)
  /\ staging' = PutStaged(n, root[n])
  /\ UNCHANGED <<trash, todo>>

PutBack(n) ==
  /\ trash[n] # 0 /\ root[n] = 0
  /\ root' = Put(root, n, trash[n])
  /\ trash' = Put(trash, n, 0)
  /\ todo' = todo \ {n}
  /\ UNCHANGED staging

LeaveThere(n) ==
  /\ trash[n] = 0
  /\ root[n] = 0 \/ n \in OldNames
  /\ todo' = todo \ {n}
  /\ UNCHANGED <<root, trash, staging>>

RestoreSegment ==
  /\ pc = "restoring" /\ todo # {}
  /\ ~Irrecoverable(NextName)
  /\ TakeBack(NextName) \/ PutBack(NextName) \/ LeaveThere(NextName)
  /\ UNCHANGED <<rootExists, owner, journal, rubbish, annotation, attempts,
                 pc, holder, moved, failing, bounds>>

RestoreMarker ==
  /\ pc = "restoring" /\ todo = {}
  /\ owner' = journal.previousOwner
  /\ pc' = "restored"
  /\ UNCHANGED <<root, rootExists, trash, staging, journal, rubbish, annotation,
                 attempts, holder, todo, moved, failing, bounds>>

\* rmdir of a root that had to be created, then the journal goes.
EndRestore ==
  /\ pc = "restored"
  /\ rootExists' = journal.rootExisted
  /\ journal' = NoJournal
  /\ Recovered("rolled_back")
  /\ UNCHANGED <<root, owner, trash, rubbish, annotation, bounds>>

\* A ValueError of the recovery: the journal stays, the staging of the caller goes.
RecoveryRaises ==
  /\ pc = "restoring" /\ todo # {} /\ Irrecoverable(NextName)
  /\ Ended(holder, "failed") /\ Unlock
  /\ UNCHANGED <<root, rootExists, owner, trash, journal, rubbish, annotation, bounds>>

-----------------------------------------------------------------------------
(* publish_staged_export *)

\* The refusal of a root without marker, like that of an incomplete publication
\* in ClearJournal, has no step: reached, it would show as a deadlock.
WriteJournal ==
  /\ pc = "writing"
  /\ rootExists => owner # 0
  /\ journal' = [attempt |-> holder, owner |-> forRevision[holder],
                 new |-> In(staging[holder]), old |-> In(root),
                 previousOwner |-> owner, rootExisted |-> rootExists]
  /\ trash' = Empty
  /\ pc' = "making"
  /\ UNCHANGED <<root, rootExists, owner, staging, rubbish, annotation, attempts,
                 holder, todo, moved, failing, bounds>>

MakeDirectories ==
  /\ pc = "making"
  /\ rootExists' = TRUE
  /\ pc' = "retiring" /\ todo' = OldNames
  /\ UNCHANGED <<root, owner, trash, staging, journal, rubbish, annotation,
                 attempts, holder, moved, failing, bounds>>

RetireSegment ==
  /\ pc = "retiring"
  /\ IF todo # {}
     THEN LET n == First(todo)
          IN  /\ trash' = Put(trash, n, root[n]) /\ root' = Put(root, n, 0)
              /\ todo' = todo \ {n} /\ UNCHANGED pc
     ELSE pc' = "installing" /\ todo' = NewNames /\ UNCHANGED <<root, trash>>
  /\ UNCHANGED <<rootExists, owner, staging, journal, rubbish, annotation,
                 attempts, holder, moved, failing, bounds>>

InstallSegment ==
  /\ pc = "installing"
  /\ IF todo # {}
     THEN LET n == First(todo)
          IN  /\ root' = Put(root, n, Staged[n]) /\ staging' = PutStaged(n, 0)
              /\ todo' = todo \ {n} /\ UNCHANGED pc
     ELSE pc' = "marking" /\ UNCHANGED <<root, staging, todo>>
  /\ UNCHANGED <<rootExists, owner, trash, journal, rubbish, annotation, attempts,
                 holder, moved, failing, bounds>>

Mark ==
  /\ pc = "marking"
  /\ owner' = journal.owner
  /\ pc' = "clearing"
  /\ UNCHANGED <<root, rootExists, trash, staging, journal, rubbish, annotation,
                 attempts, holder, todo, moved, failing, bounds>>

\* A journal that cannot be unlinked is only logged; the caller removes the trash.
ClearJournal ==
  /\ pc = "clearing" /\ Complete
  /\ \/ journal' = NoJournal /\ UNCHANGED ioErrors
     \/ UNCHANGED journal /\ ioErrors < MaxIoErrors /\ ioErrors' = ioErrors + 1
  /\ trash' = Empty
  /\ Ended(holder, "published") /\ Unlock
  /\ UNCHANGED <<root, rootExists, owner, rubbish, annotation, crashes, cleaned>>

-----------------------------------------------------------------------------
(* Failures *)

IoError == ioErrors < MaxIoErrors /\ ioErrors' = ioErrors + 1

\* Faulty: raises without recovering first.
PublishRaises ==
  /\ pc \in {"making", "retiring", "installing", "marking", "clearing"}
  /\ IoError
  /\ Ended(holder, "failed") /\ Unlock
  /\ UNCHANGED <<root, rootExists, owner, trash, journal, rubbish, annotation, crashes, cleaned>>

\* An exception in the publication: recover at once, then return or raise.
PublishFails ==
  /\ pc \in {"making", "retiring", "installing", "marking", "clearing"}
  /\ IoError
  /\ pc' = "opened" /\ todo' = {} /\ failing' = TRUE
  /\ UNCHANGED <<disk, annotation, attempts, holder, moved, crashes, cleaned>>

\* An exception in the recovery, or before the journal was written.
RecoveryFails ==
  /\ pc \in {"opened", "restoring", "restored", "writing"}
  /\ IoError
  /\ Ended(holder, "failed") /\ Unlock
  /\ UNCHANGED <<root, rootExists, owner, trash, journal, rubbish, annotation, crashes, cleaned>>

\* The process is killed: nothing is undone and no finally runs.
Crash ==
  /\ pc # "free"
  /\ crashes < MaxCrashes /\ crashes' = crashes + 1
  /\ phase' = IF holder = 0 THEN phase ELSE [phase EXCEPT ![holder] = "crashed"]
  /\ Unlock
  /\ UNCHANGED <<disk, annotation, forRevision, ioErrors, cleaned>>

-----------------------------------------------------------------------------
(* The annotation entry *)

\* Faulty: one revision beyond the last.
SaveOnceMore ==
  /\ pc = "free" /\ revision <= MaxRevision
  /\ revision' = revision + 1
  /\ noBoom' = FALSE /\ completed' = 0 /\ cleanup' = 0
  /\ UNCHANGED <<disk, exported, attempts, inside, bounds>>

\* put_one: a new revision, without completion record; `export` is kept.
Save ==
  /\ pc = "free" /\ revision < MaxRevision
  /\ revision' = revision + 1
  /\ noBoom' = FALSE /\ completed' = 0 /\ cleanup' = 0
  /\ UNCHANGED <<disk, exported, attempts, inside, bounds>>

\* mark_no_object: cleanup keeps the revision of the export to be removed.
MarkNoObject ==
  /\ pc = "free" /\ revision < MaxRevision /\ ~noBoom
  /\ revision' = revision + 1
  /\ noBoom' = TRUE /\ exported' = 0 /\ cleanup' = exported
  /\ UNCHANGED <<disk, completed, attempts, inside, bounds>>

\* Faulty: does not compare the revision of the annotation.
CompleteOldExport(a) ==
  /\ pc = "free" /\ ~Pending
  /\ phase[a] = "published"
  /\ rootExists /\ owner = forRevision[a] /\ ~noBoom
  /\ exported' = revision /\ completed' = revision
  /\ phase' = [phase EXCEPT ![a] = "reported"]
  /\ UNCHANGED <<disk, revision, noBoom, cleanup, forRevision, inside, bounds>>

\* finalize_video_export; export_root_for left no journal behind.
CompleteExport(a) ==
  /\ pc = "free" /\ ~Pending
  /\ phase[a] = "published"
  /\ rootExists /\ owner = forRevision[a]
  /\ forRevision[a] = revision /\ ~noBoom
  /\ SegmentsOf[revision] \subseteq In(root)
  /\ exported' = revision /\ completed' = revision
  /\ phase' = [phase EXCEPT ![a] = "reported"]
  /\ UNCHANGED <<disk, revision, noBoom, cleanup, forRevision, inside, bounds>>

\* run_video_export_cleanup, which does not open the root through the journal.
BeginCleanup ==
  /\ pc = "free"
  /\ noBoom /\ cleanup # 0
  /\ rootExists /\ owner = cleanup
  /\ In(root) \cap In(rubbish) = {}
  /\ pc' = "cleaning" /\ holder' = 0 /\ todo' = In(root)
  /\ cleaned' = TRUE
  /\ UNCHANGED <<disk, annotation, attempts, moved, failing, crashes, ioErrors>>

CleanSegment ==
  /\ pc = "cleaning"
  /\ IF todo # {}
     THEN LET n == First(todo)
          IN  /\ rubbish' = Put(rubbish, n, root[n]) /\ root' = Put(root, n, 0)
              /\ todo' = todo \ {n} /\ moved' = moved \cup {n}
              /\ UNCHANGED <<pc, holder, failing>>
     ELSE rubbish' = Empty /\ Unlock /\ UNCHANGED root
  /\ UNCHANGED <<rootExists, owner, trash, staging, journal, annotation, attempts, bounds>>

\* What this run had moved goes back, as far as those renames succeed and the
\* process lives.
CleanupFails ==
  /\ pc = "cleaning"
  /\ IoError
  /\ \E back \in SUBSET moved :
       /\ root' = [n \in Segment |-> IF n \in back THEN rubbish[n] ELSE root[n]]
       /\ rubbish' = [n \in Segment |-> IF n \in back THEN 0 ELSE rubbish[n]]
  /\ Unlock
  /\ UNCHANGED <<rootExists, owner, trash, staging, journal, annotation, attempts, crashes, cleaned>>

-----------------------------------------------------------------------------

Init ==
  /\ root = Empty /\ rootExists = FALSE /\ owner = 0
  /\ trash = Empty /\ staging = [a \in Attempt |-> Empty]
  /\ journal = NoJournal /\ rubbish = Empty
  /\ revision = 1 /\ noBoom = FALSE /\ exported = 0 /\ completed = 0 /\ cleanup = 0
  /\ phase = [a \in Attempt |-> "none"] /\ forRevision = [a \in Attempt |-> 0]
  /\ pc = "free" /\ holder = 0 /\ todo = {} /\ moved = {} /\ failing = FALSE
  /\ crashes = 0 /\ ioErrors = 0 /\ cleaned = FALSE

Recovery == Recover \/ RestoreSegment \/ RestoreMarker \/ EndRestore \/ RecoveryRaises

Publication ==
  WriteJournal \/ MakeDirectories \/ RetireSegment \/ InstallSegment \/ Mark \/ ClearJournal

Cleanup == BeginCleanup \/ CleanSegment \/ CleanupFails

Next ==
  \/ OpenRoot \/ Recovery \/ Publication
  \/ PublishFails \/ RecoveryFails \/ Crash
  \/ Save \/ MarkNoObject \/ Cleanup
  \/ \E a \in Attempt : StartAttempt(a) \/ BeginPublish(a) \/ CompleteExport(a)

Spec == Init /\ [][Next]_vars

-----------------------------------------------------------------------------
(* Properties *)

Dir == [Segment -> 0..MaxAttempts]

\* The state is made of directories, markers and revisions.
TypeOK ==
  /\ root \in Dir /\ trash \in Dir /\ rubbish \in Dir
  /\ staging \in [Attempt -> Dir]
  /\ rootExists \in BOOLEAN /\ owner \in 0..MaxRevision
  /\ Pending => journal \in [attempt: Attempt, owner: Revision, new: SUBSET Segment,
                             old: SUBSET Segment, previousOwner: 0..MaxRevision,
                             rootExisted: BOOLEAN]
  /\ revision \in Revision /\ noBoom \in BOOLEAN
  /\ {exported, completed, cleanup} \subseteq 0..MaxRevision
  /\ phase \in [Attempt -> {"none", "staged", "stale", "published", "failed",
                            "crashed", "reported"}]
  /\ forRevision \in [Attempt -> 0..MaxRevision]
  /\ pc \in {"free", "opened", "restoring", "restored", "writing", "making", "retiring",
             "installing", "marking", "clearing", "cleaning"}
  /\ holder \in 0..MaxAttempts /\ todo \subseteq Segment /\ moved \subseteq Segment /\ failing \in BOOLEAN
  /\ cleaned \in BOOLEAN

\* The directory holds the frames of one attempt and all of them.
Generation(a) ==
  /\ forRevision[a] # 0
  /\ root = [n \in Segment |-> IF n \in SegmentsOf[forRevision[a]] THEN a ELSE 0]

\* Until a cleanup runs, with no transaction pending the root is the whole output of one attempt, for
\* the revision its marker names, or is not there at all: never a mixture of two
\* attempts, whatever crashed and was recovered before.
WholeGeneration ==
  ~Pending /\ ~cleaned =>
    IF rootExists THEN \E a \in Attempt : Generation(a) /\ owner = forRevision[a]
                  ELSE root = Empty /\ owner = 0

\* What a reader that recovers first would find: the content of root once the
\* transaction is committed, what it was before as long as it is not.
Shown ==
  IF Pending /\ ~Complete
  THEN [n \in Segment |-> IF trash[n] # 0 THEN trash[n]
                          ELSE IF n \in OldNames THEN root[n] ELSE 0]
  ELSE root

\* That content changes in a single step, the commit of a publication: not by a
\* crash, an error or any part of a recovery, however often it is interrupted.
PublishIsAtomic ==
  [][Shown' # Shown /\ pc # "cleaning" =>
       /\ pc \in {"installing", "marking"}
       /\ \A n \in Segment : Shown'[n] \in {0, holder}]_vars

\* While the annotation records the export of its current revision as complete,
\* the frames of that revision are there, or will be once the root is opened.
CompletedHasFrames ==
  completed = revision /\ ~noBoom =>
    \E a \in Attempt : /\ forRevision[a] = revision
                       /\ Shown = [n \in Segment |-> IF n \in SegmentsOf[revision] THEN a ELSE 0]

\* A recovery without further errors accepts the journal.
Recoverable == ~Complete => \A n \in NewNames \cup OldNames : ~Irrecoverable(n)

\* No sequence of publications, crashes, errors and interrupted recoveries leaves a
\* journal that opening the root refuses (_recover_publish_transaction).
JournalRecoverable == Pending /\ pc = "free" /\ ~cleaned => Recoverable

\* "... export_root_for can either finish that commit or restore the previous
\* generation after a process/power failure" (publish_staged_export), whatever else
\* runs on the root in between.
JournalSurvivesCleanup == Pending /\ pc = "free" => Recoverable
=============================================================================
