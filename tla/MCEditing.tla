----------------------------- MODULE MCEditing -----------------------------
(***************************************************************************)
(* What people edit: the annotation entries of two videos, and the masks   *)
(* of a segment.  They are kept in different documents under different     *)
(* locks, so one of the two runs in a behaviour.  The masks are reviewed   *)
(* once on one frame while SAM3 publishes again, and once on two frames of *)
(* one publication.                                                        *)
(***************************************************************************)
EXTENDS Triage, TLC
CONSTANTS f1, f2, Objs

VARIABLES part, version, runs, reviews, images, index, sent, failures, page, save, syncs

OneFrame  == INSTANCE MaskReview
               WITH Frames <- {f1}, MaxVersions <- 2, MaxFailures <- 1, saves <- sent
TwoFrames == INSTANCE MaskReview
               WITH Frames <- {f1, f2}, MaxVersions <- 1, MaxFailures <- 1, saves <- sent

\* What the proofs of MaskReview ask of its constants.
ASSUME ReviewParameters == OneFrame!Parameters /\ TwoFrames!Parameters

reviewState == <<version, runs, reviews, images, index, sent, failures, page, save, syncs>>

MCInit ==
  /\ Init
  /\ \/ part = "triage"  /\ OneFrame!Init
     \/ part = "version" /\ OneFrame!Init
     \/ part = "frames"  /\ TwoFrames!Init
  /\ part # "triage" => durable /\ disk = [v \in Videos |-> NoEntry]

MCNext ==
  \/ part = "triage"  /\ Next           /\ UNCHANGED <<part, reviewState>>
  \/ part = "version" /\ OneFrame!Next  /\ UNCHANGED <<part, vars>>
  \/ part = "frames"  /\ TwoFrames!Next /\ UNCHANGED <<part, vars>>

MCSpec == MCInit /\ [][MCNext]_<<part, vars, reviewState>>

Symmetric == Permutations(Tabs) \cup Permutations(Videos)

\* MaskReview: revisions stand on what their author saw, and keep their masks.
RevisionsSound ==
  /\ part = "version" => OneFrame!RevisionsSound
  /\ part = "frames"  => TwoFrames!RevisionsSound

\* MaskReview: the index has no revision that was not committed.
IndexedIsCommitted ==
  /\ part = "version" => OneFrame!IndexedIsCommitted
  /\ part = "frames"  => TwoFrames!IndexedIsCommitted

\* MaskReview: the index of a run has revisions confirmed for its masks.
IndexedWasReviewed == part = "version" => OneFrame!IndexedWasReviewed
=============================================================================
