--------------------------- MODULE MCSam3Publish ---------------------------
(***************************************************************************)
(* What SAM3 publishes: one video, its rows, one API process and one GPU   *)
(* worker; and the stage the library derives from what was published.      *)
(* Sam3Publish has the steps of one publication, PipelineState the         *)
(* documents many of them leave behind, so one of the two runs in a        *)
(* behaviour.  The stage is derived with two revisions of one segment, and *)
(* with two segments in the same generation.                               *)
(***************************************************************************)
EXTENDS Sam3Publish, TLC
CONSTANTS c1, c2, g1, g2, None,
  Parts   \* which of the three a run explores

VARIABLES part, annotation, files, job, overrides, certifying

OneSegment  == INSTANCE PipelineState WITH entry <- annotation, Segments <- {g1},
                 MaxRevision <- 2, MaxOverrides <- 1, MaxJobs <- 1, MaxReviews <- 1
TwoSegments == INSTANCE PipelineState WITH entry <- annotation, Segments <- {g1, g2},
                 MaxRevision <- 1, MaxOverrides <- 0, MaxJobs <- 1, MaxReviews <- 1

\* What the proofs of PipelineState ask of its constants.
ASSUME StageParameters == OneSegment!Parameters /\ TwoSegments!Parameters

stageState == <<annotation, files, job, overrides, certifying>>

\* Runs of an earlier version that are damaged or unfinished come with two segments.
SoundBefore ==
  LET before == files["legacy"].segments
  IN  before.run[g1] \in {"absent", "full"} /\ before.intact[g1]

MCInit ==
  /\ part \in Parts /\ Init
  /\ \/ part = "publish"  /\ OneSegment!Init /\ annotation.status = "pending"
     \/ part = "revision" /\ OneSegment!Init /\ SoundBefore
     \/ part = "segments" /\ TwoSegments!Init

MCNext ==
  \/ part = "publish"  /\ Next             /\ UNCHANGED <<part, stageState>>
  \/ part = "revision" /\ OneSegment!Next  /\ UNCHANGED <<part, vars>>
  \/ part = "segments" /\ TwoSegments!Next /\ UNCHANGED <<part, vars>>

MCSpec == MCInit /\ [][MCNext]_<<part, vars, stageState>>

Symmetric == Permutations({g1, g2})

\* PipelineState: what the library shows as completed was earned.
StagesSound ==
  /\ part = "revision" => OneSegment!StagesSound
  /\ part = "segments" => TwoSegments!StagesSound

\* PipelineState: what goes into a dataset is shown as completed.
EligibleIsCompleted == part = "revision" => OneSegment!EligibleIsCompleted
=============================================================================
