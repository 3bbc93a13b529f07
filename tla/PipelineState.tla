---------------------------- MODULE PipelineState ----------------------------
(***************************************************************************)
(* The stage of a video in the pipeline (server/pipeline_state.py), which  *)
(* nothing stores: it is derived from the annotation entry, the row of the *)
(* SAM3 queue and the control documents in the directory the entry names.  *)
(* The actions are the requests that change those, in the order and under  *)
(* the video fence they have in the code; what they do besides is in       *)
(* Triage, ExportPublish, Sam3Queue, Sam3Publish and MaskReview.           *)
(*                                                                         *)
(* A document is known by what tells it from its other versions: the boxes *)
(* of a revision, the number of an override or of a review.  A segment has *)
(* one frame.                                                              *)
(***************************************************************************)
EXTENDS Naturals, FiniteSets

CONSTANTS
  Segments, None,
  MaxRevision,   \* bound: annotation revisions
  MaxOverrides,  \* bound: prompt overrides saved
  MaxJobs,       \* bound: SAM3 jobs
  MaxReviews     \* bound: reviews of a frame in one output

\* What the proofs need to know of the constants.
Parameters ==
  /\ IsFiniteSet(Segments) /\ None \notin Nat
  /\ {MaxRevision, MaxOverrides, MaxJobs, MaxReviews} \subseteq Nat

VARIABLES
  entry,       \* the annotation entry: status, revision, boxes and export
  files,       \* the control documents of each export root
  job,         \* the newest row of the video in the SAM3 queue
  overrides,   \* prompt overrides saved so far
  certifying   \* the row a batch has read to certify the review, or None

vars == <<entry, files, job, overrides, certifying>>

\* A root written before exports had owners, and the one of the video.
Roots == {"legacy", "owned"}
Statuses == {"pending", "in_progress", "done", "no_boom"}

\* run.json: none; not "done"; without the fields of today; complete.
Runs == {"absent", "unfinished", "bare", "full"}

NoPrompts == [boxes |-> None, bare |-> FALSE, of |-> 0]
NewSegments(prompts) ==
  [prompts |-> prompts, override |-> [s \in Segments |-> 0],
   run |-> [s \in Segments |-> "absent"], intact |-> [s \in Segments |-> TRUE],
   review |-> [s \in Segments |-> 0]]
NewRoot == [segments |-> NewSegments(NoPrompts), pointer |-> None, certificate |-> None]

NoJob == [id |-> 0, state |-> "none", revision |-> 0, root |-> "owned",
          made |-> None, cancel |-> FALSE]

-----------------------------------------------------------------------------
(* The documents of a root *)

Root == files[entry.export.root]

\* What sha256(prompt.json + prompt_override.json) tells apart.
Effective(root) ==
  [s \in Segments |-> <<root.segments.prompts.boxes, root.segments.override[s]>>]

\* Faulty: the override is left out of the digest.
DivergesInBoxes(root, s) ==
  root.pointer # None /\ root.pointer.made[s][1] # root.segments.prompts.boxes

\* "prompt atual diverge da geracao publicada": active_segment_output refuses the
\* segment, derive_pipeline_source notes it.
Diverges(root, s) == root.pointer # None /\ root.pointer.made[s] # Effective(root)[s]

\* A published generation is complete; without one the output of the segment counts.
Run(root, s)    == IF root.pointer # None THEN "full" ELSE root.segments.run[s]
Intact(root, s) == root.pointer # None \/ root.segments.intact[s]
Review(root, s) == IF root.pointer # None THEN root.pointer.review[s] ELSE root.segments.review[s]

OtherRevision(root) == root.pointer # None /\ root.pointer.revision # entry.revision

-----------------------------------------------------------------------------
(* The two derivations *)

\* classify_pipeline, in the order of its tests.
Classify(status, state, c) ==
  LET At(stage, as) == [stage |-> stage, status |-> as, expected |-> c.expected,
                        reviewed |-> c.reviewed, wrong |-> c.wrong,
                        validation |-> IF c.wrong THEN "invalid" ELSE c.validation]
  IN  IF status = "no_boom" THEN At("discarded", "discarded")
      ELSE IF status # "done" THEN At("triage", status)
      ELSE IF state \in {"queued", "running", "error", "cancelled"} THEN At("sam3", state)
      ELSE IF c.wrong THEN At("sam3", "invalid")
      ELSE IF c.validation = "audit_required" /\ c.expected > 0 THEN At("review", "audit_required")
      ELSE IF c.expected = 0 \/ c.validation # "manifest" THEN At("sam3", "ready")
      ELSE IF c.reviewed >= c.expected THEN At("completed", "validated")
      ELSE IF c.reviewed > 0 THEN At("review", "in_progress")
      ELSE At("review", "waiting")

Nothing == [expected |-> 0, reviewed |-> 0, wrong |-> FALSE, validation |-> "not_applicable"]

\* The loop over the segments, of which those in `refused` do not count.
Counts(root, refused, deep) ==
  LET absent   == {s \in Segments : Run(root, s) = "absent"}
      bad      == refused \cup {s \in Segments : Run(root, s) = "unfinished"}
      counted  == Segments \ (absent \cup bad)
      legacy   == root.segments.prompts.bare \/ \E s \in counted : Run(root, s) = "bare"
      read     == deep /\ absent = {} /\ bad = {} /\ counted # {}
      damaged  == read /\ \E s \in counted : ~ Intact(root, s)
  IN  [expected |-> Cardinality(counted),
       reviewed |-> Cardinality({s \in counted : Review(root, s) > 0}),
       wrong |-> bad # {} \/ damaged,
       validation |-> IF absent # {} THEN "not_applicable"
                      ELSE IF legacy /\ ~ read THEN "audit_required"
                      ELSE IF counted # {} THEN "manifest" ELSE "not_applicable"]

\* _inspect_pipeline_entry
Inspected(row, refused, deep) ==
  Classify(entry.status, row.state,
           IF entry.status # "done" \/ entry.export = None THEN Nothing
           ELSE IF OtherRevision(Root) THEN [Nothing EXCEPT !.wrong = TRUE]
           ELSE Counts(Root, refused, deep))

Refused == IF entry.export = None THEN {} ELSE {s \in Segments : Diverges(Root, s)}

\* inspect_pipeline_entry and audit_pipeline_entry; the first chooses the videos a
\* dataset of several classes may contain.
Inspect(row) == Inspected(row, Refused, FALSE)
Audit(row)   == Inspected(row, Refused, TRUE)

\* The source identity without the certificate.
Identity(row) ==
  [annotation |-> <<entry.status, entry.revision, entry.export>>,
   row |-> <<row.state, row.id, row.revision>>,
   segments |-> <<Root.segments.prompts, Root.segments.override>>,
   generation |-> IF Root.pointer = None THEN None ELSE Root.pointer.id,
   outputs |-> [s \in Segments |-> <<Run(Root, s), Review(Root, s)>>]]

Invalid ==
  /\ entry.export # None
  /\ \/ entry.export.root = "owned" /\ entry.export.revision # entry.revision
     \/ \E s \in Segments : Diverges(Root, s)

NeedsAudit ==
  \/ entry.revision = 0 /\ entry.status \in {"done", "no_boom"}
  \/ /\ entry.export # None
     /\ \/ entry.export.root = "legacy"
        \/ Root.segments.prompts.bare
        \/ Root.pointer = None /\ \E s \in Segments : Run(Root, s) # "absent"

Certified(row, snapshot) ==
  /\ entry.export # None /\ Root.certificate # None
  /\ Root.certificate = [identity |-> Identity(row), expected |-> snapshot.expected,
                         reviewed |-> snapshot.reviewed]
  /\ snapshot.expected > 0 /\ snapshot.reviewed >= snapshot.expected
  /\ ~ snapshot.wrong /\ ~ Invalid

\* derive_pipeline_source with _projection_downgrade: what the library shows.
Derive(row) ==
  LET fast == Inspected(row, {}, FALSE)
      certified == Certified(row, fast)
  IN  IF Invalid
      THEN IF fast.stage = "discarded" THEN [fast EXCEPT !.validation = "invalid"]
           ELSE [fast EXCEPT !.stage = "sam3", !.status = "invalid", !.validation = "invalid"]
      ELSE IF certified
      THEN [fast EXCEPT !.stage = "completed", !.status = "validated", !.validation = "manifest"]
      ELSE IF NeedsAudit /\ fast.validation \notin {"invalid", "not_applicable"}
      THEN [fast EXCEPT !.stage = "review", !.status = "audit_required",
                        !.validation = "audit_required"]
      ELSE fast

Completed(snapshot) == snapshot.stage = "completed"

-----------------------------------------------------------------------------
(* What changes the sources *)

\* No batch is between its commit and the end of its request.
FenceFree == certifying = None

\* PUT annotations, with what the page sends: the export of an earlier revision
\* stays in the entry.
Save(status) ==
  /\ FenceFree /\ entry.revision < MaxRevision
  /\ \E boxes \in {entry.boxes, entry.revision + 1} :
        entry' = [entry EXCEPT !.status = status, !.revision = @ + 1, !.boxes = boxes]
  /\ UNCHANGED <<files, job, overrides, certifying>>

NoObject ==
  /\ FenceFree /\ entry.revision < MaxRevision
  /\ entry' = [entry EXCEPT !.status = "no_boom", !.revision = @ + 1, !.export = None]
  /\ UNCHANGED <<files, job, overrides, certifying>>

\* publish_staged_export replaces the segments, what lies beside them stays.
PublishFrames ==
  /\ FenceFree /\ entry.status # "no_boom" /\ entry.boxes # None
  /\ files' = [files EXCEPT !["owned"].segments = NewSegments(
         [boxes |-> entry.boxes, bare |-> FALSE, of |-> entry.revision])]
  /\ UNCHANGED <<entry, job, overrides, certifying>>

CompleteExport ==
  /\ FenceFree /\ entry.status # "no_boom"
  /\ files["owned"].segments.prompts.boxes # None
  /\ files["owned"].segments.prompts.of = entry.revision
  /\ entry' = [entry EXCEPT !.status = "done",
                            !.export = [root |-> "owned", revision |-> entry.revision]]
  /\ UNCHANGED <<files, job, overrides, certifying>>

Live == job.state \in {"queued", "running"}

\* By hand or after an export; neither looks at the revision of the export.  (Which
\* row gives way to which is in Sam3Queue: here a new one follows the last.)
Enqueue ==
  /\ entry.export # None /\ ~ Live /\ job.id < MaxJobs
  /\ job' = [NoJob EXCEPT !.id = job.id + 1, !.state = "queued",
                          !.revision = entry.revision, !.root = entry.export.root]
  /\ UNCHANGED <<entry, files, overrides, certifying>>

\* The worker takes the job, again when its lease ran out, and segments what it
\* finds.
Take ==
  /\ Live /\ ~ job.cancel
  /\ job' = [job EXCEPT !.state = "running", !.made = Effective(files[job.root])]
  /\ UNCHANGED <<entry, files, overrides, certifying>>

Withdrawn == [job EXCEPT !.state = IF @ = "queued" THEN "cancelled" ELSE @,
                         !.cancel = job.state = "running"]

Cancel ==
  /\ Live /\ job' = Withdrawn
  /\ UNCHANGED <<entry, files, overrides, certifying>>

\* What the worker has made is forgotten with the job.
Settled(state) == [job EXCEPT !.state = state, !.made = None]

\* The worker reports, or its last lease runs out.
JobEnds ==
  /\ job.state = "running"
  /\ job' = Settled(IF job.cancel THEN "cancelled" ELSE "error")
  /\ UNCHANGED <<entry, files, overrides, certifying>>

Wanted == ~ job.cancel /\ entry.status # "no_boom" /\ entry.revision = job.revision

\* publish_generation, whose pointer may be in place when the process dies.
PublishGeneration ==
  /\ FenceFree /\ job.state = "running" /\ Wanted
  /\ LET root == files[job.root]
         placed == root.pointer # None /\ root.pointer.id = job.id
     IN  /\ Effective(root) = job.made
         /\ files' = [files EXCEPT ![job.root].pointer = IF placed THEN @ ELSE
               [id |-> job.id, revision |-> job.revision, made |-> job.made,
                review |-> [s \in Segments |-> 0]]]
  /\ job' \in {job, Settled("done")}
  /\ UNCHANGED <<entry, overrides, certifying>>

RefuseResult ==
  /\ FenceFree /\ job.state = "running" /\ ~ Wanted
  /\ job' = Settled("cancelled")
  /\ UNCHANGED <<entry, files, overrides, certifying>>

\* _export_root of routers/review.py, which the override asks too.
Exported == FenceFree /\ entry.export # None /\ ~ OtherRevision(Root)

OverrideSet(s, number) ==
  /\ Exported
  /\ files' = [files EXCEPT ![entry.export.root].segments.override[s] = number]
  /\ job' = IF Live THEN Withdrawn ELSE job
  /\ UNCHANGED <<entry, certifying>>

SaveOverride(s) ==
  /\ overrides < MaxOverrides /\ overrides' = overrides + 1
  /\ OverrideSet(s, overrides + 1)

ClearOverride(s) == OverrideSet(s, 0) /\ UNCHANGED overrides

-----------------------------------------------------------------------------
(* The review and its certificate *)

\* The files after n reviews of the masks of a segment.
Reviewed(s, n) ==
  [files EXCEPT ![entry.export.root] =
     IF @.pointer # None THEN [@ EXCEPT !.pointer.review[s] = n]
     ELSE [@ EXCEPT !.segments.review[s] = n]]

Reviewable(s) == Exported /\ Run(Root, s) # "absent" /\ ~ Diverges(Root, s)

\* PUT mask-review/{frame} certifies nothing.
SaveFrame(s) ==
  /\ Reviewable(s) /\ Review(Root, s) < MaxReviews
  /\ files' = Reviewed(s, Review(Root, s) + 1)
  /\ UNCHANGED <<entry, job, overrides, certifying>>

\* progress_for: segments without a run count for nothing.
ProgressComplete(root) ==
  LET there == {s \in Segments : Run(root, s) # "absent"}
  IN  there # {} /\ \A s \in there : Review(root, s) > 0

\* PUT mask-review, also with no frame at all: a complete video is certified under
\* the same fence, with the row of the queue read first.
SaveBatch(s) ==
  /\ Reviewable(s)
  /\ \E n \in {Review(Root, s), Review(Root, s) + 1} :
        /\ n <= MaxReviews
        /\ files' = Reviewed(s, n)
  /\ certifying' = IF ProgressComplete(files'[entry.export.root]) THEN job ELSE None
  /\ UNCHANGED <<entry, job, overrides>>

\* certify_completed_review
Certify ==
  /\ certifying # None
  /\ LET source  == Derive(certifying)
         audited == Audit(certifying)
         wanted  == /\ ~ Completed(source)
                    /\ source.expected > 0 /\ source.reviewed >= source.expected
                    /\ Completed(audited)
     IN  files' = IF ~ wanted THEN files ELSE
           [files EXCEPT ![entry.export.root].certificate =
              [identity |-> Identity(certifying), expected |-> audited.expected,
               reviewed |-> audited.reviewed]]
  /\ certifying' = None
  /\ UNCHANGED <<entry, job, overrides>>

\* The process ends before the certificate is in place.
CertifyFails ==
  /\ certifying # None /\ certifying' = None
  /\ UNCHANGED <<entry, files, job, overrides>>

-----------------------------------------------------------------------------

\* A new video, or one that an earlier version has exported and segmented.
Init ==
  /\ \/ /\ entry = [status |-> "pending", revision |-> 0, boxes |-> None, export |-> None]
        /\ files = [r \in Roots |-> NewRoot]
     \/ /\ entry = [status |-> "done", revision |-> 0, boxes |-> 0,
                    export |-> [root |-> "legacy", revision |-> 0]]
        /\ \E bare \in BOOLEAN, run \in [Segments -> Runs], intact \in [Segments -> BOOLEAN] :
             /\ \A s \in Segments : run[s] \in {"absent", "unfinished"} => intact[s]
             /\ files = [r \in Roots |-> IF r = "owned" THEN NewRoot ELSE
                [NewRoot EXCEPT !.segments =
                   [NewSegments([boxes |-> 0, bare |-> bare, of |-> 0])
                      EXCEPT !.run = run, !.intact = intact]]]
  /\ job = NoJob /\ overrides = 0 /\ certifying = None

\* GET videos derives every stage and changes nothing.
ListVideos == UNCHANGED vars

Next ==
  \/ ListVideos
  \/ \E status \in {"in_progress", "done"} : Save(status)
  \/ NoObject \/ PublishFrames \/ CompleteExport
  \/ Enqueue \/ Take \/ Cancel \/ JobEnds \/ PublishGeneration \/ RefuseResult
  \/ \E s \in Segments : SaveOverride(s) \/ ClearOverride(s) \/ SaveFrame(s) \/ SaveBatch(s)
  \/ Certify \/ CertifyFails

Spec == Init /\ [][Next]_vars

-----------------------------------------------------------------------------
(* Properties *)

\* Revisions, rows and numbers stay in their bounds, and a certificate is only ever
\* made with a settled row (certify_completed_review).
TypeOK ==
  /\ entry.status \in Statuses /\ entry.revision \in 0..MaxRevision
  /\ entry.boxes \in {None} \cup 0..MaxRevision
  /\ job.id \in 0..MaxJobs /\ overrides \in 0..MaxOverrides
  /\ \A r \in Roots : files[r].certificate # None =>
        files[r].certificate.identity.row[1] \in {"none", "done"}

\* A video the library shows as completed has a finished annotation and no job
\* under way or failed, and in every segment masks that are there, that somebody
\* has reviewed, and that SAM3 made from the prompt and override of now and, unless
\* its export is of the old kind, for the boxes the annotation has now
\* (derive_pipeline_source, certify_completed_review, which alone opens a mask).
CompletedIsEarned ==
  Completed(Derive(job)) =>
    /\ entry.status = "done" /\ entry.export # None
    /\ job.state \in {"none", "done"}
    /\ \A s \in Segments :
         /\ Run(Root, s) \in {"bare", "full"}
         /\ Intact(Root, s)
         /\ Review(Root, s) > 0
         /\ Root.pointer # None => Root.pointer.made[s] = Effective(Root)[s]
         /\ entry.export.root = "owned" =>
              Root.pointer # None /\ Root.pointer.made[s][1] = entry.boxes

\* The types, and what the library says of a video.
StagesSound == TypeOK /\ CompletedIsEarned

\* Refuted: a video that goes into a dataset of several classes is one the library
\* shows as completed, here of those exported with an owner (_completed_video_ids).
EligibleIsCompleted ==
  entry.export # None /\ entry.export.root = "owned" /\ Completed(Inspect(job))
    => Completed(Derive(job))
=============================================================================
