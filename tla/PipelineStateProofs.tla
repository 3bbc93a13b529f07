------------------------ MODULE PipelineStateProofs ------------------------
(***************************************************************************)
(* Proofs about PipelineState for every finite set of segments and any     *)
(* number of revisions, overrides, jobs and reviews.                       *)
(***************************************************************************)
EXTENDS PipelineState, FiniteSetTheorems, TLAPS

Boxes    == {None} \cup 0..MaxRevision
States   == {"none", "queued", "running", "done", "error", "cancelled"}
Exports  == [root : Roots, revision : 0..MaxRevision]
Prompts  == [boxes : Boxes, bare : BOOLEAN, of : 0..MaxRevision]
Made     == [Segments -> Boxes \X Nat]

Entries  == [status : Statuses, revision : 0..MaxRevision, boxes : Boxes,
             export : {None} \cup Exports]
Jobs     == [id : 0..MaxJobs, state : States, revision : 0..MaxRevision, root : Roots,
             made : {None} \cup Made, cancel : BOOLEAN]
Pointers == [id : 0..MaxJobs, revision : 0..MaxRevision, made : {None} \cup Made,
             review : [Segments -> Nat]]
Parts    == [prompts : Prompts, override : [Segments -> Nat], run : [Segments -> Runs],
             intact : [Segments -> BOOLEAN], review : [Segments -> Nat]]

\* The certificate is described by CertifiedSoundly.
RootTyped(root) ==
  /\ root = [segments |-> root.segments, pointer |-> root.pointer,
             certificate |-> root.certificate]
  /\ root.segments \in Parts
  /\ root.pointer \in {None} \cup Pointers

\* An audit found the masks of a certificate intact, and nothing damages them.
CertifiedSoundly(root) ==
  root.certificate # None =>
    LET identity == root.certificate.identity IN
    /\ identity.annotation[1] = "done" /\ identity.annotation[3] # None
    /\ identity.row[1] \in {"none", "done"}
    /\ \A s \in Segments : /\ identity.outputs[s][1] \in {"bare", "full"}
                           /\ identity.outputs[s][2] > 0
    /\ identity.generation = None => \A s \in Segments : root.segments.intact[s]

\* What lies in the root with an owner was exported for the revision it names, and
\* segmented by generations only.
OwnedInv ==
  LET segments == files["owned"].segments
      prompts == segments.prompts
  IN  /\ \A s \in Segments : segments.run[s] = "absent"
      /\ prompts.of <= entry.revision
      /\ prompts.boxes # None /\ prompts.of = entry.revision => prompts.boxes = entry.boxes
      /\ entry.export # None /\ entry.export.root = "owned" =>
           /\ entry.export.revision <= entry.revision
           /\ entry.export.revision = entry.revision =>
                prompts.boxes # None /\ prompts.of = entry.revision

FilesInv ==
  /\ files = [r \in Roots |-> files[r]]
  /\ \A r \in Roots : RootTyped(files[r]) /\ CertifiedSoundly(files[r])

PipelineInv ==
  /\ entry \in Entries
  /\ FilesInv
  /\ job \in Jobs
  /\ overrides \in 0..MaxOverrides
  /\ certifying \in {None} \cup Jobs
  /\ OwnedInv

-----------------------------------------------------------------------------
(* The stages *)

LEMMA ClassifiedCompleted ==
  ASSUME NEW status \in Statuses, NEW state, NEW c,
         Completed(Classify(status, state, c))
  PROVE  /\ status = "done"
         /\ state \notin {"queued", "running", "error", "cancelled"}
         /\ ~ c.wrong /\ c.validation = "manifest"
         /\ c.expected # 0 /\ c.reviewed >= c.expected
         /\ Classify(status, state, c).validation = "manifest"
BY DEF Completed, Classify, Statuses

LEMMA ClassifiedShape ==
  ASSUME NEW status0, NEW state, NEW c
  PROVE  \E stage, status, expected, reviewed, wrong, validation :
           Classify(status0, state, c) =
             [stage |-> stage, status |-> status, expected |-> expected,
              reviewed |-> reviewed, wrong |-> wrong, validation |-> validation]
<1> DEFINE At(stage, as) == [stage |-> stage, status |-> as, expected |-> c.expected,
                        reviewed |-> c.reviewed, wrong |-> c.wrong,
                        validation |-> IF c.wrong THEN "invalid" ELSE c.validation]
<1>1. \E stage, as : Classify(status0, state, c) = At(stage, as)
  <2> DEFINE C == Classify(status0, state, c)
  <2>1. \/ C = At("discarded", "discarded") \/ C = At("triage", status0)
        \/ C = At("sam3", state) \/ C = At("sam3", "invalid")
        \/ C = At("review", "audit_required") \/ C = At("sam3", "ready")
        \/ C = At("completed", "validated") \/ C = At("review", "in_progress")
        \/ C = At("review", "waiting")
    BY DEF Classify
  <2> HIDE DEF C, At
  <2> QED BY <2>1 DEF C
<1> QED BY <1>1

LEMMA Counted ==
  ASSUME Parameters, NEW root, NEW refused, NEW deep \in BOOLEAN,
         RootTyped(root),
         ~ Counts(root, refused, deep).wrong,
         Counts(root, refused, deep).validation = "manifest",
         Counts(root, refused, deep).expected # 0,
         Counts(root, refused, deep).reviewed >= Counts(root, refused, deep).expected
  PROVE  \A s \in Segments : /\ Run(root, s) \in {"bare", "full"}
                             /\ Review(root, s) > 0
                             /\ deep => Intact(root, s)
<1> DEFINE absent  == {s \in Segments : Run(root, s) = "absent"}
           bad     == refused \cup {s \in Segments : Run(root, s) = "unfinished"}
           counted == Segments \ (absent \cup bad)
           seen    == {s \in counted : Review(root, s) > 0}
           legacy  == root.segments.prompts.bare \/ \E s \in counted : Run(root, s) = "bare"
           read    == deep /\ absent = {} /\ bad = {} /\ counted # {}
           damaged == read /\ \E s \in counted : ~ Intact(root, s)
<1>1. /\ Counts(root, refused, deep).expected = Cardinality(counted)
      /\ Counts(root, refused, deep).reviewed = Cardinality(seen)
      /\ Counts(root, refused, deep).wrong = (bad # {} \/ damaged)
      /\ Counts(root, refused, deep).validation =
           IF absent # {} THEN "not_applicable"
           ELSE IF legacy /\ ~ read THEN "audit_required"
           ELSE IF counted # {} THEN "manifest" ELSE "not_applicable"
  BY DEF Counts
<1> HIDE DEF legacy
<1>2. absent = {} /\ bad = {} /\ counted # {} /\ ~ damaged
  BY <1>1
<1>3. counted = Segments
  BY <1>2
<1>4. IsFiniteSet(counted) /\ seen \in SUBSET counted
  BY <1>3 DEF Parameters
<1>5. Cardinality(counted) \in Nat /\ Cardinality(seen) \in Nat
      /\ Cardinality(seen) <= Cardinality(counted)
      /\ (Cardinality(counted) = Cardinality(seen) => counted = seen)
  BY <1>4, FS_Subset, FS_CardinalityType
<1>6. counted = seen
  BY <1>1, <1>5
<1>7. \A s \in Segments : Run(root, s) \in Runs
  BY DEF RootTyped, Parts, Run, Runs
<1> QED BY <1>2, <1>3, <1>6, <1>7 DEF Runs

LEMMA InspectedCompleted ==
  ASSUME Parameters, PipelineInv, NEW row, NEW refused, NEW deep \in BOOLEAN,
         Completed(Inspected(row, refused, deep))
  PROVE  /\ entry.status = "done" /\ entry.export # None
         /\ row.state \notin {"queued", "running", "error", "cancelled"}
         /\ Inspected(row, refused, deep).validation = "manifest"
         /\ \A s \in Segments : /\ Run(Root, s) \in {"bare", "full"}
                                /\ Review(Root, s) > 0
                                /\ deep => Intact(Root, s)
<1> DEFINE c == IF entry.status # "done" \/ entry.export = None THEN Nothing
                ELSE IF OtherRevision(Root) THEN [Nothing EXCEPT !.wrong = TRUE]
                ELSE Counts(Root, refused, deep)
<1>1. entry.status \in Statuses
  BY DEF PipelineInv, FilesInv, Entries
<1>2. Inspected(row, refused, deep) = Classify(entry.status, row.state, c)
  BY DEF Inspected
<1> HIDE DEF c
<1>3. /\ entry.status = "done"
      /\ row.state \notin {"queued", "running", "error", "cancelled"}
      /\ ~ c.wrong /\ c.validation = "manifest"
      /\ c.expected # 0 /\ c.reviewed >= c.expected
      /\ Inspected(row, refused, deep).validation = "manifest"
  BY <1>1, <1>2, ClassifiedCompleted
<1>4. entry.export # None /\ c = Counts(Root, refused, deep)
  BY <1>3 DEF c, Nothing
<1>5. entry.export \in Exports
  BY <1>4 DEF PipelineInv, FilesInv, Entries
<1>6. RootTyped(Root)
  BY <1>5 DEF PipelineInv, FilesInv, Root, Exports
<1>7. \A s \in Segments : /\ Run(Root, s) \in {"bare", "full"}
                          /\ Review(Root, s) > 0
                          /\ deep => Intact(Root, s)
  BY <1>3, <1>4, <1>6, Counted
<1> QED BY <1>3, <1>4, <1>7

\* Derive says "completed" of a valid certificate, or by itself of what needs none.
LEMMA DerivedCompleted ==
  ASSUME NEW row, Completed(Derive(row))
  PROVE  /\ ~ Invalid
         /\ \/ Certified(row, Inspected(row, {}, FALSE))
            \/ /\ Completed(Inspected(row, {}, FALSE))
               /\ Inspected(row, {}, FALSE).validation = "manifest" => ~ NeedsAudit
<1> DEFINE fast == Inspected(row, {}, FALSE)
           certified == Certified(row, fast)
<1>1. Derive(row) =
        IF Invalid
        THEN IF fast.stage = "discarded" THEN [fast EXCEPT !.validation = "invalid"]
             ELSE [fast EXCEPT !.stage = "sam3", !.status = "invalid", !.validation = "invalid"]
        ELSE IF certified
        THEN [fast EXCEPT !.stage = "completed", !.status = "validated", !.validation = "manifest"]
        ELSE IF NeedsAudit /\ fast.validation \notin {"invalid", "not_applicable"}
        THEN [fast EXCEPT !.stage = "review", !.status = "audit_required",
                          !.validation = "audit_required"]
        ELSE fast
  BY DEF Derive
<1>2. \E stage, status, expected, reviewed, wrong, validation :
        fast = [stage |-> stage, status |-> status, expected |-> expected,
                reviewed |-> reviewed, wrong |-> wrong, validation |-> validation]
  <2> DEFINE c == IF entry.status # "done" \/ entry.export = None THEN Nothing
                  ELSE IF OtherRevision(Root) THEN [Nothing EXCEPT !.wrong = TRUE]
                  ELSE Counts(Root, {}, FALSE)
  <2>1. fast = Classify(entry.status, row.state, c)
    BY DEF Inspected
  <2> HIDE DEF c, fast
  <2> QED BY <2>1, ClassifiedShape
<1> HIDE DEF fast, certified
<1>3. Derive(row).stage = "completed"
  BY DEF Completed
<1>4. ~ Invalid
  BY <1>1, <1>2, <1>3
<1>5. CASE certified
  BY <1>4, <1>5 DEF certified, fast
<1>6. CASE ~ certified
  <2> DEFINE audited == NeedsAudit /\ fast.validation \notin {"invalid", "not_applicable"}
  <2>1. CASE audited
    <3>1. Derive(row) = [fast EXCEPT !.stage = "review", !.status = "audit_required",
                                     !.validation = "audit_required"]
      BY <1>1, <1>4, <1>6, <2>1
    <3> QED BY <1>2, <1>3, <3>1
  <2>2. CASE ~ audited
    <3>1. Derive(row) = fast
      BY <1>1, <1>4, <1>6, <2>2
    <3> QED BY <1>3, <1>4, <2>2, <3>1 DEF Completed, fast
  <2> QED BY <2>1, <2>2
<1> QED BY <1>5, <1>6

LEMMA Earned ==
  ASSUME Parameters, PipelineInv
  PROVE  CompletedIsEarned
<1> SUFFICES ASSUME Completed(Derive(job))
             PROVE  /\ entry.status = "done" /\ entry.export # None
                    /\ job.state \in {"none", "done"}
                    /\ \A s \in Segments :
                         /\ Run(Root, s) \in {"bare", "full"}
                         /\ Intact(Root, s)
                         /\ Review(Root, s) > 0
                         /\ Root.pointer # None => Root.pointer.made[s] = Effective(Root)[s]
                         /\ entry.export.root = "owned" =>
                              Root.pointer # None /\ Root.pointer.made[s][1] = entry.boxes
  BY DEF CompletedIsEarned
<1> USE DEF PipelineInv
<1> DEFINE fast == Inspected(job, {}, FALSE)
<1>1. ~ Invalid
  BY DerivedCompleted
<1>2. /\ entry.status = "done" /\ entry.export # None
      /\ job.state \in {"none", "done"}
      /\ \A s \in Segments : /\ Run(Root, s) \in {"bare", "full"}
                             /\ Review(Root, s) > 0
                             /\ Intact(Root, s)
  <2>1. CASE Certified(job, fast)
    <3>1. entry.export # None
      BY <2>1 DEF Certified
    <3>2. Root.certificate = [identity |-> Identity(job), expected |-> fast.expected,
                              reviewed |-> fast.reviewed]
      BY <2>1 DEF Certified
    <3>3. fast.expected > 0 /\ fast.reviewed >= fast.expected
      BY <2>1 DEF Certified
    <3>4. Root.certificate # None
      BY <2>1 DEF Certified
    <3>5. entry.export \in Exports
      BY <3>1 DEF PipelineInv, FilesInv, Entries
    <3>6. CertifiedSoundly(Root)
      BY <3>5 DEF Root, Exports, FilesInv
    <3>7. Root.certificate.identity = Identity(job)
      BY <3>2
    <3>8. /\ Identity(job).annotation[1] = entry.status
          /\ Identity(job).row[1] = job.state
          /\ \A s \in Segments : Identity(job).outputs[s] = <<Run(Root, s), Review(Root, s)>>
          /\ Identity(job).generation = IF Root.pointer = None THEN None ELSE Root.pointer.id
      BY DEF Identity
    <3>9. /\ entry.status = "done"
          /\ job.state \in {"none", "done"}
          /\ \A s \in Segments : /\ Run(Root, s) \in {"bare", "full"}
                                 /\ Review(Root, s) > 0
          /\ Root.pointer = None => \A s \in Segments : Root.segments.intact[s]
      BY <3>4, <3>6, <3>7, <3>8 DEF CertifiedSoundly
    <3> QED BY <3>1, <3>9 DEF Intact
  <2>2. CASE /\ Completed(fast)
             /\ fast.validation = "manifest" => ~ NeedsAudit
    <3>1. /\ entry.status = "done" /\ entry.export # None
          /\ job.state \notin {"queued", "running", "error", "cancelled"}
          /\ \A s \in Segments : /\ Run(Root, s) \in {"bare", "full"}
                                 /\ Review(Root, s) > 0
          /\ ~ NeedsAudit
      BY <2>2, InspectedCompleted
    <3>2. \A s \in Segments : Run(Root, s) # "absent"
      BY <3>1
    <3>3. \A s \in Segments : Root.pointer # None
      BY <3>1, <3>2 DEF NeedsAudit
    <3> QED BY <3>1, <3>3 DEF Intact, PipelineInv, FilesInv, Jobs, States
  <2> QED BY <2>1, <2>2, DerivedCompleted
<1>3. \A s \in Segments :
        Root.pointer # None => Root.pointer.made[s] = Effective(Root)[s]
  BY <1>1, <1>2 DEF Invalid, Diverges
<1>4. ASSUME NEW s \in Segments, entry.export.root = "owned"
      PROVE  Root.pointer # None /\ Root.pointer.made[s][1] = entry.boxes
  <2>1. entry.export.revision = entry.revision
    BY <1>1, <1>2, <1>4 DEF Invalid
  <2>2. Root.segments.prompts.boxes = entry.boxes
    BY <1>2, <1>4, <2>1 DEF OwnedInv, Root
  <2>3. Root.segments.run[s] = "absent"
    BY <1>4 DEF OwnedInv, Root
  <2>4. Root.pointer # None
    BY <1>2, <2>3 DEF Run
  <2> QED BY <1>3, <2>2, <2>4 DEF Effective
<1> QED BY <1>2, <1>3, <1>4
-----------------------------------------------------------------------------
(* The documents of a root change one at a time *)

LEMMA SegmentsChange ==
  ASSUME NEW root, RootTyped(root), CertifiedSoundly(root), NEW parts \in Parts,
         \A s \in Segments : root.segments.intact[s] => parts.intact[s],
         NEW new, new = [root EXCEPT !.segments = parts]
  PROVE  RootTyped(new) /\ CertifiedSoundly(new) /\ new.segments = parts
<1>1. /\ new = [segments |-> parts, pointer |-> root.pointer,
                certificate |-> root.certificate]
      /\ new.segments = parts
      /\ new.pointer = root.pointer /\ new.certificate = root.certificate
  BY DEF RootTyped
<1> QED BY <1>1 DEF RootTyped, CertifiedSoundly

LEMMA PointerChange ==
  ASSUME NEW root, RootTyped(root), CertifiedSoundly(root), NEW pointer \in Pointers,
         NEW new, new = [root EXCEPT !.pointer = pointer]
  PROVE  RootTyped(new) /\ CertifiedSoundly(new) /\ new.segments = root.segments
<1>1. /\ new = [segments |-> root.segments, pointer |-> pointer,
                certificate |-> root.certificate]
      /\ new.segments = root.segments
      /\ new.pointer = pointer /\ new.certificate = root.certificate
  BY DEF RootTyped
<1> QED BY <1>1 DEF RootTyped, CertifiedSoundly

LEMMA FilesChange ==
  ASSUME FilesInv, NEW r \in Roots, NEW root, RootTyped(root), CertifiedSoundly(root),
         files' = [files EXCEPT ![r] = root]
  PROVE  FilesInv' /\ files'[r] = root /\ \A q \in Roots \ {r} : files'[q] = files[q]
<1>1. files' = [q \in Roots |-> IF q = r THEN root ELSE files[q]]
  BY DEF FilesInv
<1>2. \A q \in Roots : files'[q] = IF q = r THEN root ELSE files[q]
  BY <1>1
<1>3. files' = [q \in Roots |-> files'[q]]
  BY <1>1
<1>4. \A q \in Roots : RootTyped(files'[q]) /\ CertifiedSoundly(files'[q])
  BY <1>2 DEF FilesInv
<1> QED BY <1>2, <1>3, <1>4 DEF FilesInv

LEMMA FilesStay ==
  ASSUME FilesInv, UNCHANGED files
  PROVE  FilesInv'
BY DEF FilesInv

LEMMA EmptyParts ==
  ASSUME NEW prompts \in Prompts
  PROVE  /\ NewSegments(prompts) \in Parts
         /\ NewSegments(prompts).prompts = prompts
         /\ \A s \in Segments : /\ NewSegments(prompts).intact[s]
                                /\ NewSegments(prompts).run[s] = "absent"
BY DEF NewSegments, Parts, Runs

LEMMA EffectiveTyped ==
  ASSUME NEW root, RootTyped(root)
  PROVE  Effective(root) \in Made
<1>1. root.segments.prompts \in Prompts /\ root.segments.override \in [Segments -> Nat]
  BY DEF RootTyped, Parts
<1>2. root.segments.prompts.boxes \in Boxes
  BY <1>1 DEF Prompts
<1> QED BY <1>1, <1>2 DEF Effective, Made

-----------------------------------------------------------------------------
(* The invariant *)

LEMMA InitInv ==
  ASSUME Parameters, Init
  PROVE  PipelineInv
<1> USE DEF Parameters
<1>1. NoPrompts \in Prompts
  BY DEF NoPrompts, Prompts, Boxes
<1>2. NewSegments(NoPrompts) \in Parts
  BY <1>1, EmptyParts
<1>3. RootTyped(NewRoot) /\ CertifiedSoundly(NewRoot)
  BY <1>2 DEF RootTyped, CertifiedSoundly, NewRoot
<1> DEFINE Exported0(bare, run, intact) ==
             files = [r \in Roots |-> IF r = "owned" THEN NewRoot ELSE
                [NewRoot EXCEPT !.segments =
                   [NewSegments([boxes |-> 0, bare |-> bare, of |-> 0])
                      EXCEPT !.run = run, !.intact = intact]]]
           Init0 ==
             /\ \/ /\ entry = [status |-> "pending", revision |-> 0, boxes |-> None,
                              export |-> None]
                   /\ files = [r \in Roots |-> NewRoot]
                \/ /\ entry = [status |-> "done", revision |-> 0, boxes |-> 0,
                              export |-> [root |-> "legacy", revision |-> 0]]
                   /\ \E bare \in BOOLEAN, run \in [Segments -> Runs],
                         intact \in [Segments -> BOOLEAN] :
                        /\ \A s \in Segments : run[s] \in {"absent", "unfinished"} => intact[s]
                        /\ Exported0(bare, run, intact)
             /\ job = NoJob /\ overrides = 0 /\ certifying = None
<1>0. Init0
  BY DEF Init
<1> HIDE DEF Exported0
<1>4. entry \in Entries
  BY <1>0 DEF Entries, Exports, Boxes, Statuses, Roots
<1>5. job \in Jobs /\ overrides \in 0..MaxOverrides /\ certifying \in {None} \cup Jobs
  BY <1>0 DEF NoJob, Jobs, States, Roots
<1>6. FilesInv /\ files["owned"] = NewRoot
  <2>1. CASE files = [r \in Roots |-> NewRoot]
    BY <1>3, <2>1 DEF FilesInv, Roots
  <2>2. ASSUME NEW bare \in BOOLEAN, NEW run \in [Segments -> Runs],
               NEW intact \in [Segments -> BOOLEAN],
               Exported0(bare, run, intact)
        PROVE  FilesInv /\ files["owned"] = NewRoot
    <3> DEFINE prompts == [boxes |-> 0, bare |-> bare, of |-> 0]
               parts == [NewSegments(prompts) EXCEPT !.run = run, !.intact = intact]
               root == [NewRoot EXCEPT !.segments = parts]
    <3>1. prompts \in Prompts
      BY DEF Prompts, Boxes
    <3>2. NewSegments(prompts) \in Parts
      BY <3>1, EmptyParts
    <3>3. parts \in Parts
      BY <3>2 DEF Parts
    <3> HIDE DEF parts, prompts
    <3>4. root = [segments |-> parts, pointer |-> None, certificate |-> None]
      BY DEF NewRoot
    <3>5. RootTyped(root) /\ CertifiedSoundly(root)
      BY <3>3, <3>4 DEF RootTyped, CertifiedSoundly
    <3>6. files = [r \in Roots |-> IF r = "owned" THEN NewRoot ELSE root]
      BY <2>2 DEF Exported0, parts, prompts
    <3> HIDE DEF root
    <3>7. files = [r \in Roots |-> files[r]]
      BY <3>6
    <3>8. \A r \in Roots : files[r] = IF r = "owned" THEN NewRoot ELSE root
      BY <3>6
    <3>9. \A r \in Roots : RootTyped(files[r]) /\ CertifiedSoundly(files[r])
      BY <1>3, <3>5, <3>8
    <3> QED BY <3>7, <3>8, <3>9 DEF FilesInv, Roots
  <2> QED BY <1>0, <2>1, <2>2
<1>7. OwnedInv
  <2>1. /\ files["owned"].segments = NewSegments(NoPrompts)
        /\ files["owned"].segments.prompts = NoPrompts
    BY <1>6, <1>1, EmptyParts DEF NewRoot
  <2>2. \A s \in Segments : files["owned"].segments.run[s] = "absent"
    BY <1>1, <2>1, EmptyParts
  <2> HIDE DEF Init0
  <2>3. entry.revision = 0 /\ (entry.export # None => entry.export.root = "legacy")
    BY <1>0 DEF Init0
  <2>4. /\ files["owned"].segments.prompts.of = 0
        /\ files["owned"].segments.prompts.boxes = None
    BY <2>1 DEF NoPrompts
  <2> HIDE DEF Parameters
  <2> QED BY <2>2, <2>3, <2>4 DEF OwnedInv
<1> QED BY <1>4, <1>5, <1>6, <1>7 DEF PipelineInv

LEMMA JobChange ==
  ASSUME PipelineInv, UNCHANGED <<entry, files, overrides>>,
         job' \in Jobs, certifying' \in {None} \cup Jobs
  PROVE  PipelineInv'
BY FilesStay DEF PipelineInv, OwnedInv

LEMMA WithdrawnTyped ==
  ASSUME job \in Jobs
  PROVE  Withdrawn \in Jobs
BY DEF Withdrawn, Jobs, States

LEMMA SettledTyped ==
  ASSUME job \in Jobs, NEW state \in States
  PROVE  Settled(state) \in Jobs
BY DEF Settled, Jobs

LEMMA SaveInv ==
  ASSUME Parameters, PipelineInv, NEW status \in {"in_progress", "done"}, Save(status)
  PROVE  PipelineInv'
<1> USE DEF Parameters
<1>1. PICK boxes \in {entry.boxes, entry.revision + 1} :
        entry' = [entry EXCEPT !.status = status, !.revision = @ + 1, !.boxes = boxes]
  BY DEF Save
<1>2. entry \in Entries /\ entry.revision \in 0..MaxRevision
  BY DEF PipelineInv, Entries
<1>3. /\ entry'.status = status /\ entry'.revision = entry.revision + 1
      /\ entry'.boxes = boxes /\ entry'.export = entry.export
  BY <1>1, <1>2 DEF Entries
<1>4. entry' \in Entries
  <2>1. entry.revision + 1 \in 0..MaxRevision
    BY <1>2 DEF Save
  <2>2. boxes \in Boxes /\ status \in Statuses
    BY <1>2, <2>1 DEF Entries, Boxes, Statuses
  <2> HIDE DEF Parameters
  <2> QED BY <1>1, <1>2, <2>1, <2>2 DEF Entries
<1>5. FilesInv' /\ UNCHANGED <<files, job, overrides, certifying>>
  BY FilesStay DEF Save, PipelineInv
<1>6. OwnedInv'
  <2>1. files["owned"].segments.prompts.of \in Nat
    BY DEF PipelineInv, FilesInv, RootTyped, Parts, Prompts, Roots
  <2>2. entry.export # None => entry.export.revision \in Nat
    BY <1>2 DEF Entries, Exports
  <2> QED BY <1>2, <1>3, <1>5, <2>1, <2>2 DEF PipelineInv, OwnedInv
<1> QED BY <1>4, <1>5, <1>6 DEF PipelineInv

LEMMA NoObjectInv ==
  ASSUME Parameters, PipelineInv, NoObject
  PROVE  PipelineInv'
<1> USE DEF Parameters
<1>1. entry \in Entries /\ entry.revision \in 0..MaxRevision
  BY DEF PipelineInv, Entries
<1>2. entry'.revision = entry.revision + 1 /\ entry'.export = None
  BY <1>1 DEF NoObject, Entries
<1>3. entry' \in Entries
  <2>1. entry.revision + 1 \in 0..MaxRevision
    BY <1>1 DEF NoObject
  <2>2. entry' = [entry EXCEPT !.status = "no_boom", !.revision = entry.revision + 1,
                               !.export = None]
    BY DEF NoObject
  <2> HIDE DEF Parameters
  <2> QED BY <1>1, <2>1, <2>2 DEF Entries, Statuses
<1>4. FilesInv' /\ UNCHANGED <<files, job, overrides, certifying>>
  BY FilesStay DEF NoObject, PipelineInv
<1>5. OwnedInv'
  <2>1. files["owned"].segments.prompts.of \in Nat
    BY DEF PipelineInv, FilesInv, RootTyped, Parts, Prompts, Roots
  <2> QED BY <1>1, <1>2, <1>4, <2>1 DEF PipelineInv, OwnedInv
<1> QED BY <1>3, <1>4, <1>5 DEF PipelineInv

LEMMA PublishFramesInv ==
  ASSUME Parameters, PipelineInv, PublishFrames
  PROVE  PipelineInv'
<1> DEFINE prompts == [boxes |-> entry.boxes, bare |-> FALSE, of |-> entry.revision]
           parts == NewSegments(prompts)
           root == [files["owned"] EXCEPT !.segments = parts]
<1>1. entry \in Entries /\ "owned" \in Roots /\ FilesInv
  BY DEF PipelineInv, Roots
<1>2. prompts \in Prompts
  BY <1>1 DEF Entries, Prompts
<1>3. /\ parts \in Parts /\ parts.prompts = prompts
      /\ \A s \in Segments : parts.intact[s] /\ parts.run[s] = "absent"
  BY <1>2, EmptyParts
<1>4. files' = [files EXCEPT !["owned"] = root]
  BY DEF PublishFrames
<1>5. UNCHANGED <<entry, job, overrides, certifying>> /\ entry.boxes # None
  BY DEF PublishFrames
<1>6. prompts.boxes = entry.boxes /\ prompts.of = entry.revision
  OBVIOUS
<1> HIDE DEF parts, prompts
<1>7. RootTyped(files["owned"]) /\ CertifiedSoundly(files["owned"])
  BY <1>1 DEF FilesInv
<1>8. RootTyped(root) /\ CertifiedSoundly(root) /\ root.segments = parts
  BY <1>3, <1>7, SegmentsChange
<1> HIDE DEF root
<1>9. FilesInv' /\ files'["owned"] = root
  BY <1>1, <1>4, <1>8, FilesChange
<1>10. OwnedInv'
  <2>1. entry.revision \in 0..MaxRevision
    BY <1>1 DEF Entries
  <2> QED BY <1>3, <1>5, <1>6, <1>8, <1>9, <2>1 DEF PipelineInv, OwnedInv
<1> QED BY <1>5, <1>9, <1>10 DEF PipelineInv

LEMMA CompleteExportInv ==
  ASSUME PipelineInv, CompleteExport
  PROVE  PipelineInv'
<1>1. entry \in Entries /\ entry.revision \in 0..MaxRevision
  BY DEF PipelineInv, Entries
<1>2. /\ entry'.revision = entry.revision /\ entry'.boxes = entry.boxes
      /\ entry'.export = [root |-> "owned", revision |-> entry.revision]
  BY <1>1 DEF CompleteExport, Entries
<1>3. entry' \in Entries
  BY <1>1 DEF CompleteExport, Entries, Exports, Statuses, Roots
<1>4. FilesInv' /\ UNCHANGED <<files, job, overrides, certifying>>
  BY FilesStay DEF CompleteExport, PipelineInv
<1>5. OwnedInv'
  <2>1. /\ files["owned"].segments.prompts.boxes # None
        /\ files["owned"].segments.prompts.of = entry.revision
    BY DEF CompleteExport
  <2> QED BY <1>1, <1>2, <1>4, <2>1 DEF PipelineInv, OwnedInv
<1> QED BY <1>3, <1>4, <1>5 DEF PipelineInv

\* The actions that change nothing but the row of the queue.
LEMMA JobInv ==
  ASSUME Parameters, PipelineInv,
         Enqueue \/ Take \/ Cancel \/ JobEnds \/ RefuseResult
  PROVE  PipelineInv'
<1> USE DEF Parameters
<1>1. entry \in Entries /\ job \in Jobs /\ FilesInv /\ certifying \in {None} \cup Jobs
  BY DEF PipelineInv
<1>2. UNCHANGED <<entry, files, overrides, certifying>>
  BY DEF Enqueue, Take, Cancel, JobEnds, RefuseResult
<1>3. job' \in Jobs
  <2>1. CASE Enqueue
    <3>1. entry.export \in Exports
      BY <1>1, <2>1 DEF Enqueue, Entries
    <3>2. job.id + 1 \in 0..MaxJobs
      BY <1>1, <2>1 DEF Enqueue, Jobs
    <3>3. job' = [id |-> job.id + 1, state |-> "queued", revision |-> entry.revision,
                  root |-> entry.export.root, made |-> None, cancel |-> FALSE]
      BY <2>1 DEF Enqueue, NoJob
    <3>4. entry.revision \in 0..MaxRevision /\ entry.export.root \in Roots
      BY <1>1, <3>1 DEF Entries, Exports
    <3> HIDE DEF Parameters
    <3> QED BY <3>2, <3>3, <3>4 DEF Jobs, States
  <2>2. CASE Take
    <3>1. job.root \in Roots
      BY <1>1 DEF Jobs
    <3>2. Effective(files[job.root]) \in Made
      BY <1>1, <3>1, EffectiveTyped DEF FilesInv
    <3>3. job' = [job EXCEPT !.state = "running", !.made = Effective(files[job.root])]
      BY <2>2 DEF Take
    <3> HIDE DEF Parameters
    <3> QED BY <1>1, <3>2, <3>3 DEF Jobs, States
  <2>3. CASE Cancel
    <3>1. job' = Withdrawn
      BY <2>3 DEF Cancel
    <3> QED BY <1>1, <3>1, WithdrawnTyped
  <2>4. CASE JobEnds
    <3>1. job' = Settled("cancelled") \/ job' = Settled("error")
      BY <2>4 DEF JobEnds
    <3> QED BY <1>1, <3>1, SettledTyped DEF States
  <2>5. CASE RefuseResult
    <3>1. job' = Settled("cancelled")
      BY <2>5 DEF RefuseResult
    <3> QED BY <1>1, <3>1, SettledTyped DEF States
  <2> QED BY <2>1, <2>2, <2>3, <2>4, <2>5
<1> QED BY <1>1, <1>2, <1>3, JobChange

LEMMA PublishGenerationInv ==
  ASSUME Parameters, PipelineInv, PublishGeneration
  PROVE  PipelineInv'
<1>1. job \in Jobs /\ FilesInv
  BY DEF PipelineInv
<1> DEFINE old == files[job.root]
           placed == old.pointer # None /\ old.pointer.id = job.id
           fresh == [id |-> job.id, revision |-> job.revision, made |-> job.made,
                     review |-> [s \in Segments |-> 0]]
           pointer == IF placed THEN old.pointer ELSE fresh
           new == [old EXCEPT !.pointer = pointer]
<1>2. job.root \in Roots /\ RootTyped(old) /\ CertifiedSoundly(old)
  BY <1>1 DEF Jobs, FilesInv
<1>3. fresh \in Pointers
  BY <1>1 DEF Jobs, Pointers
<1>4. pointer \in Pointers
  BY <1>2, <1>3 DEF RootTyped
<1>5. files' = [files EXCEPT ![job.root] = new]
  BY DEF PublishGeneration
<1>6. UNCHANGED <<entry, overrides, certifying>> /\ job' \in {job, Settled("done")}
  BY DEF PublishGeneration
<1>7. job' \in Jobs
  BY <1>1, <1>6, SettledTyped DEF States
<1> HIDE DEF pointer, fresh, placed
<1>8. RootTyped(new) /\ CertifiedSoundly(new) /\ new.segments = old.segments
  BY <1>2, <1>4, PointerChange
<1> HIDE DEF new
<1>9. FilesInv' /\ files'[job.root] = new
      /\ \A q \in Roots \ {job.root} : files'[q] = files[q]
  BY <1>1, <1>2, <1>5, <1>8, FilesChange
<1>10. files'["owned"].segments = files["owned"].segments
  BY <1>2, <1>8, <1>9 DEF Roots
<1> QED BY <1>6, <1>7, <1>9, <1>10 DEF PipelineInv, OwnedInv

\* The override of a segment, or its review where no generation is published.
LEMMA PartsKept ==
  ASSUME PipelineInv, NEW r \in Roots, NEW parts \in Parts,
         /\ parts.prompts = files[r].segments.prompts
         /\ parts.run = files[r].segments.run
         /\ parts.intact = files[r].segments.intact,
         files' = [files EXCEPT ![r] = [files[r] EXCEPT !.segments = parts]],
         UNCHANGED entry
  PROVE  FilesInv' /\ OwnedInv'
<1> DEFINE new == [files[r] EXCEPT !.segments = parts]
<1>1. RootTyped(files[r]) /\ CertifiedSoundly(files[r]) /\ FilesInv
  BY DEF PipelineInv, FilesInv
<1>2. RootTyped(new) /\ CertifiedSoundly(new) /\ new.segments = parts
  BY <1>1, SegmentsChange
<1>3. files' = [files EXCEPT ![r] = new]
  OBVIOUS
<1> HIDE DEF new
<1>4. FilesInv' /\ files'[r] = new /\ \A q \in Roots \ {r} : files'[q] = files[q]
  BY <1>1, <1>2, <1>3, FilesChange
<1>5. /\ files'["owned"].segments.run = files["owned"].segments.run
      /\ files'["owned"].segments.prompts = files["owned"].segments.prompts
  BY <1>2, <1>4 DEF Roots
<1> QED BY <1>4, <1>5 DEF PipelineInv, OwnedInv

LEMMA OverrideSetKeeps ==
  ASSUME PipelineInv, NEW s \in Segments, NEW number \in Nat, OverrideSet(s, number)
  PROVE  /\ FilesInv' /\ OwnedInv' /\ job' \in Jobs
         /\ UNCHANGED <<entry, certifying>>
<1> DEFINE r == entry.export.root
           parts == [files[r].segments EXCEPT !.override[s] = number]
<1>1. entry.export \in Exports
  BY DEF PipelineInv, Entries, OverrideSet, Exported
<1>2. r \in Roots
  BY <1>1 DEF Exports
<1>3. files[r].segments \in Parts
  BY <1>2 DEF PipelineInv, FilesInv, RootTyped
<1>4. /\ parts \in Parts /\ parts.prompts = files[r].segments.prompts
      /\ parts.run = files[r].segments.run /\ parts.intact = files[r].segments.intact
  BY <1>3 DEF Parts
<1>5. files' = [files EXCEPT ![r] = [files[r] EXCEPT !.segments = parts]]
  BY DEF OverrideSet
<1>6. UNCHANGED <<entry, certifying>> /\ job' \in {job, Withdrawn}
  BY DEF OverrideSet
<1>7. job' \in Jobs
  BY <1>6, WithdrawnTyped DEF PipelineInv
<1> HIDE DEF r, parts
<1>8. FilesInv' /\ OwnedInv'
  BY <1>2, <1>4, <1>5, <1>6, PartsKept
<1> QED BY <1>6, <1>7, <1>8

LEMMA OverrideInv ==
  ASSUME Parameters, PipelineInv, NEW s \in Segments, SaveOverride(s) \/ ClearOverride(s)
  PROVE  PipelineInv'
<1>1. overrides \in 0..MaxOverrides /\ MaxOverrides \in Nat
  BY DEF PipelineInv, Parameters
<1>2. /\ overrides' \in 0..MaxOverrides
      /\ \E number \in Nat : OverrideSet(s, number)
  BY <1>1 DEF SaveOverride, ClearOverride
<1>3. PICK number \in Nat : OverrideSet(s, number)
  BY <1>2
<1> QED BY <1>2, <1>3, OverrideSetKeeps DEF PipelineInv

LEMMA ReviewTyped ==
  ASSUME PipelineInv, NEW s \in Segments, Reviewable(s)
  PROVE  Review(Root, s) \in Nat
<1>1. entry.export \in Exports
  BY DEF PipelineInv, Entries, Reviewable, Exported
<1>2. RootTyped(Root)
  BY <1>1 DEF PipelineInv, FilesInv, Root, Exports
<1> QED BY <1>2 DEF RootTyped, Parts, Pointers, Review

LEMMA ReviewedKeeps ==
  ASSUME PipelineInv, NEW s \in Segments, Reviewable(s), NEW n \in Nat,
         files' = Reviewed(s, n), UNCHANGED entry
  PROVE  FilesInv' /\ OwnedInv'
<1> DEFINE r == entry.export.root
           old == files[r]
           pointer == [old.pointer EXCEPT !.review[s] = n]
           parts == [old.segments EXCEPT !.review[s] = n]
<1>1. entry.export \in Exports
  BY DEF PipelineInv, Entries, Reviewable, Exported
<1>2. r \in Roots /\ FilesInv /\ RootTyped(old) /\ CertifiedSoundly(old)
  BY <1>1 DEF PipelineInv, FilesInv, Exports
<1>3. CASE old.pointer # None
  <2> DEFINE new == [old EXCEPT !.pointer = pointer]
  <2>1. old.pointer \in Pointers
    BY <1>2, <1>3 DEF RootTyped
  <2>2. pointer \in Pointers
    BY <2>1 DEF Pointers
  <2>3. files' = [files EXCEPT ![r] = new]
    BY <1>3 DEF Reviewed
  <2> HIDE DEF pointer, r
  <2>4. RootTyped(new) /\ CertifiedSoundly(new) /\ new.segments = old.segments
    BY <1>2, <2>2, PointerChange
  <2> HIDE DEF new
  <2>5. FilesInv' /\ files'[r] = new /\ \A q \in Roots \ {r} : files'[q] = files[q]
    BY <1>2, <2>3, <2>4, FilesChange
  <2>6. files'["owned"].segments = files["owned"].segments
    BY <2>4, <2>5 DEF Roots
  <2> QED BY <2>5, <2>6 DEF PipelineInv, OwnedInv
<1>4. CASE old.pointer = None
  <2>1. old.segments \in Parts
    BY <1>2 DEF RootTyped
  <2>2. /\ parts \in Parts /\ parts.prompts = old.segments.prompts
        /\ parts.run = old.segments.run /\ parts.intact = old.segments.intact
    BY <2>1 DEF Parts
  <2>3. files' = [files EXCEPT ![r] = [old EXCEPT !.segments = parts]]
    BY <1>4 DEF Reviewed
  <2> HIDE DEF r, parts
  <2> QED BY <1>2, <2>2, <2>3, PartsKept
<1> QED BY <1>3, <1>4

LEMMA SaveFrameInv ==
  ASSUME PipelineInv, NEW s \in Segments, SaveFrame(s)
  PROVE  PipelineInv'
<1>1. Reviewable(s) /\ Review(Root, s) + 1 \in Nat
  BY ReviewTyped DEF SaveFrame
<1>2. files' = Reviewed(s, Review(Root, s) + 1)
  BY DEF SaveFrame
<1>3. UNCHANGED <<entry, job, overrides, certifying>>
  BY DEF SaveFrame
<1>4. FilesInv' /\ OwnedInv'
  BY <1>1, <1>2, <1>3, ReviewedKeeps
<1> QED BY <1>3, <1>4 DEF PipelineInv

LEMMA SaveBatchInv ==
  ASSUME PipelineInv, NEW s \in Segments, SaveBatch(s)
  PROVE  PipelineInv'
<1>1. Reviewable(s) /\ Review(Root, s) \in Nat
  BY ReviewTyped DEF SaveBatch
<1>2. PICK n \in {Review(Root, s), Review(Root, s) + 1} : files' = Reviewed(s, n)
  BY DEF SaveBatch
<1>3. n \in Nat
  BY <1>1, <1>2
<1>4. UNCHANGED <<entry, job, overrides>> /\ certifying' \in {job, None}
  BY DEF SaveBatch
<1>5. FilesInv' /\ OwnedInv'
  BY <1>1, <1>2, <1>3, <1>4, ReviewedKeeps
<1> QED BY <1>4, <1>5 DEF PipelineInv

\* What an audit of a completed video puts into its certificate.
LEMMA IdentityOfCompleted ==
  ASSUME Parameters, PipelineInv, NEW row \in Jobs, Completed(Audit(row)),
         NEW expected, NEW reviewed,
         NEW new, new = [Root EXCEPT !.certificate =
           [identity |-> Identity(row), expected |-> expected, reviewed |-> reviewed]]
  PROVE  RootTyped(new) /\ CertifiedSoundly(new) /\ new.segments = Root.segments
<1> DEFINE identity == Identity(row)
           certificate == [identity |-> identity, expected |-> expected,
                           reviewed |-> reviewed]
<1>1. /\ entry.status = "done" /\ entry.export # None
      /\ row.state \notin {"queued", "running", "error", "cancelled"}
      /\ \A s \in Segments : /\ Run(Root, s) \in {"bare", "full"}
                             /\ Review(Root, s) > 0
                             /\ Intact(Root, s)
  BY InspectedCompleted DEF Audit
<1>2. RootTyped(Root)
  BY <1>1 DEF PipelineInv, FilesInv, Entries, Exports, Root
<1>3. row.state \in {"none", "done"}
  BY <1>1 DEF Jobs, States
<1>4. /\ identity.annotation[1] = entry.status /\ identity.annotation[3] = entry.export
      /\ identity.row[1] = row.state
      /\ \A s \in Segments : identity.outputs[s] = <<Run(Root, s), Review(Root, s)>>
      /\ identity.generation = IF Root.pointer = None THEN None ELSE Root.pointer.id
  BY DEF Identity
<1>5. identity.generation = None => Root.pointer = None
  <2>1. Root.pointer # None => Root.pointer.id \in Nat
    BY <1>2 DEF RootTyped, Pointers
  <2> QED BY <1>4, <2>1 DEF Parameters
<1> HIDE DEF identity
<1>6. /\ new = [segments |-> Root.segments, pointer |-> Root.pointer,
                certificate |-> certificate]
      /\ new.segments = Root.segments /\ new.pointer = Root.pointer
      /\ new.certificate = certificate
  BY <1>2 DEF RootTyped, identity
<1>7. new.certificate.identity = identity
  BY <1>6
<1>8. identity.generation = None => \A s \in Segments : new.segments.intact[s]
  BY <1>1, <1>5, <1>6 DEF Intact
<1>9. CertifiedSoundly(new)
  BY <1>1, <1>3, <1>4, <1>7, <1>8 DEF CertifiedSoundly
<1> QED BY <1>2, <1>6, <1>9 DEF RootTyped

LEMMA CertifyInv ==
  ASSUME Parameters, PipelineInv, Certify
  PROVE  PipelineInv'
<1>1. certifying \in Jobs
  BY DEF PipelineInv, Certify
<1>2. UNCHANGED <<entry, job, overrides>> /\ certifying' = None
  BY DEF Certify
<1>3. CASE UNCHANGED files
  BY <1>2, <1>3, JobChange DEF PipelineInv
<1>4. CASE files' # files
  <2> DEFINE audited == Audit(certifying)
             new == [Root EXCEPT !.certificate =
               [identity |-> Identity(certifying), expected |-> audited.expected,
                reviewed |-> audited.reviewed]]
             r == entry.export.root
  <2>1. files' = [files EXCEPT ![r] = new] /\ Completed(audited)
    BY <1>4 DEF Certify, Root
  <2>2. entry.export # None
    BY <1>1, <2>1, InspectedCompleted DEF Audit
  <2>3. r \in Roots /\ FilesInv
    BY <2>2 DEF PipelineInv, Entries, Exports
  <2>4. RootTyped(new) /\ CertifiedSoundly(new) /\ new.segments = files[r].segments
    BY <1>1, <2>1, IdentityOfCompleted DEF Root
  <2> HIDE DEF new, r
  <2>5. FilesInv' /\ files'[r] = new /\ \A q \in Roots \ {r} : files'[q] = files[q]
    BY <2>1, <2>3, <2>4, FilesChange
  <2>6. files'["owned"].segments = files["owned"].segments
    BY <2>4, <2>5 DEF Roots
  <2> QED BY <1>2, <2>5, <2>6 DEF PipelineInv, OwnedInv
<1> QED BY <1>3, <1>4

LEMMA StepInv ==
  ASSUME Parameters, PipelineInv, [Next]_vars
  PROVE  PipelineInv'
<1>1. CASE UNCHANGED vars
  BY <1>1, JobChange DEF vars, PipelineInv
<1>2. CASE ListVideos
  BY <1>1, <1>2 DEF ListVideos
<1>3. CASE \E status \in {"in_progress", "done"} : Save(status)
  BY <1>3, SaveInv
<1>4. CASE NoObject
  BY <1>4, NoObjectInv
<1>5. CASE PublishFrames
  BY <1>5, PublishFramesInv
<1>6. CASE CompleteExport
  BY <1>6, CompleteExportInv
<1>7. CASE Enqueue \/ Take \/ Cancel \/ JobEnds \/ RefuseResult
  BY <1>7, JobInv
<1>8. CASE PublishGeneration
  BY <1>8, PublishGenerationInv
<1>9. ASSUME NEW s \in Segments,
             SaveOverride(s) \/ ClearOverride(s) \/ SaveFrame(s) \/ SaveBatch(s)
      PROVE  PipelineInv'
  BY <1>9, OverrideInv, SaveFrameInv, SaveBatchInv
<1>10. CASE Certify
  BY <1>10, CertifyInv
<1>11. CASE CertifyFails
  BY <1>11, JobChange DEF CertifyFails, PipelineInv
<1> QED BY <1>1, <1>2, <1>3, <1>4, <1>5, <1>6, <1>7, <1>8, <1>9, <1>10, <1>11 DEF Next

LEMMA Typed ==
  ASSUME PipelineInv
  PROVE  TypeOK
BY DEF PipelineInv, FilesInv, CertifiedSoundly, Entries, Jobs, Boxes, TypeOK

-----------------------------------------------------------------------------

\* Revisions, rows and numbers stay in their bounds, and a certificate is only ever
\* made with a settled row of the queue (server/pipeline_state.py,
\* certify_completed_review).
THEOREM TypeCorrect == ASSUME Parameters PROVE Spec => []TypeOK
<1>1. Init => PipelineInv
  BY InitInv
<1>2. PipelineInv /\ [Next]_vars => PipelineInv'
  BY StepInv
<1>3. PipelineInv => TypeOK
  BY Typed
<1> QED BY <1>1, <1>2, <1>3, PTL DEF Spec

\* A video that derive_pipeline_source shows as completed has a finished annotation,
\* no job under way or failed, and in every segment masks that are there, that have
\* been reviewed, that SAM3 made from the prompt and override of now and, unless its
\* export is of the old kind, for the boxes the annotation has now: whatever saves,
\* exports, jobs, overrides and reviews came before, in any order, and whatever a
\* certificate that outlived them says.
THEOREM CompletedStagesAreEarned == ASSUME Parameters PROVE Spec => []CompletedIsEarned
<1>1. Init => PipelineInv
  BY InitInv
<1>2. PipelineInv /\ [Next]_vars => PipelineInv'
  BY StepInv
<1>3. PipelineInv => CompletedIsEarned
  BY Earned
<1> QED BY <1>1, <1>2, <1>3, PTL DEF Spec

\* Both together, as the run checks them: a stage that shows a video as completed was
\* earned, and every certificate was made with a settled row.
THEOREM StagesAreSound == ASSUME Parameters PROVE Spec => []StagesSound
BY TypeCorrect, CompletedStagesAreEarned, PTL DEF StagesSound
=============================================================================
