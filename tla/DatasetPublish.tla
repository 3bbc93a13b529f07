--------------------------- MODULE DatasetPublish ---------------------------
(***************************************************************************)
(* The export of one named dataset (dataset.py, multiclass_dataset.py, the *)
(* routes of routers/dataset.py, run_dataset_export and                    *)
(* run_global_dataset_export of worker.py): a snapshot of the sources is   *)
(* frozen, the name is reserved for it, a durable job materialises it in a *)
(* staging and renames that into place, and uploads the files and, last,   *)
(* the manifest.  Meanwhile the sources change, leases are lost, zombies   *)
(* go on, and users export under the same name again or delete it.         *)
(*                                                                         *)
(* A source is a version number; a snapshot, which is its own identity,    *)
(* has a version of each.  JobQueue has the detail of the rows.            *)
(***************************************************************************)
EXTENDS Naturals, FiniteSets

CONSTANTS
    Requests,       \* exports asked for
    None,
    MaxVersion,     \* bound: versions of a source
    MaxTokens,      \* bound: leases handed out
    ShortLists      \* what a listing may find while a deletion goes on

VARIABLES
    global,         \* is this a dataset of the workspace, or of one object?
    source,         \* the frame and the mask on disk
    request,        \* POST /dataset/export: progress and snapshot
    reservation,    \* .reservations/<name>: a snapshot or None
    rows,           \* the jobs of the name, by idempotency key
    attempt,        \* what each lease's execution does
    tokens,         \* leases handed out
    target,         \* the directory of the dataset
    deletion,       \* how far the deletion of it got
    blob            \* MinIO, by generation: files and manifest

datasetVars == <<global, source, request, reservation, rows, attempt, tokens, target, deletion,
          blob>>

Versions  == 1..MaxVersion
Snapshots == [frame : Versions, mask : Versions]
Tokens    == 1..MaxTokens

ASSUME DatasetAssumption ==
    /\ None \notin Snapshots
    /\ MaxVersion \in Nat \ {0} /\ MaxTokens \in Nat
    /\ ShortLists \subseteq SUBSET {"frame", "mask"}

\* No row, or a settled one: create resets either, and nobody here asks how it ended.
NoRow == [state |-> "settled", snap |-> None, token |-> 0]

\* The key of a global export has its snapshot, that of an object does not.
NameKey == [frame |-> 0, mask |-> 0]
Keys    == Snapshots \cup {NameKey}
Key(s)  == IF global THEN s ELSE NameKey

Files == {"frame", "mask"}

\* What a lease's execution has copied, the files it has yet to upload, whether its
\* list is short of a file that was being deleted, and whether it did harm: put a
\* file of another dataset after its lease was lost, or the manifest after a short
\* list (history, for AdvertisedIsComplete).
NoAttempt == [at |-> "none", key |-> NameKey, snap |-> None, frame |-> 0, mask |-> 0,
              files |-> Files, short |-> FALSE, late |-> FALSE]

\* The directory: absent, emptied by rmtree, partly so, or a dataset.
Absent      == [at |-> "absent", frame |-> 0, mask |-> 0, snap |-> None]
EmptyTarget == [Absent EXCEPT !.at = "empty"]
Partial     == [target EXCEPT !.at = IF @ = "complete" THEN "partial" ELSE @]

\* All the files, or some, are there to be read.
Readable == target.at \in {"complete", "partial"}

(***************************************************************************)
(* Sources change: frames are exported again, masks are reviewed.          *)
(***************************************************************************)
Change(kind) ==
    /\ source[kind] < MaxVersion
    /\ source' = [source EXCEPT ![kind] = @ + 1]
    /\ UNCHANGED <<global, request, reservation, rows, attempt, tokens, target, deletion, blob>>

(***************************************************************************)
(* The request.  build_snapshot takes no lock: it reads the sources one    *)
(* after the other.                                                        *)
(***************************************************************************)
Answered == [at |-> "over", snap |-> None]

unchangedByRequests == UNCHANGED <<global, source, attempt, tokens, target, deletion, blob>>

ReadFrame(q) ==
    /\ request[q].at = "new"
    /\ request' = [request EXCEPT ![q] = [at |-> "frame", snap |->
                                            [frame |-> source.frame, mask |-> 0]]]
    /\ UNCHANGED <<reservation, rows>> /\ unchangedByRequests

ReadMask(q) ==
    /\ request[q].at = "frame"
    /\ request' = [request EXCEPT ![q].at = "frozen", ![q].snap.mask = source.mask]
    /\ UNCHANGED <<reservation, rows>> /\ unchangedByRequests

\* Faulty: any dataset of the name is taken for that of the snapshot.
ReservableByName(s) == target.at = "complete" \/ (target.at = "absent" /\ reservation \in {None, s})

\* _reserve_dataset_target_locked: what is published or reserved for the same
\* snapshot is accepted as it is.
Reservable(s) ==
    IF target.at # "absent" THEN target.at = "complete" /\ target.snap = s
    ELSE reservation \in {None, s}

Reserve(s) == reservation' = IF target.at = "absent" THEN s ELSE reservation

\* durable_jobs.create: an active row of the key stays as it is.
CreateRow(s) ==
    rows' = IF rows[Key(s)].state \in {"queued", "running"} THEN rows
            ELSE [rows EXCEPT ![Key(s)] = [state |-> "queued", snap |-> s, token |-> 0]]

\* The route of an object reserves, and creates the job afterwards; that of the
\* workspace does both under the reservation lock.
Accept(q) ==
    LET s == request[q].snap IN
    /\ request[q].at = "frozen"
    /\ IF Reservable(s)
       THEN /\ Reserve(s)
            /\ IF global THEN CreateRow(s) ELSE UNCHANGED rows
            /\ request' = [request EXCEPT ![q] = IF global THEN Answered ELSE [@ EXCEPT !.at = "reserved"]]
       ELSE /\ request' = [request EXCEPT ![q] = Answered]
            /\ UNCHANGED <<reservation, rows>>
    /\ unchangedByRequests

Create(q) ==
    /\ request[q].at = "reserved"
    /\ CreateRow(request[q].snap)
    /\ request' = [request EXCEPT ![q] = Answered]
    /\ UNCHANGED reservation /\ unchangedByRequests

\* The process ends between the two.
LoseRequest(q) ==
    /\ request[q].at = "reserved"
    /\ request' = [request EXCEPT ![q] = Answered]
    /\ UNCHANGED <<reservation, rows>> /\ unchangedByRequests

(***************************************************************************)
(* The rows.                                                               *)
(***************************************************************************)
Claim(k) ==
    /\ rows[k].state = "queued"
    /\ tokens < MaxTokens
    /\ tokens' = tokens + 1
    /\ rows' = [rows EXCEPT ![k].state = "running", ![k].token = tokens']
    /\ attempt' = [attempt EXCEPT ![tokens'] =
                     [NoAttempt EXCEPT !.at = "start", !.key = k, !.snap = rows[k].snap]]
    /\ UNCHANGED <<global, source, request, reservation, target, deletion, blob>>

\* The job is tried again, or given up.
LetGo(k) ==
    \/ rows' = [rows EXCEPT ![k].state = "queued", ![k].token = 0]
    \/ rows' = [rows EXCEPT ![k] = NoRow]

\* The lease expires, or the job is cancelled; its execution may not know yet.
LoseLease(k) ==
    /\ rows[k].state = "running"
    /\ LetGo(k)
    /\ UNCHANGED <<global, source, request, reservation, attempt, tokens, target, deletion, blob>>

(***************************************************************************)
(* One execution of the job.                                               *)
(***************************************************************************)
Owns(t) == LET row == rows[attempt[t].key] IN row.state = "running" /\ row.token = t

EndedRun(t) == [NoAttempt EXCEPT !.at = "over", !.snap = IF attempt[t].late THEN attempt[t].snap ELSE None,
                              !.late = attempt[t].late]

unchangedByAttempts == UNCHANGED <<global, source, request, tokens, deletion>>

\* An exception: the staging goes, and the row if it is still this lease's.
GiveUp(t) ==
    /\ attempt' = [attempt EXCEPT ![t] = EndedRun(t)]
    /\ IF Owns(t) THEN LetGo(attempt[t].key) ELSE UNCHANGED rows

Goto(t, step) ==
    /\ attempt' = [attempt EXCEPT ![t].at = step]
    /\ UNCHANGED rows

\* The staging is the dataset now, or gone.
StartUpload(t) ==
    /\ attempt' = [attempt EXCEPT ![t].at = "list", ![t].frame = 0, ![t].mask = 0]
    /\ UNCHANGED rows

\* export_snapshot_atomic: the name is reserved again; a dataset that is there
\* already is verified, not rebuilt.
Start(t) ==
    LET s == attempt[t].snap IN
    /\ attempt[t].at = "start"
    /\ IF ~Reservable(s) THEN GiveUp(t) /\ UNCHANGED reservation
       ELSE /\ Reserve(s)
            /\ Goto(t, IF target.at = "absent" THEN "check" ELSE "list")
    /\ unchangedByAttempts /\ UNCHANGED <<target, blob>>

\* _snapshot_image: the metadata of the frame, before it is copied.
SnapshotImage(t) == source.frame = attempt[t].snap.frame

CheckFrame(t) ==
    /\ attempt[t].at = "check"
    /\ IF SnapshotImage(t) THEN Goto(t, "copy") ELSE GiveUp(t)
    /\ unchangedByAttempts /\ UNCHANGED <<reservation, target, blob>>

CopyFrame(t) ==
    /\ attempt[t].at = "copy"
    /\ attempt' = [attempt EXCEPT ![t].at = "mask", ![t].frame = source.frame]
    /\ UNCHANGED rows
    /\ unchangedByAttempts /\ UNCHANGED <<reservation, target, blob>>

\* _verified_mask_image: the bytes whose checksum was taken are the ones used.
CopyMask(t) ==
    /\ attempt[t].at = "mask"
    /\ IF source.mask = attempt[t].snap.mask
       THEN /\ attempt' = [attempt EXCEPT ![t].at = "recheck", ![t].mask = source.mask]
            /\ UNCHANGED rows
       ELSE GiveUp(t)
    /\ unchangedByAttempts /\ UNCHANGED <<reservation, target, blob>>

\* Faulty: the look before the copy is enough.
FrameWasChecked(t) == attempt[t].frame # 0

\* The frames once more after the whole generation, then before_publish.
FrameUnchanged(t) == SnapshotImage(t)

Recheck(t) ==
    /\ attempt[t].at = "recheck"
    /\ IF FrameUnchanged(t) /\ Owns(t) THEN Goto(t, "publish") ELSE GiveUp(t)
    /\ unchangedByAttempts /\ UNCHANGED <<reservation, target, blob>>

\* publication_fence: the row is locked, and still this lease's.
Fenced(t) == Owns(t)

\* os.replace takes the place of an absent or an empty directory only.
Publish(t) ==
    LET a == attempt[t] IN
    /\ a.at = "publish"
    /\ IF Fenced(t) /\ target.at \in {"absent", "empty"}
       THEN /\ target' = [at |-> "complete", frame |-> a.frame, mask |-> a.mask,
                          snap |-> a.snap]
            /\ StartUpload(t)
       ELSE /\ UNCHANGED target
            /\ IF Fenced(t) /\ target.at = "complete" /\ target.snap = a.snap
               THEN StartUpload(t) ELSE GiveUp(t)
    /\ unchangedByAttempts /\ UNCHANGED <<reservation, blob>>

\* The dataset is validated and then listed: a file that a deletion removes in
\* between is not missed.  The list may be older than this step, which ends with
\* the look at the lease.
ListFiles(t) ==
    /\ attempt[t].at = "list"
    /\ \/ /\ Owns(t)
          /\ \E files \in ShortLists \cup {Files} :
                /\ target.at = "complete" => files = Files
                /\ attempt' = [attempt EXCEPT
                       ![t].at = IF files = {} THEN "manifest" ELSE "put",
                       ![t].files = files,
                       ![t].short = files # Files]
          /\ UNCHANGED rows
       \/ /\ ~Owns(t) \/ target.at # "complete" \/ target.snap # attempt[t].snap
          /\ GiveUp(t)
    /\ unchangedByAttempts /\ UNCHANGED <<reservation, target, blob>>

\* The files go up one by one, and the lease is looked at before each.
Upload(t) ==
    /\ attempt[t].at = "upload"
    /\ IF Owns(t) THEN Goto(t, "put") ELSE GiveUp(t)
    /\ unchangedByAttempts /\ UNCHANGED <<reservation, target, blob>>

NextFile(t) == IF "frame" \in attempt[t].files THEN "frame" ELSE "mask"

\* put_file, from the directory, whatever is there by then.
PutFile(t) ==
    LET s == attempt[t].snap  file == NextFile(t)  left == attempt[t].files \ {file} IN
    /\ attempt[t].at = "put"
    /\ \/ /\ Readable
          /\ blob' = [blob EXCEPT ![s][file] = target[file]]
          /\ attempt' = [attempt EXCEPT
                 ![t].at = IF left = {} THEN "manifest" ELSE "upload",
                 ![t].files = left,
                 ![t].late = @ \/ (~Owns(t) /\ target.snap # s)]
          /\ UNCHANGED rows
       \/ target.at # "complete" /\ GiveUp(t) /\ UNCHANGED blob
    /\ unchangedByAttempts /\ UNCHANGED <<reservation, target>>

\* The manifest makes the generation visible.
UploadManifest(t) ==
    LET s == attempt[t].snap IN
    /\ attempt[t].at = "manifest"
    /\ \/ /\ Fenced(t) /\ Readable
          /\ blob' = [blob EXCEPT ![s].manifest = target.snap]
          /\ attempt' = [attempt EXCEPT ![t].at = "complete",
                                        ![t].late = @ \/ attempt[t].short]
          /\ UNCHANGED rows
       \/ /\ ~Fenced(t) \/ target.at # "complete"
          /\ GiveUp(t) /\ UNCHANGED blob
    /\ unchangedByAttempts /\ UNCHANGED <<reservation, target>>

CompleteJob(t) ==
    /\ attempt[t].at = "complete"
    /\ attempt' = [attempt EXCEPT ![t] = EndedRun(t)]
    /\ rows' = IF Owns(t) THEN [rows EXCEPT ![attempt[t].key] = NoRow] ELSE rows
    /\ unchangedByAttempts /\ UNCHANGED <<reservation, target, blob>>

(***************************************************************************)
(* DELETE /dataset/{name}, which only an object has: rmtree, in its own    *)
(* time, then the reservation.                                             *)
(***************************************************************************)
unchangedByDelete == UNCHANGED <<global, source, request, rows, attempt, tokens, blob>>

Deletable == ~global /\ target.at # "absent"

Delete ==
    /\ Deletable /\ deletion = "none"
    /\ deletion' = "files"
    /\ target' = Partial
    /\ UNCHANGED reservation /\ unchangedByDelete

DeleteFiles ==
    /\ deletion = "files"
    /\ deletion' = "directory"
    /\ target' = EmptyTarget
    /\ UNCHANGED reservation /\ unchangedByDelete

\* rmdir, which fails silently when a dataset has taken the place meanwhile.
DeleteDirectory ==
    /\ deletion = "directory"
    /\ deletion' = "release"
    /\ target' = IF target.at = "empty" THEN Absent ELSE target
    /\ UNCHANGED reservation /\ unchangedByDelete

Release ==
    /\ deletion = "release"
    /\ deletion' = "none"
    /\ reservation' = None
    /\ UNCHANGED target /\ unchangedByDelete

-----------------------------------------------------------------------------
FirstSnapshot == [frame |-> 1, mask |-> 1]
NoBlob == [frame |-> 0, mask |-> 0, manifest |-> None]

\* Nothing yet, or a dataset of an object that was published and uploaded.
DatasetInit ==
    /\ source = FirstSnapshot
    /\ request = [q \in Requests |-> [at |-> "new", snap |-> None]]
    /\ attempt = [t \in Tokens |-> NoAttempt]
    /\ tokens = 0
    /\ deletion = "none"
    /\ rows = [k \in Keys |-> NoRow]
    /\ \/ /\ global \in BOOLEAN
          /\ reservation = None
          /\ target = Absent
          /\ blob = [s \in Snapshots |-> NoBlob]
       \/ /\ global = FALSE
          /\ reservation = FirstSnapshot
          /\ target = [at |-> "complete", frame |-> 1, mask |-> 1, snap |-> FirstSnapshot]
          /\ blob = [s \in Snapshots |-> IF s = FirstSnapshot
                                         THEN [frame |-> 1, mask |-> 1, manifest |-> FirstSnapshot] ELSE NoBlob]

Run(t) ==
    \/ Start(t) \/ CheckFrame(t) \/ CopyFrame(t) \/ CopyMask(t) \/ Recheck(t)
    \/ Publish(t) \/ ListFiles(t) \/ Upload(t) \/ PutFile(t) \/ UploadManifest(t)
    \/ CompleteJob(t)

Ask(q) == ReadFrame(q) \/ ReadMask(q) \/ Accept(q) \/ Create(q) \/ LoseRequest(q)

DatasetNext ==
    \/ \E q \in Requests : Ask(q)
    \/ \E k \in Keys : Claim(k) \/ LoseLease(k)
    \/ \E t \in Tokens : Run(t)
    \/ \E kind \in {"frame", "mask"} : Change(kind)
    \/ Delete \/ DeleteFiles \/ DeleteDirectory \/ Release

DatasetSpec == DatasetInit /\ [][DatasetNext]_datasetVars

-----------------------------------------------------------------------------
DatasetTypeOK ==
    /\ source \in [{"frame", "mask"} -> Versions]
    /\ reservation \in Snapshots \cup {None}
    /\ tokens \in 0..MaxTokens
    /\ \A k \in Keys : rows[k].state \in {"settled", "queued", "running"}
    /\ target.at \in {"absent", "empty", "partial", "complete"}
    /\ deletion \in {"none", "files", "directory", "release"}

(***************************************************************************)
(* A dataset is what its snapshot froze, although frames and masks change  *)
(* while it is built and its attempts are killed, repeated and overlap.    *)
(***************************************************************************)
PublishedIsSnapshot ==
    target.at = "complete" =>
       target.frame = target.snap.frame /\ target.mask = target.snap.mask

\* The types, and what a dataset is.
DatasetSound == DatasetTypeOK /\ PublishedIsSnapshot

(***************************************************************************)
(* A manifest in MinIO is that of its generation and comes with all its    *)
(* files, although they are uploaded from a directory that may be deleted  *)
(* and built again for another snapshot by then.  Excepted is a generation *)
(* one of whose executions lost its lease between its last look and the    *)
(* put of one file, by then of another dataset, or put the manifest after  *)
(* it had listed the files while they were being deleted: nothing keeps    *)
(* that put, or that manifest, from the generation.                        *)
(***************************************************************************)
TooLate(s) == \E t \in Tokens : attempt[t].late /\ attempt[t].snap = s

AdvertisedIsComplete ==
    \A s \in Snapshots : blob[s].manifest # None /\ ~TooLate(s) =>
       blob[s] = [frame |-> s.frame, mask |-> s.mask, manifest |-> s]
=============================================================================
