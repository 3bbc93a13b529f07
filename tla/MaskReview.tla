----------------------------- MODULE MaskReview -----------------------------
(***************************************************************************)
(* The review of the masks of one exported segment: the immutable          *)
(* revisions kept beside the masks (review_store.py), the requests that    *)
(* save them (routers/review.py), their index in PostgreSQL                *)
(* (sam3_run_index.py), the job that catches up with the index             *)
(* (run_mask_review_sync of worker.py) and the page of the reviewer        *)
(* (ReviewView.tsx), while SAM3 may publish the segment again.             *)
(*                                                                         *)
(* The image of a mask is the number of the save that drew it, 0 being     *)
(* what SAM3 drew; its checksum is that number too.                        *)
(***************************************************************************)
EXTENDS Naturals, FiniteSets, Sequences

CONSTANTS
    Tabs, Frames, Objs, None,
    MaxSaves,       \* bound: saves sent by the pages
    MaxVersions,    \* bound: publications of the segment
    MaxFailures     \* bound: saves that fail, or end with the process

\* What the proofs need to know of the constants.
Parameters == None \notin Nat /\ {MaxSaves, MaxFailures} \subseteq Nat /\ MaxVersions \in Nat \ {0}

Versions == 1..MaxVersions
Saves == 1..MaxSaves

VARIABLES
    version,        \* the publication the pointers lead to (_export_version)
    runs,           \* publications whose run is in annotation_runs
    reviews,        \* mask_review.json of each publication: the revisions of a frame
    images,         \* the PNG files of each publication
    index,          \* revisions and revision_instances of each run
    saves,          \* number of saves sent so far
    failures,
    page,           \* the review page of each tab
    save,           \* the save that holds the video fence, or Idle
    syncs           \* the mask_review_sync jobs, by the save that asked

storeVars == <<reviews, images, index>>
vars == <<version, runs, storeVars, saves, failures, page, save, syncs>>

(***************************************************************************)
(* Revisions.  A mask is in the file of the revision that drew it, in raw  *)
(* (0) when SAM3 did, or was deleted (None).  "id" is the save, "base" the *)
(* save, or 0, that its author saw in the frame, "shown" the publication.  *)
(***************************************************************************)
Raw == [o \in Objs |-> 0]
Unreviewed == [revision |-> 0, status |-> "none", masks |-> Raw, sums |-> Raw, id |-> 0]

Current(v, f) ==
    IF reviews[v][f] = <<>> THEN Unreviewed ELSE reviews[v][f][Len(reviews[v][f])]

\* Faulty: the number of the current revision is used again.
NextRevisionAgain(v, f) == IF Current(v, f).revision = 0 THEN 1 ELSE Current(v, f).revision

NextRevision(v, f) == Current(v, f).revision + 1

Changes == [Objs -> {"edit", "retain", "delete"}]
Ok == [status |-> "ok", change |-> [o \in Objs |-> "retain"]]
Updates == {Ok} \cup [status : {"edited"}, change : Changes]

\* effective_before; a frame that is ok, or not reviewed, shows the raw masks.
EffectiveBefore(v, f) ==
    LET c == Current(v, f) IN
    IF c.status = "edited" THEN c ELSE [c EXCEPT !.masks = Raw, !.sums = Raw]

Retainable(v, f, u) ==
    \A o \in Objs : u.status = "edited" /\ u.change[o] = "retain"
                        => EffectiveBefore(v, f).masks[o] # None

\* The entry save_frames prepares.
Prepared(v, f, u) ==
    LET before == EffectiveBefore(v, f)
        Pick(drawn, kept) == [o \in Objs |-> IF u.status = "ok" THEN 0 ELSE
                                CASE u.change[o] = "edit" -> drawn
                                  [] u.change[o] = "retain" -> kept[o]
                                  [] OTHER -> None]
    IN [revision |-> NextRevision(v, f), status |-> u.status,
        masks |-> Pick(NextRevision(v, f), before.masks), sums |-> Pick(save.id, before.sums),
        id |-> save.id, base |-> page[save.tab].visited[f].id,
        shown |-> page[save.tab].version]

(***************************************************************************)
(* The page of a reviewer.  It waits for the answer of its save, so that   *)
(* what it had seen is what it sends whenever the fence lets it in: the    *)
(* way to the server needs no state of its own.                            *)
(***************************************************************************)
Closed == [at |-> "closed"]
Idle == [at |-> "idle"]

\* open: GET segments/{segment}/review, under the fence.  Opening again, the
\* page drops its drafts.
OpenSegment(t) ==
    /\ save = Idle
    /\ page' = [page EXCEPT ![t] =
         [at |-> "open", version |-> version, visited |-> <<>>,
          known |-> {f \in Frames : Current(version, f).status # "none"}]]
    /\ UNCHANGED <<version, runs, storeVars, save, saves, failures, syncs>>

Shown(e) == [revision |-> e.revision, status |-> e.status, id |-> e.id]

\* GET mask-review/{frame} with the version of the page, which must still hold.
VisitFrame(t, f) ==
    /\ page[t].at = "open"
    /\ f \notin DOMAIN page[t].visited
    /\ save = Idle
    /\ page[t].version = version
    /\ page' = [page EXCEPT ![t].visited = [g \in {f} \cup DOMAIN @ |->
                    IF g = f THEN Shown(Current(version, f)) ELSE @[g]]]
    /\ UNCHANGED <<version, runs, storeVars, save, saves, failures, syncs>>

\* saveSegment: every frame was seen, now or in an earlier review; a frame is
\* sent when it has a draft, or no status yet.
Batch(t, updates) ==
    LET visited == page[t].visited IN
    /\ page[t].known \cup DOMAIN visited = Frames
    /\ {f \in DOMAIN visited : visited[f].status = "none"} \subseteq DOMAIN updates
    /\ \A f \in DOMAIN updates :
          visited[f].status # "none" => updates[f].status = "edited"

(***************************************************************************)
(* The server side of a save, under the fence to the end.                  *)
(***************************************************************************)
ShownIsCurrent(t) == page[t].version = version
RevisionsExpected(t, S) ==
    \A f \in S : Current(version, f).revision = page[t].visited[f].revision

\* _locked_export, and the first half of save_frames.  A conflict in any frame
\* refuses the whole batch before anything is written, and changes nothing.
Enter(t, kind) ==
    /\ page[t].at = "open"
    /\ save = Idle
    /\ saves < MaxSaves
    /\ ShownIsCurrent(t)
    /\ \E S \in SUBSET DOMAIN page[t].visited \ {{}} :
          /\ IF kind = "frame" THEN Cardinality(S) = 1 ELSE TRUE
          /\ RevisionsExpected(t, S)
          /\ \E updates \in [S -> Updates] :
                /\ kind = "batch" => Batch(t, updates)
                /\ \A f \in S : Retainable(version, f, updates[f])
                /\ save' = [at |-> "writing", tab |-> t, kind |-> kind, id |-> saves + 1,
                            updates |-> updates, rows |-> {}]
    /\ saves' = saves + 1
    /\ UNCHANGED <<version, runs, storeVars, failures, page, syncs>>

Drawn(u) == {o \in Objs : u.status = "edited" /\ u.change[o] = "edit"}

\* The PNGs of each frame go to the directory of the revision it will have.
WriteImages ==
    /\ save.at = "writing"
    /\ images' = [images EXCEPT ![version] = [f \in Frames |-> [n \in Saves |-> [o \in Objs |->
          IF /\ f \in DOMAIN save.updates /\ n = NextRevision(version, f)
             /\ o \in Drawn(save.updates[f])
          THEN save.id ELSE @[f][n][o]]]]]
    /\ save' = [save EXCEPT !.at = "written"]
    /\ UNCHANGED <<version, runs, reviews, index, saves, failures, page, syncs>>

\* The entries of the frames that are saved.
Entries == {<<f, Prepared(version, f, save.updates[f])>> : f \in DOMAIN save.updates}

Row(p) == [frame |-> p[1], revision |-> p[2].revision, status |-> p[2].status, id |-> p[2].id]

\* _index_revision_with_cursor: a row of that revision is left as it is, and
\* must have the same status.
SameRevision(old, row) == old.frame = row.frame /\ old.revision = row.revision

Indexable(v, rows) ==
    /\ v \in runs
    /\ \A row \in rows, old \in index[v] : SameRevision(old, row) => old.status = row.status

Indexed(v, rows) ==
    index[v] \cup {row \in rows : ~\E old \in index[v] : SameRevision(old, row)}

NewRows == {Row(p) : p \in Entries}

\* Whether before_commit returns: it raises when the frame cannot be indexed.
BeforeCommitReturns == save.kind = "frame" => Indexable(version, NewRows)

\* Faulty: the index does not wait for os.replace.
BeforeCommitAtOnce ==
    /\ save.at = "written" /\ BeforeCommitReturns
    /\ index' = [index EXCEPT ![version] = Indexed(version, NewRows)]
    /\ save' = [save EXCEPT !.at = "replacing", !.rows = NewRows]
    /\ UNCHANGED <<version, runs, reviews, images, saves, failures, page, syncs>>

\* before_commit: the projection reserves the mutation, and the request for
\* one frame indexes it in a transaction that stays open.
BeforeCommit ==
    /\ save.at = "written"
    /\ save' = IF BeforeCommitReturns
               THEN [save EXCEPT !.at = "replacing", !.rows = NewRows] ELSE Idle
    /\ UNCHANGED <<version, runs, storeVars, saves, failures, page, syncs>>

\* os.replace of mask_review.json.
Replace ==
    /\ save.at = "replacing"
    /\ reviews' = [reviews EXCEPT ![version] = [f \in Frames |->
          IF f \in DOMAIN save.updates
          THEN Append(@[f], Prepared(version, f, save.updates[f])) ELSE @[f]]]
    /\ save' = [save EXCEPT !.at = "committed"]
    /\ UNCHANGED <<version, runs, images, index, saves, failures, page, syncs>>

\* The transaction of the index ends, or the job of the batch is queued, which
\* may fail.  The page is left, or opened again.
Finish ==
    /\ save.at = "committed"
    /\ IF save.kind = "frame"
       THEN /\ index' = [index EXCEPT ![version] = Indexed(version, save.rows)]
            /\ UNCHANGED syncs
       ELSE /\ syncs' \in {syncs, [syncs EXCEPT ![save.id] = [at |-> "queued",
                  frames |-> [f \in DOMAIN save.updates |-> Current(version, f).revision]]]}
            /\ UNCHANGED index
    /\ save' = Idle
    /\ page' = [page EXCEPT ![save.tab] = Closed]
    /\ UNCHANGED <<version, runs, reviews, images, saves, failures>>

\* An error of the disk, of the projection, of the index, of the mirror, or
\* the end of the process: the transaction of the index is rolled back, and
\* the page keeps its drafts and the revisions it had seen.
Fail ==
    /\ save.at \in {"writing", "written", "replacing", "committed"}
    /\ failures < MaxFailures
    /\ failures' = failures + 1
    /\ save' = Idle
    /\ UNCHANGED <<version, runs, storeVars, saves, page, syncs>>

(***************************************************************************)
(* The job, in the CPU worker and without the fence.                       *)
(***************************************************************************)
Selected(v, f, revision) == {e \in {reviews[v][f][i] : i \in DOMAIN reviews[v][f]} :
                                e.revision = revision}

\* The manifest of the active publication is read; a revision it does not have
\* fails the job.
SyncRead(s) ==
    LET job == syncs[s] IN
    /\ job.at = "queued"
    /\ syncs' = [syncs EXCEPT ![s] =
         IF \E f \in DOMAIN job.frames : Selected(version, f, job.frames[f]) = {}
         THEN [at |-> "error"]
         ELSE [at |-> "read", frames |-> job.frames, version |-> version,
               entries |-> UNION {{<<f, e>> : e \in Selected(version, f, job.frames[f])} :
                                     f \in DOMAIN job.frames}]]
    /\ UNCHANGED <<version, runs, storeVars, saves, failures, page, save>>

\* index_revisions looks for the directory of the images and then for the
\* active publication again, and finds two when SAM3 publishes in between.  The
\* run of the latter may not be there, which is no error; an image that is not
\* there is one, and the job is tried again or given up.
SyncIndex(s) ==
    LET job == syncs[s]
        rows == {Row(p) : p \in job.entries}
        Found(dir) == \A p \in job.entries, o \in Objs :
            p[2].masks[o] \notin {None, 0} => images[dir][p[1]][p[2].masks[o]][o] # 0
    IN
    /\ job.at = "read"
    /\ \/ /\ version \notin runs
          /\ syncs' = [syncs EXCEPT ![s] = [at |-> "done"]]
          /\ UNCHANGED index
       \/ /\ Indexable(version, rows)
          /\ \E dir \in job.version..version : Found(dir)
          /\ index' = [index EXCEPT ![version] = Indexed(version, rows)]
          /\ syncs' = [syncs EXCEPT ![s] = [at |-> "done"]]
       \/ /\ version \in runs
          /\ ~Indexable(version, rows) \/ \E dir \in job.version..version : ~Found(dir)
          /\ syncs' \in {[syncs EXCEPT ![s] = [at |-> "queued", frames |-> job.frames]],
                        [syncs EXCEPT ![s] = [at |-> "error"]]}
          /\ UNCHANGED index
    /\ UNCHANGED <<version, runs, reviews, images, saves, failures, page, save>>

(***************************************************************************)
(* SAM3 publishes again, under the fence; its run is indexed at the end.   *)
(***************************************************************************)
Republish ==
    /\ save = Idle
    /\ version < MaxVersions
    /\ version \in runs
    /\ version' = version + 1
    /\ UNCHANGED <<runs, storeVars, saves, failures, page, save, syncs>>

IndexRun ==
    /\ save = Idle
    /\ version \notin runs
    /\ runs' = runs \cup {version}
    /\ UNCHANGED <<version, storeVars, saves, failures, page, save, syncs>>

-----------------------------------------------------------------------------
Init ==
    /\ version = 1
    /\ runs = {1}
    /\ reviews = [v \in Versions |-> [f \in Frames |-> <<>>]]
    /\ images = [v \in Versions |-> [f \in Frames |-> [r \in Saves |-> Raw]]]
    /\ index = [v \in Versions |-> {}]
    /\ save = Idle
    /\ saves = 0 /\ failures = 0
    /\ page = [t \in Tabs |-> Closed]
    /\ syncs = [s \in Saves |-> [at |-> "none"]]

Serve ==
    \/ \E t \in Tabs, kind \in {"batch", "frame"} : Enter(t, kind)
    \/ WriteImages \/ BeforeCommit \/ Replace \/ Finish \/ Fail

Next ==
    \/ \E t \in Tabs : OpenSegment(t) \/ \E f \in Frames : VisitFrame(t, f)
    \/ Serve
    \/ \E s \in Saves : SyncRead(s) \/ SyncIndex(s)
    \/ Republish \/ IndexRun

Spec == Init /\ [][Next]_vars

-----------------------------------------------------------------------------
Revision == [revision : Saves, status : {"ok", "edited"}, masks : [Objs -> 0..MaxSaves \cup {None}],
             sums : [Objs -> 0..MaxSaves \cup {None}], id : Saves, base : 0..MaxSaves,
             shown : Versions]

TypeOK ==
    /\ version \in Versions /\ runs \subseteq Versions
    /\ \A v \in Versions, f \in Frames : \A i \in DOMAIN reviews[v][f] :
          reviews[v][f][i] \in Revision /\ reviews[v][f][i].revision = i
    /\ images \in [Versions -> [Frames -> [Saves -> [Objs -> 0..MaxSaves]]]]
    /\ \A v \in Versions : index[v] \subseteq [frame : Frames, revision : Saves,
                                             status : {"ok", "edited"}, id : Saves]
    /\ save.at # "idle" => save.tab \in Tabs /\ save.id = saves

(***************************************************************************)
(* Every revision was made on top of the one before it, as its author saw  *)
(* it, in this very publication: two reviewers, a page that outlives a     *)
(* publication, and a save tried again after a lost answer included.       *)
(***************************************************************************)
RevisionsChain ==
    \A v \in Versions, f \in Frames : \A i \in DOMAIN reviews[v][f] :
       /\ reviews[v][f][i].shown = v
       /\ reviews[v][f][i].base = IF i = 1 THEN 0 ELSE reviews[v][f][i - 1].id

(***************************************************************************)
(* Revisions are immutable: every mask that a revision refers to, in the   *)
(* history as well, is in its file as it was when the revision was         *)
(* committed, although images are written before the manifest and a save   *)
(* that failed in between leaves its files in the way of the next one.     *)
(***************************************************************************)
MasksIntact ==
    \A v \in Versions, f \in Frames : \A i \in DOMAIN reviews[v][f] :
       LET e == reviews[v][f][i] IN
       \A o \in Objs : e.masks[o] \notin {None, 0}
                         => images[v][f][e.masks[o]][o] = e.sums[o]

\* Revisions have their types, form a chain and keep their masks.
RevisionsSound == TypeOK /\ RevisionsChain /\ MasksIntact

\* The revisions committed by a publication.
Committed(v) == UNION {{Row(<<f, reviews[v][f][i]>>) : i \in DOMAIN reviews[v][f]} : f \in Frames}

(***************************************************************************)
(* The index never has a revision that no manifest committed: one of a     *)
(* save that failed, or crashed, before its os.replace.                    *)
(***************************************************************************)
IndexedIsCommitted ==
    \A v \in Versions : index[v] \subseteq UNION {Committed(u) : u \in 1..v}

(***************************************************************************)
(* What the docstring of run_mask_review_sync says: the index of a run has *)
(* revisions that were confirmed for the masks of that run.                *)
(***************************************************************************)
IndexedWasReviewed == \A v \in Versions : index[v] \subseteq Committed(v)

=============================================================================
