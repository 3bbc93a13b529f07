# Verification of the data-labelling pipeline

TLA+ models of the concurrent core of this repository, the TLC runs that check
them, and TLAPS proofs of the two job queues and of what the workers and the API
make of them, of the library projection, of the publication of exports, SAM3 runs
and datasets, of the interactive SAM3 sessions, of the triage of an object, of the
review of masks, of the pipeline stage of a video and of the proxy cache.  Paths are relative to the repository (`src/` below
stands for its root).

## 1. The system

A team marks objects in videos (triage), the frames of the marked intervals are
exported, a GPU worker segments them with SAM3, people review the masks, and
datasets are built from what was reviewed.  Five kinds of process take part:
browsers, one API process (FastAPI, an event loop and threads; `run.py` starts it
with one worker), two or more CPU workers, one GPU worker, PostgreSQL.  The canonical data are
files (annotations, frames, masks, reviews, datasets); PostgreSQL coordinates
(jobs, advisory locks) and keeps a rebuildable index.

### Inventory

| Component | Source | State | Operations | Interacts with |
|---|---|---|---|---|
| Durable job queue | `pipeline_core/jobs.py`, `server/durable_jobs.py`, `migrations/001` | rows of `jobs`: state, attempts, lease token and expiry, cancel flag, result | create, claim (and reap), heartbeat, update_progress, retry_or_fail, finish, cancel, owned_job_lease | workers, API, SAM3 queue (same table) |
| CPU worker | `services/app/worker.py` | the job in hand, its token, heartbeat thread, `lease_errors` | claim loop, ten handlers, settlement | queue, every publication below |
| Export completion | `routers/annotations.py`, `video_export_completion.py` | annotation entry, projection intent | complete_export_internal, finalize_video_export | worker over HTTP, queue, advisory lock |
| Frame export | `server/export.py`, `worker.py` | export root, ownership marker, staging, trash, journal | publish_staged_export, recovery, cleanup | annotation entry, SAM3 worker reads the root |
| Library projection | `pipeline_projection.py`, `pipeline_reconcile.py`, `pipeline_mutation.py`, `routers/library.py` | events, one row per video, barrier per object | reserve, repair, apply, invalidate, listing | every writer of canonical files, advisory locks |
| Fences | `video_fence.py`, `durable_jobs.video_advisory_lock` | session advisory locks, local locks | acquire, release, cancellation while waiting | all writers of a video |
| Pipeline state | `pipeline_state.py` | none but a certificate beside the export: derives a stage from entry, row and control documents | inspect, audit, derive, certify | annotation entry, SAM3 queue, runs and reviews; read by library, projection and datasets |
| Annotation store | `server/store.py` | the document in memory, its file | load, mutate, mutate_threaded | routers |
| Triage locks | `server/locks.py` | lock per video with a TTL, mirrored to disk | acquire, steal, heartbeat, release | routers, browser |
| Registry, object lifecycle | `workspace.py`, `object_lifecycle.py` | `objects.json` and cached contexts | create, update, archive, restore, purge | projection barrier, purge job |
| SAM3 queue | `sam3_postgres.py`, `sam3.py`, `routers/sam3.py` | GPU rows of `jobs` | enqueue by revision, take, heartbeat, owned_lease, finish, cancel | export, GPU worker, annotation entry |
| SAM3 worker | `sam3_runner/queue_client.py` | one job, heartbeat thread, staging of a run | serve, process_job | SAM3 queue over HTTP |
| SAM3 runs | `pipeline_core/sam3_runs.py`, `sam3_run_index.py` | immutable generations, pointer `current.json`, SQL index | publish_generation, load_current_manifest, index | SAM3 queue, review, dataset |
| Interactive session | `sam3_session.py` | sessions with TTL, one pending preview | open, take, request_preview, take_command, deliver, close | browser, GPU worker |
| Mask review | `review_store.py`, `review.py`, `routers/review.py` | revisions per frame, certificate | save_frames (compare-and-swap), sync job | reviewers, queue |
| Datasets | `dataset.py`, `multiclass_dataset.py` | reservation, staging, manifest | reserve, snapshot, export, merge | queue fence, reviewed runs |
| Proxy cache | `proxy.py` | generations, window index, pins by use | start, publish, collect, evict | workers, frame requests |
| Job manager, single flight | `server/jobs.py`, `singleflight.py` | in-process tasks | run, cancel, subscribe, share | API only |
| Ingest, media, codecs, registry of models, observability, scripts, web client | see `PROJECT.json` | | | |

### What is hard, and what makes each part correct

* **Queue and workers.** Leases end while their holder still works; heartbeats,
  cancellations, settlements and the next claim interleave; a worker dies
  between any two steps.  Correct means: one lease in force per job, a late
  holder changes nothing, a cancellation is answered, nothing waits for ever,
  *done* means committed.
* **Export publication.** A directory of segments is replaced by renames that
  can be interrupted anywhere, also while the interruption is being repaired.
  Correct means: readers that recover first see one whole generation, and a
  repair is always possible.
* **Projection.** Three writers number their work from one sequence and apply it
  in any order, next to files that are the truth, some of which change without an
  event.  Correct means: *current* never misses an event that was announced, the
  library never uses a row of another source, and whatever went wrong, listing
  the library of an object that is not archived repairs it.
* **SAM3 queue and runs.** An export of an old revision may be enqueued late; a
  result commits in four places (pointer, entry, row, index) from coroutines,
  their threads and one event loop.  Correct means: one live job per video and
  never for an older annotation, only the lease in force publishes, *done* means
  that all four places have the run, the event loop never waits for itself.
* **Triage.** A lock that expires, is stolen, and comes back from an old mirror
  after a restart; requests of its former holder; a document that readers see in
  memory and the disk keeps.  Correct means: no save disappears under one that
  was not made on top of it, whoever holds the lock, and readers see nothing a
  restart takes back.
* **Mask review.** Revisions by compare-and-swap, images written before the
  manifest, an index that follows, SAM3 publishing again in between.  Correct
  means: revisions form a chain, each with its masks, for the publication its
  author saw, and the index has what was committed.
* **Datasets.** Sources change while a snapshot is turned into files; attempts
  die and overlap with their successors and with the deletion of the dataset.
  Correct means: what is published is what was frozen, and a manifest is only
  advertised with all its files.
* **Proxies.** Generations replaced, collected and evicted while readers resolve
  a pointer they read before.  Correct means: what is served exists, numbers of
  windows are not given twice, and the cache settles on the pointers.
* **Pipeline state.** A stage is derived from documents that saves, exports, SAM3
  jobs, overrides and reviews change one by one, and a certificate stands for an
  audit made earlier.  Correct means: *completed* is only said of what was
  exported, segmented and reviewed as it is now.
* **Interactive sessions.** Late answers, several pages, a worker that blocks on
  one session.  Correct means: the preview shown is that of the last boxes, and
  the GPU is given back.

The hazards, each at its line and with the properties that cover it, are listed
in `PROJECT.json`.

## 2. Plan

Modules in the order they are written, most important behaviour first:

1. `JobLifecycle` (abstract), `JobQueue` (detailed, implements it),
   `JobQueueProofs`.
2. `CpuWorker`, which closes `JobQueue` with its real callers; its proofs are in
   `JobQueueProofs` too, next to the facts about the queue they use.
3. `Projection`, `ProjectionProofs`.
4. `ExportPublish`; `PublicationProofs` proves about it and about `DatasetPublish`.
5. `Sam3Queue`, and `Sam3Publish`, which closes the queue with the API and the
   GPU worker; `Sam3Proofs` has the proofs of both, and of `Sam3Session`.
6. `Triage`, `TriageProofs`: annotation store, triage locks and the tabs of the
   browser.
7. `MaskReview`, `MaskReviewProofs`: the review store, its index, its job and its
   page.
8. `DatasetPublish`: reservation, generation, publication, upload, deletion.
9. `ProxyCache`, `ProxyCacheProofs`: generations, readers, collector, eviction.
10. `Sam3Session`: registry, worker, previews and pages.
11. `PipelineState`, `PipelineStateProofs`: the stage of a video over the
    documents it is derived from.

All of these exist.  What is left: the purge of an object, the box review of
segments without masks, and the export of a server without database.  Every
safety property that a run checks is also a theorem; the liveness properties are
only model-checked (section 5).

## 3. Modules

### JobQueue (and JobLifecycle)

State: `jobs` (the row of each idempotency key), `lastToken` (every claim draws
a fresh `gen_random_uuid()`), `rowLock` (the transaction left open by
`owned_job_lease`).  One action per committed statement:

| Action | Code |
|---|---|
| `Insert`, `Requeue` | `durable_jobs.create`: INSERT ... ON CONFLICT DO UPDATE of settled rows |
| `Claim`, `ClaimNothing` | `CLAIM_SQL`, reaping CTE and claim in one statement |
| `Heartbeat` | `heartbeat` and `update_progress` |
| `RetryOrFail`, `Finish` | `retry_or_fail`, `finish` |
| `RenewOwnedLease`, `BeginOwned`, `EndOwned` | `renew_owned_lease`, `owned_job_lease` |
| `Cancel` | `cancel`, `cancel_others`, `cancel_stale_video_exports` |
| `Expire` | the clock passes `lease_expires_at` |

Statements of lease holders may come at any time with any token ever drawn.
Time is abstracted to whether the expiry has passed; `FOR UPDATE SKIP LOCKED`
is the guard `Unlocked` of claims and reaping, a blocked UPDATE is an action
that is not enabled.  `now()` of a statement that was blocked is the time its
transaction started; a claim never blocks, and for a holder's statement this
only makes its own lease look younger, while the row lock kept others out.

`JobLifecycle` is the abstract specification: the states a submitter sees, who
may follow whom, without leases.  `ImplementsLifecycle` is the refinement, under
`Seen`, the mapping from a row to what `durable_jobs.get` shows.

### CpuWorker

EXTENDS `JobQueue`; its next-state relation uses the queue's actions with the
token a worker really holds.  `pc` is the place in `main()`, `beat` is the
heartbeat thread and the first entry of `lease_errors`.  A handler is the order
of its queue calls and its commit, one of three (`commitMode`, fixed from the start): *fenced* (dataset
exports and projection repair inside `owned_job_lease`), *reported* (video
export, committed by the API for the worker), *guarded* (everything else: one
`update_progress`, then the effect; the purge goes on when the answer says that
the job is cancelled, the others raise).  `Crash` may come at any place;
`HandlerFails` stands for any exception, and `LeaveFence` may fail or find the job
cancelled after the effect, which is a handler that commits in several places and
raises after the first; `Beat` ends in an error with the lease or without;
`Settle` may fail silently.

### Projection

One object.  `events`, `lastSeq`, `row`, `barrier` are the tables, `archived` is
the registry, `videoFence` and `objectFence` the advisory locks.  What the
identity of a source is derived from is in two variables, because only a part of
it announces its changes with an event: `canon` is the annotation, the published
generation and the reviews, `quiet` is what changes without one.

| Action | Code |
|---|---|
| `StartMutation`, `Reserve`, `Publish`, `EndMutation` | a mutation, which reserves its event before it writes; a reconciliation follows |
| `StartReplace`, `Replace` | `publish_staged_export` over an export the entry kept (`worker.py:485-509`), `save_override` and `clear_override`: the fence, and no event |
| `ChangeQueue` | the SAM3 row is submitted, taken, cancelled, reaped or fails: neither fence nor event |
| `StartRepair`, `LockVideo` ... `Apply` | a reconciliation: read under both fences, reserve, apply |
| `StartLifecycle`, `InvalidateObject`, `CommitRegistry` | `Workspace.update` of the archive flag, the label or the display name |
| `ListAndRepair`, `ListInVain` | a listing that enqueues a repair, and one that enqueues none: all is usable, or the object is archived and `get_object` answers 409 |

`Usable` is what the library asks of a row: *current*, and of the source the
library derives itself (`_verified_snapshot`).  `video_advisory_lock` also takes
the annotation key of the object, therefore there is one `videoFence` for all
videos.  Where `drops` holds, the server may drop the connection that holds a
fence.

### ExportPublish

One video.  Directories are functions from segment names to the attempt that
produced the frames; `journal`, `trash`, `staging` and `owner` are the files of
the protocol; `pc`, `holder`, `todo`, `moved`, `failing` are the one process
inside the lock.  Every rename is a step, but for the roll back of a cleanup, of
which `CleanupFails` takes any part at once: renames that failed are logged and
left.  `Crash` leaves the disk as it is; `PublishFails`, `RecoveryFails` and
`CleanupFails` are file system errors.  A refused
publication (no marker in an existing root, an incomplete publication after the
last rename) has no step, so that reaching it would be reported as a deadlock.

### Sam3Queue

The GPU rows of one video.  `jobs` are the rows in the order they were inserted,
`owner` the attempt whose `owned_lease` keeps the row locked, `caller` what each
enqueuing thread is about to do, `clock` the order of `now()`: a transaction of
`enqueue` begins (`BeginEnqueue`) before it gets the advisory lock
(`EnqueueAnswered`, `EnqueueNew`), and `created_at` is its begin.  `Take` is the
reaping UPDATE and the claim of `take`, `ReapElsewhere` the reaper in the claim
of the CPU workers, which looks at rows of every kind.  `Heartbeat`, `GetLease`,
`SettleFailure`, `OwnLease`, `CommitOwned` and `RollbackOwned` are the statements
of lease holders, enabled when the row is not locked.  Since a new submission is
a new row, job and attempt identify a lease.

### Sam3Publish

EXTENDS `Sam3Queue`.  What a run was made from is known by the annotation
revision of the frames in the export root (`disk`); `entry` is the annotation
with its export and its run, `generation`, `announced`, `pointer` and `indexed`
are where a run is recorded.  `request[l]` is the place of the POST of lease `l`
in `result`, `_finish_done_result`, `owned_lease_async` and `publish_generation`;
a step of a coroutine needs a free event loop (`LoopFree`), a step of a thread
(`Announce`, `SwitchPointer`, `LeaveLease`, enqueues) does not.  `loop` is the
statement the event loop waits for: `heartbeat`, `cancel` and `next_job` call
psycopg without a thread, and while one of them waits for a locked row nothing
else runs (`BeatWaits`, `CancelWaits`, `TakeWaits`).  `worker` is the GPU worker
with the two flags its heartbeat thread sets; the segments of a job are one
step.  `RequestRaises`, `RestartApi` and `CrashWorker` are the faults.

The code checks segments by the digests of their prompts, the model by revision,
so that two revisions are taken to differ: where they do not, the code accepts
what `RefuseGeneration` refuses.

### Triage

The registry of locks (`locks`, `tokens`), the annotation document of an object
in memory and on disk (`memory`, `disk`), the advisory lock and the lock of the
store (`fence`, `writer`, `draft`), and per tab the video it has open (`tab`) and
the mutation it sent (`request`).  `durable` chooses between a server with and
without database, that is with and without fence and reload.

| Action | Code |
|---|---|
| `Open`, `Heartbeat`, `Close`, `Expire`, `Restart` | `LockRegistry.acquire`, `heartbeat` (by `set_active_video`), `release`, `_live`, `bind` and `_load`; `open` and `close` of `annotator.ts` |
| `Load`, `Send`, `TakeAnswer`, `TakeError` | `get_one`; `save` and `markNoBoom` of `annotator.ts`, the first of which makes the tab read-only after a 409 that names another lock |
| `EnterFence` | `_video_mutation_lock` with `_require_lock` |
| `Apply`, `Flush`, `FlushFails` | `mutate_threaded` with `apply` of `put_one` or `mark_no_object`, `_flush` |
| `MarkCleanup` | the second fence of `mark_no_object`, which looks at no lock (`force=True`) and whose flush may fail |
| `FinishExport`, `Sam3Result` | the other writers: `finalize_video_export`, and `mutate`, which changes memory first |

An entry carries `seen`, the saves it was made from: a tab sends what it had
loaded plus its own save, so that `NoSaveOverwritten` says what the revision
check is for.  `Saved` keeps the export, as `put_one` does; `Emptied` takes it.
The notes of a no-object decision stay and the removal of the export is asked
for, as the client does.  A tab that is refused the lock opens the video
read-only in the code; here it stays closed, since it can change nothing.

### MaskReview

One segment.  `reviews`, `images` and `index` are kept per publication of the
segment, since a republication gives the review a new directory and the index a
new run.  A save goes through `Enter` (`_locked_export`, and the half of
`save_frames` that only looks), `WriteImages`, `BeforeCommit`, `Replace`
(`os.replace`) and `Finish`, all under the video fence; `Fail` may end it at
any of them.  `BeforeCommit` ends the save of one frame that cannot be indexed
(the `RuntimeError` of `sam3_run_index.py:568`) before the manifest is replaced.
`SyncRead` and `SyncIndex` are the job, which has no fence: the manifest, the
directory of the images and the active publication are three reads, and SAM3 may
publish between any two.  `page` is what a reviewer saw: the version, and the
revision of each frame visited.

### DatasetPublish

One name.  A source (the frame, the mask) is a version number, a snapshot a
version of each.  `ReadFrame` and `ReadMask` are `build_snapshot`, `Accept` and
`Create` the reservation and the job: one step under the reservation lock for a
dataset of the workspace, two for one of an object.  An attempt `t` is an
execution under the lease `t`; a zombie is an attempt that no longer owns its
row.  `Start` ... `Publish` are `export_snapshot_atomic` (and its multiclass
sibling, which differs in what it writes and in the name of its staging),
`ListFiles`, `Upload`, `PutFile` and `UploadManifest` the upload: the dataset is
validated, then listed with `rglob`, and its files are put one by one from a
directory that a deletion may be taking away.  `Delete` ... `Release` are the four
moments of DELETE: `rmtree` is not atomic.  `ShortLists` are the lists that a
deletion may leave, `short` an execution that has one; `late` marks one that put
the manifest after a short list, or a file of another dataset without its lease.
A settled row is one that is not there (`NoRow`): the next submission resets it, and
nobody asks how it ended.

### ProxyCache

One video, its full extraction and its windows.  An attempt extracts into a
staging generation (`Extract`) and publishes it under the file lock of its root
(`Begin`, `Place`, `Point`, `Finish`; a crash between the pointer and the mark of
the generation it replaces is one fault of `Point`); `Take`, `LocateFull`, `LocateWindow` and
`Resolve` are a reader, which reads the index, then a pointer, then the file,
without a lock.  `mark` is the time in the RETIRE_MARKER of a generation, as far
as it orders the generations of a root (`Now` is after every mark there is): the
collector keeps one with the latest, and two that it marks itself have the same.  `Collect`, `RemoveTrash`, `Evict` and `Reconcile` are the
maintenance of the CPU worker; `Age` lets the grace period of a generation pass,
which the code measures against the time a request takes.  Leases are left out:
any attempt may publish late.

### Sam3Session

`sessions` is the registry in the order of its dictionary; a session has the
number of its opening.  The routes run on one event loop and await nothing inside
an operation of the registry, so each is one action.  `gpu` is `run_session`:
`TakeSession`, `Load`, then `NextCommand`, `SegmentFrame` and `Deliver` in a loop,
`Polling` otherwise.  `previews` are the files of `_preview`, named by the number of the
test only, which two sessions of one segment share.  `tab` is a page, with the
session it shows and the state it believes.

### PipelineState

One video.  `entry` is its annotation, `job` its newest row in the SAM3 queue,
`files` the control documents of an export root: prompts, overrides, runs and
reviews of the segments, the pointer to the published generation, and the
certificate.  There are two roots, because what an earlier version exported has
no owner and its runs no generation.  A document is the boxes or the number that
tell it from its other versions; `Effective` stands for the digest of prompt and
override.  `Inspect`, `Audit` and `Derive` are the three ways to the stage, over
`Classify` and `Counts`.

| Action | Code |
|---|---|
| `Save`, `NoObject`, `PublishFrames`, `CompleteExport` | `put_one`, `mark_no_object`, `publish_staged_export`, `finalize_video_export` |
| `Enqueue`, `Take`, `Cancel`, `JobEnds`, `PublishGeneration`, `RefuseResult` | `routers/sam3.py` and the worker, with the queue as far as the stage looks at it |
| `SaveOverride`, `ClearOverride` | `save_override`, `clear_override`, which also cancel the job |
| `SaveFrame`, `SaveBatch`, `Certify` | `save_mask_review`, and `save_mask_review_batch` with `certify_completed_review` under the same fence |

`certifying` is the row a batch has read when it begins to certify: the queue does
not take the fence and may move on meanwhile.  The other modules have the steps
inside each of these actions; here they are one, so that long sequences of them
stay in reach.

### Composition in the runs

`MCPublication`, `MCEditing` and `MCSam3Queue` each put two modules side by side
that share no state in the code: the variable `part` chooses the one that runs.
`MCPublication` and `MCSam3Queue` extend both modules; where a module is an
instance, with constants of its own, its property is stated under its part, by a
definition of the same name.  `MCJobQueue` does it with
the statements of the queue in any order and with the workers that use them, and
`MCSam3Publish` with one publication in all its steps and with the stage that
many of them lead to, which are the same code at two depths.  Interaction is modelled
where there is one: `CpuWorker` over `JobQueue`, `Sam3Publish` over `Sam3Queue`.

## 4. Runs

| Run | Question | Bounds | Result |
|---|---|---|---|
| `queue` | who may hold, settle, cancel, retry; is the promised lifecycle kept.  Workers: does only the lease in force commit, is *done* committed, is a row lock left, is every submission settled, every cancellation answered | 2 jobs of different priority, 2 attempts, 2 submissions, reap limit 1; 1 job of each way to commit, 2 workers, 2 attempts | holds |
| `projection` | does *current* miss no event, do events keep their order, does the library of an object that is not archived become usable | 1 video, 2 processes, 2 contents of what is announced and of what is not, 2 changes, 2 faults; fences that hold or may be dropped | holds |
| `publication` | video export: atomic, recoverable until a cleanup runs, do completed exports keep their frames.  Dataset: is it what was frozen, is an advertised one complete | 3 segments, 3 revisions, 3 attempts, cleanups, 2 crashes, 1 error; 2 versions of frame and mask, 2 requests, 2 leases, an empty or a published start | holds |
| `sam3_queue` | one live job, never for an older annotation; does anything touch a row that is owned or settled.  Session: is the preview that of the last boxes, is the GPU given back | 2 enqueues of 2 threads, 2 revisions, 3 attempts; 2 pages, 1 segment, 2 sessions, 2 tests, 1 fault | holds |
| `sam3_publish` | is *done* complete, are generations immutable, is a publication current.  Stage: is what the library shows as completed exported, segmented and reviewed as it is now | 1 job, 2 attempts, 2 revisions, 1 fault; 1 job and 1 review of a frame, with 2 revisions and 1 override of 1 segment, or 1 revision of 2 segments, from nothing or from an earlier version | holds |
| `editing` | triage: is a save overwritten unseen, do readers see what a restart takes back, do cleanup marks stay where they belong.  Masks: are revisions a chain with their masks, is only what was committed indexed | 2 tabs, 2 videos, 2 saves, 2 lock tokens, 1 restart; 2 reviewers, 2 saves, 1 failure, 2 publications of one frame or 1 of two | holds |
| `proxy` | does what is served exist, are numbers of windows used once, does the cache settle | full extraction and 2 windows, 3 attempts in 4 orders, 1 reader, 1 fault | holds |
| `export_stuck` | is every journal recoverable with cleanups | 2 attempts, 1 crash, no error | **violated** |
| `sam3_loop` | does the event loop never wait for itself | 1 job, 1 attempt, no fault | **violated** |
| `eligible` | is what goes into a dataset of several classes shown as completed | the stage of 1 segment, as above | **violated** |
| `session_stuck` | is a session nobody has taken offered to the worker | 1 page, 1 session, 1 test, no fault | **violated** |
| `mask_index` | are the revisions indexed for a run those of its masks | as `editing`, masks only | **violated** |

Why the bounds are enough: two jobs show the claim order and a batch of the
reaper smaller than what is expired; two workers and two attempts show a
superseded holder against the next one, and a third would only repeat either;
two submissions show a late holder of an earlier life.  Two changes on top of
either of two contents show A, B, A; each is a mutation, a quiet change or a change of
the registry, so that every pair of them meets a repair.  Three segments over revisions {1,2}, {2,3}, {1,2}
show a segment kept, dropped and added; two crashes are a crash and a crash of
its recovery; three attempts follow both with a successful one.  Two enqueues of
two threads are two callers in either order of lock and clock; one fault with
one SAM3 job and two attempts is a crash between any two places of a commit and
its retry.  The properties of `sam3_queue` hold for three jobs of two attempts as
well, those of `sam3_publish` with two faults, and for two jobs of one attempt
without faults; these take minutes.

Two revisions of one segment are an export, its generation, its reviews and its
certificate, each of which can be of the earlier one; two segments, without
overrides, are a batch that completes one of them.  Runs of an earlier version
that are unfinished, without the fields of today or damaged come with two
segments, which is where a sound one could hide them.

Two tabs and two saves are a holder of a lock and the one who takes it away, in
either order; two videos are there because the document is one, so that a draft
for one video could take back a save of the other.  Two reviewers with two
saves are a conflict and a save after a failed one.  Two requests and two leases
are a dataset asked for twice, a zombie and its successor, or the job of a
deleted dataset and the next.  Three extractions replace a generation twice,
which the collector needs to have one to remove and one to keep.  A segment keeps
one preview file in the run (three in the code), so that two tests already push
one out.  In `publication` a shortened
list is empty, which misses all that a longer one may miss; the theorem has any
lists.  `editing`, `publication` and `proxy` have between three quarters of a
million and two and a half million states; larger instances of them do not end in minutes.

Deadlock is checked where the system cannot stop: in `projection` a listing that
enqueues nothing is the step that remains, in `publication` opening the root of
the export, in `sam3_publish` a worker that polls.  It is not in `sam3_queue`,
`editing`, `proxy` and the violations that share their modules: enqueues, saves
and extractions are bounded, and pages, reviewers and requests may simply stop.
The circular wait of `sam3_loop` is stated as an invariant, because the worker
goes on polling.

Every property has a mutant, an operator marked *Faulty* next to the one it
replaces, with which TLC finds the property violated.

### Fairness

`queue`, workers: workers that are up poll and advance (a process that dies is
restarted by Compose, `restart: unless-stopped`; it comes back idle), HTTP
requests end, and the expiry of a lease that nobody renews comes.  A handler is
not assumed to succeed, a crash is not assumed not to happen; the number of
attempts bounds both.  Expiry is only forced for leases nobody works under, so
that a live heartbeat is not assumed to lose against the clock, nor to win.

`projection`: processes that are up advance; advisory locks are granted in
the order of requests (PostgreSQL queues waiters), hence strong fairness of
`Lock`; the library of an object that is not archived is listed again and again,
and a listing enqueues the repair of what it could not use, hence strong fairness
of `ListAndRepair`.  Nothing is assumed of an archived object: `get_object`
answers 409 (`deps.py:37`), so nobody lists it and the row behind the barrier stays
as it is until the object is restored.  `EventuallyUsable` promises nothing of it
either.

`sam3_queue`, sessions: the worker is a loop (`WorkerStep`), and every read of
the registry expires what is idle, the reads of the worker included (`ExpireIdle`).
Nothing is assumed of the pages.

`proxy`: an attempt that holds the publication lock goes on, the grace period of
a generation passes, the maintenance thread (restarted with its worker) and its
rotating cursor reach every root, and readers end.  An extraction is not assumed
to end.

## 5. What is proved

`JobQueueProofs` proves, for any finite set of jobs, any number of attempts and
submissions, any priorities, kinds and reap limit (`JobQueueAssumption`): type
correctness, `RowsSound` (the four invariants about rows, each a theorem of its
own), `OwnedCommitExclusive`, the bound on attempts, the action properties
`SettledStays` and `CancelSticks`, and that `JobQueue` implements
`JobLifecycle`.

The argument: `TypeOK` is inductive alone.  The other invariants are not:
`LeaseIffActive` is needed to know that a row of the reaper is settled only
once, `TokensUnique` (with `token <= lastToken`) so that a fresh token is held
by no other row, `OwnedCommitExclusive` so that `EndOwned`, which rewrites the
expiry, finds an active row.  `RowInv` collects what each row satisfies by
itself and `QueueInv` is the conjunction; `InvariantStep` treats one statement
at a time.  For the action properties `RowStep` lists what one statement may do
to one row, and `StepsRowByRow` shows that every statement, however many rows it
writes, takes each row through one of those steps; refinement and `CancelSticks`
are then questions about single rows.

The same module proves about `CpuWorker`, for any set of workers and any number
of incarnations, that its specification implements `JobQueue`
(`WorkersRunTheQueue`), so that all of the above holds of the queue as the
workers, the API and the clock use it (`PromisesOfTheQueueHold`); and
`WorkersSound` and `FencedCommitByCurrentLease`.
`WorkerInv` adds to `QueueInv`: tokens in the hands of workers are different and
a worker at work has a heartbeat (`TokenInv`), a worker that commits in a fenced
transaction has its own token in `rowLock`, and every lock has such a worker or
an open API request (`LockInv`), the effect of an attempt is there before it
reports success and before the API answers (`CommitInv`).  `LockInv` with
`OwnedCommitExclusive` is the reason why a fenced commit is always that of the
lease in force: no statement changes the lease of a locked row.  Guarded commits
have no such line in the invariant, and no such theorem.

`Sam3Proofs` proves about `Sam3Queue`, for any finite set of enqueuing
threads, any number of jobs, attempts and revisions (`Sam3QueueAssumption`), all
that the run `sam3_queue` checks of the rows: `QueueTypeOK`, `OwnerKeepsRow`,
`OneLiveJob`, `SettledStays` and `EnqueueMonotone`.

The argument: `QueueTypeOK` and `OwnerKeepsRow` need that a token is the last
attempt of its row (`RowInv`).  `OneLiveJob` and `EnqueueMonotone` rest on
`UnansweredIsNewest`: an enqueue that is not answered asks for no older revision
than any known row, so that its UPDATE withdraws every pending one.  That in
turn needs the row `ORDER BY annotation_revision DESC, created_at DESC LIMIT 1`
returns to exist (`LatestExists`), hence `Stamps`: no two rows, two callers or a
row and a caller have the same `now()`.  The code relies on it without a
constraint in the schema; with two equal stamps the query still returns a row,
and one of the newest revision, so only the choice among equals is lost.
`TableStepKeeps` treats all statements that insert nothing at once, from what
each may do to a single row (`RowStep`); `NewKeeps` treats the insertion.

About `Sam3Publish` the module proves `TypeOK` (with the equivalence of row lock
and transaction), `DoneIsComplete`, `PublishIsCurrent`, `GenerationImmutable`,
and that all promises of the queue still hold when its statements are run by the
API, the worker and the publications (`QueuePromisesHold`;
`Sam3PublishAssumption` adds that the budget of faults is a number).  The heart
of `PublishInv` is `Published`: from the generation on, a request that publishes
finds the row leased and not cancelled and the annotation at the revision of the
row, and each store it has passed holds the run.  Two things keep it true while
other requests, enqueues and saves go on: the fence of the video, which admits
one request at a time, and no enqueue by the completion of an export beside it
(`FenceInv`), and the row lock, under which nothing but the request itself
changes the row (`LockInv`, and `SameJob` of each statement).  A result is sent
once per lease, by an attempt that was claimed (`SentInv`); what was segmented
was on disk (`FramesInv`), so that a generation has frames; no row and no caller
is ahead of the annotation (`RevisionInv`), which is why a save makes every row
outdated.  `NoCircularWait` is not proved: `sam3_loop` refutes it.

About `Sam3Session` it proves `SessionsSound` (the types, and
`PreviewOfLastBoxes`), for any sets of pages and segments and any number of
sessions, tests, previews kept and faults (`SessionAssumption`: the bounds are
numbers, and at least one preview is kept).  `SessionsInv` needs, besides types,
one statement about the session on the GPU (`Serves`): when it is ready with a
preview it waits for no answer, the worker has none in hand, and the file of its
last test is there.  It is kept by the only three things that could break it.  A
new test raises the number, so that an answer on its way is no longer that of
`seq` (`deliver`).  A file is written only while the worker tests, when the
session is not ready with a preview or is about to be told of this very file,
which comes first in the directory (`NewestFirst`), so that keeping one is
enough.  And nobody but the worker it serves has taken the session: one that was
not taken has shown nothing, and what another session of the segment writes over
the files belongs to an earlier or a later time on the GPU.  `GpuIsReleased` is
liveness, and `WaitingIsOffered` is what `session_stuck` refutes.

`PublicationProofs` proves about `ExportPublish`, for any finite set of segments, any number of
revisions, attempts, crashes and file system errors and any assignment of
non-empty segments to revisions (`ExportAssumption`), `TypeOK`,
`WholeGeneration`, `CompletedHasFrames` and `PublishIsAtomic`; and
`JournalRecoverable` for as long as there was at most one file system error.
The bound is real and not one of the proof: a second error while the first is
being recovered removes the staging that the journal still needs
(`export.py:785`), so the property is false beyond it, and the run has
`MaxIoErrors = 1` for that reason.

The argument: `ControlInv` says who is inside the lock and what each attempt has
staged.  `JournalInv` describes what is on disk while a journal is pending:
where each old and each new segment is (root, trash or staging) after every
prefix of a publication and of a roll back, interrupted at any point.  What a
reader would find, `Shown`, is then the output of one attempt (`ViewInv`); it
changes when the last new segment is in place and the marker written, which is
`PublishIsAtomic`.  `CompletedHasFrames` follows: the completion finds no
journal and the marker of the revision, hence the output of an attempt for it; a
later commit is that of an attempt for the current revision, since only such a
one gets inside the lock; and a roll back restores what was shown.  A cleanup
may begin while a journal is pending; `JournalInv` then speaks of the root as it
was when the cleanup began (`Before`).

`MaskReviewProofs` proves, for any sets of tabs, frames and objects and any
number of saves, publications and failures (`Parameters`: `None` is no number,
the bounds are, and there is a publication), `RevisionsSound` (`TypeOK`,
`RevisionsChain`, `MasksIntact`) and `IndexedIsCommitted`; and that histories
only grow (`HistoriesGrow`, which no run needs a property for).

The argument: a revision has its place in the history as number and refers to no
image of a later one (`EntryInv`); a save draws images only at the number after
the last, so that the files a failed save leaves behind belong to no revision,
and a later save of the same number draws its own over them before it refers to
them (`DrawnInv`).  A page has seen a prefix of a history (`PageInv`).  What
Enter established, the number of the revisions the author saw, stays true until
the manifest is replaced, since the fence keeps other saves and publications
away (`UncommittedInv`); this is the step the chain rests on.  Histories only
grow, so the rows a job has read without the fence, and those already in the
index, remain rows of committed revisions (`JobInv`, `IndexInv`).  That they are
indexed under the right run is false (`mask_index`).

About `DatasetPublish` the same module proves, for any sets of requests and any
number of versions and leases, and whatever lists a deletion may leave
(`DatasetAssumption`), `DatasetSound` (the types,
and `PublishedIsSnapshot`) and `AdvertisedIsComplete`.

The argument: an execution has copied a frame that is no older than the one of
its snapshot, and no newer than the one on disk; the recheck finds the disk
still at the snapshot's, so both bounds meet (`AttemptInv`).  The mask needs no
second look, its checksum is that of the bytes used.  For the uploads, an
execution that owns the row and finds a dataset finds its own (`SendingInv`),
for two different reasons.  A name of the workspace is kept for one snapshot by
its reservation and is never deleted (`GlobalInv`).  A name of an object may be
deleted and built again at any time, but it has one row (`ObjectInv`), tokens
are handed out once (`TokenInv`), and so there is one owner and nobody else
publishes while it owns the row.  What can be read of a dataset, while it is
being deleted too, is what its snapshot froze (`ReadableInv`).  Hence a file put
under the lease is the snapshot's, and remains so (`FilesInv`) unless an execution
for it put a file too late, or the manifest after a short list (`TooLate`), the
exceptions the property names.

`ProjectionProofs` proves, for any sets of processes, videos and values, any
number of mutations and any budget of faults (`ProjectionAssumption`: `Nobody`
is no process, `Archived` is no content and no source of a video),
type correctness, `EventsInOrder` and `CurrentMissesNoEvent`.

The argument: `TypeInv` adds to `TypeOK` what a process has in hand at its place
(`InHand`: the event it reserved, the state it read).  `EventsInOrder` follows
from it statement by statement and needs no fence.  `CurrentMissesNoEvent` needs
`CanonInv`, in three parts: which fences a process holds at its place and what
it knows there (`PlaceInv`), that a pending event is newer than the row of its
video and only a reconciliation applies one (`EventInv`), and that a row beyond
the barrier with no live event above it shows what was announced (`RowInv`, by
`Announced`).  `RowInv` is
preserved by a write to `canon` only because the writer holds the fence and
has reserved an event that is still pending, and by `apply_intent` only because
the state it writes was read under the same fence: the two facts `PlaceInv`
keeps.  Quiet changes touch none of this, wherever they come.  The theorem says no
more than that: of `quiet` a *current* row may be behind (section 6), and the
library is protected by its own comparison, which is in `Usable`.  The two facts
fail once a fence is dropped, so the invariant is `SafeInv`,
`CanonInv` where `drops` does not hold.

`TriageProofs` proves, for any sets of tabs and videos, any number of saves,
lock tokens and restarts (`TriageAssumption`), type correctness, `EntriesSound`
and `NoSaveOverwritten`.

The argument: memory and disk agree on every entry but for a SAM3 mark that was
not flushed (`EntryInv`); the draft of the writer is `Newer` than what is on
disk (`WriterInv`), and a revision stands for one content; whoever has seen a
revision, a tab, or a request on its way, has either seen an old one or
everything that is on disk (`Sound`, in `RequestInv` and `TabInv`).  The last is
why `_require_revision` is enough: a request with the current revision was made
on top of all that is committed.  The triage lock appears nowhere in the
invariant: it spares people conflicts, and protects no save.

`PipelineStateProofs` proves, for any finite set of segments and any number of
revisions, overrides, jobs and reviews (`Parameters`: `None` is no number; the
module is only instantiated by the run, which assumes it of both instances),
`StagesSound` (`TypeOK` and `CompletedIsEarned`).

The argument: `Derive` reads what it needs at the moment it is asked, except for
two things it takes on trust.  That the masks of a certified output are intact
was established by an audit in the past: `CertifiedSoundly` says that a
certificate names a finished entry, a settled row and outputs that are there and
reviewed, and that without a generation the masks it was made for still are
intact, which holds because nothing rewrites them but a new export, which starts
from none.  A certificate may well be stale in everything else: `Certified`
compares the identity again (`Identity`), and the proof uses nothing else of it.
That masks in a root with an owner are for the boxes of the annotation is only
implied by numbers: `OwnedInv` says that an export that carries the revision of
the entry lies there with the boxes of the entry.  `Counted` is the one place
where cardinalities matter: as many reviewed segments as counted ones, with none
refused or absent, are all the segments.

`ProxyCacheProofs` proves, for any sets of windows and readers, any number of
attempts and faults and any roots the attempts extract for (`CacheAssumption`),
`CacheSound`; and `ServedFrameExists` for as long as there was at most one fault.
The bound is real: when a crash between the mark and the unlink of an eviction
leaves CURRENT on a generation that is marked, and the next publisher then fails
to mark it again, its grace period may be over while a reader that resolved it
late is still served.

The argument for `CacheSound`: a sequence is handed out under the lock of the
index (`LocksInv`) and is one more than all before, published or not, so that
there are as many as attempts that took one (`SequencesInv`; a reader of the
index finds no two windows with the same, `IndexedIsReadable`).  That the counter
stays in its bound is the one place where cardinalities matter.  What CURRENT
names was placed under the lock of its root and is never stale, so the collector
leaves it until a publication or an eviction has taken it out of CURRENT
(`CurrentInv`).  The
argument for `ServedFrameExists`: a reader has no lock, and what protects it is
the order of mark, pointer and age.  Without a fault CURRENT is not marked
(`FaultlessInv`), so that who resolves a generation does so before its mark, and
the grace period outlasts the reader; after one fault a generation may be
resolved after its mark, but only while CURRENT names it, and then the next
publisher marks it again (`ServingInv`).

Only model-checked: liveness (`EverySubmissionSettles`,
`CancellationIsAnswered`, `EventuallyUsable`, `GpuIsReleased`, `CacheSettles`),
which is out of the prover's reach.  The properties of `CpuWorker`, `MaskReview`
and `PipelineState` are checked in composed modules (section 3), which repeat
them, under the same name, with a guard that says which part runs; the theorems
are about the modules themselves.

## 6. Disagreements found

* `export_stuck`: `run_video_export_cleanup` does not open the root through the
  journal.  A publication that crashed half-way leaves the marker of the old
  generation; a cleanup of that generation then deletes what the journal needs
  for its rollback, and every later opening of the video's export fails.
* `sam3_loop`: the heartbeat, cancel and take routes run their UPDATE on the
  event loop.  The worker's heartbeat thread still beats while its result is
  published, and the row is then locked by a transaction whose next steps need
  that event loop.  There is no lock timeout: the API stops.
* `session_stuck`: `request_preview` turns a session *busy* that no worker has
  taken, and `take` offers only sessions that are *opening*.  The page asks for
  the preview right after it opened the session, so unless the worker comes in
  between, the segment is never loaded while the page waits.
* `eligible`: the datasets of several classes choose their videos by
  `inspect_pipeline_entry`, the library shows `derive_pipeline_source`.  A save
  keeps the status *done* and the export of the earlier revision, and asking for
  SAM3 by hand submits that export under the new revision.  Its result can be
  reviewed; the video then goes into the dataset with masks of the old boxes
  while the library calls it invalid.
* `mask_index`: `run_mask_review_sync` reads the manifest without the video
  fence, and the active run is looked up after that.  A publication of SAM3 in
  between puts the review of the old masks into the index of the new run.

Seen while modelling, without a run of their own:

* Handlers that commit behind `publish_guard` (`worker.py:271`) check the lease
  and then act without a lock on the row: a superseded worker can still publish.
  The design document (`docs/superpowers/specs/2026-09-08-reliability-redesign-design.md:66`)
  says it loses that right.  Commits under `owned_job_lease` are safe
  (`FencedCommitByCurrentLease`).
* A *current* row may be behind what changes without an event: a re-export
  replaces `prompt.json` (`worker.py:485-509`), `save_override` replaces
  `prompt_override.json` (`routers/sam3_session.py:139`) and the SAM3 row changes by
  enqueue, take and cancel (`routers/sam3.py:93`), and all three are in the derived
  identity (`pipeline_state.py:641`, `:739`).  The row says *current* until the export completes or
  the library is listed; after a crash of the worker only the listing is left.  The
  library is not deceived, since `_verified_snapshot` compares the identity
  (`library.py:93`): that comparison is needed, and not a second line of defence.
* A dataset file is put right after the lease was looked at, without the row
  lock the manifest is put under (`worker.py:897-911`).  A worker that loses its
  lease there may overwrite a file of an advertised generation from a directory
  that was deleted and built again.  A dataset is listed with `rglob` after it was
  validated (`worker.py:883-893`): a deletion in between shortens the list, and when
  the same dataset is built again before the manifest is put, a generation is
  advertised with files missing.  `AdvertisedIsComplete` excepts these two.
* `sam3_postgres.py` lists the row with the latest `created_at`, which is the
  begin of a transaction, while `enqueue` decides by revision: with two enqueues
  under way the library can show the cancelled job of the older revision.
* In the situation of `eligible` a batch that completes the review makes
  `certify_completed_review` write a certificate that its own derivation then
  refuses; it raises, and the batch reports the error though it is saved.
* The two derivations also differ on complete runs of an earlier version, which
  the library wants audited and the dataset takes as they are;
  `EligibleIsCompleted` leaves those out.
* The page of the SAM3 view means to close its session when it is left, but the
  effect (`Sam3View.tsx:116-122`) has the session of the first render; a late
  result sets a closed session *ready* again (`sam3_session.py:258`).  Both only
  delay what `GpuIsReleased` promises until the session expires.
* A reservation without a dataset stays: deletion refuses a name that has no
  directory, and datasets of the workspace have no deletion at all, while the
  comment of `dataset_target_job_reservation` counts on it.
* In `queue_client.py` the branch for 401 and 503 of `next_job` comes after the
  one that catches its base class.

Visible in `Segment` of `Sam3Publish`, without a run of its own: segments are
staged under the lease, so that a retry never finds what the interrupted attempt
finished, which the comment in `queue_client.py` on the per-segment marker says
it does.

## 7. Not modelled

The payloads of jobs and the results of handlers; wording, progress and logs.
Durability below the file system: a rename is assumed durable in the order it
was made, as the `fsync` calls intend.  A lost database connection is noticed in
`CpuWorker` (the row lock goes with it) but not the possibility that a worker
goes on inside a fence it lost; `projection` treats that for the projection.
The single-process mode without `DATABASE_URL`, except in `Triage`.  Pixel data,
codecs, ffmpeg and HTTP serving.

* SAM3: the file-backed queue, several videos competing for one worker,
  the choice and loading of models, the route that reads a preview.
* Triage: `force=1` on saves, an error of the mirror of the locks, the
  cancellation of stale exports, the removal of the export refused by the user, a
  dropped fence connection, history and backups of the document.
* Mask review: the mirror in MinIO, the box review (`review.json`), the lock of
  the video, the reservation in the projection (that is `Projection`); the batch
  without frames is in `PipelineState`.
* Datasets: what is selected, formats, classes and splits, left-over stagings.
* Proxies: `clear_cache`, indexes of older schemas, the bound on removals per
  sweep and its cursor, the choice of the root to evict, status requests.
* Pipeline state: documents that are malformed, too large or symlinks (each makes
  the stage invalid where it is read), counts of edited frames, pointers older
  than immutable generations, override copies inside generations, frame counts,
  dimensions or objects that contradict each other, segments of several frames,
  re-exports that change which segments there are.
* Objects: the purge.  Its repetition does meet what earlier attempts left: it
  asks whether the object is still registered and archived (`worker.py:1117`) and
  has the same roots (`:1132`), and moving the datasets away refuses one that is
  there already (`object_lifecycle.py:230`).  What an interrupted
  purge leaves to the next is therefore not checked here.
* Projection: the shape checks of `_verified_snapshot` (`library.py:95-139`), which
  only make more rows unusable; a video that appears or disappears with a rescan,
  which is one more quiet change.

The components marked `not_modelled` in
`PROJECT.json` are pure input and output, or single-threaded in one process.
