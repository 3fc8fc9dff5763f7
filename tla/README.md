# A2D Smart Notebook: TLA+ models and proofs

A2D turns paper pages that carry a QR identity into a searchable library: an
Android app (Kotlin) captures and reviews photographs, a Rust core processes and
registers them, SQLite keeps the rows, plain files keep the images, and a
durable queue runs text recognition over registered scans. This directory
models the parts of that program whose correctness depends on the order of
events: threads, crashes, retries, cancellations, late results.

Every definition is a translation of code under `src/`; `PROJECT.json` names
the lines each stands for.

## 1. Inventory

### 1.1 Components, their state and their operations

| Component | Where | State | Operations |
|---|---|---|---|
| Durable OCR queue | `a2d-core/src/ocr*.rs`, `a2d-storage/src/ocr_*repository.rs`, migration 0011 | tables `ocr_jobs`, `ocr_runs`, text regions, search projection | enqueue, claim (with recovery of interrupted work), cancel, finalize, manual retry, record + complete (older pair) |
| Android OCR executor | `feature/ocr/OcrQueueExecutor.kt`, `OcrWorkflow.kt`, `MlKitAndroidOcrProvider.kt` | one worker thread, `runningJobId`, `workerThread`, delayed drains, `closed` | resume, enqueueRegisteredScan, drain/processNext, cancel, close |
| Asset files | `a2d-storage/src/assets.rs`, `asset_platform.rs`, `asset_recovery.rs` | `tmp/`, the final directories, table `assets` | commit (write, flush, seal, sync, verify, finalize, sync, remove), orphan discovery |
| Scan registration | `a2d-core/src/milestone9.rs`, `a2d-storage/src/repository/capture.rs` | registration journal, four assets, rows of one transaction, recovery token | register_scan |
| Revisions and the preferred scan | `a2d-storage/src/revision.rs`, `preferred_scan.rs`, migrations 0004-0008 | `scans.is_preferred`, `pages.preferred_scan_id`, physical copies, workflow context, audit events | record_scan_revision_decision, change_preferred_scan |
| Review items | `a2d-storage/src/review*.rs`, `a2d-core/src/review.rs` | review decisions, page review state | list, decide |
| Batch scanner | `a2d-core/src/batch_scanner.rs`, `feature/scanner/singlepage/ScanRegistrationRequest.kt` (the view model) | the session file: per capture Queued, Saved or NeedsReview, its scan and review item; completed or not | begin, queue, register, report, reconcile, complete, acknowledge |
| Scanner recovery | `a2d-core/src/scanner_recovery.rs` | one JSON record per recovery token (Captured, PreviewReady, Registering, Committed) beside its staging picture | begin, list, mark preview ready / registering / committed, reconcile, discard, acknowledge |
| Auto capture | `feature/scanner/capture/AutoCaptureStateMachine.kt` | phase, stability window, capture token, cooldown | frame, capture started/finished/failed, reset |
| Camera scheduling | `feature/scanner/camera/*.kt` | the frame in flight, the generation | submit, result, close |
| Single-page session | `feature/scanner/singlepage/*.kt` | the page being reviewed, the work in flight | capture, process, accept, retake |
| Version history | `version_history.rs` (core and storage), `feature/pages` | a derived view; the screen's list, selection and one coroutine | list, decide, prefer |
| Notebooks and page identity | `notebook.rs`, `workflow.rs`, `page_resolution.rs`, `NotebookViewModel.kt` | notebook rows, the active one | create, archive, activate, resolve a code |
| Page-set generation | `milestone6.rs`, `generation_policy.rs`, `SmartPages*.kt` | the PDF asset, page-set rows, preview bitmap, the request to save | generate, preview, save, share |
| Library migrations | `a2d-storage/src/migrations.rs`, `migration_history.rs` | schema version, names, digests | open, validate, seal, migrate |
| Regions, corrections, search | `ocr_regions.rs`, `search.rs`, `text_region_repository.rs`, `A2dNavHost.kt`, `OcrReadback.kt`, `OcrSearchScreen.kt` | runs, regions, corrections, the search projection; the viewer's and the search screen's states | record, correct, search, read page by page |
| Integrity check | `a2d-storage/src/integrity.rs` | none (a report) | check, cancel |
| Scan policies | `RustScannerPolicySession.kt`, `PolicyAwareQrEvents.kt`, `generation_policy.rs` | the policy in view and the one reviewed, one per process | update, clear, read, mark reviewed |
| Native calls | `PolicyPreviewNative.kt`, `a2d-ffi/src/preview_processing.rs`, `live_analysis.rs` | the cancellation handle, result and error buffers | call, cancel, close |
| Scan comparison | `a2d-core/src/scan_comparison.rs`, `a2d-image/src/{change_regions,content_comparison,fingerprint}.rs` | none kept; the search for regions has its own | compare |
| OCR contract | `a2d-ocr/src/lib.rs` | a job's record in memory, unused since the durable queue | request, start, complete, cancel |
| Image processing | `a2d-image`, `policy_preview_processing.rs` | the buffers of one processing, the flag of its cancellation | decode, detect, plan, rectify, derive, measure, judge |
| QR identity | `a2d-identity/src/qr.rs`, `a2d-domain/src/id.rs` | none (pure functions) | encode, parse |
| Layouts, PDF | `a2d-layout`, `a2d-pdf` | none (pure functions) | layout, render |

### 1.2 How they interact

- The app calls Rust through the FFI. Every call that reads or writes rows takes
  one mutex around the storage handle (`A2dCore::lock_storage`), so a call is one
  or more *critical sections*. What a call read in one section may be stale in
  the next one; the wall clock is read before the mutex is taken.
- Inside a section, writes either share one SQLite transaction (finalize,
  register, the revision decisions) or are autocommitted one by one (recovery of
  interrupted jobs). A crash or an error separates autocommitted writes.
- Files and rows are not in one transaction. Registration writes the files first,
  then the rows; a crash between leaves orphan files, never rows without files.
- Recovery records, staging pictures and the session file are plain files that
  are read, changed and renamed into place without a lock. A coroutine of the
  batch screen that has entered a `withContext(IO)` block runs to its end even
  when its screen is gone, so two screens' coroutines may interleave on them.
- The OCR worker is a single thread. It talks to the queue only by FFI calls. The
  page viewer calls the same FFI functions without telling the worker.
- The scan policy of the page in view is kept once per process: the code handler of
  a screen writes it, the processing of a picture on an IO thread reads it and
  marks it reviewed, a registration gives it as evidence.
- View models run one operation or several coroutines on the main thread. What such
  a coroutine does on an IO thread runs to its end though the coroutine is
  cancelled; its result is applied, or dropped, by the main thread later.

### 1.3 What is hard

Late and repeated results of an earlier attempt; a cancellation that races the
result; a crash between the writes of a recovery; a retry time that outlives the
process; the compare-then-interrupt of `cancel`; two callers between enqueue's
check and its insert; a clock that goes backwards; a row that an older build left
at the attempt limit; a file commit cut by a crash or a power loss; a
registration repeated after a crash; a preferred-scan change that was proposed
from a view that is no longer current; a capture or analysis result that arrives
for a session that is over; pages of a list read one by one while the list
changes; an upgrade of the database cut anywhere and continued by another build;
native memory that one thread frees while another uses it; a process that ends
behind a document picker. The list, line by line, is `hazards` in
`PROJECT.json`.

### 1.4 What makes each part correct

- *Queue*: one running job, one active job per scan, text only from the current,
  uncancelled attempt, at most one result per attempt, bounded attempts,
  settled jobs stay settled, cancellation is never lost.
- *Executor*: waiting work always has a drain; work interrupted by a crash is resumed; only requested jobs are
  cancelled.
- *Assets and registration*: a registered asset has a durable, verified file
  under its final name, no file is ever overwritten, and a repeated registration
  does not register twice.
- *Revisions and preference*: a page has exactly one preferred scan once it has
  any, the pointer and the flag agree, and it moves only by an explicit decision
  taken on the current state.
- *Batch scanning*: a picture is registered at most once and never disappears
  before it is; what the session and the records call saved is a row; a completed
  batch has nothing queued; the records can always be listed.
- *Camera*: one capture at a time, no result of an earlier session is applied, no
  frame is forgotten; the policy in force belongs to the page and notebook in view.
- *Text*: nobody reads half of a text; the index holds what was detected and no more.
- *Notebooks*: a scan goes to a notebook of its design that the user could name.
- *Opening*: what the schema records is what ran, whatever cut it.
- *Native calls*: memory is there while used, freed once, and freed at last.
- *Pictures*: what a plan accepts is read inside the picture, what was approved is
  registered, within the budget; a better picture never gets a worse verdict, and what
  is measured of a page is a number whichever way up it lies.
- *Comparison*: regions of change are all there is and nothing else; two scans are called
  equal only if they are.
- *OCR contract*: nothing unchecked is kept, no attempt is promised that cannot be made.
- *QR identity*: what is printed is read back as it was, and nothing else is read as it.

## 2. The modules

| Module | What it is | Extends |
|---|---|---|
| `OcrJobTable` | the rows of `ocr_jobs`, the queries over them and what each operation writes into a row; no variables | |
| `OcrQueue` | all calls on the queue by concurrent callers, one mutex, crashes | `OcrJobTable` |
| `OcrLifecycle` | the abstract job lifecycle the queue promises | |
| `OcrQueueProofs` | theorems about `OcrQueue` | `OcrQueue`, TLAPS |
| `OcrExecutor` | the worker thread and everything around it | `OcrJobTable` |
| `OcrExecutorProofs` | theorems about `OcrExecutor` | `OcrExecutor`, TLAPS |
| `BatchScan` | capture, recovery records, session file, registration and completion of a batch, by the coroutines of one or more screens | |
| `BatchScanProofs` | theorems about `BatchScan` | `BatchScan`, TLAPS |
| `AutoCapture` | the auto-capture machine: one function per method, over a machine's state; no variables | |
| `AutoCaptureMachine` | the machine alone, driven by arbitrary frames, requests and callbacks | `AutoCapture` |
| `SinglePageSession` | the single-page scanner screen: view model, coroutines, effect, camera, recovery dialog, records | `AutoCapture` |
| `FrameScheduler` | the two frame schedulers with their lock, their worker and the reports made after the lock | |
| `PolicySession` | the scan policy of the page in view and of the picture under review | |
| `NativePreview` | native calls that borrow a cancellation handle which others cancel and close | |
| `PageGeometry` | quadrilaterals, the projective transform, the plan of a rectification, exactly and in integers; no variables | |
| `PagePicture` | the preview of a picture, its cancellation, and its second processing for registration | `PageGeometry` |
| `PageShape` | the measurements of a page and its markers, the thresholds, their states; no variables | `PageGeometry` |
| `CaptureQuality` | the measurements of the light in a picture, the verdict | `PageShape` |
| `ScannerProofs` | theorems about the seven models of `MCScanner` | `MCScanner`, TLAPS |
| `AssetStore` | how asset files and their rows come into the library; failing calls, death, loss of power | |
| `IntegrityCheck` | the integrity check over such a store | `AssetStore` |
| `AssetStoreProofs` | theorems about the store and the check | `IntegrityCheck`, TLAPS |
| `LibraryOpening` | the opening of a database by builds with differing catalogs of migrations | |
| `PageHistory` | the rows of a page and of its scans with the triggers of the schema, decisions on proposals, review items | |
| `PageHistoryProofs` | theorems about `PageHistory` | `PageHistory`, TLAPS |
| `VersionHistory` | the version-history screen over such a page | `PageHistory` |
| `ScanComparison` | fingerprints, the demands on two scans to be compared, the search for regions of change | |
| `OcrContract` | the checks of requests and answers, the record of a job | |
| `QrPayload` | the texts of printed codes and of identifiers, the strict parser; no variables | |
| `OcrReading` | runs, regions, the search index, corrections; the page viewer and the search screen | |
| `LibraryProofs` | theorems about the openings, the queue, the comparison, the contract and the printed codes in `MCLibrary` | `MCLibrary`, `OcrQueueProofs` (an instance), TLAPS |
| `NotebookShelf` | notebooks, the active one, the resolution of codes, the screens over them | |
| `PagePrinting` | the screen that generates, previews and saves Smart Pages | |
| `BatchSessions` | the directory of batch sessions under overlapping screens | |
| `ScreensProofs` | theorems about the five models of `MCScreens` | `MCScreens`, `PageHistoryProofs`, TLAPS |
| `MCOcrQueue`, `MCOcrExecutor`, `MCBatchScan`, `MCScanner`, `MCLibrary`, `MCScreens` | the entry points for TLC; the last three put several models side by side, each behaviour being one of the model it chose at the start | |

### 2.1 `OcrJobTable` and `OcrQueue`

A row is a record with the columns the code branches on: `status`, `scan`,
`kind`, `attempt`, `cancel`, `next` (`next_retry_at_ms`), `run`, `error`,
`started`, `completed`, `created`, `updated`. Identifiers are numbers, because
the queries break ties by id. `RowShapeOk` is the CHECK constraint of migration
0011, `RowOk` adds what SQLite checks of `updated_at_ms`; every `Write` has it as
a guard, as SQLite would refuse the update otherwise.

| Code | Model |
|---|---|
| `enqueue_ocr_job`, first section | `EnqueueCheck` |
| `enqueue_ocr_job`, second section | `EnqueueInsert`, or `EnqueueReturn` when it is refused |
| `claim_next_ocr_job` | `ClaimBegin` (clock, mutex), `ClaimRecover` once per interrupted row, `ClaimTake` or `ClaimReturn` |
| `request_ocr_job_cancellation`, `manual_retry_ocr_job_for_scan` | the actions of these names |
| `finalize_ocr_job` | the action of this name: validation, cancellation, run and transition in one transaction |
| `record_ocr_run`, `complete_ocr_job` | the actions of these names, enabled by `SplitApi` (in `Library`'s queue; `OcrQueue.cfg` leaves them out) |
| process death | `Crash`: memory (tickets, calls in progress) is lost, rows stay |

`tickets` is the ghost of what live threads hold: a claim's `<<job, attempt>>`
may be presented late, twice, or never. `claim` holds the two clock readings of
the claim that owns the mutex. The text of a run, its regions and the search
projection are written in the same transaction as the run and are abstracted
into it.

### 2.2 `OcrExecutor`

Each Rust call is one step here (`OcrQueue` shows that this is what callers may
rely on). The loop of `drain` is the program counter `pc`; `cancel` takes three
steps, because it makes the request durable, compares `runningJobId`, and
interrupts the worker without a lock around the three. Time is relative: a fresh
reading is 0 and `Tick` brings every scheduled moment one unit closer; a reading
its thread has not used yet grows older, to `-MaxStale`. What `recognize` may report
is `Reports`: a picture that cannot be prepared, the kinds that
`classifyMlKitErrorCode` makes of an error, text or none; `Outcomes` picks the ones a
run looks at. The adapter waits for ML Kit without a limit (`MlKitAndroidOcrProvider.kt:288`,
`Tasks.await`), so `recognize`, the answer, may never come; `WaitInterrupted` is the
interrupted wait, which ends with Cancelled by itself. `workerStep` is what the worker
does without the provider.

### 2.3 `BatchScan`

A capture is the token that `begin_scanner_recovery` gives it. What survives the
process: `file` (its staging file), `rec` (its recovery record), `ses` (the
session file) and `db` (scan rows, reduced to the token each carries). What does
not: `mutex`, and `th`, the coroutines.
Each screen `k` has four: the worker of `startWorker`, the preparation of a
capture, the report of a failed one, and the finishing of the batch. A coroutine
is a record with its place `pc`, what it does after a reconciliation (`ret`), its
capture, and the copies it carries between a read and a write: the session
(`ses`), the listed records (`snap`, `todo`), the record to be written (`draft`).
These copies are the point of the module: no lock spans the read and the write,
so every one of them may be stale when it is written.

| Code | Model |
|---|---|
| `reconcile_batch_scan_session`, `reconcile_scanner_recovery` | `ReconcileList`, `ReconcileRead`, `ReconcileLookup`, `ReconcileReplace`, `ReconcileSettle` |
| `processEntry` up to the registration | `Fetch`, `PreviewRead`, `PreviewWrite`, `Authorize` |
| `register_scan` | `Lock`, `Mark`, `CommitAssets`, `InsertScan`, `CommitRead`, `CommitWrite`, `Unstage` |
| `record_batch_scan_saved`, `report_batch_scan_review` | `SavedRead`/`SavedReview`/`SavedWrite`, `ReportRead`/`ReportReview`/`ReportWrite` |
| `requestCapture` | `RequestCapture`, `Begin`, `Name`, `QueueRead`, `QueueWrite`, `Release` |
| the camera | `TakePicture`, `PictureSaved`, `PictureLost`, `CaptureFails` |
| `discard_scanner_recovery` | `DiscardRead`, `DiscardImage`, `DiscardRecord`, `Discarded` |
| `finishBatch`, `complete_batch_scan_session` | `FinishBatch`, `Complete`, `Acknowledge` |
| leaving and opening the screen; the process ends | `Reopen`; `ProcessDeath`, `Dies` |

`Resume` is the return from a `withContext` block, the only place where a cleared
view model's coroutine is cancelled. `Raise` is what an exception does in the
coroutine it is thrown in: the worker's own reconciliation and its report are
covered by no catch block, so an exception there ends the process (`Uncaught`).
`Throws` is a call refused by a check, `Fault` an I/O operation that fails.

Abstractions: listing the records is one step; a write to a file (temporary file,
sync, rename) is one step, also where a record is replaced, whose check that it is there
comes a moment before the rename, except the creation of a record, whose reserved name
is visible before the rename; journal and assets are one step that may fail;
`Name`, `DiscardImage`, `DiscardRecord` and `Acknowledge` do not fail by I/O;
records are reconciled in the order of their tokens. Left out: which page a
capture belongs to, the preferred flag and `duplicate_page`, the limits of
records and entries, the rows of review items, beginning, listing and acknowledging
sessions (there is one; see `BatchSessions`), the single-page dialog over the same
records (`SinglePageSession`), the OCR request after a registration (`OcrQueue`),
and loss of power (`AssetStore`).

### 2.4 `AutoCapture`, `AutoCaptureMachine`, `SinglePageSession`

`AutoCapture` gives each method of `AutoCaptureStateMachine.kt` as a function from
a machine and the arguments to the transition: the machine after it and its
effect. `AutoCaptureMachine` drives one machine with every frame, user request
and callback, late and repeated ones included, and a clock that stands or moves.

`SinglePageSession` composes the machine with the rest of the screen. `ui` is
`SinglePageScannerUiState`, `held` the other fields of the view model, `jobs` the
coroutines, `MaxJobs` at a time. A block of `withContext(IO)` and what the main thread
does with its result (`...Main`) are different steps; a coroutine cancelled in between
ends where the block returns. Only a block that works on nothing of the module (the
notebooks, the code of a picture, the preparation of a recovered review) is one step with
its continuation. `Recompose` is the `LaunchedEffect` keyed by the pending request.

A block that works on a recovery record has a step for each reading and each writing
of it, of the files and of the rows, in the code's order:

| Code | Steps |
|---|---|
| `reconcile_scanner_recovery` | `ReconcileRead`, `ReconcileLookup` (waits for the mutex), `ReconcileReplace` (does not read again) |
| `refreshScannerRecoveries` | `RefreshIo`, then those for each interrupted record it listed, `RefreshMain` |
| `acknowledge_committed_scanner_recovery` | `Acknowledge`, `RemoveRecord` |
| `discard_scanner_recovery` | `DiscardRead`, `DiscardFile`, `RemoveRecord` |
| `mark_scanner_recovery_preview_ready` | `MarkIo`, `MarkWrite` |
| `register_scan` | `RegisterIo` (takes the mutex, reads the phase), `RegisterMark`, `RegisterRow` (assets and transaction; gives the mutex back), `RegisterCommit`, `RegisterCommitted`, `RegisterUnstage` |

A job is `fresh` from its reading of a record until another coroutine recovers or marks
that record; `disk.late` remembers the captures whose record was then written by a job that
was not. Neither exists in the code: the property needs them. A replacement is one step,
so that of `replace_scanner_recovery`'s check and rename the model has the outcomes: the
record is gone and the call fails, or it is written, over a removal too.

### 2.5 `FrameScheduler`

`sched` is what the lock guards. `camera0`, `main0` and `worker` are the three
threads, each of which changes `sched` in one step under the lock and reports in a
later one without it. `outcomes` is what each submitted frame was told.

### 2.6 `PolicySession` and `NativePreview`

`session` in `PolicySession` is the object of which a process has one. `view` is what
the view model says, `shown` what is composed of it (`Recompose` disposes the old
composition and clears the session), `asked` the counter and the coroutines of the
code handler, `works` the processings, those of screens left behind included.
`origin` remembers for which composition the policy in force was set; the code has
no such field, the property needs it.

In `NativePreview` the blocks under the lock of the handle (`Begin`, `Release`,
`Cancel`, `Close`) are single steps; what Rust does with the borrowed pointer, the
decoding of its result and the release of its buffers are steps in between.

### 2.7 `PageGeometry`, `PagePicture`, `PageShape`, `CaptureQuality`

A point of `PageGeometry` is homogeneous, `<<x, y, w>>` in integers: the transform
from four correspondences (`FromQuad`) and the image of a pixel (`ToSource`) are
exact, where the code computes in floating point with tolerances. `PlanAccepts` is
what `from_page_markers` asks of four markers; `Samples` what a rectification later
asks at each pixel.

`PagePicture` has a step for each stage between two looks at the cancellation:
`process_preview` (`Decode` to `Plan`, `Deliver`) around
`DerivedImagePipeline::process` (`Preflight` to `Assemble`), then the same stages for
the registration of the same bytes, which `process_capture` runs with a flag nobody
can set. `buffers` are the images alive; their sizes come from the picture's and the
policy's. The detector is what it finds: a sequence of tags.

`PageShape` measures a page: framing, perspective, resolution, curvature, and what the
detector says of its markers. The code computes in floating point; here a fraction is a
pair of integers, and what is made of lengths enters by its square, thresholds included,
so that no root is taken. The mean decision margin is left out, since nothing grades it.
`Measurable` says for which pages the code gives a verdict and no error.

`CaptureQuality` measures a picture of a few pixels as `measure_gray_quality` does,
grades it by thresholds, does so with the page in it (`pose`), and combines the states.
Nothing outside `a2d-image` calls the measurements of the page yet; the tests do.

### 2.8 `AssetStore` and `IntegrityCheck`

A directory entry, a row and the staging file have two values: what the process
sees (`now`) and what a loss of power is sure to leave (`disk`); a file's contents
are partial, full, synced, write-protected. `writer` is where each of the two
operations (a scan's registration, a page-set generation) is in
`commit_with_id_and_fault`; each call to the file system is an action, and may
fail. `LosePower` keeps any part of what was not synced; rows are lost per
transaction, because SQLite with `synchronous=NORMAL` may lose the last ones.

`IntegrityCheck` adds the check, which holds the storage mutex from its first query
to its report: a step for the rows, one that lists a tree and one that looks at the
listed entries, cancellation or failure at any of them. Page-set generation and the
end of a registration go on without that mutex.

### 2.9 `LibraryOpening`

`wal` is the sequence of states of the database since the last checkpoint, so that a
loss of power returns to any of them. `build` is the running one: how many migrations
its catalog has, and which of them, if any, it ships with another SQL text or name.
A row has the digest it was recorded with; `schema` is what really ran, which no build
can see. Each migration is one transaction; everything else is its own.

### 2.10 `PageHistory` and `VersionHistory`

Each statement of a transaction is an operator on the database `db` that also does
what its triggers do; `ok` becomes FALSE when the unique index, a trigger or a
constraint refuses it, and `Commit` ends the transaction. The mutation context of
migration 0008 is a field. Proposals are kept in `proposals` for ever: a decision
may be taken on one that is old.

`VersionHistory` extends this with the screen: one coroutine (`task`), its call of
the core and the display of its result as two steps, taps in between, and calls
that outlive their screen (`late`). `captures` are the page's scans in the order of the
list, `captured_at_ms DESC, id DESC`. When a picture was taken is the word of whoever
registers it, and a recovered capture is registered late, so that `RegisterCapture` may put
the new scan anywhere. Pages of the list are read by offset, so that scans registered
between two pages move them. `Appended` drops what is listed already. `known` remembers
how many scans there were when a list was begun; the code has no such field.

### 2.11 `ScanComparison`, `OcrContract`, `QrPayload`

`compare_stored_scans` is the request with all it refuses; the search is the code's, a
turn of one of its two loops at a time (`Skip`, `Start`, `Take`, `Close`), and `Finish` is
the report. The cells that wait to be looked at are a set, not a queue: a region's cells are sorted
when it is complete, and no order of taking them makes a difference, which is proved.
Scans are what may be stored, fingerprints that do not parse and files that are not the
recorded ones included; none of it changes after a registration. The mean difference of
a region is left out.

`OcrContract` has the checks of `normalize_ocr_output` (`Normalizes`) and one action per method of a job's
record, each ending with the check of the record before and after (`Becomes`). Texts
are their lengths. `complete_with_result` accepts a record that is settled or was
cancelled, and so does the action. A failure that is called retryable is nevertheless
terminal, and `mark_running` refuses it.

`QrPayload` is the encoder (`Encode`) and the strict parser (`Parses`, `Parse`) as
operators. A payload is the sequence of the texts between its colons, a text a sequence
of characters, and a number in binary the set of the places where it has a one. The
checksum is a parameter, since neither side asks more of CRC-32C than that it is a
function; so are the layouts the registry knows. Which error a refusal gives is left out.

### 2.12 `OcrReading`

The rows that a finalization, `record_ocr_run` and region inserts leave (`table`), the
index with one operator per trigger of migration 0010, and the screens. A coroutine
of the viewer (`tasks`) carries the state it was started with, as
`current.copy(...)` in the code does; each of its calls is a step. Regions are read page by page of the latest run, as
`OcrReadback.kt` does, and `Accepts` is its test that a page belongs to the same run.

### 2.13 `NotebookShelf`

Notebooks are numbered in the order of their insertion, because one UPDATE of all
rows visits them in that order and the unique index is checked at each. `Resolve` is
the resolution of a code with each of its answers. `desk` is the notebook screen in front with its
one operation, `lens` the scanner, `strays` the calls of cancelled operations, `mail`
registrations that resolve their code again when they reach the core.

### 2.14 `PagePrinting`

`Launch` is the effect keyed by the generated set; its rendering runs on an IO thread
to its end, and its bitmap is recycled where the code recycles it. The request to save
lies in the saved state handle, so that it outlives the process, and the picker's
answer comes to whichever activity is there.

### 2.15 `BatchSessions`

A session is a file that is reserved (created empty), renamed into place, read,
replaced and removed, by the blocks of up to three screens opened one after the
other; `Leave` leaves a block running. What the entries of a session go through is
`BatchScan`'s subject.

## 3. Runs

| Run | Instance | Question |
|---|---|---|
| `OcrQueue` | two jobs, two scans, two attempts, two clock readings, one caller inside enqueue, perhaps a legacy row | does the queue keep its safety properties and implement `OcrLifecycle`? |
| `OcrExecutor` | two jobs; either all events and one fault, or registrations, viewer cancellations and stale readings, or registrations, one fault and stale readings | are interrupted jobs resumed, running rows released, cancellations honoured; does every job settle in a process that lives? |
| `OcrExecutorRestart` | one job, one crash | does a job that waits for its retry time resume after a restart? (no) |
| `OcrExecutorCancel` | two jobs, a cancelling thread | are only requested jobs cancelled? (no) |
| `BatchScan` | two captures and one death at any step; or one capture and the screen reopened over running blocks, or one failing I/O operation | is any picture registered twice by one screen, left without an owner, or deleted too early; is what is called saved a row; does a completed batch stay settled? |
| `BatchScanDuplicate` | one capture, the screen reopened | is a picture still registered at most once? (no) |
| `BatchScanBlocked` | one capture | can the recovery records be listed whenever the screen is ready? (no) |
| `Scanner` | the single-page screen with one picture, one answer to the dialog, one trouble and three coroutines at a time; the machine with two pages and three ticks; a scheduler with three frames, two cancellations and a close; the policy session with two codes in view, one picture and two notebooks; two native calls with a cancellation and a close; pictures of ten pixels a side with each marker in one of four places, turned, mirrored, or with a tag too few or too many; every picture of a few pixels in three levels of light, with the page as it should be; and 200 pages, good and bad, in a picture that is sharp and neither dark nor bright | is a picture registered once; does the machine capture only what is stable, and once; is no frame forgotten and nothing cancelled published; is the policy in force that of the view; is native memory safe and given back; is every pixel of a page read inside its picture, and what was approved registered; does the verdict follow the picture? |
| `Library` | a scan of two assets and a page set with two mishaps and an integrity check; three scans of a page with five events; two jobs in a queue of one with both finalization interfaces; openings of databases with up to three migrations; two scans whose fingerprints differ in any of six cells by one of two amounts, or one of which is unfit, and three thresholds; a job under the OCR contract with two attempts, three requests and seven answers; in its assumptions, the codes of four identifiers and eight numbers, and fourteen texts to refuse | are registered files intact, pictures findable and reports true; do flags, pointer and log agree; are the queue's results whole; does the schema record what ran; are regions of change just what changed; does a job's record promise and hold no more than it may? |
| `PageHistoryComparison` | two scans | can every scan be compared with the preferred one? (no) |
| `Screens` | the version screen over three scans, at most one of them registered after a later capture, one listed at a time; two runs of two regions, read one at a time; two notebooks and five user actions; two page sets, renderings and saves with one upset; three screens over three batch sessions of which two fit | does each screen say what the library says, do things go where the user was told, do the sessions stay usable? |
| `NotebookActive` | two notebooks, six user actions | can any notebook be made the active one? (no) |

**Bounds and why they are enough.** Jobs interact only through the one-active-
per-scan rule, the one-running rule, the capacity and the order of due rows; two
jobs meet in each of them. Two attempts give a first, a last and an exhausted
attempt; the real limit is three, and the middle attempt is like the first. One
caller inside enqueue's gap suffices because everybody else's effects (a whole
enqueue of another caller is `EnqueueCheck; EnqueueInsert` of the same caller
before the gap; manual retry, claims and cancellations are separate actions) can
happen inside the gap. In `OcrQueue` the capacity is two, so that it does not hide
the one-active-per-scan rule; in `Library` it is one, which two jobs reach. Two clock
readings give "due" and "not due yet", and clocks set back. One fault per
behaviour suffices for properties about the aftermath of a fault; the thing that
would need two is a fault during recovery, which in `OcrQueue` is unbounded
(`Crash` has no bound there).

In `BatchScan` captures meet in the listing (one unreadable record fails all),
in the session file that is written back whole, and in the worker's order; two
show that, and everything else is about one token and the coroutines that handle
it, for which the second screen is the adversary. One death and one reopening
each leave every durable state a coroutine can leave behind to be found by the
next screen. `OneScreenRegistersOnce` leaves reopened screens out, since
`NoDuplicateRegistration` fails with them: that is `BatchScanDuplicate`. It leaves
failed I/O out as well; section 5.2 says what happens with it.

In `Scanner` the troubles (a failing call, a death, another screen, another
notebook, a tick) exclude one another, and each of them may come at any step. Three
coroutines at a time (`MaxJobs`) are a registration, a refresh beside it, and one more;
a step that would start a fourth waits. Time passes where it matters: while a warning waits
for its answer, and from one picture to the next. The
intervals of the machine are one tick inside the screen and two in the machine
alone, where a gap, a stable page and a debounce are told apart by one tick each.
Three frames are one with the worker, one in the slot and one that supersedes it. Two
codes give an answer that comes after a later question; two generations of the camera
and two notebooks tell the view of a question from the present one. Two native
callers are one inside Rust and one that comes before, between or after a close.

The places of the markers give pages whose corners lie in the picture, outside it, or
beyond the horizon of their perspective; one pass of sharpening is the one with a copy,
and the budget is just what the stages need. Pictures of the verdict have an interior,
tiles of different sizes, and levels on both sides of each cutoff. About half of the
pages are measured, the others are no page, outside the picture, or seen at a point
beyond an edge. Each metric takes each state, but the resolution, which never needs a
review with these bounds; what light and page do to the verdict meet only in
`Overall`, so that each is varied with the other as it should be.

In `Library` a scan of two assets has the write-protected original and one more;
assets after the first differ in nothing. Two mishaps are a failure and its
aftermath, or a death and a loss of power. Three scans are a baseline and two
candidates that know of each other; with an old proposal and two decisions each
event of the log has a successor. Three migrations are one before the guarded one, the
guarded one, and one after it; builds differ from the released catalog in one version.
A grid of two by three is the least with a cell that has neighbours on three sides and with regions
that bend; all differences of it are compared. The print of a picture is evaluated for
every picture of some darkened pixels (`PrintAssumption`). Two attempts are one that may
be followed by another and the last one; limits of a byte or two are met and exceeded.

In `Screens` a list longer than its page by one shows every seam between two pages;
one scan registered after a later capture (`MaxOlder`) lands above, among or below what is
listed; the quality of the first scan, which no list shows, is fixed;
two regions, two runs and one page each do so for texts. Two notebooks can be active
in both orders and share a design or not. Two page sets are one shown and one asked for
earlier. Two sessions fit the directory and a third does not; the third screen finds
what two overlapping ones left.

**Fairness.** `OcrQueue` has none: its properties are safety. `OcrExecutor`
assumes weak fairness of the worker's own steps (`workerStep`: an executor thread that the
platform schedules), of a cancelling thread that is inside `cancel`, and of time. Nothing
assumes that a user acts, that a viewer refreshes, that the app is started or its activity
recreated, that a call fails, or that the provider answers. A property that needs one of these says
so: `AppIsStarted` is that the app does not stay down for good, `ProviderAnswers`
that the worker does not wait for ML Kit for good.

| Property | Needs the app to be started | Needs the provider to answer |
|---|---|---|
| `CancellationTakesEffect`, once `cancel` has found the job running | yes | no, the wait is interrupted |
| `CancellationTakesEffect`, any request for running work | yes | yes |
| `EveryJobSettles` | it is about a process that lives | yes |
| `InterruptedJobsResume`, the row is recovered | yes | no |
| `InterruptedJobsResume`, the job is claimed again or settled | yes | yes, and no slow call |

Without any one of these conditions TLC finds the property violated.

The other models have no fairness: their properties say what no interleaving may
do.

**Deadlock** is checked in the runs of the queue and the executor. The others
turn it off, because a user may stop and the bounds on captures, deaths, frames,
scans, taps or sessions end behaviours.

## 4. What the code does differently from its documentation

Each has a violation run unless stated otherwise.

1. *Capacity* (no run). `docs/M11_OCR_CLOSEOUT_2026-09-15.md:41`:
   "Active queue size and retry attempts are bounded". Manual retry makes a
   terminal job active without counting active jobs (`ocr_manual_retry.rs:76`).
2. *Restart* (`OcrExecutorRestart`). Line 61: "Durable jobs resume when the app
   starts again." A job whose `next_retry_at_ms` lies ahead when the process
   restarts is not due for the first drain, and the drain that ends on Idle
   schedules none. Only another event (a registration, a restart of the
   activity) brings it back.
3. *Cancellation of the wrong job* (`OcrExecutorCancel`). `cancel` compares
   `runningJobId` and then interrupts the thread. In between the worker may have
   finished that job and claimed another, which then ends Cancelled.
4. *Viewer* (no run). `enqueueOcrJobForViewer` and the viewer's retry call the
   client and never schedule a drain: while the worker is idle, the job waits for
   an unrelated event. In the model: add `viewerStart` to the first scenario of
   `OcrExecutor.cfg` and to `Undisturbed`, and `EveryJobSettles` fails.
5. *Clock readings* (no run). The claim reads the clock before it waits for the
   mutex, recovery inside it reads it again. If the second reading is later, the
   recovered job is due at a moment that is after the claim's, is "not due", and
   the restart's drain ends with the job waiting. In the model: `InterruptedJobsResume`
   without its condition on `slowCall` fails in the third scenario of `OcrExecutor.cfg`.
   With it, the property says of slow claims that the row does not stay Running.
6. *Rows at the limit* (no run). A `Queued` row at the attempt limit, which only
   an older build can have left, makes every claim return an error as long as it
   is the oldest due row; nothing but a cancellation removes it, and the jobs
   behind it wait. `AttemptAccounting` shows that it gets no further attempt.

7. *Two registrations of one picture* (`BatchScanDuplicate`).
   `docs/FIX_111_CAMERA_FAILURE_MATRIX_2026-09-12.md:65`: "worker completion after
   UI recreation ... must not ... create a duplicate registration." The worker of
   a closed screen stands between the authorization of a capture and the storage
   mutex, or waits for it after its record was marked; the new screen's worker
   takes the same queued entry. `advance_scanner_recovery` reads and replaces a
   record without a lock, `reconcile_scanner_recovery` puts a record back to
   PreviewReady, and `register_scan` never asks whether a row with the recovery
   token exists.
8. *Unreadable records* (`BatchScanBlocked`). Line 54 of the same document:
   "Recovery + reservation remain discoverable" between the creation of the record
   and the camera's write. `requestCapture` deletes the reservation first; if the
   camera refuses, the discard fails on the missing file like every reader, its
   failure is swallowed, and from then on every listing, begin, queue and
   reconciliation fails.
9. *Scans that cannot be compared* (`PageHistoryComparison`).
   `docs/A2D_SMART_NOTEBOOK_V01_SPEC.md:742`: "When a scan targets an existing page,
   Rust compares geometric alignment, perceptual fingerprint, ...". A registration
   with a recovery token appends `;recovery-token=` to the fingerprint
   (`milestone9.rs:625`), and the comparison takes all that follows `;perceptual=` for
   the digits. Every proposal with such a scan fails, and the integrity check
   reports it (`integrity.rs:786-797`).
10. *A notebook that cannot be made active* (`NotebookActive`).
   `docs/A2D_SMART_NOTEBOOK_V01_TODO.md:256`: "Active Notebook selection".
   `set_active_notebook` sets and clears the flag of all rows in one UPDATE, of which
   the unique index sees row after row: a notebook that was inserted before the
   active one meets it while both carry the flag.
11. *Two active sessions* (no run).
   `docs/A2D_SMART_NOTEBOOK_PROJECT_HANDOFF_2026-08-13.md:291` and `:402`:
   "Rust rejects a second active batch session", "opens or resumes at most one active
   batch session". A screen left while its start is
   still on the IO thread and the screen opened over it list before either begins:
   both begin one, and from then on `require(active.size <= 1)`
   (`ScanRegistrationRequest.kt:275`) fails every start. `SessionsStayUsable` states
   it for screens that do not overlap.
12. *Blocked single-page screen* (no run). The effect of the screen is keyed by the
   pending request, and `prepareCapture` consumes that request first
   (`ScannerGrantedContent.kt:44`, `SinglePageScannerState.kt:130-132`): the
   recomposition may cancel the coroutine, and the screen says that it captures while
   nothing works.
13. *No text from the scanner's own pictures* (no run). `docs/A2D_SMART_NOTEBOOK_V01_SPEC.md:37`:
   the application "performs OCR"; the scanner registers JPEG, and
   `ocr_source_geometry.rs:139-147` accepts only `image/png`. In the executor's model
   this is a report of a picture that cannot be prepared.
14. *Recovered reviews* (no run).
   `docs/FIX_111_CAMERA_FAILURE_MATRIX_2026-09-12.md:34` and `:56` say that a
   capture found after a restart can be reviewed. With the camera permitted, the
   code handler is composed and clears the policy session after the recovered review
   set it (`SinglePageScannerViewModel.kt:763`, `PolicyAwareQrEvents.kt:38-41`), and the
   processing then finds no policy or another one.

The models show more that no property states (no runs). Batch scanning:

- The session file loses updates. A capture queued between another coroutine's
  read and write of the file is lost from it; a Saved entry may become Queued
  or NeedsReview again, a completion may be undone.
- An exception of the worker's reconciliation or report is not caught and ends
  the process, which then meets the same record at its next start.
- When `mark_scanner_recovery_committed` fails, the staging file is removed all
  the same; the record stays Registering, names a missing file, and blocks as in 8.
- A death between the two removals of a discard, or between the reservation of a
  record's name and the rename, leaves a record nobody can read.
- A rotation during a capture asks the new adapter for the same capture; when the
  picture is there already the capture counts as failed and the good picture is
  discarded.
- A death after the review item was created and before the session names it makes
  the next attempt create a second one. An entry whose record has disappeared gets
  NeedsReview without any review item.
- A cut between the reservation of a session's name and the rename leaves an empty
  file, and a completion after the clock was set back one that the parser refuses;
  every later listing fails then. A stale copy written back by a screen that was left
  can make a completed session active again. A completed session that nobody
  acknowledged is never shown again and counts against the limit.

The single-page screen, the viewer and the version screen:

- `markReviewed` compares and then sets without a lock; a screen that was left may
  overwrite the evidence of a later review, whose registration then fails.
- The viewer forgets the job it enqueued when an earlier coroutine ends later, and
  offers to enqueue again. A slower answer of the search overwrites a query typed
  meanwhile (`OcrSearchScreen.kt:66-68`). Corrections are listed oldest first, fifty
  of them. Some helpers of the viewer catch the cancellation exception.
- After a tap during a call the version screen offers decisions about another scan.
- A version registered after the list was begun may be missing from it although newer and
  older ones are shown, until the screen reloads; and when more of them are registered
  between two pages than a page holds, the next page begins above the list and is added
  below it (`VersionHistoryViewModel.kt:78-105`). `ScreenTellsTruth` excepts these
  versions, and no others.
- Nothing keeps two coroutines from recovering or marking the same record at once.
  A registration fails after its mark; the refresh that follows reads Registering, finds no
  row, and is delayed before it writes; the user approves again, which fails on the phase, and
  the refresh of that failure recovers the record; a third approval registers the picture;
  then the first refresh writes PreviewReady over the record of the registered picture. The same way a
  mark of a processing that was cancelled comes late. With its staging file gone such a record
  blocks as in 8; if the file could not be removed, the picture is offered again and may be
  registered again. `RegisteredOnce` excepts these captures (`disk.late`) and fails without
  the exception.
- The setup screen may show another design than the one it created a notebook of.

Rows and files:

- `supersedes_scan_id` may form a cycle; a rejected scan can be preferred; a scan saved
  as a new version keeps asking for a review; a decided scan can lose its copy.
- A notebook archived while a registration runs receives the scan.
- The integrity check reports the files of a page-set generation under way as orphans,
  and fails as a whole when a listed entry is gone before its metadata is read.
- An upgrade refused by the guard of migration 0003 or 0005 has committed the
  migrations before it: neither the new nor the old build opens the library any more.
- The staging picture is taken to be durable once CameraX reports it. Nothing syncs it
  (`CameraXAdapter.kt:385-423`): a loss of power soon after a capture may leave less than
  `InterruptedIsVisible` says is staged.
- The production policy asks for no sharpening (`scan_processing_policy.rs:187`), so that the
  copy of that pass, which `ApprovedIsRegistered` budgets for, is made by other policies only.
- The frame scheduler decides under its lock and publishes after it: a completion may
  follow the cancellation that, by its comment (`LiveFrameAnalysisScheduler.kt:88-91`),
  invalidates any in-flight completion.
- ML Kit may report Cancelled by itself; the executor's runs leave that out.
- A provider that never answers holds the only worker, and every other job waits with it:
  `Tasks.await` has no limit, the viewer's cancellation is a row and interrupts nobody
  (`A2dNavHost.kt:500-537`), and a `cancel` that comes between the claim and
  `runningJobId = claimed.jobId` finds no job to interrupt.
- `complete_with_result` of the in-memory record of `a2d-ocr` has no guard against a
  settled job: an answer that comes late turns a cancelled record into a recognized one.
  A failure called retryable is terminal, so that no method ever retries it.
- `from_gray_image` has an error for a cell without pixels, which no picture that passes
  its other checks can have (`BlocksDividePicture`).
- The deviation of a probe is measured across its edge: where along the edge the probe
  was taken is checked to be in range and has no effect.

## 5. Proofs

A theorem holds for every value of the constants that satisfies the named
assumptions of the modules it extends: limits and bounds are natural numbers, null
values are not ordinary values. TLC evaluates all of them in each run. Where more is
assumed the text says so. The code's own constants satisfy each of them. Each safety property has an inductive invariant of its own,
below; the action properties follow from it and a case split over the actions.

### 5.1 The queue and its executor

`OcrQueueProofs`, for any number of jobs, scans, callers, clock readings, attempts and
crashes:

| Theorem | Property |
|---|---|
| `TypeInvariant` | `TypeOK` |
| `SerialExecution` | `OneRunningJob`, which `ImplementsLifecycle` implies |
| `ScanOwnership` | `OneActiveJobPerScan` |
| `CancellationIsDurable` | `CancellationWins` |
| `SettledRowsAreFinal` | `SettledIsFinal` |
| `AttemptBudget` | `AttemptAccounting` |
| `AtomicFinalization` | `TextOnlyWhenRecognized` |
| `AtMostOneRunPerAttempt` | `OneRunPerAttempt` |
| `SchemaAcceptsTransitions` | `NoTransitionBlockedBySchema` |
| `RecognizedJobsHaveText` | `RecognizedHasText` |
| `LifecycleRefinement` | `ImplementsLifecycle` (assuming `SplitApi = FALSE`) |

*Argument*. The lemmas `...Type` and `...Fields` say what each row operator
returns. `NextRewritesOneRow` reduces a step of the whole system to what it does
to one row: inserted, claimed, recovered, cancelled, dropped or revived
(`QuietStep`), or finished with a provider's result (`Finishes`); `RowStepFields`
says what that comes to on the row's fields. The action properties follow from
this case split and `TypeOK`. Of the state properties:

- `OneRunningJob` is inductive: a claim takes a row only when none is Running.
- `OneActiveJobPerScan` is inductive: insert and manual retry re-check the scan
  in the section that writes.
- `TextOnlyWhenRecognized` and `OneRunPerAttempt` are not. `RunInv` adds
  `RunsOfPastAttempts`: a committed run belongs to an attempt that is over, an
  older one or the current one of a job that is no longer Running. A finalization
  requires Running and the current attempt, hence adds the first run of that
  attempt (`NextCommitsAtMostOneRun`).
- `NoTransitionBlockedBySchema` is inductive with `TypeOK`; it needs
  `SchemaAssumption`, the limit of the code being at most that of the table's CHECK.
- `RecognizedHasText` is inductive with `TypeOK`: runs are only appended, and a row
  gets Recognized and its run in one step.

The refinement maps a job's status, attempt and cancel flag to themselves, and
the set of accepted texts to the attempts of committed runs that hold text.

`OcrExecutorProofs` proves `WaitingJobsAreServed` (`WaitingJobHasDrain`) for any number
of jobs, delays and stale clock readings. It assumes `LegacyJobs = {}`: a row from
before the limits that is already at the last attempt makes the claim of a due job
throw, and the next drain comes only after `RECOVERY_RETRY_DELAY_MS`. The property is
about states between drains. `DrainInv` says of every state why a waiting job is
served: a timer that comes in time, or a drain that is still to look at it
(`WaitingServed`); it needs that a waiting row can be claimed (`WaitingClaimable`) and
that the Running row is the one in hand (`ClaimHeld`).

### 5.2 Batch scanning

`BatchScanProofs`, for any number of captures, screens, deaths, reopenings and faults:

| Theorem | Property | Invariant |
|---|---|---|
| `SavedIsRegistered` | `SavedNamesScan` | `IInv` |
| `CommittedIsRegistered` | `CommittedNamesScan` | `IInv` |
| `CompletionIsFinal` | `CompletedBatchIsSettled` | `SettledInv` |
| `PicturesAreFound` | `PictureHasOwner` | `OwnInv` |
| `PicturesAreKept` | `PictureKeptUntilRegistered` | `OwnInv` |
| `OneScreenRegisters` | `OneScreenRegistersOnce` | `OnceInv` |

None is inductive, because coroutines write back what they read long ago.

- `IInv` says of every copy what is to hold of the files: the session file and every
  coroutine's session name only rows of their own capture (`GoodSession`), so do the
  records, every listed record and every draft about to be written (`GoodRecord`,
  `GoodCoroutine`). Rows are only appended, so that a copy that is good stays good
  however stale (`RowsGrow`, `GoodGrows`). A step then needs to show only that the
  copy it makes or changes is good, one lemma per action.
- `SettledInv` says of every copy of the session that it is settled if it is
  completed.
- `OwnInv` says who holds a capture: no two coroutines between reserving a picture and
  giving it up hold the same one, a picture has a record, a row or such a holder, and
  what is prepared for registration is owned already.
- `OnceInv` follows one registration: what the record says against whether there is a
  row, who is at it, under which mutex, and what a reconciliation that read the record
  before has yet to judge. A record in progress has its row, is in hand, or meets the
  worker's start, which precedes every capture of that screen.

The attempt to prove `OnceInv` with failing I/O refuted an earlier form of the
property, that one screen registers a picture once whatever fails.
`finishBatch` is allowed while the worker has nothing queued, and nothing stops
captures meanwhile (`ScanRegistrationRequest.kt:241-256`, `:172-213`). Its reconciliation
lists a registration in progress and waits for the mutex; that registration fails, so
no row is found, and the record is later overwritten as PreviewReady while the worker
registers the picture again. If the removal of the picture then fails, or the process
dies before it, the picture and a PreviewReady record are left, and a second row
follows. It takes three captures and two failed operations, or two captures with one
failure and one death, which is beyond the run's bounds; TLC confirms the behaviour
when its order is prescribed. So the property now also requires that no I/O failed.

### 5.3 The scanner

`ScannerProofs`, about the models that `MCScanner` puts side by side (`PictureRegisteredOnce`
about `SessionSpec`, the screen alone):

| Theorem | Property | Invariant |
|---|---|---|
| `PictureRegisteredOnce` | `RegisteredOnce` | `SessionInv` |
| `RequestsGoForward` | `OneOutcomePerRequest` | `AutoInv` |
| `AutoCaptures` | `AutoCaptureIsEarned` | `AutoInv` |
| `FramesReported` | `NoFrameForgotten` | `SchedulerInv` |
| `ResultsAreCurrent` | `CancelledIsDiscarded` | `SchedulerInv` |
| `PolicyOfView` | `PolicyIsOfThisView` | `PolicyInv` |
| `NativeMemory` | `MemoryIsSafe` | `NativeInv` |
| `EveryPixelIsInPicture` | `PageIsInPicture` | `ProcessingInv` |
| `ApprovedIsProcessedAgain` | `ApprovedIsRegistered` | `ProcessingInv` |
| `VerdictsFollow` | `VerdictFollowsPicture` | `VerdictInv` |
| `ShapesAreSound` | its part `VerdictFollowsShape`, for any page | |

- `SessionInv`: a capture has neither record nor row before it is asked for, nor until
  the one coroutine that prepares it has reserved it (`CapturesBeginUntouched`). At most one
  registration is between its mark and its row, since it holds the mutex
  (`OneRegistration`). And of a capture none of whose records was written late (`OnTime`): a
  coroutine that is `fresh` has read a record that is still not PreviewReady, or is about
  to make it so of a picture without a row, at which no registration is working; a registration
  that holds the mutex has no row yet and a record that is not reviewable. There is one lemma for each step on
  a record. All other steps leave records and rows alone, and make no job fresh.
- `AutoInv`: a stable candidate is what the frames have shown since it was seen, and
  the page photographed last is debounced unless the time is over.
- `SchedulerInv`: every frame has a keeper (`FramesAreKept`), a frame in the slot has a
  worker scheduled for it (`TurnsAreTaken`), and the generation counts the
  cancellations.
- `PolicyInv`: a composition is of the present view unless the view has left it behind,
  in which case it never becomes the view again; if it is of the view, the policy in
  force came from it.
- `NativeInv`: who holds a buffer, and which one call frees the handle; this uses that
  the callers are a finite set (`CallersAssumption`).
- `ProcessingInv` is `PictureInv` of a processed picture: what each stage of a pass knows
  of the picture (`KnownByStage`), which holds of an approved preview for good
  (`ApprovedFacts`), and that derived images are alive only once the page is planned for.
  - `PageIsInPicture` follows from `PlanMade` by geometry. A plan demands that all four
    corners of the page come out in the picture and before the horizon. The image of a
    pixel, before it is divided, is linear in where the pixel is (`RawIsLinear`), so that
    each linear measure, to a border of the picture or to the horizon, that is within its bound
    at the corners is so at every pixel (`PageInside`). The products of coordinates are
    taken apart into lemmas of their own, as the solver has no theory of them.
    `GeometryAssumption` says that the markers are inside the page.
  - `ApprovedIsRegistered` follows because the second processing meets the guards of the
    first with the same picture, and because no stage can run over the budget. The
    latter needs the limits to be ordered as the code's are (`BudgetAssumption`,
    `scan_processing_policy.rs:29-40`), and would be false of others.
- `VerdictInv` says only that an assessment is the one `CaptureQuality` computes of the
  frame and the page, and that the page is measurable. That a brighter pixel does not help is then shown of the sums over pixels, of
  the counts of bright ones in the picture and in each tile, of the comparison of fractions by
  cross-multiplication, of the thresholds, and of the worst of a set of states, one
  lemma for each; sums are compared by induction over finite sets.
  `QualityAssumption`: pictures and grids are not empty, luminances are numbers, the
  thresholds are in an order that the code's constructors accept, and pages are pages.
- `ShapesAreSound` starts from what `Valid` says of four corners: each turn of the page
  is to the same side, and not straight on. So edges and diagonals have a length, and the
  page has an area and a box, which is what fractions are divided by. That the page fills no more than
  its box is shown of products of coordinates, term by term; that opposite edges differ
  no more than any two, of the extremes of a set of lengths. Laid upside down, the page has
  the same edges, diagonals, columns and rows, and each probe the same deviation, up to
  the order in which they are taken.

### 5.4 The library

| Theorem | Module | Property | Invariant |
|---|---|---|---|
| `RowsAreIntact` | `AssetStoreProofs` | `RegisteredIsIntact` | `AssetInv` |
| `LeftoversAreVisible` | `AssetStoreProofs` | `InterruptedIsVisible` | `AssetInv` |
| `ReportIsTrue` | `AssetStoreProofs` | `ReportsAreTrue` | `AssetInv`, `CheckInv` |
| `PreferredScan` | `PageHistoryProofs` | `OnePreferredScan` | `HistoryInv` |
| `HistoryIsTold` | `PageHistoryProofs` | `LogTellsHistory` | `HistoryInv`, `LogInv` |
| `SchemaRecordsWhatRan` | `LibraryProofs` | `SchemaIsHistory` | `OpeningInv` |
| `RecognizedJobsOfLibraryHaveText` | `LibraryProofs` | `RecognizedHasText` | that of `RecognizedJobsHaveText` |
| `ComparisonsOfLibraryAreTrue` | `LibraryProofs` | `ComparisonIsTrue` | `SearchInv` |
| `BlocksDividePicture` | `LibraryProofs` | | |
| `RecordsOfLibraryAreSound` | `LibraryProofs` | `RecordIsSound` | `ContractInv` |
| `IdentifiersAreExact` | `LibraryProofs` | | |
| `CodesAreRead` | `LibraryProofs` | | |
| `PayloadsAreCanonical` | `LibraryProofs` | | |

They hold for any number of assets and mishaps; of scans, events and review items; of
migrations (`VersionsAssumption`); of jobs, scans, kinds and outcomes
(`QueueAssumption`); of cells of the grid, stored scans and thresholds
(`ComparisonAssumption`: brightnesses are bytes); and of requests, answers, attempts and
lengths (`ContractAssumption`: these are numbers, null values are not ordinary values).

- `AssetInv` says for each writer what its program counter promises of its files, in
  memory and on the disk (`WriterInv`), that a row has a durable file (`RowInv`), and
  that the picture is staged and journalled until all its rows are there (`PictureInv`).
- `CheckInv` says what each pass of the check has listed and found, of a store that
  changes meanwhile, and that what is called an orphan was given up.
- `HistoryInv` is `RowsAgree`: flag, pointer and review state are those of one scan.
  That no call is refused is proved with it, trigger by trigger
  (`PointToResult`, `ReplacedResult`, `InsertResult` and others).
- `LogInv` compares each selection with the one before it, each decision with the one
  event about its scan, and each copy's number with the highest.
- `OpeningInv` says of each state in the log of writes that a reopened database could
  have that its rows are those of the migrations that ran, and what each point of an
  opening has validated already.
- The queue of the library is not proved about anew. `Durable` is `OcrQueueProofs` with
  the library's constants and variables: `QueueIsAssumed` shows that the constants are
  such as its theorems assume, lemmas named `Same...` that each operator of this
  instance is the one of `MCLibrary`, and the theorem is then carried over.

- `SearchInv` says of the search at each of its turns: what was visited is what is listed,
  what was taken for the present region, and what waits (`Found`); regions that are
  listed are components, in the order of their first cells (`ListedOk`); and of the
  present one, that it has the box and the maximum of its cells, and that whatever holds
  its first cell and, with each cell that was taken, the neighbours of this cell holds all it has
  (`Filling`, `Reached`), which says that it is connected without a path. When nothing waits,
  it is closed under neighbours, hence a component. `Asked` keeps what the request was
  checked for.
- `BlocksDividePicture`: the code gives pixel `p` of a line of `n` to part `p * k / n`; the
  parts are intervals that begin where the one before ends, and none is empty if
  `n >= k`, by the rules of integer division.
- `ContractInv`: a record passes its own check, carries only an answer that was
  normalized for its key (`Checked`), and promises what it may (`Promised`). The rest is
  a case for each method, whose product passes the check again.
- `IdentifiersAreExact`, `CodesAreRead`, `PayloadsAreCanonical` are about operators, for
  every identifier, number, known layout and checksum; `QrAssumption` is that a value not
  given is no number and no identifier. A digit of an identifier is five bits, each bit a
  quotient's parity (`encode_128`, `decode_128`). The digits of a number are taken as two
  threes, by the rules of integer division, then without its zeros in front. A payload
  has at most 104 characters in its fields and 7 colons, since its texts fit in intervals
  one behind the other, so that the parser's limit of 128 never refuses what was printed.

### 5.5 The screens

`ScreensProofs`, about the models of `MCScreens`:

| Theorem | Property | Invariant |
|---|---|---|
| `DestinationsAreClear` | `DestinationIsClear` | `ShelfInv` |
| `WantedIsKept` | `KeptIsWanted` | `PrintInv` |
| `SessionsAreUsable` | `SessionsStayUsable` | `DirectoryInv` |
| `VersionsAreTold` | `ScreenTellsTruth` | `VersionInv` |
| `TextsAreWhole` | `TextIsWhole` | `TextInv` |

- `ShelfInv` says what every operation and every scan on the way knows of the shelf,
  which changes meanwhile: rows stay and keep their design, so that a scan resolved
  to a notebook still fits it when it arrives.
- `PrintInv`: a bitmap belongs to the preview or to one effect, only the last effect
  launched is not cancelled, and a copy is of the set it was asked for.
- `DirectoryInv` takes the property's three promises apart, since each is made under
  another condition: without overlapping screens the one that works knows what is in
  the directory (`Alone`); with clocks that are not set back each file, and each copy
  about to be written, can be read; without a cut each reserved name is being filled.
- `VersionInv` adds to `HistoryInv` and `LogInv` of the page that `captures` lists each
  of its scans once (`CapturesOk`), and what the list on the screen and each list under way
  are (`TimelineOk`): versions of scans there are, none twice, and of those known when the list was
  begun the latest captures, in order and without a gap. An insertion keeps the order of the
  others and brings none nearer to the top (`Follows`, `PlacedKeeps`). So a page begins no lower
  than where the list ended, however many scans have come since and wherever they landed, and
  no known version lies between (`PageOk`); adding it version by version keeps `TimelineOk` (`AppendedIsOk`, by the least turn at which it
  would not). What the list says of a version stays true while nothing is decided (`Tells`); a
  call that changes the page is the screen's own, which reloads, or was left behind and
  sets `outrun`.
- `TextInv` says of every copy of the viewer's state, in each coroutine, that the text it
  shows is a list its run once had (`ViewerOk`), and of a coroutine that reads pages that
  what it has seen is a prefix of its run's list, unless the list has grown meanwhile; then
  it is longer than the coroutine was told, and `Accepts` refuses the next page
  (`PagesOk`). `RowsGrow` collects what a step may do to rows: a run once taken keeps
  its status, a list once had stays in `lists`, a list that changes gets longer. The
  index is the set of documents of the table at every step (`IndexOk`), trigger by
  trigger. `ReadingAssumption`: regions are finitely many, and no run has the name of a
  null value.

### 5.6 What is only model-checked

Liveness: `CancellationTakesEffect`, `InterruptedJobsResume` and `EveryJobSettles` of
`OcrExecutor`. Fairness is ENABLED, which this prover cannot
reason about. All other properties of the passing runs are proved.

What is computed turn by turn (`Seen`, `Appended`, the folds of `CaptureQuality`) is
reasoned about by minimal counterexample and by the library's facts on finite sets,
since an induction over data cannot be instantiated here.

`TypeOK`, `OneRunningJob`, `SettledIsFinal` and `CommittedNamesScan` are proved, and no run
checks them.

## 6. Plan

In order, each with its abstract statement:

1. *(done)* Durable OCR queue, with `OcrLifecycle`.
2. *(done)* OCR executor.
3. *(done, but for the abstractions of 2.3)* Batch scanning with scanner recovery
   and registration; the directory of its sessions. Abstract statement left: a
   capture is taken, then registered once or given up.
4. *(done)* Asset commit, crash and power loss at each of its steps; the integrity
   check over it.
5. *(done)* Revisions and the preferred scan, with the triggers of migrations
   0004-0008; the version history.
6. *(done)* Auto capture, camera scheduling, the single-page session, the scan policy
   and the native calls.
7. *(done)* Migrations, runs, regions, search and corrections, notebooks, Smart Pages.
8. Proofs. *(done)* Those of section 5. Left: the abstract statement of item 3 with
   its refinement.
9. The pure functions that carry decisions. *(done)* The scan comparison, the validation of
   an OCR result, the measurements of a page, the texts of printed codes. Left: the bits of
   CRC-32C.

## 7. Not modelled

PDF rendering and layout geometry are stateless computations in floating point or byte
formats. Of image processing the values of derived pixels and the detector's own algorithm
are left out, and of the QR codec the value of its checksum. Domain entities are constructors
and checks whose results the models take for granted. The FFI converts types; what of
it has state is `NativePreview`. Screens not named in section 2 present state held elsewhere. For the rest
see the plan and the notes of `components` in `PROJECT.json`.

## 8. Running

    tlc -workers 2 -config OcrQueue.cfg MCOcrQueue
    tlc -workers 2 -config OcrExecutor.cfg MCOcrExecutor
    tlc -workers 2 -config BatchScan.cfg MCBatchScan
    tlc -workers 2 -config Scanner.cfg MCScanner
    tlc -workers 2 -config Library.cfg MCLibrary
    tlc -workers 2 -config Screens.cfg MCScreens

The runs that show a violation:

    tlc -workers 2 -config OcrExecutorRestart.cfg MCOcrExecutor
    tlc -workers 2 -config OcrExecutorCancel.cfg MCOcrExecutor
    tlc -workers 2 -config BatchScanDuplicate.cfg BatchScan
    tlc -workers 2 -config BatchScanBlocked.cfg BatchScan
    tlc -workers 2 -config PageHistoryComparison.cfg PageHistory
    tlc -workers 2 -config NotebookActive.cfg NotebookShelf

The proofs:

    tlapm OcrQueueProofs.tla
    tlapm OcrExecutorProofs.tla
    tlapm BatchScanProofs.tla
    tlapm ScannerProofs.tla
    tlapm AssetStoreProofs.tla
    tlapm PageHistoryProofs.tla
    tlapm LibraryProofs.tla
    tlapm ScreensProofs.tla

The longest take about a quarter of an hour each from nothing.
