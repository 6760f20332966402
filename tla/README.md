# Viewer: formal models

TLA+ models of Viewer, a macOS desktop program that browses, organises and reviews the files of a
project folder. Modelled are the parts that decide whether the user's files and marks survive (the file
operations with their journal and recovery, the runtime around them, the index that follows the folder), the
parts other programs read (the public review history), and the shared schedulers and the video player,
where everything happens at once. TLC checks small instances; TLAPS proves the invariants listed below for
every value of the constants.

Paths are relative to the repository. Short names: `viewer-domain`, `viewer-application`,
`viewer-infrastructure`, `viewer-platform-macos` are under `src/crates/`, `src-tauri` and `ui` under `src/`.

## 1. Inventory

### File operations

| component | state | operations | what makes it correct |
|---|---|---|---|
| **Operation journal** `viewer-infrastructure operation/journal.rs`, `viewer-domain operation.rs` | SQLite tables of batches (announced size, counters, state) and of rows (state, evidence, temporary, result) | `begin_batch`, `begin_plan`, `record_item`, setters, `record_prepared_evidence`, `register_temporary`, `record_fs_applied`, `advance`, `complete/fail/skip_item` and their `_recovery_required` forms, `resolve_recovery_obligation`, `finish_batch` | counters are the results; a result is final; a replayable row has evidence; a registered temporary is not forgotten; a batch is finished only when all its rows are |
| **Rename transaction** `operation/rename.rs`, `operation/service/execution.rs`, `results.rs` | files, hidden "part" names, journal rows | temporary stage and final stage of each component, revalidation, failure handling | no file lost, duplicated or left hidden unnoticed; foreign files untouched; results tell the truth |
| **Metadata barrier and index sync** `src-tauri operation_runtime/commit.rs`, `portable/markers.rs` | marker rows keyed by path, session index | move a file's marker, sync the index, both replayable | markers and index follow the file |
| **Recovery of renames** `operation/recovery.rs` | what is on disk against what the journal says | `recover_project`, the `recover_rename` decision table, restore, replay | idempotent; leaves nothing hidden; does not fail for ever |
| **Staged transfer** `operation/copy/`, `conflict.rs`, `executor.rs`, `service/execution.rs`, `recovery.rs` | the file at source and destination, the copy's part, the part a file is set aside in, the Trash, the lease on a part | copy, cross-volume move, move to the Trash, replacing rename; compensation; `recover_copy`, `recover_trash`, `recover_replace`, `recover_cross_volume_move` | the moved file always exists somewhere; the old file is replaced only by its successor; no unknown hidden part; a crash alone leaves nothing to review |
| **Operation runtime** `src-tauri operation_runtime/runtime.rs`, `publication.rs` | active batch, retained records, watch channel, worker and forwarder tasks | `start`, `cancel`, `wait`, `status`, `results`, publication of events | the end is announced once, last, and with its results stored |
| **File-command service** `viewer-application file_commands.rs` | registered batch, cancellation tokens and early intents, shared progress | `execute`, `cancel`, `publish_progress` | an accepted cancellation stops what has not begun; reports match the journal |
| **Project close and undo** `src-tauri state/session.rs`, `viewer-application undo.rs`, `operation/service/undo.rs` | session, its token, its write lane, the undo stack | `request_close_for`, `close_project`, `undo_last`, `reverse_batch` | nothing moves after the close has returned; what moved can be undone |

### The index of the project folder

| component | state | operations | what makes it correct |
|---|---|---|---|
| **Scan** `viewer-infrastructure scan/walker.rs`, `src-tauri state/scan_index.rs` | files met so far, progress of the scan task | walk, publish in batches, hydrate marks, derive texts | the index agrees with the folder or somebody will still look |
| **Watcher, planner, reconciler** `src-tauri watcher_runtime.rs`, `scan/reconcile.rs`, `scan/reconcile_service.rs`, `viewer-platform-macos watcher.rs` | noticed paths, planned scopes, a bounded queue, a reconcile under way | deliver, push, flush, enqueue, collapse on overflow, walk, move marks, commit | no change forgotten; marks move with their files |
| **Session index and derived text** `search/index/writer.rs`, `scan_index.rs` | rows with identity, stamp, mark, text | `upsert_batch`, `reconcile_subtrees`, `reconcile_identity_moves`, `replace_text`, `mark_text_failed` | the text found is the text the file has |
| **Text save** `src-tauri state/preview.rs` | | write, reconcile, all under the write lane | as above |

### Continuous review

| component | state | operations | what makes it correct |
|---|---|---|---|
| **Authoring store and its queue** `viewer-infrastructure review/authoring/store.rs` | revisions, the published head, materialization jobs with lease, attempts and status | commit a command, `claim`, `mark_published`, `mark_failed`, `requeue_expired` | every unpublished revision has a job |
| **Materialization** `viewer-application review_workspace/`, `src-tauri state/review_workspace/` | a claim, the loop's wake-up and back-off, the command in the gate | `run_one`, `materialize`, `publish`, `flush_through`, archive barrier | what is saved becomes public; an archive closes a public state |
| **Public history** `review/continuous/commit.rs`, `prepare.rs`, `lease.rs`, `atomic.rs` | installed states and the index that names the current one | install, replace the index, verify | the history is one chain |
| **Reader** `review/continuous/reader/` | pinned heads | `open`, `gate_stream`, `into_current` | never an older published state for the current one |

### Scheduling and video

| component | state | operations | what makes it correct |
|---|---|---|---|
| **Decode scheduler** `viewer-infrastructure decode_scheduler.rs` | limit, tickets out, queue of waiters, a `Notify` | `acquire`, cancelled `acquire`, dropped ticket, `set_limit` | the queue is exact; no missed wake-up; interactive requests always get a slot |
| **Derived-work scheduler** `viewer-application scheduler.rs` | waiting and running counts by class, a `Notify` | `acquire`, cancelled `acquire`, dropped permit | the counts are exact; a class starts only while no higher class runs or waits; no missed wake-up |
| **Visible image requests** `src-tauri state/preview.rs` | one future per request | `render_visible_image`: ticket, then permit, then render | every request is answered; bursts do not shut out other work |
| **Video runtime and service** `src-tauri video_runtime.rs`, `viewer-application video.rs` | open attempts, transition lane, generation, session and playback state | `begin/cancel/finish_open_attempt`, `replace_authorized_for_attempt`, `close`, `execute`, `preview_seek`, `handle_engine_event` | a player on the screen belongs to the session; the state is what the player does |
| **Engine adapter** `viewer-platform-macos video/adapter.rs`, `media_worker.rs` | the mounted player, the pending seeks and gates of its thread | `prepare_surface`, `open_paused`, `publish_seek`, `frame_rendered`, snapshots | a seek ends; the end of the video is told once |
| **Video view** `ui components/videoPreview/useVideoBridge.ts` | its attempt and its generation | open, cancel, close, commands | a video that was left is closed |

### Not modelled

- *Organisation commands*, `src-tauri state/markers.rs`: thin callers of the runtime, the undo stack and the
  marker service; what they call is modelled.
- *Preflight planning*: names, conflicts and groups are a pure function of one reading of the disk. Its
  answer is a free choice or a constant in the models; only the revalidation of a prepared item is a step.
- *The undo reversal inside a batch* and *review and marker undo*: planned (section 8).
- *Opening a project, schema migration, project identity*: planned; the models begin with a project that has
  just been opened, or with recovery.
- *Image pipeline and caches, image render runtime, quick look, annotation passes*: decoding, GPU resources, geometry and
  shaders: numeric and platform code, whose interleavings are behind the two schedulers.
- *Video tools*: probe and thumbnail child processes, their queue and cache. The probe appears as a
  competitor for permits in `VisibleImages`.
- *Domain rules of a review session, evidence, the migration from version 2, the bundles of the single-shot review*: data and
  validation, without an order of steps of their own.
- *Settings, metadata, browsing*: reads and single-value writes.
- *Batch image processing, drag-out*: a sequential loop with one result per file; platform code.
- *macOS bindings, TypeScript UI, scripts*, apart from the lifecycle of the video view.

### How they interact

An organisation command calls `OperationRuntime::start`, which runs a preflight under `start_gate`,
makes a record, and spawns a worker and a forwarder. The worker calls `FileCommandService::execute`,
which takes the session's write lane and gives the files one by one to the local adapter; for a rename
the first file of a group runs *all* the components of the rename. Every file step is surrounded by
journal writes; after `FsApplied` the adapter calls back into the metadata barrier and the index. The
service publishes progress through a watch channel, the forwarder turns it into events. `cancel`,
`close_project` and `undo_last` reach the same state from other tasks. When a project is opened, recovery
reads the journal before anything else may write; then the scan fills the index while the watcher already
listens, and both, and every text save, write to it under the same lane. A review command commits a
revision and its job, and wakes a loop that publishes it; a command that archives publishes by itself first. An
agent reads heads and index without any lock. Each visible image waits for a ticket of the decode
scheduler and then, with it in hand, for a permit of the derived-work scheduler, where it competes with
folder queries and video probes. A video is opened, commanded and closed through one lane, which
the project's close takes as well; preview seeks go around it, and engine events come back through a queue.

The hard behaviours: a crash between a file-system call and the journal write that records it;
recovery that is itself killed; cycles of renames; other applications changing the folder between two
steps; timestamps that do not order the journal; cancellations that arrive before the worker has
registered, between two locks, or while a group is renamed; a close that meets a start still in its
preflight, a scan, or an open video; a walk over a folder that changes under it; a claim whose lease ran
out while its holder still works; publications that are half recorded; wake-ups that store nothing for
tasks that have not registered yet; calls of the view that overtake one another.

## 2. Modules

| module | models | composed of |
|---|---|---|
| `OperationJournal` | the journal: one action per writing method | |
| `FileRelocation` | abstract: what a journalled relocation promises for each file, and what a cancelled one still does | |
| `RenameTransaction` | one component of a rename plan, its barriers, crashes, a cancellation, other applications, and recovery | the journal's operators (`Journal`), implements `FileRelocation!Spec` |
| `StagedTransfer` | one file of a copy, a cross-volume move, a trash or a replacing rename, with recovery | the journal's operators (`Journal`) |
| `FileCommandRuntime` | start, worker, forwarder, cancellation, undo and close in one session | |
| `ProjectIndex` | scan, watcher, planner, reconciler, marks, derived text, text save and close | |
| `ReviewPublication` | command path, job queue, publishing loop and flush, public history, reader | |
| `DecodeScheduler`, `DerivedWorkScheduler` | the two schedulers on their own | |
| `VisibleImages` | requests holding one scheduler while waiting for the other | both, by INSTANCE |
| `VideoPlayback` | view, open attempts, lane, preview service, engine adapter and its thread, project close | |
| `MC...` | the instances TLC checks | |
| `OperationJournal_proofs`, `RenameTransaction_proofs`, `StagedTransfer_proofs`, `FileCommandRuntime_proofs`, `ProjectIndex_proofs`, `ReviewPublication_proofs`, `VisibleImages_proofs`, `VideoPlayback_proofs` | theorems and their proofs | each extends the module it is named after |

An operator whose name ends in `_Something` after a comment that begins with "Mutant" (or "mutant") is a wrong version
of the one that follows it. It is never used by a specification; putting it in the place of the right one
makes the property that `PROJECT.json` names fail, which shows that the property says something.

### How the models correspond to the code

**OperationJournal.** `batches[b]` and `items[o]` are the rows. Each action is one method, its guard the
conditions under which the method does not return an error: a refused call changes nothing in the code
(each method is one SQLite transaction) and is no step here. `finish_item` is an operator shared by the
three ways to end a row. `advance` moves only along `OperationState::transition_to`.
`record_prepared_evidence` takes an optional temporary; all three callers pass one (`rename.rs:356` stages
every source, `execution.rs:632`, `conflict.rs:378`), and so does the action. Passing none would clear the column.

**RenameTransaction.** Operation `o` renames file `o` from `Src[o]` to `Dst[o]`. `at` and `part` are the
disk: the file at each visible path and at each operation's hidden sibling. One action is one call of
the code that can be seen from outside: a rename, a journal write, the marker move, the index update. So
`Crash` can fall between any two of them, clears everything but disk and database, and `OpenProject`
starts recovery. `recency` is the order of `updated_at_ms`, which `IsNext` reads as
`incomplete_items` does; with `ClockTies` the stamps may be equal. Recovery (`Decision`, `Recover`) sees
what the code sees, existence, size and hash, and so cannot tell files with equal bytes apart
(`HashOf`). `Fault` is an operational error of a call that changed nothing. `OutsideChange` is another
application that creates, removes or overwrites a file. `execute` takes the files of the batch one by one, but
all renames run in the turn of the first: then come the `Turn`s of the others, which only report. `Cancel` may come
before the passes or between two turns; what it finds still Prepared is skipped (`NotStarted`, `Turn`).
`CancelInTurn` is a cancellation between the two looks at the token (`file_commands.rs:439`, `execution.rs:859`):
`mark_cancelled` ends the row of that turn in whatever live state it is. Markers are keyed by path (`markAt`,
`markPart`), as in `portable/markers.rs`.

**StagedTransfer.** `disk` has four places: source, destination, the part the copy is written to and the
part a file is set aside in. `step` is the next call of the route; `armed` says that a live lease would
unlink the copy's part when it is dropped, which happens on every return but not in a crash. `told` is what
the caller was told. Errors take the compensation the code takes at that point, which itself may fail.

**FileCommandRuntime.** A step ends where a task takes or drops a lock or awaits; what it read before that
point may be stale after it. `start[b]` is at which await the start command is, `worker[b]` the worker,
`forwarder[b]` the forwarder. `gate` and `lane` are the two mutexes held across awaits. `record`, `active`
and `order` are `OperationRuntimeState`; `svcActive`, `intents`, `cancelled`, `shared` and `channel` the
service's state. The work on one file is one step with every outcome its journal rows can show. `shown`
is what an observer of the events has seen.

**ProjectIndex.** A file is an inode and the stamp of its last write, so that a save (a new inode at the
path), an overwrite in place and a move are told apart as the reconciler tells them apart. A walk looks at
one path per step, in the order of the walker, while other programs go on. `heard` is what the platform
has noticed; it delivers any part of it as exact paths or as a request to rescan. `pending`, `queue`, `rec` and
`derive` are the planner, the queue, the reconcile of each caller and its derived work; store and index
are written in two steps.

**ReviewPublication.** `revs`, `published` and `jobs` are one SQLite database and change together;
`history`, `states` and `lease` are files. A worker (the loop, or the flush of a command) goes through
claim, verify, render, recheck, install, replace, reverify, mark; each is one step, so a crash, a close, an
expired lease or the other worker may come in between. `epoch` is the lease epoch of a claim.

**Schedulers.** A waiting task is `arming` before it has registered with the `Notify`, `armed` when it has
and still has to look at the state, `asleep` when it was not its turn. Dropping a ticket or a permit is
two steps, the change under the lock and the notification after it (`freed`, `left`), so that a task can
look at the state in between. A future can be dropped only where it awaits, so `Abandon` needs
`asleep`.

**VideoPlayback.** A position is in the middle or in the last 150 ms of the video. The player pauses itself at its
end (`ReachEnd`, `keep-open-pause` in `viewer-video-mpv/src/client.rs:40`) at any moment while it plays, whether or not
a frame of the last 150 ms was drawn before; the state is Playing until the end is handled. `halted`, `unseen`,
`refused` and `overtaken` are histories, read by the properties only: the player has paused itself, nothing is left that
would tell so, the pause after it was refused, the awaited seek was dropped. `open[a].pc` is the await at which a `video_open` is; `lane` the transition lock, held
across steps only by an open, since a command changes nothing between its own awaits that another task could
tell. `service`, `player` and `worker` are the preview service, the adapter with its mounted player, and
`WorkerState`. `events` is the channel to `handle_engine_event`. `view` holds the calls the view has
sent and nobody has executed.

### Abstractions

- File contents are a hash class, paths a small set, names of temporaries are those of their operation.
- Evidence is present or absent; it is size and hash in the code.
- `FileCommandRuntime` leaves out preview sessions, the claimed set, the prepared-plan map and
  `mark_delivered`; a batch rejected by its preflight stands for everything else that can hold the lane
  or refuse. Draining a settled run of files is one step.
- `StagedTransfer` leaves out extended attributes, fsync and buffers; a partial copy is one value. `rename_verified` is
  one step, so the file set aside can only be unreadable (`AsideUnverified`): that its content differs, and is put
  back (`execution.rs:560`, `664`), takes a write between the identity check and the rename inside that call.
- `ProjectIndex` leaves out the expected-change ledger (it labels a request and changes nothing else), folders that
  move, unreadable entries, I/O errors, images and videos. One session.
- `ReviewPublication` has one stream; what a command says, its evidence, drafts and the migration are left out.
- In `VisibleImages` a request, query or probe is made once. A stream of folder queries that never ends
  would hold back images for ever; that is the scheduler's rule and not a claim about it.
- `VideoPlayback` leaves out volume, mute, rate, fullscreen, covers, timeline thumbnails, progress times and the
  bound of 1024 remembered attempts. It assumes of the player that it draws a frame within the tolerance of a
  seek's target when it is paused, that every step yields a frame, that `video_open` calls begin in the order in
  which they are made, that closing the player does not fail, and that the first frame is announced
  when it is looked at (the code does it on the main thread right afterwards).
- `CHECK_DEADLOCK FALSE` is set where every request is bounded, so that the system does stop.

## 3. Runs

| run | instance | shows |
|---|---|---|
| `journal` | 2 batches, 3 rows, two policies | every order of legal calls keeps counters and results consistent, finishes a batch only when its rows have ended, and forgets no temporary |
| `rename_interference` | cycle of three, a foreign file with the first file's bytes, 2 outside changes, 2 crashes, 1 fault, a cancellation, clock ties | no file lost, hidden files stay on the work list unless a cancelled batch has skipped them, foreign files stay, and the whole implements `FileRelocation` |
| `rename_recovery` | cycle of three marked files, 2 crashes, a cancellation, no interference | one recovery settles what can be settled, a second does nothing; markers and index follow; the project opens unless a marker cannot be moved |
| `rename_mixed_marks` | swap of a marked and an unmarked file | violation: finding 1 |
| `staged_transfer` | the four routes with either conflict policy; a foreign file with the original's bytes; 2 outside changes, 2 crashes, 2 faults | the file survives, the old one goes only for its successor, no unknown hidden part, crashes alone leave nothing for review, foreign files stay, results are true |
| `runtime_one` | one batch: a rename of two groups or a copy of two files of which one is skipped; a fault, a cancellation at any moment, a close | results are true, what moved can be undone, no work begins after an accepted cancellation, batch and close end |
| `runtime_two` | two start commands, an undo, a close | an ended batch is ready for the next; the end is final; nothing moves after the close |
| `project_index` | three paths in two folders, a file and two marks, 2 changes by other programs or 1 beside a save; cancel, close | no change forgotten, texts (with one exception) and marks right, a closed project is quiet, everything comes to rest |
| `save_loses_mark` | the same, one save | violation: finding 2 |
| `review_publication` | three commands, ordinary or archiving; two of crash, close, fault, late worker, read | one chain of public states, a job for every gap, archives of public states only, no stale read, saves become public and commands are answered |
| `visible_images` | interactive image, prefetched image, folder query, video probe; the limit goes 2, 0, 1 in any order | no missed wake-up at either scheduler, every image answered |
| `video_playback` | two views with a failing call and a close of the project, or with a command; one view with replays and steps, or with seeks and preview seeks in any order | the player, which pauses itself at the end, belongs to the session and does what the state says, seeks end, the end is told, the player follows the view |

### Bounds

A cycle of three is the smallest plan where each destination is another file's source and a row has a
neighbour on both sides; in a swap recovery never meets a row whose two paths were taken by two others. Two crashes
give a crash in the batch and one in the recovery, and a third recovery that is not interrupted.
`RecoverySettles` is stated for at most one crash, because a crash *inside* recovery can leave a `Staged`
row with the file back at its source that no later run settles, and names what one crash may leave
(section 7). `rename_recovery` orders the journal writes by their time; with ties, two crashes can send a marker
astray (section 7). Two files in a batch are one before and one at the place where the cancellation is seen; two batches
with one retained record are enough for the oldest to be evicted while somebody waits for it.

Where the code has a limit, reaching it is what matters: `MaxRetained` is 16 in the code and 1 here,
`MAX_DECODE_CONCURRENCY` 16 and 2, `DEFAULT_DECODE_CONCURRENCY` 3 and 2, `MAX_QUEUED_RECONCILES` 1 here so that the
second request already overflows it; `RETRY_DELAYS_MS` has five entries and `MaxAttempts` is 1, so that a second
failure blocks a job. Decode limit 2 lets a request sleep beside a free slot after an admission, 1 makes two requests
contend, 0 stops prefetches. Three paths in two folders: a move within a folder, a move to another folder, and a
minimised request for both. Three commands: an archive with an ordinary revision before and after it, or a
batch of two. `VideoPlayback` takes its bounds from a set of six combinations (`MCBounds`), since all of
them at once would multiply what does not interact: attempts against each other with a fault and a close, a
command across two sessions, and the orders of up to three seeks in one. In the combinations that are about seeks and
steps the view stays (`leaves` 0), so that a property about what must happen in the end is not met by leaving.

Requests, cancellations, undos, faults, crashes, outside changes, saves, seeks and changes of the limit are counted
in variables and bounded by the constants of the same names. State spaces go up to 1.2 million states.

### Fairness

- `RenameTransaction!FairSpec`: weak fairness of `Work` (a running worker or recovery makes its next
  call) and of `OpenProject` (the user opens the project again some day). Crashes, faults and outside
  changes are bounded and never forced.
- `FileCommandRuntime`: weak fairness per task: the start command, the forwarder, the worker, a
  cancellation in progress, the close, the undo. Tokio polls every task that was woken, and its mutex
  and rwlock are FIFO. Nobody has to start, cancel, close or undo.
- `ProjectIndex`: weak fairness of the watcher's task (which includes the delivery of what the platform noticed), of
  the scan, of a close that has begun, and of the reconcile of a save. Other programs, saves, cancellations
  and closes need not happen.
- `ReviewPublication`: weak fairness of a command in the gate, of each worker, of the loop's wake-up and back-off
  timer, of leases that run out, and of a session that closes. The user, crashes and reopening are free.
- `VisibleImages`: weak fairness per request and per competing task, which includes that a render or a query
  ends, and of the notification after `set_limit`. Nobody has to request or cancel, and pressure need not
  end: a prefetch may wait as long as the limit is 0.
- `VideoPlayback`: weak fairness of each open with its answer and its cancellation, of calls and preview seeks already
  made, of the project's close, of the event loop, of the player's thread, and of the player, which draws the frames
  that are due, goes on while it plays, and reaches its end. Views, commands and seeks are the user's and free. The liveness
  properties say `[]<>(trouble => excuse)`, which is the same as "trouble leads to no trouble or excuse" and cheaper to
  check.

## 4. What is proved

**OperationJournal_proofs**, from `JournalAssumption` only (any batches, rows, policies). The inductive
invariant `IInv` is the conjunction of the safety properties of the journal, `BatchIsNotOverfull` (no batch holds more
rows than it was begun for), `ResultIffTerminal` (a row has a result exactly when it has ended) and
`AbsentBatchIsZero`: a batch that was never begun counts nothing, without which `begin_batch` could not be
shown to establish the counters. Counters are cardinalities of sets of rows, so most of the proof is which set
each method changes by one element. From it follow `TypeOK`, `CountersMatchItems`, `BatchIsNotOverfull`,
`FinishedBatchIsSettled`, `ReplayHasEvidence`, `ResultIffTerminal`, and the action properties `ResultIsFinal` and
`TemporaryIsNeverForgotten`.

**RenameTransaction_proofs**, from `PlanAssumption` (any plan with distinct sources and distinct
destinations, any number of crashes, faults and outside changes). `NoFileLost` is not inductive: a
rename into place is harmless only because a part holds its own operation's file and nobody else's. The
invariant `FileInv` adds `FileTypes`, `OwnParts` (what is under a part is that operation's file) and
`DestroyedAreGone`; it gives `NothingIsLost` and `ForeignIsSafe`. The other results need what the worker knows of
the rows. `RenameInv` adds `RowInv` (evidence comes with the hidden name, a hidden file has an open
row or one that was skipped after an error, and the state of a row fits the place of its file) and `ControlInv` (what each step relies on an
earlier one has checked, and a pass leaves behind it what the next pass expects of *every* operation that has not failed;
without the second part the first one is not inductive, because the worker comes to another row with the next step).
`HiddenStaysTracked` follows from it. `ReviewInv` says that what recovery is done with is ended or undecidable, and stays
so whatever it does with the rows after it: a rename into place or back only fills a path that was empty, so a row whose evidence
fitted two places still does. It gives `SecondRecoveryDoesNothing`.
`RecoveryAlwaysSettles` needs to know what *one* crash can interrupt. `CalmInv` describes an executor nobody interferes
with: how far each pass has brought the operations before and after its own (`Course`), that the destination of each marker is
free or will be freed (`MarksInTurn`), that the index follows the third pass (`IndexInTurn`); so an operation fails only at the
metadata barrier and only because of the marker of a trashed file. It follows where each file is when the process
dies, and that a row recovery cannot decide is one of the four kinds `RecoverySettles` names.
`MetadataAlwaysFollows` is stated for at most one crash and for plans without the mixture of finding 1 (`Unmixed`: no
marked file takes or leaves the place of an unmarked one, and none without a marker goes where an old marker lies). Its
invariant `MetadataInv` says that every marker is at the source, under the hidden name or at the destination of its file
(`MarksPlaced`), that the row tells which (`RowsTell`), and that at most one row was left after its marker had moved
(`OneInDoubt`). The last part is the argument for the repeated barrier: whatever could be in the way of a marker that has
arrived has its own marker under its hidden name, so the repetition moves nothing or reports a collision.
`RelocatesAsPromised` is a step simulation: every step is a step of `FileRelocation` under the mapping of the model or
none. A file that has left its source may be reported skipped there only if it is `stopped`, that is if its batch met
an error with it (or with the check of all) before the cancellation, so the theorem bounds what `mark_cancelled` can do to
the files an error had already left behind. That every journal write is one the journal allows needs no theorem, since each is an action
of `OperationJournal`.

**StagedTransfer_proofs**, from the assumptions of the model (any routes, any bounds). `SourceSurvives` depends
on where the worker is: a source may be taken away because its copy was placed some steps before. `TransferInv` is
`DataInv` (which content can be at which place, `PartsAreNamed`: what is hidden is what the row names) with
`WorkInv` (`CopyAtWork`, `MoveAtWork`, `WorkerKnows`: what each step of each route finds, in the executor and
in recovery, and `CopyIsBound`: only a copy at work can be unlinked by its lease). It gives `SourceAlwaysSurvives`,
`PartsStayTracked`, `ReplacedForItsSuccessor` and `ForeignAlwaysStays`. `ResultInv`, on top of it, relates row and files:
`RowFitsFiles`, `DeliveredWhenDone` and `UndeliveredWhenEnded` say at which steps the content has
arrived or has not left, `Originals` that it is in one place, `ToldWhatIsRecorded` what the caller knows. It gives
`ResultsAlwaysTrue`. `CalmInv` is for runs that only crashes interrupt, any number of them: it lists the scenes of each
route (state of the row, named part, place of each file, steps that may come next), and every crash, recovery and
step leads from a scene to a scene, which gives `CrashAloneIsAlwaysResolved`. That one step follows another is computed by lemmas about `Following`, one for each route.

**FileCommandRuntime_proofs**, from the assumptions on the constants, one of which says that no batch has the name of
another holder of the lane. `ControlInv` is about the tasks: `OneBatchAtATime`, `LaneIsExclusive`,
`CloseWaitsForTheLast` (a close revokes the session before it looks for an active batch, so the one it waits for
is the last) and `EndsInOrder` (the forwarder is joined before the end is written, and each later step finds
what the earlier ones wrote). `CancellationIsKept` says that a cancellation is in force or waits as an intent for
the registration, `ResultsFollowFiles` that results and files advance together. Theorems: `EndedAlwaysMeansReady`,
`ResultsAlwaysTrue`, and the action properties `CancelAlwaysStopsTheRest` and `EndAlwaysFinal`. `MovedCanAlwaysBeUndone` comes from
`UndoInv`: the rows of a batch agree with what was moved (a file the work has not come to is untouched, a group is left only by a
cancellation), and without a failing call a batch that moved something has only ended rows when it is summarised and is then on the stack.

**ProjectIndex_proofs**, from `FoldersAssumption` (finitely many paths; folders are nested or
disjoint, hold something and are told apart by what they hold), `FilesAssumption` (at the beginning no two paths
are links to one file) and `BoundsAssumption`. There are four invariants, each inductive relative to those before. `BaseInv` has the
types, the keys of the index, the one holder of the write lane, which paths each walk has left, and whose turn it
is; with it `ClosedStaysQuiet`. `LookInv` is the argument for `NoChangeIsEverForgotten`: while nothing has failed,
a path whose row is wrong is *told* (noticed, pending, queued, or in the roots of a reconcile under way)
or is left to the scan, and whatever a walk has seen is still there or told again. The second half is needed because a
walk is torn: what it saw first may be gone when it commits, and the commit is right only because the change was
noticed after the walk had begun. The lemmas about the planner show that minimising roots and collapsing them on
overflow never lets a path go. `MarkInv` (moves planned by the holder of the lane are those of what it has
seen; before a commit the marks have moved) gives `ShownMarkIsAlwaysStored`, and `TextInv` (a text read
from a content that is not the row's belongs to a content that is gone, so the row will be renewed, or to another file)
gives `TextIsAlwaysCurrent`, which also needs `LookInv`. On the way `StillAcceptable` shows that a commit whose moves were
planned is never refused.

**ReviewPublication_proofs**, from the assumptions on the bounds only (any number of commands, crashes, closes and reads).
`HistoryIsAChain` is about files, but an outdated worker can break it unless the index names the parent of the
claim when it is replaced. The invariant has `ClaimsAreSound` (what a claim was given stays true however old it is:
its revisions follow on a head that was published, an archive among them is alone), `WriterIsAlone` (between its record
and the index the holder of the writer lease is alone), `MarksArePublic` (only a public state is recorded as
published), `Chain` and the types, with `JobsCoverTheGap`. Theorems: `HistoryAlwaysAChain`,
`JobsAlwaysCoverTheGap`, `ArchiveBasisAlwaysPublic`, `AgentAlwaysSeesTheLatest`, and
`NothingIsEverTakenBack`: the history only grows at its end and the head only rises.

**VisibleImages_proofs**, from `VisibleAssumption` (finitely many images and tasks, any classes for the
others, any limits). `UsesBothSchedulers`: every behaviour of the requests is a behaviour of each
scheduler's own specification. The invariant `VisibleInv` conjoins, for the decode scheduler, the exact
queue (`DecodeInv`), for the derived-work scheduler the sleepers and the counts (`DerivedInv`,
`Counted`), and `PermitNeedsTicket`: only a request with a ticket is known to the permit scheduler. The last
one is the link between the two: it bounds the visible class by the tickets. `NoWakeUpIsMissed` is the
conjunction of one theorem for each scheduler.

**VideoPlayback_proofs**, from the assumptions on the constants (any number of views, generations, commands
and failing calls; the budgets count down from any number). `OpensInTheLane` says what is mounted between the steps of an open, which is the only
time player and session differ; `ClosedToOpens` that the close of a project waits for the opens that hold a
lease and keeps later ones out; `SeeksKnowThePlayer` what a pending seek found, a player that has paused itself meanwhile included, and will do; `FirstFrameFirst` that in
the queue of events the first frame of a generation is ahead of its end, without which an `Ended` could find the
state still Ready. Theorems: `PlayerAlwaysBelongs` and `StateAlwaysMatches`.

Each of these invariants was checked by TLC on an instance before it was proved. Two things of the models were changed for it:
helpers that choose from a set are quantified (`\E p \in todo : p = NextOf(todo)`), and the arms of a CASE are disjoint, because
overlapping arms have no order in TLA+.

Proved and in no run, which would add nothing to the theorem: `TypeOK`, `ReplayHasEvidence`, `ResultIsFinal`,
`BatchIsNotOverfull` and `ResultIffTerminal` of the journal; `TypeOK`, `TicketQueueIsExact`,
`PermitCountsAreExact` and `VisibleIsBounded` of the requests; `NothingIsTakenBack` of the public history. The full
`TypeOK` of `RenameTransaction` is stated for the reader; the proofs use its part `FileTypes`.

Only model-checked:

- every liveness property, `ComesToRest` and `ProjectOpens` among them: fairness and ENABLED are outside what the prover does;
- `MetadataFollowsFile` beyond one crash: with two it holds in the instance of `rename_recovery`, but it depends on the
  order in which recovery takes the rows, and is false when journal timestamps tie (section 7); for mixed plans it is false
  without any crash (finding 1).

Every other invariant and action property of a passing run is a theorem.

Nothing is proved by induction over data: the induction theorems take an operator as a parameter, which the
installed provers cannot instantiate; smallest elements come from `WFMin` instead. No module uses a RECURSIVE operator.

## 5. Findings

1. **A marker changes its file** (`rename_mixed_marks`, `commit.rs:129`). `marker_source` looks under the
   part and otherwise under the source path. In a swap of a marked with an unmarked file the second
   file to commit finds at its source the marker the first commit has just put there, and takes it. The ADR
   says of `MetaCommitted` that "portable metadata is consistent with filesystem truth"
   (`docs/adr/0002-file-transaction-protocol.md:31`).
2. **A saved text loses its mark on the screen** (`save_loses_mark`, `preview.rs:557`). A save puts a new inode at the
   path; the reconcile after it replaces the row by one without a review state, and marks are copied from the store to
   the index only by the scan. The comment above the call says that markers "re-attach to the new identity"
   (`src-tauri/src/state/preview.rs:552`). The store still has the mark, so it is back after the next open.

## 6. Hazards

`PROJECT.json` lists, line by line, what a test of this code would hardly reach, with the properties
aimed at it. A note says where a property stops short; section 7 has the details.

## 7. Further disagreements seen while reading, without a run

Journal, rename and runtime:

- `journal.rs:288`: `advance` accepts `Failed` as a target and would end a row without a result. No caller
  does so; the model restricts `Advance` as the callers do.
- `commit.rs:254`: the metadata barrier does not recognise its own effect when it is replayed after a
  failed journal write. Mostly it then reports a collision: the project does not open again, as after a crash there in a
  cycle of three, while the file in the way is still hidden. `ProjectOpens` names that exception.
- `markers.rs:390`: trashing leaves the marker row at the old path by design. Renaming a marked file to that path
  passes the planner, fails at the barrier after the file has moved, and recovery repeats the same error on
  every open.
- `recovery.rs:470`: an operation whose file had arrived when the process died finds its source path
  occupied (by another file of the cycle) and is reported for review on every open. In a cycle of three a file can also stay
  hidden so (`recovery.rs:447`): both paths it could go to have been taken by the other two. `RecoverySettles` names these
  remainders.
- `recovery.rs`, with `commit.rs:254`: rows are taken in the order of `updated_at_ms`, which milliseconds do not always
  order. In a cycle of three with ties, a crash at the barrier of one file and a second one, in recovery, at that of the next
  let the repeated barrier of the first take its marker away again, under the hidden name of the next. `rename_recovery`
  therefore orders the writes.
- `recovery.rs:428`: a crash between the rename back to the source and the write of the failed result, in a
  `Staged` row, leaves a row no rule matches; it is reported on every open.
- `file_commands.rs:466`: all components are renamed while the loop is at the first file; a cancellation then
  settles the other files as not started although their rows are `Completed`.
- `results.rs:53`: `mark_cancelled` skips a row in any live state. When an error has stopped the renames and left a
  file under its hidden name (or at its destination, before the barrier), and the user cancels in the turn of that file,
  between the two looks at the token, the row is Completed with result skipped and without temporary: recovery does not look at it again, and
  the file stays hidden. The design says "Cancel prevents not-yet-started items … Atomic rename/Trash steps
  already in progress finish and are reported"
  (`docs/superpowers/specs/2026-07-16-viewer-m3-organization-comparison-design.md:110`). `CancelInTurn` models it;
  `HiddenFileIsTracked` and `FileRelocation` name the exception. It takes an error first: without one all rows have ended
  before the second turn begins.
- `file_commands.rs:724`: the worker decides what to publish under a lock and sends after it. A cancellation in
  between is announced as Cancelling and retracted by an older Running; the counts are not affected.

Staged transfer:

- `recovery.rs:499`: a cross-volume move that ended with an obligation and whose temporary is gone is failed
  again through `mark_failed`, which a terminal row refuses; the project does not open.
- `mark_failed` asks only for *a file* at the source, so a foreign file there counts as the original. Recovery
  accepts a file by its hash, so it accepts a lookalike.
- A replacing rename whose part was put back before the crash stays in review for ever; a cross-volume move with
  the replace policy is sent to `recover_replace`, which always asks for review.
- A part that cannot be verified when a file was set aside makes the move return without compensation. When the discard of
  a moved source fails, the original stays hidden and the copy is trashed instead.

Index:

- `watcher_runtime.rs:191`: a walk that meets a file twice, because it was moved under it, fails; its request is
  dropped and not tried again. This is why the properties of `ProjectIndex` exempt announced errors.
- A file moved onto a path that still has a mark of its own makes every later reconcile of the folder fail.
- A cancelled or failed scan ends the watcher's loop for the session. A save's reconcile during the scan can make
  the scan's `upsert_batch` hit the unique path and fail the scan.
- `scan_index.rs:416` checks the identity of a file, and another thread opens the path again (`:420`). When another program
  moves the file away in between and puts a different one in its place, the text of the new one is stored for the
  row; the reconcile then moves the row with its text to where its file went (`writer.rs:640`), where the wrong text is
  ready for good. `TextIsCurrent` excepts a text that was read from another file than the row's.
- A save reconciles beside the derived work and can leave an outdated text marked ready. `TextIsCurrent` is stated
  without saves.
- A file renamed while its text is extracted stays "failed". A move seen as two requests, or by a torn walk, loses
  the association: the mark stays at the old path.

Continuous review:

- `materialization.rs:184`: after a crash between the replacement of the index and the record of the head, a newer
  saved revision makes the next claim target both; it is not recognised as published, its parent is older than the
  index, the comparison answers `StaleSnapshot`, which is permanent, and the job is blocked. The design says
  "Recovery verifies the complete target and advances the head"
  (`docs/superpowers/specs/2026-09-01-review-save-pipeline-design.md:392`).
- `reader/current.rs:216`: the heads are pinned before the index is read; a save that becomes public in between is
  answered with an integrity error and not with either state.
- `store.rs` increments the lease epoch of the job it selects only, so a batch can carry epochs that repeat; the claim check
  compares the one of the target.
- A blocked job is never unblocked and holds back all later revisions (`store.rs:227`). The loop sleeps over jobs that are held
  by somebody else or were given back, and is not woken after `CommittedAuthoringPatchUnavailable`. A cancellation counts
  as an attempt.

Scheduling:

- `decode_scheduler.rs:29` says an interactive request is woken as soon as it is at the head of the queue.
  Admission notifies nobody, so the next in line sleeps, possibly beside a free slot, until some ticket is
  dropped. `NoImageIsForgotten` states what does hold.
- `state/mod.rs:603`: `apply_memory_pressure` stores the level under one lock and sets the limit after an
  await. Two overlapping calls can set their limits in the other order, so that the limit stays 0 at
  level Normal, and a further Normal is ignored because the level is Normal already. The requests are
  checked under any order of limits, so this costs prefetches only.

Video:

- `media_worker.rs:116`: a preview seek with a later identifier that is published while a commit waits for the lane or for its
  frame drops the commit. The service then waits for a completion that does not come; a paused video stays
  Seeking for ever. `SeekEnds` exempts it (`overtaken`).
- `video.rs:584`: a preview seek whose session was closed after it was admitted marks whatever session is current as
  failed, also one of a newer generation, although "Old geometry, preview … cannot alter a newer generation or request"
  (`docs/superpowers/specs/2026-08-14-viewer-video-interaction-performance-design.md`). It publishes no event for it.
- `video.rs:364`: an `Ended` that was queued before a seek ends the seek, with the position elsewhere. A pause that the engine
  refuses at the end is ignored. It matters only if the player plays then, because a replay or a seek has started it again: the
  state is Ended over a playing player, and `StateMatchesPlayer` exempts it (`refused`).
- `adapter.rs:78`: the end of the video is noticed when a frame was drawn in its last 150 ms, or after the player has come to
  its end; "Cover that observed final-frame gap so the UI receives Ended", says the comment. A last frame that is earlier and
  was looked at before the player pauses itself leaves nothing to look at: no end is announced, and the state stays Playing
  over a player that stands still.
- The end is announced once until the player is seen elsewhere. After a seek to the end, or a step back within the last 150 ms, a
  replay can reach the end again before a frame of before it was looked at, and is not announced a second time. In both cases
  a seek that awaits its completion waits for ever, or the state stays Playing. `SeekEnds` and `EndIsTold` exempt
  them (`unseen`).
- A preview or a seek can take a player that has paused itself back to the middle before its end is looked at. It stays
  paused there and the state stays Playing: `halted` in `StateMatchesPlayer`, and `pos = "mid"` in `EndIsTold`.
- A completion of an earlier replay can complete a second one: replays share identifier 0.
- A clip no longer than the guard of 150 ms is announced as ended before it is revealed (the model begins in the middle). Below
  some 20 frames per second a seek can miss the completion tolerance of 50 ms. A forward step at the end may never be announced.

## 8. Plan

Done: `OperationJournal`; `RenameTransaction` with `FileRelocation`; `FileCommandRuntime`; the two schedulers and
`VisibleImages`; `StagedTransfer`; `ProjectIndex`; `ReviewPublication`; `VideoPlayback`; for each of these a module of
proofs.

To model, most important first: the undo reversal (`operation/service/undo.rs`) over the journal with its
recovery; the opening, migration and identification of a project; overlapping calls of the memory-pressure handler; the probe queue and
the thumbnails of videos; several review streams and drafts.

To prove: `MetadataFollowsFile` for any number of crashes, from the order of journal writes; `RecoverySettles` after a
failing call instead of a crash.
