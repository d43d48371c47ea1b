# A verification project for Journiv

TLA+ models of Journiv (FastAPI, SQLModel and Celery on the server, React in the
browser), the TLC configurations that check them and the TLAPS proofs about them.
Paths below are relative to the repository.

## 1. What the system is

Journiv keeps the journal of a user: *moments* (a point in time with a note, a mood,
a place, tags, people, media), *entries* (the written text of a moment, in a
journal) and everything counted or derived from them. A request handler runs in
one of several API processes with a database session of its own. Long work (exports,
imports, media processing, synchronisation) is a Celery task: the handler commits a
row, sends a message, and a worker process reads the row again. Nothing but
database constraints, a few Redis locks and the order of commits keeps these actors
apart: rows are locked only where the first user signs up and where the instance row is seeded, and file
system and database change in separate steps everywhere.

| Component | State it keeps | Operations | Interacts with | What is hard | What makes it correct |
|---|---|---|---|---|---|
| Export jobs (`tasks/export_tasks.py`, `endpoints/export_data.py`, `models/export_job.py`) | `export_job` rows, messages, archives in `export_dir` | create, run, cancel, delete, download, retention | Celery, file system | stale row in the worker's session, lost worker, redelivery, failure after the archive exists | a cancelled job stays cancelled; a completed job serves its own archive; no archive is orphaned; every job ends |
| Media library (`services/media_service.py`, `media_storage_service.py`, `tasks/media_processing_tasks.py`) | `moment_media` rows, originals and thumbnails on disk, `Moment.media_count` | upload with deduplication, process, delete, prune | moments, entries, Celery | reference counts against uploads in flight, counters written late, shared thumbnails | a row has its file; no file is orphaned; an upload is answered with a stored row of its content |
| Import jobs (`tasks/import_tasks.py`, `services/import_service.py`) | `import_job` rows, uploaded archives, everything they create | upload, run, cancel, clean stale files | all content services | message not sent, rerun after a crash, cleanup against a queued job | what was committed is not imported twice; a file outlives its job's need for it |
| Immich imports, integrations (`services/import_job_service.py`, `integrations/`) | jobs, linked assets, provider tokens | link or copy assets, synchronise, repair | Immich over HTTP | the task times out while its coroutine goes on | every job ends; no asset twice |
| Entries, drafts, journals (`services/entry_service.py`, `journal_service.py`) | entries, `entry_count`, slugs | create, save with expected version, move, publish, withdraw, delete | media, statistics | check-then-write, recounts after the commit, stale delta | no save is lost unnoticed; counts match |
| Statistics (`services/analytics_service.py`) | the `writing_streak` row: streaks and totals | incremental update, recomputation, both after the commit of the entry | entries, moments | back-dated entries, gaps, requests that interleave, steps that fail | the incremental value is the recomputed one; the row describes the published days |
| Goals (`services/goal_service.py`, `tasks/goal_tasks.py`) | goals, logs of periods | automatic and manual logs, closing | moments | closing against a late log | one log per period, manual wins |
| Users, sessions, OIDC (`services/user_service.py`, `endpoints/auth.py`, `oidc.py`) | users, identities, tickets in the cache | sign up, in, out, refresh, exchange | cache | first user, last admin, a ticket used twice | exactly one first admin; a ticket works once |
| License, version, instance (`services/license_service.py`, `core/*cache.py`, `core/database.py`) | instance row, caches | refresh, expire, rotate identity | Redis, the Plus service | concurrent start, stale cache after rotation | one identity; no license of an old identity |
| Browser session (`frontend/src/api/auth/session.ts`, `app/offline/offlineMode.ts`, `api/client/config.ts`) | access token and generation of each tab; cookie, session hint and logout tombstone of the browser | boot, restore, refresh, adopt, clear, sign out, retry after a 401 | API, offline cache, the other tabs | answers of an old session, tabs that share the cookie, a logout that is never answered | a signed-out session never comes back; the mode on screen is that of the session |
| Browser offline cache (`frontend/src/app/offline/`) | persisted queries per user, a persister with throttled writes, a restore under way | subscribe, tear down, persist, restore, purge, switch on and off | session, IndexedDB, settings page | a purge against a throttled write, a restore against a sign-in | erased data stays erased; a slot and the screen hold data of one user |
| Browser drafts (`frontend/src/features/editor/useLocalDraft.ts`, `useDraftRecovery.ts`, `draftRepository.ts`) | the IndexedDB draft of an entry, the state of the form | schedule, flush, remove, recover, discard, save with expected version | IndexedDB, API, another device | a write in flight when the draft is removed, a refetch under an open form, a killed page | what is shown as saved is stored; nothing removed returns |
| Browser editor and uploads (`frontend/src/features/editor/useEntryDraft.ts`, `useMediaAttachments.ts`, `mediaUpload.ts`, `QuillSurface.tsx`) | the draft Moment of the session, uploads, placeholders in the text | ensure, adopt, discard, attach, retry, cancel, save | API, media library | an upload that ends after its placeholder is gone, Cancel while the Moment is being made | attached media stays; no draft Moment is left behind; a save holds what was chosen |

`PROJECT.json` lists every component with its files, those that are not modelled
with the reason, and every hazard found so far at its line.

## 2. What is modelled

### ExportJob

`ExportJob.tla` is the whole life of the export jobs of one user. A worker runs
`process_export_job` as a little program (`pc[w]`), and a step ends where another
actor can get in between: at a commit, at a read that later steps rely on, at a
change of the file system.

| Code | Model |
|---|---|
| `export_job.status`, `file_path` | `status[j]`, `filePath[j]` |
| the message in the broker | `queue[j]`; `redelivered` bounds how often it comes back |
| the row as loaded in the task's session | `seen[w]`, `Expired` after a commit or rollback |
| `export_dir`, what the archives hold, their age | `disk`, `content`, `aged` |
| the timestamp in the archive's name | `clock` |
| `zip_path`, or the file being written | `zip[w]` |
| `create_export` and `delay()`, which may raise | `Create`, `CreateUnsent` |
| start of the task, `mark_running` | `Skip`, `PickUp`, `MarkRunning` |
| progress callback and checks of the archiver | `Proceed`, `Abort` |
| `ExportService.create_export_zip`, `ZipHandler.create_export_zip` | `OpenArchive`, `CloseArchive` |
| finalizing, last check, `mark_completed` | `Finalize`, `FinalCheck`, `Complete` |
| `except JobCancelledError`, `except Exception`, `finally` | `HandleCancel`, `Fail` and `LoseSession`, `CleanUp` |
| `acks_late`, `reject_on_worker_lost`, visibility timeout | `Acknowledge`, `LoseWorker`, `Redeliver` |
| `cancel_export_job`, `delete_export_job` | `CancelRead`, `CancelWrite`; `DeleteRead`, `DeleteFile`, `DeleteRow` |

Three facts about SQLAlchemy carry the model. A session keeps a loaded row until a
commit, a rollback or `expire_all()`. An UPDATE names the changed attributes only,
so a progress commit does not write `status`, and `mark_running` on a row loaded as
running writes nothing (`Flushed`). A flush that fails, on a deleted row or on a
database error, leaves a session that raises until it is rolled back: the export
handler does not roll back (`LoseSession`), the import handler does.

`overtaken` is a history variable: the workers whose copy of the row is older than a
committed cancellation. `Events` selects what the environment may do, so that a run
or a theorem can say under which events a property holds.

Abstracted: progress numbers, the contents and layout of an archive (`content[n]`
is the set of jobs whose data it holds), authorisation. `OpenArchive` covers the
name, validation and the temporary JSON file, which the code always removes.

### MediaLibrary

`MediaLibrary.tla` is the media of one user. Uploads (`pc[u]`), processing tasks
(`proc[u]`), deletions (`dpc[d]`) and prunings interleave between the steps below.

| Code | Model |
|---|---|
| `moment_media` rows: `file_path`, `thumbnail_path`, `upload_status` | `row`, `path`, `thumb`, `state` |
| `moment`, `media_count` | `moments`, `count` |
| originals and thumbnails under `media_root` | `files`, `thumbs` |
| path `{user}/{type}/{checksum}{extension}` | `<<content, suffix>>` |
| `store_media`: is the file there; rename | `Probe`, `Place` |
| `upload_media`: row of this moment, row of another one, no row | `FindInMoment`, `ReuseRow`, `NewRow` |
| the commit and its `IntegrityError`, other errors | `Insert`, which answers with a row of `Answer`; `InsertFails` |
| `_refresh_moment_media_count`, then the message with the row and a path | `ReadTotal`, `WriteTotal`; `Message`, `queued` |
| `process_uploaded_file`, on the path of the message (`given`) | `SkipProcessing`, `BeginProcessing`, `MissFile`, `Render`, `Record` |
| `delete_media_by_id_sync`, `delete_orphaned_media_for_delta` | `ReadMedia`, `DeleteMedia` |
| `delete_moment` | `ReadMoment`, `DeleteMoment` |
| `delete_media_files_post_commit`: thumbnail, count, unlink | `PurgeThumb`, `PurgeKeep` or `PurgeCount`, `PurgeUnlink` |
| `prune_empty_moments` | `PruneRead`, `PruneDelete` |

Simplifications: the two consecutive SELECTs of `upload_media` (row of this moment,
row of another one) are one step; every row has a checksum and a local file (Immich
links have neither); a thumbnail can always be generated; the moments that can be
pruned have no entry, note, mood or link, so that only `media_count` keeps them; a
message whose row is missing is dropped at once instead of after eight retries.
Deleting a row that is already gone is only a warning in SQLAlchemy, so
`media_count` is decremented once more.

`overlapped` is a history variable: the uploads that were between looking for their
file and committing their row while a file of the same content was between the
reference count and the unlink.

### JobService and ExportJobContract

`JobService.tla` is what the export API promises, with no workers, messages, files
or sessions: a job is submitted, runs, finishes (completed and downloadable are one
step), breaks or is cancelled; a cancellation is final but for a task that has not
heard of it; an archive grows old before it expires; a deletion takes the archive
before the row. `ExportJobContract.tla` holds the refinement mapping and the proof
that every step of `ExportJob` is a step of the contract or a stutter:

| Contract | ExportJob |
|---|---|
| `status` | `status` |
| `archive` | what a download finds: derived from `filePath`, `disk` and `aged` |
| `stale` | the jobs of the workers in `overtaken` |
| `leaving` | the jobs of requests that have removed the archive and are about to delete the row (`op` is "deleteRow") |

`KeepsContract` in `ExportJob.tla` is the contract's `Spec` under this mapping; it
needs distinct archive names, since of two jobs with one name the second one takes
the first one's archive from under it.

### BrowserSession

`BrowserSession.tla` runs the session module once per tab over one browser.

| Code | Model |
|---|---|
| refresh cookie, session hint, logout tombstone | `cookie`, `hint`, `tombstone` |
| `accessToken`, `adoptedUserId`, `generation`, the mode store | `page[t]` |
| `refreshInFlight`, its request, headers and body | `refresh[t]`; `RefreshFails`, `RefreshRefused`, `RefreshHeaders`, `RefreshBody` |
| `boot()` in `main.tsx`, `restore`, `initBootMode` | `Boot`, `FinishBoot`; `Close` for a closed or reloaded tab |
| the `online` event | `Online` |
| `adopt`, `signOut`, the logout request | `SignIn`; `SignOut`, `LogoutAnswered`, `LogoutFails` |
| `authenticatedFetch` and its retry after a 401 | `Send`, `Done`, `CallRefused`, `Rejected` |

A response sets its cookie when its headers arrive, whatever the page thinks of it;
`overtaken` remembers that such an answer put back a cookie that had changed, and
`out` that the last change of session was a sign-out. One API request per tab stands
for all: what they share is the refresh. Abstracted: the contents of tokens, the
five-second limit (a refresh may fail at any time), the Web Locks API, which the code
does not use.

### OfflineCache

`OfflineCache.tla` extends `BrowserSession`: the steps of the session carry the
callbacks `main.tsx` registers (`OnClear`, `OnAdopt`, `BootWithCache`,
`FinishBootWithCache`, `CloseWithCache`), so that the two are one system.

| Code | Model |
|---|---|
| the switch, the slot of each user in IndexedDB | `enabled`, `store` |
| `currentUserId`, `lifecycle`, the subscription | `cache[t]`; `Subscribed`, `Started`, `Stopped`, `TornDown` |
| the query client, by whose data it holds | `mem[t]` |
| `hydrateOfflineCache` and its two seconds | `HydrationReads`, `HydrationEnds` |
| throttled writes of the persisters, `canWrite()` | `writes[t]`, `WriteFires`, `CanWrite` |
| operations of `offlineKv`, in order, or failing | `ops[t]`; `StorageRuns`, `StorageFails` |
| `setOfflineReadingEnabled`, "Clear offline data" | `Toggle`, `ClearData` |

`revoked` are the users whose data was ordered off the device, `emptied` how far the
button came. What is persisted of a query is abstracted to its user.

### EditorDraft

`EditorDraft.tla` is the unsaved writing of one existing entry in one tab, over
several openings of the page, beside another device that saves the same entry.

| Code | Model |
|---|---|
| the entry, its `updated_at`; the entry query | `server`; `query`, `Refetch` |
| the draft record and the operations on it | `record`, `ops`; `StorageRuns`, `StorageFails` |
| `useDraftRecovery`: phases, choice, media check | `RecoveryPhase`, `Opened`, `Rendered`; `Recover`, `DiscardDraft`, `MediaAnswers` |
| what the writer changes; `dirty`, which title and journal can lose again | `Edit`, `EditUndone` |
| `useLocalDraft`: debounce, `write`, `remove`, the latch | `Edited`, `TimerFires`, `Hide`, `Written`, `Removed` (`retired`) |
| `canonicalizeDeltaForDraft`, `rehydrateDraftDelta` | `Storable`, `Canonical`, `Rehydrated` |
| `saveMutation`, 409, overwrite | `Save`, `ServerDecides`, `SaveSucceeds`, `SaveFails` |
| Cancel, other ways off the page, a killed page | `Cancel`, `Leave`, `Crash` |
| `EditorLoadError` after a failed refetch | `Reopen` |

Three facts carry the model. IndexedDB runs the operations of a tab in order. React
detaches the handle of `QuillSurface` before it runs the cleanup of `useLocalDraft`,
so that the flush of the teardown finds no document and writes nothing. A live
refetch moves the version the next save expects.
Abstracted: title, journal and text are numbered words; of the embeds only whether a
record can hold them. `Changes` are the embeds an edit may bring or take away, so that
a text goes back and forth between what a record can hold and what it cannot, also
while a write is under way; an entry this editor cannot open stays that way; a request that
failed is not applied later; "no record" and "not read yet" are values of their own
(`AbsenceAssumption`); the error page between two refetches is no state of its
own, since nothing of the page acts there. What was typed in a form that is gone is
history, kept until the next form is put up. New entries and a second tab are left out.

### EntryAttachments

`EntryAttachments.tla` is one editing session that attaches files, on a blank entry
or on a Moment that exists.

| Code | Model |
|---|---|
| `createdRef`, the `ensure()` in flight, `discardRequested` | `draft`; `EnsureReaches`, `EnsureAnswered`, `EnsureFails` |
| Moments and media rows of the server | `moments`, `rows` (one row of a content per Moment) |
| the callers of `ensure()`: `attach`, `retry`, `ensureMomentId` | `Attach`, `Retry` (`Begins`), `EnsureMomentId` |
| an upload and its placeholder or media in the text | `file[f]`; `Begun`, `Start`, `UploadReaches`, `UploadAnswered`, `UploadFails` |
| the race check of `runUpload`, which deletes again | `Replaced`, `DeleteReaches` |
| removal and undo in the text | `TakeOut`, `UndoSwap`, `Undo`, `CancelUpload` |
| `sessionMediaRef`, `cleanup()` | `kept`, `CleanedUp` |
| Done, Cancel, leaving | `Save`, `SaveReaches`, `SaveSucceeds`, `GoToReader`, `SaveFails`; `Cancel`; `Leave` |

While a save is pending Quill is disabled (`Writing`), and a disabled Quill drops what
`insertPlaceholder`, `replacePlaceholder` and `removePlaceholder` ask for, although the
last two still answer true. Files can be dropped and pasted all the same, a failed one
can be retried, and details that are open can ask for a Moment: only buttons are
disabled. `missed` remembers the files whose placeholder or media was dropped, `save`
what began beside it (`late`, `beside`); between `SaveSucceeds` and `GoToReader` the
page awaits its caches, still locked, with the draft already forgotten.

Abstracted: two uploads run at a time in the code, any number here; the media the
opened text already shows is not edited; Immich attachments, the poll for processing
and the quick log are left out.

### EntryStatistics

`EntryStatistics.tla` is what is counted about the entries of one user. A request
commits its change of an entry first and then works through an *agenda*: recounts of
journals, one after the other, and at the end an increment or a recalculation of the
streak. Each of these is a transaction of its own that loads, computes and writes.
The handlers are coroutines that block while they use the database, but the API runs
as two gunicorn workers by default (`src/scripts/docker-entrypoint.sh:59`), so the
agendas of requests interleave, as many as there are workers.

| Code | Model |
|---|---|
| `entry.journal_id`, `is_draft`; `moment.logged_date_tz` | `entry[m]`, `day[m]` (at most one entry per moment) |
| `journal` rows, `entry_count`; the `writing_streak` row | `journals`, `count`; `streak` |
| what a request has still to do; the entry as it was loaded | `agenda[r]`; `about[r]` |
| `create_entry`, `create_moment` with an entry, and the refresh after the commit | `Create`; `Refresh`, `AfterCreate` |
| `update_entry`: load, commit, refresh, what follows | `UpdateRead`, `UpdateWrite` (`Movable`), `Refresh`, `AfterUpdate`, `Decide` |
| `delete_entry` | `DeleteRead`, `DeleteWrite` |
| `delete_journal`: the ORM loads the entries, the commit deletes each by its key | `DeleteJournalRead`, `DeleteJournalWrite` (`doomed[r]`) |
| `update_moment` with another day, `delete_moment` | `MoveDay`; `DeleteMoment` |
| `recalculate_journal_entry_count`: the journal, the count, the commit | `LoadJournal`, `Count`, `WriteCount` (`tally[r]`); `CountNothing` without the journal |
| `_run_entry_side_effects`: the entry, then the moment | `LoadEntry`, `LoadMoment` |
| `update_writing_streak`, `create_writing_streak` | `LoadStreak`, `Bumped`; `CreateStreak` |
| `recalculate_writing_streak_stats`; `_recalculate_streak_metadata` | `ReadDays`; `Recalculated`, whose `Passes` walk the calendar down from the latest day |
| the commit of the row and its check constraint | `WriteStreak` (`plan[r]`) |
| an error, which is logged and dropped; a worker that dies | `StepFails` |

A commit makes the session forget what it has loaded, so every SELECT whose answer is
used later is a step of its own: the refresh finds what other requests have made of
the entry since the commit, and between the entry, its moment and the streak row there
is room for a withdrawal with its recalculation.

Nothing locks these rows, so the two history variables say where the code really
leaves a wrong number: `behind` are the requests that have read what was changed
since (`Outdated`), `off` the rows (a journal, or the streak) that nobody will bring up
to date. A row comes into `off` when

- a step about it failed, or its worker died;
- a request in `behind` wrote its count or its streak, or left a count alone that
  another one had replaced. A recalculation goes by the entries alone and writes all
  its columns, so one that read the days before another request's increment undoes
  it; an increment whose row another write has replaced is in `behind` too
  (`Increments`);
- the code starts nothing about it (`Commits`, `GivesUp`): an entry that becomes a draft
  again is not taken off the count of its journal; an entry moved by another request
  meanwhile is not recounted in the journal it was in, also when the deletion of a
  journal takes it there; `update_moment` that moves the day does not touch the
  streak, `delete_moment` touches neither; an entry withdrawn, published or deleted
  between a commit and its refresh makes the request skip what it had to do; an
  update that another one has taken back recalculates no streak.

A recount or a recalculation on fresh data takes its row out of `off` again. Everything
else must come out right.

Abstracted: the text, with the totals of words and entries that the same
statements write; the slot of a deleted moment is used again only when no request is
about it; a day is a number, and an increment compares the days only. Left out:
an entry written by `update_moment` in the transaction that moves the day, and that
`create_moment` still holds the moment it made when no commit of the recount has made
its session forget it (`LoadMoment` reads it again).

## 3. What is checked

Every run is in `PROJECT.json` with its properties; each property of a passing run
also has a mutant there, a plausible bug in the code that TLC must find with it.
`X_Y` in a module is definition `X` with bug `Y`.

| Run | Instance | Shows |
|---|---|---|
| `ExportJob_safety` | 2 jobs, 2 workers, 1 request, 3 names, 1 redelivery; all events but equal names | `TypeOK`; `DownloadIsOwnArchive`: a completed job serves its own archive until retention or a deletion takes it; `CancelLostOnlyToOldCopy`: a committed cancellation is undone only by a task that had loaded the row before; `KeepsContract`: the system implements `JobService` |
| `ExportJob_archives` | 2 jobs, 2 workers, 2 requests; cancellations, retention and equal names | `EveryArchiveAccounted`: each archive is named by a row or held by a worker |
| `ExportJob_liveness` | 2 jobs, 1 worker, 2 requests, 1 lost worker; cancel, delete, failing exports; fairness | `UnfinishedIsOwned`: a job shown as pending or running is held by a task or by the broker; `EveryJobEnds` |
| `MediaLibrary_safety` | 2 uploads, 2 moments, 1 content, 2 file names, 1 deletion; all events | `TypeOK`; `AnsweredIsStored`: an upload is answered with a stored row of its content in its moment, whichever of two racing requests has stored it |
| `MediaLibrary_files` | 3 uploads, 2 moments, 2 contents, 1 deletion of media | `EveryFileAccounted`: each file is named by a row or by an upload or deletion under way; `LostOnlyByOverlap`: a row loses its file only in the overlap window |
| `BrowserSession_safety` | 2 tabs, 2 users, 2 changes of session per load, 1 logout in flight per tab; late answers | `TypeOK`; `ModeFollowsSession`: the mode is normal exactly with a token; `LogoutIsRemembered`: after a sign-out the tombstone stays until the cookie is gone; `RetryInOneSession`: a refused request is retried only in its session |
| `OfflineCache_safety` | 1 tab, 2 users, 2 queued operations, 1 waiting write | `CacheTypeOK`; `ErasedStaysErased`, `SlotIsOwn`, `ScreenIsOwn`: no throttled write, restore or next user brings data back or mixes it; `LateRestoreIsDropped`; `KeepsPersisting`: a live session keeps writing |
| `EditorDraft_safety` | 2 openings, 2 documents, 1 queued operation when a write joins, an entry with a photo; edits that bring, remove and bring back the photo and media that cannot be stored | `TypeOK`; `SavedIsStored`: under "saved locally" the record is what is on screen, if it can be stored; `RemovedStaysGone`; `LeftIsStored`: words a write has taken outlive the form; `OffersWhatIsStored`: no form opens over another draft without a question; `SavingIsUnderWay` |
| `EntryAttachments_safety` | 2 files, both one photo, 3 Moments that can be made, a Moment that already has the photo or a blank entry | `TypeOK`; `AttachedIsStored`, `RemovedIsNotReinserted`, `NoStrayDraft`, `SavedStays`, `NothingLeftOut` |
| `EntryStatistics_safety` | 2 moments, 2 journals, 2 requests, 3 days, 4 operations or failing steps together | `TypeOK`; `StreaksAgree`: over all sets of days within a span of six, the single pass of the recalculation finds what the columns say, and an increment is the recalculation with one more day; `CountIsRight`, `StreakIsRight`: when no request is about to bring it up to date, a count is the number of published entries and the streak describes their days, but for what is in `off` |

**Bounds.** Two workers are needed for a redelivered message to run beside its first
delivery, and two requests for a cancellation to race a deletion; a third would
only repeat a role. Three archive names let two jobs and one rerun each have their
own. One redelivery is enough to run a job a second time, beside or after the first
run. Three uploads let one place a file, one share it and one come in while they
are deleted; two moments separate "same moment" from "same content". Two tabs are the
least that share a cookie, and two changes of session let an answer belong to an
older one than the last. The cache has one tab: its properties are about one persister, and the
switch that tabs share makes them false across tabs (below). There `Overtaking` is
off, so that a refresh is answered before the cookie changes: the late answer is
explored with two tabs in `BrowserSession_safety`. Two openings of the editor let
one leave a write or an unanswered save behind for the next; two documents are
enough for a draft, a save and a save elsewhere to differ. Two files of one photo
share a row if both are uploaded to one Moment and have a row each otherwise; the
second Moment is the one a retry or a save makes, the third one that of a request
beside the save. In `EntryStatistics` two requests let one read what the other is changing, three
days hold a streak, a gap and a back-dated entry, and four operations let two entries
be written, moved and taken away again, or fewer with steps that fail. The theorems of section 4 hold without these bounds.

**Fairness.** `FairSpec` asks that a running task goes on, that a free worker takes a
waiting message and that a request in progress is carried through (weak fairness of
each). This is what Celery and the web server do for live processes: a task has a
time limit, workers poll the queue, and a lost worker is replaced; losing it is an
action without fairness, bounded by `MaxRedeliveries`. Users are not asked for
anything. Fairness is not asked of `Fail`, `LoseSession` or any single check apart,
only of a worker's steps together. `Proceed` stutters when it re-reads an unchanged
row, so it cannot keep a worker busy for ever.

**Deadlock** is not checked where the system rightly stops: when every job has ended
and no user acts, every upload has been answered, the last opening of the editor is
closed, or the bounded number of operations has been carried out. Nobody waits for
anybody in these systems. The browser session and its cache never stop, and their
runs check deadlock.

### Where the code does not do what it says

Runs that TLC must find violated; each finding in `PROJECT.json` quotes the sentence.

| Run | What happens |
|---|---|
| `EditorDraft_teardown` | the writer leaves before the debounce fires: the flush of the teardown has no document to write |
| `EditorDraft_overwrite` | a refetch moves the version an open editor will send: its save replaces what another device wrote, without a question |

The assumptions and exceptions in the properties are holes of the same kind, met
while modelling and not given a run of their own.

*Exports.* `mark_completed` looks at the copy read by the last check
(`src/app/tasks/export_tasks.py:119`): a cancellation committed since is overwritten
with COMPLETED, although `src/app/models/export_job.py:110` means to "never let a late
success flip a cancelled job". Archives named in the same second (`same_second`) are one file. A message
that cannot be sent (`broker_down`) leaves its job pending. A job cancelled and
deleted after its archive is written makes the next flush fail, and the generic
handler leaves the archive behind. After a failed flush (`db_error`) the handler
reads the row without a rollback, so nothing marks the job failed.

*Media.* When the moment is deleted under an upload, `media_record` is not `None` and
the upload is answered although nothing is stored. The thumbnail of a shared file is
deleted before references are counted. Pruning trusts `media_count`, which an upload
writes after its row, so a moment can go with its media. With two extensions for
one content `ReuseRow` removes by force a path another row may name, and references
are counted by checksum whatever the path, so `LostOnlyByOverlap` and
`EveryFileAccounted` need one extension; an insert that fails for another reason
removes a file others may share. A row that reuses another moment's file under a
different extension is processed with the path of the copy just removed
(`Message`), so unless it was complete already it is marked failed although its
file is there.

*Session and cache.* A refresh answered after the cookie has changed stores the old
cookie again (`overtaken`). The `online` event refreshes without a look at the
tombstone. "Clear offline data" stops the persister for good, and a snapshot that
waits may write the slot again after it (`emptied`). The other tabs go on persisting
when one of them turns offline reading off.

*Drafts.* A save left unanswered by an earlier form, or the recovery effect acting on
the record it read at the start, deletes a record nobody has decided about (`taken`).
A write that began before the text came to hold media a record cannot still says
"saved" when it ends (`src/frontend/src/features/editor/useLocalDraft.ts:233-242`), over
a document that is not stored, which lines 191-192 rule out.
A failed refetch takes the form away and puts it up again without asking about
the draft (`again`).

*Statistics.* A withdrawn entry is still counted in its journal, since
`update_entry` recounts only moved and published ones. A moved day or a deleted moment
leaves the streak as it was, and a deleted moment the count too. `session.delete` of a
journal loads its entries and the commit deletes them by their keys
(`src/app/services/journal_service.py:152-155`): one that another request has moved to a
second journal in between is deleted there, and nobody recounts that journal. A
withdrawal with its recalculation between the reads of an increment
(`src/app/services/entry_service.py:303-307`, `analytics_service.py:61`) is followed by
the increment of a day nobody has published. A recalculation that read
the days before another request published an entry writes the row of those days over
that request's increment, and the longest streak stays short (TLC shows it with three requests
and five days). When two requests change one entry
in opposite ways each may find nothing to do, and a recount that began earlier can
write last. Each of these steps ends in `off`: the next recount or recalculation
repairs the row, nothing else does.

*Attachments.* The race check deletes the row it was answered with even when the
Moment had this content before, or another upload shares it (`shared`). Done does not
wait for files that still wait for their Moment. A file dropped, pasted or retried
while a save is pending, or a detail set then, makes a draft Moment that `adopt()`
forgets (`save.beside`), and its placeholder or media never enters the locked text
(`missed`): the upload succeeds, is then found to be unwanted or, when the
placeholder was there, is counted as attached although the text does not show it.

## 4. What is proved

TLAPS checks these for every value of the constants, under the assumptions the
modules name (`ConstantsAssumption`) and those stated.

| Theorem | Property | Assumes | Argument |
|---|---|---|---|
| `ExportJobProofs!TypeCorrect` | `TypeOK` | | inductive as it stands: a worker in a task and a request in progress hold a job |
| `ExportJobProofs!UnfinishedOwned` | `UnfinishedIsOwned` | no failing flush, no broken broker | `OwnerInv`: an unfinished job has a message or a worker that *carries* it, that is, has not passed the commit that ends it; needed because a worker that is cleaning up also runs the job, but will not end it |
| `ExportJobProofs!CancelLost` | `CancelLostOnlyToOldCopy` | | `CopyInv`: a worker of a cancelled job whose copy says otherwise is in `overtaken` |
| `ExportJobProofs!DownloadOwn` | `DownloadIsOwnArchive` | names differ | `NameInv`: names are given out in order (`NamesUsed`), no two workers and no two rows hold one (`HeldApart`, `OneOwner`), and an archive that is complete holds the job of its worker only (`Sealed`) |
| `ExportJobContract!ContractKept` | `KeepsContract` | names differ | the refinement, under `ContractInv`: `TypeOK`, `CopyInv` and `NameInv` of `ExportJobProofs`, and `Quiet`: a worker that is not in the middle of its task (idle, ending, acknowledging or cancelling) has no copy of a row and is not in `overtaken`; one lemma per step |
| `ExportJobProofs!ArchivesAccounted` | `EveryArchiveAccounted` | exports neither fail nor run twice, no deletion of rows: `Events` has none of `delete`, `job_error`, `db_error`, `worker_lost`, `redelivery` | `ArchiveInv`: rows stay (`RowsStay`), a job has one message or one worker (`RunOnce`), and a row names no archive before its task completes it (`NamedLast`), so that an archive is in the hands of its worker from the first byte to the row that names it or the unlink; two archives may have one name |
| `MediaLibraryProofs!TypeCorrect` | `TypeOK` | | with `UploadKnows`: an upload, a row and a message have their path in time |
| `MediaLibraryProofs!AnswersAreStored` | `AnsweredIsStored` | | `AnswerInv`: the row an upload is to answer with was there from the step that chose it, and rows are only marked deleted |
| `MediaLibraryProofs!OverlapOnly` | `LostOnlyByOverlap` | one extension, no failing insert | `PathInv` ties paths to contents, `KeptInv` says that an upload outside `overlapped` has its file from the moment it has found or placed it, `ClaimInv` that a deletion about to unlink a file has no other row with its content but those in `overlapped` |
| `MediaLibraryProofs!FilesAccounted` | `EveryFileAccounted` | one extension, no failing insert, moments are neither deleted nor pruned | `PathInv` and `MomentsStay`; a file is followed from the upload that places it to the row, and from the last row to the deletion that will unlink it |
| `BrowserSessionProofs!TypeCorrect` | `TypeOK` | | inductive as it stands |
| `BrowserSessionProofs!ModeAgrees` | `ModeFollowsSession` | | `TabInv` of every tab: a token comes only from a request with a cookie, `restore()` says "restored" only to a boot whose token is in place, and a refresh in flight is no younger than the 401 that waits for it |
| `BrowserSessionProofs!RetriesStayInSession` | `RetryInOneSession` | | `TabInv`, one case per step |
| `BrowserSessionProofs!LogoutStaysRemembered` | `LogoutIsRemembered` | | which steps of any tab touch the cookie, the tombstone and the hint, with `TabInv` |
| `OfflineCacheProofs!CacheTypeCorrect` | `CacheTypeOK` | | `TypesInv`, with the types of `BrowserSession`: `CacheSpec` implements the session's `Spec`, so that its theorems hold here |
| `OfflineCacheProofs!ErasedStays`, `SlotsAreOwn`, `ScreensAreOwn`, `PersistingGoesOn`, `LateRestoresAreDropped` | `ErasedStaysErased`, `SlotIsOwn`, `ScreenIsOwn`, `KeepsPersisting`, `LateRestoreIsDropped` | one tab (`OneTab`) | `CacheInv`, one invariant for all five: `QueueInv` and `ShapeInv` say which operations and writes can be under way and in which order, `SubInv` whose subscription is live, `HydrationInv` what a restore that was not abandoned may hold, `EraseInv` that an erased slot is empty or has its erasure queued behind the last put, `OwnInv` whose data screen, writes and slots hold. One tab, because the switch and the slots are shared by the tabs of a browser and the properties fail across them (section 3) |
| `EditorDraftProofs!DraftTypeCorrect` | `TypeOK` | | `TypeInv`: types, and that one opening is there at a time (`OnePage`), on a loaded entry once it is open |
| `EditorDraftProofs!SavingHasWrite` | `SavingIsUnderWay` | | `SavingInv`: the status and the queued writes of a form change together |
| `EditorDraftProofs!RemovedIsGone` | `RemovedStaysGone` | | `RetiredInv`: behind every write of a form that was removed there is its deletion, which the latch keeps true until the next edit |
| `EditorDraftProofs!SavedMeansStored`, `LeftMeansStored` | `SavedIsStored`, `LeftIsStored` | | `AuxInv` (how far a page has come, whose operations can be queued and whose record there can be, and that writes keep the order of their forms) and `StoredInv` of the last form: while its document can be stored and the debounce is not running (`Kept`), behind every queued write with another document there is a further one, no queued deletion decides about it, and when no write is left the record holds the document, or something has failed or was `taken`; needed because a write that began before an edit is still queued, and shows its outcome, after it |
| `EditorDraftProofs!OffersStored` | `OffersWhatIsStored` | | `OfferInv`: no write is queued behind the read of a gate, and where there is nothing to ask about, every queued write has a deletion behind it and the record is gone or will be |
| `EntryAttachmentsProofs!TypeCorrect`, `AttachedStaysStored`, `RemovedStaysRemoved`, `DraftsAreKnown`, `SaveIsFinal`, `SaveIsComplete` | `TypeOK`, `AttachedIsStored`, `RemovedIsNotReinserted`, `NoStrayDraft`, `SavedStays`, `NothingLeftOut` | | one invariant `Inv` for all six: `FileInv` and `TextInv` tie the stage of an attachment to its mark in the text, to what the writer did and to what a locked text has missed, `DraftInv` says where a draft Moment is known, `SaveInv` what a save under way and one that succeeded have beside them, `CoverInv` which files a save holds, `RowInv` which uploads a row has answered; each property needs most of them, because a row is deleted by an upload that was answered, for a Moment that was made, under a text that was edited |
| `EntryStatisticsProofs!CountsAreRight` | `CountIsRight` | | `CountInv`: `Stage` says what a request has loaded where it stands, with the refresh and the deletion of a journal, `Fresh` that a request which is not in `behind` has counted the entries there are, and `Accounted` that a journal whose count is wrong is in `off` or will be counted by a request, not with what that one had counted before a later change |
| `EntryStatisticsProofs!StatisticsTypeCorrect` | `TypeOK` | | `CountInv` with `StreakTypes`: a published entry has a day, and a plan belongs to the increment or the recalculation its request is at (`PlanStage`) |
| `EntryStatisticsProofs!RecalculationIsRight`, `StreaksAlwaysAgree` | `StreaksAgree` | | for every set of days, not only the span of the runs. `Finds` says what the pass has found of the days it has been over, `ExtendedFinds` that one more day keeps it; the induction over the calendar uses the least number a claim fails for, and two rows that describe the same days are equal |
| `EntryStatisticsProofs!StreakStaysRight` | `StreakIsRight` | | `StreakInv`. `StreakFollows`: the row is in `off`, or a request will recalculate it or give it up, or it describes some of the published days and every other one has a request that will add it (`WillBump`): one that gathers what it needs (`Gathering`), or has read it and is not in `behind` (`Planning`). `FreshPlan`: between its commit and its refresh a request has on its agenda what an update of this kind announces (`Announces`); one not in `behind` has read a published entry, its day, the row and the days there are, whichever of them it has come to. `WithoutRow`: while there is no row a recalculation does nothing, so that every day must have its increment |

The proofs about `EditorDraft` are about queues of operations of any length. They use
three predicates and their lemmas for `Append` and `Tail` instead of indices: `Has(s,
A)`, `Followed(s, A, B)` (behind every element of `A` there is one of `B`) and
`NeverAfter(s, A, B)`. Each action has a lemma with the facts the invariants need of it.

Only model-checked: `EveryJobEnds`, since liveness under fairness is out of these
provers' reach. The library's induction theorems are too, as they take an operator as a
parameter; the fold of the streak is proved with sets instead (`LeastNumber`,
`AllNumbers`), and the existence of its recursive function with it (`PassExists`).
What breaks a property where a theorem's hypothesis about `Events`, file extensions or
tabs does not hold is told at the end of section 3.

## 5. Plan

What remains, in order of what it would show; modules marked * are to be proved about.

1. `ImportJob`*: the import row, the uploaded file, cancellation, the handler with
   rollback, `cleanup_stale_temp_files`, redelivery. `JobService` should serve as its
   contract too, up to the rerun of what was already committed.
2. `EntryEditing`*: the server side of a save, composed with `EntryStatistics` and
   `MediaLibrary`: of two saves built on one version at most one succeeds, except
   between check and commit; media orphaned by a save.
3. `MediaProcessing`: the Redis lock, retries, redelivery; refines the processing part of
   `MediaLibrary`.
4. `ImmichImport`: coroutine against task timeout, partial failure.
5. `InstanceIdentity`, `LicenseCache`, `ScopedCache`: concurrent start, rotation, expiry.
6. `GoalPeriods`, `Reorder`: algorithms against reference definitions over small inputs.
7. `UserAdmin`, `OidcLogin`: the first user, the last admin, tickets used twice.

Extensions: `OfflineCache` with two tabs that share the switch, `EditorDraft` with new
entries and a second tab.

## 6. What is not modelled

Rendering, parsing and mapping of import formats, PDF, weather and location,
cryptography, HTTP headers, configuration, the command line's terminal output, the
components and generated API client of the browser, the compiled legacy client
(`src/web/main.dart.js`, nearly half of the lines of the repository) and
the migrations: they keep no protocol state. Most of the remaining services are
operations on rows of one user in one transaction, where there is nothing to
interleave. Databases are taken to be linearizable
per statement and commit (READ COMMITTED), as the code assumes; the hard time limit
of Celery, which ends a task five minutes after the soft limit the task handles, is
left out.
