# Grabbit in TLA+

A verification development for Grabbit (`src/`), a self-hosted download server: an HTTP API puts
URLs in a SQLite queue, a worker pool runs one gallery-dl process per job, and the finished
files are moved into a destination tree. The development holds TLA+ modules translated from
the Python source, TLC configurations that check them on small instances, and proofs the TLA+
proof system checks for every value of the constants.

## 1. The system

| Component | Source | State it keeps | Operations |
|---|---|---|---|
| Jobs table | `grabbit/db.py`, `models.py` | rows, AUTOINCREMENT counter, unique index over the URLs of open rows | insert, update by id, delete, the listing queries, `requeue_interrupted` |
| Worker pool | `grabbit/worker.py` | `_running`, one global and one semaphore per host, wakeup event | dispatcher, `_run_job`, pin recheck loop, auto-retry loop, title backfill, start, stop |
| Engine | `grabbit/engine.py` | `_procs`, the processes themselves | `download`, `cancel` (SIGTERM to the process group), metadata probes |
| Download API | `grabbit/api.py` | none of its own between requests | submit, pause, resume, retry, pin, cancel/delete, clear-finished, rename, merge, listing |
| Staging and output | `grabbit/worker.py` | `incomplete_dir/job-N`, the tree under `dest` | `_move_tree`, `cleanup_staging`, `rename_dir`, `gather_into_dir`, `merge_dirs` |
| Progress and titles | `worker.py`, `db.py` | `files_total`, `files_done`, `bytes_done`, `title` | progress writes, count probe, title probe |
| Event hub and UI | `grabbit/events.py`, `web/src` | bounded queue per subscriber; the page's copy of the jobs | publish, subscribe, refresh |
| Keys and limiter | `grabbit/auth.py`, `db.py` | `api_keys`; submission times per key | bootstrap, create, delete, verify; `RateLimiter.allow` |
| Migration | `worker.py` | schema version, directories | flatten, once, before the queue runs |
| Importer, MCP server, extension | `jd_import.py`, `mcp_server.py`, `extension/` | none shared | HTTP clients of the API |
| URL checks, config, logging, metrics | `ssrf.py`, `config.py`, ... | read at start | predicates and formatting |

**Interaction.** One process, one asyncio event loop. Handlers, the dispatcher, the
maintenance loops and one task per running job are coroutines that share the table (through
aiosqlite, whose single thread executes statements in the order they are sent), the pool's
memory and the disk. gallery-dl processes run beside it; the pool learns of them when their
output ends. Handlers reach a running job by writing its row and by SIGTERM. A job's task reads
the row again when its process has ended and decides from what it finds. Files are moved by
threads (`asyncio.to_thread`), one per request or run, that know nothing of each other. Progress,
detected directories and the two probes are tasks nobody awaits. Changes are published to the
event hub, which drops what a subscriber does not fetch; the web page patches counts from events
and reads everything else again. The importer is a separate program that posts batches to the
submit handler, behind the rate limiter.

**What is hard.** Every handler reads a row, checks its state and then updates the row by id
without a condition on the state, with awaits in between; so does every task; so does every
maintenance pass, for a whole list of rows. A pause can therefore meet a job at any point of its
run, twice, together with a resume, a cancel or a clear. The unique index can reject any move of a
row back into an open state. Rename and merge move files between reading and writing rows, and a
job that is not finished only gets a pending name, applied when its run ends. The process can die
at any point, or be asked to stop, and starts again from the table and the disk alone.

**What makes it correct.**

* Queue: no job is lost (stranded in `active` with no task, or queued and never run); what the user
  stopped stays stopped; limits hold and slots come back on every path; nothing is left in staging
  after `done`; what an open job has staged stays for its next run.
* Directories: no file is lost or overwritten, a finished row names the directory its files are in,
  that is the one the user last asked for, and the members of a merged group agree.
* Progress: final counts stand, chosen titles stay, the page sees no progress after the end.
* Shutdown: `stop()` returns, no run and no unsignalled download outlives it, a job is done or failed only
  for a cause, the next start completes what was interrupted.
* Keys: a token handed out works until it is deleted; the server keeps an admin. Limiter: exactly
  the sliding window. Migration: each job flattened once. Importer: every link reported once.
  Page: shows the rows in the end.

The full list of hazards, each at its line with the properties that cover it, is in
`PROJECT.json` under `hazards`; those the code does not meet, or that no run reaches, carry a note.

## 2. The modules

| Module | Models | Role |
|---|---|---|
| `JobTable` | the jobs table of `db.py` | pure operators on a table (a function from ids to rows): the queries, the updates, the unique index. No variables. |
| `JobQueue` | handlers of `api.py`, `WorkerPool`, engine processes | the state machine; extends `JobTable` |
| `SlotPool` | the promise of the two limits | abstract specification; `JobQueue` implements it |
| `FileTree` | `pathlib` and `os` on a tree of files; the free name of `merge_dirs` | pure operators on a function from paths to contents |
| `OutputDirs` | rename, merge, pending names, pin recheck, `rename_dir`, `merge_dirs`, `gather_into_dir`, `_move_tree`, the end of a run | state machine over the rows' directory columns and a tree |
| `Progress` | one run with its progress writes, count probe, title probe, a rename | state machine over the queues of the event loop and of the database thread |
| `Shutdown` | `WorkerPool.start`, `stop`, cancellation through `_run_job` and `download` | state machine |
| `Migration` | `migrate_flatten_domain_dirs` | state machine with crashes; extends `FileTree` |
| `Events` | `EventHub`, the websocket, the queue page | state machine |
| `ApiKeys` | bootstrap, authentication, creation and deletion of keys | state machine |
| `RateLimiter` | `RateLimiter.allow` | state machine; the deque is the tail of a history of admitted times |
| `Importer` | `jd_import.py` against `submit` | state machine; extends `RateLimiter` |
| `MCJobQueue`, `MCOutputDirs`, `MCMigration`, `MCImporter` | | instances for TLC |
| `QueueClaims`, `DirsClaims` | sentences of comments and docstrings | one property per sentence, each refuted |
| `JobQueueProofs`, `ImporterProofs`, `ShutdownProofs`, `WebProofs` (of `ApiKeys` and `Events`), `ProgressProofs`, `OutputDirsProofs`, `OutputRowsProofs` (which extends it), `MigrationProofs` | | theorems |

A job's life is modelled once in full, in `JobQueue`. `OutputDirs` and `Shutdown` need only whether
a job is queued, active, done or in error, and keep that much of it; `Progress` looks at a single run
from inside; `Importer` needs only which URLs have an open row.

### JobQueue
**State.**

| Variable | Code |
|---|---|
| `table` | the `jobs` table: `url`, `state`, `pinned`; an absent row is an id not given out or deleted. Durable. |
| `nextId` | the AUTOINCREMENT counter (deleted ids are not reused). Durable. |
| `stage` | the jobs that have a directory under `incomplete_dir`. Durable. |
| `up` | the process is serving |
| `run` | per job, how far its `_run_job` task is (`idle`: not in `_running`); the phases `downloading` and `killed` are those with a process in `Engine._procs` |
| `globalFree`, `hostFree` | the counters of `_global_sem` and `_host_sems` |
| `req` | per client, the handler in progress: operation, job ids, the state it read, its next step |
| `retryLeft`, `pinLeft` | the rows of a maintenance pass's snapshot it has yet to update |

**Actions.**

| Action | Code |
|---|---|
| `Submit` | `submit` for one URL, `create_job`. A batch is several submissions; an open URL changes nothing. |
| `ReadJob` | `_get_job_or_404` and the 409 check of pause, resume, retry, pin and DELETE |
| `WriteState`, `WritePinned`, `WriteDelete` | the statement the handler then sends; `WriteState` includes the IntegrityError that ends the request |
| `AfterWrite` | what follows the statement: `cancel_job` (SIGTERM), `cleanup_staging` |
| `ReadFinished` | the SELECT of `delete_finished_unpinned`; its DELETE is `WriteDelete` |
| `Start` | one turn of `_dispatch_ready`'s loop: the first listed row whose slots are free takes them and gets a task |
| `MarkActive` | `set_state(ACTIVE)`, or the IntegrityError that sends the task to its except clause |
| `Spawn` | `Engine.download` up to `_procs[job_id] = proc` |
| `EngineWrites`, `EngineExit` | gallery-dl saves a file; it exits and `download` returns |
| `CheckResult` | lines 446-458 of `worker.py`: read the row, leave if paused or cancelled, otherwise weigh the result |
| `Land` | `_move_tree` out of staging |
| `WriteVerdict` | `set_state(DONE)`, `set_state(ERROR)` |
| `StepRaises` | an exception of mkdir, spawn, the reading of gallery-dl's output, move or rename |
| `Release` | the finally clause |
| `RetryScan`, `RetryNext` | one pass of `_auto_retry_loop`: its query, then one update per row |
| `PinScan`, `PinNext` | the same for `_pin_loop` |
| `Crash`, `Restart` | the container dies; `lifespan` runs `requeue_interrupted` before it serves |

**Granularity and abstraction.**

* A stretch of code between two awaits is one step, and so is one SQL statement. aiosqlite's
  first-in first-out order forbids some interleavings of statements the model allows; the model has
  more behaviours than the code, which is sound for every property that passes. The refuted
  claims were compared with the code by hand; none of them needs such an extra behaviour.
* The dispatcher lists and then starts without another await. The model starts one job per step
  and reads the table at that step. A statement that lands between the list and the start
  commutes with the start, which touches memory only.
* A handler that answers 404 or 409 changes nothing and is not a step.
* `incomplete_dir` is configured (the shipped container's layout); without it staging is empty and
  the staging properties hold trivially.
* When the container dies, the gallery-dl processes in it die too.
* Hosts: `urlparse(url).hostname` is the constant function `HostOf`. Times: a row is due for a
  recheck whenever it is pinned and at rest (`PinScan` takes any subset).

### FileTree and OutputDirs

A tree is a function from files to contents `<<job, name>>`; a file is a directory path, a name
and the numbers appended to it (`" (2)"`). A directory exists while a file lies under it. Empty
directories are not state: `rename_dir` would take its other branch for one, and move the same files to
the same places.

| Variable | Code |
|---|---|
| `world` | chosen at the start and kept: the jobs with their files and directories, what users ask for, whether requests overlap, whether the process dies |
| `rows` | `state`, `dest`, `dir_name`, `rename_to`, `group_id`, `group_name`, `file_paths` |
| `disk` | the tree under `downloads.dest` |
| `task` | every request and run in progress: what it does next, the rows it read, and the thread it awaits (source, target, files to go, the target found for the next file) |
| `runs`, `asked`, `crashed` | the bound on downloads; histories: the name last accepted per job, whether the process has died |

| Action | Code |
|---|---|
| `RenameRequested`, `DeferRename`, `RenameNow`, `WriteRenamed` | `rename`: read the row; record a pending name, or start the thread and write `dir_name` when it returns, or accept the name the directory has |
| `MergeRequested`, `ReadMember`, `GatherMember`, `UpdateMember`, `SetGroupName` | `merge`, one database call or thread at a time |
| `TestTarget`, `ListTree`, `ReplaceDir` | `rename_dir`: `is_dir` of the target, then `_move_tree`'s list of the source or `os.replace` of the directory |
| `NextSource`, `TestFile`, `MoveFile`, `EndSource` | the loops of `merge_dirs`, `_move_tree` and `gather_into_dir` file by file, and the `rmtree` at the end |
| `DueListed`, `RequeueDue`, `Retry` | the pin loop (the old directory becomes the pending name), a user's retry |
| `StartRun`, `DetectDir`, `Downloaded`, `LandFile`, `RecordFiles`, `ReadPending`, `WriteApplied`, `ClearPending`, `Finish`, `FailRun` | `_run_job` from `set_state(ACTIVE)` to the verdict, `_apply_pending_rename` in the middle |
| `Crash` | threads and requests die; `requeue_interrupted` |

Threads overlap between any two of these steps. A thread looks for a target in one step and moves a file or a
directory there in the next; what has come there in between is overwritten (a file), or makes `os.replace` fail
(a directory), and then `shutil.move` puts the source below it or raises. `os.replace` and the fallback are one
step. A job's files may lie in several directories (`apart`): the row then names the one seen last.

In a world without `overlap` a request, and the end of a run, waits for the one in progress; downloads
themselves go on beside everything. Overlapping requests do lose files and names (`ClaimRenameRace`,
`ClaimLateRename`), so the properties of a single request are stated without it, and worlds with overlap check
what still holds. In the same way `RowsPointToFiles` and `RenameHonoured` speak of jobs outside a group
(`ClaimShared`), `RowsPointToFiles` promises less of a job with several directories (`ClaimSeveral`),
`KeepsNames` tells where users and the pin loop leave a name alone (`ClaimPending`), and the name of a group is
stated for a process that has not died (`ClaimGroupCrash`). Names are names of directories: the check of the
requested name is `_validate_dir_name` in the code and a member of a small set here.

### Progress

Each task has a script, the calls it awaits in order; `dbq` is the queue of aiosqlite's thread, in which every
execute, fetch and commit is an entry, `ready` the queue of the event loop. `Serve` is the thread at its next
entry, `Resume` the loop at its next task, `Line`, `Exit` and `Answer` the processes. The row is new or holds
what an earlier run has left (`LeftBy`): a retry, a resume and a recheck reset neither counts nor directory, so
a run's first progress write may lower the count. The setups keep the count probe apart from the title probe and
a rename: they share only the row, in different columns.

### Shutdown

`Dispatch`, `DispatchLoop` and `Requeue` are the background tasks; `Activate`, `Spawn`, `LeaveLoop`, `Drained`,
`Moved` and `Verdict` a run, `Fail` and `HandleException` its exceptions, which write `error` whatever the engine has
said; `Raise` and `HandleCancelled` where a cancellation meets it; `Stop`, `CancelLoops`, `AwaitDispatcher`,
`CancelRuns`, `Close` and `Start` are `lifespan`, `stop` and `start`, one step per await. A statement sent before the
cancellation may be executed all the same.

What a run starts has a life of its own: the download (`EngineExit`), the title and count probes that `Activate`
creates and nobody awaits (`probes`, `LeftExit`), the thread that moves files, which no cancellation reaches (`moves`,
`MoveEnds`), and a download that was sent SIGTERM and is not waited for (`signalled`). `stop()` cancels
neither probes nor threads. `Start` is another process: threads end with the old one (the interpreter joins them
at exit), child processes need not.

### Migration

`mig` is the call: the jobs left, the packages left of the job, the files left of the package. Every
file moved, every row written and the version are steps; `Crash` discards the call and keeps
`rows`, `disk` and `version`. Jobs, packages and files are taken in any order: `list_done_with_paths` has no
ORDER BY. All jobs have one destination. An emptied domain directory is not state.

### Events

`rows` is a version and a count; `unsent` are changes committed and not yet published; `queue` the
subscriber's queue; `asked` and `answers` the refreshes on their way, which may overtake each other;
`timer` the page's debounced refresh. `Poll` is the page's interval, which runs whether the websocket
is up or not. A refresh that fails is not modelled; the next poll repeats it.

### ApiKeys

A request authenticates in `Authenticate` and acts in `Create` or `Delete`; `Answer` is when the caller
learns the token. `CountKeys`, `CreateBootstrap` and `PrintToken` are `ensure_bootstrap_key`. A token is
identified with its row's id, which is never given out twice (AUTOINCREMENT).

### RateLimiter and Importer

`log` is a history of admitted times per key and `first` where the deque begins in it; `Admit` and
`Refuse` are the two ends of `allow`, both after the eviction. The importer's `Send`, `TakeAnswer` and
`WakeUp` are `import_packages`; `CheckRate`, `ServeUrl`, `FindOpen` and `Answer` are `submit`, with
`find_open_job` a step of its own; `JobEnds` takes a URL out of the open rows at any time; `Interrupt` is a
lost connection or the user, after which the handler goes on. Time passes while the importer
sleeps and in `MaxLag` ticks elsewhere. The names of destination directories (`_safe_dest`) and the
dry run are left out: nothing decides by them.

## 3. What TLC checks

| Run | Instance | Checks |
|---|---|---|
| `JobQueueOneJob` | 1 job, 2 requests at a time, every operation, both loops, exceptions, crashes | `TypeOK`, `NoStrandedActive`, `DoneHasNoStaging`, `StopsStick`, `PartialsStay` |
| `JobQueueSlots` | 3 jobs of 2 URLs (requeues meet the unique index) on 2 hosts, 2 global slots, 1 per host, crashes | `SlotsAccounted`, `PoolSpec` |
| `JobQueueLive` | 2 jobs of 2 URLs on 1 host, 1 slot, a dispatcher window of 1 row, exceptions, crashes | `PoolSpec`, `Settles`, `SlotsComeBack`, `KilledRunsEnd` |
| `OutputDirs` | 7 worlds of 1 to 3 jobs, see below | `TypeOK`, `FilesKept`, `RowsPointToFiles`, `RenameHonoured`, `GroupsNamed`, `GroupsConverge`, `MovesLoseNothing` |
| `Progress` | 1 or 2 files, a new row or one with a count of 2; an estimate of 2, 3 or none, or the title probe and a rename | `FinalCountsStand`, `DirectoryIsKnown`, `CountsRise`, `NoProgressAfterDone`, `ChosenTitleStays` |
| `Shutdown` | 2 jobs, 2 slots, 1 stop, 1 requeue | `NothingOutlivesStop`, `VerdictIsEarned`, `StopReturns`, `WorkResumes` |
| `Migration` | 5 jobs of different layouts, 3 crashes | `NoFileLost`, `MigratedOnce`, `PathsLead` |
| `Events` | a queue of 1 event, 2 changes of each kind, 1 lost connection, 2 refreshes at a time | `TypeOK`, `PageConverges` |
| `ApiKeys` | 4 keys, 2 requests at a time, 2 crashes | `TokensAreDurable`, `LastAdminFallsOnlyInCrossfire` |
| `Importer` | 2 packages, batches of 2, 1 request per window of 2 ticks, 2 runs, times up to 30 | `TypeOK`, `RateBound`, `DoneIsComplete`, `ResendMakesNoRow`, `RefusedForCause`, `RunsEnd` |

**Bounds.** Each is a constant or a field of a world, marked as a bound where it is declared. In
`JobQueue` they are `MaxJobs` (rows ever inserted), `Clients`, `Ops`, `RaisingPhases`, `MayCrash` and
`DispatchLimit` (50 in the code); requests, passes, crashes and retries may repeat for ever.
Two overlapping requests on one job already give pause/resume/pause, cancel/clear and pin/clear
races around one run, with both loops interfering; two jobs of one URL are what the unique index
needs; three jobs on two hosts are what two limits need for one of them to bind while the other
has room. With one slot the window of one row never hides a job that could start; `ClaimWindow` shows
one that does.

In `OutputDirs` downloads started are bounded (`runs`), requests and crashes are not. The worlds:
`Renamed` (a job with a directory and one that lands flat, renamed to new names, failing and
retried), `Spread` (a job with two directories, renamed to a new name and back, retried and
rechecked), `Repeated` (those of `Renamed`, renamed also to the name the source gives, the first
rechecked by the pin loop),
`Merged` (three finished jobs with equal file names, merged pairwise into three names, one
renamed, with crashes: three jobs make the suffixed name collide too), `Regrouped` (a finished, a flat and an
unfinished job merged under two names, rechecked, retried), `Extended` (two merges that share a job
overlap), `Raced` (a merge and renames of two jobs to one name overlap, with crashes). `Raced` has one new
name: with two, each `os.replace` that fails could put a directory below the other, one level deeper every time.

`Progress` needs two files for one write to overtake another, and a count of two left by an earlier run for the
first of them to lower it. In `Shutdown` one stop meets every point of a run; what a second would add is the
state a restart begins from, which `WorkResumes` follows to its end. `Migration` needs as many crashes as a job
has steps that can be repeated. In `Events` a queue of one drops as soon as two events are waiting. `ApiKeys`
needs a bootstrap key, an admin made by it, and two that fall together. The importer's list has a link twice, a
link in both packages, an entry without a URL and one whose package is missing.

**The properties.**

* `NoStrandedActive`: while the process serves, an `active` row has a task that has yet to write
  its verdict. The dispatcher starts `queued` rows only, so an active row without such a task
  would stay active until the next restart.
* `DoneHasNoStaging`: a `done` job has no directory under `incomplete_dir`.
* `StopsStick`: a paused or cancelled job whose task is over is moved by a user's request only.
  A job still running (a late stop loses to the verdict: `ClaimRacedStop`) and one a pass has already
  listed (a snapshot: the retry pass requeues a job paused since) are excepted, because there the code does move it.
* `PartialsStay`: what a queued, active or paused job has staged stays for its next run, over stops, exceptions,
  restarts and requests for other jobs. Only the move of its success takes it, or a request that cancelled the job, or
  listed it as finished before it was reopened (`ClaimClear`).
* `SlotsAccounted`: each semaphore plus the tasks that hold it is its limit, always.
* `PoolSpec`: `JobQueue` implements `SlotPool` under the mapping `HeldSlot` (a job holds the slot of
  its host exactly while its task exists). `SlotPool` reads limits off the holders, the code
  off counters. `SlotsComeBack`: and every slot is given back.
* `Settles`: if from some point on there is no new request, pass or crash, every job comes to
  rest: nothing is left queued, active or running.
* `KilledRunsEnd`: a run that was sent SIGTERM ends, even if gallery-dl would not have.
* `FilesKept`: every file a row records is still somewhere below the destination, with its content,
  whatever renames, merges, rechecks and crashes do one after the other. `MovesLoseNothing`: and if
  they overlap, between a test for a name and the move to it too, a file vanishes only in the `rmtree` at the end of a
  move. For overlapping requests it asks for files of different names, since two threads may find one name free
  (`ClaimMergeRace`).
* `RowsPointToFiles`, `RenameHonoured`: a finished job's files are in the directory its row names, and
  that is the name its user gave last, before, during or after the download, a request for the name the directory
  had already included. Of a job with several directories the row names the one some of the files are in.
* `GroupsNamed`, `GroupsConverge`: the members of a group carry one name; members merged before they
  had finished end in the directory of those that had.
* `FinalCountsStand`, `CountsRise`, `DirectoryIsKnown`: progress, final counts and the detected directory
  are written by tasks that race the run, and hold only because the database has one thread. `CountsRise` speaks of
  a run that has written its count: before that the row holds the count of the run before.
  `NoProgressAfterDone`: what the page patches without reading comes before the end.
  `ChosenTitleStays`: a scraped title never replaces a chosen one.
* `NothingOutlivesStop`, `VerdictIsEarned`, `StopReturns`, `WorkResumes`: after `stop()` there is no run, no
  loop, no download but one that was signalled, and a thread still moves files only of a row that the next start
  requeues (probes go on); a row is done only after its download has succeeded and its files are moved, and fails only
  if the download has or the run raised an exception; stop returns; the work is done later.
* `NoFileLost`, `MigratedOnce`, `PathsLead`: over any interruption, files survive, old layouts lose one
  level and others nothing, and recorded paths lead to the files, up to a suffix.
* `PageConverges`: when rows rest, the page comes to show them. `TypeOK` of `Events` adds that nobody is
  shown more files than the table has.
* `TokensAreDurable`, `LastAdminFallsOnlyInCrossfire`: a token shown has a committed row; the guard
  against deleting one's own key fails only when two admins delete each other's.
* `RateBound`, `RefusedForCause`: no more than the limit in any window, and no refusal without it.
  `DoneIsComplete`, `ResendMakesNoRow`, `RunsEnd`: the importer's report counts every link once, a
  refused batch left no row, and waiting gets a run through.

Every property of a run has a mutant in `PROJECT.json`: a plausible bug in one definition
with which TLC finds the property violated.

**Fairness.** `JobQueue.Fairness` asks that a handler, a task, the dispatcher and a pass that can take its next
step takes it in the end: the event loop runs ready coroutines in turn, the dispatcher polls every five seconds
whatever becomes of its wakeup event, and `Restart` is the container's restart policy. Nothing is assumed of
clients, of the timers that begin a pass, or of crashes. gallery-dl is external: `KilledEnginesExit`, part of
`FairSpec`, assumes only that SIGTERM ends it; that it ends by itself (`EnginesExit`) is a premise of `Settles`
and `SlotsComeBack`. `Shutdown.ProgramFairness` is the same of its tasks, and strong for `Dispatch`, since the
dispatcher leaves and comes back to its pass; `FairSpec` adds that downloads and moves end (of probes and
signalled downloads it says nothing), and `ClaimStop` shows that `StopReturns` needs it. `Events.Fairness`: the
server publishes and answers, the browser polls and handles; the connection may stay closed.
`Importer.Fairness`: importer and handler take their steps and time passes.

Deadlock is checked for `JobQueue`, which never stops. The others may come to an end: their jobs are done
and their bounds used up.

### Where comments and code differ

Each configuration below checks one sentence of the source, and TLC finds an execution that breaks
it. None is assumed elsewhere; the properties above are stated so that they hold in spite of them.
The first two are regular runs; the others are kept beside them and run by hand.

| Configuration | Module | Sentence | What happens |
|---|---|---|---|
| `ClaimRacedStop` | `QueueClaims` | `worker.py:448` "A pause/cancel that raced the finish wins over the engine result." | true until line 451; a stop written while files move is overwritten by `done` |
| `ClaimDeferredMerge` | `DirsClaims` | `worker.py:86` "merged jobs may legitimately contain equal filenames — collisions are kept by suffixing" | a member that was unfinished at the merge is brought in by `rename_dir`, which overwrites |
| `ClaimResume` | `QueueClaims` | `api.py:118` "resume re-runs with skip-existing" | resumed before the killed process is reaped, the old task's result becomes the verdict: the job ends in `error`, or `done`, without a re-run |
| `ClaimCancelStaging` | `QueueClaims` | `api.py:345` "No engine process is writing; safe to drop staged partials now." | pause then cancel at once: the process is still there |
| `ClaimOrphanStaging` | `QueueClaims` | `api.py:321` "Each removed job's staging leftovers are cleaned up too." | a run that outlives its row stages files again and fails: a directory of no job |
| `ClaimRetryAll` | `QueueClaims` | `worker.py:262` "each pass moves all unpinned ERROR jobs back to QUEUED" | the first IntegrityError ends the pass |
| `ClaimClear` | `QueueClaims` | `api.py:321` "Active, queued, and paused jobs are untouched." | a job listed as cancelled and retried before the DELETE keeps its row and loses what it staged |
| `ClaimWindow` | `QueueClaims` | `worker.py:393` "Start every queued job whose slots are free" | only among the first 50 listed rows (the configuration scales 50 to 1) |
| `ClaimPending` | `DirsClaims` | `worker.py:244` "Preserve a renamed directory: record it as a pending rename" | the recheck of a failed job replaces the name that was waiting. With `Worlds <- RenameBack`: after a failed run the name that waits is applied over the one asked for since |
| `ClaimLateRename` | `DirsClaims` | `api.py:188` "Running job: recorded and applied when the download completes" | recorded after the run has looked, the name waits for ever |
| `ClaimRecheckRename` | `DirsClaims` | `CHANGELOG.md:207` "land new files in the job's current (possibly renamed) directory" | a rename during a recheck replaces the way back: old files stay in the directory named before. With `Worlds <- FlatRecheck`: the pending name equals `dir_name` and is dropped, and a gathered job's new files stay loose |
| `ClaimFlatMerge` | `DirsClaims` | `worker.py:86` | finished flat members of two destinations are gathered with `os.replace`, which overwrites |
| `ClaimMergeRace` | `DirsClaims` | `worker.py:86` | two threads find one suffixed name free, and the second `os.replace` overwrites |
| `ClaimNested` | `DirsClaims` | `worker.py:88` "Emptied source dirs are removed." | a source that contains the target is removed with it |
| `ClaimRenameRace` | `DirsClaims` | `worker.py:114` "Empty staging tree is removed after." | the `rmtree` of one rename removes what another moved in |
| `ClaimShared` | `DirsClaims` | `models.py:34` "Output directory of this job's files" | renaming one member of a finished merge takes the others' files along |
| `ClaimSeveral` | `DirsClaims` | the same; `worker.py:426-434` writes each new directory over the one before | the files in the other directories of a job are not where its row says |
| `ClaimGroupCrash` | `DirsClaims` | `api.py:304` "must not keep the stale name" | a crash before the last statement leaves two names in a group |
| `ClaimMigration` | `MCMigration` | `worker.py:134` "One-time" | interrupted, a job with a directory below its package loses two levels |
| `ClaimNoFiles` | `Progress` | `db.py:199` "a probe that returns after completion ... is a no-op" | a final total of zero is taken for unknown and replaced |
| `ClaimStop` | `Shutdown` | `worker.py:225` "Kill a running engine process for this job" | the process is unregistered before the cancelled run signals it: `stop()` lasts as long as the download |
| `ClaimBootstrap` | `ApiKeys` | `auth.py:41` "create the admin key and print it once" | the process dies between commit and print; the next start finds a key |

Six more consequences of the code, without a configuration of their own. The retry of a finished job that was
renamed downloads into the source's directory again; a member of a group that is retried so leaves the group's
directory, and so does one that had failed when the pin loop rechecks it. A member that has not finished keeps
its own destination when the group's is another one, and ends apart from the others under the same name. The
third of three files with one name becomes `a (2) (3)`, since the suffix is put to the name tried before. The
other two are what the proofs about `Migration` need as hypotheses: of a path with one name on three levels,
`d/d/d/x`, `merge_dirs(d/d, d)` makes `d/d/x` and then removes `d/d` with it (`NoneTripled`); and a package
directory that is also where another job's flattened file belongs is merged with that file in it, e.g. jobs `d`
and `e` with `d/p/x` and `e/d/p/y` (`Apart`).

## 4. What is proved

Each theorem holds for every value of the constants: any jobs, clients, URLs, hosts, keys, lists, directory
trees and limits. The assumptions are those the modules declare, and TLC evaluates them in the runs:
`TableAssumption`, `PoolAssumption`, `StopAssumption`, `LimiterAssumption` (limits positive, every URL has a
host), `ImporterAssumption`, `KeysAssumption`, `EventsAssumption`, `ProgressAssumption`, `MigrationAssumption`,
`DirsAssumption` (bounds are numbers, inputs are well formed). What a theorem asks beyond them is in the last column.

| Module | Theorem | States | Asks |
|---|---|---|---|
| `JobQueueProofs` | `TypeCorrect` | `Spec => []TypeOK` | |
| | `SlotsCorrect` | `Spec => []SlotsAccounted` | |
| | `NothingStranded` | `Spec => []NoStrandedActive` | |
| | `DoneIsClean` | `Spec => []DoneHasNoStaging` | |
| | `StopsAreKept` | `Spec => StopsStick` | |
| | `PartialsAreKept` | `Spec => PartialsStay` | |
| | `PoolRefinement` | `Spec => PoolSpec` | |
| `OutputDirsProofs` | `GroupsHaveOneName` | `Spec => []GroupsNamed` | |
| | `RowsAreTyped` | `Spec => []TypeOK` | `NoRecheck` |
| | `OwnFileIsMovedWhole` | only the end of a move takes the last copy of a file whose name is its job's alone | |
| | `RenamesAndMovesLoseNothing` | `Spec => MovesLoseNothing` | `OwnNames` |
| | `RecordedFilesAreKept` | `Spec => []FilesKept` | `OwnNames`, `Level` |
| | `MembersShareADirectory` | `Spec => []GroupsConverge` | `MergedWhole`, `Names` |
| `OutputRowsProofs` | `RowsSayWhere` | `Spec => []RowsPointToFiles` | `OwnNames`, `Level`, `OwnDirs`, `Names`, `OneDir` |
| | `RenamesAreHonoured` | `Spec => []RenameHonoured` | all of these, and `KeepsNames` |
| `ProgressProofs` | `UserTitlesStay` | `Spec => ChosenTitleStays` | |
| | `DoneOnlyRises` | `Spec => CountsRise` | |
| | `DirectoryIsRead` | `Spec => []DirectoryIsKnown` | |
| | `FinalCounts` | `Spec => []FinalCountsStand` | `MinFiles > 0` |
| | `ProgressPrecedesDone` | `Spec => NoProgressAfterDone` | `MinFiles > 0` |
| `ShutdownProofs` | `StopLeavesNothing` | `Spec => []NothingOutlivesStop` | |
| | `VerdictsAreEarned` | `Spec => VerdictIsEarned` | |
| `MigrationProofs` | `FlattensOnce` | `Spec => []MigratedOnce` | `FlattenedOnce` |
| | `NothingIsLost` | `Spec => []NoFileLost` | `Layout`, `OwnFiles`, `NoneTripled` |
| | `RecordedPathsLead` | `Spec => []PathsLead` | all of these, and `Apart` |
| `WebProofs` | `PageIsNeverAhead` | `Spec => []TypeOK` | |
| | `TokensLast` | `KeysSpec => []TokensAreDurable` | |
| | `LastAdminIsGuarded` | `KeysSpec => LastAdminFallsOnlyInCrossfire` | |
| `ImporterProofs` | `RateIsBounded` | `LimiterSpec => []RateBound` | |
| | `RefusalsAreJust` | `LimiterSpec => RefusedForCause` | |
| | `ImporterObeysLimiter` | `Spec => LimiterSpec` | |
| | `ImportsAreLimited`, `ImportsAreRefusedForCause` | the two above, of the importer's `Spec` | |
| | `ImportsAreTyped` | `Spec => []TypeOK` | `ParserIsRight` |
| | `ReportIsEarned` | `Spec => []DoneIsComplete` | `ParserIsRight` |
| | `ResendsAreFree` | `Spec => []ResendMakesNoRow` | `ParserIsRight` |

**The hypotheses.** Most exclude what a configuration of section 3 shows, or one of the consequences below its
table. The modules `MCOutputDirs`, `MCMigration` and `MCImporter` assume theirs, so that TLC evaluates them on the
instance it checks; `Progress.cfg` sets `MinFiles` to 1.

* `MinFiles > 0`: the download has a file. Without files `ClaimNoFiles` breaks both properties.
* `OwnNames`: no two jobs have a file of one name. With equal names files are overwritten: `ClaimDeferredMerge`,
  `ClaimFlatMerge`, `ClaimMergeRace`. The world `Merged` has equal names, and TLC alone says that its merges,
  one after the other, keep them apart.
* `Level`: destinations are equally deep, so that no output directory lies in another. `ClaimNested` is what
  happens otherwise.
* `Names`: neither a user nor a source calls a directory by the empty name, which stands for "no directory".
* `OwnDirs`: no two jobs get one directory name from their sources and users, and a merge takes such a name only
  from a job it names. Jobs with one directory are `ClaimShared`, and a run that lands in another job's
  directory is moved with it.
* `OneDir`: a job's files come in one directory or flat. `ClaimSeveral` is what a row says of others; TLC checks
  what it still says in the world `Spread`.
* `KeepsNames`: a job that users rename has files, is not retried after it has finished, not rechecked after it has
  failed (`ClaimPending`), and not retried after a recheck that failed, nor at all by users who ask for the
  name its source gives (the world `RenameBack`: the row has that name while another is pending). In each of the
  others the source's directory name comes back, or the pending name is forgotten.
* `MergedWhole`: every merge names all jobs (`GroupsConverge` speaks of no other), which have files and one
  destination; no finished job is retried and no failed one rechecked. Section 3 says what happens otherwise.
* `NoRecheck`: the pin loop does not overlap with requests. If it does, it can requeue a job that a retry has
  made active since the loop looked.
* `FlattenedOnce`: a flattened row does not look like the old layout. `ClaimMigration` is a row that does.
* `Layout` and `OwnFiles`: finitely many files, each recorded by one job. `NoneTripled`, `Apart`: section 3.
* `ParserIsRight`: what `parse_download_list` makes of the links has each wanted link once and no empty package.

**The queue.** `TypeOK` is not inductive: that a semaphore stays within its limit follows only
from the accounts, `Release` alone could push it over. The inductive invariant `IInv` is `Typed`
(the types, the two counters left out), `Counters` (they are naturals), `SlotsAccounted`, and
`FreshIdle` (an id not yet given out has no row and no task; an insert would otherwise change
the host a running task is counted under). Then `SlotsAccounted` bounds the counters and gives
`TypeOK`.

The other properties rest on a few lemmas that say once who may do what: `StatesStep` (who changes
a row's state, and to what), `PhaseStep` (who changes a task's phase), `StageStep` (who adds to
staging), `ClearStep` (what takes a clear request past its DELETE). `NoStrandedActive` is
inductive given these: only `MarkActive` makes a row active, a task in an active phase leaves it
by a verdict or by finding the row stopped, and a crash is answered by `RequeueInterrupted`.
`DoneHasNoStaging` needs `DoneInv`, which adds that a landed task has nothing staged and that a
done row's task is over but for its finally clause.
The refinement maps `Start` to `Take`, `Release` to `GiveBack`, `Crash` to `Reset` and every
other step to a stutter, since no step of the table changes a row's URL.

**Output directories.** Seven layers of invariants, each resting on those before; the last three hold without
overlap and until the process has died. `…Does` lemmas (`RunDoes`, `UpdateMemberDoes`, ...) say once what each step
does to rows, tasks and the tree, and all layers after the fourth use these instead of the actions.

1. `NamesMeet`: where two names meet in a group, a merge of that group has `update_group_name` still to come.
   Any merge that adds a member gives its name to all at the end, so the last one to end decides.
2. `Typed` and `Stored`: requests, runs and threads are well formed, and each file has the name of one of
   a job's files and the content of a file of that name. Then a step that leaves a file of every
   name (`NamesStay`) has lost none whose name is its job's alone. `StepKeeps` shows that of every step but the
   `rmtree` of `EndSource`, from a lemma for each operation on a tree (`Replaced`, `TreeRenamed`,
   `FileLanded`, and `SuffixedPath` for the free name of `merge_dirs`). None of them needs what a thread has found of
   its target to hold still, so threads may overlap between test and move.
3. `AtWork`: a row is active exactly while its job has a run, a job listed by the pin loop is at rest, and
   without overlap one request or end of a run is in progress. The last is what protects the first two.
4. `AllAimed` and `Recorded`, without overlap: a thread that empties a directory is aimed at another one as deep,
   and every file below the directory is on its list. What it moves therefore does not land below
   its source, nobody else puts a file there, and `rmtree` finds nothing. This is where the proof needs
   `Level`, and where overlapping requests break it (`ClaimRenameRace`).
5. `Knowing`: what a request or a run read before an await still holds when it goes on. `Converging`: a member of a
   group that nobody has renamed alone has the group's directory, is being moved there, or has the group's name
   pending; a merge has written the members it has passed. This gives `GroupsConverge`.
6. `Sound` (what a thread is to move is there and what it has found of its target holds, so none raises),
   `AllFormed` (a row records all files of its job or none), `OwnNamed` (a job outside groups has its own names
   and no other job has them), `Spared` (a thread that is not at work for a job neither empties nor fills one of
   its directories), and `AllThere`: the files of a finished job that no merge has taken up are where its row
   says, or the thread of a request that will write the row is taking them there. This gives `RowsPointToFiles`.
7. `AllVacant`: before the files of a job have landed the directory its source makes does not exist and no request
   moves it. `Granted`: the name a user gave last is the directory of the row, the one a request or run is about to
   write, or the pending one (`Honours`), and an unfinished job with files has been put back after it had finished
   (`Owed`). This gives `RenameHonoured`.

**Progress.** Nothing awaits the tasks that write progress, so the properties are about the order of two
queues. `Clock` counts a task's awaits, odd while it is in the event loop's queue and even while it is in the
database's; `Ahead(a, b, n)` says that `a` is further than `b`, less `n`, or as far and before it in the queue they
share. `Order` states it of each pair that could race (an earlier and a later report, a report and the run, the
detected directory and the run, the title probe and the run, an estimate already written and the run); `Queues` says
that a task is in one queue, once. A first-in first-out step keeps `Ahead`, and `Values` reads
the row off the clocks.

**Shutdown.** `EnginesHaveRuns` (a process is read by a run, or was left in `_procs` by one that met its
cancellation), `CancelledRun` (a cancellation waits for a task that exists), `VerdictHasResult` (a run decides
after its engine has spoken), `ActiveRun` (a run at work has an active row), `MovesOfActive` (a thread moves
files of an active row, which a cancelled run leaves active), `CancelledLate` (runs are cancelled when no other
can be started) and `StopOrder` (what `stop` has passed is over and does not come back).

**Migration.** `RowInv`: a row is as it was or flattened, and those behind the call are flattened. `FileInv`: every
content is in the tree once, and while a package moves, what lies under it is what is left to move. `OnPackage` and
`Located` add where: a file of the old layout is at its old path until its package is merged, then in the
directory of the new one, whatever crash comes between.

**Events.** `NothingAhead`: no event, answer or page is ahead of the rows. **Keys.** `IdsGivenOut` (below the
counter a key has a row or was deleted), `TokensOfRows` (who knows a token knows that of an id given out),
`ActsAsAdmin` (a request acts with an admin's key, or one deleted since).

**The limiter.** `RateBound` speaks of the whole history, `allow` of the deque. The invariant adds to
the types `Ordered` (the times of a key never decrease and none is in the future) and
`DequeHoldsWindow` (what has left the deque is older than the window, and the deque holds no more
than the limit). A refusal then has `Limit` entries in the deque, all within the window, and an
admitted time has its predecessor `Limit` places earlier outside it.

**The importer.** Every step is one of the limiter's or leaves it alone, which carries both bounds over.
`AnswerIsEarned`: the request of the run in progress has worked off its batch from the beginning, in order.
`Tally`: the counts are the cardinalities of the places before the run's offset, supported or not.
`RowsAreBudgeted`: rows of a URL, requests that may still insert one and places not yet sent are together at
most one per run and place; a step exchanges one for another, and a 429 gives its batch back whole because it
has inserted nothing (`OnceInRequest`: a batch has a URL once).

**Model-checked only.**

* Liveness, which needs fairness and ENABLED, out of the prover's reach: `Settles`, `SlotsComeBack`, `KilledRunsEnd`,
  `StopReturns`, `WorkResumes`, `PageConverges`, `RunsEnd`.
* The proved properties of `OutputDirs` in the worlds their hypotheses exclude (`Merged`, where files have
  one name; `Spread`, a job with several directories).
* What a fold over data computes: the packages `parse_download_list` makes of the links (`ParserIsRight`,
  evaluated by TLC on the list of the run).

## 5. What is left

To prove: `FilesKept` and `MovesLoseNothing` where jobs have files of one name and all merged members have finished.

Not modelled:

* the title backfill loop of `worker.py`: the title probe of `Progress`, run over finished jobs;
* the ALTER TABLE upgrade of old databases: one statement per column at start, no state between them;
* `ssrf.py` (a stateless predicate; `Supported` in `Importer`), the validation of names and paths;
* the MCP server and the browser extension: clients that send one request per call and keep nothing;
* configuration, logging, metrics: read at start, or formatting;
* HTTP middleware: looks at one request at a time;
* stats, settings and listings: they read. Byte counts and rates: no decision depends on them.

## 6. Running it

`tlc -config <run>.cfg <module>` with the modules of section 3 (`tlc -config OutputDirs.cfg MCOutputDirs`), the
same for the claims; `tlapm <module>.tla` for each of the eight modules of theorems. The longest run takes about
two minutes with two workers. The proofs of `OutputDirsProofs` and of `OutputRowsProofs` take about a quarter of
an hour each, those of `Progress`, `Importer` and `Migration` up to four, the others less than three.
