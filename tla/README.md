# dedup_server: TLA+ specifications

The server scans media locations, records every supported file in SQLite,
processes each one in a thread pool (copy to a cache, transcode, embed), and
groups files whose embeddings resemble each other. This directory specifies the
parts whose correctness depends on the order of steps, checks them with TLC on
small instances, and proves what matters most with TLAPS.

    tlc -workers 2 -config MCThreadPoolManager.cfg MCThreadPoolManager.tla
    tlapm ThreadPoolManager_proofs.tla

The other configurations and `*_proofs` modules are checked in the same way.

## 1. The system

| component | source (`src/src/`) | state it keeps | operations | who calls it |
|---|---|---|---|---|
| ThreadPoolManager | `orchestration/thread_pool_manager.cpp` | a queue, a share and a count per type, the round robin, the cap, the runnables, a Poco pool | `submit`, `canSubmit`, `schedule`, `onTaskFinished`, `onConfigChange`, `recreateThreadPool`, `shutdownAndDrain` | MediaProcessor, SchedulerService, configuration, shutdown |
| MediaProcessor | `media_processors/media_processor.cpp` | queue limit, `route_mutex_`; the column `scanned_files.processed` | `ProcessMedia`, `RouteToProcessor`, the task of one file, `shutdown`, `onConfigChange` | scheduler job; pool threads |
| ScannedFilesOps | `database/scanned_files/` | the table `scanned_files` | upsert, mark, escalate, list, clear flags, reset errors | all of the above, web handlers |
| FilesManager, FileScanner | `orchestration/files_manager.cpp`, `filesmanager/file_scanner.cpp` | `runMutex_`, `running_` | `runOnce`, `onFileEmitted` | scheduler job |
| DuplicateFinder | `orchestration/duplicate_finder.cpp`, `database/duplicate_groups_ops.cpp` | groups, members, checkpoint | `findDuplicates`, `processBatch`, `performCrossGroupChecking`, `onConfigChange` | scheduler job; web reset |
| DiskCache | `filesmanager/disk_cache.cpp` | files in a directory, their total size, the files in use | copy, in use / not in use, delete, enforce limit, relocate | pool threads, web server (an instance of its own) |
| SchedulerService | `orchestration/scheduler_service.cpp` | jobs with state, failures and a thread each | `registerJob`, `triggerJob`, `executeJob`, `handleJobFailure`, `stop` | start, web handlers, the task of a registered location |
| FilesService | `filesmanager/files_service.cpp` | media locations, in `user_settings` | register, deregister, `changeMediaLocationPath` | web handlers |
| Database sessions | `database/session/` | leased sessions, their number | acquire, release | everybody |
| Configuration | `config/` | properties, the YAML file, subscribers, modification time | get, set, save, reload, monitor the file, notify | everybody |
| Web page | `core/webserver/static/js/app.js` | the sections, lists and forms displayed, the calls that are out | clicks, `apiCall`, loads | users |
| Image pipeline, ONNX sessions | `media_processors/image/` | cache of sessions | embed, transcode | pool threads |
| Web server, handlers, thumbnails, console, start and shutdown | `core/` | thumbnail locks, caches of responses | HTTP | users |

Components meet in four places: the queue of the pool (tasks), the tables (rows
read by one and written by another, with a session lease per statement and no
transaction across statements), the cache directory, and configuration events
(callbacks on the thread that changed the value).

What makes them hard:

* **ThreadPoolManager** - two tests (`accepting_`, `draining_`) are made outside
  the mutex; counts are given back before the pool thread is idle; the cap can
  fall below what runs; recreation and shutdown drop queues while submissions
  are on their way. *Correct when* the books agree, no accepted task is lost
  except by a clear, the cap and the pool hold, no type starves another, and a
  drained manager stays idle.
* **MediaProcessor and the status column** - a row is read, decided on and
  written in separate statements by the scan, by `ProcessMedia`, by workers and
  by resets; a stop or a crash can come between any two. *Correct when* no row
  is forgotten, the queue is bounded, every file comes to an end, an error is
  final only on the second time, and changed content is processed again.
* **DuplicateFinder** - decisions taken from lists read at the start of a batch,
  written in several statements, with resets and crashes in between; ids with
  gaps; files that become ready out of order. *Correct when* groups are pairwise
  similar, rows and flags agree, no pair is missed, the batches advance.
* **DiskCache** - names are base names, the in-use set is no counter, the size
  drifts, two instances share a directory, and the file system fails half-way.
  *Correct when* the size does not understate the directory, the limit holds,
  marked files stay, a stream that fits is saved.
* **SchedulerService** - scheduled runs overlap, dropped runs leave a job
  RUNNING, `stop()` joins threads under the mutex that others need, a task polls
  for a scan that waits for its thread. *Correct when* jobs come again, every
  thread comes back, the shutdown ends and nothing is submitted after it.
* **FilesService** - rows are moved in pages with LIMIT/OFFSET while the update
  changes the filter; data in other tables, rows and registrations in separate
  transactions. *Correct when* files keep their data and a scanned location, and
  a user who asks again gets everything moved.
* **Configuration and web page** - properties are copied one by one, the file is
  written in two steps beside a monitor that reloads it, and keeps no types, so
  that a value may come back as another one; answers come in any order or not at
  all. *Correct when* a change is kept, the page shows it, and no click goes
  unanswered.
* **Sessions** - nested leases from a bounded pool.

`PROJECT.json` lists each hazard at its line with the properties that cover it. A
hazard without a property has a note: most of these do happen in the code, so that
the property nearest to it excepts them by a history variable (`calm`, `crossed`,
`late`, `raced`, `harm`, `uncounted`, `blocked`) and describes what holds otherwise.

## 2. Modules

| module | models | checked or proved by |
|---|---|---|
| `ThreadPoolManager` | the manager with its submitters, pool threads, configuration threads, shutdown | `MCThreadPoolManager`, two configurations |
| `JobQueue` | what the manager promises to those who submit: the abstract specification | refinement `ImplementsJobQueue` |
| `SchedulerService` | jobs, triggers, failures, the task of a registered location, stop, on an abstract pool | `MCSchedulerService` |
| `MediaProcessor` | scan, `ProcessMedia`, workers, error reset, queue limit, stop, crash, start | `MCMediaProcessor`, three configurations |
| `DiskCache` | the two caches, their tasks, streams, eviction, the second object | `MCDiskCache` |
| `DuplicateFinder` | batches, groups, moves, checkpoint, web reset, thresholds, crash | `MCDuplicateFinder`, two configurations |
| `ChangePath` | change of the path of a location beside scans, registrations and failures | `MCChangePath`, two configurations |
| `ConfigServer` | properties, file, monitor, the handlers of `/api/v1/config` | through `WebApp` |
| `WebApp` | the page and its calls; extends `ConfigServer` | `MCWebApp` |
| `ThreadPoolManager_proofs`, `JobQueue_proofs`, `MediaProcessor_proofs`, `SchedulerService_proofs`, `ChangePath_proofs`, `WebApp_proofs`, `DuplicateFinder_proofs`, `DiskCache_proofs` | theorems (section 4) | tlapm |

Definitions carry the names of the source where there is one. An operator whose
comment says "Mutant" is a plausible wrong version of the definition after it;
no specification uses it. It is there to show that a property notices the error.

### ThreadPoolManager

One action per critical section of `mutex_`, and one per step outside it: the
test of `accepting_` (`SubmitAccepted`, `SubmitRejected`), the test of
`draining_` (`Calling`, `...Skips`), the moment the Poco thread is idle again
(`ThreadIdle`). A task stands for one `std::function` and for the pool thread
that runs it. `schedule()` is a closed form: the types of which one pass starts
a task (`Starting`) instead of the loop. The loop itself is `Loop`, a recursive
function from turn to turn, and `ScheduleIsTheLoop` compares the two. The two stores of shutdown are one step, because no test reads
both flags and a rejected submission changes nothing. `fate` is a history
variable. A recreation waits for its turn under the mutex and fails when the cap
is 0, after it has cleared the queues. Left out: the kill timeout's value (the
wait may end at any time), logging, and the destructor of the old Poco pool,
which could wait for a thread that has not come back (listed as a hazard).

### MediaProcessor

Each call of ScannedFilesOps is an action of its own, because other threads can
come between any two. A file has a content version; the row holds the version
the scan saw, the embedding the version it was computed from. The pool is
reduced to the queue of the type `media_processor` and the threads that take
from it, as `JobQueue` promises them: first in, first out, each task once, all
dropped together.
`ProcessMedia` holds `route_mutex_` from its list to the end of its loop, so a
run is a job with a program counter, and `RouteMutexFree` is the mutex. Images
are marked -99 before they are submitted; videos and audio files are not.
`processed` uses the numbers of the code: 0, 1, 2, -2, -99, an error code, an
error code - 100. `WorkFails` may end an attempt with any code of `Codes`. Left
out: failing SQL statements, names and cache files (those are in DiskCache),
thumbnails (their failure is ignored and nothing is thrown).

### DuplicateFinder

A file is the id of its row; `similarity` is an arbitrary symmetric table with a
few levels (`ThresholdMin`, `ThresholdMax`, identity), chosen initially, so TLC
goes through all of them. A run is a program counter; what a decision still has
to write is `finder.script`, executed one statement per step by `Execute`, so
that a reset and a crash can come between two statements. Lists that the code
reads once per batch (`reps`, `ungrouped`, `counts`) are kept as read; a list of
files in the order of their ids is kept as the set of them, and a loop over it takes
the `First` of what is left. The loop that gathers the files of a new group is
stated by what it computes (`Gather`: a file joins when it resembles all that joined
before it). `Rank`
stands for size and date. The next batch starts as many ids further on as this
one had files (`AfterBatch`), exactly as in the code. `onConfigChange` sets the
thresholds, to the defaults if they are the wrong way round, and another lower
threshold deletes the groups like the web reset; the start reads them untested
(`Crash`, `Init`). Left out: changed embeddings, the other settings, statistics.

### JobQueue

Tasks are accepted, enqueued, started, finished; a cap, a flag `open`, and a
`Drop` that clears all queues at once. It says nothing about round robin, shares,
Poco threads, mutexes or the drain. The mapping (`JQ` in `ThreadPoolManager`)
reads queues, runnables and the cap as they are; every step of the manager is
then a step of the queue or changes nothing of it. A late `schedule()` that
starts a task after the drain is allowed by it, because the code does it.

### SchedulerService

On a pool as `JobQueue` states it: queues by type, a cap, tasks dropped
together. The thread of each job (`Wake`, `Dispatch`) submits its job whenever
the interval has elapsed, whatever the state is; `triggerJob` only if the job is
not RUNNING. Runs are a bounded set of `std::function` objects. `triggerJob` and
`executeJob` are one step each, because the mutex covers them; `stop()` holds it
from `LockToJoin` to `ClearJobs` (`MutexFree`). The task of a registered
location is a program of its own on a pool thread: look at `isRunning()`, trigger
the scan, poll, look again, trigger the processing, each step separately.
Left out: `unregisterJob`, `updateJobInterval`, back-off and jitter (an interval
is any time), the type of DuplicateFinder's job.

### DiskCache

Each operation holds the mutex of its object and is one step; tasks interleave
between operations. The directory is a function from the names of its files to their
sizes, with the relation "older than" that their times give; the oldest file is the
one that nothing is older than. What is on disk in all is the number of its bytes (a
byte is a name and an index). The size that the code counts is kept beside the
directory, with the arithmetic of an unsigned number (`SizeMod`). The web server makes
an object of its own on the transcoding directory (the comment at
`server_server_initializer.cpp:185` says that it is reused), so there are two sizes
and one set of marks.

Every call into the file system that changes something may fail, and what the code
does then is part of the operation:

* `Stuck`: files that cannot be removed. An eviction goes past them
  (`disk_cache.cpp:530`); a clearing, by `enforceSizeLimit` or
  `clearCache`, ends at the first one, with size and marks as they were; so does that
  of `initialize`, which then adds up what is left.
* `CopyToCache`: `copy_file` throws (`:219`) after room was made: the old file is
  there, or gone, or a part of the new one lies there uncounted.
* `StreamBreaks`, `StreamIsWritten`: the returns of `saveStreamToCache` at `:258`,
  `:270`, `:307` and `:319`, and its catch clause: the temporary file may stay, whole,
  in part or empty, uncounted, and takes part in later evictions. `Temps` are its names.
* `Transcode`: the transcoding fails, or breaks off in the middle of its file.
* `Delete`: the file cannot be removed and stays.

`ClearCache` is `clearCache` of any object: by the invalidation handler of the objects
the web server has, and by `MediaProcessor::shutdown` (`media_processor.cpp:104`) of
the object with the marks, which are cleared with it while tasks may be at work.
`Init` starts with what an earlier run left, a temporary file included.

Left out: the relocation, `deleteFromCache` (called by tests only), a failure to list
the directory (`getFilesByAge` then returns what it has, and nothing is evicted), and
other steps between the parts of one operation (the two objects have two mutexes, and
transcoding writes without one).

What the model shows, and the properties leave room for:

* The size drifts upward without bound, by overwritten files and by what another
  object removes, until an object evicts everything it may (`MaxCounted` is the bound
  on it).
* It understates the directory (`uncounted`) by transcoded files, which are not counted
  when they come but when they go, so that it wraps below zero; and by what a failed
  copy or stream leaves. Only a clearing of the whole directory ends that.
* The limit is not enforced on what `initialize` finds. Once the count is above the
  limit, `enforceSizeLimit` frees as much as the new file needs and no more, so the
  directory stays too large until the limit changes or it is cleared (`blocked`).
* A task that throws (`Throw`) leaves its mark for ever.
* `disk_cache.hpp:67` "Mark a file as in use (prevents deletion)" holds neither for
  the other object nor for a clearing.

### ChangePath

A path is a pair of a root and a relative path. A call is a program counter with
what it has read: look-up, adoption of the new root's own files, count,
verification of a sample, pages, each row followed by the rows of the other
tables, registration, removal. A page (`SELECT ... ORDER BY id LIMIT ? OFFSET ?`)
is the set of rows whose rank among the matching ids lies in its range. `harm`
records what happened that may cost a file its data or its place, and the
properties hold without it: among it two calls with different targets, and a call
whose old and new root are one (or spellings with one key), which neither the
handler nor `files_service.cpp:235` refuses: it updates the rows in place,
registers the new key and then removes the old one, which is the same. Neither
kind of call is in the instances, both are in the theorems. Left out:
`verifyPathRemapping` on its own (it only reads), spellings of one root, a file
that is being processed while its row is moved, and the paging order when ids
change.

### ConfigServer and WebApp

`ConfigServer` has one process per call and one for the monitor; each goes key
by key where the code locks per key, and writes the file in two steps, truncate
and write.

A property has a value, of a type, in memory and a text in the file. `TextOf` is what
`anyToYamlNode` writes for a value; the text does not say of which type it was.
`ReadAs` is the guess of `convertStringToType`, made of the text alone: with a point a
double, else an integer, else a word for a Boolean, else a string, each by the prefix
that looks like one. Both are constants, and the theorems hold for any; the instance
has the case that matters, the string "0.0.0.0" (`server.host`), which comes back as
the double 0.0, is written as 0 at the next save and comes back as the integer 0.
`Typed` is what `setValueFromString` accepts for a property, by the type of its
default; `setValueFromFile` accepts anything, so `Edit` puts any text into the file
and `Apply` any value into memory. `Retyped[v]` is the set of what v can turn into by
any number of saves and reloads; most values come back as they were, and for them it is
v alone. The properties say that a change is kept, displayed and real up to this set.

`WebApp` adds the page: a chain of calls per click (`Slots`), which may be handled and
answered in any order or be lost before or after they were handled, and what the
answers do to lists, forms and notifications. Left out: the removal of notifications
after three seconds, which section is shown, the display of status and settings
(`displayUserSettings`, `app.js:188`, iterates over an object, which throws: visible in
every load), `saveConfiguration` (a message that it is not there yet), the torn read of
a property that is set at the same time, lists and maps as values, and a file with
fewer or more properties than the factory creates.

## 3. Runs

| run | configuration | asks |
|---|---|---|
| `pool_safety` | 2 types, 3 tasks, caps 0 and 2, one configuration thread, shutdown | Do the books, queues, registration, pool and cap hold in every order, and is the manager a `JobQueue`? |
| `pool_fairness` | 2 tasks of one type submitted for ever, 1 of another | Can a busy type starve another? |
| `scheduler` | 2 jobs, 3 runs, one registered location, 1 or 2 threads, one recreation, shutdown | Do jobs go on, threads come back, failures stop the server, and does the shutdown end with nothing behind it? |
| `media_safety` | image and video, 2 workers, 2 runs of `ProcessMedia`, 1 disturbance | Is a row ever forgotten, does the queue outgrow its limit? |
| `media_progress` | image and video, 1 worker, 2 disturbances | Does every file come to an end? |
| `media_change` (finding) | one image, 1 content change | Is changed content processed? Not if a worker was busy with the old one. |
| `disk_cache` | 2 tasks, 3 files (two of one name, one raw, which the smaller limit does not hold), limits 2 and 4, 1 event: a failure, or a removal behind the tasks' back | Does the counted size cover the files, does the limit hold, do marked files stay, is a stream that fits saved? |
| `groups` | 4 files, 3 levels, all 729 tables, batches of 2 | Are groups pairwise similar, do rows and flags agree, is a pair missed? |
| `groups_progress` | 3 files, 3 tables, one reset, crash or change of the thresholds | Do the batches get past every file, and do the groups fit the thresholds that hold? |
| `change_path` | 2 files, 2 calls, pages of 1 row, a scan, 1 event | Does the data follow the file, has each file a location, does asking again move everything? |
| `change_path_pages` (finding) | one call, nothing else | Does "ok" mean that all rows were moved? No: of several pages every second one is skipped. |
| `web_app` | 3 chains of calls, a string and an int, the texts "0.0.0.0" and "0", 2 clicks or a click and an edit of the file | Are changes kept and displayed up to what the file makes of them, every click answered, typed text kept, success real? |

**Bounds.** `MaxDisturbances` bounds content changes, stops, crashes, resets and
configuration changes; everything else is finite by itself. Three tasks of two
types on pools of none, one or two threads give a queue behind a queue, a full pool,
and a type that waits for another. Two workers and two jobs give every race of
two on one row; one disturbance is enough for each to hit every point, two for
a crash during the recovery from another change. Three runs, two of one job, are
what it takes for runs to overlap, and one thread for a poll to block its scan.
Two tasks and three files give a name that is overwritten, a raw file, one above
the smaller limit; one event lets each place fail once, with every subset of the
files stuck, at every point of the two tasks; `SizeMod` is larger than any size that
occurs, so only a real underflow wraps, and files are added while the drift is at
most 8. One string and one int are the least in which one value is re-typed twice and
the other not at all. Two files with pages of one row are the least that skip a page;
two clicks, or a click and an edit, are what it takes to overlap. Four files in batches of two
are the least that make two groups, a move between them, a batch that meets
groups and left-over files of the one before. Three files are enough for
`groups_progress`, where the table hardly matters; its ranges are a wide one, the
default, and one the wrong way round. Symmetry is used for interchangeable
tasks, threads and jobs, in runs without liveness properties.

`CHECK_DEADLOCK FALSE` is set where the system may stop: all tasks may have
ended, the server may have stopped or have nothing to do, and in `disk_cache`
the bound on the drift ends the model. `change_path` checks for deadlock.

**Fairness.** Threads keep running, so a step of a thread that is inside a call
(`SubmitEnqueue`, `SubmitSchedule`, `FinishSchedule`, `ThreadIdle`, a worker's
or a job's step, a step of a run) is weakly fair; tasks end. The scheduler starts
`ProcessMedia`, the scan and the finder at intervals for ever, hence weak
fairness of `ProcessMedia` and of the run, and strong fairness of `ScanStat` for
each file, because a scan visits every file but only one at a time. Starting the
server again is assumed fair; stops, crashes, resets, configuration changes and
submissions are not.

In `SchedulerService` the threads of the jobs, the functions that run and the
shutdown are weakly fair. A type's `Start` is strongly fair: the pool may be full
again and again, but a type whose tasks are submitted again and again is served
(`OnlyQuietStarves`). The task of a registered location is strongly fair because
it waits for a mutex that others take and release. In `ChangePath` the handlers
go on and the user asks again and again; in `WebApp` handlers, event loop and
monitor go on, and nobody has to click, type or edit.

`OnlyQuietStarves` and `EveryFileSettles` say no more than the code gives. A task
can wait for ever when the last call of `schedule()` came from a thread the pool
did not yet count as idle; in the server the next timer event submits again. A
file can wait while others are for ever taken up again (the LIMIT of the list).

**What the conditions leave out.** `GroupsArePairwiseSimilar` excepts members
that moved, which the code compares with the representative only, the time until
a reset is complete, and runs that were cut short (`raced`): a crash between
flagging a new representative (`duplicate_finder.cpp:463`) and clearing the old
flag (`:470`) leaves two flagged members, the check of all members skips the
second one, and a later file joins though it does not resemble it; thresholds
that were edited while the server was down delete nothing.
`NoPairIsMissed` excepts files that became ready after a batch had passed their
id (`late`); two such files are never compared, a known limit of a walk by id.
`EveryChangeIsKept`, `GridIsCurrent` and `SuccessIsReal` except changes that overlap
(`calm`): of two saves at one time the older copy may be written last, a reload may
find the truncated file, and an edit during a reload is never read; and a save that
fails, which the handler does not look at. `GridIsCurrent` and `SuccessIsReal` are
about a user who waits for each answer (`crossed`): the answer of an older load may
arrive last. `GridIsCurrent` is about a user who works in the configuration only: a
click elsewhere may take the place of the notification that a load of the grid failed.
All of them allow a value to be re-typed (`Retyped`). `TypedTextIsKept` excepts text
that is typed while a call of its form is out (`late`).
`SizeCoversTheFiles` and `RestFitsTheLimit` except a count that uncounted files broke,
and the second one files that stayed where they should have gone (section 2).
`MarkedFilesStay` is about the object that has the marks, and not about clearings;
a mark that an exception left is in no property.
`RepresentativesAgree` excepts groups in `unmarked`. The list of ungrouped files is
read once per batch (`duplicate_finder.cpp:361`), so two files of one batch may each
make a new group with the same earlier file, which is then in two groups; if
cross-group checking moves it from one to the other, where it is the better
representative, `ON CONFLICT DO NOTHING` (`sql_constants.hpp:326`) keeps its old row,
the old representative loses its flag, and no member is flagged. It takes three
groups and three levels of similarity, more than the instance of `groups` has.
`EveryFileHasALocation` and `DataFollowsTheFile` except what `harm` records: for the
first a failed row, a crash or a scan between the rows and the registration.

**Also seen in the models, without a run of its own.** A call of `schedule()` that
passed the test of `draining_` before the shutdown starts a task after the drain
ended (`thread_pool_manager.cpp:262`; `src/tests/unit/test_tpm.cpp:40` expects no
running task). The first error of a queued image is final, because the mark -99
counts as an error (`scanned_files_ops.cpp:270`;
`docs/processing_status_codes.md:34` calls it "retryable once"). `member_count` is
one too high after a move (`duplicate_finder.cpp:1296`;
`docs/DUPLICATES_API.md:166`). `docs/files_manager.md:160` says that the scheduler
skips a run while the last one is active; only `triggerJob` does, and the first
of two overlapping runs to end sets the job IDLE. The monitor's reload of the server's
own save changes values: a `server.host` of "0.0.0.0" set by a call becomes 0.0 and,
with the next save, 0; a list "128,256,512,1024" becomes 128 (`config/config.yaml:7`
shows it). `docs/CONFIGURATION_REFERENCE.md:287` says that API writes persist back to
YAML and `docs/config_rules.md:202` that programmatic changes are persisted. An update
is answered with success when the file could not be written
(`web_handlers_config.cpp:242`). A stream that breaks off leaves its temporary file
(`disk_cache.cpp:270`, `:307`), which is in no count.

## 4. Proofs

The theorems hold for every value of the constants that the named assumptions
allow; TLC evaluates the assumptions in the runs. Each is proved from an inductive
invariant `Inv` of its module (`Init => Inv`, `Inv /\ [Next]_vars => Inv'`), with one
step per action. TLC checked each `Inv` on the instance of the run before the proof.

| module | theorem | statement |
|---|---|---|
| `ThreadPoolManager_proofs` | `TypeCorrectness` | `Spec => []TypeOK`: in particular no counter goes negative |
| | `CountsTheorem` | `Spec => []RunningCountsAgree` |
| | `PlacesTheorem` | `Spec => []PendingTasksAreSomewhere` |
| | `RegisteredTheorem` | `Spec => []QueuedTypesAreRegistered` |
| | `PoolTheorem` | `Spec => []PoolNeverOverflows` |
| | `CapTheorem` | `Spec => NoStartAboveTheCap` |
| | `LoopTheorem` | `Spec => []ScheduleIsTheLoop`: the closed form of `schedule()` is its loop |
| `JobQueue_proofs` | `Refinement` | `Spec => JQ!Spec` (`ImplementsJobQueue`) |
| `MediaProcessor_proofs` | `TypesAreKept` | `Spec => []TypeOK`: the status column holds documented codes only |
| | `NoRowIsEverForgotten` | `Spec => []NoRowIsForgotten` |
| | `QueueIsBounded` | `Spec => []QueueStaysBounded` |
| `SchedulerService_proofs` | `TypesAreKept` | `Spec => []TypeOK`: with the bound on what runs |
| | `NothingIsSubmittedAfterStop` | `Spec => NothingAfterStop` |
| `ChangePath_proofs` | `TypesAreKept` | `Spec => []TypeOK`: no two rows have one path, counts fit |
| | `DataFollowsTheRows` | `Spec => []DataFollowsTheFile` |
| | `NoFileLosesItsPlace` | `Spec => []EveryFileHasALocation` |
| `WebApp_proofs` | `TypesAreKept` | `Spec => []TypeOK`, of page and `ConfigServer` |
| | `ChangesAreKept` | `Spec => []EveryChangeIsKept` |
| | `GridStaysCurrent` | `Spec => []GridIsCurrent` |
| | `TypedTextStays` | `Spec => TypedTextIsKept` |
| | `SuccessStaysReal` | `Spec => SuccessIsReal` |
| `DuplicateFinder_proofs` | `TypesAreKept` | `Spec => []TypeOK`: rows are of groups that were made, of processed files |
| | `RepresentativesStayMarked` | `Spec => []RepresentativesAgree` |
| | `GroupsStaySimilar` | `Spec => []GroupsArePairwiseSimilar` |
| | `NoPairIsEverMissed` | `Spec => []NoPairIsMissed` |
| `DiskCache_proofs` | `TypesAreKept` | `Spec => []TypeOK` |
| | `SizeAlwaysCovers` | `Spec => []SizeCoversTheFiles` |
| | `RestAlwaysFits` | `Spec => []RestFitsTheLimit` |
| | `MarkedFilesAlwaysStay` | `Spec => MarkedFilesStay` |
| | `FittingStreamIsAlwaysSaved` | `Spec => FittingStreamIsSaved` |

**ThreadPoolManager** (`TasksAssumption`: finite sets, each task has a type;
`SizesAssumption`: sizes are naturals, shares integers). `Inv` is the conjunction of
the five invariants. None is inductive by itself: that the locked part of
`schedule()` starts no task twice needs `PendingTasksAreSomewhere` (a queued task is
not running), that a finishing task finds positive counts needs
`RunningCountsAgree`, that a started task has an idle thread needs the relation of
runnables and busy threads. The argument for `schedule()` is made once: lemmas say
that the started tasks are as many as the types started, each the head of its queue,
and no more than the cap and the idle threads allow (the set of started types is
bounded by the turn of its last element); the three callers of `ScheduleLocked` then
share it. `CapTheorem` follows from the invariant and a case split over the actions.
`LoopTheorem` shows that the model's one step is what the code computes turn by turn:
`LoopAt(i)` says in closed form what the loop has at its i-th turn, `LoopGoesOn` that
one turn leads from each to the next (no later type can start once the loop has
ended, `NothingAfterTheEnd`; none is passed over before, `EverythingBeforeTheEnd`), and
a least counterexample that `Loop` has no other value. It needs that no type is
registered twice.

**JobQueue.** Each action is one lemma: a step of the manager is a step of the queue
under the mapping or leaves it unchanged. The three callers of `ScheduleLocked` share
`ScheduleStarts`, which needs the counts (the started tasks fit below the cap) and
the places (a started task does not run yet).

**MediaProcessor** (`FilesAssumption`: images and others are disjoint, rows differ,
error codes are those of the source, limits are positive). `Inv` adds to `TypeOK`:
what a thread or a run carries suits its next statement (`ArgsInv`, else an
escalation could write an undocumented code); the flag of a file in progress is
backed by a thread, the queue or a run (`InProgressIsInHand`, which a restart makes
true by clearing the flags); and between `canSubmit` and `submit` one run at most
has passed `route_mutex_`, and the room it saw is still there
(`RoomForTheSubmitter`, without which the bound is not inductive).

**SchedulerService** (`SchedulerConstants`: jobs and runs have types, caps are
positive). `PoolInv` is the pool: a task waits once, in the queue of its type, and
not while it runs. `NothingAfterStop` needs `ThreadsHaveEnded`: `stop()` returns only
when every thread has ended, and an ended thread stays so; `RunForTheThread` says
that a thread about to submit has a run to submit.

**ChangePath** (`Bounds`, `Shape`: positive page sizes, finitely many relative
paths). `CountsFitPages` bounds the rows a call has handled by the pages it fetched.
`RelativePathsStay`: whatever calls do to roots, relative paths stay, so two rows that
had data never meet in a table with a key on the path; `DataInv`: the tables name
every such row under its path, but for tables a call has still to reach;
`PlaceInv`: while calls agree on the target, every row is under a registered root or
the new root of a call that has moved rows and is still to register it, and a call
knows of the old root (`OldRoot`) what makes its removal safe: it counted no fewer
rows than are left, and if no row failed and the pages cover the count, every row
left is on its page.

**WebApp and ConfigServer** (`ConfigAssumption`: there is a property, every value has a
text and every text is read as a value, which need not be the same one;
`SlotsAssumption`, `PageAssumption`: at least three slots, no text is empty).
`CallsFit`: what a process carries at each place, so that a copy that is written or
applied is complete. `CalmInv`: while changes do not overlap, one process at most
changes anything, and memory, file and the copies it holds are in `Retyped` of what was
asked. That is inductive because `Retyped` is closed and transitive (`RetypedKeeps`, by
the definition as a least set, without induction): a copy of memory that is saved and
read once more stays in it. `FileAgrees` says it of the file but while it is written,
`MemoryAgrees` of memory, also before the monitor has seen the file. `PageInv`: a call
that carries a text has the one in the form; an answer that is on its way is still true
(`StaysDone`); a grid that is not current has a load on its way. The server's own steps
lead memory from a value to what it may turn into only (`Forward`), so what a load has
read stays current. Each of the five theorems follows from `Inv` in one state or one
step.

**DuplicateFinder** (`FinderAssumption`: levels are naturals with a largest one,
tables are symmetric, thresholds are not the level 0). The difficulty is that a
decision is executed statement by statement, so that rows and flags disagree most of
the time. `Inv` therefore counts what the script is still to do as done:
`FlaggedLater`, `RepLater` and `MemberLater` are flags, representatives and members
as they will be when the script is empty. `FlagsLater` (they will agree) and
`SimilarLater` (the members will resemble each other) are then kept by every
statement, and a decision has to show them for its script only. `ScriptOrder` says
what a script can be: inserts first, one update, the load of the cached
representative after it, the second half of a move last. `CacheAgrees`: while files
are compared, the cached representative is the one of the row, or a load of it is to
come; with `FlagsLater` it makes the flagged member, which the comparison with all
members leaves out, the file that was compared first. `LowIsUnflagged`: a member
that may move away is no representative. `QuietReset`: a reset that does not race
with a run ends without groups. What `Gather` takes is pairwise similar
(`GatheredAreSimilar`): of two files of the set the later one was compared with the
earlier one. A list is built by `Ascending`, by the number of smaller members, so that
its range follows from the cardinality of subsets.

`NoPairIsEverMissed` needs a second invariant on top of `Inv`, `PairsInv`. At the
end of a run two files that the checkpoint has passed are `Apart`: one of them is in
a group or the files are unlike. In the middle of a run that is not true yet, so
the invariant says how far the run is. `PairsBefore`: it is true of files up to the
place where the batch began. `BatchKnown`, `OlderKnown`, `LeftoverCompared`: what the
current batch knows of its own files, of the older ones, and of the files it could
not put into a group by the older ones. A file counts as grouped (`Grouped`) when it
is in a group for good or the script will add it: a move deletes first and inserts
last, and `MovesAreWhole` says that the insert is still to come. (A crash between the
two sets `raced`: it leaves a file behind the checkpoint without a group, which
no later run looks at.) `PlaceKnown` and `TopKnown` relate the place of the run, the
checkpoint and the last file of the batch, so that a file that becomes ready in time
comes after both. `GroupsKnown`: what a script inserts into is a group that exists, so
that no insert is lost. `ResetRows`: a reset that does not race with a run deletes
members before groups and the checkpoint.

**DiskCache** (`Sizes`: sizes are positive, no file fills what the bound on the drift
leaves below `SizeMod`, temporary names are no names of files). `Types` says that the
directory holds finitely many files and that "older than" orders them totally, so that
files that may go have an oldest one, and what each task carries at each place.
`SizeInv`: unless files came or went uncounted, the size covers the bytes on disk and
stays so far below `SizeMod` that no addition wraps. Failures keep it because they take
files away or leave no bytes behind, or set `uncounted`: a directory after such a step
is `NoMore` than before (its files were there before, as large, or are empty), and
`NoMoreBytes` and `NothingComes` are the two lemmas all failing branches share.
`RestInv`: the files that are in no task's hand and not marked fit the limit. A task
that throws lets go of its file; `MarkInv` makes that safe: the file of a task that has
lost its mark to another task of that name is gone, or some task is still to mark or
delete it, unless a file could not be removed (`blocked`). Eviction takes a prefix by
age of the files that may go; `OldestFrees` says that what it takes is enough or all it
may take (the file with the fewest older ones among those left would have been taken
otherwise). For `FittingStreamIsAlwaysSaved`: the temporary file of a stream is the
newest, so that eviction with an exact size ends before it.

Two definitions were found wrong by the proofs and corrected: a CASE of `ReadProperty`
whose conditions overlapped (TLC takes the first, the logic does not), and the
condition of `GridIsCurrent`, which allowed clicks in other sections. A third,
`RepresentativesAgree`, was found to be false for larger instances while its
invariant was being written (section 3). The lists of DuplicateFinder were rewritten
without `SelectSeq`, `SortSeq` and folds, of which nothing can be proved, and the
directory of DiskCache without folds and sequences; the reachable states of the finder
are as many as before.

**Only model-checked.** Liveness (`FairSpec` properties): fairness and `ENABLED` are
beyond the prover. These are `OnlyQuietStarves`, `ThreadsComeBack`, `ShutdownEnds`,
`EveryFileSettles`, `FailuresStopTheServer`, `EveryFileIsChecked`, `JobsKeepRunning`,
`AskingMovesEverything` and `EveryClickIsAnswered`. Every other property that a run
checks is stated by a theorem, but for those of the two runs that expect a violation.

## 5. Plan

Done: the modules of section 2, the proofs of section 4.

Models that are left: the pool of database sessions with nested leases, the lock
of a thumbnail that is being generated, subscriptions to configuration events.

## 6. Not modelled

* Image decoding, embeddings, similarity, ONNX and transcoding: computation and
  external libraries. Their result is a value (a level of similarity, a size, an
  error code) chosen freely.
* HTTP parsing, JSON, the syntax of YAML (what it does to the types of values is in
  `ConfigServer`), logging, the console, the instance
  checker and the walk of the file system: no state of their own that other parts
  depend on in an order that could be wrong.
* SQL execution: a statement is atomic; it may fail in ChangePath only.
* Database sessions: leases come from a library; every statement is modelled as
  one step, so waiting for a lease (and `processBatch` waiting while it holds one)
  is not in the models.
* The thumbnail handler: its lock is erased while others wait for it, so that two
  requests may generate one thumbnail twice, with the same result.
* The destructor of `Poco::ThreadPool` in `recreateThreadPool`, which may wait
  for a thread that waits for `mutex_`.
