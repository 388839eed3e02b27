--------------------------- MODULE SchedulerService ---------------------------
(***************************************************************************)
(* SchedulerService (scheduler_service.cpp) on the pool of threads, of      *)
(* which it needs what JobQueue states: queues, a cap, tasks that are       *)
(* dropped together.  A thread per job submits the job when its interval    *)
(* has elapsed, whether an earlier run still waits or runs or not; a        *)
(* trigger submits it only if it is not RUNNING.  Triggers come from the    *)
(* web API, and from a task that is submitted when a location is            *)
(* registered: it triggers the scan, polls until that is over or a timeout  *)
(* has passed, then triggers the processing (server_server_initializer).    *)
(* A job that fails too often in a row stops the server; stop() joins the   *)
(* threads of the jobs while it holds jobsMutex_.                           *)
(*                                                                         *)
(* triggerJob holds jobsMutex_ until the run is queued, and is one step, as *)
(* is executeJob; only stop() holds the mutex for longer.                   *)
(***************************************************************************)
EXTENDS Integers, FiniteSets, Sequences, SequencesExt

CONSTANTS
  Jobs, Scan, Media,   \* the jobs; "fileScan" and "mediaProcessor" among them
  Runs, JobOf,         \* the runs of jobs there can be at one time: a bound
  Asks,                \* tasks of locations that are registered
  Types, TypeOfJob,
  Caps,                \* values of tpm.cap
  MaxFailures,         \* maxConsecutiveFailures
  MaxDrops             \* bound on how often the pool is made anew

ASSUME SchedulerConstants ==
  /\ {Scan, Media} \subseteq Jobs /\ JobOf \in [Runs -> Jobs] /\ TypeOfJob \in [Jobs -> Types]
  /\ Runs \cap Asks = {}
  /\ Caps \subseteq Nat \ {0} /\ MaxFailures \in Nat \ {0} /\ MaxDrops \in Nat

Tasks == Runs \cup Asks
TypeOf(t) == TypeOfJob[IF t \in Runs THEN JobOf[t] ELSE Scan]

VARIABLES
  waiting, running,  \* the pool: the queue of each type, the tasks that run
  cap,
  state, failures,   \* of each job; its failures in a row
  worker,            \* the thread of each job
  asks,              \* where each task of a registered location is
  down,              \* how far the shutdown has got
  drops

pool == <<waiting, running, cap>>
job == <<state, failures, worker>>
vars == <<pool, job, asks, down, drops>>

running_ == down \in {"up", "requested"}

\* Mutant: stop() leaves jobs_ as it is.
RegisteredForEver == TRUE

\* jobs_ holds the jobs until stop() clears it.
Registered == down \in {"up", "requested", "signalled", "joining"}

MutexFree == down # "joining"

Queued(t) == Contains(waiting[TypeOf(t)], t)
Free(j) == { t \in Runs : JobOf[t] = j /\ t \notin running /\ ~ Queued(t) }

\* Bound: a run is left, beyond the one that the thread of the job is to submit.
RunLeft(j) == Cardinality(Free(j)) > (IF worker[j] = "sleep" THEN 0 ELSE 1)

-----------------------------------------------------------------------------
(* The pool.                                                                *)

\* ThreadPoolManager::submit; refused once the pool is closed.
Submit(t) ==
  waiting' = IF down \in {"closed", "drained"} THEN waiting
                                               ELSE [waiting EXCEPT ![TypeOf(t)] = Append(@, t)]

\* Mutant: one task more than the cap allows.
StartAboveTheCap(ty) ==
  /\ waiting[ty] # <<>> /\ Cardinality(running) <= cap
  /\ running' = running \cup {Head(waiting[ty])}
  /\ waiting' = [waiting EXCEPT ![ty] = Tail(@)]
  /\ UNCHANGED <<cap, job, asks, down, drops>>

\* Also while the pool is closed: schedule() tests that before it has the mutex.
Start(ty) ==
  /\ waiting[ty] # <<>> /\ Cardinality(running) < cap
  /\ running' = running \cup {Head(waiting[ty])}
  /\ waiting' = [waiting EXCEPT ![ty] = Tail(@)]
  /\ UNCHANGED <<cap, job, asks, down, drops>>

DropWaiting == waiting' = [ty \in Types |-> <<>>]

\* The pool is made anew when nothing runs: what waits is dropped, its job
\* stays RUNNING.
RecreatePool ==
  /\ down = "up" /\ running = {} /\ drops < MaxDrops
  /\ drops' = drops + 1
  /\ DropWaiting
  /\ UNCHANGED <<running, cap, job, asks, down>>

-----------------------------------------------------------------------------
(* A job: its thread, its runs, its failures.                               *)

\* Mutant: a job that is RUNNING is not due.
DueUnlessRunning(j) == state[j] # "RUNNING"
\* The interval elapses, whatever the state.
Due(j) == TRUE

Wake(j) ==
  /\ worker[j] = "sleep"
  /\ running_ /\ Due(j) /\ RunLeft(j)
  /\ worker' = [worker EXCEPT ![j] = "execute"]
  /\ UNCHANGED <<pool, state, failures, asks, down, drops>>

WorkerExit(j) ==
  /\ worker[j] = "sleep"
  /\ ~ running_
  /\ worker' = [worker EXCEPT ![j] = "ended"]
  /\ UNCHANGED <<pool, state, failures, asks, down, drops>>

\* executeJob: RUNNING from the submission on.
ExecuteJob(j) ==
  /\ state' = [state EXCEPT ![j] = "RUNNING"]
  /\ Submit(CHOOSE t \in Free(j) : TRUE)

\* Mutant: the thread of the job takes jobsMutex_ as triggerJob does.
DispatchLocked(j) ==
  /\ worker[j] = "execute" /\ MutexFree
  /\ ExecuteJob(j)
  /\ worker' = [worker EXCEPT ![j] = "sleep"]
  /\ UNCHANGED <<running, cap, failures, asks, down, drops>>

Dispatch(j) ==
  /\ worker[j] = "execute"
  /\ ExecuteJob(j)
  /\ worker' = [worker EXCEPT ![j] = "sleep"]
  /\ UNCHANGED <<running, cap, failures, asks, down, drops>>

\* Mutant: one failure more is allowed.
TooOftenPlusOne(n) == n > MaxFailures
TooOften(n) == n >= MaxFailures

\* handleJobFailure; the callback ends the wait of main().
JobFailed(j) ==
  /\ state' = [state EXCEPT ![j] = "IDLE"]
  /\ failures' = [failures EXCEPT ![j] = IF @ < MaxFailures THEN @ + 1 ELSE @]
  /\ down' = IF TooOften(failures'[j]) /\ down = "up" THEN "requested" ELSE down

JobDone(j) ==
  /\ state' = [state EXCEPT ![j] = "IDLE"]
  /\ failures' = [failures EXCEPT ![j] = 0]
  /\ UNCHANGED down

\* The function of a job has returned or thrown, and its thread is free again.
End(t) ==
  /\ t \in running
  /\ MutexFree
  /\ running' = running \ {t}
  /\ IF Registered THEN JobDone(JobOf[t]) \/ JobFailed(JobOf[t])
                   ELSE UNCHANGED <<state, failures, down>>
  /\ UNCHANGED <<waiting, cap, worker, asks, drops>>

-----------------------------------------------------------------------------
(* Triggers.                                                                *)

MayTrigger(j) == Registered /\ state[j] = "IDLE"

TriggerJob(j) ==
  /\ MutexFree /\ MayTrigger(j) /\ RunLeft(j)
  /\ ExecuteJob(j)

\* The web API.
TriggerJobHandler(j) ==
  /\ TriggerJob(j)
  /\ UNCHANGED <<running, cap, failures, worker, asks, down, drops>>

\* A location is registered: its task is submitted.
PathRegistered(i) ==
  /\ i \notin running /\ ~ Queued(i) /\ down \notin {"closed", "drained"}
  /\ Submit(i)
  /\ UNCHANGED <<running, cap, job, asks, down, drops>>

GoOn(i, next) == asks' = [asks EXCEPT ![i] = next] /\ UNCHANGED running
Return(i) == running' = running \ {i} /\ asks' = [asks EXCEPT ![i] = "begin"]

\* scheduler->isRunning() is looked at before either job is triggered.
CheckRunning(i) ==
  /\ asks[i] \in {"begin", "check"}
  /\ IF running_ THEN GoOn(i, IF asks[i] = "begin" THEN "scan" ELSE "media") ELSE Return(i)
  /\ UNCHANGED <<waiting, state>>

AskScan(i) ==
  /\ asks[i] = "scan" /\ MutexFree
  /\ \/ TriggerJob(Scan) /\ GoOn(i, "poll")
     \/ ~ MayTrigger(Scan) /\ Return(i) /\ UNCHANGED <<waiting, state>>

\* Mutant: the task waits for the scan however long it takes.
NoTimeout(i) == FALSE
Timeout(i) == Return(i)

\* isJobRunning and isRunning, every 100 ms.
Poll(i) ==
  /\ asks[i] = "poll" /\ MutexFree
  /\ IF running_ /\ Registered /\ state[Scan] = "RUNNING" THEN Timeout(i) ELSE GoOn(i, "check")
  /\ UNCHANGED <<waiting, state>>

AskMedia(i) ==
  /\ asks[i] = "media" /\ MutexFree
  /\ \/ TriggerJob(Media)
     \/ ~ MayTrigger(Media) /\ UNCHANGED <<waiting, state>>
  /\ Return(i)

ImmediateTask(i) ==
  /\ i \in running
  /\ CheckRunning(i) \/ AskScan(i) \/ Poll(i) \/ AskMedia(i)
  /\ UNCHANGED <<cap, failures, worker, down, drops>>

-----------------------------------------------------------------------------
(* The shutdown: SchedulerService::stop, ThreadPoolManager::shutdownAndDrain. *)

RequestShutdown ==
  /\ down = "up" /\ down' = "requested"
  /\ UNCHANGED <<pool, job, asks, drops>>

SignalStop ==
  /\ down = "requested" /\ down' = "signalled"
  /\ UNCHANGED <<pool, job, asks, drops>>

LockToJoin ==
  /\ down = "signalled" /\ down' = "joining"
  /\ UNCHANGED <<pool, job, asks, drops>>

ClearJobs ==
  /\ down = "joining" /\ \A j \in Jobs : worker[j] = "ended"
  /\ down' = "stopped"
  /\ UNCHANGED <<pool, job, asks, drops>>

ClosePool ==
  /\ down = "stopped" /\ down' = "closed"
  /\ UNCHANGED <<pool, job, asks, drops>>

Drain ==
  /\ down = "closed" /\ down' = "drained"
  /\ DropWaiting
  /\ UNCHANGED <<running, cap, job, asks, drops>>

Shutdown == SignalStop \/ LockToJoin \/ ClearJobs \/ ClosePool \/ Drain

Init ==
  /\ waiting = [ty \in Types |-> <<>>] /\ running = {} /\ cap \in Caps
  /\ state = [j \in Jobs |-> "IDLE"] /\ failures = [j \in Jobs |-> 0]
  /\ worker = [j \in Jobs |-> "sleep"] /\ asks = [i \in Asks |-> "begin"]
  /\ down = "up" /\ drops = 0

Next ==
  \/ \E ty \in Types : Start(ty)
  \/ \E t \in Runs : End(t)
  \/ \E j \in Jobs : \/ Wake(j) \/ WorkerExit(j) \/ Dispatch(j) \/ TriggerJobHandler(j)
  \/ \E i \in Asks : PathRegistered(i) \/ ImmediateTask(i)
  \/ RecreatePool \/ RequestShutdown \/ Shutdown

\* Threads run, functions return, intervals elapse.  Strong fairness for the
\* threads of the pool (a type whose tasks are submitted again and again is
\* served: OnlyQuietStarves of ThreadPoolManager), and for a task that needs
\* jobsMutex_ (and, by the bound, a run that is left).
Fairness ==
  /\ \A ty \in Types : SF_vars(Start(ty))
  /\ \A t \in Runs : WF_vars(End(t))
  /\ \A j \in Jobs : WF_vars(Wake(j)) /\ WF_vars(WorkerExit(j) \/ Dispatch(j))
  /\ \A i \in Asks : SF_vars(ImmediateTask(i))
  /\ WF_vars(Shutdown)

Spec == Init /\ [][Next]_vars /\ Fairness

-----------------------------------------------------------------------------
\* The types; a task waits once or runs, and no more run than the cap allows.
TypeOK ==
  /\ \A ty \in Types : /\ ToSet(waiting[ty]) \subseteq {t \in Tasks \ running : TypeOf(t) = ty}
                       /\ IsInjective(waiting[ty])
  /\ running \subseteq Tasks /\ Cardinality(running) <= cap
  /\ state \in [Jobs -> {"IDLE", "RUNNING"}] /\ failures \in [Jobs -> 0 .. MaxFailures]
  /\ worker \in [Jobs -> {"sleep", "execute", "ended"}]
  /\ asks \in [Asks -> {"begin", "scan", "poll", "check", "media"}]

\* A job runs again and again until the server stops, also after runs of it
\* were dropped and left it RUNNING.
JobsKeepRunning ==
  \A j \in Jobs : []<><<\E t \in Runs : JobOf[t] = j /\ End(t)>>_vars \/ <>(down # "up")

\* The task of a registered location gives its thread back, though it may be
\* the only thread, and the scan that it waits for then cannot start.
ThreadsComeBack ==
  \A i \in Asks : i \in running ~> i \notin running

\* stop() joins the threads of the jobs under the mutex that triggers and the
\* ends of runs need, and the shutdown still gets to its end.
ShutdownEnds == down = "requested" ~> down = "drained"

\* Once stop() has returned nothing submits a run: no thread of a job, no
\* trigger, no task of a location that had looked at isRunning() before.
NothingAfterStop ==
  [][ (down \in {"stopped", "closed", "drained"})
        => \A t \in Runs : Queued(t)' => Queued(t) ]_vars

\* A job that never succeeds stops the server, whatever is dropped on the way.
FailuresStopTheServer ==
  \A j \in Jobs : []<>(failures[j] = 0) \/ <>(down # "up")

=============================================================================
