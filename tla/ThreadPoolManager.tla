------------------------- MODULE ThreadPoolManager -------------------------
(***************************************************************************)
(* ThreadPoolManager (src/src/orchestration/thread_pool_manager.cpp): one   *)
(* bounded Poco thread pool shared by several task types.  A task is        *)
(* queued under its type; schedule() walks the registered types round       *)
(* robin and starts at most one task per type and call, within a global     *)
(* cap (effective_max_), a per-type allowance (a share of that cap) and     *)
(* the number of idle pool threads.                                        *)
(*                                                                         *)
(* Every access to the maps is under mutex_, so each critical section is    *)
(* one action.  What is NOT under the mutex is kept apart: the test of      *)
(* accepting_ in submit(), the test of draining_ in schedule(), and the     *)
(* moment a pool thread becomes idle again after run() has returned.        *)
(*                                                                         *)
(* A task stands for one std::function and the pool thread that runs it; a  *)
(* Recurring task is submitted again and again, like a scheduler job.       *)
(***************************************************************************)
EXTENDS Integers, FiniteSets, Sequences, Functions

CONSTANTS
  Types,          \* task types ("image_processor", "fileScan", ...)
  Tasks,          \* the tasks that are ever submitted
  TypeOf,         \* the type each task is submitted under
  Recurring,      \* tasks that are submitted again after they ended
  ConfigThreads,  \* threads that may run onConfigChange
  PoolSizes,      \* values of tpm.pool.max (0 is accepted when given as "0")
  ShareUnit,      \* a share of 1.0, so that shares are fractions s/ShareUnit
  Shares          \* values of tpm.types.<type>.share, in ShareUnits

ASSUME TasksAssumption ==
  /\ IsFiniteSet(Types)
  /\ IsFiniteSet(Tasks)
  /\ TypeOf \in [Tasks -> Types]
  /\ Recurring \subseteq Tasks

ASSUME SizesAssumption ==
  /\ PoolSizes \subseteq Nat
  /\ ShareUnit \in Nat \ {0}
  /\ Shares \subseteq Int

VARIABLES
  effective_max_,      \* the cap schedule() enforces
  capacity,            \* pool_->capacity()
  busy,                \* tasks whose thread is not idle in the current pool_
  type_to_share_,
  type_to_running_,
  type_to_queue_,
  round_robin_types_,
  rr_index_,
  running_total_,
  active_runnables_,
  submit,              \* where the thread that submits the task is
  worker,              \* where the pool thread that runs the task is
  config,              \* where each configuration thread is
  shutdown,            \* progress of shutdownAndDrain, and with it the two flags
  fate                 \* history: what became of each task

counters == <<type_to_running_, running_total_, active_runnables_>>
queues   == <<type_to_queue_, round_robin_types_>>
limits   == <<effective_max_, capacity, type_to_share_>>
vars == <<counters, queues, limits, shutdown, rr_index_, busy, submit, worker,
          config, fate>>

\* shutdownAndDrain stores the one flag and then the other; no step can tell
\* that from storing both at once, because each test reads one of them and a
\* rejected submission changes nothing.
accepting_ == shutdown = "up"
draining_  == shutdown # "up"

-----------------------------------------------------------------------------
(* schedule().                                                             *)

\* A thread that enters schedule() tests draining_ first, before it takes the
\* mutex.  It enters with the step before (pc "call", or stop when it sees the
\* flag).  From "call" it runs the locked part, having read the flag at once,
\* or it skips it, having read the flag late (draining_ is never reset).
Calling(stop) == IF draining_ THEN stop ELSE "call"

Queued(ty)  == { type_to_queue_[ty][i] : i \in 1 .. Len(type_to_queue_[ty]) }
AllQueued   == UNION { Queued(ty) : ty \in Types }
Registered  == { round_robin_types_[i] : i \in 1 .. Len(round_robin_types_) }

\* Mutant: counts the tasks, not the threads that have not come back yet.
AvailableByTasks == capacity - running_total_

Available == capacity - Cardinality(busy)

Allowance(ty) ==
  LET allow == (type_to_share_[ty] * effective_max_ + ShareUnit - 1) \div ShareUnit
  IN  IF allow = 0 THEN 1 ELSE allow

\* Mutant: every call starts with the first registered type.
TurnFromTheFirst(ty) ==
  (CHOOSE p \in 1 .. Len(round_robin_types_) : round_robin_types_[p] = ty) - 1

\* How many types the loop visits before it visits ty: it starts at the
\* position rr_index_ % n of round_robin_types_ (counted from 0) and wraps.
Turn(ty) ==
  LET n     == Len(round_robin_types_)
      start == rr_index_ % n
      pos   == CHOOSE p \in 0 .. n - 1 : round_robin_types_[p + 1] = ty
  IN  IF pos >= start THEN pos - start ELSE pos - start + n

Eligible ==
  { ty \in Registered : /\ type_to_queue_[ty] # <<>>
                        /\ type_to_running_[ty] < Allowance(ty) }

Before(ty) == { u \in Eligible : Turn(u) < Turn(ty) }

\* Mutant: the cap is tested with <= instead of <.
StartingAtTheCap ==
  { ty \in Eligible : /\ Cardinality(Before(ty)) <= effective_max_ - running_total_
                      /\ Cardinality(Before(ty)) < Available }

\* The types of which the loop starts a task.  It visits each type once, and
\* what it does for one type changes only the two numbers that the others see:
\* running_total_ and the idle threads, by one for every task started.  So it
\* starts the eligible types in turn, while both numbers allow one more.
Starting ==
  { ty \in Eligible : /\ Cardinality(Before(ty)) < effective_max_ - running_total_
                      /\ Cardinality(Before(ty)) < Available }

\* Mutant: the task started is not the one taken from the queue.
StartedFromTheEnd ==
  { type_to_queue_[ty][Len(type_to_queue_[ty])] : ty \in Starting }

Started == { Head(type_to_queue_[ty]) : ty \in Starting }

\* rr_index_ after the loop has started tasks of these types.
NextIndex(types) ==
  IF types = {}
    THEN {rr_index_}
    ELSE { (rr_index_ + Turn(last) + 1) % Len(round_robin_types_) :
             last \in { ty \in types : \A u \in types : Turn(u) <= Turn(ty) } }

\* The part of schedule() under the mutex; w is worker after the caller's step.
ScheduleLocked(w) ==
  /\ type_to_queue_' = [ty \in Types |-> IF ty \in Starting
                                           THEN Tail(type_to_queue_[ty])
                                           ELSE type_to_queue_[ty]]
  /\ type_to_running_' = [ty \in Types |-> IF ty \in Starting
                                             THEN type_to_running_[ty] + 1
                                             ELSE type_to_running_[ty]]
  /\ running_total_' = running_total_ + Cardinality(Starting)
  /\ active_runnables_' = active_runnables_ \cup Started
  /\ busy' = busy \cup Started
  /\ worker' = [t \in Tasks |-> IF t \in Started THEN "running" ELSE w[t]]
  /\ rr_index_' \in NextIndex(Starting)

(* The same loop, turn by turn: ScheduleIsTheLoop says that the above is what it *)
(* computes.                                                                  *)

TypeAt(i) == round_robin_types_[((rr_index_ + i) % Len(round_robin_types_)) + 1]

\* The i-th turn, with what the turns before it leave: whether the loop goes on,
\* what it reads of running_total_ and of the pool, and what it has changed.  Queue
\* and count of a type are as at the start: no type is registered twice
\* (QueuedTypesAreRegistered), so the loop comes to each once.
LoopTurn(i, at) ==
  IF at.pc = "end" \/ at.total >= effective_max_
       \/ (TypeAt(i) \in Eligible /\ at.available <= 0)
    THEN [at EXCEPT !.pc = "end"]
    ELSE IF TypeAt(i) \notin Eligible
           THEN at
           ELSE [pc        |-> "next",
                 total     |-> at.total + 1,
                 available |-> at.available - 1,
                 started   |-> at.started \cup {TypeAt(i)},
                 index     |-> (rr_index_ + i + 1) % Len(round_robin_types_)]

Loop[i \in 0 .. Len(round_robin_types_)] ==
  IF i = 0
    THEN [pc |-> "next", total |-> running_total_, available |-> Available,
          started |-> {}, index |-> rr_index_]
    ELSE LoopTurn(i - 1, Loop[i - 1])

-----------------------------------------------------------------------------
(* submit(): the test of accepting_, the enqueue, the call of schedule().  *)

MaySubmit(t) ==
  /\ submit[t] = "none"
  /\ worker[t] = "none"
  /\ \/ fate[t] = "new"
     \/ t \in Recurring /\ fate[t] # "pending"

SubmitAccepted(t) ==
  /\ MaySubmit(t)
  /\ accepting_
  /\ submit' = [submit EXCEPT ![t] = "accepted"]
  /\ fate' = [fate EXCEPT ![t] = "pending"]
  /\ UNCHANGED <<counters, queues, limits, shutdown, rr_index_, busy, worker, config>>

SubmitRejected(t) ==
  /\ MaySubmit(t)
  /\ ~ accepting_
  /\ fate' = [fate EXCEPT ![t] = "rejected"]
  /\ UNCHANGED <<counters, queues, limits, shutdown, rr_index_, busy, submit, worker, config>>

SubmitEnqueue(t) ==
  /\ submit[t] = "accepted"
  /\ submit' = [submit EXCEPT ![t] = Calling("none")]
  /\ type_to_queue_' = [type_to_queue_ EXCEPT ![TypeOf[t]] = Append(@, t)]
  /\ round_robin_types_' = IF TypeOf[t] \in Registered
                             THEN round_robin_types_
                             ELSE Append(round_robin_types_, TypeOf[t])
  /\ UNCHANGED <<counters, limits, shutdown, rr_index_, busy, worker, config, fate>>

SubmitSkips(t) ==
  /\ submit[t] = "call"
  /\ draining_
  /\ submit' = [submit EXCEPT ![t] = "none"]
  /\ UNCHANGED <<counters, queues, limits, shutdown, rr_index_, busy, worker, config, fate>>

SubmitSchedule(t) ==
  /\ submit[t] = "call"
  /\ submit' = [submit EXCEPT ![t] = "none"]
  /\ ScheduleLocked(worker)
  /\ UNCHANGED <<round_robin_types_, limits, shutdown, config, fate>>

-----------------------------------------------------------------------------
(* The pool thread: FunctionRunnable::run() and onTaskFinished().           *)

\* Mutant: the counts are kept.
GiveNothingBack(count) == count

GiveBack(count) == IF count > 0 THEN count - 1 ELSE count

\* The counts are given back while the thread is still inside run(), so the
\* pool does not yet count it as idle when it calls schedule().
TaskFinish(t) ==
  /\ worker[t] = "running"
  /\ worker' = [worker EXCEPT ![t] = Calling("winding")]
  /\ running_total_' = GiveBack(running_total_)
  /\ type_to_running_' = [type_to_running_ EXCEPT ![TypeOf[t]] = GiveBack(@)]
  /\ active_runnables_' = active_runnables_ \ {t}
  /\ fate' = [fate EXCEPT ![t] = "done"]
  /\ UNCHANGED <<queues, limits, shutdown, rr_index_, busy, submit, config>>

FinishSkips(t) ==
  /\ worker[t] = "call"
  /\ draining_
  /\ worker' = [worker EXCEPT ![t] = "winding"]
  /\ UNCHANGED <<counters, queues, limits, shutdown, rr_index_, busy, submit, config, fate>>

FinishSchedule(t) ==
  /\ worker[t] = "call"
  /\ ScheduleLocked([worker EXCEPT ![t] = "winding"])
  /\ UNCHANGED <<round_robin_types_, limits, shutdown, submit, config, fate>>

\* run() has returned: the Poco thread is idle again.
ThreadIdle(t) ==
  /\ worker[t] = "winding"
  /\ worker' = [worker EXCEPT ![t] = "none"]
  /\ busy' = busy \ {t}
  /\ UNCHANGED <<counters, queues, limits, shutdown, rr_index_, submit, config, fate>>

-----------------------------------------------------------------------------
(* onConfigChange().                                                       *)

\* Mutant: a negative share is taken as it is.
ShareUnlessZero(s) == IF s = 0 THEN ShareUnit ELSE s

\* A share that is not positive stands for all of the cap.
SetShare(s) == IF s <= 0 THEN ShareUnit ELSE s

\* A larger cap adds capacity at once, a smaller one only lowers the cap.
ConfigMax(c, n) ==
  /\ config[c] = "none"
  /\ config' = [config EXCEPT ![c] = Calling("none")]
  /\ effective_max_' = n
  /\ capacity' = IF capacity < n THEN n ELSE capacity
  /\ UNCHANGED <<counters, queues, type_to_share_, shutdown, rr_index_, busy, submit, worker, fate>>

ConfigShare(c, ty, s) ==
  /\ config[c] = "none"
  /\ config' = [config EXCEPT ![c] = Calling("none")]
  /\ type_to_share_' = [type_to_share_ EXCEPT ![ty] = SetShare(s)]
  /\ UNCHANGED <<counters, queues, effective_max_, capacity, shutdown, rr_index_, busy, submit,
                 worker, fate>>

ConfigSkips(c) ==
  /\ config[c] = "call"
  /\ draining_
  /\ config' = [config EXCEPT ![c] = "none"]
  /\ UNCHANGED <<counters, queues, limits, shutdown, rr_index_, busy, submit, worker, fate>>

ConfigSchedule(c) ==
  /\ config[c] = "call"
  /\ config' = [config EXCEPT ![c] = "none"]
  /\ ScheduleLocked(worker)
  /\ UNCHANGED <<round_robin_types_, limits, shutdown, submit, fate>>

\* Mutant: the queues survive.
ClearTypes ==
  /\ UNCHANGED <<type_to_queue_, fate>>
  /\ round_robin_types_' = <<>>

\* Every queued task is forgotten, and so are the registered types.
ClearQueues ==
  /\ type_to_queue_' = [ty \in Types |-> <<>>]
  /\ round_robin_types_' = <<>>
  /\ fate' = [t \in Tasks |-> IF t \in AllQueued THEN "dropped" ELSE fate[t]]

Idle == running_total_ = 0 /\ active_runnables_ = {}

\* A new idle timeout or stack size: recreateThreadPool() waits until nothing
\* runs.  Poco refuses a pool of capacity 0: the exception leaves pool_ as it
\* was, after the queues were cleared.
ConfigRecreate(c) ==
  /\ config[c] = "none"
  /\ config' = [config EXCEPT ![c] = "recreate"]
  /\ UNCHANGED <<counters, queues, limits, shutdown, rr_index_, busy, submit, worker, fate>>

RecreateThreadPool(c) ==
  /\ config[c] = "recreate"
  /\ Idle
  /\ config' = [config EXCEPT ![c] = "none"]
  /\ ClearQueues
  /\ IF effective_max_ >= 1
       THEN capacity' = effective_max_ /\ busy' = {}
       ELSE UNCHANGED <<capacity, busy>>
  /\ UNCHANGED <<counters, effective_max_, type_to_share_, shutdown, rr_index_, submit, worker>>

-----------------------------------------------------------------------------
(* shutdownAndDrain(killTimeout).                                          *)

ShutdownBegin ==
  /\ shutdown = "up"
  /\ shutdown' = "draining"
  /\ UNCHANGED <<counters, queues, limits, rr_index_, busy, submit, worker, config, fate>>

\* The wait ends when nothing runs ("drained") or when the timeout expires.
ShutdownEnd ==
  /\ shutdown = "draining"
  /\ shutdown' = IF Idle THEN "drained" ELSE "timedout"
  /\ ClearQueues
  /\ UNCHANGED <<counters, limits, rr_index_, busy, submit, worker, config>>

-----------------------------------------------------------------------------
Init ==
  /\ effective_max_ \in PoolSizes \ {0}
  /\ capacity = effective_max_
  /\ busy = {}
  /\ type_to_share_ = [ty \in Types |-> ShareUnit]
  /\ type_to_running_ = [ty \in Types |-> 0]
  /\ type_to_queue_ = [ty \in Types |-> <<>>]
  /\ round_robin_types_ = <<>>
  /\ rr_index_ = 0
  /\ running_total_ = 0
  /\ active_runnables_ = {}
  /\ submit = [t \in Tasks |-> "none"]
  /\ worker = [t \in Tasks |-> "none"]
  /\ config = [c \in ConfigThreads |-> "none"]
  /\ shutdown = "up"
  /\ fate = [t \in Tasks |-> "new"]

TaskStep(t) ==
  \/ SubmitAccepted(t) \/ SubmitRejected(t) \/ SubmitEnqueue(t)
  \/ SubmitSkips(t) \/ SubmitSchedule(t)
  \/ TaskFinish(t) \/ FinishSkips(t) \/ FinishSchedule(t) \/ ThreadIdle(t)

ConfigStep(c) ==
  \/ \E n \in PoolSizes : ConfigMax(c, n)
  \/ \E ty \in Types, s \in Shares : ConfigShare(c, ty, s)
  \/ ConfigSkips(c) \/ ConfigSchedule(c)
  \/ ConfigRecreate(c) \/ RecreateThreadPool(c)

ShutdownStep == ShutdownBegin \/ ShutdownEnd

Next ==
  \/ \E t \in Tasks : TaskStep(t)
  \/ \E c \in ConfigThreads : ConfigStep(c)
  \/ ShutdownStep

Spec == Init /\ [][Next]_vars

\* Threads keep running: a submission that was accepted, a call of schedule()
\* and a pool thread take their next step, tasks end, and a recreation whose
\* wait is over goes on.  Nothing makes anyone submit, change the configuration
\* or shut down.
Fairness ==
  /\ \A t \in Tasks :
       /\ WF_vars(SubmitEnqueue(t)) /\ WF_vars(SubmitSchedule(t))
       /\ WF_vars(TaskFinish(t)) /\ WF_vars(FinishSchedule(t))
       /\ WF_vars(ThreadIdle(t))
  /\ \A c \in ConfigThreads : WF_vars(ConfigSchedule(c)) /\ WF_vars(RecreateThreadPool(c))

FairSpec == Spec /\ Fairness

-----------------------------------------------------------------------------
(* Properties.                                                             *)

\* Every variable keeps its type; no counter of the manager goes negative.
TypeOK ==
  /\ effective_max_ \in Nat
  /\ capacity \in Nat
  /\ busy \subseteq Tasks
  /\ type_to_share_ \in [Types -> Nat]
  /\ type_to_running_ \in [Types -> Nat]
  /\ type_to_queue_ \in [Types -> Seq(Tasks)]
  /\ round_robin_types_ \in Seq(Types)
  /\ rr_index_ \in Nat
  /\ running_total_ \in Nat
  /\ active_runnables_ \subseteq Tasks
  /\ submit \in [Tasks -> {"none", "accepted", "call"}]
  /\ worker \in [Tasks -> {"none", "running", "call", "winding"}]
  /\ config \in [ConfigThreads -> {"none", "call", "recreate"}]
  /\ shutdown \in {"up", "draining", "drained", "timedout"}
  /\ fate \in [Tasks -> {"new", "pending", "done", "dropped", "rejected"}]

\* The three places that say what runs agree: running_total_, the counts per
\* type and active_runnables_ (schedule() reserves before the pool starts the
\* task, onTaskFinished() gives back).
RunningCountsAgree ==
  /\ active_runnables_ = { t \in Tasks : worker[t] = "running" }
  /\ running_total_ = Cardinality(active_runnables_)
  /\ \A ty \in Types :
       type_to_running_[ty] = Cardinality({ t \in active_runnables_ : TypeOf[t] = ty })

\* An accepted task that has not ended and was not dropped by a clear is in
\* exactly one place: with its submitter, once in the queue of its own type,
\* or running.
PendingTasksAreSomewhere ==
  LET accepted == { t \in Tasks : submit[t] = "accepted" }
  IN  /\ { t \in Tasks : fate[t] = "pending" } = accepted \cup AllQueued \cup active_runnables_
      /\ accepted \cap AllQueued = {}
      /\ accepted \cap active_runnables_ = {}
      /\ AllQueued \cap active_runnables_ = {}
      /\ \A ty \in Types :
           /\ \A t \in Queued(ty) : TypeOf[t] = ty
           /\ IsInjective(type_to_queue_[ty])

\* schedule() only looks at registered types, so a type with queued tasks must
\* be registered (once): shutdown and recreation clear both together.
QueuedTypesAreRegistered ==
  /\ \A ty \in Types : type_to_queue_[ty] # <<>> => ty \in Registered
  /\ IsInjective(round_robin_types_)

\* pool_->start() always finds a thread: what runs, and the threads that have
\* not yet come back from run(), never exceed the capacity of the pool.
PoolNeverOverflows ==
  /\ Cardinality(busy) <= capacity
  /\ active_runnables_ \subseteq busy

\* The tasks that schedule() starts at once, in the specification, are those that
\* its loop starts one after the other, while the cap and the pool allow one more;
\* and rr_index_ is left where the loop leaves it.
ScheduleIsTheLoop ==
  LET end == Loop[Len(round_robin_types_)]
  IN  end.started = Starting /\ end.index \in NextIndex(Starting)

\* The cap is lowered gradually: more tasks run than it allows only after it
\* was lowered, and as long as that is so the number of running tasks falls.
NoStartAboveTheCap ==
  [][running_total_' > running_total_ => running_total_' <= effective_max_']_vars

\* Nothing is on its way into schedule() and every thread is idle.
Quiet ==
  /\ \A t \in Tasks : submit[t] = "none" /\ worker[t] = "none"
  /\ \A c \in ConfigThreads : config[c] = "none"

\* No type and no task is starved: a task can only be pending for ever if from
\* some moment on nobody calls schedule() any more, that is when the last call
\* came from a thread that the pool did not yet count as idle.
OnlyQuietStarves ==
  \A t \in Tasks : <>[](fate[t] = "pending") => <>[]Quiet

\* The manager as those who submit tasks see it.
JQ == INSTANCE JobQueue WITH
        accepted <- { t \in Tasks : submit[t] = "accepted" },
        waiting  <- type_to_queue_,
        running  <- active_runnables_,
        outcome  <- fate,
        cap      <- effective_max_,
        open     <- accepting_

\* Every step of the manager is a step of the queue it promises, or invisible:
\* whatever the order of submitters, pool threads, configuration and shutdown,
\* tasks of a type start in the order of their submission, each once.
ImplementsJobQueue == JQ!Spec

=============================================================================
