----------------------- MODULE SchedulerService_proofs -----------------------
(* SchedulerService for any jobs, runs, types, caps and tasks of locations: *)
(* the types, with the bound on what runs, and that nothing submits a run   *)
(* once stop() has returned.                                               *)
EXTENDS SchedulerService, FiniteSetTheorems, SequenceTheorems, TLAPS

\* The pool: a task waits at most once, in the queue of its type, and does not run.
PoolInv ==
  /\ waiting \in [Types -> Seq(Tasks)]
  /\ \A ty \in Types : /\ ToSet(waiting[ty]) \subseteq {t \in Tasks \ running : TypeOf(t) = ty}
                       /\ IsInjective(waiting[ty])
  /\ running \subseteq Tasks /\ IsFiniteSet(running)
  /\ cap \in Caps /\ Cardinality(running) <= cap

\* The thread of a job that is about to submit finds a run to submit.
RunForTheThread == \A j \in Jobs : worker[j] = "execute" => Free(j) # {}

\* stop() returns only after the threads of all jobs have ended.
Stopped == down \in {"stopped", "closed", "drained"}
ThreadsHaveEnded == Stopped => \A j \in Jobs : worker[j] = "ended"

JobTypes ==
  /\ state \in [Jobs -> {"IDLE", "RUNNING"}] /\ failures \in [Jobs -> 0 .. MaxFailures]
  /\ worker \in [Jobs -> {"sleep", "execute", "ended"}]
  /\ asks \in [Asks -> {"begin", "scan", "poll", "check", "media"}]

Inv == PoolInv /\ JobTypes /\ RunForTheThread /\ ThreadsHaveEnded

-----------------------------------------------------------------------------
(* The queues.                                                             *)

LEMMA TypesOfTasks == \A t \in Tasks : TypeOf(t) \in Types
BY SchedulerConstants DEF Tasks, TypeOf

\* A task is queued if it is an element of the queue of its type.
LEMMA QueuedIsInTheQueue ==
  ASSUME PoolInv, NEW t \in Tasks
  PROVE  Queued(t) <=> \E i \in 1 .. Len(waiting[TypeOf(t)]) : waiting[TypeOf(t)][i] = t
BY DEF Queued, Contains

\* What the queues hold, element by element.
LEMMA QueueElements ==
  ASSUME PoolInv, NEW ty \in Types
  PROVE  /\ waiting[ty] \in Seq(Tasks) /\ Len(waiting[ty]) \in Nat
         /\ DOMAIN waiting[ty] = 1 .. Len(waiting[ty])
         /\ \A i \in 1 .. Len(waiting[ty]) :
              waiting[ty][i] \in Tasks \ running /\ TypeOf(waiting[ty][i]) = ty
         /\ \A i, k \in 1 .. Len(waiting[ty]) : waiting[ty][i] = waiting[ty][k] => i = k
<1>1. waiting[ty] \in Seq(Tasks)
  BY DEF PoolInv
<1>2. Len(waiting[ty]) \in Nat /\ DOMAIN waiting[ty] = 1 .. Len(waiting[ty])
  BY <1>1, LenProperties
<1>3. QED
  BY <1>1, <1>2 DEF PoolInv, ToSet, IsInjective

\* The invariant of the pool from the elements of its queues.
LEMMA PoolFromElements ==
  ASSUME waiting' \in [Types -> Seq(Tasks)],
         \A ty \in Types : \A i \in 1 .. Len(waiting'[ty]) :
           waiting'[ty][i] \in Tasks \ running' /\ TypeOf(waiting'[ty][i]) = ty,
         \A ty \in Types : \A i, k \in 1 .. Len(waiting'[ty]) :
           waiting'[ty][i] = waiting'[ty][k] => i = k,
         running' \subseteq Tasks, IsFiniteSet(running'), cap' \in Caps, Cardinality(running') <= cap'
  PROVE  PoolInv'
<1>1. \A ty \in Types : DOMAIN waiting'[ty] = 1 .. Len(waiting'[ty])
  BY LenProperties
<1>2. \A ty \in Types : ToSet(waiting'[ty]) \subseteq { t \in Tasks \ running' : TypeOf(t) = ty }
  BY <1>1 DEF ToSet
<1>3. \A ty \in Types : IsInjective(waiting'[ty])
  BY <1>1 DEF IsInjective
<1>4. QED
  BY <1>2, <1>3 DEF PoolInv, TypeOf

\* Submission of a task that neither waits nor runs; others may return meanwhile.
LEMMA SubmitKeeps ==
  ASSUME PoolInv, NEW t \in Tasks, t \notin running, ~ Queued(t), Submit(t),
         running' \subseteq running, UNCHANGED cap
  PROVE  /\ PoolInv'
         /\ \A u \in Tasks : Queued(u)' => Queued(u) \/ u = t
<1> DEFINE ty == TypeOf(t)
<1>1. ty \in Types
  BY TypesOfTasks
<1>2. IsFiniteSet(running') /\ Cardinality(running') <= cap'
  <2>1. IsFiniteSet(running') /\ Cardinality(running') <= Cardinality(running)
    BY FS_Subset DEF PoolInv
  <2>2. Cardinality(running') \in Nat /\ Cardinality(running) \in Nat /\ cap \in Nat
    BY <2>1, FS_CardinalityType, SchedulerConstants DEF PoolInv
  <2>3. QED
    BY <2>1, <2>2 DEF PoolInv
<1>3. CASE waiting' = waiting
  <2>1. PoolInv'
    BY <1>2, <1>3, QueueElements, PoolFromElements DEF PoolInv
  <2>2. QED
    BY <1>3, <2>1 DEF Queued
<1>4. CASE waiting' = [waiting EXCEPT ![ty] = Append(waiting[ty], t)]
  <2>1. /\ Append(waiting[ty], t) \in Seq(Tasks)
        /\ Len(Append(waiting[ty], t)) = Len(waiting[ty]) + 1
        /\ \A i \in 1 .. Len(waiting[ty]) : Append(waiting[ty], t)[i] = waiting[ty][i]
        /\ Append(waiting[ty], t)[Len(waiting[ty]) + 1] = t
    BY <1>1, QueueElements, AppendProperties
  <2>2. /\ waiting' \in [Types -> Seq(Tasks)] /\ waiting'[ty] = Append(waiting[ty], t)
        /\ \A tz \in Types : tz # ty => waiting'[tz] = waiting[tz]
    BY <1>1, <1>4, <2>1 DEF PoolInv
  <2>3. \A i \in 1 .. Len(waiting'[ty]) :
          \/ i \in 1 .. Len(waiting[ty]) /\ waiting'[ty][i] = waiting[ty][i]
          \/ i = Len(waiting[ty]) + 1 /\ waiting'[ty][i] = t
    BY <1>1, <2>1, <2>2, QueueElements
  <2>4. \A i \in 1 .. Len(waiting[ty]) : waiting[ty][i] # t
    BY QueuedIsInTheQueue
  <2>5. ASSUME NEW tz \in Types, NEW i \in 1 .. Len(waiting'[tz])
        PROVE  waiting'[tz][i] \in Tasks \ running' /\ TypeOf(waiting'[tz][i]) = tz
    <3>1. CASE tz = ty
      BY <1>1, <2>3, <3>1, QueueElements
    <3>2. CASE tz # ty
      BY <2>2, <3>2, QueueElements
    <3>3. QED
      BY <3>1, <3>2
  <2>6. ASSUME NEW tz \in Types, NEW i \in 1 .. Len(waiting'[tz]), NEW k \in 1 .. Len(waiting'[tz]),
               waiting'[tz][i] = waiting'[tz][k]
        PROVE  i = k
    <3>1. CASE tz = ty
      BY <1>1, <2>3, <2>4, <2>6, <3>1, QueueElements
    <3>2. CASE tz # ty
      BY <2>2, <2>6, <3>2, QueueElements
    <3>3. QED
      BY <3>1, <3>2
  <2>7. PoolInv'
    BY <1>2, <2>2, <2>5, <2>6, PoolFromElements DEF PoolInv
  <2>8. ASSUME NEW u \in Tasks, Queued(u)' PROVE Queued(u) \/ u = t
    <3>1. PICK i \in 1 .. Len(waiting'[TypeOf(u)]) : waiting'[TypeOf(u)][i] = u
      BY <2>8 DEF Queued, Contains, TypeOf
    <3>2. TypeOf(u) \in Types
      BY TypesOfTasks
    <3>3. QED
      BY <2>1, <2>2, <2>3, <3>1, <3>2, QueuedIsInTheQueue
  <2>9. QED
    BY <2>7, <2>8
<1>5. QED
  BY <1>3, <1>4 DEF Submit

\* The start of the head of a queue.
LEMMA StartKeeps ==
  ASSUME PoolInv, NEW ty \in Types, Start(ty)
  PROVE  /\ PoolInv'
         /\ Head(waiting[ty]) \in Tasks /\ Queued(Head(waiting[ty]))
         /\ \A u \in Tasks : Queued(u)' => Queued(u)
<1> DEFINE h == Head(waiting[ty])
           q == Tail(waiting[ty])
<1>1. /\ waiting[ty] \in Seq(Tasks) /\ waiting[ty] # <<>> /\ Len(waiting[ty]) \in Nat \ {0}
      /\ h = waiting[ty][1]
  BY QueueElements, EmptySeq DEF Start
<1>2. /\ h \in Tasks /\ q \in Seq(Tasks) /\ Len(q) = Len(waiting[ty]) - 1
      /\ \A i \in 1 .. Len(q) : q[i] = waiting[ty][i + 1]
  BY <1>1, HeadTailProperties
<1>3. h \notin running /\ TypeOf(h) = ty /\ Queued(h)
  BY <1>1, <1>2, QueueElements, QueuedIsInTheQueue
<1>4. \A i \in 1 .. Len(q) : i + 1 \in 1 .. Len(waiting[ty]) /\ q[i] # h
  BY <1>1, <1>2, QueueElements
<1>5. /\ waiting' \in [Types -> Seq(Tasks)] /\ waiting'[ty] = q
      /\ \A tz \in Types : tz # ty => waiting'[tz] = waiting[tz]
  BY <1>2 DEF Start, PoolInv
<1>6. running' = running \cup {h} /\ UNCHANGED cap /\ Cardinality(running) < cap
  BY DEF Start
<1> HIDE DEF h, q
<1>7. IsFiniteSet(running') /\ Cardinality(running') <= cap'
  <2>1. Cardinality(running') = Cardinality(running) + 1 /\ IsFiniteSet(running')
    BY <1>3, <1>6, FS_AddElement DEF PoolInv
  <2>2. Cardinality(running) \in Nat /\ cap \in Nat
    BY FS_CardinalityType, SchedulerConstants DEF PoolInv
  <2>3. QED
    BY <1>6, <2>1, <2>2
<1>8. ASSUME NEW tz \in Types, NEW i \in 1 .. Len(waiting'[tz])
      PROVE  waiting'[tz][i] \in Tasks \ running' /\ TypeOf(waiting'[tz][i]) = tz
  <2>1. CASE tz = ty
    BY <1>2, <1>4, <1>5, <1>6, <2>1, QueueElements
  <2>2. CASE tz # ty
    BY <1>3, <1>5, <1>6, <2>2, QueueElements
  <2>3. QED
    BY <2>1, <2>2
<1>9. ASSUME NEW tz \in Types, NEW i \in 1 .. Len(waiting'[tz]), NEW k \in 1 .. Len(waiting'[tz]),
             waiting'[tz][i] = waiting'[tz][k]
      PROVE  i = k
  <2>1. CASE tz = ty
    <3>1. i \in 1 .. Len(q) /\ k \in 1 .. Len(q) /\ q[i] = q[k]
      BY <1>5, <1>9, <2>1
    <3>2. i + 1 = k + 1
      BY <1>2, <1>4, <3>1, QueueElements
    <3>3. QED
      BY <1>2, <3>1, <3>2
  <2>2. CASE tz # ty
    BY <1>5, <1>9, <2>2, QueueElements
  <2>3. QED
    BY <2>1, <2>2
<1>10. PoolInv'
  <2>1. running' \subseteq Tasks /\ cap' \in Caps
    BY <1>2, <1>6 DEF PoolInv
  <2>2. QED
    BY <1>5, <1>7, <1>8, <1>9, <2>1, PoolFromElements
<1>11. ASSUME NEW u \in Tasks, Queued(u)' PROVE Queued(u)
  <2>1. PICK i \in 1 .. Len(waiting'[TypeOf(u)]) : waiting'[TypeOf(u)][i] = u
    BY <1>11 DEF Queued, Contains, TypeOf
  <2>2. TypeOf(u) \in Types
    BY TypesOfTasks
  <2>3. CASE TypeOf(u) = ty
    BY <1>2, <1>4, <1>5, <2>1, <2>3, QueuedIsInTheQueue
  <2>4. CASE TypeOf(u) # ty
    BY <1>5, <2>1, <2>2, <2>4, QueuedIsInTheQueue
  <2>5. QED
    BY <2>3, <2>4
<1>12. QED
  BY <1>2, <1>3, <1>10, <1>11 DEF h

\* Whoever drops what waits, or returns.
LEMMA DropKeeps ==
  ASSUME PoolInv, DropWaiting, UNCHANGED <<running, cap>>
  PROVE  PoolInv' /\ \A u \in Tasks : ~ Queued(u)'
<1>1. /\ waiting' \in [Types -> Seq(Tasks)]
      /\ \A ty \in Types : waiting'[ty] = <<>> /\ Len(waiting'[ty]) = 0
  BY EmptySeq DEF DropWaiting
<1>2. \A ty \in Types : \A i \in 1 .. Len(waiting'[ty]) : FALSE
  BY <1>1
<1>3. PoolInv'
  BY <1>1, <1>2, PoolFromElements DEF PoolInv
<1>4. QED
  BY <1>2, <1>3, TypesOfTasks DEF Queued, Contains, TypeOf

LEMMA ReturnKeeps ==
  ASSUME PoolInv, UNCHANGED <<waiting, cap>>, running' \subseteq running
  PROVE  PoolInv' /\ \A u \in Tasks : Queued(u)' <=> Queued(u)
<1>1. IsFiniteSet(running') /\ Cardinality(running') <= Cardinality(running)
  BY FS_Subset DEF PoolInv
<1>2. Cardinality(running') \in Nat /\ Cardinality(running) \in Nat /\ cap \in Nat
  BY <1>1, FS_CardinalityType, SchedulerConstants DEF PoolInv
<1>3. PoolInv'
  BY <1>1, <1>2, QueueElements, PoolFromElements DEF PoolInv
<1>4. QED
  BY <1>3 DEF Queued

-----------------------------------------------------------------------------
(* The runs that are left.                                                 *)

LEMMA RunIsLeft ==
  ASSUME NEW j \in Jobs, RunLeft(j), JobTypes
  PROVE  /\ Free(j) # {}
         /\ worker[j] = "execute" => \A t : Free(j) \ {t} # {}
<1>1. Cardinality({}) = 0 /\ \A t : Cardinality({t}) = 1
  BY FS_EmptySet, FS_Singleton
<1>2. Free(j) # {}
  <2>1. CASE Free(j) = {}
    BY <1>1, <2>1 DEF RunLeft
  <2>2. QED
    BY <2>1
<1>3. ASSUME worker[j] = "execute", NEW t, Free(j) \ {t} = {} PROVE FALSE
  <2>1. Free(j) = {t}
    BY <1>2, <1>3
  <2>2. Cardinality(Free(j)) = 1
    BY <1>1, <2>1
  <2>3. QED
    BY <1>3, <2>2 DEF RunLeft
<1>4. QED
  BY <1>2, <1>3

\* A step that queues at most t, and starts nothing that was free, leaves the
\* other runs free.
LEMMA OthersStayFree ==
  ASSUME PoolInv, NEW t, \A u \in Tasks : Queued(u)' => Queued(u) \/ u = t,
         \A u \in Tasks : u \in running' => u \in running \/ Queued(u)
  PROVE  \A j \in Jobs : Free(j) \ {t} \subseteq Free(j)'
BY DEF Free, Tasks

\* executeJob submits a free run of the job.
LEMMA ExecuteJobKeeps ==
  ASSUME Inv, NEW j \in Jobs, Free(j) # {}, ExecuteJob(j),
         running' \subseteq running, UNCHANGED cap
  PROVE  /\ PoolInv' /\ state' \in [Jobs -> {"IDLE", "RUNNING"}]
         /\ \A k \in Jobs : k # j => Free(k) \subseteq Free(k)'
         /\ \E t : Free(j) \ {t} \subseteq Free(j)'
<1> DEFINE t == CHOOSE u \in Free(j) : TRUE
<1>1. t \in Runs /\ JobOf[t] = j /\ t \notin running /\ ~ Queued(t)
  BY DEF Free
<1>2. Submit(t)
  BY DEF ExecuteJob
<1> HIDE DEF t
<1>3. PoolInv' /\ \A u \in Tasks : Queued(u)' => Queued(u) \/ u = t
  BY <1>1, <1>2, SubmitKeeps DEF Inv, Tasks
<1>4. \A k \in Jobs : Free(k) \ {t} \subseteq Free(k)'
  BY <1>3, OthersStayFree DEF Inv
<1>5. \A k \in Jobs : k # j => t \notin Free(k)
  BY <1>1 DEF Free
<1>6. state' \in [Jobs -> {"IDLE", "RUNNING"}]
  BY DEF ExecuteJob, Inv, JobTypes
<1>7. QED
  BY <1>3, <1>4, <1>5, <1>6

\* A trigger leaves a run for the thread of the job, and is refused after stop().
LEMMA TriggerJobKeeps ==
  ASSUME Inv, NEW j \in Jobs, TriggerJob(j), running' \subseteq running, UNCHANGED <<cap, worker>>
  PROVE  /\ PoolInv' /\ state' \in [Jobs -> {"IDLE", "RUNNING"}]
         /\ RunForTheThread'
         /\ ~ Stopped
<1>1. Free(j) # {} /\ (worker[j] = "execute" => \A t : Free(j) \ {t} # {})
  BY RunIsLeft DEF TriggerJob, Inv
<1>2. /\ PoolInv' /\ state' \in [Jobs -> {"IDLE", "RUNNING"}]
      /\ \A k \in Jobs : k # j => Free(k) \subseteq Free(k)'
      /\ \E t : Free(j) \ {t} \subseteq Free(j)'
  BY <1>1, ExecuteJobKeeps DEF TriggerJob
<1>3. ASSUME NEW k \in Jobs, worker'[k] = "execute" PROVE Free(k)' # {}
  BY <1>1, <1>2, <1>3 DEF Inv, RunForTheThread
<1>4. RunForTheThread'
  BY <1>3 DEF RunForTheThread
<1>5. ~ Stopped
  BY DEF TriggerJob, MayTrigger, Registered, Stopped
<1>6. QED
  BY <1>2, <1>4, <1>5

\* A step that neither queues nor starts a free run leaves the threads theirs.
LEMMA ThreadsKeepRuns ==
  ASSUME Inv, \A u \in Runs : Queued(u)' => Queued(u),
         \A u \in Runs : u \in running' => u \in running \/ Queued(u), UNCHANGED worker
  PROVE  RunForTheThread'
<1>1. \A j \in Jobs : Free(j) \subseteq Free(j)'
  BY DEF Free
<1>2. QED
  BY <1>1 DEF Inv, RunForTheThread

-----------------------------------------------------------------------------
(* The steps.                                                              *)

\* What a step keeps, and what it may queue after stop().
Kept == Inv' /\ (Stopped => \A t \in Runs : Queued(t)' => Queued(t))

\* A step that leaves the pool alone but for tasks that return.
LEMMA QuietStepKept ==
  ASSUME Inv, UNCHANGED <<waiting, cap, worker>>, running' \subseteq running, JobTypes',
         Stopped' => Stopped
  PROVE  Kept
<1>1. PoolInv' /\ \A u \in Tasks : Queued(u)' <=> Queued(u)
  BY ReturnKeeps DEF Inv
<1>2. RunForTheThread'
  BY <1>1, ThreadsKeepRuns DEF Tasks
<1>3. ThreadsHaveEnded'
  BY DEF Inv, ThreadsHaveEnded
<1>4. QED
  BY <1>1, <1>2, <1>3 DEF Kept, Inv, Tasks

LEMMA ThreadStepKept ==
  ASSUME Inv, NEW j \in Jobs, Wake(j) \/ WorkerExit(j) \/ Dispatch(j)
  PROVE  Kept
<1>1. CASE Wake(j)
  <2>1. PoolInv' /\ \A u \in Tasks : Queued(u)' <=> Queued(u)
    BY <1>1, ReturnKeeps DEF Inv, Wake, pool
  <2>2. JobTypes'
    BY <1>1 DEF Wake, Inv, JobTypes
  <2>3. \A k \in Jobs : Free(k)' = Free(k)
    BY <1>1, <2>1 DEF Wake, Free, Tasks, pool
  <2>4. RunForTheThread'
    <3>1. Free(j) # {}
      BY <1>1, RunIsLeft DEF Wake, Inv
    <3>2. \A k \in Jobs : k # j => worker'[k] = worker[k]
      BY <1>1 DEF Wake, Inv, JobTypes
    <3>3. QED
      BY <2>3, <3>1, <3>2 DEF Inv, RunForTheThread
  <2>5. ThreadsHaveEnded'
    BY <1>1 DEF Wake, running_, ThreadsHaveEnded, Stopped
  <2>6. QED
    BY <2>1, <2>2, <2>4, <2>5 DEF Kept, Inv, Tasks
<1>2. CASE WorkerExit(j)
  <2>1. PoolInv' /\ \A u \in Tasks : Queued(u)' <=> Queued(u)
    BY <1>2, ReturnKeeps DEF Inv, WorkerExit, pool
  <2>2. JobTypes' /\ \A k \in Jobs : worker'[k] = IF k = j THEN "ended" ELSE worker[k]
    BY <1>2 DEF WorkerExit, Inv, JobTypes
  <2>3. RunForTheThread'
    BY <1>2, <2>1, <2>2 DEF WorkerExit, Inv, RunForTheThread, Free, Tasks, pool
  <2>4. ThreadsHaveEnded'
    BY <1>2, <2>2 DEF WorkerExit, Inv, ThreadsHaveEnded, Stopped
  <2>5. QED
    BY <2>1, <2>2, <2>3, <2>4 DEF Kept, Inv, Tasks
<1>3. CASE Dispatch(j)
  <2>1. worker[j] = "execute" /\ Free(j) # {}
    BY <1>3 DEF Dispatch, Inv, RunForTheThread
  <2>2. /\ PoolInv' /\ state' \in [Jobs -> {"IDLE", "RUNNING"}]
        /\ \A k \in Jobs : k # j => Free(k) \subseteq Free(k)'
    BY <1>3, <2>1, ExecuteJobKeeps DEF Dispatch
  <2>3. JobTypes' /\ \A k \in Jobs : worker'[k] = IF k = j THEN "sleep" ELSE worker[k]
    BY <1>3, <2>2 DEF Dispatch, Inv, JobTypes
  <2>4. RunForTheThread'
    BY <2>2, <2>3 DEF Inv, RunForTheThread
  <2>5. ~ Stopped /\ ~ Stopped'
    BY <1>3, <2>1 DEF Dispatch, Inv, ThreadsHaveEnded, Stopped
  <2>6. QED
    BY <2>2, <2>3, <2>4, <2>5 DEF Kept, Inv, ThreadsHaveEnded
<1>4. QED
  BY <1>1, <1>2, <1>3

LEMMA TaskStepKept ==
  ASSUME Inv, NEW i \in Asks, PathRegistered(i) \/ ImmediateTask(i)
  PROVE  Kept
<1>1. i \in Tasks /\ i \notin Runs
  BY SchedulerConstants DEF Tasks
<1>2. CASE PathRegistered(i)
  <2>1. PoolInv' /\ \A u \in Tasks : Queued(u)' => Queued(u) \/ u = i
    BY <1>1, <1>2, SubmitKeeps DEF PathRegistered, Inv
  <2>2. \A u \in Runs : Queued(u)' => Queued(u)
    BY <1>1, <2>1 DEF Tasks
  <2>3. RunForTheThread'
    BY <1>2, <2>2, ThreadsKeepRuns DEF PathRegistered, job
  <2>4. QED
    BY <1>2, <2>1, <2>2, <2>3 DEF PathRegistered, Kept, Inv, JobTypes, ThreadsHaveEnded, Stopped, job
<1>3. CASE ImmediateTask(i)
  <2>1. UNCHANGED <<cap, failures, worker, down, drops>>
    BY <1>3 DEF ImmediateTask
  <2>2. ASSUME NEW next \in {"begin", "scan", "poll", "check", "media"}, GoOn(i, next)
        PROVE  running' \subseteq running /\ asks' \in [Asks -> {"begin", "scan", "poll", "check", "media"}]
    BY <2>2 DEF GoOn, Inv, JobTypes
  <2>3. ASSUME Return(i)
        PROVE  running' \subseteq running /\ asks' \in [Asks -> {"begin", "scan", "poll", "check", "media"}]
    BY <2>3 DEF Return, Inv, JobTypes
  <2>4. running' \subseteq running /\ asks' \in [Asks -> {"begin", "scan", "poll", "check", "media"}]
    BY <1>3, <2>2, <2>3 DEF ImmediateTask, CheckRunning, AskScan, Poll, AskMedia, Timeout
  <2>5. CASE UNCHANGED <<waiting, state>>
    BY <2>1, <2>4, <2>5, QuietStepKept DEF Inv, JobTypes, Stopped
  <2>6. ASSUME NEW j \in Jobs, TriggerJob(j) PROVE Kept
    <3>1. PoolInv' /\ state' \in [Jobs -> {"IDLE", "RUNNING"}] /\ RunForTheThread' /\ ~ Stopped
      BY <2>1, <2>4, <2>6, TriggerJobKeeps
    <3>2. QED
      BY <2>1, <2>4, <3>1 DEF Kept, Inv, JobTypes, ThreadsHaveEnded, Stopped
  <2>7. QED
    BY <1>3, <2>5, <2>6, SchedulerConstants DEF ImmediateTask, CheckRunning, AskScan, Poll, AskMedia
<1>4. QED
  BY <1>2, <1>3

LEMMA PoolStepKept ==
  ASSUME Inv,
         \/ \E ty \in Types : Start(ty)
         \/ \E t \in Runs : End(t)
         \/ RecreatePool \/ Drain
  PROVE  Kept
<1>1. ASSUME NEW ty \in Types, Start(ty) PROVE Kept
  <2>1. PoolInv' /\ Queued(Head(waiting[ty])) /\ \A u \in Tasks : Queued(u)' => Queued(u)
    BY <1>1, StartKeeps DEF Inv
  <2>2. UNCHANGED worker /\ \A u \in Runs : u \in running' => u \in running \/ Queued(u)
    BY <1>1, <2>1 DEF Start, job
  <2>3. RunForTheThread'
    BY <2>1, <2>2, ThreadsKeepRuns DEF Tasks
  <2>4. QED
    BY <1>1, <2>1, <2>3 DEF Start, job, Kept, Inv, JobTypes, ThreadsHaveEnded, Stopped, Tasks
<1>2. ASSUME NEW t \in Runs, End(t) PROVE Kept
  <2>1. JobOf[t] \in Jobs
    BY SchedulerConstants
  <2>2. state' \in [Jobs -> {"IDLE", "RUNNING"}]
    BY <1>2, <2>1 DEF End, JobDone, JobFailed, Inv, JobTypes
  <2>3. failures' \in [Jobs -> 0 .. MaxFailures]
    <3>1. CASE JobFailed(JobOf[t])
      <4>1. failures[JobOf[t]] \in 0 .. MaxFailures /\ MaxFailures \in Nat
        BY <2>1, SchedulerConstants DEF Inv, JobTypes
      <4>2. (IF failures[JobOf[t]] < MaxFailures THEN failures[JobOf[t]] + 1 ELSE failures[JobOf[t]])
              \in 0 .. MaxFailures
        BY <4>1
      <4>3. QED
        BY <3>1, <4>2 DEF JobFailed, Inv, JobTypes
    <3>2. CASE JobDone(JobOf[t])
      BY <3>2, SchedulerConstants DEF JobDone, Inv, JobTypes
    <3>3. QED
      BY <1>2, <3>1, <3>2 DEF End, Inv, JobTypes
  <2>4. Stopped' => Stopped
    BY <1>2 DEF End, JobDone, JobFailed, Stopped
  <2>5. QED
    BY <1>2, <2>2, <2>3, <2>4, QuietStepKept DEF End, Inv, JobTypes
<1>3. CASE RecreatePool \/ Drain
  <2>1. PoolInv' /\ \A u \in Tasks : ~ Queued(u)'
    BY <1>3, DropKeeps DEF RecreatePool, Drain, Inv
  <2>2. RunForTheThread'
    BY <1>3, <2>1, ThreadsKeepRuns DEF RecreatePool, Drain, job, Tasks
  <2>3. QED
    BY <1>3, <2>1, <2>2 DEF RecreatePool, Drain, job, Kept, Inv, JobTypes, ThreadsHaveEnded, Stopped, Tasks
<1>4. QED
  BY <1>1, <1>2, <1>3

LEMMA StepKept == Inv /\ [Next]_vars => Kept
<1> SUFFICES ASSUME Inv, [Next]_vars PROVE Kept
  OBVIOUS
<1>1. ASSUME NEW j \in Jobs, TriggerJobHandler(j) PROVE Kept
  <2>1. PoolInv' /\ state' \in [Jobs -> {"IDLE", "RUNNING"}] /\ RunForTheThread' /\ ~ Stopped
    BY <1>1, TriggerJobKeeps DEF TriggerJobHandler
  <2>2. QED
    BY <1>1, <2>1 DEF TriggerJobHandler, Kept, Inv, JobTypes, ThreadsHaveEnded, Stopped
<1>2. CASE RequestShutdown \/ SignalStop \/ LockToJoin \/ ClosePool
  BY <1>2, QuietStepKept
  DEF RequestShutdown, SignalStop, LockToJoin, ClosePool, pool, job, Inv, JobTypes, Stopped
<1>3. CASE ClearJobs
  <2>1. PoolInv' /\ \A u \in Tasks : Queued(u)' <=> Queued(u)
    BY <1>3, ReturnKeeps DEF ClearJobs, pool, Inv
  <2>2. RunForTheThread' /\ ThreadsHaveEnded'
    BY <1>3 DEF ClearJobs, job, RunForTheThread, ThreadsHaveEnded
  <2>3. QED
    BY <1>3, <2>1, <2>2 DEF ClearJobs, pool, job, Kept, Inv, JobTypes, Tasks
<1>4. CASE UNCHANGED vars
  BY <1>4, QuietStepKept DEF vars, pool, job, Inv, JobTypes, Stopped
<1>5. QED
  BY <1>1, <1>2, <1>3, <1>4, PoolStepKept, ThreadStepKept, TaskStepKept DEF Next, Shutdown

LEMMA InitInv == Init => Inv
<1> SUFFICES ASSUME Init PROVE Inv
  OBVIOUS
<1>1. /\ waiting \in [Types -> Seq(Tasks)]
      /\ \A ty \in Types : waiting[ty] = <<>> /\ DOMAIN waiting[ty] = {}
  BY EmptySeq DEF Init
<1>2. Cardinality(running) <= cap /\ IsFiniteSet(running)
  BY FS_EmptySet, SchedulerConstants DEF Init
<1>3. PoolInv
  BY <1>1, <1>2 DEF Init, PoolInv, ToSet, IsInjective
<1>4. JobTypes
  BY SchedulerConstants DEF Init, JobTypes
<1>5. QED
  BY <1>3, <1>4 DEF Init, Inv, RunForTheThread, ThreadsHaveEnded, Stopped

LEMMA InvHolds == Spec => []Inv
<1>1. Inv /\ [Next]_vars => Inv'
  BY StepKept DEF Kept
<1>2. QED
  BY <1>1, InitInv, PTL DEF Spec

-----------------------------------------------------------------------------
(* The theorems.                                                           *)

\* A task waits at most once, in the queue of its type, and not while it runs;
\* the pool never runs more than the cap allows, however often it is triggered,
\* submitted to or made anew.
THEOREM TypesAreKept == Spec => []TypeOK
<1>1. Inv => TypeOK
  BY DEF Inv, PoolInv, JobTypes, TypeOK
<1>2. QED
  BY <1>1, InvHolds, PTL

\* Once stop() has returned nothing submits a run of a job: its threads have
\* ended (ThreadsHaveEnded), triggers and the tasks of locations are refused.
THEOREM NothingIsSubmittedAfterStop == Spec => NothingAfterStop
<1>1. Inv /\ [Next]_vars
        => [ (down \in {"stopped", "closed", "drained"})
               => \A t \in Runs : Queued(t)' => Queued(t) ]_vars
  BY StepKept DEF Kept, Stopped
<1>2. QED
  BY <1>1, InvHolds, PTL DEF Spec, NothingAfterStop

=============================================================================
