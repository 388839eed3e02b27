--------------------------- MODULE JobQueue_proofs ---------------------------
(* ThreadPoolManager implements JobQueue: every step of the manager is a    *)
(* step of the queue that its clients see, or changes nothing they see.     *)
EXTENDS ThreadPoolManager_proofs

\* schedule() starts the heads of some queues, within the cap, or nothing.
LEMMA ScheduleStarts ==
  ASSUME Inv, NEW w, ScheduleLocked(w), UNCHANGED <<effective_max_, shutdown, fate>>,
         { t \in Tasks : submit'[t] = "accepted" } = { t \in Tasks : submit[t] = "accepted" }
  PROVE  [JQ!Next]_(JQ!jobs)
<1> USE DEF Inv
<1>1. CASE Starting = {}
  <2>1. /\ type_to_queue_' = [ty \in Types |-> type_to_queue_[ty]]
        /\ active_runnables_' = active_runnables_ \cup Started
        /\ Started = {}
    BY <1>1 DEF ScheduleLocked, Started
  <2>2. type_to_queue_' = type_to_queue_ /\ active_runnables_' = active_runnables_
    BY <2>1 DEF TypeOK
  <2>3. QED
    BY <2>2 DEF JQ!jobs, accepting_
<1>2. CASE Starting # {}
  <2>1. Starting \subseteq Types /\ \A ty \in Starting : type_to_queue_[ty] # <<>>
    BY StartingIsBounded DEF Eligible
  <2>2. Started \cap active_runnables_ = {}
    BY StartedTasks
  <2>3. Cardinality(active_runnables_ \cup Started) <= effective_max_
    <3>1. /\ IsFiniteSet(Started) /\ Cardinality(Started) = Cardinality(Starting)
          /\ IsFiniteSet(active_runnables_)
      BY StartedTasks, FS_Subset, TasksAssumption DEF TypeOK
    <3>2. Cardinality(active_runnables_ \cup Started)
            = Cardinality(active_runnables_) + Cardinality(Started)
      BY <3>1, <2>2, FS_Union, FS_EmptySet, FS_CardinalityType
    <3>3. running_total_ + Cardinality(Starting) <= effective_max_
      <4>1. /\ Cardinality(Starting) \in Nat /\ Cardinality(Starting) # 0
            /\ running_total_ \in Nat /\ effective_max_ \in Nat
        BY <1>2, StartingIsBounded, FS_EmptySet DEF TypeOK
      <4>2. CASE effective_max_ - running_total_ \in Nat
        <5>1. effective_max_ - running_total_ <= effective_max_ - running_total_
          BY <4>1
        <5>2. Cardinality(Starting) <= effective_max_ - running_total_
          BY <4>2, <5>1, StartingIsBounded
        <5>3. QED
          BY <4>1, <5>2
      <4>3. CASE effective_max_ - running_total_ \notin Nat
        <5>1. effective_max_ - running_total_ <= 0
          BY <4>1, <4>3
        <5>2. Cardinality(Starting) <= 0
          BY <5>1, StartingIsBounded
        <5>3. QED
          BY <4>1, <5>2
      <4>4. QED
        BY <4>2, <4>3
    <3>4. QED
      BY <3>1, <3>2, <3>3 DEF RunningCountsAgree
  <2>4. JQ!Cardinality(active_runnables_ \cup Started) <= effective_max_
    BY <2>3 DEF Cardinality, JQ!Cardinality, IsFiniteSet, JQ!IsFiniteSet
  <2>5. JQ!Start(Starting)
    BY <2>1, <2>2, <2>4 DEF JQ!Start, ScheduleLocked, Started, accepting_
  <2>6. QED
    BY <2>1, <2>5 DEF JQ!Next
<1>3. QED
  BY <1>1, <1>2

\* The steps of submission and of the pool threads.
LEMMA TaskStepIsAllowed ==
  ASSUME Inv, NEW t \in Tasks, TaskStep(t)
  PROVE  [JQ!Next]_(JQ!jobs)
<1> USE DEF Inv
<1> DEFINE accepted == { u \in Tasks : submit[u] = "accepted" }
<1>1. CASE SubmitAccepted(t)
  <2>1. accepted' = accepted \cup {t}
    BY <1>1 DEF SubmitAccepted, TypeOK
  <2>2. fate[t] # "pending"
    BY <1>1 DEF SubmitAccepted, MaySubmit
  <2>3. JQ!Accept(t)
    BY <1>1, <2>1, <2>2 DEF SubmitAccepted, JQ!Accept, accepting_, queues, counters, limits
  <2>4. QED
    BY <2>3 DEF JQ!Next
<1>2. CASE SubmitRejected(t)
  <2>1. fate[t] # "pending"
    BY <1>2 DEF SubmitRejected, MaySubmit
  <2>2. JQ!Refuse(t)
    BY <1>2, <2>1 DEF SubmitRejected, JQ!Refuse, accepting_, queues, counters, limits
  <2>3. QED
    BY <2>2 DEF JQ!Next
<1>3. CASE SubmitEnqueue(t)
  <2>1. accepted' = accepted \ {t} /\ t \in accepted
    BY <1>3 DEF SubmitEnqueue, Calling, TypeOK
  <2>2. JQ!Enqueue(t)
    BY <1>3, <2>1 DEF SubmitEnqueue, JQ!Enqueue, accepting_, counters, limits
  <2>3. QED
    BY <2>2 DEF JQ!Next
<1>4. CASE TaskFinish(t)
  <2>1. t \in active_runnables_
    BY <1>4 DEF TaskFinish, RunningCountsAgree
  <2>2. JQ!Finish(t)
    BY <1>4, <2>1 DEF TaskFinish, JQ!Finish, accepting_, queues, limits
  <2>3. QED
    BY <2>2 DEF JQ!Next
<1>5. CASE SubmitSchedule(t)
  <2>1. accepted' = accepted
    BY <1>5 DEF SubmitSchedule, TypeOK
  <2>2. QED
    BY <1>5, <2>1, ScheduleStarts DEF SubmitSchedule, limits
<1>6. CASE FinishSchedule(t)
  BY <1>6, ScheduleStarts DEF FinishSchedule, limits
<1>7. CASE SubmitSkips(t) \/ FinishSkips(t) \/ ThreadIdle(t)
  <2>1. accepted' = accepted
    BY <1>7 DEF SubmitSkips, FinishSkips, ThreadIdle, TypeOK
  <2>2. QED
    BY <1>7, <2>1 DEF SubmitSkips, FinishSkips, ThreadIdle, JQ!jobs, accepting_, queues,
                      counters, limits
<1>8. QED
  BY <1>1, <1>2, <1>3, <1>4, <1>5, <1>6, <1>7 DEF TaskStep

\* The steps of a configuration thread: a new cap, a start, or a drop.
LEMMA ConfigStepIsAllowed ==
  ASSUME Inv, Inv', NEW c \in ConfigThreads, ConfigStep(c)
  PROVE  [JQ!Next]_(JQ!jobs)
<1> USE DEF Inv
<1>1. ASSUME NEW n \in PoolSizes, ConfigMax(c, n)
      PROVE  JQ!SetCap
  BY <1>1 DEF ConfigMax, JQ!SetCap, accepting_, counters, queues, TypeOK
<1>2. CASE ConfigSchedule(c)
  BY <1>2, ScheduleStarts DEF ConfigSchedule, limits
<1>3. CASE RecreateThreadPool(c)
  <2>1. JQ!Drop
    BY <1>3 DEF RecreateThreadPool, ClearQueues, JQ!Drop, AllQueued, Queued, accepting_, counters
  <2>2. QED
    BY <2>1 DEF JQ!Next
<1>4. CASE \/ \E ty \in Types, s \in Shares : ConfigShare(c, ty, s)
           \/ ConfigSkips(c) \/ ConfigRecreate(c)
  BY <1>4 DEF ConfigShare, ConfigSkips, ConfigRecreate, JQ!jobs, accepting_, counters, queues,
              limits
<1>5. QED
  BY <1>1, <1>2, <1>3, <1>4 DEF ConfigStep, JQ!Next

LEMMA ShutdownStepIsAllowed ==
  ASSUME Inv, ShutdownStep
  PROVE  [JQ!Next]_(JQ!jobs)
<1>1. CASE ShutdownBegin
  <2>1. JQ!Close
    BY <1>1 DEF ShutdownBegin, JQ!Close, accepting_, counters, queues, limits
  <2>2. QED
    BY <2>1 DEF JQ!Next
<1>2. CASE ShutdownEnd
  <2>1. JQ!Drop
    BY <1>2 DEF ShutdownEnd, ClearQueues, JQ!Drop, AllQueued, Queued, accepting_, counters, limits
  <2>2. QED
    BY <2>1 DEF JQ!Next
<1>3. QED
  BY <1>1, <1>2 DEF ShutdownStep

\* ThreadPoolManager implements JobQueue, for any types, tasks, sizes, shares
\* and numbers of threads: what submit(), the pool threads, onConfigChange()
\* and shutdownAndDrain() do together is what a queue with a cap may do.
THEOREM Refinement == Spec => ImplementsJobQueue
<1>1. Init => JQ!Init
  BY SizesAssumption DEF Init, JQ!Init, accepting_
<1>2. Inv /\ Inv' /\ [Next]_vars => [JQ!Next]_(JQ!jobs)
  <2> SUFFICES ASSUME Inv, Inv', [Next]_vars
               PROVE  [JQ!Next]_(JQ!jobs)
    OBVIOUS
  <2>1. CASE UNCHANGED vars
    BY <2>1 DEF vars, JQ!jobs, accepting_, counters, queues, limits
  <2>2. CASE Next
    BY <2>2, TaskStepIsAllowed, ConfigStepIsAllowed, ShutdownStepIsAllowed DEF Next
  <2>3. QED
    BY <2>1, <2>2
<1>3. QED
  BY <1>1, <1>2, Invariance, PTL DEF Spec, ImplementsJobQueue, JQ!Spec

=============================================================================
