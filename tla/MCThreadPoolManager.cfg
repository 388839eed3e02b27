\* Two types, three tasks, pools of two threads or none, one configuration
\* thread that may change anything, and a shutdown.
CONSTANTS
  a = a
  b = b
  t1 = t1
  t2 = t2
  t3 = t3
  t4 = t4
  Types = {a, b}
  Tasks = {t1, t2, t3}
  TypeOf <- MCTypeOf3
  Recurring = {}
  ConfigThreads = {c1}
  PoolSizes = {0, 2}
  ShareUnit = 2
  Shares <- MCShares
SPECIFICATION Spec
SYMMETRY MCSymmetry
CHECK_DEADLOCK FALSE
INVARIANTS
  TypeOK
  RunningCountsAgree
  PendingTasksAreSomewhere
  QueuedTypesAreRegistered
  PoolNeverOverflows
  ScheduleIsTheLoop
PROPERTIES
  NoStartAboveTheCap
  ImplementsJobQueue
