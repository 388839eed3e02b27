\* Two tasks of one type that are submitted for ever, against one task of
\* another type that is submitted once.
CONSTANTS
  a = a
  b = b
  t1 = t1
  t2 = t2
  t3 = t3
  t4 = t4
  Types = {a, b}
  Tasks = {t1, t2, t3}
  TypeOf <- MCTypeOf3
  Recurring = {t1, t2}
  ConfigThreads = {}
  PoolSizes = {1, 2}
  ShareUnit = 1
  Shares = {}
SPECIFICATION FairSpec
CHECK_DEADLOCK FALSE
PROPERTIES
  OnlyQuietStarves
