CONSTANTS
  N = 3
  BatchSize = 2
  Levels = {0, 1, 2}
  Tables <- MCFewTables
  Thresholds <- MCRanges
  DefaultMin = 2
  DefaultMax = 2
  Rank <- MCRank3
  Incompatible = {}
  MaxDisturbances = 1
SPECIFICATION FairSpec
CHECK_DEADLOCK FALSE
INVARIANTS
  TypeOK
  GroupsArePairwiseSimilar
PROPERTIES
  EveryFileIsChecked
