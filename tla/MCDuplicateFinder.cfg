CONSTANTS
  N = 4
  BatchSize = 2
  Levels = {0, 1, 2}
  Tables <- MCAllTables
  Thresholds <- MCOneRange
  DefaultMin = 1
  DefaultMax = 2
  Rank <- MCRank4
  Incompatible = {}
  MaxDisturbances = 0
SPECIFICATION Spec
CHECK_DEADLOCK FALSE
INVARIANTS
  GroupsArePairwiseSimilar
  RepresentativesAgree
  NoPairIsMissed
