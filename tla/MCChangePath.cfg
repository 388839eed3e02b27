\* Two calls at once, pages of one row, a scan at any time, and one event: a
\* statement that fails, a crash or a change of the registrations.
CONSTANTS
  home = home
  new = new
  f1 = f1
  f2 = f2
  c1 = c1
  c2 = c2
  Roots = {home, new}
  Files = {f1, f2}
  OnDisk <- MCOnDisk
  Home = home
  Requests <- MCRequests
  Calls = {c1, c2}
  Tables <- MCTables
  UniqueTables = {"image_artifacts"}
  BatchSize = 1
  SampleSize = 2
  MaxEvents = 1
SPECIFICATION Spec
INVARIANTS
  TypeOK
  DataFollowsTheFile
  EveryFileHasALocation
PROPERTIES
  AskingMovesEverything
