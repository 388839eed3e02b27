\* One call, no scan has anything to add, nothing fails: pages of one row skip
\* every second file.
CONSTANTS
  home = home
  new = new
  f1 = f1
  f2 = f2
  c1 = c1
  c2 = c2
  Roots = {home, new}
  Files = {f1, f2}
  OnDisk <- MCOnDisk
  Home = home
  Requests <- MCRequests
  Calls = {c1}
  Tables <- MCTables
  UniqueTables = {"image_artifacts"}
  BatchSize = 1
  SampleSize = 2
  MaxEvents = 0
SPECIFICATION Spec
INVARIANTS
  OkMeansAllMoved
