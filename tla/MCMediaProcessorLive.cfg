\* Two files in one queue place, one thread, one run of ProcessMedia at a time,
\* and two content changes, stops, resets or crashes.
CONSTANTS
  img = img
  vid = vid
  w1 = w1
  w2 = w2
  j1 = j1
  j2 = j2
  Images = {img}
  Others = {vid}
  Row <- MCRow
  Refusable = {}
  Workers = {w1}
  Jobs = {j1}
  Codes <- MCCodes
  QueueSizes = {1}
  MaxDisturbances = 2
SPECIFICATION FairSpec
CHECK_DEADLOCK FALSE
PROPERTIES
  EveryFileSettles
