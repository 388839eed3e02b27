\* One image whose content changes while it is being processed.
CONSTANTS
  img = img
  vid = vid
  w1 = w1
  w2 = w2
  j1 = j1
  j2 = j2
  Images = {img}
  Others = {}
  Row <- MCRow
  Refusable = {}
  Workers = {w1}
  Jobs = {j1}
  Codes <- MCCodes
  QueueSizes = {1}
  MaxDisturbances = 1
SPECIFICATION Spec
CHECK_DEADLOCK FALSE
INVARIANTS
  ChangedContentIsProcessed
