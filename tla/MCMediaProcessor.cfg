\* An image and a video, two threads, two overlapping runs of ProcessMedia, a
\* queue limit that changes, and one content change, stop, reset or configuration change.
CONSTANTS
  img = img
  vid = vid
  w1 = w1
  w2 = w2
  j1 = j1
  j2 = j2
  Images = {img}
  Others = {vid}
  Row <- MCRow
  Refusable = {vid}
  Workers = {w1, w2}
  Jobs = {j1, j2}
  Codes <- MCCodes
  QueueSizes = {1, 2}
  MaxDisturbances = 1
SPECIFICATION Spec
SYMMETRY MCSymmetry
CHECK_DEADLOCK FALSE
INVARIANTS
  TypeOK
  NoRowIsForgotten
  QueueStaysBounded
