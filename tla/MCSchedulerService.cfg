\* The scan with two runs at one time, the processing with one, one task of a
\* registered location, all of one type as in the code; one or two threads.
CONSTANTS
  scan = scan
  media = media
  s1 = s1
  s2 = s2
  m1 = m1
  i1 = i1
  fs = fs
  Jobs = {scan, media}
  Scan = scan
  Media = media
  Runs = {s1, s2, m1}
  JobOf <- MCJobOf
  Asks = {i1}
  Types = {fs}
  TypeOfJob <- MCTypeOfJob
  Caps = {1, 2}
  MaxFailures = 2
  MaxDrops = 1
\* The server may be stopped for good.
CHECK_DEADLOCK FALSE
SPECIFICATION Spec
INVARIANT TypeOK
PROPERTIES
  JobsKeepRunning
  ThreadsComeBack
  ShutdownEnds
  NothingAfterStop
  FailuresStopTheServer
