\* Two tasks, three files of which two share a base name, limits of two and four,
\* and one step that fails, or removes files of tasks behind their back.
CONSTANTS
  t1 = t1
  t2 = t2
  a = a
  b = b
  raw = raw
  na = na
  nraw = nraw
  ta = ta
  traw = traw
  j1 = j1
  j2 = j2
  Jpegs = {j1, j2}
  TempOf <- MCTempOf
  None = None
  Sources = {a, b, raw}
  NameOf <- MCNameOf
  SizeOf <- MCSizeOf
  Raw = {raw}
  JpegSize = 1
  Tasks = {t1, t2}
  Limits = {2, 4}
  FirstLimit = 4
  SizeMod = 32
  MaxCounted = 8
  MaxEvents = 1
SYMMETRY Alike
\* Only the bound on the drift stops the model; no operation waits for another.
CHECK_DEADLOCK FALSE
SPECIFICATION Spec
INVARIANTS
  TypeOK
  SizeCoversTheFiles
  RestFitsTheLimit
PROPERTIES
  MarkedFilesStay
  FittingStreamIsSaved
