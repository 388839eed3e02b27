\* The server is started for the first time: that it starts with a file of its
\* own is the same as a reload.
CONSTANTS
  host = host
  level = level
  Keys = {host, level}
  Scalars = {"0.0.0.0", "0"}
  Values <- MCValues
  Typed <- MCTyped
  TextOf <- MCTextOf
  ReadAs <- MCReadAs
  Defaults <- MCDefaults
  OldFiles = {}
  Slots = {1, 2, 3}
  Monitor = monitor
  Nothing = nothing
  MaxEdits = 1
  Texts = {t, u}
  Visits <- MCVisits
  MaxClicks = 2
SPECIFICATION FairSpec
CHECK_DEADLOCK FALSE
INVARIANTS
  TypeOK
  EveryChangeIsKept
  GridIsCurrent
PROPERTIES
  EveryClickIsAnswered
  TypedTextIsKept
  SuccessIsReal
