SPECIFICATION MCSpec
CONSTANTS
  Apps = {t1, t2}
  MaxUsers = 2
  MaxSamples = 2
  Length = 2
  MaxSeeks = 1
  MaxTime = 2
  MaxCalls = 2
  MaxGroup = 4
  Wait = 3
  Silly = 4
  Lates <- Lateness
  Untimed = FALSE
CHECK_DEADLOCK FALSE
INVARIANTS
  TypesOK
  NothingLeftBehind
  ServedOnce
PROPERTIES
  DecidedRight
  CallsReturn
