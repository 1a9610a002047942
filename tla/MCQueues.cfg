SPECIFICATION MCSpec
CONSTANTS
  Settings <- UsualSettings
  MaxItems = 2
  MaxFlushes = 2
  nMax = 2
  Putters = {p1, p2}
  Getters = {g1, g2}
  MaxObjects = 4
  MaxMessages = 4
  Count = 2
  SetupFilters = {1}
  Denials <- AllDenials
  Length = 2
  MaxSeeks = 2
CHECK_DEADLOCK FALSE
INVARIANTS
  TypesOK
  WakeupsKept
  NothingHalfDone
PROPERTIES
  QueuesAreChannels
  CallsReturn
