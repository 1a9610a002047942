SPECIFICATION MCSpec
CONSTANTS
  None = None
  FileNames = {name1, name2, name3}
  Empty = Empty
  Ascii = {name1, name2}
  Foreign = {name4}
  Lost = Lost
  Mojibake = Mojibake
  Upstreams = {u1, u2}
  Downstreams = {d1}
  Owns = {o1, o2, o3}
  Types = {y1, y2}
  Duration = 2
  Second = 4
  MaxTime = 9
  Addresses = {1, 2, 3}
  FirstPins <- NoneOrTwo
  MaxPins = 2
  MaxPinVersion = 3
  MaxBatch = 2
  Kinds = {k1, k2}
  MaxTypes = 2
  MaxTypeVersion = 2
  MaxCommands = 2
  MaxDue = 2
  MaxCalls = 2
  Offsets = {1}
CHECK_DEADLOCK FALSE
INVARIANTS
  TypesOK
  ReferencesHeld
  NothingLost
PROPERTIES
  StepsAreRight
