SPECIFICATION Spec
CONSTANTS
  TicksPerSecond = 4
  Durations = {0, 1, 2}
  Sizes = {1}
  CounterModulus = 6
  Offers = TRUE
  Reconnects = TRUE
  FormatChanges = TRUE
  MaxLost = 2
INVARIANTS
  TypeOK
  CadenceKept
