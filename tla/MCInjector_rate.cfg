SPECIFICATION Spec
CONSTANTS
  TicksPerSecond = 6
  Durations = {1, 3}
  Sizes = {1}
  CounterModulus = 8
  Offers = FALSE
  Reconnects = FALSE
  FormatChanges = TRUE
  MaxLost = 2
INVARIANTS
  OncePerSecond
