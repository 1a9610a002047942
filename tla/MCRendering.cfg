SPECIFICATION MCSpec
CONSTANTS
  MaxAdvise = 2
  MaxTimers = 2
  Half = 2
  MaxTicks = 3
  MaxCookie = 2
  Times = {3, 6}
  Deltas <- Corrections
  MaxDeltas = 1
INVARIANTS
  TypesOK
  RendererKept
  ClockKept
PROPERTIES
  StepsAreRight
  ThingsEnd
