\* A second of six ticks, three ordinary frame rates; two output buffers, a renderer that
\* blocks and one that queues; two clients of a class factory and of one other object.
SPECIFICATION MCSpec
CONSTANTS
  TicksPerSecond = 6
  Durations = {1, 2, 3}
  Sizes = {1, 2}
  CounterModulus = 8
  Offers = FALSE
  Reconnects = FALSE
  FormatChanges = FALSE
  MaxLost = 2
  Buffers = {b1, b2}
  NoBuffer = NoBuffer
  Clients = {c1, c2}
  Factories = {factory}
  Filters = {object}
  None = None
  MaxHeld = 2
  Preempted = FALSE
INVARIANTS
  TypesOK
  FilterKept
PROPERTIES
  ControlReturns
