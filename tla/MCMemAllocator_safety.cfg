\* Three interchangeable threads that get, share and release; two buffers.
SPECIFICATION Spec
CONSTANTS
  Users = {s, r, q}
  Getters = {s, r, q}
  Pins = {outPin, inPin}
  MaxBuffers = 2
  HoldAndWait = TRUE
  MaxTimeouts = 1
SYMMETRY Symmetry
INVARIANTS
  TypeOK
  NoLostWakeup
  SamplesKept
PROPERTIES
  AllocatorKept
