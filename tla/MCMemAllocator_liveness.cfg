\* The filter's own use: one streaming thread gets the samples of its output
\* pin, the renderer's threads only hold and release them.
SPECIFICATION FairSpec
CONSTANTS
  Users = {s, r}
  Getters = {s}
  Pins = {outPin, inPin}
  MaxBuffers = 2
  HoldAndWait = FALSE
  MaxTimeouts = 0
PROPERTIES
  WaitingEnds
