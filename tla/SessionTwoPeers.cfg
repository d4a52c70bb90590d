SPECIFICATION Spec
CONSTANTS
  Publish = {p1}
  Reconnect = {r1}
  None = none
  InflightMax = 2
  Declares = TRUE
INVARIANT OwnsTheOnlyPeer
CHECK_DEADLOCK FALSE
