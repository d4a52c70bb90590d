SPECIFICATION Spec
CONSTANTS
  Publish = {p1, p2, p3}
  Reconnect = {r1}
  None = none
  InflightMax = 2
  Declares = TRUE
SYMMETRY Calls
INVARIANTS ConnectingIsLive OnePeer ShutdownLeavesNoPeer RecordedAreAccountedFor
CHECK_DEADLOCK FALSE
