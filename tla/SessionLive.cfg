SPECIFICATION LiveSpec
CONSTANTS
  Publish = {p1}
  Reconnect = {r1, r2}
  None = none
  InflightMax = 1
  Declares = TRUE
PROPERTIES WaitersAreAnswered
CHECK_DEADLOCK FALSE
