SPECIFICATION Spec
CONSTANTS
  Id = {m1, m2}
  Reconnect = {r1, r2}
  NoId = noId
  Start = start
  None = none
  BufferCap = 1
  SeenCap = 2
SYMMETRY Symmetric
VIEW Readable
INVARIANTS NothingUnreadLost ReseatWorksOn
CHECK_DEADLOCK FALSE
