SPECIFICATION SeatSpec
CONSTANTS
  Pid = {p1, p2, p3}
  Recyclable = {p1}
  h1 = h1
  h2 = h2
  Handle = {h1, h2}
  Config <- Installs
  NoLock = NoLock
  Torn = Torn
SYMMETRY Pids
INVARIANT SecondProcessRefused

