SPECIFICATION DaemonSpec
CONSTANTS
  MaxAttempts = 4
  Topics = 2
  RequestBound = 2
  StartBound = 2
  Probes = 2
  Result = {r1}
  PeerSlot = {1, 2, 3}
  OutageBound = 2
  LateBound = 1
  DeathBound = 1
  SlotCount = 2
  RelayBound = 3
  CrashBound = 1
INVARIANTS OneNode ReportIsWhole LoggedOnce FleetKeepsItsRelays
PROPERTIES RelayComesUp KeepsPromise RequestIsServed EveryResultLogged StopEndsTheFleet
CHECK_DEADLOCK FALSE
