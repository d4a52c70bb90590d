SPECIFICATION ServiceLiveSpec
CONSTANTS
  Need = 3
  Slack = 1
  MaxFaults = 2
  MaxStuck = 1
  MaxStarts = 3
INVARIANTS NoOrphan StopMeetsItsRun KillsOnlyFrozen
PROPERTIES StopEnds
CHECK_DEADLOCK FALSE
