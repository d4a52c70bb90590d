SPECIFICATION LiveSpec
CONSTANTS
  Calls = 3
  MaxAttempts = 2
INVARIANTS NodeFollowsCalls StatusIsTrue
PROPERTIES Returns
CHECK_DEADLOCK FALSE
