SPECIFICATION Spec
CONSTANTS
  Calls = 2
  MaxAttempts = 2
INVARIANT TearsDownFirst
CHECK_DEADLOCK FALSE
