CONSTANTS
  Size = 3
  MaxRetries = 3
  MaxHashRetries = 2
  MaxSessions = 3
SPECIFICATION Spec
CHECK_DEADLOCK FALSE
INVARIANTS OkIsWhole CountIsLength GivesUpWhenSpoiled
