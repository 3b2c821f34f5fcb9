CONSTANTS
  Limit = 2
  Window = 3
  Backoff = 0
  MaxTime = 9
SPECIFICATION Spec
INVARIANTS RollingLimit GivesUpLate
