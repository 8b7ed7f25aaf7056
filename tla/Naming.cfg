SPECIFICATION Spec
CONSTANTS
  Pattern <- Patterns
  MaxClaim = 5
  MaxName = 4
INVARIANTS
  RefSafe
  DrawnConforms
  DirectoriesKept
CHECK_DEADLOCK FALSE
