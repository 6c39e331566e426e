SPECIFICATION Spec
CONSTANTS
  MaxUps = 1
  MaxWrites = 1
  MaxFaults = 0
  MaxOverlaps = 1
INVARIANT
  PasswordAlwaysKept
CHECK_DEADLOCK FALSE
