SPECIFICATION Spec
CONSTANTS
  MaxUps = 3
  MaxWrites = 2
  MaxFaults = 2
  MaxOverlaps = 1
INVARIANTS
  TypeOK
  FilesFollowEnv
  PasswordKept
  ProxyAuthenticated
PROPERTY UpFinishes
CHECK_DEADLOCK FALSE
