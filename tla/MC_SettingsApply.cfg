SPECIFICATION FairSpec
CONSTANTS
  KeyA = KeyA
  KeyB = KeyB
  Master = Master
  Set = Set
  Empty = Empty
  Bad = Bad
  NoThread = NoThread
  Requests = {r1, r2}
  Editable = {KeyA, KeyB}
  MasterKey = Master
  Values = {Set, Empty}
  NoValue = Empty
  BadValue = Bad
  Updates <- Bodies
  MaxCrashes = 1
INVARIANTS
  TypeOK
  LandedUpdatesKept
  ReadyServesCurrentFile
  ReadyMeansApplied
PROPERTIES
  ImplementsStore
  EveryApplyAnswered
  AppliedEventuallyServed
CHECK_DEADLOCK FALSE
