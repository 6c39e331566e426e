SPECIFICATION Spec
CONSTANTS
  ROUTES <- PrintOrder
  Lengths <- ShortChains
  MaxRuns = 2
INVARIANTS
  TypeOK
  CompleteReport
  ReportIsPrefix
  NoMixedChain
  NewerStartsFirst
CHECK_DEADLOCK FALSE
