SPECIFICATION Spec
CONSTANTS
  ROUTES <- PrintOrder
  Lengths <- ShortChains
  MaxRuns = 1
INVARIANT
  ReadyReportComplete
CHECK_DEADLOCK FALSE
