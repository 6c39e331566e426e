\* Keys come and go, deployments fail and recover, requests walk the routes.
CONSTANTS
  Templates <- Catalogues
  Provider <- HostProvider
  PROVIDER_PRIORITY <- Priority
  Optional <- Anonymous
  EXCLUDED <- Dead
  RESERVED <- Kept4Vision
  ToolsVerified <- ToolsOK
  VisionVerified <- VisionOK
  CLASSIFY_ORDER <- Classify
  NoKey <- Nobody
SPECIFICATION Spec
INVARIANTS
  TypeOK
  StandardIsExact
  NarrowedKeepOrder
  AnsweredWithinRoute
  FailsOnlyWhenAllTried
PROPERTY KeysInsertOnly
CHECK_DEADLOCK FALSE
