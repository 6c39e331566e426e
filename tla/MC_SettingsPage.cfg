SPECIFICATION Spec
CONSTANTS
  Providers = {"cloudflare", "huggingface", "ovhcloud"}
  Needed <- TheNeeded
  Query <- TheQuery
  Values = {"", "example", "good", "bad", "url", "old url"}
  Examples = {"example"}
  Accepted <- TheAccepted
  HTTP_RETRIES = 3
  Slots <- TheSlots
  Typed <- TheTyped
  Default <- TheDefault
  MaxActs = 3
INVARIANTS
  TypeOK
  CacheTrue
  RetriedAsNeeded
  EditsStored
  CheckOfStoredKey
PROPERTY EveryRequestEnds
CHECK_DEADLOCK FALSE
