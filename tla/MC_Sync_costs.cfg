SPECIFICATION Spec
CONSTANTS
  PROVIDERS <- TheProviders
  Prefix <- ThePrefix
  Base <- TheBase
  VendorInPath = {"nvidia"}
  IDS <- TheIds
  Vendor <- TheVendor
  Segment <- TheSegment
  NAMES <- TheNames
  POOL <- ThePool
  CATCH_ALL <- TheCatchAll
  Required = {"openrouter", "nvidia", "llm7io", "huggingface"}
  Features = {"REDIS"}
  MAX_HEADER_LINES = 12
  SLAVES <- TheSlaves
  KeyNeeded = {"openrouter", "nvidia"}
  Paid = {"gpt-5"}
  Ambiguous = {"pickle"}
  AGGREGATORS = {"opencode-zen"}
  FirstParty <- TheFirstParty
  NonChat = {"embed"}
  Norm <- TheNorm
  Pretty <- ThePretty
  ZEN = {"pickle"}
  ZenLike = {"pickle"}
  DEAD <- TheDead
  EXEMPT = {"openrouter-free"}
  Lower <- TheLower
  CASE_SENSITIVE = {"huggingface"}
  FRAGMENT <- TheFragment
  Templates <- TheTemplates
  Envs <- TheEnvs
  Answers <- TheAnswers
  Curated <- TheCurated
  Prices <- ThePrices
  BACKUP_KEEP = 1
  MaxSyncs = 1
  MaxEvents = 0
INVARIANT CostFieldsPreserved
CHECK_DEADLOCK FALSE
