CONSTANTS
  Unit = 12
  RrfK = 1
  CollectionOf <- MCCollectionOf
  RoutingEnabled = TRUE
  Searches <- MCSearches
  Windows <- MCWindows
  Logits <- MCLogits
  Configs <- MCConfigs
  Budgets <- MCBudgets
  Drafts <- MCDrafts
  Collections = {"budgets", "transcripts"}
  Rerankers = {"disabled", "noop", "active"}
  Augmentation = TRUE
  Size <- MCSize
  ShortSize <- MCShortSize
  Hours <- MCHours
  ShortHours <- MCShortHours
SPECIFICATION StagesSpec
INVARIANTS
  BestFirst
  ConsensusOutranks
  DebugTellsTheTruth
  StagedAgreesWithOneShot
  ReportsAgreeWithSchema
  GroundedByShownAnchor
CHECK_DEADLOCK FALSE
