CONSTANTS
  t1 = t1
  t2 = t2
  Tasks = {t1, t2}
  Invented = Invented
  NoHours = NoHours
  Unit = 12
  Epsilon = 1
  WeightUnit = 12
  Searches <- MCSearches
  TopK = 2
  FarthestUsed = 6
  Synthesis = TRUE
  Contradiction = 6
  LowReliability = 8
  MaxIterations = 3
  MaxCalls = 2
  Offers <- MCOffers
  References <- MCReferences
  Scale = 100
  HasKey = TRUE
SPECIFICATION Spec
INVARIANTS
  TraceExplainsHours
  ToolFiguresAreSound
  StopIsTruthful
PROPERTY
  LoopEnds
CHECK_DEADLOCK FALSE
