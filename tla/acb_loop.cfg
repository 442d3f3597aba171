CONSTANTS
  IterationLimit = 3
  Nothing = Nothing
SPECIFICATION Spec
CHECK_DEADLOCK FALSE
INVARIANTS
  BlockingIssuesHandled
  ToldByLatestBoss
PROPERTY
  Terminates
