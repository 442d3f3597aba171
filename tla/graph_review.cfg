CONSTANTS
  t1 = t1
  t2 = t2
  a = a
  b = b
  Tasks = {t1, t2}
  Workers = {a}
  NoWorker = NoWorker
  MaxStarts = 2
  Edits = {"none", "replace", "empty"}
  NoEstimate = NoEstimate
  ProposalEnabled = TRUE
SPECIFICATION Spec
CHECK_DEADLOCK FALSE
INVARIANTS
  FreshEstimate
  TotalsMatchModules
  OnlyOwnDecisions
  RunsEndReviewed
PROPERTY
  PendingGateStays
