CONSTANTS
  t1 = t1
  t2 = t2
  a = a
  b = b
  Tasks = {t1, t2}
  Workers = {a, b}
  NoWorker = NoWorker
  MaxStarts = 1
  Edits = {"none"}
  NoEstimate = NoEstimate
  ProposalEnabled = FALSE
SPECIFICATION Spec
SYMMETRY Alike
CHECK_DEADLOCK FALSE
INVARIANTS
  FreshEstimate
