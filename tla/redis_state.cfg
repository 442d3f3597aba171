CONSTANTS
  p = p
  q = q
  recall = recall
  rerank = rerank
  Puts = {p, q}
  Fields = {recall, rerank}
  Values = {0, 1}
  Default = 0
  one = one
  other = other
  Legs = {one, other}
  NoLeg = NoLeg
  MaxNodes = 2
  MaxOutages = 1
  MaxRestarts = 1
SPECIFICATION Spec
SYMMETRY Alike
INVARIANTS
  SerialUpdatesEffective
  StalledLegsAreExplained
CHECK_DEADLOCK FALSE
