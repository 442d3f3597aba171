CONSTANTS
  q1 = q1
  q2 = q2
  i1 = i1
  i2 = i2
  p1 = p1
  k1 = k1
  c1 = c1
  c2 = c2
  Requests = {q1, q2}
  Ingests = {i1, i2}
  Paths = {p1}
  PathOf <- MCPathOf
  Chunks = {c1, c2}
  ChunksOf <- MCChunksOf
  Nobody = Nobody
  Keys = {k1}
  NoKey = NoKey
  KeyOf <- MCKeyOf
  ModeOf <- MCModeOf
  Matching = {c2}
  TopK = 1
  MaxAttempts = 2
  Reformulating = {q2}
  HasRoute = TRUE
  Reranking = TRUE
  Judging = TRUE
  OnRedis = TRUE
SPECIFICATION Spec
INVARIANTS
  CitationsWereShown
  AnswersMatchCorpus
  WholeDocuments
PROPERTY
  EveryRequestEnds
CHECK_DEADLOCK FALSE
