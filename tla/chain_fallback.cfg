CONSTANTS
  Calls = {a, b}
  NoCall = NoCall
  MaxLive = 2
  MaxChunks = 1
  MaxSecond = 1
SPECIFICATION Spec
CHECK_DEADLOCK FALSE
INVARIANTS
  AnswerIsWhole
  AnswersSaved
PROPERTY
  EveryCallEnds
