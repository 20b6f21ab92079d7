SPECIFICATION ApiSpec

CONSTANTS
  t1 = t1
  t2 = t2
  b1 = b1
  b2 = b2
  b3 = b3
  b4 = b4
  NULL = null
  Threads <- MCThreads
  Blocks <- MCBlocks
  MaxCount = 1
  MaxCalls = 3

SYMMETRY MCSymmetry

INVARIANTS
  HeapIsOwned
  ErrorIsOwn
  AnswerIsOwn
