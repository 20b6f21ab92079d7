SPECIFICATION FairTokenizerSpec

CONSTANTS
  Alpha = {"a", "A", "b"}
  Digits = {"1"}
  Space = {" "}
  Other = {"!"}
  Lower <- MCLower
  EndOfWord = "end"
  Sot = sot
  Eot = eot
  Pad = pad
  ContextLength = 5
  MergeTables <- MCMergeTables
  Texts <- MCTexts
  MaxCalls = 2

INVARIANTS
  CacheIsInRankOrder
  FramesThePrompt

PROPERTY
  Returns
