SPECIFICATION FairSpec

CONSTANTS
  word = word
  imEnd = imEnd
  bos = bos
  img1 = img1
  img2 = img2
  RefStart = refStart
  RefEnd = refEnd
  MaskStart = maskStart
  MaskEnd = maskEnd
  ZeroRow = zeroRow
  NaN = nan
  Null = null
  Vocab <- MCVocab
  StopTokens <- MCStopTokens
  PrefillCells <- MCPrefillCells
  MaskQuery <- MCMaskQuery
  NPast0 = 2
  NIter = 2
  MaxNewTokens = 7
  NSeqMax = 2
  SeqCap = 15
  ReadBy = "row"

INVARIANTS
  TypeOK
  AnswerInKv
  PhraseMatchesKv
  SegOutsFaithful
  NothingLeftLive

PROPERTIES
  AnswerFrozen
  ImplementsContract
  Terminates
