SPECIFICATION Spec

CONSTANTS
  a = a
  b = b
  prompt = prompt
  MaskStart = maskStart
  RefStart = refStart
  RefEnd = refEnd
  PadToken = pad
  NaN = nan
  Tokens <- MCTokens
  Answers <- MCAnswers
  MaskQuery <- MCMaskQuery
  PrefillCells <- MCPrefillCells
  NPast0 = 1
  PhraseMax = 4
  NSlots = 3
  MaxScore = 1

INVARIANT DecoderSeesPhrase
