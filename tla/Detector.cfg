SPECIFICATION Spec

CONSTANTS
  Height = 2
  Width = 3
  Heads = 2
  HeadDim = 2
  NumQueries = 2
  EncoderLayers = 2
  DecoderLayers = 3
  TextSeq = 3
  Valid <- MCValid

INVARIANTS
  MasksInPlace
  NoGraphLeft

PROPERTY ImplementsDetr
