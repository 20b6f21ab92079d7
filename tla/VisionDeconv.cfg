SPECIFICATION Spec
CONSTANTS
  Grid = 4
  Window = 2
  Pretrain = 3
  Heads = 2
  NLayers = 3
  NeckChannels = 3
  GlobalLayers <- MCGlobalLayers
INVARIANTS
  DeconvInPlace
