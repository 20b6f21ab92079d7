SPECIFICATION Spec

CONSTANTS
  x = x
  y = y
  MaskStart = maskStart
  MaskEnd = maskEnd
  Garbage = garbage
  MaskQuery <- MCMaskQuery
  Embeds <- MCEmbeds
  Prefixes <- MCPrefixes
  Phrases <- MCPhrases
  NLayers = 2
  NQueries = 2
  MaxCached = 4
  TokenTypes = {"f16", "other"}

INVARIANTS
  CacheIsPrefix
  CountedRowsAreThere

PROPERTY
  ImplementsNoCache
