SPECIFICATION Spec

CONSTANTS
  Requests <- MCRequests
  NQueries = 3
  NLayers = 2
  MaxTokens = 4

INVARIANTS
  PromptIsRead
  BoxesAreRefined
  RowsBelongTogether
  GraphsAreFreed
