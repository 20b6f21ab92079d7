SPECIFICATION FairCacheSpec

CONSTANTS
  p1 = p1
  p2 = p2
  p3 = p3
  NoFile = none
  Procs <- MCProcs
  NChunks = 2

INVARIANTS
  CacheTypeOK
  CachedLacksOnlyUnwritten
  NoPartLeft

PROPERTIES
  CachedStays
  Resolves
