SPECIFICATION Spec
CONSTANTS
  Checkpoints = {"first", "second", "clash"}
  a = a
  b = b
  c = c
  d = d
  e = e
  x = x
  y = y
  Canonical <- MCCanonical
  Aliases <- MCAliases
  ShortNames = {1, 2, 3, 4, 5, 6, 7}
  None = None
  TensorsOf <- MCTensorsOf
  Alias <- MCAlias
  Short <- MCShort
INVARIANTS
  NamesNeverCross
  NamesResolve
