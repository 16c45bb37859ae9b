SPECIFICATION Spec
CONSTANTS
  f1 = f1
  f2 = f2
  Functions = {f1, f2}
  Places = {p1, p2}
  Bodies <- EitherOrder
  Nowhere = Nowhere
  Options <- OneOrResolved
  Servers = {s1, s2}
  OldServers = {s2}
  MaxSaves = 1
  MaxRequests = 2
  MaxPrunes = 1
SYMMETRY AnyNames
CHECK_DEADLOCK FALSE
INVARIANTS
  XrefsAreOneGraph
  CacheIsFreshUnlessMoved
  XrefsPointToSymbols
