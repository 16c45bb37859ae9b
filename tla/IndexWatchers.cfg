SPECIFICATION Spec
CONSTANTS
  ServerWatchers = {w1, w2}
  Standalone = {alone}
  Managers = {m1, m2}
  Files = {f1, f2}
  None = None
  MaxSaves = 2
  MaxFailures = 1
SYMMETRY Alike
VIEW WithoutTheDead
CHECK_DEADLOCK FALSE
INVARIANTS
  WorkingWatcherHoldsLock
  
  LockHolderLives
