\* Every index written today has an index.sqlite.
SPECIFICATION ChangeSpec
CONSTANTS
  UsesSqlite = TRUE
  MaxScript = 3
  MaxContext = 1
INVARIANT IndexedRangesAreListed
CHECK_DEADLOCK FALSE
