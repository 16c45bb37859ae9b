SPECIFICATION PartSpec
CONSTANTS
  Commands = {c1, c2}
  NoCommand = NoCommand
  Stoppers = {k1}
  MaxLines = 1
  Streams = {s1, s2}
  Refreshes = {r1, r2}
  MaxEvents = 4
  MaxAnswer = 3
  MaxShown = 4
  Total = 7
  PageEvents = 3
  Workers = {v1, v2}
  FileCount = 5
  ChunkSize = 2
  Limit = 2
  MaxHits = 2
  UsesSqlite = TRUE
  MaxScript = 4
  MaxContext = 1
  Scopes <- MCScopes
  Types <- MCTypes
  Callers <- MCCallers
  MaxFunctions = 2
  MaxUsings = 1
  Procs = {p1, p2, p3}
  Inodes = {i1, i2, i3, i4}
  Nobody = Nobody
  NoInode = NoInode
  HttpProcs = {p1, p2}
  HttpInodes = {i1, i2, i3}
  RemoveOnRelease = FALSE
INVARIANTS
  MutualExclusion
  OwnerTextNamesHolder
  QuitLeavesNoChild
  ExitNoteIsLast
  StreamLosesOnlyToBursts
  PageMissesOnlyJumps
  AnswerIsFirstHits
  NumbersAreExact
  ChangeLeadsToSource
  MeantIsFirst
  HttpHoldersLockDistinctFiles
PROPERTIES
  ImplementsExclusiveLock
  ExitIsShown
  StreamCatchesUp
CHECK_DEADLOCK FALSE
