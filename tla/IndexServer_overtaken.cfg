SPECIFICATION Spec
CONSTANTS
  Readers = {r1}
  Writers = {c1, c2, c3, watcher}
  watcher = watcher
  NoThread = NoThread
  NoCommand = NoCommand
  Mixed = Mixed
  NoRead = NoRead
  Kinds = {"module_map"}
  MaxSaves = 0
  MaxFailures = 0
CHECK_DEADLOCK FALSE
INVARIANT OneCommandAtATime
