SPECIFICATION Spec
CONSTANTS
  Readers = {r1}
  Writers = {c1, c2, watcher}
  watcher = watcher
  NoThread = NoThread
  NoCommand = NoCommand
  Mixed = Mixed
  NoRead = NoRead
  Kinds = {"update", "module_map", "reload"}
  MaxSaves = 1
  MaxFailures = 1
CONSTRAINT NotOvertaken
CHECK_DEADLOCK FALSE
PROPERTIES
  GateReopens
  WatcherCatchesUp
