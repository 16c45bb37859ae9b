SPECIFICATION Spec
CONSTANTS
  Readers = {r1}
  Writers = {c1, c2, watcher}
  watcher = watcher
  NoThread = NoThread
  NoCommand = NoCommand
  Mixed = Mixed
  NoRead = NoRead
  Kinds = {"update", "module_map", "reload"}
  MaxSaves = 2
  MaxFailures = 1
SYMMETRY Alike
CHECK_DEADLOCK FALSE
INVARIANTS
  OneCommandUnlessOvertaken
  NoCallDuringUpdate
  LoadsWholeIndex
  CacheCurrentUnlessMishap
  SleepersHaveWaker
