SPECIFICATION Spec
CONSTANTS
  Files = {f1, f2}
  Shapes = {s1, s2}
  Texts = {t1, t2}
  NoFile = NoFile
  Torn = Torn
  Commands = {"build", "update"}
  Hazards = {"editDuringRun"}
  MaxEdits = 2
  MaxRuns = 3
SYMMETRY Alike
CHECK_DEADLOCK FALSE
INVARIANTS
  UnchangedIsIndexed
