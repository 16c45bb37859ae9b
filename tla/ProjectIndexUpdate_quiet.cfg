SPECIFICATION Spec
CONSTANTS
  Files = {f1, f2}
  Shapes = {s1, s2}
  Texts = {t1, t2}
  NoFile = NoFile
  Torn = Torn
  Commands = {"build", "update", "force", "known", "changed", "docs"}
  Hazards = {}
  MaxEdits = 3
  MaxRuns = 3
SYMMETRY Alike
CHECK_DEADLOCK FALSE
INVARIANTS
  CleanRunIsCurrent
  CleanRunHasDocs
  UnchangedIsIndexed
