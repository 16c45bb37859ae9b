SPECIFICATION Spec
CONSTANTS
  Files = {f1, f2}
  Shapes = {s1, s2}
  Texts = {t1}
  NoFile = NoFile
  Torn = Torn
  Commands = {"build", "update", "known", "changed"}
  Hazards = {"editDuringRun", "heldOpen", "killBuild", "killUpdate"}
  MaxEdits = 2
  MaxRuns = 3
SYMMETRY Alike
CHECK_DEADLOCK FALSE
INVARIANTS
  KilledUpdateIsRepeated
  BuildHeals
