SPECIFICATION Spec
CONSTANTS
  Files = {f1, f2}
  Shapes = {s1, s2}
  Texts = {t1}
  NoFile = NoFile
  Torn = Torn
  Commands = {"build", "update", "known"}
  Hazards = {"heldOpen", "indexFailure", "killBuild", "killUpdate"}
  MaxEdits = 1
  MaxRuns = 4
SYMMETRY Alike
CHECK_DEADLOCK FALSE
PROPERTIES
  FailsOnlyOnDamage
