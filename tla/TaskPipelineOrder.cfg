SPECIFICATION Spec
CONSTANTS
  Messages = {m1, m2, c1}
  Controls = {c1}
  None = None
  SinkMayFail = FALSE
  MaxCrashes = 1
SYMMETRY MessageSymmetry
INVARIANTS
  StartsInIntentOrder
  OneTaskSurvivesACancel
