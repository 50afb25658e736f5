SPECIFICATION Spec
CONSTANTS
  Runs = {r1, r2}
  i1 = i1  i2 = i2  i3 = i3
  Inputs = {i1, i2, i3}  BadInputs = {i3}
  Registry <- Entries
  Global <- GlobalHooks
  YAMLs <- Files
  Outputs <- Kept
  None = None
SYMMETRY Symmetric
CHECK_DEADLOCK FALSE
INVARIANTS RepeatedOnlyAfterLoss RunSound
