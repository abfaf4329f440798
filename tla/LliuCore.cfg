\* 32 elements, weights written and rst at any time.
SPECIFICATION Spec
CONSTANTS
  VecLen = 32
  Vectors = {va, vb}
  NoVector = NoVector
  Weights = {0}
  ResetWeight = 0
  MayWrite = TRUE
  MayReset = TRUE
INVARIANTS EngineSums
PROPERTIES KeepsTiming
