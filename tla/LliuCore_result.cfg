\* What u_merge makes of the partial sums.
SPECIFICATION Spec
CONSTANTS
  VecLen = 32
  Vectors = {va, vb}
  NoVector = NoVector
  Weights = {0}
  ResetWeight = 0
  MayWrite = FALSE
  MayReset = FALSE
INVARIANTS ResultWhole
