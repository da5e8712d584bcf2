SPECIFICATION Spec
CONSTANTS
  k1 = k1
  k2 = k2
  Keys = {k1, k2}
  Tags = {t}
  Values = {1, 2}
  Options <- BothOptions
  MaxSize = 1
  MaxBytes = 2
  Swr = 1
  Never = Never
  None = None
  MaxTime = 3
  MaxLoads = 2
  MaxBumps = 2
SYMMETRY Symm
INVARIANTS Bookkeeping LoadsAreSingle
PROPERTY LateCommitIsVoid
CHECK_DEADLOCK FALSE
