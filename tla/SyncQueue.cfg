SPECIFICATION Spec
CONSTANTS
  Mutations = {1, 2}
  MaxCycles = 3
  CyclesSeen = 3
  None = None
INVARIANT DroppedAfterMaxCycles
CHECK_DEADLOCK FALSE
