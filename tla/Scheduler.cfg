CONSTANTS
  Effects = {e1, e2}
  Ticks = {}
  Callbacks = {}
  Priorities = {0, 1}
  AdapterModes = {FALSE, TRUE}
  AgingThreshold = 1
  AgingStep = 1
  MaxFlushIterations = 1
  MaxDepth = 1
  MaxMicrotasks = 1
  MaxCallbacks = 1
SPECIFICATION Spec
INVARIANTS TypeOK FlushIsComing QueuedKnowsDisposal
PROPERTY PriorityNeverWorsens
CHECK_DEADLOCK FALSE
