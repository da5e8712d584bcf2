CONSTANTS
  Effects = {e1, e2}
  Ticks = {}
  Callbacks = {c1}
  Priorities = {0}
  AdapterModes = {FALSE}
  AgingThreshold = 1
  AgingStep = 1
  MaxFlushIterations = 2
  MaxDepth = 2
  MaxMicrotasks = 1
  MaxCallbacks = 1
SPECIFICATION FairSpec
INVARIANT LocksAreBacked
PROPERTIES SilentDropOnlyAfterCallbacks FlushTerminates QueuedIsServed
CHECK_DEADLOCK FALSE
