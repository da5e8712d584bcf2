SPECIFICATION Spec
CONSTANTS
  Signals = {x}
  Computeds = {}
  Effects = {e1, e2}
  Roots = {}
  Hooks = {}
  Source <- SignalOf
  Values = {0, 1}
  InitialValue = 0
  Devtools = TRUE
  Untracking = FALSE
  MaxStack = 2
  None = None
INVARIANT BodyIsTracked
CHECK_DEADLOCK FALSE
