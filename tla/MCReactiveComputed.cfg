SPECIFICATION Spec
CONSTANTS
  Signals = {x}
  Computeds = {c}
  Effects = {e1}
  Roots = {}
  Hooks = {h}
  Source <- SignalOf
  Values = {0, 1}
  InitialValue = 0
  Devtools = TRUE
  Untracking = TRUE
  MaxStack = 3
  None = None
INVARIANTS EverybodyCatchesUp ContextIsClean
CHECK_DEADLOCK FALSE
