SPECIFICATION Spec
CONSTANTS
  Signals = {x}
  Computeds = {}
  Effects = {e1, e2}
  Roots = {r}
  Hooks = {h}
  Source <- SignalOf
  Values = {0, 1}
  InitialValue = 0
  Devtools = TRUE
  Untracking = FALSE
  MaxStack = 3
  None = None
INVARIANTS NoStaleSubscriber SubscriptionsHaveCleanups
PROPERTY DisposalIsFinal
CHECK_DEADLOCK FALSE
SYMMETRY AlikeEffects
