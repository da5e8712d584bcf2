SPECIFICATION Spec
CONSTANTS
  Sources = {a, b}
  Parametric = {b}
  MaxLoads = 2
  None = None
INVARIANT NewestRouteIsShown
CHECK_DEADLOCK FALSE
