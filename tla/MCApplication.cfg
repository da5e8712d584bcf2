SPECIFICATION RunSpec
CONSTANTS
  MaxCalls = 3
  None = None
INVARIANTS AllTyped SessionIsSound ListsAreSound EndsAreTimed
INVARIANT ResultsAreRight
CHECK_DEADLOCK FALSE
