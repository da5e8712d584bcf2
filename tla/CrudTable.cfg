SPECIFICATION Spec
CONSTANTS
  Items = {1, 2}
  Matching = {1}
  PageSize = 1
  MaxAttempts = 2
  MaxCalls = 3
INVARIANT BulkDeletesAll
CHECK_DEADLOCK FALSE
