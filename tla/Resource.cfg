SPECIFICATION Spec
CONSTANTS
  Ops = {"create", "update", "delete"}
  Bodies = {"b"}
  MaxRetries = 1
  MaxCalls = 2
INVARIANTS TypeOK DedupeIsInFlight LoadingIsBacked NoGhostPatch QueueInOrder
PROPERTY OnlyRetriesOvertake
CHECK_DEADLOCK FALSE
