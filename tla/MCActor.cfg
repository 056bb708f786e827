SPECIFICATION MCSpec
CONSTANTS
  Sender = {a, b}
  Poisoner = {b}
  Size = 2
  Overflows = {"Block", "DropNewest"}
  Restarts = 1
  MaxSends = 4
  MaxFailures = 1
  Call = {a, b, c, d}
  Limit = 3
  FailureThreshold = 2
  HalfOpenMax = 1
  HalfOpenSuccesses = 2
  MaxErrors = 6
  MaxPanics = 1
INVARIANT NothingVanishes
PROPERTIES SendReturns EverythingRead Recovers
CHECK_DEADLOCK FALSE
