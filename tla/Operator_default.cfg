SPECIFICATION OpSpec
CONSTANTS
  Absent = Absent
  SagaTimeout = 1
  ReadyTimeout = 2
  MaxPods = 2
  MaxFaults = 1
INVARIANT CancelledIsDestroyed
CHECK_DEADLOCK FALSE
