SPECIFICATION FairSpec
CONSTANTS
  Stream = {a, b}
  AnyVersion = AnyVersion
  NoBatch = NoBatch
  MaxEvents = 2
  MaxBatch = 2
  MaxCalls = 2
  MaxFaults = 1
  MaxCrashes = 1
  ReadLimits = {1, 2}
  MaxDeliver = 2
  MaxErrors = 1
  MaxApplyErrs = 2
  MaxDlqErrors = 1
  MaxTrouble = 3
INVARIANTS AckedForever NeverSkipped AppliedOnceInOrder NeverDropped
PROPERTY EventuallyApplied
CHECK_DEADLOCK FALSE
