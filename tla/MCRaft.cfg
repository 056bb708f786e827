CONSTANTS
  s1 = s1
  s2 = s2
  s3 = s3
  Server = {s1, s2, s3}
  x = x
  Cmd = {x}
  NoOp = NoOp
  Nil = Nil
  MaxTerm = 2
  MaxLog = 2
  MaxCalls = 2
  MaxRestarts = 0
SPECIFICATION Spec
SYMMETRY Perms
VIEW View
INVARIANTS ElectionSafety StateMachineSafety
PROPERTY CommittedNeverCut
CHECK_DEADLOCK FALSE
