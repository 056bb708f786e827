CONSTANTS
  s1 = s1
  s2 = s2
  Server = {s1, s2}
  x = x
  Cmd = {x}
  NoOp = NoOp
  Nil = Nil
  MaxTerm = 2
  MaxLog = 3
  MaxCalls = 2
  MaxRestarts = 1
SPECIFICATION FairSpec
INVARIANTS TypeOK VoteOnce
PROPERTY LeaderConverges
CHECK_DEADLOCK FALSE
