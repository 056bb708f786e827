SPECIFICATION MCSpec
CONSTANTS
  Player = {p, q}
  Region = {r1, r2, r3}
  Spawn = r1
  MaxTicks = 2
  MaxTrouble = 1
  Replicas = 3
  QuorumWindow = 4
  ElectionMin = 3
  MaxTerm = 2
  MaxSplits = 2
SYMMETRY Symmetry
INVARIANTS InStepInOrder OneOwner CutOffIsUnavailable SplitIsShort
CHECK_DEADLOCK FALSE
