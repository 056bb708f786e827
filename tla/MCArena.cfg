SPECIFICATION MCSpec
CONSTANTS
  anna = anna
  bora = bora
  Player = {anna, bora}
  Team <- MCTeam
  MaxHealth = 2
  FireCooldown = 2
  MatchTicks = 3
  InputCapacity = 2
  MaxDrain = 1
  MaxCommands = 2
  Producer = {a, b, c}
  Capacity = 1
  Zero = Zero
  MaxPush = 2
  Absent = Absent
  SagaTimeout = 3
  ReadyTimeout = 2
  MaxPods = 2
  MaxFaults = 1
INVARIANTS Prompt NoRace OnePod OnlyTimeoutLeaks
PROPERTIES ArenaEnds IsFifo FinalStays EverythingGoes
CHECK_DEADLOCK FALSE
