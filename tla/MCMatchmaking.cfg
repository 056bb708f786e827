SPECIFICATION Spec
CONSTANTS
  Player = {p1, p2, p3}
  Mode = {duel}
  Need = 2
  Hub = Hub
  NoMode = NoMode
  MaxMatches = 2
  MaxTrouble = 3
SYMMETRY Symmetry
INVARIANTS OneMatchAtATime NoArenaLeak NobodyStranded
CHECK_DEADLOCK FALSE
