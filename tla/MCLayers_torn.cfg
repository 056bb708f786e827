CONSTANTS
  k1 = k1
  k2 = k2
  v1 = v1
  Key = {k1, k2}
  Val = {v1}
  Tomb = Tomb
  None = None
  Missing = Missing
  Partial = Partial
  NoFile = NoFile
  CompactAt = 2
  MaxWal = 2
  MaxID = 3
  MaxTorn = 1
  MaxFaults = 1
  Candidate = {a, b}
  Nil = Nil
  Absent = Absent
  Owner = {x1, x2}
  TTL = 1
  Free = Free
  MaxTime = 2
  MaxIndex = 4
  MaxSessions = 2
  MaxLate = 1
  MaxTerm = 2
  MaxLog = 3
SPECIFICATION MCSpec
SYMMETRY Perms
INVARIANT ReadsAreDurable
CHECK_DEADLOCK FALSE
