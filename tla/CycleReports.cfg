CONSTANTS
  Durations = {400000, 1000000, 1000004, 1000005, 12345678}
  Streams = {s1, s2}
  PipeCap = 2
  MissThreshold = 2
  MAX_HISTORY = 3
  Null = Null
  MaxCycles = 4
  MaxFailures = 1
SPECIFICATION Spec
INVARIANTS TypeOK BudgetBarAgrees MissesAddUp StreakIsCharted
