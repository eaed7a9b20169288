CONSTANTS
  Cycle = 6
  Threshold = 15
  Poll = 3
  BusyCap = 5
  MissThreshold = 2
  Word = 1024
  Loads = {0, 8}
  Extras = {0, 2, 11, 23}
  Reports = {0, 7}
  Latency = 1
  Preempt = 1
  Backlog = 24
  StartDelay = 2
SPECIFICATION FairSpec
INVARIANTS TypeOK StallRaisesAlarm
PROPERTIES NoFalseAlarm CatchesUp
