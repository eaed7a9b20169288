CONSTANTS
  MaxCommandsPerCycle = 5
  MissThreshold = 3
  MaxMisses = 0
  QueueCap = 1
  Traffic <- Simple
SPECIFICATION Spec
PROPERTIES PoppedCommandsAreProcessed
