CONSTANTS
  MaxCommandsPerCycle = 2
  MissThreshold = 2
  MaxMisses = 3
  QueueCap = 2
  Traffic <- Protective
SPECIFICATION Spec
INVARIANTS TypeOK SustainedMissesForceSafe SafeFrameBlocksInjection
PROPERTIES RefinesSafeMode
CHECK_DEADLOCK FALSE
