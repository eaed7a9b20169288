CONSTANTS
  MaxCommandsPerCycle = 2
  MissThreshold = 1
  MaxMisses = 1
  QueueCap = 1
  Traffic <- Injections
SPECIFICATION FairSpec
INVARIANTS FaultBitsAreActive StatusMatchesFaults DegradedGyroWasAnnounced
PROPERTIES LoopMakesProgress InjectionsDieOut
