CONSTANTS
  Sockets = {s1, s2, s3, s4}
  Null = Null
  MaxRuns = 4
  MaxFrames = 3
  MaxFailures = 2
  MaxEvents = 5
  MAX_HISTORY = 2
SPECIFICATION FairSpec
INVARIANTS TypeOK StreamHasNoGaps OneSocketPerRun OneRunKeepsOrder
PROPERTIES LiveAgain
CHECK_DEADLOCK FALSE
