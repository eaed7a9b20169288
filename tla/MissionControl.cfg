CONSTANTS
  Null = Null
  MaxEvents = 3
  StreamCap = 2
  Stamps = 2
SPECIFICATION FairSpec
INVARIANTS TypeOK SafeIsExplained
PROPERTIES SafeIsShown PageShowsStatus
