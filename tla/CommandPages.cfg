CONSTANTS
  Typed = {c1, long}
  TooLong = {long}
  Quick = {c2}
  Blank = Blank
  Null = Null
  MaxLog = 5
  MaxRecall = 2
  Ends = {2}
  MaxMoved = 1
  MaxRequests = 3
  MaxVisits = 2
SPECIFICATION FairSpec
INVARIANTS TypeOK AnswersMatchCommands LoadingMeansWaiting RecallInRange
PROPERTIES CommandsSettle
