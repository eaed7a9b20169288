CONSTANTS
  Clients = {c1, c2}
  Newline = "nl"
  Nul = "nul"
  Texts <- SmallTexts
SPECIFICATION FairSpec
INVARIANTS TypeOK LinesArriveWhole
PROPERTIES CompleteLinesArrive ShutdownWaitsOnlyForClient
CHECK_DEADLOCK FALSE
