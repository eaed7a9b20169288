CONSTANTS
  Clients = {c1}
  Newline = "nl"
  Nul = "nul"
  Texts <- SmallTexts
SPECIFICATION FairSpec
PROPERTIES SignalEndsProcess
CHECK_DEADLOCK FALSE
