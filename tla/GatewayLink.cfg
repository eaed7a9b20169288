CONSTANTS
  Sockets = {s1, s2, s3}
  Requests = {r1, r2}
  Null = Null
SPECIFICATION FairSpec
INVARIANTS TypeOK AtMostOneConnection ConnectedMeansOpen
PROPERTIES RequestsAreAnswered
