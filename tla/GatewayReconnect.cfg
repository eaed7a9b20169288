CONSTANTS
  Sockets = {s1, s2, s3}
  Requests = {r1}
  Null = Null
SPECIFICATION FairSpec
PROPERTIES LinkRecovers
