SPECIFICATION FairSpec
CONSTANTS
  Null = Null
  Callers = {a}
  Beat = beat
  Ops = {"refresh"}
  TTL = 4
  ForceAfter = 1
  Threshold = 1
  Skew = 1
  GraceWindow = 1
  Timeout = 1
  IssuerMatchesSDK = FALSE
  MaxTime = 3
  MaxTokens = 2
  MaxSeats = 1
  MaxCrashes = 0
PROPERTIES RevocationSticks OutageEnds
