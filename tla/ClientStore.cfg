SPECIFICATION Spec
CONSTANTS
  Null = Null
  Callers = {a}
  Beat = beat
  Ops = {"refresh", "guard", "activate", "deactivate"}
  TTL = 2
  ForceAfter = 1
  Threshold = 5
  Skew = 1
  GraceWindow = 1
  Timeout = 1
  IssuerMatchesSDK = TRUE
  MaxTime = 3
  MaxTokens = 2
  MaxSeats = 2
  MaxCrashes = 1
INVARIANTS GracePastDeadline RevokedUseIsBounded
PROPERTY GraceNotExtended
