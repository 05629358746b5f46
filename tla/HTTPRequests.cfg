SPECIFICATION HTTPSpec
CONSTANTS
  Null = Null
  Undefined = Undefined
  Licenses = {l1}
  Fingerprints = {f1}
  UsageIds = {u1, u2}
  MaxUsages = 1
  MaxTime = 2
  Dates = {2}
  MaxRotations = 1
  Procs = {p1, p2}
  TTL = 1
  IdleFor = 1
  Requests = {"create", "activate", "refresh", "suspend", "resume", "revoke", "renew", "delete", "rotate", "tick"}
SYMMETRY Symmetry
INVARIANT AuditMatchesRow
PROPERTY TokenHadLiveMoment
