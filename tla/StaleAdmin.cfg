SPECIFICATION HTTPSpec
CONSTANTS
  Null = Null
  Undefined = Undefined
  Licenses = {l1}
  Fingerprints = {f1}
  UsageIds = {u1}
  MaxUsages = 1
  MaxTime = 1
  Dates = {1}
  MaxRotations = 1
  Procs = {p1, p2}
  TTL = 1
  IdleFor = 1
  Requests = {"create", "suspend", "resume", "revoke", "renew"}
SYMMETRY Symmetry
PROPERTY RevokedIsTerminal
