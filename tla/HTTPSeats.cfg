SPECIFICATION HTTPSpec
CONSTANTS
  Null = Null
  Undefined = Undefined
  Licenses = {l1}
  Fingerprints = {f1, f2}
  UsageIds = {u1, u2}
  MaxUsages = 2
  MaxTime = 2
  Dates = {Null}
  MaxRotations = 1
  Procs = {p1, p2}
  TTL = 3
  IdleFor = 1
  Requests = {"create", "update", "activate", "heartbeat", "deactivate", "sweep", "revokeUsage"}
SYMMETRY Symmetry
INVARIANTS OneSeatPerDevice SeatEndAuditedOnce
PROPERTIES SeatsWithinCap RevokedSeatStaysRevoked
