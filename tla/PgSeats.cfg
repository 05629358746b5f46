SPECIFICATION FairSpec
CHECK_DEADLOCK FALSE
CONSTANTS
  Null = Null
  Procs = {p1, p2}
  Fingerprints = {f1, f2}
  UsageIds = {u1, u2, u3}
  MaxUsages = 2
INVARIANT PgOneSeatPerDevice
PROPERTY PgTransactionsEnd
