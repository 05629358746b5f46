SPECIFICATION Spec
CONSTANTS
  Null = Null
  Undefined = Undefined
  Licenses = {l1}
  Fingerprints = {f1, f2}
  UsageIds = {u1, u2, u3}
  MaxUsages = 2
  MaxTime = 2
  Dates = {1, 2, Null}
  MaxRotations = 1
SYMMETRY Symmetry
INVARIANT TypeOK
PROPERTIES RevokedIsTerminal AuditChains PersistedLikeEffective
