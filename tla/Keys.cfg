SPECIFICATION KeysSpec
CONSTANTS
  Null = Null
  Kids = {k1, k2, k3, k4}
  Global = global
  Scopes = {global, s1}
  Algs = {ed25519, rs256}
  Dates = {1}
  Procs = {p1, p2}
  MaxTime = 1
  MaxKills = 1
SYMMETRY Symmetry
CHECK_DEADLOCK FALSE
INVARIANTS OneActiveSigner SignerNeverLost RotationIsAChain TokensChainInScope CliOneActivePerScopeAlg
