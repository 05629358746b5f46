CONSTANTS
    Pipes = {"routes", "limits", "guard"}
    Limited = {"node"}
    Skipping = {"hono"}
    Callers = {"c1", "c2"}
    Peers = {"p1", "p2"}
    Burst = 1
    RefillNum = 1
    RefillDen = 2
    Second = 2
    MaxTime = 5
    MaxRequests = 3
    Records <- MCRecords
    Bindings <- MCBindings
    Registry = {"ed25519", "rs256-pss"}
    Procs = {"v1", "v2"}
    Focuses = {"envelopes", "claims", "replay"}
    Skew <- MCSkew
    Kids = {"kid1", "kid2", "kid3", "kid4"}
    Jtis = {"j1"}
    MaxNow = 4
    MaxCalls = 3
    MaxLosses = 1
SPECIFICATION GatewaySpec
CHECK_DEADLOCK FALSE
INVARIANTS PipelineExact CodecsExact  LedgerExact
PROPERTIES LimiterHonest EveryRequestAnswered
