CONSTANTS
    Null = Null
    WalkCap = 4
    Wirings <- Conforming
    Slugs = {"s1", "s2"}
    Names = {"n1", "n2"}
    Owners = {"w1", "w2"}
    Keys = {"k1", "k2", "k3"}
    StatusLists = {{"active"}, {"active", "pending"}}
    Devices = {"d1", "d2"}
    MaxRows <- RowBounds
    TicksPerMs = 2
    MaxTicks = 3
    Limits = {0, 1, 3}
    MaxLimit = 2
    Procs = {p1, p2}
    MaxWrites = 2
SPECIFICATION SessionSpec
CHECK_DEADLOCK FALSE
INVARIANTS AdaptersAgree PagesExact TxAllOrNothing
PROPERTY ImplementsContract
