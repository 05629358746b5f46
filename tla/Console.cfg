SPECIFICATION ConsoleSpec
CONSTANTS
    Null = Null
    Undefined = Undefined
    Unit = 12
    Focuses = {"api", "list", "pages", "form", "session"}
    Tabs = {"t1", "t2"}
    Bearers = {"b1", "b2"}
    MaxClicks = 4
    PageClicks = 2
    MaxLosses = 1
CHECK_DEADLOCK FALSE
INVARIANTS ListExact DetailExact SealedTokenWasAccepted
PROPERTY PatchExact
