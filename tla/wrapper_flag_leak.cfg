SPECIFICATION ReplaySpec
CONSTANTS
    Contexts = {c1}
    CallKinds = {"plain"}
    p1 = p1
    p2 = p2
    Params = {p1, p2}
    AsLoaded <- MCAsLoaded
    MayRaise = TRUE
    MaxCalls = 2
    MaxDepth = 2
CHECK_DEADLOCK FALSE
INVARIANT ReturnsAreRecorded
