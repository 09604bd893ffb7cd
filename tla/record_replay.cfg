SPECIFICATION ReplaySpec
CONSTANTS
    Contexts = {c1, c2}
    CallKinds = {"no_recorder", "filtered", "excluded", "no_params", "no_result", "plain"}
    p1 = p1
    p2 = p2
    Params = {p1, p2}
    AsLoaded <- MCAsLoaded
    MayRaise = TRUE
    MaxCalls = 3
    MaxDepth = 3
SYMMETRY Symmetry
CHECK_DEADLOCK FALSE
INVARIANTS OutermostIsRecorded RecordedOnce ReplayMatches ReplayConsumesAll
