SPECIFICATION Spec
CONSTANTS
    logger = logger
    callback = callback
    t1 = t1
    t2 = t2
    default = default
    parse = parse
    Threads <- MCThreads
    Groups = {default, parse}
    Setups <- MCSetups
    MaxEvents = 3
    MaxFlushes = 2
    MaxDepth = 3
SYMMETRY Symmetry
CHECK_DEADLOCK FALSE
INVARIANTS DeferredInOrder UnseenIfStopped FlushIsBounded
PROPERTY Delivers
