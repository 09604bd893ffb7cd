SPECIFICATION Spec
CONSTANTS
    main = main
    w1 = w1
    w2 = w2
    node_info = node_info
    stage = stage
    root = root
    flag = flag
    Threads <- MCThreads
    Evaluators <- MCThreads
    Names = {node_info, stage, root}
    Prefix <- MCPrefix
    Values = {1, 2}
    MaxBlocks = 2
    Ellipsis = Ellipsis
    NoOne = NoOne
    Flags = {flag}
    Main = main
    Tasks = {k1, k2}
    None = None
    MaxInvocations = 2
    Programs <- MCPrograms
SYMMETRY Symmetry
CHECK_DEADLOCK FALSE
INVARIANTS ViewIsScoped AnnouncedOnce TasksAreIsolated
