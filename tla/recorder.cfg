SPECIFICATION FairSpec
CONSTANTS
    t1 = t1
    t2 = t2
    Nobody = Nobody
    Threads <- TwoThreads
    Types = {FileRecord, QueryRecord}
    Fates = {"ok", "encode"}
    Modes = {TRUE, FALSE}
    Callers = {TRUE, FALSE}
    MaxAdds <- TwiceAndOnce
    MaxWrites <- TwiceIfStreaming
CHECK_DEADLOCK FALSE
INVARIANTS SeqIdentifiesRecord StreamIsJson ErrorsAreIsolated ReturnedIsStored
PROPERTIES WriteIsComplete AddEnds
