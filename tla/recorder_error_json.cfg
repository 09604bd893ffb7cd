SPECIFICATION Spec
CONSTANTS
    t1 = t1
    t2 = t2
    Nobody = Nobody
    Threads <- TwoThreads
    Types = {FileRecord}
    Fates = {"ok", "to_dict"}
    Modes = {TRUE}
    Callers = {TRUE}
    MaxAdds <- TwiceAndOnce
    MaxWrites <- TwiceIfStreaming
CHECK_DEADLOCK FALSE
INVARIANT RecordingIsJson
