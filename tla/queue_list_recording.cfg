SPECIFICATION Spec
CONSTANTS
    t1 = t1
    t2 = t2
    FileRecord = FileRecord
    QueryRecord = QueryRecord
    OtherParams = OtherParams
    Threads <- TwoThreads
    Types = {FileRecord, QueryRecord}
    Unregistered = {OtherParams}
    Params = {p1, p2}
    TypesOf <- SharedAndPrivate
    Formats = {FALSE}
    MaxSaved = 2
    MaxPops = 2
CHECK_DEADLOCK FALSE
INVARIANT RecordingsAreReplayed
