------------------------------ MODULE Recorder ------------------------------
(***************************************************************************)
(* The recording half of dbt_common/record.py: threads call                *)
(* Recorder.add_record concurrently, and the caller of the library calls   *)
(* Recorder.write.  A recorder either streams (mode RECORD, not            *)
(* in_memory: "[" is written when the file is opened, each record is       *)
(* written as it is added, "]" when the stream is cleaned up) or keeps     *)
(* lists in memory that write() sorts and dumps.                           *)
(*                                                                         *)
(* The recording file is a sequence of tokens.  json.dump writes a record  *)
(* in many chunks, here two: its head and its tail.                        *)
(***************************************************************************)
EXTENDS Integers, Sequences, FiniteSets, SequencesExt

CONSTANTS
    Threads,      \* threads that run recorded functions
    Types,        \* names of record classes
    Fates,        \* how serializing a record may go, see AllFates
    Modes,        \* whether recorders stream: mode = RECORD and not in_memory
    Callers,      \* whether callers call write() only while no add_record runs
    MaxAdds,      \* bound: calls of add_record per thread
    MaxWrites,    \* bound: calls of write, of a recorder that streams or not
    Nobody        \* the holder of a lock that is free

\* A record is serialized, or record.to_dict() raises before anything is
\* written, or json.dump raises when part of the record is in the file.
AllFates == {"ok", "to_dict", "encode"}

ASSUME NobodyAssumption == Nobody \notin Threads
ASSUME TypesAssumption == Types # {} /\ Fates \subseteq AllFates
ASSUME BoundsAssumption == MaxAdds \in [Threads -> Nat] /\ MaxWrites \in [BOOLEAN -> Nat]
ASSUME FlagsAssumption == Modes \subseteq BOOLEAN /\ Callers \subseteq BOOLEAN

VARIABLES
    streaming,      \* whether this recorder streams
    joins,          \* whether this caller waits for the threads before write()
    pc,             \* where each thread is in add_record
    rec,            \* the record each thread is adding
    calls,          \* calls of add_record each thread has made
    returned,       \* records whose add_record returned
    raised,         \* records whose add_record raised
    counter,        \* self._counter
    counterLock,    \* self._counter_lock: its holder
    recordingFile,  \* self._recording_file: "none" (None), "open", "closed"
    fileLock,       \* self._recording_file_lock: its holder
    recordAdded,    \* self._record_added
    listed,         \* the keys of self._records_by_type
    recordsByType,  \* self._records_by_type[type], <<>> for other types
    file,           \* what current_recording_path was given
    wpc,            \* where the caller is in write
    writes,         \* calls of write that were made
    known,          \* the types there were when write began to iterate over them
    unread,         \* those it has still to come to
    gathered,       \* the records it has read (record_list)
    due             \* history: what had been added when write was called

addVars     == <<pc, rec, calls, returned, raised>>
counterVars == <<counter, counterLock>>
streamVars  == <<fileLock, recordAdded, file>>
memoryVars  == <<listed, recordsByType>>
listVars    == <<known, unread, gathered, due>>
writeVars   == <<recordingFile, wpc, writes, listVars>>
setupVars   == <<streaming, joins>>
vars == <<setupVars, addVars, counterVars, streamVars, memoryVars, writeVars>>

Record == [by : Threads, nth : Nat, type : Types, fate : AllFates, seq : Int]
NoSeq == -1

Token == [kind : {"open", "comma", "close"}]
           \cup [kind : {"head", "tail", "error"}, rec : Record]
Open  == [kind |-> "open"]
Comma == [kind |-> "comma"]
Close == [kind |-> "close"]
RecordHead(r)  == [kind |-> "head", rec |-> r]
RecordTail(r)  == [kind |-> "tail", rec |-> r]
ErrorObject(r) == [kind |-> "error", rec |-> r]

-----------------------------------------------------------------------------
(* __init__: a streaming recorder opens the file and writes "[".           *)

NewRecord(t, n, type, fate) ==
    [by |-> t, nth |-> n, type |-> type, fate |-> fate, seq |-> NoSeq]

Init ==
    /\ streaming \in Modes /\ joins \in Callers
    /\ pc = [t \in Threads |-> "idle"]
    /\ rec = [t \in Threads |-> NewRecord(t, 0, CHOOSE y \in Types : TRUE, "ok")]
    /\ calls = [t \in Threads |-> 0]
    /\ returned = {} /\ raised = {}
    /\ counter = 0 /\ counterLock = Nobody
    /\ recordingFile = IF streaming THEN "open" ELSE "none"
    /\ file = IF streaming THEN <<Open>> ELSE <<>>
    /\ fileLock = Nobody /\ recordAdded = FALSE
    /\ listed = {} /\ recordsByType = [y \in Types |-> <<>>]
    /\ wpc = "idle" /\ writes = 0
    /\ known = {} /\ unread = {} /\ gathered = {} /\ due = {}

-----------------------------------------------------------------------------
(* add_record: the steps of one call.                                      *)

Goto(t, label) == pc' = [pc EXCEPT ![t] = label]

Return(t) ==
    /\ Goto(t, "idle")
    /\ returned' = returned \cup {rec[t]}
    /\ UNCHANGED <<rec, calls, raised>>

Raise(t) ==
    /\ Goto(t, "idle")
    /\ raised' = raised \cup {rec[t]}
    /\ UNCHANGED <<rec, calls, returned>>

StartAdd(t) ==
    /\ pc[t] = "idle" /\ calls[t] < MaxAdds[t]
    /\ joins => wpc = "idle"
    /\ \E type \in Types, fate \in Fates :
          rec' = [rec EXCEPT ![t] = NewRecord(t, calls[t] + 1, type, fate)]
    /\ calls' = [calls EXCEPT ![t] = @ + 1]
    /\ Goto(t, "lock_counter")
    /\ UNCHANGED <<returned, raised, counterVars, streamVars, memoryVars, writeVars>>

\* Mutant: the counter is read and incremented without the lock.
LockCounterNotTaken(t) ==
    /\ pc[t] = "lock_counter"
    /\ Goto(t, "assign_seq")
    /\ UNCHANGED <<rec, calls, returned, raised, counterVars, streamVars, memoryVars, writeVars>>

\* with self._counter_lock
LockCounter(t) ==
    /\ pc[t] = "lock_counter" /\ counterLock = Nobody
    /\ counterLock' = t
    /\ Goto(t, "assign_seq")
    /\ UNCHANGED <<rec, calls, returned, raised, counter, streamVars, memoryVars, writeVars>>

\* record.seq = self._counter
AssignSeq(t) ==
    /\ pc[t] = "assign_seq"
    /\ rec' = [rec EXCEPT ![t].seq = counter]
    /\ Goto(t, "bump_counter")
    /\ UNCHANGED <<calls, returned, raised, counterVars, streamVars, memoryVars, writeVars>>

\* self._counter += 1, and the lock is released
BumpCounter(t) ==
    /\ pc[t] = "bump_counter"
    /\ counter' = counter + 1
    /\ counterLock' = Nobody
    /\ Goto(t, "check_file")
    /\ UNCHANGED <<rec, calls, returned, raised, streamVars, memoryVars, writeVars>>

\* Mutant: the stream is only used once it holds a record.
CheckFileHasRecord(t) ==
    /\ pc[t] = "check_file"
    /\ Goto(t, IF recordAdded THEN "lock_file" ELSE "check_list")
    /\ UNCHANGED <<rec, calls, returned, raised, counterVars, streamVars, memoryVars, writeVars>>

\* if self._recording_file is not None, read without a lock
CheckFile(t) ==
    /\ pc[t] = "check_file"
    /\ Goto(t, IF recordingFile # "none" THEN "lock_file" ELSE "check_list")
    /\ UNCHANGED <<rec, calls, returned, raised, counterVars, streamVars, memoryVars, writeVars>>

\* Mutant: records are streamed without the lock.
LockFileNotTaken(t) ==
    /\ pc[t] = "lock_file"
    /\ Goto(t, "comma")
    /\ UNCHANGED <<rec, calls, returned, raised, counterVars, streamVars, memoryVars, writeVars>>

\* with self._recording_file_lock
LockFile(t) ==
    /\ pc[t] = "lock_file" /\ fileLock = Nobody
    /\ fileLock' = t
    /\ Goto(t, "comma")
    /\ UNCHANGED <<rec, calls, returned, raised, recordAdded, file,
                   counterVars, memoryVars, writeVars>>

\* Every write to the file goes through self._recording_file: on None or on a
\* closed file it raises.
CanWrite == recordingFile = "open"

Append1(token) == CanWrite /\ file' = Append(file, token)

\* if self._record_added: self._recording_file.write(","), outside the try
WriteComma(t) ==
    /\ pc[t] = "comma"
    /\ IF recordAdded THEN Append1(Comma) ELSE UNCHANGED file
    /\ Goto(t, "dump")
    /\ UNCHANGED <<rec, calls, returned, raised, fileLock, recordAdded,
                   counterVars, memoryVars, writeVars>>

\* Mutant: the lock is released before the RecordingError object is written.
DumpHeadUnlocks(t) ==
    /\ pc[t] = "dump"
    /\ IF rec[t].fate = "to_dict" \/ ~CanWrite
         THEN Goto(t, "dump_error") /\ UNCHANGED <<file, fileLock>>
         ELSE /\ Append1(RecordHead(rec[t]))
              /\ IF rec[t].fate = "encode"
                   THEN Goto(t, "dump_error") /\ fileLock' = Nobody
                   ELSE Goto(t, "dump_tail") /\ UNCHANGED fileLock
    /\ UNCHANGED <<rec, calls, returned, raised, recordAdded,
                   counterVars, memoryVars, writeVars>>

\* _get_tagged_dict, and json.dump up to its last chunk
DumpHead(t) ==
    /\ pc[t] = "dump"
    /\ IF rec[t].fate = "to_dict" \/ ~CanWrite
         THEN Goto(t, "dump_error") /\ UNCHANGED file
         ELSE /\ Append1(RecordHead(rec[t]))
              /\ Goto(t, IF rec[t].fate = "encode" THEN "dump_error" ELSE "dump_tail")
    /\ UNCHANGED <<rec, calls, returned, raised, fileLock, recordAdded,
                   counterVars, memoryVars, writeVars>>

\* the end of json.dump; self._record_added = True; the lock is released
DumpTail(t) ==
    /\ pc[t] = "dump_tail"
    /\ IF CanWrite
         THEN /\ Append1(RecordTail(rec[t]))
              /\ recordAdded' = TRUE
              /\ fileLock' = Nobody
              /\ Return(t)
         ELSE /\ Goto(t, "dump_error")
              /\ UNCHANGED <<rec, calls, returned, raised, streamVars>>
    /\ UNCHANGED <<counterVars, memoryVars, writeVars>>

\* except Exception: json.dump of a RecordingError object; the lock is released
DumpError(t) ==
    /\ pc[t] = "dump_error" /\ CanWrite
    /\ Append1(ErrorObject(rec[t]))
    /\ fileLock' = Nobody
    /\ Return(t)
    /\ UNCHANGED <<recordAdded, counterVars, memoryVars, writeVars>>

\* Mutant: an exception leaves the lock held.
WriteRaisesLocked(t) ==
    /\ \/ pc[t] = "comma" /\ recordAdded
       \/ pc[t] = "dump_error"
    /\ ~CanWrite
    /\ Raise(t)
    /\ UNCHANGED <<streamVars, counterVars, memoryVars, writeVars>>

\* Writing the comma or the RecordingError object raises out of add_record;
\* the with statement releases the lock.
WriteRaises(t) ==
    /\ \/ pc[t] = "comma" /\ recordAdded
       \/ pc[t] = "dump_error"
    /\ ~CanWrite
    /\ fileLock' = Nobody
    /\ Raise(t)
    /\ UNCHANGED <<recordAdded, file, counterVars, memoryVars, writeVars>>

\* Mutant: the list of a type is created anew for each record.
CheckListNot(t) ==
    /\ pc[t] = "check_list"
    /\ Goto(t, "create_list")
    /\ UNCHANGED <<rec, calls, returned, raised, counterVars, streamVars, memoryVars, writeVars>>

\* if rec_cls_name not in self._records_by_type
CheckList(t) ==
    /\ pc[t] = "check_list"
    /\ Goto(t, IF rec[t].type \in listed THEN "append" ELSE "create_list")
    /\ UNCHANGED <<rec, calls, returned, raised, counterVars, streamVars, memoryVars, writeVars>>

\* self._records_by_type[rec_cls_name] = []
CreateList(t) ==
    /\ pc[t] = "create_list"
    /\ listed' = listed \cup {rec[t].type}
    /\ recordsByType' = [recordsByType EXCEPT ![rec[t].type] = <<>>]
    /\ Goto(t, "append")
    /\ UNCHANGED <<rec, calls, returned, raised, counterVars, streamVars, writeVars>>

\* self._records_by_type[rec_cls_name].append(record)
AppendRecord(t) ==
    /\ pc[t] = "append"
    /\ recordsByType' = [recordsByType EXCEPT ![rec[t].type] = Append(@, rec[t])]
    /\ Return(t)
    /\ UNCHANGED <<listed, counterVars, streamVars, writeVars>>

-----------------------------------------------------------------------------
(* write and clean_up_stream.  Neither takes the file lock.                *)

AddRunning == \E t \in Threads : pc[t] # "idle"

MayWrite ==
    /\ wpc = "idle" /\ writes < MaxWrites[streaming]
    /\ joins => ~AddRunning

\* self._recording_file.write("]")
WriteBracket ==
    /\ MayWrite /\ recordingFile = "open"
    /\ file' = Append(file, Close)
    /\ wpc' = "close" /\ writes' = writes + 1
    /\ UNCHANGED <<addVars, counterVars, fileLock, recordAdded, memoryVars, recordingFile,
                   listVars>>

\* self._recording_file.close()
CloseFile ==
    /\ wpc = "close"
    /\ recordingFile' = "closed" /\ wpc' = "unset"
    /\ UNCHANGED <<addVars, counterVars, streamVars, memoryVars, writes, listVars>>

\* self._recording_file = None
UnsetFile ==
    /\ wpc = "unset"
    /\ recordingFile' = "none" /\ wpc' = "idle"
    /\ UNCHANGED <<addVars, counterVars, streamVars, memoryVars, writes, listVars>>

\* write without a stream: open(current_recording_path, "w"), which empties the
\* file, and the start of _to_list's iteration over the dict of the lists
OpenList ==
    /\ MayWrite /\ recordingFile = "none"
    /\ file' = <<>>
    /\ known' = listed /\ unread' = listed /\ gathered' = {} /\ due' = returned
    /\ wpc' = "gather" /\ writes' = writes + 1
    /\ UNCHANGED <<addVars, counterVars, fileLock, recordAdded, memoryVars, recordingFile>>

\* write has ended, and its local variables are gone.
EndList ==
    /\ wpc' = "idle"
    /\ known' = {} /\ unread' = {} /\ gathered' = {} /\ due' = {}

\* record_list.extend(...): the dicts of one list
GatherType ==
    /\ wpc = "gather" /\ listed = known
    /\ \E y \in unread :
          /\ \A r \in ToSet(recordsByType[y]) : r.fate # "to_dict"
          /\ gathered' = gathered \cup ToSet(recordsByType[y])
          /\ unread' = unread \ {y}
    /\ UNCHANGED <<addVars, counterVars, streamVars, memoryVars, recordingFile, wpc, writes,
                   known, due>>

\* Mutant: an iteration that is disturbed ends, and what it has read is dumped.
IterationEnds ==
    /\ wpc = "gather" /\ listed # known
    /\ unread' = {} /\ known' = listed
    /\ UNCHANGED <<addVars, counterVars, streamVars, memoryVars, recordingFile, wpc, writes,
                   gathered, due>>

\* A record's to_dict raises, or the iteration does because a thread has added a
\* type (types are never taken away): the exception leaves write, and the file empty.
ListRaises ==
    /\ wpc = "gather"
    /\ \/ listed # known
       \/ \E y \in unread : \E r \in ToSet(recordsByType[y]) : r.fate = "to_dict"
    /\ EndList
    /\ UNCHANGED <<addVars, counterVars, streamVars, memoryVars, recordingFile, writes>>

\* The records read, each once, in some order.
SomeOrder ==
    {s \in BoundedSeq(gathered, counter) : ToSet(s) = gathered /\ IsInjective(s)}

\* record_list.sort by seq
SortedRecords ==
    {s \in SomeOrder : \A i, j \in DOMAIN s : i < j => s[i].seq <= s[j].seq}

\* json.dump of a list of records: "[", heads and tails, commas, "]"
ListTokens(s) ==
    [i \in 1 .. (IF s = <<>> THEN 2 ELSE 3 * Len(s) + 1) |->
        LET r == s[((i - 2) \div 3) + 1]
        IN  IF i = 1 THEN Open
            ELSE IF s = <<>> \/ i = 3 * Len(s) + 1 THEN Close
            ELSE IF i % 3 = 2 THEN RecordHead(r)
            ELSE IF i % 3 = 0 THEN RecordTail(r)
            ELSE Comma]

\* What dumping s leaves in the file: json.dump raises after the head of the
\* first record that it cannot serialize.
Dumped(s) ==
    LET bad == {i \in DOMAIN s : s[i].fate = "encode"}
    IN  IF bad = {} THEN {ListTokens(s)}
        ELSE {SubSeq(ListTokens(s), 1, 3 * i - 1) :
                 i \in {k \in bad : \A j \in bad : k <= j}}

\* The iteration is over; sort, json.dump, and the file is closed.
DumpList ==
    /\ wpc = "gather" /\ listed = known /\ unread = {}
    /\ \E s \in SortedRecords : file' \in Dumped(s)
    /\ EndList
    /\ UNCHANGED <<addVars, counterVars, fileLock, recordAdded, memoryVars, recordingFile, writes>>

-----------------------------------------------------------------------------
AddStep(t) ==
    \/ LockCounter(t) \/ AssignSeq(t) \/ BumpCounter(t)
    \/ CheckFile(t) \/ LockFile(t) \/ WriteComma(t)
    \/ DumpHead(t) \/ DumpTail(t) \/ DumpError(t) \/ WriteRaises(t)
    \/ CheckList(t) \/ CreateList(t) \/ AppendRecord(t)

WriteListStep == GatherType \/ ListRaises \/ DumpList

WriteStep == WriteBracket \/ CloseFile \/ UnsetFile \/ OpenList \/ WriteListStep

Next ==
    /\ (\E t \in Threads : StartAdd(t) \/ AddStep(t)) \/ WriteStep
    /\ UNCHANGED setupVars

Spec == Init /\ [][Next]_vars

\* A thread inside add_record keeps being scheduled, and so does the caller
\* inside write; nobody has to start a call.
Fairness ==
    /\ \A t \in Threads : WF_vars(AddStep(t) /\ UNCHANGED setupVars)
    /\ WF_vars((CloseFile \/ UnsetFile \/ WriteListStep) /\ UNCHANGED setupVars)

FairSpec == Spec /\ Fairness

-----------------------------------------------------------------------------
(* Properties                                                              *)

Labels == {"idle", "lock_counter", "assign_seq", "bump_counter", "check_file",
           "lock_file", "comma", "dump", "dump_tail", "dump_error",
           "check_list", "create_list", "append"}
InFileSection == {"comma", "dump", "dump_tail", "dump_error"}

\* The type invariant.
TypeOK ==
    /\ streaming \in BOOLEAN /\ joins \in BOOLEAN
    /\ pc \in [Threads -> Labels]
    /\ rec \in [Threads -> Record]
    /\ \A t \in Threads : rec[t].by = t
    /\ calls \in [Threads -> Nat]
    /\ returned \subseteq Record /\ raised \subseteq Record
    /\ counter \in Nat /\ counterLock \in Threads \cup {Nobody}
    /\ recordingFile \in {"none", "open", "closed"}
    /\ fileLock \in Threads \cup {Nobody} /\ recordAdded \in BOOLEAN
    /\ file \in Seq(Token)
    /\ listed \subseteq Types /\ recordsByType \in [Types -> Seq(Record)]
    /\ wpc \in {"idle", "close", "unset", "gather"} /\ writes \in Nat
    /\ known \subseteq Types /\ unread \subseteq known
    /\ gathered \subseteq Record /\ due \subseteq Record

\* The records that were given a sequence number so far.
Numbered ==
    returned \cup raised
      \cup {rec[t] : t \in {u \in Threads :
                pc[u] \notin {"idle", "lock_counter", "assign_seq"}}}

\* Sequence numbers tell records apart and leave no gap, whatever the threads
\* do: no two numbered records share one, and every number below the counter
\* was given to a record.
SeqIdentifiesRecord ==
    /\ \A r, s \in Numbered : r.seq = s.seq => r = s
    /\ \A n \in 0 .. counter - 1 : \E r \in Numbered : r.seq = n

\* Two tokens that may stand next to each other in a JSON list of objects.
MayFollow(a, b) ==
    \/ a.kind = "open" /\ b.kind \in {"head", "error", "close"}
    \/ a.kind = "comma" /\ b.kind \in {"head", "error"}
    \/ a.kind = "head" /\ b.kind = "tail" /\ b.rec = a.rec
    \/ a.kind \in {"tail", "error"} /\ b.kind \in {"comma", "close"}

JsonPrefix(f) == /\ f # <<>> /\ f[1] = Open
                 /\ \A i \in 1 .. Len(f) - 1 : MayFollow(f[i], f[i + 1])

JsonList(f) == JsonPrefix(f) /\ f[Len(f)] = Close

Begun == returned \cup raised \cup {rec[t] : t \in {u \in Threads : pc[u] # "idle"}}
AllSerializable == \A r \in Begun : r.fate = "ok"

\* What streaming threads write, interleaved in any way, is at every moment
\* the beginning of a JSON list, and a whole one once the first write() is
\* over, as long as every record can be serialized and write() is not called
\* while records are being added.
StreamIsJson ==
    (streaming /\ joins /\ writes <= 1 /\ AllSerializable) =>
        /\ JsonPrefix(file)
        /\ (writes = 1 /\ wpc = "idle") => JsonList(file)

\* The same without the hypothesis on serialization: the RecordingError branch
\* of add_record is there to keep the recording usable when a record is not.
RecordingIsJson ==
    (streaming /\ joins /\ writes = 1 /\ wpc = "idle") => JsonList(file)

InFile(r) == \E i \in 1 .. Len(file) - 1 :
                file[i] = RecordHead(r) /\ file[i + 1] = RecordTail(r)

Stored == UNION {ToSet(recordsByType[y]) : y \in listed}

\* No other thread adds records of the type of r.
AloneWithType(r) == \A q \in Begun : q.type = r.type => q.by = r.by

\* When add_record returns, its record is where write() will find it: whole in
\* the stream, or in the lists (or in the file they were dumped to), if no
\* other thread adds records of its type.  (The list of a type is made without
\* a lock: two threads may make it twice and lose what is in the first.)
ReturnedIsStored ==
    (streaming => joins /\ writes <= 1) => \A r \in returned :
        r.fate = "ok" /\ AloneWithType(r) => InFile(r) \/ r \in Stored

\* The first write() of a streaming recorder leaves every record added so far in the
\* file.  (A second write() finds no stream and overwrites the file with what was added
\* to the lists since.)
StreamIsWhole ==
    (streaming /\ joins /\ writes' = 1) => \A r \in returned : r.fate = "ok" => InFile(r)'

\* A write() of lists that leaves anything in the file leaves all that had been added
\* when it was called, also if threads go on adding, to the lists it has read or not,
\* or make lists of new types; and it does leave something if it waits for the threads.
ListIsWhole ==
    (~streaming /\ AllSerializable) =>
        /\ joins => file' # <<>>
        /\ file' # <<>> => \A r \in due : AloneWithType(r) => InFile(r)'

\* The step that ends a write() leaves a complete recording, of either kind.
WriteEnds == wpc # "idle" /\ wpc' = "idle"
WriteIsComplete == [][WriteEnds => StreamIsWhole /\ ListIsWhole]_vars

\* What a record that fails leaves in the file is never mixed with another
\* record's tokens: the lock covers the error path too.
ErrorsAreIsolated ==
    (streaming /\ joins /\ writes <= 1) =>
        \A i \in 1 .. Len(file) - 1 :
            file[i].kind = "head" =>
                /\ file[i + 1].kind \in {"tail", "error"}
                /\ file[i + 1].rec = file[i].rec

\* A lock is held exactly while its holder is in the section it protects.
LocksMatchSections ==
    \A t \in Threads :
        /\ counterLock = t <=> pc[t] \in {"assign_seq", "bump_counter"}
        /\ fileLock = t <=> pc[t] \in InFileSection

\* Every call of add_record ends, by returning or by raising: no lock is left
\* held by an exception, whatever write() does to the file meanwhile.
AddEnds == \A t \in Threads : (pc[t] # "idle") ~> (pc[t] = "idle")
=============================================================================
