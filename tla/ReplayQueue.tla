----------------------------- MODULE ReplayQueue -----------------------------
(***************************************************************************)
(* The replaying half of dbt_common/record.py: threads call                *)
(* Recorder.expect_record concurrently.  The records of a type are built   *)
(* from the loaded recording when one is first asked for                   *)
(* (_ensure_records_processed); then the list is searched for equal params *)
(* and the match is removed from it (pop_matching_record).  No lock is     *)
(* taken, so every step below may be interleaved with the others'.         *)
(*                                                                         *)
(* Record defines no equality: list.remove removes that very object, and   *)
(* raises ValueError when it is not in the list any more.  A thread builds *)
(* the list of a type at most once, so <<type, thread>> names a list.      *)
(***************************************************************************)
EXTENDS Integers, Sequences, SequencesExt, FiniteSets

CONSTANTS
    Threads,
    Types,       \* record types with a registered class
    Unregistered,\* names of params classes that no record type has
    Params,      \* values of params
    TypesOf,     \* the types each thread asks for
    Formats,     \* whether recordings map types to records (else they are lists)
    MaxSaved,    \* bound: records of one type in the recording
    MaxPops      \* bound: calls of expect_record per thread

ASSUME TypesAssumption == TypesOf \in [Threads -> SUBSET (Types \cup Unregistered)]
ASSUME DisjointAssumption == Types \cap Unregistered = {}
ASSUME FormatsAssumption == Formats \subseteq BOOLEAN
ASSUME BoundsAssumption == MaxSaved \in Nat /\ MaxPops \in Nat
ASSUME NonEmptyAssumption == Threads # {} /\ Types # {} /\ Params # {}

VARIABLES
    asDict,   \* whether this recording maps types to records
    loaded,   \* the types whose lists were built before the threads started
    saved,    \* _unprocessed_records_by_type: the params of each saved record
    known,    \* the keys of _records_by_type
    current,  \* _records_by_type: the thread whose list is the type's list
    lists,    \* the record objects in each list
    pc, type, params,  \* where each thread is, and what it asks for
    using,    \* local variable records: the list the thread searches
    index,    \* the position of its iteration
    match,    \* the record object it found
    pops,     \* calls of expect_record it has made
    outcomes  \* how the calls ended

recordVars == <<saved, known, current, lists>>
localVars == <<type, params, using, index, match, pops>>
setupVars == <<asDict, loaded>>
vars == <<setupVars, recordVars, pc, localVars, outcomes>>

\* The object built for a saved record: two lists hold different objects.
Obj == [entry : Nat, params : Params, list : Threads]
Objects(y, t) == [i \in DOMAIN saved[y] |->
                     [entry |-> i, params |-> saved[y][i], list |-> t]]

AnyThread == CHOOSE t \in Threads : TRUE

Init ==
    /\ \E present \in SUBSET Types :
          saved \in [present -> BoundedSeq(Params, MaxSaved)]
    /\ asDict \in Formats
    /\ loaded \in {{}, IF asDict THEN DOMAIN saved ELSE {}}
    /\ known = loaded
    /\ current = [y \in Types |-> AnyThread]
    /\ lists = [y \in Types |-> [t \in Threads |->
                   IF y \in loaded /\ t = AnyThread THEN Objects(y, t) ELSE <<>>]]
    /\ pc = [t \in Threads |-> "idle"]
    /\ type = [t \in Threads |-> CHOOSE y \in Types : TRUE]
    /\ params = [t \in Threads |-> CHOOSE p \in Params : TRUE]
    /\ match = [t \in Threads |->
                   [entry |-> 0, params |-> params[t], list |-> AnyThread]]
    /\ using = [t \in Threads |-> AnyThread]
    /\ index = [t \in Threads |-> 0]
    /\ pops = [t \in Threads |-> 0]
    /\ outcomes = {}

-----------------------------------------------------------------------------
Goto(t, label) == pc' = [pc EXCEPT ![t] = label]

\* how is "found" (with the number of the saved record), "missing" (expect_record
\* raises Exception()) or "error" (an exception of the lookup itself).
End(t, how, entry) ==
    /\ Goto(t, "idle")
    /\ outcomes' = outcomes \cup
          {[by |-> t, nth |-> pops[t], type |-> type[t], params |-> params[t],
            how |-> how, entry |-> entry]}

Expect(t) ==
    /\ pc[t] = "idle" /\ pops[t] < MaxPops
    /\ \E y \in TypesOf[t], p \in Params :
          type' = [type EXCEPT ![t] = y] /\ params' = [params EXCEPT ![t] = p]
    /\ pops' = [pops EXCEPT ![t] = @ + 1]
    /\ Goto(t, "check")
    /\ UNCHANGED <<recordVars, using, index, match, outcomes>>

\* if rec_type_name is None: raise
RaiseUnregistered(t) ==
    /\ pc[t] = "check" /\ type[t] \in Unregistered
    /\ End(t, "error", 0)
    /\ UNCHANGED <<recordVars, localVars>>

\* if record_type_name in self._records_by_type: return
CheckProcessed(t) ==
    /\ pc[t] = "check" /\ type[t] \in Types
    /\ Goto(t, IF type[t] \in known THEN "get" ELSE "build")
    /\ UNCHANGED <<recordVars, localVars, outcomes>>

\* self._unprocessed_records_by_type[record_type_name] raises KeyError for a
\* type that is not in the recording, TypeError when the recording is a list.
RaiseUnloaded(t) ==
    /\ pc[t] = "build" /\ (~asDict \/ type[t] \notin DOMAIN saved)
    /\ End(t, "error", 0)
    /\ UNCHANGED <<recordVars, localVars>>

\* rec_list is built from the loaded dictionaries
BuildList(t) ==
    /\ pc[t] = "build" /\ asDict /\ type[t] \in DOMAIN saved
    /\ lists' = [lists EXCEPT ![type[t]][t] = Objects(type[t], t)]
    /\ Goto(t, "assign")
    /\ UNCHANGED <<saved, known, current, localVars, outcomes>>

\* Mutant: the processed type is not remembered.
AssignListForgets(t) ==
    /\ pc[t] = "assign"
    /\ current' = [current EXCEPT ![type[t]] = t]
    /\ Goto(t, "get")
    /\ UNCHANGED <<saved, known, lists, localVars, outcomes>>

\* self._records_by_type[record_type_name] = rec_list
AssignList(t) ==
    /\ pc[t] = "assign"
    /\ current' = [current EXCEPT ![type[t]] = t]
    /\ known' = known \cup {type[t]}
    /\ Goto(t, "get")
    /\ UNCHANGED <<saved, lists, localVars, outcomes>>

\* Mutant: the iteration starts one too far.
GetListFromSecond(t) ==
    /\ pc[t] = "get"
    /\ using' = [using EXCEPT ![t] = current[type[t]]]
    /\ index' = [index EXCEPT ![t] = 2]
    /\ Goto(t, "scan")
    /\ UNCHANGED <<recordVars, type, params, match, pops, outcomes>>

\* records = self._records_by_type[rec_type_name], and the iteration starts
GetList(t) ==
    /\ pc[t] = "get"
    /\ using' = [using EXCEPT ![t] = current[type[t]]]
    /\ index' = [index EXCEPT ![t] = 1]
    /\ Goto(t, "scan")
    /\ UNCHANGED <<recordVars, type, params, match, pops, outcomes>>

Searched(t) == lists[type[t]][using[t]]

\* for rec in records: if rec.params == params
ScanNext(t) ==
    /\ pc[t] = "scan" /\ index[t] <= Len(Searched(t))
    /\ IF Searched(t)[index[t]].params = params[t]
         THEN /\ match' = [match EXCEPT ![t] = Searched(t)[index[t]]]
              /\ Goto(t, "remove") /\ UNCHANGED index
         ELSE /\ index' = [index EXCEPT ![t] = @ + 1]
              /\ UNCHANGED <<pc, match>>
    /\ UNCHANGED <<recordVars, type, params, using, pops, outcomes>>

\* The iteration ends without a match: expect_record raises Exception().  In
\* another thread's hands the list may have become shorter than index.
ScanEnd(t) ==
    /\ pc[t] = "scan" /\ index[t] > Len(Searched(t))
    /\ End(t, "missing", 0)
    /\ UNCHANGED <<recordVars, localVars>>

\* Mutant: a match that another thread has removed is returned too.
RemoveIfThere(t) ==
    /\ pc[t] = "remove"
    /\ lists' = [lists EXCEPT ![type[t]][using[t]] = RemoveFirst(@, match[t])]
    /\ End(t, "found", match[t].entry)
    /\ UNCHANGED <<saved, known, current, localVars>>

\* records.remove(match); the record's result is returned
RemoveMatch(t) ==
    /\ pc[t] = "remove" /\ Contains(Searched(t), match[t])
    /\ lists' = [lists EXCEPT ![type[t]][using[t]] = RemoveFirst(@, match[t])]
    /\ End(t, "found", match[t].entry)
    /\ UNCHANGED <<saved, known, current, localVars>>

\* records.remove raises ValueError: another thread has removed the match
RemoveRaises(t) ==
    /\ pc[t] = "remove" /\ ~Contains(Searched(t), match[t])
    /\ End(t, "error", match[t].entry)
    /\ UNCHANGED <<recordVars, localVars>>

ExpectStep(t) ==
    \/ Expect(t) \/ RaiseUnregistered(t) \/ CheckProcessed(t) \/ RaiseUnloaded(t)
    \/ BuildList(t) \/ AssignList(t) \/ GetList(t)
    \/ ScanNext(t) \/ ScanEnd(t) \/ RemoveMatch(t) \/ RemoveRaises(t)

Next == (\E t \in Threads : ExpectStep(t)) /\ UNCHANGED setupVars

Spec == Init /\ [][Next]_vars

-----------------------------------------------------------------------------
(* Properties                                                              *)

\* The saved records of type y with params p, and those that some call got.
Taken(y, p) ==
    {o.entry : o \in {x \in outcomes : x.how = "found" /\ x.type = y /\ x.params = p}}
Saved(y, p) ==
    IF y \in DOMAIN saved THEN {i \in DOMAIN saved[y] : saved[y][i] = p} ELSE {}

\* Types only one thread asks for.
Private == {y \in Types : \A t, u \in Threads : y \in TypesOf[t] \cap TypesOf[u] => t = u}

\* One saved record answers one call: replaying does not invent interactions.
\* (Nothing guards the making of a list, so threads that share a type only get
\* this if its list is there when they start.)
EntryAnswersOnce ==
    \A a, b \in outcomes :
        (/\ a.how = "found" /\ b.how = "found" /\ a.type = b.type /\ a.entry = b.entry
         /\ a.type \in Private \cup loaded) => a = b

\* No call for a type of its thread's own is told that there is no record while
\* one with its params is left.
NoFalseMiss ==
    \A o \in outcomes : (o.how = "missing" /\ o.type \in Private) =>
        Saved(o.type, o.params) \subseteq Taken(o.type, o.params)

\* Equal params of such calls are answered in the order of the recording.
TakenInOrder ==
    \A y \in Private, p \in Params : \A i, j \in Saved(y, p) :
        (i < j /\ j \in Taken(y, p)) => i \in Taken(y, p)

\* A type of a thread's own is replayed as the recording says, whatever other threads
\* do with other types: in order, and to the end.
AnsweredInOrder == NoFalseMiss /\ TakenInOrder

\* The lookup never fails for a type the recording holds, whatever its format.
RecordingsAreReplayed ==
    \A o \in outcomes :
        o.how = "error" => o.type \notin DOMAIN saved \/ o.type \notin Private
=============================================================================
