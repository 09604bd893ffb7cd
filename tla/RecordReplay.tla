----------------------------- MODULE RecordReplay ----------------------------
(***************************************************************************)
(* Record, then replay.  A program runs under RecordWrapper and its calls   *)
(* and returns are kept in a trace; the same program is then run again, in  *)
(* the same interleaving of its contexts, by a recorder in mode REPLAY that *)
(* has the recording just made.  A call that the wrapper mocks out does not *)
(* run, so neither do the calls nested in it.  The calls that can be         *)
(* recorded are of one record type, which has a result class.               *)
(*                                                                         *)
(* A recording comes to the second recorder in one of three ways:           *)
(*   memory: the records themselves, put into its lists by type, as the     *)
(*           tests do;                                                      *)
(*   list:   the file that write or the stream leaves, a list of dicts.     *)
(*           load reads it, but the look-up by type does not work on a list *)
(*           and raises TypeError for every call;                           *)
(*   dict:   a file that has the dicts of each type under its name, which   *)
(*           is what load says it returns and what the look-up needs (no    *)
(*           code here writes it).  from_dict makes records of them at the  *)
(*           first look-up: it raises for a record without a result, and    *)
(*           params need not be equal to what they were before JSON.        *)
(***************************************************************************)
EXTENDS RecordWrapper

\* What to_dict, JSON and from_dict make of params: a tuple comes back as a list.
CONSTANT AsLoaded

ASSUME LoadedAssumption == AsLoaded \in [Params -> Params]

VARIABLES
    source,    \* where the recording that is replayed comes from
    trace,     \* the program: what it did when it was recorded
    phase,     \* "record" or "replay"
    pos,       \* the next event of the trace
    skipped,   \* the events of the trace inside a mocked call
    records,   \* the records not consumed yet, in the order of the recording
    answers,   \* the call made and whose result it got, for each mocked call
    unmatched  \* expect_record raised

replayVars == <<source, phase, pos, skipped, records, answers, unmatched>>
allVars == <<vars, trace, replayVars>>

Event == [event : {"call", "return", "raise"}, context : Contexts, call : Nat,
          kind : AllKinds, params : Params]

TraceInit ==
    /\ Init
    /\ trace = <<>> /\ source = "memory" /\ phase = "record" /\ pos = 1 /\ skipped = {}
    /\ records = <<>> /\ answers = {} /\ unmatched = FALSE

EventOf(name, c, frame) ==
    [event |-> name, context |-> c, call |-> frame.call, kind |-> frame.kind,
     params |-> frame.params]

RecordStep(c) ==
    /\ phase = "record"
    /\ \/ /\ EnterThrough(c) \/ EnterRecording(c)
          /\ trace' = Append(trace, EventOf("call", c, Last(stack'[c])))
       \/ /\ LeaveThrough(c) \/ LeaveRecording(c)
          /\ trace' = Append(trace, EventOf("return", c, Last(stack[c])))
       \/ /\ LeaveRaising(c)
          /\ trace' = Append(trace, EventOf("raise", c, Last(stack[c])))
    /\ UNCHANGED replayVars

Sources == {"memory", "list", "dict"}

\* What the lists of the second recorder hold, or are to be made of.
Loaded(s) ==
    IF s = "dict"
    THEN [i \in DOMAIN recording |-> [recording[i] EXCEPT !.params = AsLoaded[@]]]
    ELSE recording

StartReplay ==
    /\ phase = "record" /\ \A c \in Contexts : stack[c] = <<>>
    /\ phase' = "replay"
    /\ source' \in Sources /\ records' = Loaded(source')
    /\ UNCHANGED <<vars, trace, pos, skipped, answers, unmatched>>

-----------------------------------------------------------------------------
Here == trace[pos]
Replaying == phase = "replay" /\ pos <= Len(trace) /\ ~unmatched

\* if recorder.mode == RecorderMode.REPLAY and params is not None, after the
\* checks of the recorder, the type filter and _include
Mocked(e) == e.event = "call" /\ e.kind \in {"plain", "no_result"}

\* The index of the event that ends the call that e began.
EndOf(e) ==
    CHOOSE i \in DOMAIN trace : trace[i].event # "call" /\ trace[i].call = e.call

\* Mutant: the body of a mocked call runs, and its nested calls are replayed.
EndOnly(i) == {EndOf(trace[i])}

\* What does not happen when the call at index i is mocked: what its context
\* did until the call ended.
Body(i) == {j \in i + 1 .. EndOf(trace[i]) : trace[j].context = trace[i].context}

\* _ensure_records_processed comes to an end.
Readable ==
    \/ source = "memory"
    \/ source = "dict" /\ \A i \in DOMAIN recording : recording[i].result # NoResult

\* pop_matching_record: the first record in the list with equal params
FirstMatchOf(e) == SelectInSeq(records, LAMBDA r : r.params = e.params)

ReplayMocked ==
    /\ Replaying /\ pos \notin skipped /\ Mocked(Here) /\ Readable
    /\ LET i == FirstMatchOf(Here)
       IN  /\ i # 0
           /\ answers' = answers \cup {[call |-> Here.call, got |-> records[i].result]}
           /\ records' = RemoveAt(records, i)
    /\ skipped' = skipped \cup Body(pos) /\ pos' = pos + 1
    /\ UNCHANGED <<vars, trace, source, phase, unmatched>>

\* No record, or none that can be made: expect_record raises.
ReplayUnmatched ==
    /\ Replaying /\ pos \notin skipped /\ Mocked(Here)
    /\ ~Readable \/ FirstMatchOf(Here) = 0
    /\ unmatched' = TRUE
    /\ UNCHANGED <<vars, trace, source, phase, pos, skipped, records, answers>>

\* The function itself is called, or a function that was called returns, or
\* what would happen is inside a mocked call.
ReplayThrough ==
    /\ Replaying /\ (pos \in skipped \/ ~Mocked(Here))
    /\ pos' = pos + 1
    /\ UNCHANGED <<vars, trace, source, phase, skipped, records, answers, unmatched>>

ReplayStep == ReplayMocked \/ ReplayUnmatched \/ ReplayThrough

ReplayNext == (\E c \in Contexts : RecordStep(c)) \/ StartReplay \/ ReplayStep

ReplaySpec == TraceInit /\ [][ReplayNext]_allVars

-----------------------------------------------------------------------------
(* Properties                                                              *)

\* Programs that can be replayed: no marked call raises, and each can describe
\* its params.  (A call that cannot is not recorded and keeps the calls nested
\* in it from being recorded, but replay asks for them.)
Replayable == NobodyRaised /\ \A i \in DOMAIN trace : trace[i].kind # "no_params"

\* No call is running while another context makes one with equal params.
EqualCallsDoNotOverlap ==
    \A i, j \in DOMAIN trace :
        (/\ Mocked(trace[i]) /\ Mocked(trace[j]) /\ trace[i].params = trace[j].params
         /\ trace[i].context # trace[j].context /\ i < j) => EndOf(trace[i]) < j

\* The call got what it returned when it was recorded, or what was kept of that.
IsOwn(answer) ==
    \E i \in DOMAIN recording :
        recording[i].call = answer.call /\ recording[i].result = answer.got

\* The records are what they were: in memory, or by type in a file, each with a
\* result and with params that JSON keeps.
Intact ==
    \/ source = "memory"
    \/ source = "dict" /\ \A i \in DOMAIN recording :
          recording[i].result # NoResult /\ AsLoaded[recording[i].params] = recording[i].params

\* Such a program can be replayed from its own recording, if that is intact: no
\* call of it asks for a record that is not there, and each gets its own, also
\* when there are several with its params, unless they are of calls that
\* overlapped.  (The file that the recorder writes is never intact.)
ReplayMatches ==
    Replayable /\ Intact =>
        /\ ~unmatched
        /\ \A a \in answers : EqualCallsDoNotOverlap => IsOwn(a)

\* A replay that runs to the end has consumed the whole recording, wherever that
\* comes from: what was recorded and not asked for again is a difference nobody
\* would see, and a recording that cannot be read, or not to the full, does not
\* pass for one that was replayed.
ReplayConsumesAll ==
    (phase = "replay" /\ Replayable /\ pos > Len(trace)) => records = <<>>
=============================================================================
