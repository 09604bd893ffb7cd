--------------------------- MODULE RecordWrapper ----------------------------
(***************************************************************************)
(* record_replay_wrapper of dbt_common/record.py: what a call of a function *)
(* marked @record_function (or @auto_record_function) does while a recorder *)
(* records.  Calls nest; the context variable RECORDED_BY_HIGHER_FUNCTION,  *)
(* one per context (thread), says that a call below on the stack will be    *)
(* recorded, and then the nested calls are not.                             *)
(*                                                                         *)
(* The program that is recorded is arbitrary: it enters, leaves or raises   *)
(* out of marked functions in any order that a call stack allows.           *)
(***************************************************************************)
EXTENDS Integers, Sequences, SequencesExt, FiniteSets

CONSTANTS
    Contexts,   \* contexts (threads) that run marked functions
    CallKinds,  \* the kinds of call the program makes, see AllKinds
    Params,     \* parameters the program calls with
    MayRaise,   \* a marked function may raise
    MaxCalls,   \* bound: calls of marked functions
    MaxDepth    \* bound: nested calls

\* no_recorder:  the invocation context has no recorder
\* filtered:     the record type is not among recorder.recorded_types
\* excluded:     params._include() is false
\* no_params:    the params class cannot be built from the arguments
\* no_result:    the result class cannot be built from what the call returns
\* plain:        none of these
AllKinds == {"no_recorder", "filtered", "excluded", "no_params", "no_result", "plain"}

ASSUME KindsAssumption == CallKinds \subseteq AllKinds /\ MayRaise \in BOOLEAN
ASSUME BoundsAssumption == MaxCalls \in Nat /\ MaxDepth \in Nat

VARIABLES
    stack,      \* the marked calls that are running in each context
    flag,       \* RECORDED_BY_HIGHER_FUNCTION in each context
    recording,  \* the records added, in the order of add_record
    calls,      \* number of calls made so far; a call is known by its number
    ended       \* the calls that are over, see Ended

vars == <<stack, flag, recording, calls, ended>>

Call == [call : Nat, kind : AllKinds, params : Params]

\* A frame with records = TRUE set the flag and will add a record.
Frame == [call : Nat, kind : AllKinds, params : Params, records : BOOLEAN]

\* A record holds the params and the value returned (each call returns a value
\* of its own, so the number of the call stands for it), or None.
NoResult == 0
Entry == [call : Nat, params : Params, result : Nat]

Ended == [call : Nat, wanted : BOOLEAN, raised : BOOLEAN]

Init ==
    /\ stack = [c \in Contexts |-> <<>>]
    /\ flag = [c \in Contexts |-> FALSE]
    /\ recording = <<>> /\ calls = 0 /\ ended = {}

-----------------------------------------------------------------------------
\* The wrapper calls the function and does nothing else.
CallsThrough(c, kind) ==
    kind \in {"no_recorder", "filtered", "excluded"} \/ flag[c]

MayCall(c) == calls < MaxCalls /\ Len(stack[c]) < MaxDepth

Push(c, kind, records) ==
    /\ \E p \in Params :
          stack' = [stack EXCEPT ![c] = Append(@,
              [call |-> calls + 1, kind |-> kind, params |-> p, records |-> records])]
    /\ calls' = calls + 1
    /\ UNCHANGED <<recording, ended>>

EnterThrough(c) ==
    /\ MayCall(c)
    /\ \E kind \in CallKinds : CallsThrough(c, kind) /\ Push(c, kind, FALSE)
    /\ UNCHANGED flag

\* Mutant: the flag is not set.
EnterRecordingUnflagged(c) ==
    /\ MayCall(c)
    /\ \E kind \in CallKinds : ~CallsThrough(c, kind) /\ Push(c, kind, TRUE)
    /\ UNCHANGED flag

\* RECORDED_BY_HIGHER_FUNCTION.set(True), and the function is called
EnterRecording(c) ==
    /\ MayCall(c)
    /\ \E kind \in CallKinds : ~CallsThrough(c, kind) /\ Push(c, kind, TRUE)
    /\ flag' = [flag EXCEPT ![c] = TRUE]

\* A call that is to be recorded: nothing keeps it from it, and no call below
\* on the stack is being recorded in its place.
Recordable(frame) == frame.kind \in {"plain", "no_params", "no_result"}
Wanted(c) ==
    /\ Last(stack[c]).kind \in {"plain", "no_result"}
    /\ \A i \in 1 .. Len(stack[c]) - 1 : ~Recordable(stack[c][i])

Pop(c, raised) ==
    /\ stack' = [stack EXCEPT ![c] = Front(@)]
    /\ ended' = ended \cup
          {[call |-> Last(stack[c]).call, wanted |-> Wanted(c), raised |-> raised]}
    /\ UNCHANGED calls

LeaveThrough(c) ==
    /\ stack[c] # <<>> /\ ~Last(stack[c]).records
    /\ Pop(c, FALSE)
    /\ UNCHANGED <<flag, recording>>

\* add_record(record_type(params=params, result=result)), if params is not None
AddRecord(frame) ==
    recording' = IF frame.kind = "no_params" THEN recording
                 ELSE Append(recording,
                        [call |-> frame.call, params |-> frame.params,
                         result |-> IF frame.kind = "no_result" THEN NoResult
                                    ELSE frame.call])

\* Mutant: the flag is only reset when there is a record to add.
LeaveRecordingFlagKept(c) ==
    /\ stack[c] # <<>> /\ Last(stack[c]).records
    /\ Pop(c, FALSE)
    /\ flag' = [flag EXCEPT ![c] = Last(stack[c]).kind = "no_params"]
    /\ AddRecord(Last(stack[c]))

LeaveRecording(c) ==
    /\ stack[c] # <<>> /\ Last(stack[c]).records
    /\ Pop(c, FALSE)
    /\ flag' = [flag EXCEPT ![c] = FALSE]
    /\ AddRecord(Last(stack[c]))

\* Mutant: a call that raises is recorded.
LeaveRaisingRecorded(c) ==
    /\ MayRaise /\ stack[c] # <<>>
    /\ Pop(c, TRUE)
    /\ IF Last(stack[c]).records THEN AddRecord(Last(stack[c])) ELSE UNCHANGED recording
    /\ UNCHANGED flag

\* The function raises: no statement after the call of func_to_record runs.
\* The caller may catch the exception, or raise in its turn.
LeaveRaising(c) ==
    /\ MayRaise /\ stack[c] # <<>>
    /\ Pop(c, TRUE)
    /\ UNCHANGED <<flag, recording>>

Next == \E c \in Contexts :
            \/ EnterThrough(c) \/ EnterRecording(c)
            \/ LeaveThrough(c) \/ LeaveRecording(c) \/ LeaveRaising(c)

Spec == Init /\ [][Next]_vars

-----------------------------------------------------------------------------
(* Properties                                                              *)

NobodyRaised == \A e \in ended : ~e.raised

\* Calls that returned are recorded exactly when they are to be: once if they
\* are outermost in their context, never if they run inside a recorded call.
ReturnsAreRecorded ==
    \A e \in ended : ~e.raised =>
        Cardinality({i \in DOMAIN recording : recording[i].call = e.call})
            = IF e.wanted THEN 1 ELSE 0

\* That is so as long as no marked call raised.
OutermostIsRecorded == NobodyRaised => ReturnsAreRecorded

\* Whatever raises, a call is never recorded inside another one that will be,
\* and only calls that returned leave a record: an interaction is in the
\* recording at most once, and one that did not end is not in it.
RecordedOnce ==
    /\ \A c \in Contexts :
          Cardinality({i \in DOMAIN stack[c] : stack[c][i].records}) <= 1
    /\ \A i, j \in DOMAIN recording :
          i # j => recording[i].call # recording[j].call
    /\ \A i \in DOMAIN recording :
          \E e \in ended : e.call = recording[i].call /\ ~e.raised /\ e.wanted
=============================================================================
