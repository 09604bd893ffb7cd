---------------------------- MODULE BehaviorFlags ----------------------------
(***************************************************************************)
(* dbt_common/behavior_flags.py: flags that announce, the first time they   *)
(* are found to be off, that the behaviour they control is off.  Threads    *)
(* share the flags and evaluate them without a lock: an evaluation reads    *)
(* fired, fires the event, which may raise, and then sets fired.            *)
(*                                                                         *)
(* To fire an event is to call the callbacks of the event manager, and a    *)
(* callback may evaluate a flag, also the one that is being announced: the  *)
(* thread is then in both evaluations.                                      *)
(*                                                                         *)
(* The setting of a flag is given when it is made and does not change;       *)
(* no_warn reads it and does nothing else.                                  *)
(***************************************************************************)
EXTENDS Integers, Sequences, SequencesExt, FiniteSets

CONSTANTS
    Evaluators, \* threads
    Flags

\* What an application may give as the value of a flag: false, true, or a value
\* that is no bool, such as 0, to which `is False` does not apply.
Settings == {"false", "true", "other"}

VARIABLES
    setting,    \* _setting of each flag
    fired,      \* fired of each flag
    evaluating, \* the evaluations each thread is in, the innermost last
    announced,  \* how often each thread has fired the event of each flag
    foundOff,   \* the flags that some evaluation has found to be off
    deepest     \* not in the code: see AnnouncedOnce

flagVars == <<setting, fired, evaluating, announced, foundOff, deepest>>

At(f, place) == [flag |-> f, at |-> place]

\* Where the innermost evaluation of a thread is.
IsAt(t, place) == evaluating[t] # <<>> /\ Last(evaluating[t]).at = place
Innermost(t) == Last(evaluating[t]).flag

\* The evaluations of f among those in s that are to announce it.
ToFire(s, f) == {i \in DOMAIN s : s[i] = At(f, "fire")}

InitFlags ==
    /\ setting \in [Flags -> Settings]
    /\ fired = [f \in Flags |-> FALSE]
    /\ evaluating = [t \in Evaluators |-> <<>>]
    /\ announced = [t \in Evaluators |-> [f \in Flags |-> 0]]
    /\ foundOff = {}
    /\ deepest = [t \in Evaluators |-> [f \in Flags |-> 0]]

-----------------------------------------------------------------------------
\* An evaluation begins, where the thread is in none or in a callback that the
\* innermost one has led to.
Evaluate(t, f, place) ==
    /\ evaluating[t] = <<>> \/ IsAt(t, "fire")
    /\ LET now == Append(evaluating[t], At(f, place))
           depth == Cardinality(ToFire(now, f))
       IN  /\ evaluating' = [evaluating EXCEPT ![t] = now]
           /\ deepest' = [deepest EXCEPT ![t][f] = IF depth > @ THEN depth ELSE @]
    /\ UNCHANGED <<setting, fired, announced, foundOff>>

\* Mutant: whether the event was fired is not looked at.
CheckSettingOnly(t, f) == Evaluate(t, f, IF setting[f] = "false" THEN "fire" ELSE "return")

\* BehaviorFlagRendered.setting, also when the flag is used as a condition.
Check(t, f) == Evaluate(t, f, IF setting[f] = "false" /\ ~fired[f] THEN "fire" ELSE "return")

\* fire_event comes back, and with it every callback.
Fire(t) ==
    /\ IsAt(t, "fire")
    /\ announced' = [announced EXCEPT ![t][Innermost(t)] = @ + 1]
    /\ evaluating' = [evaluating EXCEPT ![t][Len(evaluating[t])].at = "mark"]
    /\ UNCHANGED <<setting, fired, foundOff, deepest>>

\* The event manager raises: the event counts as an error, or a callback fails,
\* perhaps by what it evaluated.  fired stays as it is and the exception goes to
\* whoever evaluates the flag.
FireRaises(t) ==
    /\ IsAt(t, "fire")
    /\ evaluating' = [evaluating EXCEPT ![t] = Front(@)]
    /\ UNCHANGED <<setting, fired, announced, foundOff, deepest>>

Mark(t) ==
    /\ IsAt(t, "mark")
    /\ fired' = [fired EXCEPT ![Innermost(t)] = TRUE]
    /\ evaluating' = [evaluating EXCEPT ![t][Len(evaluating[t])].at = "return"]
    /\ UNCHANGED <<setting, announced, foundOff, deepest>>

Return(t) ==
    /\ IsAt(t, "return")
    /\ LET f == Innermost(t)
       IN  foundOff' = IF setting[f] = "false" THEN foundOff \cup {f} ELSE foundOff
    /\ evaluating' = [evaluating EXCEPT ![t] = Front(@)]
    /\ UNCHANGED <<setting, fired, announced, deepest>>

-----------------------------------------------------------------------------
\* Nobody is told that a flag is off before its event was fired completely by
\* some thread, whatever the evaluations that raised, that another thread
\* overtook or that began within each other.  A thread fires the event of a flag
\* no more often than it was, at one time, in evaluations of the flag that had
\* read fired and not yet fired the event: that is once, unless a callback of
\* this event evaluates the flag again.  The threads that read fired before it
\* is set fire the event each, nobody does after that.
AnnouncedOnce ==
    /\ \A f \in foundOff : \E t \in Evaluators : announced[t][f] > 0
    /\ \A f \in Flags, t \in Evaluators : announced[t][f] <= deepest[t][f]
    /\ \A f \in Flags : fired[f] => setting[f] = "false"
=============================================================================
