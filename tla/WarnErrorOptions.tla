--------------------------- MODULE WarnErrorOptions ---------------------------
(***************************************************************************)
(* dbt_common/helper_types.py, WarnErrorOptions (V1) and                   *)
(* WarnErrorOptionsV2: which warnings are errors, which are silenced.  The *)
(* options keep the lists they were made from, and whoever passed a list   *)
(* may go on appending to it.  Lists are sets here, their order is never   *)
(* looked at; the strings "all" and "*" are one value.                     *)
(***************************************************************************)
EXTENDS Integers

CONSTANTS
    EventNames,    \* names of the event classes
    UnknownNames,  \* names no event has
    Deprecations,  \* the name WarnErrorOptionsV2.DEPRECATIONS
    DeprecationEvents  \* the events whose code starts with D

Names == EventNames \cup UnknownNames \cup {Deprecations}
Fields == {"error", "warn", "silence"}

ASSUME NamesAssumption ==
    /\ Deprecations \notin EventNames \cup UnknownNames
    /\ EventNames \cap UnknownNames = {}
    /\ DeprecationEvents \subseteq EventNames

\* What a field holds: a list, or, in error, a string.
ListOf(S) == [kind |-> "list", names |-> S]
String(k) == [kind |-> k, names |-> {}]
Value == {ListOf(S) : S \in SUBSET Names} \cup {String("all"), String("other")}
Empty == ListOf({})

VARIABLES
    passed,   \* the arguments the caller has, by field
    version,  \* "none", "raised", "V1" or "V2": what was made of them
    given,    \* the fields the caller gave an argument for
    shared    \* the fields that hold the caller's own list (or string)

vars == <<passed, version, given, shared>>

\* What the options see in a field: the caller's list, or one of their own.
Field(f) == IF f \in shared THEN passed[f] ELSE Empty

-----------------------------------------------------------------------------
(* errors and silenced, of an event; an event asked for by its name only   *)
(* is not known to be a deprecation.                                       *)

Queries ==
    {q \in [name : EventNames, deprecation : BOOLEAN] :
        q.deprecation => q.name \in DeprecationEvents}

Named(q, f) == q.name \in Field(f).names
AsDeprecation(q, f) == q.deprecation /\ Deprecations \in Field(f).names

\* Mutant: "all" is stronger than Deprecations.
ErrorsAllFirst(q) ==
    LET named_elsewhere == Named(q, "warn") \/ Named(q, "silence")
        deprecation_elsewhere == AsDeprecation(q, "warn") \/ AsDeprecation(q, "silence")
    IN  /\ ~named_elsewhere
        /\ \/ Named(q, "error") \/ Field("error").kind = "all"
           \/ AsDeprecation(q, "error") /\ ~deprecation_elsewhere

Errors(q) ==
    LET named_elsewhere == Named(q, "warn") \/ Named(q, "silence")
        deprecation_elsewhere == AsDeprecation(q, "warn") \/ AsDeprecation(q, "silence")
    IN  \/ Named(q, "error") /\ ~named_elsewhere
        \/ /\ AsDeprecation(q, "error") \/ Field("error").kind = "all"
           /\ ~named_elsewhere /\ ~deprecation_elsewhere

\* Mutant: a name in error or warn counts against a name in silence too.
SilencedUnlessNamed(q) ==
    /\ Named(q, "silence") \/ AsDeprecation(q, "silence")
    /\ ~Named(q, "error") /\ ~Named(q, "warn")

Silenced(q) ==
    \/ Named(q, "silence")
    \/ AsDeprecation(q, "silence") /\ ~Named(q, "error") /\ ~Named(q, "warn")

\* What EventManager.fire_event makes of a warning.
Verdict(q) ==
    IF Errors(q) THEN "error" ELSE IF Silenced(q) THEN "silence" ELSE "warn"

-----------------------------------------------------------------------------
(* Making the options                                                      *)

\* The arguments the caller has ready.
Init ==
    /\ passed \in [Fields -> Value]
    /\ \A f \in {"warn", "silence"} : passed[f].kind = "list"
    /\ version = "none" /\ given = {} /\ shared = {}

HasDeprecations(values, f) == Deprecations \in values[f].names

\* _validate_items of each list
ValidItems(values) ==
    \A f \in Fields : values[f].names \subseteq EventNames \cup {Deprecations}

\* WarnErrorOptionsV2.__post_init__
Valid(values) ==
    /\ values["error"].kind # "other"
    /\ \/ values["warn"].names = {}
       \/ values["error"].kind = "all"
       \/ HasDeprecations(values, "error")
       \/ HasDeprecations(values, "silence")
    /\ ValidItems(values)

\* The options are made from the arguments in fields and keep those in kept.
Make(v, fields, kept) ==
    /\ version = "none"
    /\ given' = fields
    /\ IF Valid([f \in Fields |-> IF f \in fields THEN passed[f] ELSE Empty])
       THEN version' = v /\ shared' = kept
       ELSE version' = "raised" /\ shared' = {}
    /\ UNCHANGED passed

\* Mutant: error or [], warn or [], silence or []
MakeV2Or(fields) == Make("V2", fields, {f \in fields : passed[f] # Empty})

\* WarnErrorOptionsV2(...): only None is replaced by a new list
MakeV2(fields) == Make("V2", fields, fields)

\* WarnErrorOptions(include, exclude, silence): include is required, and an
\* empty exclude or silence is replaced by a new list.
MakeV1(fields) ==
    /\ "error" \in fields
    /\ Make("V1", fields, {f \in fields : f = "error" \/ passed[f] # Empty})

\* The caller appends to one of the lists it has.  Nothing is validated.
AppendName(f, name) ==
    /\ passed[f].kind = "list"
    /\ passed' = [passed EXCEPT ![f] = ListOf(@.names \cup {name})]
    /\ UNCHANGED <<version, given, shared>>

Next ==
    \/ \E fields \in SUBSET Fields : MakeV2(fields) \/ MakeV1(fields)
    \/ version # "none" /\ \E f \in Fields, name \in Names : AppendName(f, name)

Spec == Init /\ [][Next]_vars

-----------------------------------------------------------------------------
(* Properties                                                              *)

\* The type invariant.
TypeOK ==
    /\ passed \in [Fields -> Value]
    /\ version \in {"none", "raised", "V1", "V2"}
    /\ given \subseteq Fields /\ shared \subseteq given

Made == version \in {"V1", "V2"}

\* An event is never both an error and silenced, so the order in which
\* fire_event asks does not matter.
NeverBoth == Made => \A q \in Queries : ~(Errors(q) /\ Silenced(q))

\* The hierarchy of the class documentation, as a search from the most
\* specific rule to the least: named > Deprecations > "all", and on each level
\* silence > warn > error.
Rules(q) ==
    <<[if |-> Named(q, "silence"), then |-> "silence"],
      [if |-> Named(q, "warn"), then |-> "warn"],
      [if |-> Named(q, "error"), then |-> "error"],
      [if |-> AsDeprecation(q, "silence"), then |-> "silence"],
      [if |-> AsDeprecation(q, "warn"), then |-> "warn"],
      [if |-> AsDeprecation(q, "error"), then |-> "error"],
      [if |-> Field("error").kind = "all", then |-> "error"],
      [if |-> TRUE, then |-> "warn"]>>

\* errors and silenced together say what the hierarchy of the class
\* documentation says.  The documentation of errors says otherwise of a
\* deprecation that only "all" and Deprecations speak of: see below.
FollowsHierarchy ==
    Made => \A q \in Queries, i \in 1 .. 8 :
        (Rules(q)[i].if /\ \A j \in 1 .. i - 1 : ~Rules(q)[j].if)
            => Verdict(q) = Rules(q)[i].then

\* The documentation of errors, second rule: with "all" in error an event is an
\* error unless it is itself named in warn or silence.  The code, like the
\* hierarchy, also excepts a deprecation when Deprecations is in one of them.
AllMeansAll ==
    Made => \A q \in Queries :
        Field("error").kind = "all" /\ ~Named(q, "warn") /\ ~Named(q, "silence") => Errors(q)

\* A list the caller passed to WarnErrorOptionsV2, empty or not, is the list
\* the options read: what the caller appends later counts.
CallerListsCount ==
    version = "V2" => \A f \in given : Field(f) = passed[f]

\* Appending to a list moves an event only if it, or Deprecations, was
\* appended, and only to the verdict the list is named after.
AppendMovesTo ==
    \A q \in Queries : Verdict(q)' # Verdict(q) =>
        \E f \in Fields :
            /\ Verdict(q)' = f
            /\ \E n \in Field(f)'.names \ Field(f).names :
                  n = q.name \/ (q.deprecation /\ n = Deprecations)
AppendsAreMonotone == [][Made => AppendMovesTo]_vars
=============================================================================
