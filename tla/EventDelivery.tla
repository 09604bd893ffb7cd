---------------------------- MODULE EventDelivery ----------------------------
(***************************************************************************)
(* What the event manager promises about the events given to it: each is   *)
(* accepted once and has exactly one end, that nothing changes any more.   *)
(* It is delivered to every receiver, or silenced, or raised as an error,  *)
(* or, where the manager is allowed to drop events, dropped.               *)
(***************************************************************************)
CONSTANT Ids

VARIABLES
    status,
    mayDrop  \* whether the manager is allowed to drop events

Ends == {"delivered", "silenced", "errored"} \cup (IF mayDrop THEN {"dropped"} ELSE {})

Init == mayDrop \in BOOLEAN /\ status = [e \in Ids |-> "new"]

Accept(e) == status[e] = "new" /\ status' = [status EXCEPT ![e] = "accepted"]

\* Several events end at once when an exception goes through nested calls.
Finish ==
    \E S \in SUBSET {e \in Ids : status[e] = "accepted"} :
        \E end \in [S -> Ends] :
            status' = [e \in Ids |-> IF e \in S THEN end[e] ELSE status[e]]

Next == ((\E e \in Ids : Accept(e)) \/ Finish) /\ UNCHANGED mayDrop

Spec == Init /\ [][Next]_<<status, mayDrop>>
=============================================================================
