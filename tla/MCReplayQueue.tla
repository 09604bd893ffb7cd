--------------------------- MODULE MCReplayQueue ----------------------------
(* ReplayQueue with two threads that share a type; one also asks for a type *)
(* of its own, the other for one that has no record class.                 *)
EXTENDS ReplayQueue, TLC

CONSTANTS t1, t2, FileRecord, QueryRecord, OtherParams

TwoThreads == {t1, t2}
SharedAndPrivate == (t1 :> {FileRecord, OtherParams}) @@ (t2 :> {FileRecord, QueryRecord})
=============================================================================
