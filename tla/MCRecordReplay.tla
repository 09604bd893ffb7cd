--------------------------- MODULE MCRecordReplay ---------------------------
(* RecordReplay on short programs of a few contexts.                       *)
EXTENDS RecordReplay, TLC

\* Params that JSON keeps, and others that it makes equal to them.
CONSTANTS p1, p2

MCAsLoaded == [p \in {p1, p2} |-> p1]

Symmetry == Permutations(Contexts)
=============================================================================
