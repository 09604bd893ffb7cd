------------------------------ MODULE MCTaskRun ------------------------------
(* One thread that nests blocks around and in its tasks; a pool of two      *)
(* threads that introduce the same names; flags that both threads and the   *)
(* submitter evaluate, also in callbacks of the event that announces them.  *)
EXTENDS TaskRun, TLC

CONSTANTS main, w1, w2, node_info, stage, root, flag

MCThreads == {main, w1, w2}
MCPrefix == [n \in Names |-> IF n = root THEN "task_" ELSE "log_"]

Ops(m, w) == [t \in MCThreads |-> IF t = main THEN m ELSE w]

MCPrograms ==
    {[ops |-> Ops(4, 0), names |-> {node_info}, flags |-> {}],
     [ops |-> Ops(0, 2), names |-> {node_info}, flags |-> {}],
     [ops |-> Ops(2, 0), names |-> {node_info, stage, root}, flags |-> {}],
     [ops |-> Ops(1, 2), names |-> {}, flags |-> {flag}],
     [ops |-> Ops(4, 0), names |-> {}, flags |-> {flag}]}

Symmetry == Permutations({w1, w2})
=============================================================================
