--------------------------- MODULE MCEventManager ---------------------------
(* Two applications: one thread with a logger and a callback that only     *)
(* listen, and two threads with a callback that calls back and may raise.  *)
EXTENDS EventManager, TLC

CONSTANTS logger, callback, t1, t2, default, parse

MCThreads == {t1, t2}

Sequential(t) ==
    [threads |-> {t}, kinds |-> {"warn", "silence"}, groups |-> {default, parse},
     receivers |-> <<logger, callback>>, broken |-> {}, calling |-> {}, require |-> TRUE]
Entangled ==
    [threads |-> MCThreads, kinds |-> {"info", "error"}, groups |-> {default},
     receivers |-> <<callback>>, broken |-> {callback}, calling |-> {callback},
     require |-> FALSE]

MCSetups == {Sequential(t) : t \in MCThreads} \cup {Entangled}
Symmetry == Permutations(MCThreads)
=============================================================================
