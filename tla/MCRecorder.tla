----------------------------- MODULE MCRecorder -----------------------------
(* Recorder with two threads, one of which records twice.                  *)
EXTENDS Recorder, TLC

CONSTANTS t1, t2

TwoThreads == {t1, t2}
TwiceAndOnce == (t1 :> 2) @@ (t2 :> 1)
TwiceIfStreaming == [streams \in BOOLEAN |-> IF streams THEN 2 ELSE 1]
=============================================================================
