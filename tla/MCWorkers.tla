----------------------------- MODULE MCWorkers -----------------------------
(* Two threads for model checking Workers. *)
EXTENDS Workers

CONSTANTS w1, w2
TwoThreads == {w1, w2}
=============================================================================
