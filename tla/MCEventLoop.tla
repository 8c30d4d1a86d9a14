---------------------------- MODULE MCEventLoop ----------------------------
(* Scripts for model checking EventLoop. *)
EXTENDS EventLoop

\* What a script does that leaves the idle handle to nextTick.
TickScript == {"nextTick", "setTimeout", "setInterval", "stop"}

\* It clears timers that are pending, an interval from its own function, and a
\* timer left open: a timeout whose function threw, or an interval of 0.
ClearsInTime == {"pending", "ownInterval", "leftOpen"}
=============================================================================
