------------------------- MODULE MCSocketLifecycle -------------------------
(* Sockets and scripts for model checking SocketLifecycle. *)
EXTENDS SocketLifecycle, TLC

CONSTANTS tcp, pipe, other, h1, h2
TheSockets == {tcp, pipe, other}
TheHandles == {h1, h2}
Kinds == (tcp :> "tcp") @@ (pipe :> "unix") @@ (other :> "tcp")
TheQuiet == {other}

\* A script that leaves a connection it is told of as it is: it neither pauses
\* it nor destroys it before onConnect has returned, nor after an error.
CarefulScript ==
    ("main" :> Ops \ {"resume"}) @@ ("connect" :> {"shutdown", "resume"}) @@
    ("accept" :> {"connect", "close"}) @@ ("read" :> {"pause", "resume", "close", "shutdown"}) @@
    ("end" :> {"close", "shutdown"}) @@ ("error" :> {}) @@ ("closed" :> {"connect", "resume"})
=============================================================================
