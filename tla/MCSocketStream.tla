--------------------------- MODULE MCSocketStream ---------------------------
(* Scripts for model checking SocketStream. *)
EXTENDS SocketStream

\* A handler is registered by giving it operations; the others return at once.
Does(m) == [h \in Handlers |-> IF h \in DOMAIN m THEN m[h] ELSE {}]

\* A proxy: writes what it reads and what other sockets deliver, stops and
\* restarts the flow with onDrain, and is closed, either way, from elsewhere.
ScriptPump == Does([
    loop    |-> {"write", "close", "shutdown", "pause", "resume"},
    onRead  |-> {"write", "pause"},
    onDrain |-> {"resume"},
    onWrite |-> {"write"}])

\* A server connection that answers until the peer has finished and closes in
\* onEnd with close(0).
ScriptAnswer == Does([
    loop    |-> {"write", "pause", "resume"},
    onRead  |-> {"write", "pause"},
    onDrain |-> {"resume"},
    onEnd   |-> {"write", "close"},
    onError |-> {"pause"}])

\* The same connection as the runtime itself closes it (main.js): the default
\* close(), that is uv_shutdown, in onEnd.
ScriptRuntime == Does([
    loop    |-> {"write"},
    onRead  |-> {"write"},
    onEnd   |-> {"shutdown"}])
=============================================================================
