-------------------------- MODULE SocketLifecycle --------------------------
(***************************************************************************)
(* How Socket objects and libuv's stream handles find and leave each other *)
(* (src/src/modules/socket/socket.cc): listen, bind, connect and open make *)
(* a handle, on_connection accepts one for the Socket the script returns,  *)
(* context_init ties the two together, on_close frees both.  The bytes of  *)
(* a connection are in SocketStream; here no write is ever queued.         *)
(***************************************************************************)
EXTENDS Naturals

CONSTANTS
    Sockets,    \* the Socket objects of the script
    Kind,       \* their socktype: "tcp" or "unix"
    Quiet,      \* those without an onConnect handler
    Handles,    \* bound: the handles made
    None,
    Script      \* for each callback, the operations the script performs in it

Callbacks == {"main", "connect", "accept", "read", "end", "error", "closed"}
Ops == {"listen", "listenFd", "bind", "connect", "open", "openFd",
        "shutdown", "close", "pause", "resume"}

ASSUME LifecycleAssumption ==
    /\ Kind \in [Sockets -> {"tcp", "unix"}] /\ Quiet \subseteq Sockets
    /\ None \notin Sockets /\ None \notin Handles /\ None \notin {"baton", "ctx"}
    /\ Script \in [Callbacks -> SUBSET Ops]

VARIABLES
    handle,     \* the stream handles: see NewHandle
    sock,       \* the Socket objects: see NewSocket
    running,    \* the callback that runs and its handle
    lost,       \* history: handles that no Socket has been told of
    crashed     \* an assertion failed, here or in libuv

vars == <<handle, sock, running, lost, crashed>>

\* data is None in memory just allocated, else what handle->data points to: a
\* baton or the context of owner.  able stands for the flags READABLE and
\* WRITABLE.  A shutdown requested while connecting is stalled: libuv stops
\* polling for POLLOUT once it is connected and has nothing to write.
NewHandle ==
    [state |-> "unused", owner |-> None, data |-> None, conn |-> "none",
     able |-> FALSE, reading |-> FALSE, shut |-> "no"]

\* ctx->handle, _stream, the context's memory, ctx->paused; history: whether the
\* script has closed it, and what it has been told.
NewSocket ==
    [handle |-> None, stream |-> None, context |-> "live", paused |-> FALSE,
     asked |-> FALSE, told |-> FALSE, closed |-> FALSE]

Idle == [kind |-> "none", handle |-> None]

Init ==
    /\ handle = [h \in Handles |-> NewHandle]
    /\ sock = [s \in Sockets |-> NewSocket]
    /\ running = [kind |-> "main", handle |-> None]
    /\ lost = {} /\ crashed = FALSE

Waiting == ~crashed /\ running = Idle

-----------------------------------------------------------------------------
(* What the script does in a callback.  It uses a Socket for one connection *)
(* or one listener, not after onClose, closes it once, and pauses it only   *)
(* when it is connected: on_client_connection starts to read whatever the   *)
(* script did before.                                                       *)

MayCall(op) == ~crashed /\ running.kind \in Callbacks /\ op \in Script[running.kind]
Unopened(s) == sock[s].handle = None /\ sock[s].stream = None /\ ~sock[s].told
Open(h) == handle[h].state = "open"

\* A handle allocated and initialised, with its baton.
Made(s, conn, able) ==
    [NewHandle EXCEPT !.state = "open", !.owner = s, !.data = "baton",
                      !.conn = conn, !.able = able]

Unused(h) == handle[h].state = "unused"

\* context_init(h, s)
Fault_Tied(r) == r
Tied(r) == [r EXCEPT !.data = "ctx"]

Fault_TiedSocket(s, h, paused) == [sock EXCEPT ![s].paused = paused]
TiedSocket(s, h, paused) ==
    [sock EXCEPT ![s].handle = h, ![s].paused = paused]

\* An address, or a descriptor that is bound already; any step may fail.
Listen(s, h, how, ok) ==
    /\ MayCall(how) /\ Unopened(s) /\ Unused(h)
    /\ handle' = [handle EXCEPT ![h] = Made(s, IF ok THEN "listening" ELSE "none", FALSE)]
    /\ IF ok /\ how = "listen"
       THEN /\ sock' = [sock EXCEPT ![s].stream = h] /\ UNCHANGED lost
       ELSE /\ lost' = lost \cup {h} /\ UNCHANGED sock
    /\ UNCHANGED <<running, crashed>>

Bind(s, h) ==
    /\ MayCall("bind") /\ Unopened(s) /\ Unused(h)
    /\ handle' = [handle EXCEPT ![h] = Made(s, "none", FALSE)]
    /\ lost' = lost \cup {h}
    /\ UNCHANGED <<sock, running, crashed>>

\* connect(2) may fail at once, which a pipe reports later.
Connect(s, h, ok) ==
    /\ MayCall("connect") /\ Unopened(s) /\ Unused(h)
    /\ LET r == Made(s, "connecting", Kind[s] = "tcp" \/ ok) IN
       IF Kind[s] = "tcp" /\ ~ok
       THEN /\ handle' = [handle EXCEPT ![h] = [r EXCEPT !.conn = "none"]]
            /\ lost' = lost \cup {h} /\ UNCHANGED sock
       ELSE /\ handle' = [handle EXCEPT ![h] = Tied(r)]
            /\ sock' = TiedSocket(s, h, FALSE) /\ UNCHANGED lost
    /\ UNCHANGED <<running, crashed>>

\* One end of a new socketpair, or a descriptor.  onConnect is called at once:
\* what it does the callback that called open might do as well.
OpenPipe(s, h, how, ok) ==
    /\ MayCall(how) /\ Unopened(s) /\ Unused(h) /\ Kind[s] = "unix"
    /\ LET r == Made(s, IF ok THEN "connected" ELSE "none", ok) IN
       IF how = "open" /\ ~ok
       THEN /\ handle' = [handle EXCEPT ![h] = r]
            /\ lost' = lost \cup {h} /\ UNCHANGED sock
       ELSE /\ handle' = [handle EXCEPT ![h] = Tied(r)]
            /\ sock' = [TiedSocket(s, h, TRUE) EXCEPT ![s].told = s \notin Quiet]
            /\ UNCHANGED lost
    /\ UNCHANGED <<running, crashed>>

\* uv_close must not be called twice.
UvClose(h) ==
    /\ handle' = [handle EXCEPT ![h].state = "closing", ![h].able = FALSE,
                                ![h].reading = FALSE]
    /\ crashed' = ~Open(h)

Closable(s) ==
    /\ ~sock[s].asked /\ ~sock[s].closed
    /\ sock[s].handle # None \/ sock[s].stream # None

\* uv_shutdown refuses a stream that is not connected.
Close(s, doShutdown) ==
    /\ MayCall(IF doShutdown THEN "shutdown" ELSE "close") /\ Closable(s)
    /\ LET h == IF sock[s].stream # None THEN sock[s].stream ELSE sock[s].handle IN
       \/ /\ doShutdown /\ sock[s].stream = None
          /\ handle[h].able /\ handle[h].shut = "no"
          /\ handle' = [handle EXCEPT ![h].shut =
                            IF handle[h].conn = "connecting" THEN "stalled" ELSE "pending"]
          /\ sock' = [sock EXCEPT ![s].asked = TRUE]
          /\ UNCHANGED crashed
       \/ /\ doShutdown => sock[s].stream # None
          /\ UvClose(h)
          /\ sock' = [sock EXCEPT ![s].asked = TRUE]
    /\ UNCHANGED <<running, lost>>

InUse(s) == sock[s].handle # None /\ ~sock[s].closed

Pause(s) ==
    /\ MayCall("pause") /\ InUse(s) /\ handle[sock[s].handle].conn # "connecting"
    /\ sock' = [sock EXCEPT ![s].paused = TRUE]
    /\ handle' = [handle EXCEPT ![sock[s].handle].reading = FALSE]
    /\ UNCHANGED <<running, lost, crashed>>

\* uv_read_start refuses a handle that is closing or not connected.
Resume(s) ==
    /\ MayCall("resume") /\ InUse(s) /\ sock[s].paused
    /\ sock' = [sock EXCEPT ![s].paused = FALSE]
    /\ handle' = [handle EXCEPT ![sock[s].handle].reading = @ \/ handle[sock[s].handle].able]
    /\ UNCHANGED <<running, lost, crashed>>

ScriptStep ==
    \/ \E s \in Sockets, h \in Handles :
          \/ \E how \in {"listen", "listenFd"}, ok \in BOOLEAN : Listen(s, h, how, ok)
          \/ Bind(s, h)
          \/ \E ok \in BOOLEAN : Connect(s, h, ok)
          \/ \E how \in {"open", "openFd"}, ok \in BOOLEAN : OpenPipe(s, h, how, ok)
    \/ \E s \in Sockets :
          \/ \E doShutdown \in BOOLEAN : Close(s, doShutdown)
          \/ Pause(s) \/ Resume(s)

\* The script, or a handler with nothing more to do, returns or throws.
Returns(kinds) == ~crashed /\ running.kind \in kinds /\ running' = Idle

CallbackReturns ==
    /\ Returns({"main", "read", "closed"})
    /\ UNCHANGED <<handle, sock, lost, crashed>>

-----------------------------------------------------------------------------
(* on_client_connection *)

Fault_SkipsAll(h) == handle[h].able \/ ~Open(h)
Skips(h) == ~handle[h].able \/ ~Open(h)

\* The connection is made or refused.  The status is not looked at: a TCP
\* handle is readable and writable since connect, a pipe's only if connect(2)
\* succeeded.
ConnectDone(h, ok) ==
    /\ Waiting /\ Open(h) /\ handle[h].conn = "connecting"
    /\ Kind[handle[h].owner] = "unix" => ok = handle[h].able
    /\ handle' = [handle EXCEPT
            ![h].conn = IF ok THEN "connected" ELSE "refused",
            ![h].shut = IF ~ok /\ @ = "stalled" THEN "pending" ELSE @]
    /\ LET s == handle[h].owner IN
       \/ Skips(h) /\ UNCHANGED <<sock, running>>
       \/ /\ ~Skips(h)
          /\ sock' = [sock EXCEPT ![s].told = s \notin Quiet]
          /\ running' = [kind |-> IF s \in Quiet THEN "quiet" ELSE "connect", handle |-> h]
    /\ UNCHANGED <<lost, crashed>>

\* uv_read_start, and an assertion that it succeeds.
ConnectReturns ==
    /\ Returns({"connect", "quiet"})
    /\ LET h == running.handle IN
       /\ handle' = [handle EXCEPT ![h].reading = handle[h].able]
       /\ crashed' = ~handle[h].able
    /\ UNCHANGED <<sock, lost>>

-----------------------------------------------------------------------------
(* on_connection *)

\* A connection arrives at the listener l and is accepted, or cannot be, which
\* the handler is not told.  If the script had no onConnect the new handle
\* would be read without a context: the listeners here have one.
Incoming(l, h, ok) ==
    /\ Waiting /\ Open(l) /\ handle[l].conn = "listening" /\ Unused(h)
    /\ handle[l].owner \notin Quiet
    /\ handle' = [handle EXCEPT ![h] =
            [NewHandle EXCEPT !.state = "open", !.able = ok,
                              !.conn = IF ok THEN "connected" ELSE "none"]]
    /\ running' = [kind |-> "accept", handle |-> h]
    /\ UNCHANGED <<sock, lost, crashed>>

\* The handler returns the Socket for the connection.
AcceptReturns(s) ==
    /\ Returns({"accept"}) /\ Unopened(s)
    /\ LET h == running.handle IN
       /\ handle' = [handle EXCEPT ![h] = [Tied(@) EXCEPT !.owner = s, !.reading = handle[h].able]]
       /\ sock' = TiedSocket(s, h, FALSE)
       /\ crashed' = ~handle[h].able
    /\ UNCHANGED lost

\* The handler throws: ToLocalChecked ends the process.
AcceptThrows ==
    /\ Returns({"accept"}) /\ crashed' = TRUE
    /\ UNCHANGED <<handle, sock, lost>>

-----------------------------------------------------------------------------
(* after_read *)

Reads(h) == Waiting /\ Open(h) /\ handle[h].reading

Data(h) ==
    /\ Reads(h) /\ handle[h].conn = "connected"
    /\ running' = [kind |-> "read", handle |-> h]
    /\ UNCHANGED <<handle, sock, lost, crashed>>

\* The end of the stream, which a refused connection is at once.  libuv stops
\* reading when onEnd has returned.
End(h) ==
    /\ Reads(h) /\ handle[h].conn \in {"connected", "refused"}
    /\ handle' = [handle EXCEPT ![h].conn = "ended"]
    /\ running' = [kind |-> "end", handle |-> h]
    /\ UNCHANGED <<sock, lost, crashed>>

EndReturns ==
    /\ Returns({"end"})
    /\ handle' = [handle EXCEPT ![running.handle].reading = FALSE]
    /\ UNCHANGED <<sock, lost, crashed>>

\* The peer has reset the connection.
ReadError(h) ==
    /\ Reads(h) /\ handle[h].conn \in {"connected", "refused"}
    /\ running' = [kind |-> "error", handle |-> h]
    /\ UNCHANGED <<handle, sock, lost, crashed>>

ErrorReturns ==
    /\ Returns({"error"}) /\ UvClose(running.handle)
    /\ UNCHANGED <<sock, lost>>

-----------------------------------------------------------------------------
(* after_shutdown, on_close and on_close2 *)

ShutdownDone(h) ==
    /\ Waiting /\ Open(h) /\ handle[h].shut = "pending"
    /\ handle' = [handle EXCEPT ![h].shut = "done", ![h].state = "closing",
                                ![h].able = FALSE, ![h].reading = FALSE]
    /\ UNCHANGED <<sock, running, lost, crashed>>

\* The end of uv_close.  A connect still pending is cancelled, which the script
\* is not told; a shutdown still pending is, and after_shutdown closes again.
Runs(h) == IF handle[h].conn = "connecting" /\ ~Skips(h) THEN "connect" ELSE "closed"

Fault_Freed(s) == [sock[s] EXCEPT !.context = "freed"]
Freed(s) == [sock[s] EXCEPT !.closed = TRUE, !.context = "freed"]

OnClose(h) ==
    /\ Waiting /\ handle[h].state = "closing"
    /\ crashed' = (handle[h].shut \in {"pending", "stalled"})
    /\ running' = [kind |-> Runs(h), handle |-> h]
    /\ handle' = [handle EXCEPT ![h].state = "freed"]
    /\ sock' = [sock EXCEPT ![handle[h].owner] =
            IF handle[h].data = "ctx" THEN Freed(handle[h].owner)
                                      ELSE [@ EXCEPT !.closed = TRUE]]
    /\ UNCHANGED lost

Event ==
    \E h \in Handles :
        \/ \E ok \in BOOLEAN : ConnectDone(h, ok)
        \/ ShutdownDone(h) \/ OnClose(h)

Returning ==
    \/ CallbackReturns \/ ConnectReturns \/ EndReturns \/ ErrorReturns
    \/ AcceptThrows \/ \E s \in Sockets : AcceptReturns(s)

PeerStep ==
    \E h \in Handles :
        \/ \E l \in Handles, ok \in BOOLEAN : Incoming(l, h, ok)
        \/ Data(h) \/ End(h) \/ ReadError(h)

Next == ScriptStep \/ Returning \/ Event \/ PeerStep

Spec == Init /\ [][Next]_vars

\* Callbacks return, and the loop serves every handle that is ready each time
\* it polls; nobody has to connect, to send, or to close.
Fairness ==
    /\ WF_vars(Returning)
    /\ \A h \in Handles :
          /\ SF_vars(\E ok \in BOOLEAN : ConnectDone(h, ok))
          /\ SF_vars(ShutdownDone(h)) /\ SF_vars(OnClose(h))

FairSpec == Spec /\ Fairness

-----------------------------------------------------------------------------
(* Properties *)

\* Every open handle can be closed by the script: some Socket knows it, unless
\* the call that made it failed, bound it or was given a descriptor to listen
\* on, or its listener's handler has yet to return the Socket.
Reachable ==
    \A h \in Handles :
        Open(h) /\ h \notin lost /\ running # [kind |-> "accept", handle |-> h] /\ ~crashed
            => \E s \in Sockets : h \in {sock[s].handle, sock[s].stream}

\* libuv reads only into a context that is alive and belongs to this handle and
\* no other: alloc_chunk and after_read take the buffer and the Socket from it.
ReadersHaveContext ==
    \A h \in Handles :
        handle[h].reading =>
            /\ handle[h].data = "ctx"
            /\ sock[handle[h].owner].handle = h
            /\ sock[handle[h].owner].context = "live"

\* A connect that is not refused at once is answered: by onConnect if the
\* script has not closed the Socket meanwhile.
ConnectAnswered ==
    \A h \in Handles :
        (Open(h) /\ handle[h].conn = "connecting" /\ handle[h].able)
            ~> (crashed \/ ~Open(h)
                 \/ \E s \in Sockets : handle[h].owner = s /\ (s \in Quiet \/ sock[s].told))

\* A Socket that is closed gets its onClose, unless the shutdown was asked for
\* before the connection was made.
CloseCompletes ==
    \A s \in Sockets :
        sock[s].asked ~> \/ crashed \/ sock[s].closed
                         \/ sock[s].handle # None /\ handle[sock[s].handle].shut = "stalled"
=============================================================================
