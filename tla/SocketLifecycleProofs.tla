----------------------- MODULE SocketLifecycleProofs -----------------------
(***************************************************************************)
(* For every set of Sockets and handles and every script: libuv reads only *)
(* into a context that is alive and the handle's own, and no open handle   *)
(* is out of the script's reach but those named by Reachable.              *)
(*                                                                         *)
(* The invariant is the tie between the two objects.  A Socket's           *)
(* ctx->handle and a handle's data point to each other from context_init   *)
(* on and for good, a context is freed only with its handle, and a handle  *)
(* that can be read or waits for its connection has been tied.             *)
(***************************************************************************)
EXTENDS SocketLifecycle, TLAPS

HandleType ==
    [state : {"unused", "open", "closing", "freed"}, owner : Sockets \cup {None},
     data : {None, "baton", "ctx"},
     conn : {"none", "listening", "connecting", "connected", "refused", "ended"},
     able : BOOLEAN, reading : BOOLEAN, shut : {"no", "stalled", "pending", "done"}]

SocketType ==
    [handle : Handles \cup {None}, stream : Handles \cup {None}, context : {"live", "freed"},
     paused : BOOLEAN, asked : BOOLEAN, told : BOOLEAN, closed : BOOLEAN]

Typed ==
    /\ handle \in [Handles -> HandleType]
    /\ sock \in [Sockets -> SocketType]

\* What a handle by itself may look like.
Sane(r) ==
    /\ r.state = "unused" => r.data = None /\ r.owner = None
    /\ r.able \/ r.reading => r.state = "open"
    /\ r.reading \/ r.conn = "connecting" => r.data = "ctx"

\* handle->data, seen from the handle.
Tie(h) ==
    handle[h].data = "ctx" =>
        /\ handle[h].owner \in Sockets /\ sock[handle[h].owner].handle = h
        /\ handle[h].state = "open" => sock[handle[h].owner].context = "live"

\* ctx->handle and _stream, seen from the Socket.
Bound(s) ==
    /\ sock[s].handle # None =>
          handle[sock[s].handle].data = "ctx" /\ handle[sock[s].handle].owner = s
    /\ sock[s].stream # None =>
          handle[sock[s].stream].data = "baton" /\ handle[sock[s].stream].owner = s
    /\ sock[s].handle = None => sock[s].context = "live"

\* The handle of the callback that runs: on_connection's has no Socket yet.
RunsOn(run) ==
    /\ run.kind \in {"connect", "quiet"} =>
          run.handle \in Handles /\ handle[run.handle].data = "ctx"
    /\ run.kind \in {"end", "error"} =>
          run.handle \in Handles /\ handle[run.handle].state # "unused"
    /\ run.kind = "accept" =>
          /\ run.handle \in Handles /\ handle[run.handle].data = None
          /\ handle[run.handle].owner = None /\ handle[run.handle].state # "unused"

Known(h) ==
    Open(h) /\ h \notin lost /\ running # [kind |-> "accept", handle |-> h] /\ ~crashed
        => \E s \in Sockets : h \in {sock[s].handle, sock[s].stream}

IInv ==
    /\ Typed /\ RunsOn(running)
    /\ \A h \in Handles : Sane(handle[h]) /\ Tie(h) /\ Known(h)
    /\ \A s \in Sockets : Bound(s)
-----------------------------------------------------------------------------
(* Three ways a step may leave the invariant alone                         *)

\* A handle that changes keeps its ties, and is not opened again.
Follows(r, q) ==
    \/ r = q
    \/ /\ r.owner = q.owner /\ r.data = q.data
       /\ q.state # "unused" /\ r.state # "unused" /\ (r.state = "open" => q.state = "open")
       /\ Sane(r)

SameTies(x, y) == x.handle = y.handle /\ x.stream = y.stream /\ x.context = y.context

\* The callback goes on, or another one that is not on_connection's.
RunsNext ==
    \/ running' = running
    \/ running.kind # "accept" /\ running'.kind # "accept" /\ RunsOn(running')

LEMMA Frame ==
    ASSUME IInv, ~crashed, Typed', lost' = lost, RunsNext,
           \A h \in Handles : Follows(handle'[h], handle[h]),
           \A s \in Sockets : SameTies(sock'[s], sock[s])
    PROVE  IInv'
<1>1. None \notin Handles /\ None \notin Sockets /\ None \notin {"baton", "ctx"}
  BY LifecycleAssumption
<1>2. \A h \in Handles : /\ handle'[h].owner = handle[h].owner /\ handle'[h].data = handle[h].data
                         /\ handle'[h].state = "open" => handle[h].state = "open"
                         /\ handle'[h].state = "unused" => handle[h].state = "unused"
  BY DEF Follows
<1>3. \A s \in Sockets : Bound(s)'
  <2> SUFFICES ASSUME NEW s \in Sockets PROVE Bound(s)'
    OBVIOUS
  <2>1. Bound(s) /\ SameTies(sock'[s], sock[s]) /\ sock[s] \in SocketType
    BY DEF IInv, Typed
  <2>2. sock[s].handle \in Handles \cup {None} /\ sock[s].stream \in Handles \cup {None}
    BY <2>1 DEF SocketType
  <2> QED BY <1>2, <2>1, <2>2 DEF Bound, SameTies
<1>4. RunsOn(running)'
  <2>1. CASE running' = running
    BY <1>2, <2>1 DEF IInv, RunsOn
  <2>2. CASE running' # running
    BY <1>2, <2>2 DEF RunsNext, RunsOn
  <2> QED BY <2>1, <2>2
<1>5. ASSUME NEW h \in Handles PROVE Sane(handle[h])' /\ Tie(h)' /\ Known(h)'
  <2>1. Sane(handle[h]) /\ Tie(h) /\ Known(h) /\ handle[h] \in HandleType
    BY DEF IInv, Typed
  <2>2. Sane(handle'[h])
    BY <2>1 DEF Follows
  <2>3. Tie(h)'
    BY <1>2, <2>1 DEF Tie, SameTies
  <2>4. ASSUME Open(h)', h \notin lost', running' # [kind |-> "accept", handle |-> h]
        PROVE  \E s \in Sockets : h \in {sock[s].handle, sock[s].stream}
    <3>1. running # [kind |-> "accept", handle |-> h]
      BY <2>4 DEF RunsNext
    <3> QED BY <1>2, <2>1, <2>4, <3>1 DEF Known, Open
  <2>5. Known(h)'
    BY <2>4 DEF Known, SameTies
  <2> QED BY <2>2, <2>3, <2>5
<1> QED BY <1>3, <1>4, <1>5 DEF IInv

\* A handle that no Socket knows is tied to one that has none, or lost.
LEMMA Binds ==
    ASSUME IInv, ~crashed, Typed', NEW s \in Sockets, NEW h \in Handles, Unopened(s),
           \/ Unused(h) /\ running' = running
           \/ running.kind = "accept" /\ running.handle = h /\ running'.kind = "none",
           \A k \in Handles : k # h => handle'[k] = handle[k],
           \A u \in Sockets : u # s => SameTies(sock'[u], sock[u]),
           Sane(handle'[h]), handle'[h].owner = s,
           sock'[s].context = sock[s].context, lost \subseteq lost',
           \/ /\ handle'[h].data = "ctx"
              /\ sock'[s].handle = h /\ sock'[s].stream = None
           \/ /\ handle'[h].data = "baton"
              /\ sock'[s].handle = None /\ sock'[s].stream \in {h, None}
              /\ sock'[s].stream = h \/ h \in lost'
    PROVE  IInv'
<1>1. None \notin Handles /\ None \notin Sockets /\ None \notin {"baton", "ctx"}
  BY LifecycleAssumption
<1>2. handle[h].data = None /\ handle[h].owner = None
  BY DEF IInv, Sane, Unused, RunsOn
<1>3. \A u \in Sockets : /\ sock[u].handle \in Handles \cup {None}
                         /\ sock[u].stream \in Handles \cup {None}
  BY DEF IInv, Typed, SocketType
<1>4. \A u \in Sockets : sock[u].handle # h /\ sock[u].stream # h
  BY <1>1, <1>2 DEF IInv, Bound
<1>5. \A u \in Sockets : Bound(u)'
  <2> SUFFICES ASSUME NEW u \in Sockets PROVE Bound(u)'
    OBVIOUS
  <2>1. CASE u # s
    BY <1>3, <1>4, <2>1 DEF IInv, Bound, SameTies
  <2>2. CASE u = s
    BY <1>1, <2>2 DEF IInv, Bound, Unopened
  <2> QED BY <2>1, <2>2
<1>6. RunsOn(running)'
  BY <1>1, <1>2 DEF IInv, RunsOn, Unused
<1>7. Sane(handle[h])' /\ Tie(h)' /\ Known(h)'
  <2>1. Tie(h)'
    BY <1>1 DEF Tie, IInv, Bound, Unopened
  <2>2. Known(h)'
    BY DEF Known
  <2> QED BY <2>1, <2>2
<1>8. ASSUME NEW k \in Handles, k # h PROVE Sane(handle[k])' /\ Tie(k)' /\ Known(k)'
  <2>1. Sane(handle[k]) /\ Tie(k) /\ Known(k) /\ handle'[k] = handle[k]
    BY <1>8 DEF IInv
  <2>2. \A u \in Sockets : k \in {sock[u].handle, sock[u].stream} => u # s
    BY <1>1 DEF Unopened
  <2>3. Tie(k)'
    BY <2>1, <2>2 DEF Tie, SameTies
  <2>4. ASSUME Open(k)', k \notin lost', running' # [kind |-> "accept", handle |-> k]
        PROVE  \E u \in Sockets : k \in {sock[u].handle, sock[u].stream}
    <3>1. running # [kind |-> "accept", handle |-> k]
      BY <1>8, <2>4
    <3> QED BY <2>1, <2>4, <3>1 DEF Known, Open
  <2>5. Known(k)'
    BY <2>2, <2>4 DEF Known, SameTies
  <2> QED BY <2>1, <2>3, <2>5
<1> QED BY <1>5, <1>6, <1>7, <1>8 DEF IInv
-----------------------------------------------------------------------------
(* The script                                                              *)

\* Nothing changes but what a handle is doing.
LEMMA Changes ==
    ASSUME IInv, ~crashed, NEW h \in Handles, NEW r \in HandleType,
           handle' = [handle EXCEPT ![h] = r], Follows(r, handle[h]),
           sock' \in [Sockets -> SocketType], \A s \in Sockets : SameTies(sock'[s], sock[s]),
           lost' = lost, RunsNext
    PROVE  IInv'
<1>1. handle \in [Handles -> HandleType]
  BY DEF IInv, Typed
<1>2. Typed' /\ \A k \in Handles : Follows(handle'[k], handle[k])
  BY <1>1 DEF Typed, Follows
<1> QED BY <1>2, Frame

LEMMA UvClose_ ==
    ASSUME IInv, ~crashed, NEW h \in Handles, handle[h].state # "unused", UvClose(h),
           sock' \in [Sockets -> SocketType], \A s \in Sockets : SameTies(sock'[s], sock[s]),
           lost' = lost, RunsNext
    PROVE  IInv'
<1> DEFINE r == [handle[h] EXCEPT !.state = "closing", !.able = FALSE, !.reading = FALSE]
<1>1. handle[h] \in HandleType /\ Sane(handle[h])
  BY DEF IInv, Typed
<1>2. r \in HandleType /\ Follows(r, handle[h])
  BY <1>1 DEF HandleType, Sane, Follows
<1>3. handle' = [handle EXCEPT ![h] = r]
  BY DEF UvClose
<1> QED BY <1>2, <1>3, Changes

LEMMA Ties ==
    ASSUME IInv, NEW s \in Sockets, NEW h \in Handles, NEW paused \in BOOLEAN, Unopened(s)
    PROVE  LET S == TiedSocket(s, h, paused) IN
           /\ S \in [Sockets -> SocketType]
           /\ S[s].handle = h /\ S[s].stream = None /\ S[s].context = sock[s].context
           /\ \A u \in Sockets : u # s => S[u] = sock[u]
BY DEF IInv, Typed, TiedSocket, SocketType, Unopened

LEMMA Listen_ ==
    ASSUME IInv, NEW s \in Sockets, NEW h \in Handles, NEW how, NEW ok \in BOOLEAN,
           Listen(s, h, how, ok)
    PROVE  IInv'
<1> DEFINE r == Made(s, IF ok THEN "listening" ELSE "none", FALSE)
<1>1. r \in HandleType /\ r.owner = s /\ r.state = "open" /\ r.data = "baton" /\ Sane(r)
  BY DEF Made, NewHandle, HandleType, Sane
<1>2. handle' = [handle EXCEPT ![h] = r] /\ running' = running /\ ~crashed /\ Unopened(s) /\ Unused(h)
  BY DEF Listen, MayCall
<1> HIDE DEF r
<1>3. handle \in [Handles -> HandleType] /\ sock \in [Sockets -> SocketType]
  BY DEF IInv, Typed
<1>4. handle' \in [Handles -> HandleType] /\ handle'[h] = r
      /\ \A k \in Handles : k # h => handle'[k] = handle[k]
  BY <1>1, <1>2, <1>3
<1>5. CASE ok /\ how = "listen"
  <2>1. sock' = [sock EXCEPT ![s].stream = h] /\ lost' = lost
    BY <1>5 DEF Listen
  <2>2. sock' \in [Sockets -> SocketType] /\ sock'[s].stream = h /\ sock'[s].handle = None
        /\ sock'[s].context = sock[s].context
        /\ \A u \in Sockets : u # s => sock'[u] = sock[u]
    BY <1>2, <1>3, <2>1 DEF SocketType, Unopened
  <2> QED BY <1>1, <1>2, <1>4, <2>1, <2>2, Binds DEF Typed, SameTies
<1>6. CASE ~(ok /\ how = "listen")
  <2>1. sock' = sock /\ lost' = lost \cup {h}
    BY <1>6 DEF Listen
  <2> QED BY <1>1, <1>2, <1>3, <1>4, <2>1, Binds DEF Typed, SameTies, Unopened
<1> QED BY <1>5, <1>6

LEMMA Bind_ ==
    ASSUME IInv, NEW s \in Sockets, NEW h \in Handles, Bind(s, h) PROVE IInv'
<1> DEFINE r == Made(s, "none", FALSE)
<1>1. r \in HandleType /\ r.owner = s /\ r.state = "open" /\ r.data = "baton" /\ Sane(r)
  BY DEF Made, NewHandle, HandleType, Sane
<1>2. handle' = [handle EXCEPT ![h] = r] /\ running' = running /\ ~crashed /\ Unopened(s) /\ Unused(h)
      /\ sock' = sock /\ lost' = lost \cup {h}
  BY DEF Bind, MayCall
<1> HIDE DEF r
<1>3. handle \in [Handles -> HandleType] /\ sock \in [Sockets -> SocketType]
  BY DEF IInv, Typed
<1>4. handle' \in [Handles -> HandleType] /\ handle'[h] = r
      /\ \A k \in Handles : k # h => handle'[k] = handle[k]
  BY <1>1, <1>2, <1>3
<1> QED BY <1>1, <1>2, <1>3, <1>4, Binds DEF Typed, SameTies, Unopened

\* connect and open, which tie the handle, or lose it.
LEMMA TiesOrLoses ==
    ASSUME IInv, NEW s \in Sockets, NEW h \in Handles, NEW r \in HandleType,
           ~crashed, running' = running, Unopened(s), Unused(h),
           handle' = [handle EXCEPT ![h] = r],
           r.owner = s, r.state = "open", Sane(r),
           \/ /\ r.data = "ctx" /\ lost' = lost
              /\ sock' \in [Sockets -> SocketType]
              /\ sock'[s].handle = h /\ sock'[s].stream = None
              /\ sock'[s].context = sock[s].context
              /\ \A u \in Sockets : u # s => sock'[u] = sock[u]
           \/ r.data = "baton" /\ sock' = sock /\ lost' = lost \cup {h}
    PROVE  IInv'
<1>1. handle \in [Handles -> HandleType] /\ sock \in [Sockets -> SocketType]
  BY DEF IInv, Typed
<1>2. handle' \in [Handles -> HandleType] /\ handle'[h] = r
      /\ \A k \in Handles : k # h => handle'[k] = handle[k]
  BY <1>1
<1>3. Typed'
  BY <1>1, <1>2 DEF Typed
<1> QED BY <1>2, <1>3, Binds DEF SameTies, Unopened

LEMMA Connect_ ==
    ASSUME IInv, NEW s \in Sockets, NEW h \in Handles, NEW ok \in BOOLEAN, Connect(s, h, ok)
    PROVE  IInv'
<1> DEFINE able == Kind[s] = "tcp" \/ ok
           r == Made(s, "connecting", able)
<1>1. ~crashed /\ Unopened(s) /\ Unused(h) /\ running' = running /\ able \in BOOLEAN
  BY DEF Connect, MayCall
<1>2. CASE Kind[s] = "tcp" /\ ~ok
  <2>1. handle' = [handle EXCEPT ![h] = [r EXCEPT !.conn = "none"]]
        /\ lost' = lost \cup {h} /\ sock' = sock
    BY <1>2 DEF Connect
  <2> DEFINE q == [r EXCEPT !.conn = "none"]
  <2>2. q \in HandleType /\ q.owner = s /\ q.state = "open" /\ q.data = "baton" /\ Sane(q)
    BY <1>1 DEF Made, NewHandle, HandleType, Sane
  <2> HIDE DEF q
  <2> QED BY <1>1, <2>1, <2>2, TiesOrLoses DEF q
<1>3. CASE ~(Kind[s] = "tcp" /\ ~ok)
  <2>1. handle' = [handle EXCEPT ![h] = Tied(r)]
        /\ sock' = TiedSocket(s, h, FALSE) /\ lost' = lost
    BY <1>3 DEF Connect
  <2> DEFINE q == Tied(r)
             S == TiedSocket(s, h, FALSE)
  <2>2. q \in HandleType /\ q.owner = s /\ q.state = "open" /\ q.data = "ctx" /\ Sane(q)
    BY <1>1 DEF Tied, Made, NewHandle, HandleType, Sane
  <2>3. S \in [Sockets -> SocketType] /\ S[s].handle = h /\ S[s].stream = None
        /\ S[s].context = sock[s].context /\ \A u \in Sockets : u # s => S[u] = sock[u]
    BY <1>1, Ties
  <2>4. handle' = [handle EXCEPT ![h] = q] /\ sock' = S
    BY <2>1
  <2>5. lost' = lost
    BY <2>1
  <2> HIDE DEF q, S, r
  <2>6. /\ sock' \in [Sockets -> SocketType]
        /\ sock'[s].handle = h /\ sock'[s].stream = None
        /\ sock'[s].context = sock[s].context
        /\ \A u \in Sockets : u # s => sock'[u] = sock[u]
    BY <2>3, <2>4
  <2> QED BY <1>1, <2>2, <2>4, <2>5, <2>6, TiesOrLoses
<1> QED BY <1>2, <1>3

LEMMA OpenPipe_ ==
    ASSUME IInv, NEW s \in Sockets, NEW h \in Handles, NEW how, NEW ok \in BOOLEAN,
           OpenPipe(s, h, how, ok)
    PROVE  IInv'
<1> DEFINE conn == IF ok THEN "connected" ELSE "none"
           r == Made(s, conn, ok)
<1>1. ~crashed /\ Unopened(s) /\ Unused(h) /\ running' = running
      /\ conn \in {"none", "connected"}
  BY DEF OpenPipe, MayCall
<1>2. CASE how = "open" /\ ~ok
  <2>1. handle' = [handle EXCEPT ![h] = r] /\ lost' = lost \cup {h} /\ sock' = sock
    BY <1>2 DEF OpenPipe
  <2>2. r \in HandleType /\ r.owner = s /\ r.state = "open" /\ r.data = "baton" /\ Sane(r)
    BY <1>1 DEF Made, NewHandle, HandleType, Sane
  <2> HIDE DEF r
  <2> QED BY <1>1, <2>1, <2>2, TiesOrLoses
<1>3. CASE ~(how = "open" /\ ~ok)
  <2>1. handle' = [handle EXCEPT ![h] = Tied(r)] /\ lost' = lost
        /\ sock' = [TiedSocket(s, h, TRUE) EXCEPT ![s].told = s \notin Quiet]
    BY <1>3 DEF OpenPipe
  <2> DEFINE S == TiedSocket(s, h, TRUE)
  <2>2. S \in [Sockets -> SocketType] /\ S[s].handle = h /\ S[s].stream = None
        /\ S[s].context = sock[s].context /\ \A u \in Sockets : u # s => S[u] = sock[u]
    BY <1>1, Ties
  <2>3. PICK t \in BOOLEAN : sock' = [S EXCEPT ![s].told = t]
    BY <2>1
  <2> DEFINE q == Tied(r)
  <2>4. q \in HandleType /\ q.owner = s /\ q.state = "open" /\ q.data = "ctx" /\ Sane(q)
    BY <1>1 DEF Tied, Made, NewHandle, HandleType, Sane
  <2>5. handle' = [handle EXCEPT ![h] = q]
    BY <2>1
  <2> HIDE DEF S, q
  <2>6. /\ sock' \in [Sockets -> SocketType]
        /\ sock'[s].handle = h /\ sock'[s].stream = None
        /\ sock'[s].context = sock[s].context
        /\ \A u \in Sockets : u # s => sock'[u] = sock[u]
    BY <2>2, <2>3 DEF SocketType
  <2> QED BY <1>1, <2>1, <2>4, <2>5, <2>6, TiesOrLoses
<1> QED BY <1>2, <1>3

LEMMA Close_ ==
    ASSUME IInv, NEW s \in Sockets, NEW doShutdown \in BOOLEAN, Close(s, doShutdown)
    PROVE  IInv'
<1> DEFINE h == IF sock[s].stream # None THEN sock[s].stream ELSE sock[s].handle
<1>1. ~crashed /\ running' = running /\ lost' = lost /\ sock' = [sock EXCEPT ![s].asked = TRUE]
      /\ (sock[s].handle # None \/ sock[s].stream # None)
  BY DEF Close, MayCall, Closable
<1>2. h \in Handles /\ handle[h].state # "unused"
  <2>1. Bound(s) /\ sock[s].handle \in Handles \cup {None} /\ sock[s].stream \in Handles \cup {None}
    BY DEF IInv, Typed, SocketType
  <2>2. h \in Handles /\ handle[h].data \in {"baton", "ctx"}
    BY <1>1, <2>1 DEF Bound
  <2> QED BY <2>2, LifecycleAssumption DEF IInv, Sane
<1>3. sock' \in [Sockets -> SocketType] /\ \A u \in Sockets : SameTies(sock'[u], sock[u])
  BY <1>1 DEF IInv, Typed, SocketType, SameTies
<1>4. RunsNext
  BY <1>1 DEF RunsNext
<1>5. UvClose(h) \/ /\ handle[h].able
                    /\ handle' = [handle EXCEPT ![h].shut =
                          IF handle[h].conn = "connecting" THEN "stalled" ELSE "pending"]
  BY DEF Close
<1> HIDE DEF h
<1>6. CASE UvClose(h)
  BY <1>1, <1>2, <1>3, <1>4, <1>6, UvClose_
<1>7. CASE ~UvClose(h)
  <2>1. PICK shut \in {"stalled", "pending"} : handle' = [handle EXCEPT ![h].shut = shut]
    BY <1>5, <1>7
  <2> DEFINE r == [handle[h] EXCEPT !.shut = shut]
  <2>2. handle[h] \in HandleType /\ Sane(handle[h])
    BY <1>2 DEF IInv, Typed
  <2>3. r \in HandleType /\ Follows(r, handle[h])
    BY <1>2, <2>2 DEF HandleType, Sane, Follows
  <2>4. handle' = [handle EXCEPT ![h] = r]
    BY <2>1
  <2> HIDE DEF r
  <2> QED BY <1>1, <1>2, <1>3, <1>4, <2>3, <2>4, Changes
<1> QED BY <1>6, <1>7

LEMMA PauseResume ==
    ASSUME IInv, NEW s \in Sockets, Pause(s) \/ Resume(s) PROVE IInv'
<1> DEFINE h == sock[s].handle
<1>1. ~crashed /\ running' = running /\ lost' = lost /\ h # None
  BY DEF Pause, Resume, MayCall, InUse
<1>2. h \in Handles /\ handle[h].state # "unused" /\ handle[h].data = "ctx"
  <2>1. Bound(s) /\ sock[s].handle \in Handles \cup {None}
    BY DEF IInv, Typed, SocketType
  <2> QED BY <1>1, <2>1, LifecycleAssumption DEF IInv, Sane, Bound
<1>3. PICK p \in BOOLEAN : sock' = [sock EXCEPT ![s].paused = p]
  BY DEF Pause, Resume
<1>4. sock' \in [Sockets -> SocketType] /\ \A u \in Sockets : SameTies(sock'[u], sock[u])
  BY <1>3 DEF IInv, Typed, SocketType, SameTies
<1>5. handle[h] \in HandleType /\ Sane(handle[h])
  BY <1>2 DEF IInv, Typed
<1>6. PICK reading \in BOOLEAN :
          /\ handle' = [handle EXCEPT ![h].reading = reading]
          /\ reading => handle[h].reading \/ handle[h].able
  <2>1. CASE Pause(s)
    BY <2>1 DEF Pause
  <2>2. CASE Resume(s)
    <3>1. handle' = [handle EXCEPT ![h].reading = handle[h].reading \/ handle[h].able]
      BY <2>2 DEF Resume
    <3>2. (handle[h].reading \/ handle[h].able) \in BOOLEAN
      OBVIOUS
    <3> QED BY <3>1, <3>2
  <2> QED BY <2>1, <2>2
<1> DEFINE r == [handle[h] EXCEPT !.reading = reading]
<1>7. r \in HandleType /\ Follows(r, handle[h])
  BY <1>2, <1>5, <1>6 DEF HandleType, Sane, Follows
<1>8. handle' = [handle EXCEPT ![h] = r]
  BY <1>6
<1> HIDE DEF r, h
<1> QED BY <1>1, <1>2, <1>4, <1>7, <1>8, Changes DEF RunsNext

LEMMA ScriptSteps == ASSUME IInv, ScriptStep PROVE IInv'
BY Listen_, Bind_, Connect_, OpenPipe_, Close_, PauseResume DEF ScriptStep
-----------------------------------------------------------------------------
(* Returns, and what libuv and the peer do                                 *)

\* A Socket that has been told of its connection is tied as it was.
LEMMA SockSame ==
    ASSUME IInv, UNCHANGED sock
    PROVE  sock' \in [Sockets -> SocketType] /\ \A u \in Sockets : SameTies(sock'[u], sock[u])
BY DEF IInv, Typed, SameTies

LEMMA OnlyRuns ==
    ASSUME IInv, ~crashed, UNCHANGED <<handle, sock, lost>>, RunsNext PROVE IInv'
<1>1. Typed'
  BY DEF IInv, Typed
<1> QED BY <1>1, Frame DEF Follows, SameTies

LEMMA Idles == ASSUME running.kind # "accept", running' = Idle PROVE RunsNext
BY DEF RunsNext, RunsOn, Idle

LEMMA CallbackReturns_ == ASSUME IInv, CallbackReturns PROVE IInv'
BY OnlyRuns, Idles DEF CallbackReturns, Returns

LEMMA ConnectReturns_ == ASSUME IInv, ConnectReturns PROVE IInv'
<1> DEFINE h == running.handle
           r == [handle[h] EXCEPT !.reading = handle[h].able]
<1>1. ~crashed /\ running.kind \in {"connect", "quiet"} /\ running' = Idle /\ lost' = lost /\ sock' = sock
      /\ handle' = [handle EXCEPT ![h].reading = handle[h].able]
  BY DEF ConnectReturns, Returns
<1>2. h \in Handles /\ handle[h].data = "ctx"
  BY <1>1 DEF IInv, RunsOn
<1>3. handle[h] \in HandleType /\ Sane(handle[h]) /\ handle[h].state # "unused"
  BY <1>2, LifecycleAssumption DEF IInv, Typed, Sane
<1>4. handle[h].able \in BOOLEAN
  BY <1>3 DEF HandleType
<1>5. r \in HandleType /\ Follows(r, handle[h])
  BY <1>2, <1>3, <1>4 DEF HandleType, Sane, Follows
<1>6. handle' = [handle EXCEPT ![h] = r]
  BY <1>1
<1>7. RunsNext
  BY <1>1, Idles
<1> HIDE DEF h, r
<1> QED BY <1>1, <1>2, <1>5, <1>6, <1>7, SockSame, Changes

LEMMA EndReturns_ == ASSUME IInv, EndReturns PROVE IInv'
<1> DEFINE h == running.handle
           r == [handle[h] EXCEPT !.reading = FALSE]
<1>1. ~crashed /\ running.kind = "end" /\ running' = Idle /\ lost' = lost /\ sock' = sock
      /\ handle' = [handle EXCEPT ![h].reading = FALSE]
  BY DEF EndReturns, Returns
<1>2. h \in Handles /\ handle[h].state # "unused"
  BY <1>1 DEF IInv, RunsOn
<1>3. handle[h] \in HandleType /\ Sane(handle[h])
  BY <1>2 DEF IInv, Typed
<1>4. r \in HandleType /\ Follows(r, handle[h])
  BY <1>2, <1>3 DEF HandleType, Sane, Follows
<1>5. handle' = [handle EXCEPT ![h] = r]
  BY <1>1
<1>6. RunsNext
  BY <1>1, Idles
<1> HIDE DEF h, r
<1> QED BY <1>1, <1>2, <1>4, <1>5, <1>6, SockSame, Changes

LEMMA ErrorReturns_ == ASSUME IInv, ErrorReturns PROVE IInv'
<1>1. ~crashed /\ running.kind = "error" /\ running' = Idle /\ lost' = lost /\ sock' = sock
      /\ UvClose(running.handle)
  BY DEF ErrorReturns, Returns
<1>2. running.handle \in Handles /\ handle[running.handle].state # "unused"
  BY <1>1 DEF IInv, RunsOn
<1> QED BY <1>1, <1>2, Idles, SockSame, UvClose_

LEMMA AcceptThrows_ == ASSUME IInv, AcceptThrows PROVE IInv'
BY DEF AcceptThrows, Returns, Idle, IInv, Typed, RunsOn, Tie, Bound, Known

LEMMA AcceptReturns_ == ASSUME IInv, NEW s \in Sockets, AcceptReturns(s) PROVE IInv'
<1> DEFINE h == running.handle
           r == [handle[h] EXCEPT !.data = "ctx", !.owner = s, !.reading = handle[h].able]
           S == TiedSocket(s, h, FALSE)
<1>1. ~crashed /\ running.kind = "accept" /\ running' = Idle /\ lost' = lost /\ sock' = S /\ Unopened(s)
  BY DEF AcceptReturns, Returns
<1>2. handle' = [handle EXCEPT ![h] = [Tied(handle[h]) EXCEPT !.owner = s, !.reading = handle[h].able]]
  BY DEF AcceptReturns
<1>3. h \in Handles /\ handle[h].state # "unused"
  BY <1>1 DEF IInv, RunsOn
<1>4. handle[h] \in HandleType /\ Sane(handle[h]) /\ handle \in [Handles -> HandleType]
  BY <1>3 DEF IInv, Typed
<1>5. [Tied(handle[h]) EXCEPT !.owner = s, !.reading = handle[h].able] = r
  BY <1>4 DEF Tied, HandleType
<1>6. handle[h].able \in BOOLEAN
  BY <1>4 DEF HandleType
<1>7. r \in HandleType /\ r.owner = s /\ r.data = "ctx" /\ Sane(r)
  BY <1>3, <1>4, <1>6 DEF HandleType, Sane
<1>8. S \in [Sockets -> SocketType] /\ S[s].handle = h /\ S[s].stream = None
      /\ S[s].context = sock[s].context /\ \A u \in Sockets : u # s => S[u] = sock[u]
  BY <1>1, <1>3, Ties
<1>9. handle' = [handle EXCEPT ![h] = r]
  BY <1>2, <1>5
<1> HIDE DEF r, S
<1>10. handle' \in [Handles -> HandleType] /\ handle'[h] = r
       /\ \A k \in Handles : k # h => handle'[k] = handle[k]
  BY <1>3, <1>4, <1>7, <1>9
<1>11. Typed'
  BY <1>1, <1>8, <1>10 DEF Typed
<1> QED BY <1>1, <1>3, <1>7, <1>8, <1>10, <1>11, Binds DEF SameTies, Idle

LEMMA Returns_ == ASSUME IInv, Returning PROVE IInv'
BY CallbackReturns_, ConnectReturns_, EndReturns_, ErrorReturns_, AcceptThrows_, AcceptReturns_
   DEF Returning

LEMMA ConnectDone_ ==
    ASSUME IInv, NEW h \in Handles, NEW ok \in BOOLEAN, ConnectDone(h, ok) PROVE IInv'
<1>1. ~crashed /\ running = Idle /\ Open(h) /\ handle[h].conn = "connecting" /\ lost' = lost
  BY DEF ConnectDone, Waiting
<1>2. handle[h] \in HandleType /\ Sane(handle[h])
  BY DEF IInv, Typed
<1>3. PICK conn \in {"connected", "refused"}, shut \in {"no", "stalled", "pending", "done"} :
          handle' = [handle EXCEPT ![h].conn = conn, ![h].shut = shut]
  <2>1. handle[h].shut \in {"no", "stalled", "pending", "done"}
    BY <1>2 DEF HandleType
  <2> QED BY <2>1 DEF ConnectDone
<1> DEFINE r == [handle[h] EXCEPT !.conn = conn, !.shut = shut]
<1>4. r \in HandleType /\ Follows(r, handle[h])
  BY <1>1, <1>2 DEF HandleType, Sane, Follows, Open
<1>5. handle' = [handle EXCEPT ![h] = r]
  BY <1>3
<1>6. RunsNext
  BY <1>1, <1>2 DEF ConnectDone, RunsNext, RunsOn, Idle, Sane
<1>7. sock' \in [Sockets -> SocketType] /\ \A u \in Sockets : SameTies(sock'[u], sock[u])
  <2>1. CASE sock' = sock
    BY <2>1, SockSame
  <2>2. CASE sock' # sock
    <3>1. PICK t \in BOOLEAN : sock' = [sock EXCEPT ![handle[h].owner].told = t]
      BY <2>2 DEF ConnectDone
    <3> QED BY <3>1 DEF IInv, Typed, SocketType, SameTies
  <2> QED BY <2>1, <2>2
<1> HIDE DEF r
<1> QED BY <1>1, <1>4, <1>5, <1>6, <1>7, Changes

LEMMA ShutdownDone_ == ASSUME IInv, NEW h \in Handles, ShutdownDone(h) PROVE IInv'
<1> DEFINE r == [handle[h] EXCEPT !.shut = "done", !.state = "closing", !.able = FALSE, !.reading = FALSE]
<1>1. ~crashed /\ running' = running /\ Open(h) /\ lost' = lost /\ sock' = sock
      /\ handle' = [handle EXCEPT ![h] = r]
  BY DEF ShutdownDone, Waiting
<1>2. handle[h] \in HandleType /\ Sane(handle[h])
  BY DEF IInv, Typed
<1>3. r \in HandleType /\ Follows(r, handle[h])
  BY <1>1, <1>2 DEF HandleType, Sane, Follows, Open
<1> HIDE DEF r
<1> QED BY <1>1, <1>3, SockSame, Changes DEF RunsNext

LEMMA Peer_ ==
    ASSUME IInv, NEW h \in Handles, Data(h) \/ End(h) \/ ReadError(h) PROVE IInv'
<1>1. ~crashed /\ running = Idle /\ Open(h) /\ lost' = lost /\ sock' = sock
      /\ \E kind \in {"read", "end", "error"} : running' = [kind |-> kind, handle |-> h]
  BY DEF Data, End, ReadError, Reads, Waiting
<1>2. RunsNext
  BY <1>1 DEF RunsNext, RunsOn, Idle, Open
<1>3. CASE handle' = handle
  BY <1>1, <1>2, <1>3, OnlyRuns
<1>4. CASE handle' # handle
  <2> DEFINE r == [handle[h] EXCEPT !.conn = "ended"]
  <2>1. handle' = [handle EXCEPT ![h] = r]
    BY <1>4 DEF Data, End, ReadError
  <2>2. handle[h] \in HandleType /\ Sane(handle[h])
    BY DEF IInv, Typed
  <2>3. r \in HandleType /\ Follows(r, handle[h])
    BY <1>1, <2>2 DEF HandleType, Sane, Follows, Open
  <2> HIDE DEF r
  <2> QED BY <1>1, <1>2, <2>1, <2>3, SockSame, Changes
<1> QED BY <1>3, <1>4

\* A connection accepted: nothing points to its handle.
LEMMA Incoming_ ==
    ASSUME IInv, NEW h \in Handles, NEW l \in Handles, NEW ok \in BOOLEAN, Incoming(l, h, ok)
    PROVE  IInv'
<1> DEFINE r == [NewHandle EXCEPT !.state = "open", !.able = ok,
                                  !.conn = IF ok THEN "connected" ELSE "none"]
<1>1. ~crashed /\ running = Idle /\ Unused(h) /\ lost' = lost /\ sock' = sock /\ crashed' = crashed
      /\ running' = [kind |-> "accept", handle |-> h] /\ handle' = [handle EXCEPT ![h] = r]
  BY DEF Incoming, Waiting
<1>2. r \in HandleType /\ r.data = None /\ r.owner = None /\ r.state = "open" /\ Sane(r)
  BY DEF NewHandle, HandleType, Sane
<1> HIDE DEF r
<1>3. None \notin Handles /\ None \notin Sockets /\ None \notin {"baton", "ctx"}
  BY LifecycleAssumption
<1>4. handle \in [Handles -> HandleType] /\ sock \in [Sockets -> SocketType]
      /\ handle[h].data = None
  BY <1>1 DEF IInv, Typed, Sane, Unused
<1>5. Typed' /\ handle'[h] = r /\ \A k \in Handles : k # h => handle'[k] = handle[k]
  BY <1>1, <1>2, <1>4 DEF Typed
<1>6. \A s \in Sockets : /\ sock[s].handle \in (Handles \ {h}) \cup {None}
                         /\ sock[s].stream \in (Handles \ {h}) \cup {None}
  <2> SUFFICES ASSUME NEW s \in Sockets
               PROVE  /\ sock[s].handle \in (Handles \ {h}) \cup {None}
                      /\ sock[s].stream \in (Handles \ {h}) \cup {None}
    OBVIOUS
  <2>1. sock[s].handle \in Handles \cup {None} /\ sock[s].stream \in Handles \cup {None}
    BY <1>4 DEF SocketType
  <2>2. sock[s].handle # h /\ sock[s].stream # h
    BY <1>3, <1>4 DEF IInv, Bound
  <2> QED BY <2>1, <2>2
<1>7. \A s \in Sockets : Bound(s)'
  BY <1>1, <1>5, <1>6 DEF IInv, Bound
<1>8. RunsOn(running)'
  BY <1>1, <1>2, <1>5 DEF RunsOn
<1>9. Sane(handle[h])' /\ Tie(h)' /\ Known(h)'
  BY <1>1, <1>2, <1>3, <1>5 DEF Tie, Known
<1>10. \A k \in Handles : k # h => Sane(handle[k])' /\ Tie(k)' /\ Known(k)'
  BY <1>1, <1>5 DEF IInv, Tie, Known, Open, Idle
<1> QED BY <1>5, <1>7, <1>8, <1>9, <1>10 DEF IInv

\* A context is freed with the one handle that is tied to it.
LEMMA OnClose_ == ASSUME IInv, NEW h \in Handles, OnClose(h) PROVE IInv'
<1> DEFINE o == handle[h].owner
           r == [handle[h] EXCEPT !.state = "freed"]
<1>1. ~crashed /\ running = Idle /\ handle[h].state = "closing" /\ lost' = lost
      /\ running' = [kind |-> Runs(h), handle |-> h] /\ handle' = [handle EXCEPT ![h] = r]
  BY DEF OnClose, Waiting
<1>2. handle \in [Handles -> HandleType] /\ sock \in [Sockets -> SocketType]
      /\ Sane(handle[h]) /\ Tie(h) /\ handle[h] \in HandleType
  BY DEF IInv, Typed
<1>3. r \in HandleType /\ Sane(r) /\ r.state = "freed" /\ r.owner = o /\ r.data = handle[h].data
  BY <1>1, <1>2 DEF HandleType, Sane
<1>4. Runs(h) = "closed"
  BY <1>1 DEF Runs, Skips, Open
<1>5. sock' \in [Sockets -> SocketType]
      /\ \A s \in Sockets : /\ sock'[s].handle = sock[s].handle /\ sock'[s].stream = sock[s].stream
                            /\ \/ sock'[s].context = sock[s].context
                               \/ handle[h].data = "ctx" /\ s = o
  <2>1. CASE handle[h].data = "ctx"
    <3>1. sock' = [sock EXCEPT ![o] = [sock[o] EXCEPT !.closed = TRUE, !.context = "freed"]]
      BY <2>1 DEF OnClose, Freed
    <3> QED BY <1>2, <2>1, <3>1 DEF Tie, SocketType
  <2>2. CASE handle[h].data # "ctx"
    <3>1. sock' = [sock EXCEPT ![o] = [sock[o] EXCEPT !.closed = TRUE]]
      BY <2>2 DEF OnClose
    <3> QED BY <1>2, <3>1 DEF SocketType
  <2> QED BY <2>1, <2>2
<1> HIDE DEF r
<1>6. handle' \in [Handles -> HandleType] /\ handle'[h] = r
      /\ \A k \in Handles : k # h => handle'[k] = handle[k]
  BY <1>1, <1>2, <1>3
<1>7. \A k \in Handles : handle'[k].data = handle[k].data /\ handle'[k].owner = handle[k].owner
  BY <1>3, <1>6
<1>8. None \notin Handles /\ None \notin Sockets /\ None \notin {"baton", "ctx"}
  BY LifecycleAssumption
<1>9. \A s \in Sockets : Bound(s)'
  <2> SUFFICES ASSUME NEW s \in Sockets PROVE Bound(s)'
    OBVIOUS
  <2>1. Bound(s) /\ sock[s].handle \in Handles \cup {None} /\ sock[s].stream \in Handles \cup {None}
    BY <1>2 DEF IInv, SocketType
  <2> QED BY <1>2, <1>5, <1>7, <1>8, <2>1 DEF Bound, Tie
<1>10. RunsOn(running)'
  BY <1>1, <1>4 DEF RunsOn
<1>11. Sane(handle[h])' /\ Tie(h)' /\ Known(h)'
  BY <1>2, <1>3, <1>5, <1>6 DEF Tie, Known, Open
<1>12. ASSUME NEW k \in Handles, k # h PROVE Sane(handle[k])' /\ Tie(k)' /\ Known(k)'
  <2>1. Sane(handle[k]) /\ Tie(k) /\ Known(k) /\ handle'[k] = handle[k]
    BY <1>6, <1>12 DEF IInv
  <2>2. Tie(k)'
    BY <1>2, <1>5, <1>12, <2>1 DEF Tie
  <2>3. Known(k)'
    BY <1>1, <1>5, <2>1 DEF Known, Open, Idle
  <2> QED BY <2>1, <2>2, <2>3
<1> QED BY <1>5, <1>6, <1>9, <1>10, <1>11, <1>12 DEF IInv, Typed

-----------------------------------------------------------------------------
LEMMA Invariant == Spec => []IInv
<1>1. Init => IInv
  BY LifecycleAssumption DEF Init, NewHandle, NewSocket, IInv, Typed, HandleType, SocketType,
     Sane, Tie, Bound, RunsOn, Known, Open
<1>2. IInv /\ [Next]_vars => IInv'
  <2> SUFFICES ASSUME IInv, [Next]_vars PROVE IInv'
    OBVIOUS
  <2>1. CASE UNCHANGED vars
    BY <2>1 DEF vars, IInv, Typed, Tie, Bound, RunsOn, Known, Open
  <2> QED BY <2>1, ScriptSteps, Returns_, ConnectDone_, ShutdownDone_, OnClose_, Incoming_, Peer_
          DEF Next, Event, PeerStep
<1> QED BY <1>1, <1>2, PTL DEF Spec

\* alloc_chunk and after_read find a live context, and the one of their handle,
\* whatever the script did before or does in their callbacks.
THEOREM ReadersAreTied == Spec => []ReadersHaveContext
<1>1. IInv => ReadersHaveContext
  BY DEF IInv, Sane, Tie, ReadersHaveContext
<1> QED BY <1>1, Invariant, PTL

\* Some Socket of the script names every handle that is open, but for those of
\* calls that failed, of bind and of listen with a descriptor.
THEOREM HandlesReachable == Spec => []Reachable
<1>1. IInv => Reachable
  BY DEF IInv, Known, Reachable
<1> QED BY <1>1, Invariant, PTL
=============================================================================
