---------------------------- MODULE SocketStream ----------------------------
(***************************************************************************)
(* One connected Socket (src/src/modules/socket/socket.cc): the flags of   *)
(* its _context, the libuv stream under it, the peer at the other end of   *)
(* the connection and the script that calls write, close, pause and resume *)
(* from the socket's own callbacks and from every other callback of the    *)
(* process.                                                                *)
(*                                                                         *)
(* Everything runs on one thread, but not atomically: after_write,         *)
(* after_read and Write call into the script half way, the script calls    *)
(* back into the same socket, and the C++ code goes on with what it read   *)
(* before the call.  pc says which C++ function is suspended in which      *)
(* handler; nested holds the handlers that Write calls synchronously.      *)
(*                                                                         *)
(* Data is byte positions: the script's output is the sequence of bytes    *)
(* 0, 1, 2, ... and a write request is an interval of it.                  *)
(***************************************************************************)
EXTENDS Naturals, Sequences

CONSTANTS
    Script,     \* Script[h]: the operations handler h may perform
    Lens,       \* the lengths the script passes to write()
    PeerMoves,  \* what the peer may do: "half" (shuts its side), "gone"
    MaxBytes,   \* bound: bytes the script offers in total
    MaxReads,   \* bound: chunks that arrive from the peer
    MaxNested   \* bound: depth of write() called from write()'s own handlers

Ops == {"write", "close", "shutdown", "pause", "resume"}

\* "loop" stands for every callback that is not one of this socket's.
Handlers == {"onRead", "onEnd", "onError", "onWrite", "onDrain", "onClose", "loop"}

ASSUME ScriptAssumption == Script \in [Handlers -> SUBSET Ops]
ASSUME BoundsAssumption ==
    /\ Lens \subseteq Nat \ {0}
    /\ PeerMoves \subseteq {"half", "gone"}
    /\ MaxBytes \in Nat /\ MaxReads \in Nat /\ MaxNested \in Nat

VARIABLES
    \* the libuv stream
    handle,     \* "open", uv_close called ("closing"), being destroyed
                \* ("closed"), on_close done ("freed"), or uv_close called a
                \* second time ("aborted": the assertion of uv_close fails)
    reading,    \* UV_HANDLE_READING
    shut,       \* uv_shutdown: "none", "pending", "done"
    qsize,      \* write_queue_size
    wq,         \* write_queue
    done,       \* write_completed_queue
    \* the _context of the socket
    closing, blocked, paused, stats,
    \* the other end, and the script's own bookkeeping
    peer,       \* "open", "half" closed or "gone"
    sent,       \* bytes the kernel has taken
    accepted,   \* bytes write() has taken from the script
    lost,       \* accepted bytes whose request failed or was cancelled
    reads,      \* chunks read so far
    ended,      \* EOF was reported in the current iteration of the loop
    asked,      \* the script has called close(): it does so once
    \* control
    pc, cur, pq, nested

uvVars  == <<handle, reading, shut, qsize, wq, done>>
ctxVars == <<closing, blocked, paused, stats>>
envVars == <<peer, sent, accepted, lost, reads, ended, asked>>
control == <<pc, cur, pq, nested>>
vars == <<uvVars, ctxVars, envVars, control>>

\* A write request: the bytes from..to-1 are still to be sent, len is the
\* length of the copy it owns, status how it completed.
Request == [from : Nat, to : Nat, len : Nat, status : {"ok", "failed"}]
NewRequest(from, to) == [from |-> from, to |-> to, len |-> to - from, status |-> "ok"]
Rest(r) == r.to - r.from

\* Where the loop may stand: between callbacks, inside handler HandlerAt[p] of
\* the C++ function named in p, or in uv__write_callbacks.
HandlerPCs == {"loop", "after_write.onWrite", "after_write.onError", "after_write.onDrain",
               "after_read.onRead", "after_read.onEnd", "after_read.onError",
               "on_close.onClose"}
PCs == HandlerPCs \cup {"callbacks"}

HandlerAt ==
    [p \in HandlerPCs |->
       CASE p = "loop"                -> "loop"
         [] p = "after_write.onWrite" -> "onWrite"
         [] p = "after_write.onDrain" -> "onDrain"
         [] p = "after_read.onRead"   -> "onRead"
         [] p = "after_read.onEnd"    -> "onEnd"
         [] p = "on_close.onClose"    -> "onClose"
         [] OTHER                     -> "onError"]

-----------------------------------------------------------------------------
Init ==
    /\ handle = "open" /\ shut = "none" /\ qsize = 0 /\ wq = <<>> /\ done = <<>>
    /\ \/ reading = TRUE /\ paused = FALSE      \* on_connection, on_client_connection
       \/ reading = FALSE /\ paused = TRUE      \* Open
    /\ closing = FALSE /\ blocked = FALSE
    /\ stats = [written |-> 0, alloc |-> 0, free |-> 0]
    /\ peer = "open" /\ sent = 0 /\ accepted = 0 /\ lost = 0
    /\ reads = 0 /\ ended = FALSE /\ asked = FALSE
    /\ pc = "loop" /\ cur = NewRequest(0, 0) /\ pq = <<>> /\ nested = <<>>

Alive == handle \notin {"freed", "aborted"}
Running == IF nested # <<>> THEN nested[Len(nested)] ELSE HandlerAt[pc]
MayCall(op) == Alive /\ pc # "callbacks" /\ op \in Script[Running]

\* The handler suspended at p has returned to the C++ code that called it.
Returned(p) == Alive /\ pc = p /\ nested = <<>>

\* uv_close asserts that the handle is not already closing.
UvClose ==
    /\ handle' = IF handle = "open" THEN "closing" ELSE "aborted"
    /\ reading' = FALSE

\* No write can succeed any more.
Broken == peer = "gone" \/ shut = "done"

-----------------------------------------------------------------------------
(* Write *)

\* What a request that could not be written at once does to the flag that
\* later makes after_write emit the drain event.
Fault_NotBlocked == blocked
BlockedAfterQueuing == TRUE

\* Where the copy of the unsent remainder of a partial write starts.
Fault_RemainderStart(from, n) == from
RemainderStart(from, n) == from + n

\* uv_write of from..to-1 on an open stream, base bytes having been sent: an
\* empty queue is tried at once, otherwise the request waits its turn.
UvWrite(from, to, base) ==
    \/ /\ qsize # 0
       /\ wq' = Append(wq, NewRequest(from, to))
       /\ qsize' = qsize + (to - from)
       /\ sent' = base
       /\ done' = done
    \/ /\ qsize = 0
       /\ \E m \in 0 .. (to - from) - 1 :
             /\ wq' = Append(wq, [NewRequest(from, to) EXCEPT !.from = @ + m])
             /\ qsize' = (to - from) - m
             /\ sent' = base + m
       /\ done' = done
    \/ /\ qsize = 0
       /\ done' = Append(done, [NewRequest(from, to) EXCEPT !.from = to])
       /\ sent' = base + (to - from)
       /\ UNCHANGED <<wq, qsize>>

\* uv_try_write fails: the error goes to onError.
WriteFails ==
    /\ qsize = 0 /\ (Broken \/ handle # "open")
    /\ nested' = Append(nested, "onError")
    /\ UNCHANGED <<uvVars, ctxVars, envVars, pc, cur, pq>>

\* The kernel takes all of it.
WriteFull(len) ==
    /\ qsize = 0 /\ ~Broken /\ handle = "open"
    /\ sent' = sent + len
    /\ accepted' = accepted + len
    /\ stats' = [stats EXCEPT !.written = @ + len]
    /\ nested' = Append(nested, "onWrite")
    /\ UNCHANGED <<uvVars, closing, blocked, paused, peer, lost, reads, ended, asked, pc, cur, pq>>

\* The kernel takes n bytes: the rest is copied and queued.
WriteIncomplete(len) ==
    /\ qsize = 0 /\ ~Broken /\ handle = "open"
    /\ \E n \in 1 .. len - 1 :
          /\ UvWrite(RemainderStart(accepted, n), accepted + len, sent + n)
          /\ stats' = [stats EXCEPT !.written = @ + n, !.alloc = @ + 1]
    /\ accepted' = accepted + len
    /\ blocked' = BlockedAfterQueuing
    /\ nested' = Append(nested, "onWrite")
    /\ UNCHANGED <<handle, reading, shut, closing, paused, peer, lost, reads, ended, asked, pc, cur, pq>>

\* EAGAIN, from the kernel or because requests are queued already: all of it
\* is copied and queued.  On a closing handle uv_write then fails with EBADF
\* and nobody frees the copy.
WriteEagain(len) ==
    /\ \/ qsize # 0
       \/ ~Broken /\ handle = "open"
    /\ \/ /\ handle = "open"
          /\ UvWrite(accepted, accepted + len, sent)
          /\ accepted' = accepted + len
       \/ /\ handle # "open"
          /\ UNCHANGED <<wq, qsize, sent, done, accepted>>
    /\ stats' = [stats EXCEPT !.alloc = @ + 1]
    /\ blocked' = BlockedAfterQueuing
    /\ UNCHANGED <<handle, reading, shut, closing, paused, peer, lost, reads, ended, asked, control>>

\* Once closing is set write() returns -1 and changes nothing.
Write(len) ==
    /\ MayCall("write") /\ ~closing
    /\ accepted + len <= MaxBytes /\ Len(nested) < MaxNested
    /\ stats.alloc < MaxBytes       \* bites only on a closing handle
    /\ WriteFails \/ WriteFull(len) \/ WriteIncomplete(len) \/ WriteEagain(len)

\* The handler write() called returns to write(), which has nothing left to do.
ReturnToWrite ==
    /\ Alive /\ nested # <<>>
    /\ nested' = SubSeq(nested, 1, Len(nested) - 1)
    /\ UNCHANGED <<uvVars, ctxVars, envVars, pc, cur, pq>>

-----------------------------------------------------------------------------
(* Close, Pause, Resume *)

\* close(0) closes at once when nothing is queued; otherwise it leaves that to
\* after_write.
Fault_NothingQueued == TRUE
NothingQueued == qsize = 0

Fault_ClosingAfterClose == TRUE
ClosingAfterClose == closing \/ ~NothingQueued

Close ==
    /\ MayCall("close") /\ ~asked
    /\ asked' = TRUE
    /\ closing' = ClosingAfterClose
    /\ \/ ~NothingQueued /\ UNCHANGED <<handle, reading>>
       \/ NothingQueued /\ UvClose
    /\ UNCHANGED <<shut, qsize, wq, done, blocked, paused, stats, peer, sent, accepted,
                   lost, reads, ended, control>>

\* close(): uv_shutdown, refused with ENOTCONN on a closing handle.
Shutdown ==
    /\ MayCall("shutdown") /\ ~asked
    /\ asked' = TRUE
    /\ shut' = IF handle = "open" THEN "pending" ELSE shut
    /\ UNCHANGED <<handle, reading, qsize, wq, done, ctxVars, peer, sent, accepted, lost,
                   reads, ended, control>>

Pause ==
    /\ MayCall("pause")
    /\ paused' = TRUE /\ reading' = FALSE
    /\ UNCHANGED <<handle, shut, qsize, wq, done, closing, blocked, stats, envVars, control>>

\* uv_read_start is refused with EINVAL on a closing handle.
Resume ==
    /\ MayCall("resume") /\ paused
    /\ paused' = FALSE /\ reading' = (handle = "open")
    /\ UNCHANGED <<handle, shut, qsize, wq, done, closing, blocked, stats, envVars, control>>

-----------------------------------------------------------------------------
(* uv__stream_io, the writable half: uv__write, then the callbacks of the  *)
(* completed requests, then uv__drain.                                     *)

\* The loop calls it: the watcher polls for POLLOUT whenever requests or a
\* shutdown are pending, and a completed request feeds the watcher.
Armed == handle = "open" /\ (wq # <<>> \/ done # <<>> \/ shut = "pending")

UvWriteHead ==
    \/ wq = <<>> /\ pq' = done /\ UNCHANGED <<wq, qsize, sent>>
    \/ /\ wq # <<>> /\ Broken
       /\ wq' = Tail(wq)
       /\ pq' = Append(done, [Head(wq) EXCEPT !.status = "failed"])
       /\ UNCHANGED <<qsize, sent>>
    \/ /\ wq # <<>> /\ ~Broken
       /\ \/ /\ pq' = Append(done, [Head(wq) EXCEPT !.from = @ + Rest(Head(wq))])
             /\ wq' = Tail(wq)
             /\ sent' = sent + Rest(Head(wq))
             /\ qsize' = qsize - Rest(Head(wq))
          \/ \E n \in 0 .. Rest(Head(wq)) - 1 :
                /\ n = 0 => done # <<>>     \* fed, not polled: may find EAGAIN
                /\ pq' = done
                /\ wq' = [wq EXCEPT ![1].from = @ + n]
                /\ sent' = sent + n
                /\ qsize' = qsize - n

IoWritable ==
    /\ Returned("loop") /\ Armed
    /\ UvWriteHead
    /\ done' = <<>>
    /\ pc' = "callbacks" /\ ended' = FALSE
    /\ UNCHANGED <<handle, reading, shut, ctxVars, peer, accepted, lost, reads, asked,
                   cur, nested>>

\* What a completed request still counts for in write_queue_size: nothing,
\* unless it failed.
Fault_Uncounted(r) == r.len
Uncounted(r) == Rest(r)

\* uv__write_callbacks takes the next completed request and calls after_write,
\* which first calls onWrite.
Callback ==
    /\ Alive /\ pc = "callbacks" /\ pq # <<>>
    /\ cur' = Head(pq) /\ pq' = Tail(pq)
    /\ qsize' = qsize - Uncounted(Head(pq))
    /\ lost' = lost + Uncounted(Head(pq))
    /\ pc' = "after_write.onWrite"
    /\ UNCHANGED <<handle, reading, shut, wq, done, ctxVars, peer, sent, accepted, reads,
                   ended, asked, nested>>

\* after_write once onWrite has returned, for a failed request.
AfterWriteFailed ==
    /\ Returned("after_write.onWrite") /\ cur.status = "failed"
    /\ stats' = [stats EXCEPT !.free = @ + 1]
    /\ pc' = "after_write.onError"
    /\ UNCHANGED <<uvVars, closing, blocked, paused, envVars, cur, pq, nested>>

AfterWriteError ==
    /\ Returned("after_write.onError")
    /\ pc' = "callbacks"
    /\ UNCHANGED <<uvVars, ctxVars, envVars, cur, pq, nested>>

\* after_write reads the queue size once, here: if it is 0 and the flag is
\* set, onDrain runs before anything else happens.
AfterWriteDrains ==
    /\ Returned("after_write.onWrite") /\ cur.status = "ok" /\ qsize = 0 /\ blocked
    /\ pc' = "after_write.onDrain"
    /\ UNCHANGED <<uvVars, ctxVars, envVars, cur, pq, nested>>

\* The rest of after_write; flushed is what the queue size said.
Fault_ClosesNow(flushed) == FALSE
ClosesNow(flushed) == flushed /\ closing

Fault_StatsAfterWrite(flushed) ==
    IF ClosesNow(flushed) THEN stats ELSE [stats EXCEPT !.written = @ + cur.len, !.free = @ + 1]
StatsAfterWrite(flushed) == [stats EXCEPT !.written = @ + cur.len, !.free = @ + 1]

AfterWriteEnds(flushed) ==
    /\ \/ ClosesNow(flushed) /\ UvClose /\ closing' = FALSE
       \/ ~ClosesNow(flushed) /\ UNCHANGED <<handle, reading, closing>>
    /\ stats' = StatsAfterWrite(flushed)
    /\ pc' = "callbacks"
    /\ UNCHANGED <<shut, qsize, wq, done, paused, envVars, cur, pq, nested>>

AfterWriteNoDrain ==
    /\ Returned("after_write.onWrite") /\ cur.status = "ok" /\ ~(qsize = 0 /\ blocked)
    /\ AfterWriteEnds(qsize = 0)
    /\ UNCHANGED blocked

AfterWriteDrained ==
    /\ Returned("after_write.onDrain")
    /\ AfterWriteEnds(TRUE)
    /\ blocked' = FALSE

\* after_shutdown; the status is ignored.
AfterShutdown ==
    IF qsize > 0 THEN closing' = TRUE /\ UNCHANGED <<handle, reading>>
                 ELSE UvClose /\ UNCHANGED closing

\* uv__drain.
Drain ==
    /\ Alive /\ pc = "callbacks" /\ pq = <<>> /\ handle # "closed"
    /\ pc' = "loop"
    /\ \/ /\ wq = <<>> /\ shut = "pending" /\ handle = "open"
          /\ shut' = "done"
          /\ AfterShutdown
       \/ /\ ~(wq = <<>> /\ shut = "pending" /\ handle = "open")
          /\ UNCHANGED <<shut, closing, handle, reading>>
    /\ UNCHANGED <<qsize, wq, done, blocked, paused, stats, envVars, cur, pq, nested>>

-----------------------------------------------------------------------------
(* uv__stream_io, the readable half, and after_read *)

\* After EOF an iteration has no more read events for this stream, even if
\* the script makes it read again.
Readable == Returned("loop") /\ handle = "open" /\ reading /\ ~ended

\* The next iteration serves the fed watchers before it polls.
NextIteration ==
    /\ Returned("loop") /\ ended /\ done = <<>>
    /\ ended' = FALSE
    /\ UNCHANGED <<uvVars, ctxVars, peer, sent, accepted, lost, reads, asked, control>>

ReadData ==
    /\ Readable /\ reads < MaxReads
    /\ reads' = reads + 1
    /\ pc' = "after_read.onRead"
    /\ UNCHANGED <<uvVars, ctxVars, peer, sent, accepted, lost, ended, asked, cur, pq, nested>>

ReadEnd ==
    /\ Readable /\ peer # "open"
    /\ ended' = TRUE
    /\ pc' = "after_read.onEnd"
    /\ UNCHANGED <<uvVars, ctxVars, peer, sent, accepted, lost, reads, asked, cur, pq, nested>>

ReadError ==
    /\ Readable /\ peer = "gone"
    /\ pc' = "after_read.onError"
    /\ UNCHANGED <<uvVars, ctxVars, envVars, cur, pq, nested>>

AfterReadData ==
    /\ Returned("after_read.onRead")
    /\ pc' = "loop"
    /\ UNCHANGED <<uvVars, ctxVars, envVars, cur, pq, nested>>

\* EOF does not close the handle: it sets closing unless the handler closed it.
ClosingAfterEnd == closing \/ handle = "open"

AfterReadEnd ==
    /\ Returned("after_read.onEnd")
    /\ closing' = ClosingAfterEnd
    /\ reading' = FALSE
    /\ pc' = "loop"
    /\ UNCHANGED <<handle, shut, qsize, wq, done, blocked, paused, stats, envVars, cur, pq, nested>>

AfterReadError ==
    /\ Returned("after_read.onError")
    /\ UvClose
    /\ pc' = "loop"
    /\ UNCHANGED <<shut, qsize, wq, done, ctxVars, envVars, cur, pq, nested>>

-----------------------------------------------------------------------------
(* The closing phase: uv__finish_close, uv__stream_destroy, on_close *)

Cancelled(q) == [i \in 1 .. Len(q) |-> [q[i] EXCEPT !.status = "failed"]]

FinishClose ==
    /\ Returned("loop") /\ handle = "closing"
    /\ handle' = "closed"
    /\ pq' = done \o Cancelled(wq)
    /\ wq' = <<>> /\ done' = <<>>
    /\ pc' = "callbacks"
    /\ UNCHANGED <<reading, shut, qsize, ctxVars, envVars, cur, nested>>

\* All requests called back: a shutdown request still pending is called back
\* with ECANCELED, then on_close calls onClose.
Destroyed ==
    /\ Alive /\ pc = "callbacks" /\ pq = <<>> /\ handle = "closed"
    /\ pc' = "on_close.onClose"
    /\ \/ /\ shut = "pending"
          /\ shut' = "done"
          /\ AfterShutdown
       \/ shut # "pending" /\ UNCHANGED <<shut, closing, handle, reading>>
    /\ UNCHANGED <<qsize, wq, done, blocked, paused, stats, envVars, cur, pq, nested>>

OnClose ==
    /\ Returned("on_close.onClose")
    /\ handle' = "freed"
    /\ pc' = "loop"
    /\ UNCHANGED <<reading, shut, qsize, wq, done, ctxVars, envVars, cur, pq, nested>>

-----------------------------------------------------------------------------
PeerMove(to) ==
    /\ to \in PeerMoves
    /\ to = "half" => peer = "open"
    /\ peer # "gone" /\ Alive
    /\ peer' = to
    /\ UNCHANGED <<uvVars, ctxVars, sent, accepted, lost, reads, ended, asked, control>>

ScriptStep ==
    \/ \E len \in Lens : Write(len)
    \/ Close \/ Shutdown \/ Pause \/ Resume

\* The C++ code and libuv going on with a callback already begun.
Proceed ==
    \/ Callback \/ AfterWriteFailed \/ AfterWriteError
    \/ AfterWriteDrains \/ AfterWriteNoDrain \/ AfterWriteDrained \/ Drain
    \/ AfterReadData \/ AfterReadEnd \/ AfterReadError \/ Destroyed \/ OnClose

Next ==
    \/ ScriptStep \/ ReturnToWrite \/ Proceed
    \/ IoWritable \/ FinishClose \/ NextIteration
    \/ ReadData \/ ReadEnd \/ ReadError
    \/ \E to \in {"half", "gone"} : PeerMove(to)

Spec == Init /\ [][Next]_vars

\* The loop polls a watcher in every iteration and runs the closing handles at
\* the end of each (uv_run); a handler performs finitely many operations.
Fairness ==
    /\ WF_vars(ReturnToWrite) /\ SF_vars(Proceed)
    /\ SF_vars(IoWritable) /\ SF_vars(FinishClose)

FairSpec == Spec /\ Fairness

-----------------------------------------------------------------------------
(* Properties *)

\* Every variable has its type.
UvTypeOK ==
    /\ handle \in {"open", "closing", "closed", "freed", "aborted"}
    /\ reading \in BOOLEAN
    /\ shut \in {"none", "pending", "done"}
    /\ qsize \in Nat
    /\ wq \in Seq(Request) /\ done \in Seq(Request)
CtxTypeOK ==
    /\ closing \in BOOLEAN /\ blocked \in BOOLEAN /\ paused \in BOOLEAN
    /\ stats \in [written : Nat, alloc : Nat, free : Nat]
EnvTypeOK ==
    /\ peer \in {"open", "half", "gone"}
    /\ sent \in Nat /\ accepted \in Nat /\ lost \in Nat /\ reads \in Nat
    /\ ended \in BOOLEAN /\ asked \in BOOLEAN
ControlTypeOK ==
    /\ pc \in PCs /\ cur \in Request /\ pq \in Seq(Request)
    /\ nested \in Seq({"onWrite", "onError"})
TypeOK == UvTypeOK /\ CtxTypeOK /\ EnvTypeOK /\ ControlTypeOK

Resting == pc = "loop" /\ nested = <<>>

\* The requests in the queue are consecutive intervals of the script's output
\* that end where the output ends, and, as long as no request has failed, start
\* where the kernel stopped: neither a partial write whose remainder is queued,
\* nor a direct write beside a queue, drops, repeats or reorders a byte
\* (Write, after_write).
InOrder ==
    /\ \A i \in 1 .. Len(wq) :
          wq[i].to = IF i = Len(wq) THEN accepted ELSE wq[i + 1].from
    /\ (wq # <<>> /\ peer # "gone") => wq[1].from = sent

\* write_queue_size is exactly the bytes accepted that are neither sent nor
\* known to be lost: what queueSize(), close(0) and after_write decide on.
Conservation == accepted = sent + qsize + lost

\* While bytes are queued the blocked flag is set, so that after_write will
\* call onDrain when they are flushed: a script that waits for onDrain is woken.
DrainPromised == (Resting /\ handle = "open" /\ qsize > 0) => blocked

\* uv_close is never called on a handle that is closing already: neither the
\* flag closing nor a shutdown request outlives the close that served it.
NoDoubleClose == handle # "aborted"

\* Each copy made for a queued write is freed once, by after_write: when the
\* handle is gone none is left (stats.out.alloc = stats.out.free).
CopiesFreed == handle = "freed" => stats.alloc = stats.free

\* Seen from the script, the writing side of the socket is a StreamContract:
\* bytes reach the kernel in order, and unless the peer is gone the handle is
\* closed only when every accepted byte has: close() and close(0) flush first.
Phase ==
    IF handle # "open" THEN "closed" ELSE IF peer = "gone" THEN "broken" ELSE "open"
Contract == INSTANCE StreamContract WITH
    offered <- accepted, delivered <- sent, phase <- Phase
KeepsContract == Contract!Spec

\* Whenever bytes are left queued the script is told, by onDrain, when the
\* buffers have flushed, unless the socket closes or the peer is gone first.
FlushAnnounced ==
    (Resting /\ qsize > 0) ~>
        (pc = "after_write.onDrain" \/ handle # "open" \/ peer = "gone")

\* Once the script has called close() or close(0) the handle is closed and
\* freed, unless the peer is gone.
CloseCompletes == asked ~> (handle = "freed" \/ peer = "gone")
=============================================================================
