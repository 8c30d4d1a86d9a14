------------------------- MODULE SocketStreamProofs -------------------------
(***************************************************************************)
(* Theorems about SocketStream for every script, every length and every    *)
(* bound: types, the byte accounting, the order of the write queue, drain  *)
(* events, the implementation of StreamContract, the one close of a handle *)
(* and the copies of its queued writes.                                    *)
(***************************************************************************)
EXTENDS SocketStream, SequenceTheorems, TLAPS

-----------------------------------------------------------------------------
(* The inductive invariant: the requests still to be sent or given up are  *)
(* disjoint intervals, in order, between sent + lost and accepted.         *)

\* Queued requests are not empty and lie between sent + lost and accepted.
WqOK ==
    \A i \in 1 .. Len(wq) :
        /\ wq[i].status = "ok"
        /\ sent + lost <= wq[i].from /\ wq[i].from < wq[i].to /\ wq[i].to <= accepted
WqOrder == \A i, j \in 1 .. Len(wq) : i < j => wq[i].to <= wq[j].from

\* A request that completed on its own has nothing left to send.
DoneOK == \A i \in 1 .. Len(done) : done[i].status = "ok" /\ done[i].from = done[i].to

\* Requests being called back either have nothing left to send or have failed
\* and come before the queue.
PqOK ==
    \A i \in 1 .. Len(pq) :
        \/ pq[i].status = "ok" /\ pq[i].from = pq[i].to
        \/ /\ pq[i].status = "failed"
           /\ sent + lost <= pq[i].from /\ pq[i].from < pq[i].to /\ pq[i].to <= accepted
PqOrder ==
    \A i, j \in 1 .. Len(pq) :
        (i < j /\ pq[i].status = "failed" /\ pq[j].status = "failed") => pq[i].to <= pq[j].from
PqBeforeWq ==
    \A i \in 1 .. Len(pq), j \in 1 .. Len(wq) :
        pq[i].status = "failed" => pq[i].to <= wq[j].from

Accounts == Conservation /\ WqOK /\ WqOrder /\ DoneOK /\ PqOK /\ PqOrder /\ PqBeforeWq

\* Requests are called back only in uv__write_callbacks.
CallbackPCs == {"callbacks", "after_write.onWrite", "after_write.onError", "after_write.onDrain"}
PqPlace == pc \notin CallbackPCs => pq = <<>>

IInv == TypeOK /\ PqPlace /\ Accounts

-----------------------------------------------------------------------------
LEMMA InitIInv == Init => IInv
<1> SUFFICES ASSUME Init PROVE IInv
  OBVIOUS
<1>1. cur \in Request /\ stats \in [written : Nat, alloc : Nat, free : Nat]
  BY DEF Init, Request, NewRequest
<1>2. TypeOK
  <2>1. UvTypeOK
    <3>1. qsize \in Nat /\ wq \in Seq(Request) /\ done \in Seq(Request)
      BY DEF Init
    <3> QED BY <3>1 DEF Init, UvTypeOK
  <2>2. CtxTypeOK
    BY <1>1 DEF Init, CtxTypeOK
  <2>3. EnvTypeOK
    BY DEF Init, EnvTypeOK
  <2>4. ControlTypeOK
    BY <1>1 DEF Init, ControlTypeOK, PCs, HandlerPCs
  <2> QED BY <2>1, <2>2, <2>3, <2>4 DEF TypeOK
<1>3. Accounts
  BY DEF Init, Accounts, Conservation, WqOK, WqOrder, DoneOK, PqOK, PqOrder, PqBeforeWq
<1>4. PqPlace
  BY DEF Init, PqPlace
<1> QED BY <1>2, <1>3, <1>4 DEF IInv

-----------------------------------------------------------------------------
(* Steps that leave the queues and the counters alone *)

\* Counting a freed copy and n bytes written keeps the type of the statistics.
LEMMA StatsType ==
    ASSUME NEW s \in [written : Nat, alloc : Nat, free : Nat], NEW n \in Nat
    PROVE  [s EXCEPT !.written = @ + n, !.free = @ + 1] \in [written : Nat, alloc : Nat, free : Nat]
<1>1. s.written + n \in Nat /\ s.free + 1 \in Nat
  OBVIOUS
<1> QED BY <1>1

DataVars == <<qsize, wq, done, pq, sent, accepted, lost>>

Quiet ==
    \/ WriteFails \/ ReturnToWrite \/ Close \/ Shutdown \/ Pause \/ Resume
    \/ AfterWriteFailed \/ AfterWriteError \/ AfterWriteDrains \/ AfterWriteNoDrain
    \/ AfterWriteDrained \/ Drain \/ AfterReadData \/ AfterReadEnd \/ AfterReadError
    \/ Destroyed \/ OnClose \/ NextIteration \/ ReadData \/ ReadEnd \/ ReadError
    \/ \E to \in {"half", "gone"} : PeerMove(to)
    \/ UNCHANGED vars

\* The accounts depend on the queues and counters only.
LEMMA QuietAccounts ==
    ASSUME Accounts, UNCHANGED DataVars
    PROVE  Accounts'
BY DEF DataVars, Accounts, Conservation, WqOK, WqOrder, DoneOK, PqOK, PqOrder, PqBeforeWq

LEMMA QuietUnchanged == Quiet => UNCHANGED DataVars
BY DEF Quiet, DataVars, WriteFails, ReturnToWrite, Close, Shutdown, Pause, Resume,
   AfterWriteFailed, AfterWriteError, AfterWriteDrains, AfterWriteNoDrain,
   AfterWriteDrained, AfterWriteEnds, Drain, AfterReadData, AfterReadEnd, AfterReadError,
   Destroyed, OnClose, NextIteration, ReadData, ReadEnd, ReadError, PeerMove,
   vars, uvVars, ctxVars, envVars, control

LEMMA QuietPqPlace == PqPlace /\ Quiet => PqPlace'
<1> USE DEF PqPlace, CallbackPCs, Returned, uvVars, ctxVars, envVars, control, vars
<1>1. ASSUME PqPlace, WriteFails \/ ReturnToWrite \/ Close \/ Shutdown \/ Pause \/ Resume
      PROVE  PqPlace'
  BY <1>1 DEF WriteFails, ReturnToWrite, Close, Shutdown, Pause, Resume
<1>2. ASSUME PqPlace, AfterWriteFailed \/ AfterWriteError \/ AfterWriteDrains \/ AfterWriteNoDrain
             \/ AfterWriteDrained \/ Drain \/ Destroyed \/ OnClose
      PROVE  PqPlace'
  BY <1>2 DEF AfterWriteFailed, AfterWriteError, AfterWriteDrains, AfterWriteNoDrain,
     AfterWriteDrained, AfterWriteEnds, Drain, Destroyed, OnClose
<1>3. ASSUME PqPlace, AfterReadData \/ AfterReadEnd \/ AfterReadError \/ NextIteration
             \/ ReadData \/ ReadEnd \/ ReadError
      PROVE  PqPlace'
  BY <1>3 DEF AfterReadData, AfterReadEnd, AfterReadError, NextIteration, ReadData, ReadEnd,
     ReadError, Readable
<1>4. ASSUME PqPlace, UNCHANGED vars \/ \E to \in {"half", "gone"} : PeerMove(to)
      PROVE  PqPlace'
  BY <1>4 DEF PeerMove
<1> QED BY <1>1, <1>2, <1>3, <1>4 DEF Quiet

LEMMA QuietTypeOK == TypeOK /\ Quiet => TypeOK'
<1> USE DEF uvVars, ctxVars, envVars, control, vars
<1>1. UvTypeOK /\ Quiet => UvTypeOK'
  <2> USE DEF UvTypeOK
  <2>1. ASSUME UvTypeOK, WriteFails \/ ReturnToWrite \/ Close \/ Shutdown \/ Pause \/ Resume
        PROVE  UvTypeOK'
    BY <2>1 DEF WriteFails, ReturnToWrite, Close, Shutdown, Pause, Resume, UvClose
  <2>2. ASSUME UvTypeOK, AfterWriteFailed \/ AfterWriteError \/ AfterWriteDrains
               \/ AfterWriteNoDrain \/ AfterWriteDrained \/ Drain \/ Destroyed \/ OnClose
        PROVE  UvTypeOK'
    BY <2>2 DEF AfterWriteFailed, AfterWriteError, AfterWriteDrains, AfterWriteNoDrain,
       AfterWriteDrained, AfterWriteEnds, Drain, Destroyed, OnClose, UvClose, AfterShutdown
  <2>3. ASSUME UvTypeOK, AfterReadData \/ AfterReadEnd \/ AfterReadError \/ NextIteration
               \/ ReadData \/ ReadEnd \/ ReadError
        PROVE  UvTypeOK'
    BY <2>3 DEF AfterReadData, AfterReadEnd, AfterReadError, NextIteration, ReadData, ReadEnd,
       ReadError, UvClose
  <2>4. ASSUME UvTypeOK, UNCHANGED vars \/ \E to \in {"half", "gone"} : PeerMove(to)
        PROVE  UvTypeOK'
    BY <2>4 DEF PeerMove
  <2> QED BY <2>1, <2>2, <2>3, <2>4 DEF Quiet
<1>2. CtxTypeOK /\ ControlTypeOK /\ Quiet => CtxTypeOK'
  <2> USE DEF CtxTypeOK
  <2>1. ASSUME CtxTypeOK, WriteFails \/ ReturnToWrite \/ Close \/ Shutdown \/ Pause \/ Resume
        PROVE  CtxTypeOK'
    BY <2>1 DEF WriteFails, ReturnToWrite, Close, Shutdown, Pause, Resume, ClosingAfterClose,
       NothingQueued
  <2>2. ASSUME CtxTypeOK, AfterWriteFailed \/ AfterWriteError \/ AfterWriteDrains \/ OnClose
        PROVE  CtxTypeOK'
    BY <2>2 DEF AfterWriteFailed, AfterWriteError, AfterWriteDrains, OnClose
  <2>6. ASSUME CtxTypeOK, Drain \/ Destroyed
        PROVE  CtxTypeOK'
    <3>1. closing' = TRUE \/ closing' = closing
      BY <2>6 DEF Drain, Destroyed, AfterShutdown
    <3>2. UNCHANGED <<blocked, paused, stats>>
      BY <2>6 DEF Drain, Destroyed
    <3> QED BY <2>6, <3>1, <3>2
  <2>3. ASSUME CtxTypeOK, ControlTypeOK, AfterWriteNoDrain \/ AfterWriteDrained
        PROVE  CtxTypeOK'
    <3>1. cur.len \in Nat
      BY <2>3 DEF ControlTypeOK, Request
    <3>2. stats' = [stats EXCEPT !.written = @ + cur.len, !.free = @ + 1]
      BY <2>3 DEF AfterWriteNoDrain, AfterWriteDrained, AfterWriteEnds, StatsAfterWrite
    <3>3. stats \in [written : Nat, alloc : Nat, free : Nat]
      BY <2>3
    <3>4. stats' \in [written : Nat, alloc : Nat, free : Nat]
      BY <3>1, <3>2, <3>3, StatsType
    <3>5. closing' \in BOOLEAN /\ blocked' \in BOOLEAN /\ paused' \in BOOLEAN
      BY <2>3 DEF AfterWriteNoDrain, AfterWriteDrained, AfterWriteEnds
    <3> QED BY <3>4, <3>5
  <2>4. ASSUME CtxTypeOK, AfterReadData \/ AfterReadEnd \/ AfterReadError \/ NextIteration
               \/ ReadData \/ ReadEnd \/ ReadError
        PROVE  CtxTypeOK'
    BY <2>4 DEF AfterReadData, AfterReadEnd, AfterReadError, NextIteration, ReadData, ReadEnd,
       ReadError, ClosingAfterEnd
  <2>5. ASSUME CtxTypeOK, UNCHANGED vars \/ \E to \in {"half", "gone"} : PeerMove(to)
        PROVE  CtxTypeOK'
    BY <2>5 DEF PeerMove
  <2> QED BY <2>1, <2>2, <2>3, <2>4, <2>5, <2>6 DEF Quiet
<1>3. EnvTypeOK /\ Quiet => EnvTypeOK'
  <2> USE DEF EnvTypeOK
  <2>1. ASSUME EnvTypeOK, WriteFails \/ ReturnToWrite \/ Close \/ Shutdown \/ Pause \/ Resume
        PROVE  EnvTypeOK'
    BY <2>1 DEF WriteFails, ReturnToWrite, Close, Shutdown, Pause, Resume
  <2>2. ASSUME EnvTypeOK, AfterWriteFailed \/ AfterWriteError \/ AfterWriteDrains
               \/ AfterWriteNoDrain \/ AfterWriteDrained \/ Drain \/ Destroyed \/ OnClose
        PROVE  EnvTypeOK'
    BY <2>2 DEF AfterWriteFailed, AfterWriteError, AfterWriteDrains, AfterWriteNoDrain,
       AfterWriteDrained, AfterWriteEnds, Drain, Destroyed, OnClose
  <2>3. ASSUME EnvTypeOK, AfterReadData \/ AfterReadEnd \/ AfterReadError \/ NextIteration
               \/ ReadData \/ ReadEnd \/ ReadError
        PROVE  EnvTypeOK'
    <3>1. reads' = reads \/ reads' = reads + 1
      BY <2>3 DEF AfterReadData, AfterReadEnd, AfterReadError, NextIteration, ReadData, ReadEnd,
         ReadError
    <3>2. ended' = ended \/ ended' = TRUE \/ ended' = FALSE
      BY <2>3 DEF AfterReadData, AfterReadEnd, AfterReadError, NextIteration, ReadData, ReadEnd,
         ReadError
    <3>3. UNCHANGED <<peer, sent, accepted, lost, asked>>
      BY <2>3 DEF AfterReadData, AfterReadEnd, AfterReadError, NextIteration, ReadData, ReadEnd,
         ReadError
    <3>4. reads' \in Nat
      BY <2>3, <3>1
    <3>5. ended' \in BOOLEAN
      BY <2>3, <3>2
    <3> QED BY <2>3, <3>3, <3>4, <3>5
  <2>4. ASSUME EnvTypeOK, UNCHANGED vars \/ \E to \in {"half", "gone"} : PeerMove(to)
        PROVE  EnvTypeOK'
    BY <2>4 DEF PeerMove
  <2> QED BY <2>1, <2>2, <2>3, <2>4 DEF Quiet
<1>4. ControlTypeOK /\ Quiet => ControlTypeOK'
  <2> USE DEF ControlTypeOK, PCs, HandlerPCs
  <2>1. ASSUME ControlTypeOK, WriteFails \/ ReturnToWrite
        PROVE  ControlTypeOK'
    <3>1. CASE WriteFails
      <4>1. nested' = Append(nested, "onError")
        BY <3>1 DEF WriteFails
      <4>2. nested' \in Seq({"onWrite", "onError"})
        BY <2>1, <4>1
      <4> QED BY <2>1, <3>1, <4>2 DEF WriteFails
    <3>2. CASE ReturnToWrite
      <4>1. nested # <<>> /\ nested' = SubSeq(nested, 1, Len(nested) - 1)
        BY <3>2 DEF ReturnToWrite
      <4>2. nested' \in Seq({"onWrite", "onError"})
        BY <2>1, <4>1
      <4> QED BY <2>1, <3>2, <4>2 DEF ReturnToWrite
    <3> QED BY <2>1, <3>1, <3>2
  <2>5. ASSUME ControlTypeOK, Close \/ Shutdown \/ Pause \/ Resume
        PROVE  ControlTypeOK'
    BY <2>5 DEF Close, Shutdown, Pause, Resume
  <2>2. ASSUME ControlTypeOK, AfterWriteFailed \/ AfterWriteError \/ AfterWriteDrains
               \/ AfterWriteNoDrain \/ AfterWriteDrained \/ Drain \/ Destroyed \/ OnClose
        PROVE  ControlTypeOK'
    BY <2>2 DEF AfterWriteFailed, AfterWriteError, AfterWriteDrains, AfterWriteNoDrain,
       AfterWriteDrained, AfterWriteEnds, Drain, Destroyed, OnClose
  <2>3. ASSUME ControlTypeOK, AfterReadData \/ AfterReadEnd \/ AfterReadError \/ NextIteration
               \/ ReadData \/ ReadEnd \/ ReadError
        PROVE  ControlTypeOK'
    BY <2>3 DEF AfterReadData, AfterReadEnd, AfterReadError, NextIteration, ReadData, ReadEnd,
       ReadError
  <2>4. ASSUME ControlTypeOK, UNCHANGED vars \/ \E to \in {"half", "gone"} : PeerMove(to)
        PROVE  ControlTypeOK'
    BY <2>4 DEF PeerMove
  <2> QED BY <2>1, <2>2, <2>3, <2>4, <2>5 DEF Quiet
<1> QED BY <1>1, <1>2, <1>3, <1>4 DEF TypeOK

-----------------------------------------------------------------------------
(* Write *)

LEMMA RequestType ==
    /\ \A r \in Request : r.from \in Nat /\ r.to \in Nat /\ r.len \in Nat
    /\ \A from, to \in Nat : from <= to => NewRequest(from, to) \in Request
BY DEF Request, NewRequest

\* An empty write queue size means that nothing is left to send or to give up.
LEMMA EmptyQueue ==
    ASSUME IInv, qsize = 0
    PROVE  wq = <<>> /\ (\A i \in 1 .. Len(pq) : pq[i].status = "ok") /\ sent + lost = accepted
<1>1. sent \in Nat /\ lost \in Nat /\ accepted \in Nat /\ wq \in Seq(Request) /\ pq \in Seq(Request)
  BY DEF IInv, TypeOK, UvTypeOK, EnvTypeOK, ControlTypeOK
<1>2. sent + lost = accepted
  BY <1>1 DEF IInv, Accounts, Conservation
<1>3. wq = <<>>
  <2>1. ASSUME wq # <<>> PROVE FALSE
    <3>1. 1 \in 1 .. Len(wq) /\ wq[1] \in Request
      BY <1>1, <2>1
    <3>2. wq[1].from \in Nat /\ wq[1].to \in Nat
      BY <3>1, RequestType
    <3> QED BY <1>1, <1>2, <3>1, <3>2 DEF IInv, Accounts, WqOK
  <2> QED BY <2>1
<1>4. ASSUME NEW i \in 1 .. Len(pq) PROVE pq[i].status = "ok"
  <2>1. pq[i] \in Request
    BY <1>1
  <2>2. pq[i].from \in Nat /\ pq[i].to \in Nat
    BY <2>1, RequestType
  <2> QED BY <1>1, <1>2, <2>2 DEF IInv, Accounts, PqOK
<1> QED BY <1>2, <1>3, <1>4

\* Queuing a request behind everything else, with bytes of it sent already only
\* if nothing else was pending.
LEMMA QueueAccounts ==
    ASSUME IInv, NEW r \in Request, r.status = "ok", r.from < r.to,
           accepted <= r.from, r.to <= accepted', accepted' \in Nat, sent' \in Nat,
           wq' = Append(wq, r), UNCHANGED <<pq, done, lost>>,
           sent' + lost <= r.from,
           sent' = sent \/ qsize = 0
    PROVE  WqOK' /\ WqOrder' /\ DoneOK' /\ PqOK' /\ PqOrder' /\ PqBeforeWq' /\ wq' \in Seq(Request)
<1>1. /\ sent \in Nat /\ lost \in Nat /\ accepted \in Nat
      /\ wq \in Seq(Request) /\ pq \in Seq(Request) /\ done \in Seq(Request)
  BY DEF IInv, TypeOK, UvTypeOK, EnvTypeOK, ControlTypeOK
<1>2. wq' \in Seq(Request) /\ Len(wq') = Len(wq) + 1
  BY <1>1
<1>3. /\ \A i \in 1 .. Len(wq) : wq'[i] = wq[i] /\ wq[i] \in Request
      /\ wq'[Len(wq) + 1] = r
      /\ \A i \in 1 .. Len(wq') : i \in 1 .. Len(wq) \/ i = Len(wq) + 1
  BY <1>1, <1>2
<1>4. r.from \in Nat /\ r.to \in Nat
  BY DEF Request
<1>5. \A q \in Request : q.from \in Nat /\ q.to \in Nat
  BY RequestType
<1>6. \A i \in 1 .. Len(wq) : wq[i].to <= accepted
  BY DEF IInv, Accounts, WqOK
<1>7. \A i \in 1 .. Len(pq) : pq[i].status = "failed" => pq[i].to <= accepted
  BY DEF IInv, Accounts, PqOK
<1>8. CASE sent' = sent
  <2>1. WqOK'
    <3>1. \A i \in 1 .. Len(wq) : /\ wq[i].status = "ok" /\ sent + lost <= wq[i].from
                                  /\ wq[i].from < wq[i].to /\ wq[i].to <= accepted
      BY DEF IInv, Accounts, WqOK
    <3>2. \A i \in 1 .. Len(wq) : wq[i].to <= accepted'
      <4>1. \A i \in 1 .. Len(wq) : wq[i].to \in Nat
        BY <1>3, <1>5
      <4>2. accepted <= accepted'
        BY <1>1, <1>4
      <4> QED BY <1>1, <3>1, <4>1, <4>2
    <3> QED BY <1>3, <1>8, <3>1, <3>2 DEF WqOK
  <2>2. WqOrder'
    BY <1>1, <1>2, <1>3, <1>4, <1>5, <1>6 DEF IInv, Accounts, WqOrder
  <2>3. PqOK'
    BY <1>1, <1>5, <1>8 DEF IInv, Accounts, PqOK
  <2>4. PqBeforeWq'
    BY <1>1, <1>2, <1>3, <1>4, <1>5, <1>7 DEF IInv, Accounts, PqBeforeWq
  <2> QED BY <1>2, <2>1, <2>2, <2>3, <2>4 DEF IInv, Accounts, DoneOK, PqOrder
<1>9. CASE qsize = 0
  <2>1. wq = <<>> /\ \A i \in 1 .. Len(pq) : pq[i].status = "ok"
    BY <1>9, EmptyQueue
  <2>2. Len(wq') = 1 /\ wq'[1] = r
    BY <1>2, <1>3, <2>1
  <2>3. WqOK' /\ WqOrder'
    BY <1>1, <1>4, <2>2 DEF WqOK, WqOrder
  <2>4. PqOK' /\ PqBeforeWq' /\ PqOrder'
    BY <1>1, <2>1, <2>2 DEF IInv, Accounts, PqOK, PqBeforeWq, PqOrder
  <2> QED BY <1>2, <2>3, <2>4 DEF IInv, Accounts, DoneOK
<1> QED BY <1>8, <1>9

LEMMA UvWriteStep ==
    ASSUME IInv, NEW n \in Nat, NEW len \in Nat, n < len, n = 0 \/ qsize = 0,
           UvWrite(accepted + n, accepted + len, sent + n),
           accepted' = accepted + len, UNCHANGED <<pq, lost>>
    PROVE  /\ qsize' \in Nat /\ sent' \in Nat /\ accepted' \in Nat
           /\ wq' \in Seq(Request) /\ done' \in Seq(Request)
           /\ Accounts'
<1>1. /\ sent \in Nat /\ lost \in Nat /\ accepted \in Nat /\ qsize \in Nat
      /\ wq \in Seq(Request) /\ pq \in Seq(Request) /\ done \in Seq(Request)
  BY DEF IInv, TypeOK, UvTypeOK, EnvTypeOK, ControlTypeOK
<1>2. accepted = sent + qsize + lost /\ accepted' \in Nat
  BY <1>1 DEF IInv, Accounts, Conservation
<1>3. CASE qsize # 0 /\ wq' = Append(wq, NewRequest(accepted + n, accepted + len))
           /\ qsize' = qsize + ((accepted + len) - (accepted + n)) /\ sent' = sent + n /\ done' = done
  <2> DEFINE r == NewRequest(accepted, accepted + len)
  <2>1. n = 0 /\ sent' = sent /\ qsize' = qsize + len
    BY <1>1, <1>3
  <2>2. r \in Request /\ r.status = "ok" /\ r.from = accepted /\ r.to = accepted + len
    BY <1>1, RequestType DEF NewRequest
  <2>3. wq' = Append(wq, r)
    BY <1>1, <1>3, <2>1
  <2>4. sent + lost <= r.from
    BY <1>1, <1>2, <2>2
  <2> HIDE DEF r
  <2>5. WqOK' /\ WqOrder' /\ DoneOK' /\ PqOK' /\ PqOrder' /\ PqBeforeWq' /\ wq' \in Seq(Request)
    BY <1>1, <1>2, <1>3, <2>1, <2>2, <2>3, <2>4, QueueAccounts
  <2>6. Conservation'
    BY <1>1, <1>2, <2>1 DEF Conservation
  <2> QED BY <1>1, <1>2, <1>3, <2>1, <2>5, <2>6 DEF Accounts
<1>4. ASSUME qsize = 0, NEW m \in 0 .. (accepted + len) - (accepted + n) - 1,
             wq' = Append(wq, [NewRequest(accepted + n, accepted + len) EXCEPT !.from = @ + m]),
             qsize' = (accepted + len) - (accepted + n) - m,
             sent' = sent + n + m, done' = done
      PROVE  /\ qsize' \in Nat /\ sent' \in Nat /\ wq' \in Seq(Request) /\ done' \in Seq(Request)
             /\ Accounts'
  <2> DEFINE r == [NewRequest(accepted + n, accepted + len) EXCEPT !.from = @ + m]
  <2>1. m \in Nat /\ m < len - n /\ sent' \in Nat /\ qsize' = len - n - m /\ qsize' \in Nat
    BY <1>1, <1>4
  <2>2. r = [from |-> accepted + n + m, to |-> accepted + len, len |-> len - n, status |-> "ok"]
    <3>1. (accepted + len) - (accepted + n) = len - n /\ (accepted + n) + m = accepted + n + m
      BY <1>1, <2>1
    <3> QED BY <3>1 DEF NewRequest
  <2>3. len - n \in Nat /\ accepted + n + m \in Nat /\ accepted + len \in Nat
    BY <1>1, <2>1
  <2>4. /\ r \in Request /\ r.status = "ok"
        /\ r.from = accepted + n + m /\ r.to = accepted + len
    BY <2>2, <2>3 DEF Request
  <2>5. wq' = Append(wq, r)
    BY <1>4
  <2> HIDE DEF r
  <2>6. sent' + lost <= r.from /\ accepted <= r.from /\ r.from < r.to
    BY <1>1, <1>2, <1>4, <2>1, <2>4
  <2>7. WqOK' /\ WqOrder' /\ DoneOK' /\ PqOK' /\ PqOrder' /\ PqBeforeWq' /\ wq' \in Seq(Request)
    <3>1. UNCHANGED <<pq, done, lost>> /\ r.to <= accepted' /\ qsize = 0
      BY <1>1, <1>2, <1>4, <2>4
    <3> QED BY <1>2, <2>1, <2>4, <2>5, <2>6, <3>1, QueueAccounts
  <2>8. Conservation'
    BY <1>1, <1>2, <1>4, <2>1 DEF Conservation
  <2> QED BY <1>1, <1>4, <2>1, <2>7, <2>8 DEF Accounts
<1>5. CASE /\ qsize = 0
           /\ done' = Append(done, [NewRequest(accepted + n, accepted + len) EXCEPT
                                       !.from = accepted + len])
           /\ sent' = sent + n + ((accepted + len) - (accepted + n))
           /\ UNCHANGED <<wq, qsize>>
  <2> DEFINE r == [NewRequest(accepted + n, accepted + len) EXCEPT !.from = accepted + len]
  <2>1. sent' = sent + len /\ len - n \in Nat
    BY <1>1, <1>5
  <2>2. r = [from |-> accepted + len, to |-> accepted + len, len |-> len - n, status |-> "ok"]
    <3>1. (accepted + len) - (accepted + n) = len - n
      BY <1>1
    <3> QED BY <3>1 DEF NewRequest
  <2>3. r \in Request /\ r.status = "ok" /\ r.from = r.to
    BY <1>1, <2>1, <2>2 DEF Request
  <2>4. done' = Append(done, r)
    BY <1>5
  <2> HIDE DEF r
  <2>5. done' \in Seq(Request) /\ DoneOK'
    BY <1>1, <2>3, <2>4 DEF IInv, Accounts, DoneOK
  <2>6. wq' = <<>> /\ \A i \in 1 .. Len(pq) : pq[i].status = "ok"
    BY <1>5, EmptyQueue
  <2>7. WqOK' /\ WqOrder' /\ PqBeforeWq'
    BY <2>6 DEF WqOK, WqOrder, PqBeforeWq
  <2>8. PqOK' /\ PqOrder'
    BY <1>1, <2>6 DEF IInv, Accounts, PqOK, PqOrder
  <2>9. Conservation'
    BY <1>1, <1>2, <1>5, <2>1 DEF Conservation
  <2> QED BY <1>1, <1>5, <2>1, <2>5, <2>7, <2>8, <2>9 DEF Accounts
<1> QED BY <1>2, <1>3, <1>4, <1>5 DEF UvWrite

LEMMA WriteFullStep ==
    ASSUME IInv, NEW len \in Nat, len > 0, WriteFull(len)
    PROVE  IInv'
<1> USE DEF uvVars
<1>1. /\ sent \in Nat /\ lost \in Nat /\ accepted \in Nat /\ qsize \in Nat /\ reads \in Nat
      /\ pq \in Seq(Request)
  BY DEF IInv, TypeOK, UvTypeOK, EnvTypeOK, ControlTypeOK
<1>2. qsize = 0 /\ wq = <<>> /\ (\A i \in 1 .. Len(pq) : pq[i].status = "ok")
  BY EmptyQueue DEF WriteFull
<1>3. sent' = sent + len /\ accepted' = accepted + len
  BY DEF WriteFull
<1>4. UNCHANGED <<handle, reading, shut, qsize, wq, done, closing, blocked, paused, peer, lost,
                  reads, ended, asked, pc, cur, pq>>
  BY DEF WriteFull
<1>5. TypeOK'
  <2>1. UvTypeOK'
    BY <1>4 DEF IInv, TypeOK, UvTypeOK
  <2>2. stats' \in [written : Nat, alloc : Nat, free : Nat]
    <3>1. stats' = [stats EXCEPT !.written = @ + len]
      BY DEF WriteFull
    <3>2. stats \in [written : Nat, alloc : Nat, free : Nat]
      BY DEF IInv, TypeOK, CtxTypeOK
    <3>3. stats.written + len \in Nat
      BY <3>2
    <3> QED BY <3>1, <3>2, <3>3
  <2>3. CtxTypeOK'
    BY <1>4, <2>2 DEF IInv, TypeOK, CtxTypeOK
  <2>4. sent' \in Nat /\ accepted' \in Nat
    BY <1>1, <1>3
  <2>5. EnvTypeOK'
    BY <1>4, <2>4 DEF IInv, TypeOK, EnvTypeOK
  <2>6. nested' \in Seq({"onWrite", "onError"})
    <3>1. nested' = Append(nested, "onWrite")
      BY DEF WriteFull
    <3> QED BY <3>1 DEF IInv, TypeOK, ControlTypeOK
  <2>7. ControlTypeOK'
    BY <1>4, <2>6 DEF IInv, TypeOK, ControlTypeOK
  <2> QED BY <2>1, <2>3, <2>5, <2>7 DEF TypeOK
<1>6. Conservation'
  BY <1>1, <1>3, <1>4 DEF IInv, Accounts, Conservation
<1>7. WqOK' /\ WqOrder' /\ PqBeforeWq' /\ DoneOK'
  BY <1>2, <1>4 DEF IInv, Accounts, WqOK, WqOrder, PqBeforeWq, DoneOK
<1>8. PqOK' /\ PqOrder'
  BY <1>1, <1>2, <1>4 DEF IInv, Accounts, PqOK, PqOrder
<1>9. PqPlace'
  BY <1>4 DEF IInv, PqPlace
<1> QED BY <1>5, <1>6, <1>7, <1>8, <1>9 DEF IInv, Accounts

\* What WriteIncomplete and WriteEagain share.
LEMMA WriteQueuedStep ==
    ASSUME IInv, NEW n \in Nat, NEW len \in Nat,
           /\ qsize' \in Nat /\ sent' \in Nat /\ accepted' \in Nat
           /\ wq' \in Seq(Request) /\ done' \in Seq(Request),
           Accounts',
           stats' = [stats EXCEPT !.written = @ + n, !.alloc = @ + 1],
           blocked' = TRUE, nested' = nested \/ nested' = Append(nested, "onWrite"),
           UNCHANGED <<handle, reading, shut, closing, paused, peer, lost, reads, ended, asked,
                       pc, cur, pq>>
    PROVE  IInv'
<1>1. UvTypeOK'
  BY DEF IInv, TypeOK, UvTypeOK
<1>2. stats' \in [written : Nat, alloc : Nat, free : Nat]
  <2>1. stats \in [written : Nat, alloc : Nat, free : Nat]
    BY DEF IInv, TypeOK, CtxTypeOK
  <2>2. stats.written + n \in Nat /\ stats.alloc + 1 \in Nat
    BY <2>1
  <2> QED BY <2>1, <2>2
<1>3. CtxTypeOK'
  BY <1>2 DEF IInv, TypeOK, CtxTypeOK
<1>4. EnvTypeOK'
  BY DEF IInv, TypeOK, EnvTypeOK
<1>5. nested' \in Seq({"onWrite", "onError"})
  <2>1. nested \in Seq({"onWrite", "onError"})
    BY DEF IInv, TypeOK, ControlTypeOK
  <2>2. Append(nested, "onWrite") \in Seq({"onWrite", "onError"})
    BY <2>1
  <2> QED BY <2>1, <2>2
<1>6. ControlTypeOK'
  BY <1>5 DEF IInv, TypeOK, ControlTypeOK
<1>7. PqPlace'
  BY DEF IInv, PqPlace
<1> QED BY <1>1, <1>3, <1>4, <1>6, <1>7 DEF IInv, TypeOK

LEMMA WriteIncompleteStep ==
    ASSUME IInv, NEW len \in Nat, len > 0, WriteIncomplete(len)
    PROVE  IInv'
<1>1. PICK n \in 1 .. len - 1 :
        /\ UvWrite(RemainderStart(accepted, n), accepted + len, sent + n)
        /\ stats' = [stats EXCEPT !.written = @ + n, !.alloc = @ + 1]
  BY DEF WriteIncomplete
<1>2. n \in Nat /\ n < len
  OBVIOUS
<1>3. UvWrite(accepted + n, accepted + len, sent + n)
  BY <1>1 DEF RemainderStart
<1>4. qsize = 0 /\ accepted' = accepted + len /\ UNCHANGED <<pq, lost>>
  BY DEF WriteIncomplete
<1>5. /\ qsize' \in Nat /\ sent' \in Nat /\ accepted' \in Nat
      /\ wq' \in Seq(Request) /\ done' \in Seq(Request)
      /\ Accounts'
  BY <1>2, <1>3, <1>4, UvWriteStep
<1>6. /\ blocked' = TRUE /\ nested' = Append(nested, "onWrite")
      /\ UNCHANGED <<handle, reading, shut, closing, paused, peer, lost, reads, ended, asked,
                     pc, cur, pq>>
  BY DEF WriteIncomplete, BlockedAfterQueuing
<1> QED BY <1>1, <1>2, <1>5, <1>6, WriteQueuedStep

LEMMA WriteEagainStep ==
    ASSUME IInv, NEW len \in Nat, len > 0, WriteEagain(len)
    PROVE  IInv'
<1>1. /\ stats' = [stats EXCEPT !.alloc = @ + 1]
      /\ blocked' = TRUE
      /\ UNCHANGED <<handle, reading, shut, closing, paused, peer, lost, reads, ended, asked,
                     pc, cur, pq, nested>>
  BY DEF WriteEagain, BlockedAfterQueuing, control
<1>2. stats' = [stats EXCEPT !.written = @ + 0, !.alloc = @ + 1]
  <2>1. stats \in [written : Nat, alloc : Nat, free : Nat]
    BY DEF IInv, TypeOK, CtxTypeOK
  <2>2. stats.written + 0 = stats.written
    BY <2>1
  <2> QED BY <1>1, <2>1, <2>2
<1>3. /\ qsize' \in Nat /\ sent' \in Nat /\ accepted' \in Nat
      /\ wq' \in Seq(Request) /\ done' \in Seq(Request)
      /\ Accounts'
  <2>1. CASE UvWrite(accepted, accepted + len, sent) /\ accepted' = accepted + len
    <3>1. accepted + 0 = accepted /\ sent + 0 = sent
      BY DEF IInv, TypeOK, EnvTypeOK
    <3>2. UvWrite(accepted + 0, accepted + len, sent + 0)
      BY <2>1, <3>1
    <3> QED BY <1>1, <2>1, <3>2, UvWriteStep
  <2>2. CASE UNCHANGED <<wq, qsize, sent, done, accepted>>
    <3>1. UNCHANGED DataVars
      BY <1>1, <2>2 DEF DataVars
    <3>2. Accounts'
      BY <3>1, QuietAccounts DEF IInv
    <3> QED BY <2>2, <3>2 DEF IInv, TypeOK, UvTypeOK, EnvTypeOK
  <2> QED BY <2>1, <2>2 DEF WriteEagain
<1> QED BY <1>1, <1>2, <1>3, WriteQueuedStep

-----------------------------------------------------------------------------
(* libuv: uv__write, uv__write_callbacks, uv__finish_close *)

LEMMA IoWritableAccounts ==
    ASSUME IInv, pq = <<>>, UvWriteHead, done' = <<>>, UNCHANGED <<accepted, lost>>
    PROVE  /\ qsize' \in Nat /\ sent' \in Nat
           /\ wq' \in Seq(Request) /\ pq' \in Seq(Request)
           /\ Accounts'
<1> DEFINE h == Head(wq)
<1>1. /\ sent \in Nat /\ lost \in Nat /\ accepted \in Nat /\ qsize \in Nat
      /\ wq \in Seq(Request) /\ done \in Seq(Request)
  BY DEF IInv, TypeOK, UvTypeOK, EnvTypeOK, ControlTypeOK
<1>2. accepted = sent + qsize + lost
  BY DEF IInv, Accounts, Conservation
<1>3. DoneOK'
  BY DEF DoneOK
<1>4. \A i \in 1 .. Len(done) : done[i] \in Request /\ done[i].status = "ok" /\ done[i].from = done[i].to
  BY <1>1 DEF IInv, Accounts, DoneOK
<1>5. CASE wq = <<>> /\ pq' = done /\ UNCHANGED <<wq, qsize, sent>>
  <2>1. PqOK' /\ PqOrder'
    BY <1>4, <1>5 DEF PqOK, PqOrder
  <2>2. WqOK' /\ WqOrder' /\ PqBeforeWq'
    BY <1>5 DEF WqOK, WqOrder, PqBeforeWq
  <2>3. Conservation'
    BY <1>2, <1>5 DEF Conservation
  <2> QED BY <1>1, <1>3, <1>5, <2>1, <2>2, <2>3 DEF Accounts
<1>6. ASSUME wq # <<>>
      PROVE  /\ 1 \in 1 .. Len(wq) /\ h = wq[1] /\ h \in Request /\ h.status = "ok"
             /\ h.from \in Nat /\ h.to \in Nat
             /\ sent + lost <= h.from /\ h.from < h.to /\ h.to <= accepted
             /\ \A j \in 2 .. Len(wq) : h.to <= wq[j].from
             /\ Tail(wq) \in Seq(Request) /\ Len(Tail(wq)) = Len(wq) - 1
             /\ \A i \in 1 .. Len(Tail(wq)) : Tail(wq)[i] = wq[i + 1] /\ i + 1 \in 2 .. Len(wq)
  <2>1. 1 \in 1 .. Len(wq) /\ h = wq[1] /\ h \in Request /\ Tail(wq) \in Seq(Request)
        /\ Len(Tail(wq)) = Len(wq) - 1 /\ \A i \in 1 .. Len(Tail(wq)) : Tail(wq)[i] = wq[i + 1]
    BY <1>1, <1>6
  <2>2. h.from \in Nat /\ h.to \in Nat
    BY <2>1, RequestType
  <2>3. \A i \in 1 .. Len(Tail(wq)) : i + 1 \in 2 .. Len(wq)
    BY <1>1, <2>1
  <2>4. \A j \in 2 .. Len(wq) : h.to <= wq[j].from
    <3>1. \A j \in 2 .. Len(wq) : j \in 1 .. Len(wq) /\ 1 < j
      BY <1>1
    <3> QED BY <2>1, <3>1 DEF IInv, Accounts, WqOrder
  <2>5. h.status = "ok" /\ sent + lost <= h.from /\ h.from < h.to /\ h.to <= accepted
    BY <2>1 DEF IInv, Accounts, WqOK
  <2> QED BY <2>1, <2>2, <2>3, <2>4, <2>5
<1>7. ASSUME NEW r \in Request, wq # <<>>, wq' = Tail(wq), pq' = Append(done, r),
             sent' \in Nat, sent' + lost <= h.to,
             \/ r.status = "ok" /\ r.from = r.to
             \/ r.status = "failed" /\ sent' + lost <= r.from /\ r.from < r.to /\ r.to <= h.to
      PROVE  /\ wq' \in Seq(Request) /\ pq' \in Seq(Request)
             /\ WqOK' /\ WqOrder' /\ PqOK' /\ PqOrder' /\ PqBeforeWq'
  <2> HIDE DEF h
  <2>1. \A i \in 1 .. Len(wq') : wq'[i] = wq[i + 1] /\ i + 1 \in 2 .. Len(wq) /\ i + 1 \in 1 .. Len(wq)
    BY <1>1, <1>6, <1>7
  <2>2. /\ pq' \in Seq(Request) /\ Len(pq') = Len(done) + 1
        /\ \A i \in 1 .. Len(pq') : (i \in 1 .. Len(done) /\ pq'[i] = done[i]) \/ (i = Len(done) + 1 /\ pq'[i] = r)
    BY <1>1, <1>7
  <2>3. \A i \in 1 .. Len(wq) : wq[i].from \in Nat /\ wq[i].to \in Nat
    <3>1. \A i \in 1 .. Len(wq) : wq[i] \in Request
      BY <1>1
    <3> QED BY <3>1, RequestType
  <2>4. r.from \in Nat /\ r.to \in Nat /\ h.to \in Nat /\ h.to <= accepted
    BY <1>6, <1>7, RequestType
  <2>5. \A j \in 2 .. Len(wq) : h.to <= wq[j].from
    BY <1>6, <1>7
  <2>6. WqOK'
    BY <1>1, <1>7, <2>1, <2>3, <2>4, <2>5 DEF IInv, Accounts, WqOK
  <2>7. WqOrder'
    <3>1. \A i, j \in 1 .. Len(wq') : i < j => i + 1 < j + 1
      BY <1>1
    <3> QED BY <2>1, <3>1 DEF IInv, Accounts, WqOrder
  <2>8. \A i \in 1 .. Len(pq') : pq'[i].status = "failed" => pq'[i] = r /\ i = Len(done) + 1
    BY <1>4, <2>2
  <2>9. PqOK'
    BY <1>1, <1>4, <1>7, <2>2, <2>4 DEF PqOK
  <2>10. PqOrder'
    BY <1>1, <2>8 DEF PqOrder
  <2>11. PqBeforeWq'
    BY <1>7, <2>1, <2>3, <2>4, <2>5, <2>8 DEF PqBeforeWq
  <2> QED BY <1>6, <1>7, <2>2, <2>6, <2>7, <2>9, <2>10, <2>11
<1>8. CASE /\ wq # <<>> /\ wq' = Tail(wq)
           /\ pq' = Append(done, [h EXCEPT !.status = "failed"])
           /\ UNCHANGED <<qsize, sent>>
  <2> DEFINE r == [h EXCEPT !.status = "failed"]
  <2>1. r \in Request /\ r.status = "failed" /\ r.from = h.from /\ r.to = h.to
    BY <1>6, <1>8 DEF Request
  <2>2. pq' = Append(done, r) /\ sent' = sent /\ qsize' = qsize
    BY <1>8
  <2> HIDE DEF r, h
  <2>3. /\ wq' \in Seq(Request) /\ pq' \in Seq(Request)
        /\ WqOK' /\ WqOrder' /\ PqOK' /\ PqOrder' /\ PqBeforeWq'
    <3>1. sent' \in Nat /\ sent' + lost <= h.to /\ sent' + lost <= r.from /\ r.from < r.to /\ r.to <= h.to
      BY <1>1, <1>6, <1>8, <2>1, <2>2
    <3> QED BY <1>7, <1>8, <2>1, <2>2, <3>1
  <2>4. Conservation'
    BY <1>2, <2>2 DEF Conservation
  <2> QED BY <1>1, <1>3, <2>2, <2>3, <2>4 DEF Accounts
<1>9. CASE /\ wq # <<>> /\ wq' = Tail(wq)
           /\ pq' = Append(done, [h EXCEPT !.from = @ + Rest(h)])
           /\ sent' = sent + Rest(h) /\ qsize' = qsize - Rest(h)
  <2> DEFINE r == [h EXCEPT !.from = @ + Rest(h)]
  <2>0. Rest(h) \in Nat /\ h.from + Rest(h) = h.to /\ sent + lost + Rest(h) <= h.to
    BY <1>1, <1>6, <1>9 DEF Rest
  <2>1. r \in Request /\ r.status = "ok" /\ r.from = r.to
    <3>1. r = [h EXCEPT !.from = h.to]
      BY <1>6, <1>9, <2>0
    <3> QED BY <1>6, <1>9, <3>1 DEF Request
  <2>2. pq' = Append(done, r)
    BY <1>9
  <2> HIDE DEF r, h
  <2>3. sent' \in Nat /\ sent' + lost <= h.to
    BY <1>1, <1>9, <2>0
  <2>4. /\ wq' \in Seq(Request) /\ pq' \in Seq(Request)
        /\ WqOK' /\ WqOrder' /\ PqOK' /\ PqOrder' /\ PqBeforeWq'
    BY <1>7, <1>9, <2>1, <2>2, <2>3
  <2>5. qsize' \in Nat /\ Conservation'
    <3>1. h.from \in Nat /\ h.to \in Nat /\ sent + lost <= h.from /\ h.to <= accepted
      BY <1>6, <1>9
    <3>2. Rest(h) <= qsize
      BY <1>1, <1>2, <2>0, <3>1
    <3>3. sent' = sent + Rest(h) /\ qsize' = qsize - Rest(h)
      BY <1>9
    <3>4. qsize' \in Nat
      BY <1>1, <2>0, <3>2, <3>3
    <3>5. accepted' = sent' + qsize' + lost'
      BY <1>1, <1>2, <2>0, <3>3
    <3> QED BY <3>4, <3>5 DEF Conservation
  <2> QED BY <1>3, <2>3, <2>4, <2>5 DEF Accounts
<1>10. ASSUME wq # <<>>, NEW n \in 0 .. Rest(h) - 1,
              pq' = done, wq' = [wq EXCEPT ![1].from = @ + n],
              sent' = sent + n, qsize' = qsize - n
       PROVE  /\ qsize' \in Nat /\ sent' \in Nat
              /\ wq' \in Seq(Request) /\ pq' \in Seq(Request) /\ Accounts'
  <2>1. n \in Nat /\ h.from + n < h.to
    BY <1>6, <1>10 DEF Rest
  <2> DEFINE r == [h EXCEPT !.from = @ + n]
  <2>2. r \in Request /\ r.status = "ok" /\ r.from = h.from + n /\ r.to = h.to
    <3>1. h.from + n \in Nat
      BY <1>6, <1>10, <2>1
    <3> QED BY <1>6, <1>10, <3>1 DEF Request
  <2>3. wq' = [wq EXCEPT ![1] = r]
    BY <1>6, <1>10
  <2> HIDE DEF r, h
  <2>4. /\ wq' \in Seq(Request) /\ Len(wq') = Len(wq) /\ wq'[1] = r
        /\ \A i \in 2 .. Len(wq') : wq'[i] = wq[i]
    <3>1. 1 \in 1 .. Len(wq) /\ r \in Request
      BY <1>6, <1>10, <2>2
    <3> QED BY <1>1, <2>3, <3>1
  <2>5. \A i \in 1 .. Len(wq) : wq[i].from \in Nat /\ wq[i].to \in Nat
    <3>1. \A i \in 1 .. Len(wq) : wq[i] \in Request
      BY <1>1
    <3> QED BY <3>1, RequestType
  <2>6. \A i \in 1 .. Len(wq) : i = 1 \/ i \in 2 .. Len(wq)
    BY <1>1
  <2>7. sent' \in Nat /\ sent' + lost <= r.from /\ sent' + lost <= h.to /\ r.from < r.to /\ r.to <= accepted
    <3>1. h.from \in Nat /\ h.to \in Nat /\ sent + lost <= h.from /\ h.to <= accepted
      BY <1>6, <1>10
    <3>2. sent' = sent + n
      BY <1>10
    <3> QED BY <1>1, <2>1, <2>2, <3>1, <3>2
  <2>8. WqOK'
    <3>1. \A i \in 2 .. Len(wq) : /\ wq[i].status = "ok" /\ h.to <= wq[i].from
                                  /\ wq[i].from < wq[i].to /\ wq[i].to <= accepted
      BY <1>1, <1>6, <1>10 DEF IInv, Accounts, WqOK
    <3>2. \A i \in 2 .. Len(wq) : sent' + lost <= wq[i].from
      <4>1. h.to \in Nat
        BY <1>6, <1>10
      <4>2. \A i \in 2 .. Len(wq) : i \in 1 .. Len(wq)
        BY <1>1
      <4>3. ASSUME NEW i \in 2 .. Len(wq) PROVE sent' + lost <= wq[i].from
        <5>1. wq[i].from \in Nat /\ h.to <= wq[i].from
          BY <2>5, <3>1, <4>2
        <5> QED BY <1>1, <2>7, <4>1, <5>1
      <4> QED BY <4>3
    <3> QED BY <2>2, <2>4, <2>6, <2>7, <3>1, <3>2 DEF WqOK
  <2>9. WqOrder'
    <3>1. \A i, j \in 1 .. Len(wq) : i < j => j \in 2 .. Len(wq)
      BY <1>1
    <3> QED BY <1>1, <1>6, <1>10, <2>2, <2>4, <2>6, <3>1 DEF IInv, Accounts, WqOrder
  <2>10. PqOK' /\ PqOrder' /\ PqBeforeWq'
    BY <1>4, <1>10 DEF PqOK, PqOrder, PqBeforeWq
  <2>11. qsize' \in Nat /\ Conservation'
    <3>1. h.from \in Nat /\ h.to \in Nat /\ sent + lost <= h.from /\ h.to <= accepted
      BY <1>6, <1>10
    <3>2. n <= qsize
      BY <1>1, <1>2, <2>1, <3>1
    <3> QED BY <1>1, <1>2, <1>10, <2>1, <3>2 DEF Conservation
  <2> QED BY <1>1, <1>3, <1>10, <2>4, <2>7, <2>8, <2>9, <2>10, <2>11 DEF Accounts
<1> QED BY <1>5, <1>8, <1>9, <1>10 DEF UvWriteHead

LEMMA IoWritableStep == IInv /\ IoWritable => IInv'
<1> SUFFICES ASSUME IInv, IoWritable PROVE IInv'
  OBVIOUS
<1>1. pq = <<>>
  BY DEF IInv, PqPlace, CallbackPCs, IoWritable, Returned
<1>2. /\ UvWriteHead /\ done' = <<>> /\ pc' = "callbacks" /\ ended' = FALSE
      /\ UNCHANGED <<handle, reading, shut, closing, blocked, paused, stats, peer, accepted, lost,
                     reads, asked, cur, nested>>
  BY DEF IoWritable, ctxVars
<1>3. /\ qsize' \in Nat /\ sent' \in Nat /\ wq' \in Seq(Request) /\ pq' \in Seq(Request)
      /\ Accounts'
  BY <1>1, <1>2, IoWritableAccounts
<1>4. UvTypeOK'
  <2>1. done' \in Seq(Request)
    BY <1>2
  <2> QED BY <1>2, <1>3, <2>1 DEF IInv, TypeOK, UvTypeOK
<1>5. CtxTypeOK'
  BY <1>2 DEF IInv, TypeOK, CtxTypeOK
<1>6. EnvTypeOK'
  BY <1>2, <1>3 DEF IInv, TypeOK, EnvTypeOK
<1>7. ControlTypeOK'
  BY <1>2, <1>3 DEF IInv, TypeOK, ControlTypeOK, PCs
<1>8. PqPlace'
  BY <1>2 DEF PqPlace, CallbackPCs
<1> QED BY <1>3, <1>4, <1>5, <1>6, <1>7, <1>8 DEF IInv, TypeOK

LEMMA CallbackStep == IInv /\ Callback => IInv'
<1> SUFFICES ASSUME IInv, Callback PROVE IInv'
  OBVIOUS
<1> DEFINE h == Head(pq)
<1>1. /\ sent \in Nat /\ lost \in Nat /\ accepted \in Nat /\ qsize \in Nat
      /\ wq \in Seq(Request) /\ pq \in Seq(Request)
  BY DEF IInv, TypeOK, UvTypeOK, EnvTypeOK, ControlTypeOK
<1>2. accepted = sent + qsize + lost
  BY <1>1 DEF IInv, Accounts, Conservation
<1>3. /\ pq # <<>> /\ cur' = h /\ pq' = Tail(pq)
      /\ qsize' = qsize - Rest(h) /\ lost' = lost + Rest(h) /\ pc' = "after_write.onWrite"
      /\ UNCHANGED <<handle, reading, shut, wq, done, closing, blocked, paused, stats, peer,
                     sent, accepted, reads, ended, asked, nested>>
  BY DEF Callback, Uncounted, ctxVars
<1>4. /\ 1 \in 1 .. Len(pq) /\ h = pq[1] /\ h \in Request /\ pq' \in Seq(Request)
      /\ Len(pq') = Len(pq) - 1
      /\ \A i \in 1 .. Len(pq') : pq'[i] = pq[i + 1] /\ i + 1 \in 2 .. Len(pq)
  BY <1>1, <1>3
<1>5. h.from \in Nat /\ h.to \in Nat
  BY <1>4, RequestType
<1>6. \/ h.status = "ok" /\ h.from = h.to
      \/ /\ h.status = "failed"
         /\ sent + lost <= h.from /\ h.from < h.to /\ h.to <= accepted
  BY <1>4 DEF IInv, Accounts, PqOK
<1> HIDE DEF h
<1>7. Rest(h) \in Nat /\ h.from + Rest(h) = h.to /\ Rest(h) <= qsize
  BY <1>1, <1>2, <1>5, <1>6 DEF Rest
<1>8. qsize' \in Nat /\ lost' \in Nat /\ lost <= lost'
  BY <1>1, <1>3, <1>7
<1>9. /\ \A i \in 1 .. Len(wq) : wq[i].from \in Nat /\ wq[i].to \in Nat
      /\ \A i \in 1 .. Len(pq) : pq[i].from \in Nat /\ pq[i].to \in Nat
  <2>1. \A i \in 1 .. Len(wq) : wq[i] \in Request
    BY <1>1
  <2>2. \A i \in 1 .. Len(pq) : pq[i] \in Request
    BY <1>1
  <2> QED BY <2>1, <2>2, RequestType
<1>10. \/ lost' = lost
       \/ h.status = "failed" /\ sent + lost' <= h.to
  BY <1>1, <1>3, <1>5, <1>6, <1>7
<1>11. WqOK'
  <2>1. \A i \in 1 .. Len(wq) : sent + lost' <= wq[i].from
    <3>1. CASE lost' = lost
      BY <3>1 DEF IInv, Accounts, WqOK
    <3>2. CASE h.status = "failed" /\ sent + lost' <= h.to
      <4>1. \A i \in 1 .. Len(wq) : h.to <= wq[i].from
        BY <1>4, <3>2 DEF IInv, Accounts, PqBeforeWq
      <4> QED BY <1>1, <1>5, <1>8, <1>9, <3>2, <4>1
    <3> QED BY <1>10, <3>1, <3>2
  <2> QED BY <1>3, <2>1 DEF IInv, Accounts, WqOK
<1>12. PqOK'
  <2>1. \A i \in 2 .. Len(pq) : pq[i].status = "failed" => sent + lost' <= pq[i].from
    <3>0. \A i \in 2 .. Len(pq) : i \in 1 .. Len(pq) /\ 1 < i
      BY <1>1
    <3>1. CASE lost' = lost
      <4>1. \A i \in 1 .. Len(pq) : pq[i].status = "failed" => sent + lost <= pq[i].from
        BY DEF IInv, Accounts, PqOK
      <4> QED BY <3>0, <3>1, <4>1
    <3>2. CASE h.status = "failed" /\ sent + lost' <= h.to
      <4>1. \A i \in 2 .. Len(pq) : pq[i].status = "failed" => h.to <= pq[i].from
        BY <1>4, <3>0, <3>2 DEF IInv, Accounts, PqOrder
      <4> QED BY <1>1, <1>5, <1>8, <1>9, <3>0, <3>2, <4>1
    <3> QED BY <1>10, <3>1, <3>2
  <2>2. \A i \in 2 .. Len(pq) :
          \/ pq[i].status = "ok" /\ pq[i].from = pq[i].to
          \/ pq[i].status = "failed" /\ pq[i].from < pq[i].to /\ pq[i].to <= accepted
    <3>1. \A i \in 2 .. Len(pq) : i \in 1 .. Len(pq)
      BY <1>1
    <3> QED BY <3>1 DEF IInv, Accounts, PqOK
  <2> QED BY <1>3, <1>4, <2>1, <2>2 DEF PqOK
<1>13. PqOrder'
  <2>1. \A i \in 1 .. Len(pq') : i + 1 \in 1 .. Len(pq)
    BY <1>1, <1>4
  <2>2. \A i, j \in 1 .. Len(pq') : i < j => i + 1 < j + 1
    BY <1>4
  <2> QED BY <1>4, <2>1, <2>2 DEF IInv, Accounts, PqOrder
<1>14. PqBeforeWq'
  <2>1. \A i \in 1 .. Len(pq') : i + 1 \in 1 .. Len(pq)
    BY <1>1, <1>4
  <2> QED BY <1>3, <1>4, <2>1 DEF IInv, Accounts, PqBeforeWq
<1>15. WqOrder' /\ DoneOK'
  BY <1>3 DEF IInv, Accounts, WqOrder, DoneOK
<1>16. Conservation'
  <2>1. accepted' = sent' + qsize' + lost'
    BY <1>1, <1>2, <1>3, <1>7
  <2> QED BY <2>1 DEF Conservation
<1>17. UvTypeOK'
  BY <1>3, <1>8 DEF IInv, TypeOK, UvTypeOK
<1>18. CtxTypeOK'
  BY <1>3 DEF IInv, TypeOK, CtxTypeOK
<1>19. EnvTypeOK'
  BY <1>3, <1>8 DEF IInv, TypeOK, EnvTypeOK
<1>20. ControlTypeOK'
  BY <1>3, <1>4 DEF IInv, TypeOK, ControlTypeOK, PCs, HandlerPCs
<1>21. PqPlace'
  BY <1>3 DEF PqPlace, CallbackPCs
<1> QED BY <1>11, <1>12, <1>13, <1>14, <1>15, <1>16, <1>17, <1>18, <1>19, <1>20, <1>21
        DEF IInv, TypeOK, Accounts

LEMMA FinishCloseStep == IInv /\ FinishClose => IInv'
<1> SUFFICES ASSUME IInv, FinishClose PROVE IInv'
  OBVIOUS
<1>1. /\ sent \in Nat /\ lost \in Nat /\ accepted \in Nat
      /\ wq \in Seq(Request) /\ done \in Seq(Request)
  BY DEF IInv, TypeOK, UvTypeOK, EnvTypeOK, ControlTypeOK
<1>2. /\ handle' = "closed" /\ pq' = done \o Cancelled(wq) /\ wq' = <<>> /\ done' = <<>>
      /\ pc' = "callbacks"
      /\ UNCHANGED <<reading, shut, qsize, closing, blocked, paused, stats, peer, sent, accepted,
                     lost, reads, ended, asked, cur, nested>>
  BY DEF FinishClose, ctxVars, envVars
<1>3. /\ Cancelled(wq) \in Seq(Request) /\ Len(Cancelled(wq)) = Len(wq)
      /\ \A i \in 1 .. Len(wq) : /\ Cancelled(wq)[i].status = "failed"
                                 /\ Cancelled(wq)[i].from = wq[i].from
                                 /\ Cancelled(wq)[i].to = wq[i].to
  <2>1. \A i \in 1 .. Len(wq) : wq[i] \in Request
    BY <1>1
  <2>2. \A q \in Request : /\ [q EXCEPT !.status = "failed"] \in Request
                            /\ [q EXCEPT !.status = "failed"].status = "failed"
                            /\ [q EXCEPT !.status = "failed"].from = q.from
                            /\ [q EXCEPT !.status = "failed"].to = q.to
    BY DEF Request
  <2>3. Len(wq) \in Nat
    BY <1>1
  <2>4. Cancelled(wq) \in [1 .. Len(wq) -> Request]
    BY <2>1, <2>2 DEF Cancelled
  <2>5. Cancelled(wq) \in Seq(Request) /\ Len(Cancelled(wq)) = Len(wq)
    BY <2>3, <2>4
  <2>6. \A i \in 1 .. Len(wq) : Cancelled(wq)[i] = [wq[i] EXCEPT !.status = "failed"]
    BY DEF Cancelled
  <2>7. ASSUME NEW i \in 1 .. Len(wq)
        PROVE  /\ Cancelled(wq)[i].status = "failed"
               /\ Cancelled(wq)[i].from = wq[i].from /\ Cancelled(wq)[i].to = wq[i].to
    <3>1. wq[i] \in Request /\ Cancelled(wq)[i] = [wq[i] EXCEPT !.status = "failed"]
      BY <2>1, <2>6
    <3> QED BY <2>2, <3>1
  <2> QED BY <2>5, <2>7
<1>4. /\ pq' \in Seq(Request) /\ Len(pq') = Len(done) + Len(wq)
      /\ \A i \in 1 .. Len(pq') :
            \/ i \in 1 .. Len(done) /\ pq'[i] = done[i]
            \/ i - Len(done) \in 1 .. Len(wq) /\ pq'[i] = Cancelled(wq)[i - Len(done)]
  <2> DEFINE c == Cancelled(wq)
  <2>1. done \in Seq(Request) /\ c \in Seq(Request) /\ Len(c) = Len(wq) /\ pq' = done \o c
    BY <1>1, <1>2, <1>3
  <2> HIDE DEF c
  <2>2. /\ pq' \in Seq(Request) /\ Len(pq') = Len(done) + Len(c)
        /\ \A i \in 1 .. Len(pq') : pq'[i] = IF i <= Len(done) THEN done[i] ELSE c[i - Len(done)]
    <3>1. /\ done \o c \in Seq(Request) /\ Len(done \o c) = Len(done) + Len(c)
          /\ \A i \in 1 .. Len(done) + Len(c) :
                (done \o c)[i] = IF i <= Len(done) THEN done[i] ELSE c[i - Len(done)]
      BY <2>1, ConcatProperties, Zenon
    <3> QED BY <2>1, <3>1
  <2>3. Len(done) \in Nat /\ Len(c) \in Nat
    BY <2>1
  <2>4. \A i \in 1 .. Len(pq') : i \in 1 .. Len(done) \/ (~(i <= Len(done)) /\ i - Len(done) \in 1 .. Len(c))
    BY <2>2, <2>3
  <2> QED BY <2>1, <2>2, <2>4 DEF c
<1>5. \A i \in 1 .. Len(pq') :
         \/ pq'[i].status = "ok" /\ pq'[i].from = pq'[i].to
         \/ /\ i - Len(done) \in 1 .. Len(wq) /\ pq'[i].status = "failed"
            /\ pq'[i].from = wq[i - Len(done)].from /\ pq'[i].to = wq[i - Len(done)].to
  <2>1. \A i \in 1 .. Len(done) : done[i].status = "ok" /\ done[i].from = done[i].to
    BY DEF IInv, Accounts, DoneOK
  <2> QED BY <1>3, <1>4, <2>1
<1>6. PqOK'
  <2>1. \A i \in 1 .. Len(wq) : /\ sent + lost <= wq[i].from /\ wq[i].from < wq[i].to
                                /\ wq[i].to <= accepted
    BY DEF IInv, Accounts, WqOK
  <2> QED BY <1>2, <1>5, <2>1 DEF PqOK
<1>7. PqOrder'
  <2>1. \A i, j \in 1 .. Len(pq') : i < j => i - Len(done) < j - Len(done)
    BY <1>1, <1>4
  <2>2. \A i, j \in 1 .. Len(wq) : i < j => wq[i].to <= wq[j].from
    BY DEF IInv, Accounts, WqOrder
  <2> QED BY <1>5, <2>1, <2>2 DEF PqOrder
<1>8. WqOK' /\ WqOrder' /\ DoneOK' /\ PqBeforeWq'
  BY <1>2 DEF WqOK, WqOrder, DoneOK, PqBeforeWq
<1>9. Conservation'
  BY <1>2 DEF IInv, Accounts, Conservation
<1>10. UvTypeOK'
  <2>1. wq' \in Seq(Request) /\ done' \in Seq(Request)
    BY <1>2
  <2> QED BY <1>2, <2>1 DEF IInv, TypeOK, UvTypeOK
<1>11. CtxTypeOK'
  BY <1>2 DEF IInv, TypeOK, CtxTypeOK
<1>12. EnvTypeOK'
  BY <1>2 DEF IInv, TypeOK, EnvTypeOK
<1>13. ControlTypeOK'
  BY <1>2, <1>4 DEF IInv, TypeOK, ControlTypeOK, PCs
<1>14. PqPlace'
  BY <1>2 DEF PqPlace, CallbackPCs
<1> QED BY <1>6, <1>7, <1>8, <1>9, <1>10, <1>11, <1>12, <1>13, <1>14 DEF IInv, TypeOK, Accounts

-----------------------------------------------------------------------------
LEMMA StepIInv == IInv /\ [Next]_vars => IInv'
<1> SUFFICES ASSUME IInv, [Next]_vars PROVE IInv'
  OBVIOUS
<1>1. CASE Quiet
  <2>1. UNCHANGED DataVars
    BY <1>1, QuietUnchanged
  <2>2. Accounts'
    BY <2>1, QuietAccounts DEF IInv
  <2> QED BY <1>1, <2>2, QuietPqPlace, QuietTypeOK DEF IInv
<1>2. ASSUME NEW len \in Lens, Write(len) PROVE IInv'
  <2>1. len \in Nat /\ len > 0
    BY BoundsAssumption
  <2> QED BY <1>1, <1>2, <2>1, WriteFullStep, WriteIncompleteStep, WriteEagainStep DEF Write, Quiet
<1>3. CASE IoWritable
  BY <1>3, IoWritableStep
<1>4. CASE Callback
  BY <1>4, CallbackStep
<1>5. CASE FinishClose
  BY <1>5, FinishCloseStep
<1> QED BY <1>1, <1>2, <1>3, <1>4, <1>5 DEF Next, ScriptStep, Proceed, Quiet

THEOREM Invariance == Spec => []IInv
BY InitIInv, StepIInv, PTL DEF Spec

\* Every variable keeps its type, whatever the script and the peer do.
THEOREM TypeCorrect == Spec => []TypeOK
<1>1. IInv => TypeOK
  BY DEF IInv
<1> QED BY <1>1, Invariance, PTL

\* For every script, write_queue_size is exactly the bytes accepted and neither
\* sent nor lost: what queueSize(), close(0) and after_write decide on is never
\* stale, however callbacks and failures interleave.
THEOREM QueueSizeExact == Spec => []Conservation
<1>1. IInv => Conservation
  BY DEF IInv, Accounts
<1> QED BY <1>1, Invariance, PTL

-----------------------------------------------------------------------------
(* Order: as long as the peer is there, the queue is what follows sent. *)

\* The first byte that is in the queue, or would be.
QueueStart == IF wq = <<>> THEN accepted ELSE wq[1].from

WqTight ==
    /\ \A i \in 1 .. Len(wq) - 1 : wq[i].to = wq[i + 1].from
    /\ wq # <<>> => wq[Len(wq)].to = accepted

Intact ==
    (peer # "gone" /\ (handle = "open" \/ wq # <<>>)) =>
        /\ QueueStart = sent /\ lost = 0
        /\ \A i \in 1 .. Len(pq) : pq[i].status = "ok"

\* A shutdown that has been carried out has closed the handle.
ShutCloses == (peer # "gone" /\ shut = "done") => handle # "open"

OrderInv == WqTight /\ Intact /\ ShutCloses

LEMMA InitOrder == Init => OrderInv
BY DEF Init, OrderInv, WqTight, Intact, ShutCloses, QueueStart

\* Handles do not reopen and peers do not come back.
LEMMA QuietPhase ==
    ASSUME Quiet
    PROVE  /\ handle' = "open" => handle = "open"
           /\ peer' # "gone" => peer # "gone"
<1> USE DEF uvVars, ctxVars, envVars, control, vars
<1>1. ASSUME WriteFails \/ ReturnToWrite \/ Close \/ Shutdown \/ Pause \/ Resume
      PROVE  (handle' = "open" => handle = "open") /\ (peer' # "gone" => peer # "gone")
  BY <1>1 DEF WriteFails, ReturnToWrite, Close, Shutdown, Pause, Resume, UvClose
<1>2. ASSUME AfterWriteFailed \/ AfterWriteError \/ AfterWriteDrains
             \/ AfterWriteNoDrain \/ AfterWriteDrained \/ Drain \/ Destroyed \/ OnClose
      PROVE  (handle' = "open" => handle = "open") /\ (peer' # "gone" => peer # "gone")
  BY <1>2 DEF AfterWriteFailed, AfterWriteError, AfterWriteDrains, AfterWriteNoDrain,
     AfterWriteDrained, AfterWriteEnds, Drain, Destroyed, OnClose, UvClose, AfterShutdown
<1>3. ASSUME AfterReadData \/ AfterReadEnd \/ AfterReadError \/ NextIteration
             \/ ReadData \/ ReadEnd \/ ReadError
      PROVE  (handle' = "open" => handle = "open") /\ (peer' # "gone" => peer # "gone")
  BY <1>3 DEF AfterReadData, AfterReadEnd, AfterReadError, NextIteration, ReadData, ReadEnd,
     ReadError, UvClose
<1>4. ASSUME UNCHANGED vars \/ \E to \in {"half", "gone"} : PeerMove(to)
      PROVE  (handle' = "open" => handle = "open") /\ (peer' # "gone" => peer # "gone")
  BY <1>4 DEF PeerMove
<1> QED BY <1>1, <1>2, <1>3, <1>4 DEF Quiet

\* The only quiet steps that carry out a shutdown close the handle, if the peer is there.
LEMMA QuietShut ==
    ASSUME IInv, OrderInv, Quiet
    PROVE  ShutCloses'
<1> USE DEF uvVars, ctxVars, envVars, control, vars
<1>0. (handle' = "open" => handle = "open") /\ (peer' # "gone" => peer # "gone")
  BY QuietPhase
<1>1. CASE shut' = shut
  BY <1>0, <1>1 DEF OrderInv, ShutCloses
<1>2. CASE Shutdown
  BY <1>0, <1>2 DEF Shutdown, OrderInv, ShutCloses
<1>3. ASSUME Drain, peer' # "gone", handle = "open", shut' # shut
      PROVE  handle' # "open"
  <2>1. wq = <<>> /\ AfterShutdown /\ peer # "gone"
    BY <1>0, <1>3 DEF Drain
  <2>2. accepted = sent /\ lost = 0
    BY <1>3, <2>1 DEF OrderInv, Intact, QueueStart
  <2>3. qsize = 0
    BY <2>2 DEF IInv, Accounts, Conservation, TypeOK, UvTypeOK, EnvTypeOK
  <2> QED BY <1>3, <2>1, <2>3 DEF AfterShutdown, UvClose
<1>4. ASSUME Destroyed PROVE handle # "open"
  BY <1>4 DEF Destroyed
<1>5. shut' = shut \/ Shutdown \/ Drain \/ Destroyed
  BY DEF Quiet, WriteFails, ReturnToWrite, Close, Pause, Resume,
     AfterWriteFailed, AfterWriteError, AfterWriteDrains, AfterWriteNoDrain,
     AfterWriteDrained, AfterWriteEnds, AfterReadData, AfterReadEnd, AfterReadError,
     OnClose, NextIteration, ReadData, ReadEnd, ReadError, PeerMove
<1> QED BY <1>0, <1>1, <1>2, <1>3, <1>4, <1>5 DEF ShutCloses

LEMMA QuietOrder ==
    ASSUME IInv, OrderInv, Quiet
    PROVE  OrderInv'
<1>1. UNCHANGED DataVars
  BY QuietUnchanged
<1>2. WqTight'
  BY <1>1 DEF OrderInv, WqTight, DataVars
<1>3. Intact'
  BY <1>1, QuietPhase DEF OrderInv, Intact, QueueStart, DataVars
<1> QED BY <1>2, <1>3, QuietShut DEF OrderInv

\* What uv_write does to the order on an open stream whose peer is there or whose
\* queue is not empty.
LEMMA UvWriteOrder ==
    ASSUME IInv, OrderInv, NEW n \in Nat, NEW len \in Nat, n < len,
           n = 0 \/ qsize = 0, handle = "open",
           UvWrite(accepted + n, accepted + len, sent + n),
           accepted' = accepted + len, UNCHANGED <<pq, lost, handle, peer, shut>>
    PROVE  OrderInv'
<1>1. /\ sent \in Nat /\ accepted \in Nat /\ qsize \in Nat /\ wq \in Seq(Request)
  BY DEF IInv, TypeOK, UvTypeOK, EnvTypeOK
<1>2. ShutCloses'
  BY DEF OrderInv, ShutCloses
<1>3. peer # "gone" => QueueStart = sent /\ lost = 0 /\ \A i \in 1 .. Len(pq) : pq[i].status = "ok"
  BY DEF OrderInv, Intact
<1>4. ASSUME NEW r, r.from \in Nat, r.to = accepted + len, wq' = Append(wq, r),
             \/ r.from = accepted /\ sent' = sent
             \/ wq = <<>> /\ r.from - accepted = sent' - sent /\ sent' \in Nat
      PROVE  OrderInv'
  <2>1. Len(wq') = Len(wq) + 1 /\ wq' # <<>> /\ wq'[Len(wq) + 1] = r
        /\ \A i \in 1 .. Len(wq) : wq'[i] = wq[i]
    BY <1>1, <1>4
  <2>2. WqTight'
    <3>1. CASE wq = <<>>
      <4>1. Len(wq') = 1 /\ wq'[1] = r
        BY <2>1, <3>1
      <4> QED BY <1>4, <4>1 DEF WqTight
    <3>2. CASE wq # <<>>
      <4>1. Len(wq) \in 1 .. Len(wq) /\ wq[Len(wq)].to = accepted /\ r.from = accepted
        BY <1>1, <1>4, <3>2 DEF OrderInv, WqTight
      <4>2. \A i \in 1 .. Len(wq') - 1 : i \in 1 .. Len(wq) - 1 \/ i = Len(wq)
        BY <1>1, <2>1
      <4>3. \A i \in 1 .. Len(wq) - 1 : i \in 1 .. Len(wq) /\ i + 1 \in 1 .. Len(wq)
        BY <1>1
      <4> QED BY <1>4, <2>1, <4>1, <4>2, <4>3 DEF OrderInv, WqTight
    <3> QED BY <3>1, <3>2
  <2>3. QueueStart' = IF wq = <<>> THEN r.from ELSE wq[1].from
    BY <1>1, <2>1 DEF QueueStart
  <2>4. QueueStart = sent => QueueStart' = sent'
    BY <1>1, <1>4, <2>3 DEF QueueStart
  <2>5. Intact'
    BY <1>3, <2>4 DEF Intact
  <2> QED BY <1>2, <2>2, <2>5 DEF OrderInv
<1>5. CASE qsize # 0 /\ wq' = Append(wq, NewRequest(accepted + n, accepted + len)) /\ sent' = sent + n
  <2> DEFINE r == NewRequest(accepted, accepted + len)
  <2>1. n = 0 /\ sent' = sent /\ accepted + n = accepted
    BY <1>1, <1>5
  <2>2. r.from = accepted /\ r.to = accepted + len
    BY DEF NewRequest
  <2>3. wq' = Append(wq, r)
    BY <1>5, <2>1
  <2> HIDE DEF r
  <2> QED BY <1>1, <1>4, <2>1, <2>2, <2>3
<1>6. ASSUME qsize = 0, NEW m \in 0 .. (accepted + len) - (accepted + n) - 1,
             wq' = Append(wq, [NewRequest(accepted + n, accepted + len) EXCEPT !.from = @ + m]),
             sent' = sent + n + m
      PROVE  OrderInv'
  <2> DEFINE r == [NewRequest(accepted + n, accepted + len) EXCEPT !.from = @ + m]
  <2>1. r.from = accepted + n + m /\ r.to = accepted + len
    BY DEF NewRequest
  <2>2. wq' = Append(wq, r) /\ wq = <<>>
    BY <1>6, EmptyQueue
  <2> HIDE DEF r
  <2>3. m \in Nat
    BY <1>1, <1>6
  <2>4. r.from \in Nat /\ sent' \in Nat /\ r.from - accepted = sent' - sent
    BY <1>1, <1>6, <2>1, <2>3
  <2> QED BY <1>4, <2>1, <2>2, <2>4
<1>7. CASE qsize = 0 /\ sent' = sent + n + ((accepted + len) - (accepted + n)) /\ wq' = wq
  <2>1. wq = <<>> /\ wq' = <<>>
    BY <1>7, EmptyQueue
  <2>2. sent' = sent + len
    BY <1>1, <1>7
  <2>3. QueueStart = sent => QueueStart' = sent'
    BY <1>1, <2>1, <2>2 DEF QueueStart
  <2>4. Intact'
    BY <1>3, <2>3 DEF Intact
  <2>5. WqTight'
    BY <2>1 DEF WqTight
  <2> QED BY <1>2, <2>4, <2>5 DEF OrderInv
<1> QED BY <1>5, <1>6, <1>7 DEF UvWrite

LEMMA WriteOrder ==
    ASSUME IInv, OrderInv, NEW len \in Nat, len > 0,
           WriteFull(len) \/ WriteIncomplete(len) \/ WriteEagain(len)
    PROVE  OrderInv'
<1> USE DEF uvVars, control
<1>1. sent \in Nat /\ accepted \in Nat
  BY DEF IInv, TypeOK, EnvTypeOK
<1>2. CASE WriteFull(len)
  <2>1. /\ qsize = 0 /\ sent' = sent + len /\ accepted' = accepted + len
        /\ UNCHANGED <<handle, shut, wq, pq, lost, peer>>
    BY <1>2 DEF WriteFull
  <2>2. wq = <<>> /\ wq' = <<>>
    BY <2>1, EmptyQueue
  <2>3. QueueStart = sent => QueueStart' = sent'
    BY <1>1, <2>1, <2>2 DEF QueueStart
  <2>4. Intact'
    BY <2>1, <2>3 DEF OrderInv, Intact
  <2> QED BY <2>1, <2>2, <2>4 DEF OrderInv, WqTight, ShutCloses
<1>3. CASE WriteIncomplete(len)
  <2>1. PICK n \in 1 .. len - 1 : UvWrite(RemainderStart(accepted, n), accepted + len, sent + n)
    BY <1>3 DEF WriteIncomplete
  <2>2. n \in Nat /\ n < len
    OBVIOUS
  <2>3. UvWrite(accepted + n, accepted + len, sent + n)
    BY <2>1 DEF RemainderStart
  <2>4. /\ qsize = 0 /\ handle = "open" /\ accepted' = accepted + len
        /\ UNCHANGED <<pq, lost, handle, peer, shut>>
    BY <1>3 DEF WriteIncomplete
  <2> QED BY <2>2, <2>3, <2>4, UvWriteOrder
<1>4. CASE WriteEagain(len)
  <2>1. UNCHANGED <<pq, lost, handle, peer, shut>>
    BY <1>4 DEF WriteEagain
  <2>2. CASE handle = "open" /\ UvWrite(accepted, accepted + len, sent) /\ accepted' = accepted + len
    <3>1. accepted + 0 = accepted /\ sent + 0 = sent
      BY <1>1
    <3>2. UvWrite(accepted + 0, accepted + len, sent + 0)
      BY <2>2, <3>1
    <3> QED BY <2>1, <2>2, <3>2, UvWriteOrder
  <2>3. CASE UNCHANGED <<wq, qsize, sent, done, accepted>>
    BY <2>1, <2>3 DEF OrderInv, WqTight, Intact, ShutCloses, QueueStart
  <2> QED BY <1>4, <2>2, <2>3 DEF WriteEagain
<1> QED BY <1>2, <1>3, <1>4

LEMMA IoWritableOrder == IInv /\ OrderInv /\ IoWritable => OrderInv'
<1> SUFFICES ASSUME IInv, OrderInv, IoWritable PROVE OrderInv'
  OBVIOUS
<1>1. /\ handle = "open" /\ UvWriteHead /\ done' = <<>>
      /\ UNCHANGED <<handle, shut, peer, accepted, lost>>
  BY DEF IoWritable, Armed
<1>2. /\ sent \in Nat /\ accepted \in Nat /\ wq \in Seq(Request) /\ done \in Seq(Request)
  BY DEF IInv, TypeOK, UvTypeOK, EnvTypeOK
<1>3. ShutCloses'
  BY <1>1 DEF OrderInv, ShutCloses
<1>4. peer # "gone" => ~Broken /\ QueueStart = sent /\ lost = 0
  BY <1>1 DEF OrderInv, ShutCloses, Intact, Broken
<1>5. \A i \in 1 .. Len(done) : done[i].status = "ok"
  BY DEF IInv, Accounts, DoneOK
<1>6. ASSUME wq # <<>>
      PROVE  /\ 1 \in 1 .. Len(wq) /\ Head(wq) = wq[1]
             /\ wq[1].from \in Nat /\ wq[1].to \in Nat /\ wq[1].status = "ok"
             /\ Len(Tail(wq)) = Len(wq) - 1 /\ Tail(wq) \in Seq(Request)
             /\ \A i \in 1 .. Len(Tail(wq)) : Tail(wq)[i] = wq[i + 1]
  <2>1. 1 \in 1 .. Len(wq) /\ Head(wq) = wq[1] /\ wq[1] \in Request
        /\ Len(Tail(wq)) = Len(wq) - 1 /\ Tail(wq) \in Seq(Request)
        /\ \A i \in 1 .. Len(Tail(wq)) : Tail(wq)[i] = wq[i + 1]
    BY <1>2, <1>6
  <2>2. wq[1].from \in Nat /\ wq[1].to \in Nat
    BY <2>1, RequestType
  <2>3. wq[1].status = "ok"
    BY <2>1 DEF IInv, Accounts, WqOK
  <2> QED BY <2>1, <2>2, <2>3
<1>7. ASSUME wq # <<>>, wq' = Tail(wq)
      PROVE  WqTight' /\ QueueStart' = wq[1].to
  <2>1. /\ Len(wq') = Len(wq) - 1 /\ \A i \in 1 .. Len(wq') : wq'[i] = wq[i + 1]
        /\ Len(wq) \in Nat /\ Len(wq) > 0 /\ wq' \in Seq(Request)
    BY <1>2, <1>6, <1>7
  <2>2. CASE wq' = <<>>
    <3>1. Len(wq) = 1
      BY <2>1, <2>2
    <3>2. wq[1].to = accepted
      BY <1>7, <3>1 DEF OrderInv, WqTight
    <3> QED BY <1>1, <2>2, <3>2 DEF WqTight, QueueStart
  <2>3. CASE wq' # <<>>
    <3>1. Len(wq) > 1 /\ Len(wq') \in 1 .. Len(wq') /\ 1 \in 1 .. Len(wq) - 1 /\ 1 \in 1 .. Len(wq')
      BY <2>1, <2>3
    <3>2. wq'[Len(wq')].to = accepted'
      <4>1. wq'[Len(wq')] = wq[Len(wq)]
        BY <2>1, <3>1
      <4> QED BY <1>1, <1>7, <4>1 DEF OrderInv, WqTight
    <3>3. \A i \in 1 .. Len(wq') - 1 : wq'[i].to = wq'[i + 1].from
      <4>1. ASSUME NEW i \in 1 .. Len(wq') - 1 PROVE wq'[i].to = wq'[i + 1].from
        <5>1. i \in 1 .. Len(wq') /\ i + 1 \in 1 .. Len(wq') /\ i + 1 \in 1 .. Len(wq) - 1
          BY <2>1
        <5>2. wq[i + 1].to = wq[(i + 1) + 1].from
          BY <5>1 DEF OrderInv, WqTight
        <5> QED BY <2>1, <5>1, <5>2
      <4> QED BY <4>1
    <3>4. QueueStart' = wq[1].to
      <4>1. wq'[1] = wq[1 + 1] /\ wq[1].to = wq[1 + 1].from
        BY <2>1, <3>1 DEF OrderInv, WqTight
      <4> QED BY <2>3, <4>1 DEF QueueStart
    <3> QED BY <2>3, <3>2, <3>3, <3>4 DEF WqTight
  <2> QED BY <2>2, <2>3
<1>8. CASE wq = <<>> /\ pq' = done /\ UNCHANGED <<wq, qsize, sent>>
  <2>1. WqTight'
    BY <1>8 DEF WqTight
  <2>2. Intact'
    BY <1>1, <1>4, <1>5, <1>8 DEF Intact, QueueStart
  <2> QED BY <1>3, <2>1, <2>2 DEF OrderInv
<1>9. CASE wq # <<>> /\ Broken /\ wq' = Tail(wq)
  <2>1. Intact'
    BY <1>1, <1>4, <1>9 DEF Intact
  <2> QED BY <1>3, <1>7, <1>9, <2>1 DEF OrderInv
<1>10. CASE /\ wq # <<>> /\ wq' = Tail(wq)
            /\ pq' = Append(done, [Head(wq) EXCEPT !.from = @ + Rest(Head(wq))])
            /\ sent' = sent + Rest(Head(wq))
  <2> DEFINE r == [Head(wq) EXCEPT !.from = @ + Rest(Head(wq))]
  <2>1. r.status = "ok"
    <3>1. Head(wq) \in Request
      BY <1>2, <1>10
    <3> QED BY <1>6, <1>10, <3>1 DEF Request
  <2>2. pq' = Append(done, r)
    BY <1>10
  <2> HIDE DEF r
  <2>3. \A i \in 1 .. Len(pq') : pq'[i].status = "ok"
    <3>1. \A i \in 1 .. Len(pq') : (i \in 1 .. Len(done) /\ pq'[i] = done[i]) \/ pq'[i] = r
      BY <1>2, <2>2
    <3> QED BY <1>5, <2>1, <3>1
  <2>4. sent' = sent + (wq[1].to - wq[1].from)
    BY <1>6, <1>10 DEF Rest
  <2>5. peer # "gone" => wq[1].from = sent
    BY <1>4, <1>10 DEF QueueStart
  <2>6. peer # "gone" => sent' = wq[1].to
    BY <1>2, <1>6, <1>10, <2>4, <2>5
  <2>7. Intact'
    BY <1>1, <1>4, <1>7, <1>10, <2>3, <2>6 DEF Intact
  <2> QED BY <1>3, <1>7, <1>10, <2>7 DEF OrderInv
<1>11. ASSUME wq # <<>>, NEW n \in 0 .. Rest(Head(wq)) - 1,
              pq' = done, wq' = [wq EXCEPT ![1].from = @ + n], sent' = sent + n
       PROVE  OrderInv'
  <2> DEFINE r == [wq[1] EXCEPT !.from = @ + n]
  <2>1. n \in Nat
    BY <1>6, <1>11 DEF Rest
  <2>2. r \in Request /\ r.to = wq[1].to /\ r.from = wq[1].from + n
    <3>1. wq[1] \in Request /\ wq[1].from + n \in Nat
      BY <1>2, <1>6, <1>11, <2>1
    <3> QED BY <3>1 DEF Request
  <2>3. wq' = [wq EXCEPT ![1] = r]
    BY <1>11
  <2> HIDE DEF r
  <2>4. /\ Len(wq') = Len(wq) /\ wq' # <<>> /\ wq'[1] = r
        /\ \A i \in 1 .. Len(wq) : i # 1 => wq'[i] = wq[i]
    <3>1. 1 \in 1 .. Len(wq)
      BY <1>6, <1>11
    <3> QED BY <1>2, <1>11, <2>2, <2>3, <3>1
  <2>5. \A i \in 1 .. Len(wq) : wq'[i].to = wq[i].to /\ (i # 1 => wq'[i].from = wq[i].from)
    BY <2>2, <2>4
  <2>6. WqTight'
    <3>1. \A i \in 1 .. Len(wq) - 1 : i \in 1 .. Len(wq) /\ i + 1 \in 1 .. Len(wq) /\ i + 1 # 1
      BY <1>2
    <3>2. Len(wq) \in 1 .. Len(wq)
      BY <1>2, <1>11
    <3> QED BY <1>1, <1>11, <2>4, <2>5, <3>1, <3>2 DEF OrderInv, WqTight
  <2>7. QueueStart' = wq[1].from + n
    BY <2>2, <2>4 DEF QueueStart
  <2>8. Intact'
    BY <1>1, <1>4, <1>5, <1>11, <2>7 DEF Intact, QueueStart
  <2> QED BY <1>3, <2>6, <2>8 DEF OrderInv
<1> QED BY <1>1, <1>8, <1>9, <1>10, <1>11 DEF UvWriteHead

LEMMA CallbackOrder == IInv /\ OrderInv /\ Callback => OrderInv'
<1> SUFFICES ASSUME IInv, OrderInv, Callback PROVE OrderInv'
  OBVIOUS
<1>1. /\ pq # <<>> /\ pq' = Tail(pq) /\ lost' = lost + Rest(Head(pq))
      /\ UNCHANGED <<handle, shut, wq, sent, accepted, peer>>
  BY DEF Callback, Uncounted
<1>2. pq \in Seq(Request) /\ lost \in Nat
  BY DEF IInv, TypeOK, EnvTypeOK, ControlTypeOK
<1>3. /\ 1 \in 1 .. Len(pq) /\ Head(pq) = pq[1] /\ pq[1] \in Request
      /\ \A i \in 1 .. Len(pq') : pq'[i] = pq[i + 1] /\ i + 1 \in 1 .. Len(pq)
  BY <1>1, <1>2
<1>4. pq[1].status = "ok" => lost' = lost
  <2>1. pq[1].status = "ok" => pq[1].from = pq[1].to
    BY <1>3 DEF IInv, Accounts, PqOK
  <2>2. pq[1].from \in Nat /\ pq[1].to \in Nat
    BY <1>3, RequestType
  <2> QED BY <1>1, <1>2, <1>3, <2>1, <2>2 DEF Rest
<1>5. Intact'
  BY <1>1, <1>3, <1>4 DEF OrderInv, Intact, QueueStart
<1> QED BY <1>1, <1>5 DEF OrderInv, WqTight, ShutCloses

LEMMA FinishCloseOrder == OrderInv /\ FinishClose => OrderInv'
BY DEF FinishClose, OrderInv, WqTight, Intact, ShutCloses, QueueStart, ctxVars, envVars

LEMMA StepOrder == IInv /\ OrderInv /\ [Next]_vars => OrderInv'
<1> SUFFICES ASSUME IInv, OrderInv, [Next]_vars PROVE OrderInv'
  OBVIOUS
<1>1. CASE Quiet
  BY <1>1, QuietOrder
<1>2. ASSUME NEW len \in Lens, Write(len) PROVE OrderInv'
  <2>1. len \in Nat /\ len > 0
    BY BoundsAssumption
  <2> QED BY <1>1, <1>2, <2>1, WriteOrder DEF Write, Quiet
<1>3. CASE IoWritable
  BY <1>3, IoWritableOrder
<1>4. CASE Callback
  BY <1>4, CallbackOrder
<1>5. CASE FinishClose
  BY <1>5, FinishCloseOrder
<1> QED BY <1>1, <1>2, <1>3, <1>4, <1>5 DEF Next, ScriptStep, Proceed, Quiet

LEMMA OrderInvariance == Spec => [](IInv /\ OrderInv)
<1>1. Init => IInv /\ OrderInv
  BY InitIInv, InitOrder
<1>2. IInv /\ OrderInv /\ [Next]_vars => (IInv /\ OrderInv)'
  BY StepIInv, StepOrder
<1> QED BY <1>1, <1>2, PTL DEF Spec

\* For every script the queue holds the script's output in order and without
\* gaps, from the byte after the last one sent to the last one written.
THEOREM QueueInOrder == Spec => []InOrder
<1>1. IInv /\ OrderInv => InOrder
  <2> SUFFICES ASSUME IInv, OrderInv PROVE InOrder
    OBVIOUS
  <2>1. wq \in Seq(Request)
    BY DEF IInv, TypeOK, UvTypeOK
  <2>2. \A i \in 1 .. Len(wq) : i = Len(wq) \/ i \in 1 .. Len(wq) - 1
    BY <2>1
  <2>3. \A i \in 1 .. Len(wq) : wq # <<>>
    BY <2>1
  <2>4. \A i \in 1 .. Len(wq) : wq[i].to = IF i = Len(wq) THEN accepted ELSE wq[i + 1].from
    BY <2>2, <2>3 DEF OrderInv, WqTight
  <2>5. (wq # <<>> /\ peer # "gone") => wq[1].from = sent
    BY DEF OrderInv, Intact, QueueStart
  <2> QED BY <2>4, <2>5 DEF InOrder
<1> QED BY <1>1, OrderInvariance, PTL

-----------------------------------------------------------------------------
(* Scripts that do not write from onDrain.  For the others after_write     *)
(* clears blocked, and closes, on a queue size read before onDrain ran.    *)

NoWriteOnDrain == "write" \notin Script["onDrain"]

\* While onDrain runs the queue stays empty.
DrainHeld == pc = "after_write.onDrain" => qsize = 0 /\ nested = <<>>
Blocked == (handle = "open" /\ qsize > 0) => blocked
ErrorGone == pc = "after_read.onError" => peer = "gone"

ClosePlace == pc = "on_close.onClose" => handle # "open"

DrainInv == DrainHeld /\ Blocked /\ ErrorGone /\ ClosePlace

LEMMA InitDrain == Init => DrainInv
BY DEF Init, DrainInv, DrainHeld, Blocked, ErrorGone, ClosePlace

LEMMA NotWhileDraining ==
    ASSUME NoWriteOnDrain, DrainHeld, MayCall("write")
    PROVE  pc # "after_write.onDrain"
<1>1. HandlerAt["after_write.onDrain"] = "onDrain"
  BY DEF HandlerAt, HandlerPCs
<1> QED BY <1>1 DEF NoWriteOnDrain, DrainHeld, MayCall, Running

LEMMA StepDrain == ASSUME NoWriteOnDrain PROVE IInv /\ DrainInv /\ [Next]_vars => DrainInv'
<1> SUFFICES ASSUME IInv, DrainInv, [Next]_vars PROVE DrainInv'
  OBVIOUS
<1> USE DEF uvVars, ctxVars, envVars, control, vars
<1>1. ASSUME NEW len \in Lens, Write(len) PROVE DrainInv'
  <2>1. pc # "after_write.onDrain" /\ pc' = pc /\ peer' = peer /\ handle' = handle
    BY <1>1, NotWhileDraining DEF DrainInv, Write, WriteFails, WriteFull, WriteIncomplete, WriteEagain
  <2>2. Blocked'
    <3>1. blocked' = TRUE \/ UNCHANGED <<handle, qsize, blocked>>
      BY <1>1 DEF Write, WriteFails, WriteFull, WriteIncomplete, WriteEagain, BlockedAfterQueuing
    <3> QED BY <3>1 DEF DrainInv, Blocked
  <2> QED BY <2>1, <2>2 DEF DrainInv, DrainHeld, ErrorGone, ClosePlace
<1>2. CASE ReturnToWrite \/ Close \/ Shutdown \/ Pause \/ Resume
  <2>1. UNCHANGED <<pc, qsize, blocked, peer>> /\ (handle' = "open" => handle = "open")
    BY <1>2 DEF ReturnToWrite, Close, Shutdown, Pause, Resume, UvClose
  <2>2. nested = <<>> => nested' = <<>>
    BY <1>2 DEF ReturnToWrite, Close, Shutdown, Pause, Resume
  <2> QED BY <2>1, <2>2 DEF DrainInv, DrainHeld, Blocked, ErrorGone, ClosePlace
<1>3. CASE IoWritable
  <2>1. handle = "open" /\ pc' = "callbacks" /\ blocked' = blocked
    BY <1>3 DEF IoWritable, Armed
  <2>2. qsize' > 0 => qsize > 0
    <3>1. qsize \in Nat /\ qsize' \in Nat
      BY <1>3, IoWritableStep DEF IInv, TypeOK, UvTypeOK
    <3>2. qsize = 0 => wq = <<>>
      BY EmptyQueue
    <3> QED BY <1>3, <3>1, <3>2 DEF IoWritable, UvWriteHead
  <2> QED BY <1>3, <2>1, <2>2 DEF IoWritable, DrainInv, DrainHeld, Blocked, ErrorGone, ClosePlace
<1>4. CASE Callback
  <2>1. pc' = "after_write.onWrite" /\ blocked' = blocked /\ handle' = handle
    BY <1>4 DEF Callback
  <2>2. qsize' > 0 => qsize > 0
    <3>1. Head(pq) \in Request
      BY <1>4 DEF Callback, IInv, TypeOK, ControlTypeOK
    <3>2. Head(pq).from \in Nat /\ Head(pq).to \in Nat
      BY <3>1, RequestType
    <3>3. Head(pq) = pq[1] /\ 1 \in 1 .. Len(pq)
      BY <1>4 DEF Callback, IInv, TypeOK, ControlTypeOK
    <3>4. pq[1].from <= pq[1].to
      BY <3>2, <3>3 DEF IInv, Accounts, PqOK
    <3>5. qsize' = qsize - (pq[1].to - pq[1].from) /\ qsize \in Nat
      BY <1>4, <3>3 DEF Callback, Uncounted, Rest, IInv, TypeOK, UvTypeOK
    <3> QED BY <3>2, <3>3, <3>4, <3>5
  <2> QED BY <2>1, <2>2 DEF DrainInv, DrainHeld, Blocked, ErrorGone, ClosePlace
<1>5. CASE AfterWriteFailed \/ AfterWriteError \/ Drain \/ Destroyed \/ OnClose \/ FinishClose
  <2>1. UNCHANGED <<qsize, blocked, peer>> /\ (handle' = "open" => handle = "open")
    BY <1>5 DEF AfterWriteFailed, AfterWriteError, Drain, Destroyed, OnClose, FinishClose, UvClose,
       AfterShutdown
  <2>2. pc' # "after_write.onDrain" /\ pc' # "after_read.onError"
        /\ (pc' = "on_close.onClose" => handle' # "open")
    BY <1>5 DEF AfterWriteFailed, AfterWriteError, Drain, Destroyed, OnClose, FinishClose, UvClose,
       AfterShutdown
  <2> QED BY <2>1, <2>2 DEF DrainInv, DrainHeld, Blocked, ErrorGone, ClosePlace
<1>6. CASE AfterWriteDrains
  BY <1>6 DEF AfterWriteDrains, Returned, DrainInv, DrainHeld, Blocked, ErrorGone, ClosePlace
<1>7. CASE AfterWriteNoDrain
  <2>1. UNCHANGED <<qsize, blocked, peer>> /\ (handle' = "open" => handle = "open") /\ pc' = "callbacks"
    BY <1>7 DEF AfterWriteNoDrain, AfterWriteEnds, UvClose
  <2> QED BY <2>1 DEF DrainInv, DrainHeld, Blocked, ErrorGone, ClosePlace
<1>8. CASE AfterWriteDrained
  <2>1. qsize = 0 /\ qsize' = qsize /\ pc' = "callbacks"
    BY <1>8 DEF AfterWriteDrained, AfterWriteEnds, Returned, DrainInv, DrainHeld
  <2> QED BY <2>1 DEF DrainInv, DrainHeld, Blocked, ErrorGone, ClosePlace
<1>9. CASE AfterReadData \/ AfterReadEnd \/ AfterReadError \/ NextIteration \/ ReadData \/ ReadEnd
  <2>1. UNCHANGED <<qsize, blocked, peer>> /\ (handle' = "open" => handle = "open")
    BY <1>9 DEF AfterReadData, AfterReadEnd, AfterReadError, NextIteration, ReadData, ReadEnd, UvClose
  <2>2. pc' # "after_write.onDrain" /\ pc' # "after_read.onError"
        /\ (pc' = "on_close.onClose" => handle' # "open")
    BY <1>9 DEF AfterReadData, AfterReadEnd, AfterReadError, NextIteration, ReadData, ReadEnd,
       Readable, Returned
  <2> QED BY <2>1, <2>2 DEF DrainInv, DrainHeld, Blocked, ErrorGone, ClosePlace
<1>10. CASE ReadError
  BY <1>10 DEF ReadError, DrainInv, DrainHeld, Blocked, ErrorGone, ClosePlace
<1>11. CASE UNCHANGED vars \/ \E to \in {"half", "gone"} : PeerMove(to)
  BY <1>11 DEF PeerMove, DrainInv, DrainHeld, Blocked, ErrorGone, ClosePlace
<1> QED BY <1>1, <1>2, <1>3, <1>4, <1>5, <1>6, <1>7, <1>8, <1>9, <1>10, <1>11
        DEF Next, ScriptStep, Proceed

LEMMA DrainInvariance == ASSUME NoWriteOnDrain PROVE Spec => [](IInv /\ OrderInv /\ DrainInv)
<1>1. Init => IInv /\ OrderInv /\ DrainInv
  BY InitIInv, InitOrder, InitDrain
<1>2. IInv /\ OrderInv /\ DrainInv /\ [Next]_vars => (IInv /\ OrderInv /\ DrainInv)'
  BY StepIInv, StepOrder, StepDrain
<1> QED BY <1>1, <1>2, PTL DEF Spec

\* If no onDrain handler writes, a queue that is not empty always has its drain
\* event coming.
THEOREM DrainKept == ASSUME NoWriteOnDrain PROVE Spec => []DrainPromised
<1>1. DrainInv => DrainPromised
  BY DEF DrainInv, Blocked, DrainPromised
<1> QED BY <1>1, DrainInvariance, PTL

-----------------------------------------------------------------------------
(* Refinement of StreamContract *)

\* A handle whose peer is there is closed only when all is sent.
LEMMA CloseFlushed ==
    ASSUME IInv, OrderInv, qsize = 0, handle = "open", peer # "gone"
    PROVE  sent = accepted
<1>1. wq = <<>>
  BY EmptyQueue
<1> QED BY <1>1 DEF OrderInv, Intact, QueueStart

LEMMA QuietContract ==
    ASSUME IInv, OrderInv, DrainInv, Quiet
    PROVE  Contract!Next \/ UNCHANGED Contract!vars
<1> USE DEF uvVars, ctxVars, envVars, control, vars
<1>1. UNCHANGED <<accepted, sent>>
  BY QuietUnchanged DEF DataVars
<1>2. CASE UNCHANGED <<handle, peer>>
  BY <1>1, <1>2 DEF Contract!vars, Phase
<1>3. ASSUME peer' = peer, UvClose, handle = "open" => peer = "gone" \/ qsize = 0
      PROVE  Contract!Next \/ UNCHANGED Contract!vars
  <2>1. Phase' = "closed"
    BY <1>3 DEF UvClose, Phase
  <2>2. CASE handle # "open"
    BY <1>1, <2>1, <2>2 DEF Contract!vars, Phase
  <2>3. CASE handle = "open" /\ peer = "gone"
    BY <1>1, <2>1, <2>3 DEF Contract!Next, Contract!Close, Phase
  <2>4. CASE handle = "open" /\ peer # "gone" /\ qsize = 0
    <3>1. sent = accepted
      BY <2>4, CloseFlushed
    <3> QED BY <1>1, <2>1, <2>4, <3>1 DEF Contract!Next, Contract!Close, Phase
  <2> QED BY <1>3, <2>2, <2>3, <2>4
<1>4. CASE Close \/ AfterWriteNoDrain \/ AfterWriteDrained
  <2>1. peer' = peer
    BY <1>4 DEF Close, AfterWriteNoDrain, AfterWriteDrained, AfterWriteEnds
  <2>2. handle' = handle \/ (UvClose /\ qsize = 0)
    <3>1. CASE Close
      BY <3>1 DEF Close, NothingQueued
    <3>2. CASE AfterWriteNoDrain
      <4>1. handle' = handle \/ (UvClose /\ ClosesNow(qsize = 0))
        BY <3>2 DEF AfterWriteNoDrain, AfterWriteEnds
      <4> QED BY <4>1 DEF ClosesNow
    <3>3. CASE AfterWriteDrained
      <4>1. handle' = handle \/ UvClose
        BY <3>3 DEF AfterWriteDrained, AfterWriteEnds
      <4> QED BY <3>3, <4>1 DEF AfterWriteDrained, Returned, DrainInv, DrainHeld
    <3> QED BY <1>4, <3>1, <3>2, <3>3
  <2> QED BY <1>2, <1>3, <2>1, <2>2
<1>5. CASE Drain \/ Destroyed
  <2>1. peer' = peer
    BY <1>5 DEF Drain, Destroyed
  <2>2. handle' = handle \/ (UvClose /\ ~(qsize > 0))
    <3>1. handle' = handle \/ AfterShutdown
      BY <1>5 DEF Drain, Destroyed
    <3> QED BY <3>1 DEF AfterShutdown
  <2>3. ~(qsize > 0) => qsize = 0
    BY DEF IInv, TypeOK, UvTypeOK
  <2> QED BY <1>2, <1>3, <2>1, <2>2, <2>3
<1>6. CASE AfterReadError
  <2>1. peer' = peer /\ UvClose /\ peer = "gone"
    BY <1>6 DEF AfterReadError, Returned, DrainInv, ErrorGone
  <2> QED BY <1>3, <2>1
<1>7. CASE OnClose
  <2>1. peer' = peer /\ handle' = "freed"
    BY <1>7 DEF OnClose
  <2>2. handle # "open"
    BY <1>7 DEF OnClose, Returned, DrainInv, ClosePlace
  <2> QED BY <1>1, <2>1, <2>2 DEF Contract!vars, Phase
<1>8. ASSUME NEW to \in {"half", "gone"}, PeerMove(to)
      PROVE  Contract!Next \/ UNCHANGED Contract!vars
  <2>1. handle' = handle /\ peer' = to /\ peer # "gone"
    BY <1>8 DEF PeerMove
  <2> QED BY <1>1, <2>1 DEF Contract!Next, Contract!Break, Contract!vars, Phase
<1>9. UNCHANGED <<handle, peer>>
      \/ Close \/ AfterWriteNoDrain \/ AfterWriteDrained \/ Drain \/ Destroyed \/ AfterReadError
      \/ OnClose \/ \E to \in {"half", "gone"} : PeerMove(to)
  BY DEF Quiet, WriteFails, ReturnToWrite, Shutdown, Pause, Resume, AfterWriteFailed,
     AfterWriteError, AfterWriteDrains, AfterReadData, AfterReadEnd, NextIteration,
     ReadData, ReadEnd, ReadError
<1> QED BY <1>2, <1>4, <1>5, <1>6, <1>7, <1>8, <1>9

LEMMA UvWriteSent ==
    ASSUME NEW from \in Nat, NEW to \in Nat, NEW base \in Nat, from < to,
           UvWrite(from, to, base)
    PROVE  base <= sent'
<1>1. ASSUME NEW m \in 0 .. (to - from) - 1, sent' = base + m PROVE base <= sent'
  BY <1>1
<1>2. CASE sent' = base
  BY <1>2
<1>3. CASE sent' = base + (to - from)
  BY <1>3
<1> QED BY <1>1, <1>2, <1>3 DEF UvWrite

LEMMA PartOfSum == \A a, b, c, d \in Nat : a = b + c + d => b <= a
OBVIOUS

LEMMA WriteContract ==
    ASSUME IInv, IInv', NEW len \in Nat, len > 0,
           WriteFull(len) \/ WriteIncomplete(len) \/ WriteEagain(len)
    PROVE  Contract!Next \/ UNCHANGED Contract!vars
<1> USE DEF uvVars, control
<1>1. /\ sent \in Nat /\ accepted \in Nat /\ sent' \in Nat /\ accepted' \in Nat /\ sent' <= accepted'
  <2>1. /\ sent \in Nat /\ accepted \in Nat
        /\ sent' \in Nat /\ accepted' \in Nat /\ qsize' \in Nat /\ lost' \in Nat
    BY DEF IInv, TypeOK, UvTypeOK, EnvTypeOK
  <2>2. accepted' = sent' + qsize' + lost'
    BY DEF IInv, Accounts, Conservation
  <2>3. sent' <= accepted'
    BY <2>1, <2>2, PartOfSum
  <2> QED BY <2>1, <2>3
<1>2. Phase' = Phase
  BY DEF Phase, WriteFull, WriteIncomplete, WriteEagain
<1>3. ASSUME handle = "open", accepted' = accepted + len, sent <= sent', peer = "gone" => sent' = sent
      PROVE  Contract!Next
  <2>1. sent' \in sent .. accepted' /\ accepted' > accepted
    BY <1>1, <1>3
  <2>2. Phase # "closed" /\ (Phase = "broken" => sent' = sent)
    BY <1>3 DEF Phase
  <2> QED BY <1>1, <1>2, <2>1, <2>2 DEF Contract!Next, Contract!Offer
<1>4. CASE WriteFull(len)
  <2>1. handle = "open" /\ peer # "gone" /\ accepted' = accepted + len /\ sent' = sent + len
    BY <1>4 DEF WriteFull, Broken
  <2>2. sent <= sent'
    BY <1>1, <2>1
  <2> QED BY <1>3, <2>1, <2>2
<1>5. CASE WriteIncomplete(len)
  <2>1. handle = "open" /\ peer # "gone" /\ accepted' = accepted + len
    BY <1>5 DEF WriteIncomplete, Broken
  <2>2. PICK n \in 1 .. len - 1 : UvWrite(RemainderStart(accepted, n), accepted + len, sent + n)
    BY <1>5 DEF WriteIncomplete
  <2>3. UvWrite(accepted + n, accepted + len, sent + n) /\ n \in Nat /\ n < len
    BY <2>2 DEF RemainderStart
  <2>4. sent <= sent'
    BY <1>1, <2>3, UvWriteSent
  <2> QED BY <1>3, <2>1, <2>4
<1>6. CASE WriteEagain(len)
  <2>1. CASE handle = "open" /\ UvWrite(accepted, accepted + len, sent) /\ accepted' = accepted + len
    <3>1. sent <= sent'
      BY <1>1, <2>1, UvWriteSent
    <3>2. qsize # 0 => sent' = sent
      BY <2>1 DEF UvWrite
    <3>3. peer = "gone" => qsize # 0
      BY <1>6 DEF WriteEagain, Broken
    <3> QED BY <1>3, <2>1, <3>1, <3>2, <3>3
  <2>2. CASE UNCHANGED <<wq, qsize, sent, done, accepted>>
    BY <1>2, <2>2 DEF Contract!vars
  <2> QED BY <1>6, <2>1, <2>2 DEF WriteEagain
<1> QED BY <1>4, <1>5, <1>6

LEMMA IoWritableContract ==
    ASSUME IInv, IInv', OrderInv, IoWritable
    PROVE  Contract!Next \/ UNCHANGED Contract!vars
<1>1. handle = "open" /\ UvWriteHead /\ UNCHANGED <<handle, peer, accepted>>
  BY DEF IoWritable, Armed
<1>2. sent \in Nat /\ accepted \in Nat /\ sent' \in Nat /\ sent' <= accepted
  <2>1. /\ sent \in Nat /\ accepted \in Nat
        /\ sent' \in Nat /\ accepted' \in Nat /\ qsize' \in Nat /\ lost' \in Nat
    BY DEF IInv, TypeOK, UvTypeOK, EnvTypeOK
  <2>2. accepted' = sent' + qsize' + lost'
    BY DEF IInv, Accounts, Conservation
  <2>3. sent' <= accepted'
    BY <2>1, <2>2, PartOfSum
  <2> QED BY <1>1, <2>1, <2>3
<1>3. Phase' = Phase
  BY <1>1 DEF Phase
<1>4. sent' = sent \/ (sent' > sent /\ ~Broken)
  <2>1. CASE sent' = sent
    BY <2>1
  <2>2. ASSUME wq # <<>>, ~Broken, sent' = sent + Rest(Head(wq))
        PROVE  sent' > sent
    <3>1. Head(wq) = wq[1] /\ 1 \in 1 .. Len(wq) /\ wq[1] \in Request
      BY <2>2 DEF IInv, TypeOK, UvTypeOK
    <3>2. wq[1].from \in Nat /\ wq[1].to \in Nat
      BY <3>1, RequestType
    <3>3. wq[1].from < wq[1].to
      BY <3>1 DEF IInv, Accounts, WqOK
    <3>4. Rest(Head(wq)) \in Nat /\ Rest(Head(wq)) > 0
      BY <3>1, <3>2, <3>3 DEF Rest
    <3> QED BY <1>2, <2>2, <3>4
  <2>3. ASSUME wq # <<>>, ~Broken, NEW n \in 0 .. Rest(Head(wq)) - 1, sent' = sent + n
        PROVE  sent' = sent \/ sent' > sent
    BY <1>2, <2>3
  <2> QED BY <1>1, <2>1, <2>2, <2>3 DEF UvWriteHead
<1>5. CASE sent' = sent
  BY <1>1, <1>3, <1>5 DEF Contract!vars
<1>6. CASE sent' > sent /\ ~Broken
  <2>1. sent' \in sent + 1 .. accepted
    BY <1>2, <1>6
  <2>2. Phase = "open"
    BY <1>1, <1>6 DEF Phase, Broken
  <2> QED BY <1>1, <1>3, <2>1, <2>2 DEF Contract!Next, Contract!Deliver
<1> QED BY <1>4, <1>5, <1>6

LEMMA StepContract ==
    IInv /\ IInv' /\ OrderInv /\ DrainInv /\ [Next]_vars => [Contract!Next]_Contract!vars
<1> SUFFICES ASSUME IInv, IInv', OrderInv, DrainInv, [Next]_vars
             PROVE  Contract!Next \/ UNCHANGED Contract!vars
  OBVIOUS
<1>1. CASE Quiet
  BY <1>1, QuietContract
<1>2. ASSUME NEW len \in Lens, Write(len)
      PROVE  Contract!Next \/ UNCHANGED Contract!vars
  <2>1. len \in Nat /\ len > 0
    BY BoundsAssumption
  <2> QED BY <1>1, <1>2, <2>1, WriteContract DEF Write, Quiet
<1>3. CASE IoWritable
  BY <1>3, IoWritableContract
<1>4. CASE Callback
  BY <1>4 DEF Callback, Contract!vars, Phase
<1>5. CASE FinishClose
  BY <1>5 DEF FinishClose, Contract!vars, Phase, envVars
<1> QED BY <1>1, <1>2, <1>3, <1>4, <1>5 DEF Next, ScriptStep, Proceed, Quiet

\* If no onDrain handler writes, every socket implements StreamContract: bytes
\* reach the kernel in order, and unless the peer is gone the handle is closed
\* only when every accepted byte has reached it.
THEOREM ContractKept == ASSUME NoWriteOnDrain PROVE Spec => KeepsContract
<1>1. Init => Contract!Init
  BY DEF Init, Contract!Init, Phase
<1> QED BY <1>1, StepContract, DrainInvariance, PTL DEF Spec, KeepsContract, Contract!Spec

-----------------------------------------------------------------------------
(* uv_close is called once.  Two kinds of script are covered: any script at *)
(* all while the peer neither leaves nor closes its side, and scripts that  *)
(* close, with close(0), only from onRead and onEnd and never shut down,    *)
(* whatever the peer does.                                                  *)

CloseOnRead ==
    \A h \in Handlers :
        /\ "shutdown" \notin Script[h]
        /\ "close" \in Script[h] => h \in {"onRead", "onEnd"}

ClosesInTurn == PeerMoves = {} \/ CloseOnRead

\* What failed comes last among the requests being called back, and is the
\* piece between what was sent or lost and the queue.
HeadFailed ==
    handle = "open" =>
        /\ (\A i \in 1 .. Len(pq) : pq[i].status = "ok") => QueueStart = sent + lost
        /\ \A i \in 1 .. Len(pq) : pq[i].status = "failed" =>
              i = Len(pq) /\ pq[i].from = sent + lost /\ pq[i].to = QueueStart

LEMMA InitHead == Init => HeadFailed
BY DEF Init, HeadFailed, QueueStart

\* uv_write moves the start of the queue only with what it sends.
LEMMA UvWriteHeadFailed ==
    ASSUME IInv, HeadFailed, handle = "open", NEW n \in Nat, NEW len \in Nat, n < len,
           n = 0 \/ qsize = 0,
           UvWrite(accepted + n, accepted + len, sent + n),
           accepted' = accepted + len, UNCHANGED <<pq, lost, handle>>
    PROVE  HeadFailed'
<1>1. /\ sent \in Nat /\ accepted \in Nat /\ qsize \in Nat /\ lost \in Nat /\ wq \in Seq(Request)
  BY DEF IInv, TypeOK, UvTypeOK, EnvTypeOK
<1>2. ASSUME NEW r, wq' = Append(wq, r)
      PROVE  QueueStart' = IF wq = <<>> THEN r.from ELSE wq[1].from
  <2>1. wq' # <<>> /\ (wq = <<>> => wq'[1] = r) /\ (wq # <<>> => wq'[1] = wq[1])
    BY <1>1, <1>2
  <2> QED BY <2>1 DEF QueueStart
<1>3. CASE qsize # 0
  <2>1. n = 0 /\ sent' = sent + n /\ wq' = Append(wq, NewRequest(accepted + n, accepted + len))
    BY <1>3 DEF UvWrite
  <2>2. sent' = sent /\ accepted + n = accepted
    BY <1>1, <2>1
  <2> DEFINE r == NewRequest(accepted, accepted + len)
  <2>3. r.from = accepted /\ wq' = Append(wq, r)
    BY <2>1, <2>2 DEF NewRequest
  <2> HIDE DEF r
  <2>4. QueueStart' = QueueStart
    BY <1>2, <2>3 DEF QueueStart
  <2> QED BY <2>2, <2>4 DEF HeadFailed
<1>4. CASE qsize = 0
  <2>1. wq = <<>> /\ (\A i \in 1 .. Len(pq) : pq[i].status = "ok") /\ sent + lost = accepted
    BY <1>4, EmptyQueue
  <2>2. QueueStart' = sent' + lost
    <3>1. ASSUME NEW m \in 0 .. (accepted + len) - (accepted + n) - 1,
                 wq' = Append(wq, [NewRequest(accepted + n, accepted + len) EXCEPT !.from = @ + m]),
                 sent' = sent + n + m
          PROVE  QueueStart' = sent' + lost
      <4> DEFINE r == [NewRequest(accepted + n, accepted + len) EXCEPT !.from = @ + m]
      <4>1. r.from = accepted + n + m
        BY DEF NewRequest
      <4>2. wq' = Append(wq, r)
        BY <3>1
      <4> HIDE DEF r
      <4>3. QueueStart' = accepted + n + m /\ m \in Nat
        BY <1>1, <1>2, <2>1, <4>1, <4>2
      <4> QED BY <1>1, <2>1, <3>1, <4>3
    <3>2. CASE sent' = sent + n + ((accepted + len) - (accepted + n)) /\ wq' = wq
      <4>1. QueueStart' = accepted + len
        BY <2>1, <3>2 DEF QueueStart
      <4> QED BY <1>1, <2>1, <3>2, <4>1
    <3> QED BY <1>4, <3>1, <3>2 DEF UvWrite
  <2> QED BY <2>1, <2>2 DEF HeadFailed
<1> QED BY <1>3, <1>4

LEMMA WriteHeadFailed ==
    ASSUME IInv, HeadFailed, NEW len \in Nat, len > 0,
           WriteFull(len) \/ WriteIncomplete(len) \/ WriteEagain(len)
    PROVE  HeadFailed'
<1> USE DEF uvVars, control
<1>1. sent \in Nat /\ accepted \in Nat /\ lost \in Nat
  BY DEF IInv, TypeOK, EnvTypeOK
<1>2. CASE WriteFull(len)
  <2>1. /\ qsize = 0 /\ sent' = sent + len /\ accepted' = accepted + len
        /\ UNCHANGED <<handle, wq, pq, lost>>
    BY <1>2 DEF WriteFull
  <2>2. wq = <<>> /\ (\A i \in 1 .. Len(pq) : pq[i].status = "ok") /\ sent + lost = accepted
    BY <2>1, EmptyQueue
  <2>3. QueueStart' = sent' + lost
    BY <1>1, <2>1, <2>2 DEF QueueStart
  <2> QED BY <2>1, <2>2, <2>3 DEF HeadFailed
<1>3. CASE WriteIncomplete(len)
  <2>1. PICK n \in 1 .. len - 1 : UvWrite(RemainderStart(accepted, n), accepted + len, sent + n)
    BY <1>3 DEF WriteIncomplete
  <2>2. n \in Nat /\ n < len
    OBVIOUS
  <2>3. UvWrite(accepted + n, accepted + len, sent + n)
    BY <2>1 DEF RemainderStart
  <2>4. /\ qsize = 0 /\ handle = "open" /\ accepted' = accepted + len
        /\ UNCHANGED <<pq, lost, handle>>
    BY <1>3 DEF WriteIncomplete
  <2> QED BY <2>2, <2>3, <2>4, UvWriteHeadFailed
<1>4. CASE WriteEagain(len)
  <2>1. UNCHANGED <<pq, lost, handle>>
    BY <1>4 DEF WriteEagain
  <2>2. CASE handle = "open" /\ UvWrite(accepted, accepted + len, sent) /\ accepted' = accepted + len
    <3>1. accepted + 0 = accepted /\ sent + 0 = sent
      BY <1>1
    <3>2. UvWrite(accepted + 0, accepted + len, sent + 0)
      BY <2>2, <3>1
    <3> QED BY <2>1, <2>2, <3>2, UvWriteHeadFailed
  <2>3. CASE UNCHANGED <<wq, qsize, sent, done, accepted>>
    BY <2>1, <2>3 DEF HeadFailed, QueueStart
  <2> QED BY <1>4, <2>2, <2>3 DEF WriteEagain
<1> QED BY <1>2, <1>3, <1>4

\* The queue without its head starts where the head ended.
LEMMA TailStart ==
    ASSUME IInv, OrderInv, wq # <<>>, wq' = Tail(wq), accepted' = accepted
    PROVE  QueueStart' = wq[1].to
<1>1. /\ wq \in Seq(Request) /\ Len(wq') = Len(wq) - 1
      /\ \A i \in 1 .. Len(wq') : wq'[i] = wq[i + 1]
      /\ Len(wq) \in Nat /\ Len(wq) > 0 /\ wq' \in Seq(Request)
  BY DEF IInv, TypeOK, UvTypeOK
<1>2. CASE wq' = <<>>
  <2>1. Len(wq) = 1
    BY <1>1, <1>2
  <2> QED BY <1>2, <2>1 DEF OrderInv, WqTight, QueueStart
<1>3. CASE wq' # <<>>
  <2>1. 1 \in 1 .. Len(wq) - 1 /\ 1 \in 1 .. Len(wq')
    BY <1>1, <1>3
  <2>2. wq'[1] = wq[1 + 1] /\ wq[1].to = wq[1 + 1].from
    BY <1>1, <2>1 DEF OrderInv, WqTight
  <2> QED BY <1>3, <2>2 DEF QueueStart
<1> QED BY <1>2, <1>3

LEMMA IoWritableHead == IInv /\ OrderInv /\ HeadFailed /\ IoWritable => HeadFailed'
<1> SUFFICES ASSUME IInv, OrderInv, HeadFailed, IoWritable PROVE HeadFailed'
  OBVIOUS
<1>1. /\ handle = "open" /\ UvWriteHead /\ pq = <<>> /\ accepted' = accepted /\ lost' = lost
  BY DEF IoWritable, Armed, Returned, IInv, PqPlace, CallbackPCs
<1>2. /\ sent \in Nat /\ accepted \in Nat /\ lost \in Nat
      /\ wq \in Seq(Request) /\ done \in Seq(Request)
  BY DEF IInv, TypeOK, UvTypeOK, EnvTypeOK
<1>3. QueueStart = sent + lost
  BY <1>1 DEF HeadFailed
<1>4. \A i \in 1 .. Len(done) : done[i].status = "ok"
  BY DEF IInv, Accounts, DoneOK
<1>5. ASSUME wq # <<>>
      PROVE  /\ Head(wq) = wq[1] /\ wq[1] \in Request
             /\ wq[1].from \in Nat /\ wq[1].to \in Nat /\ wq[1].status = "ok"
             /\ wq[1].from = sent + lost
  <2>1. 1 \in 1 .. Len(wq) /\ Head(wq) = wq[1] /\ wq[1] \in Request
    BY <1>2, <1>5
  <2>2. wq[1].from \in Nat /\ wq[1].to \in Nat
    BY <2>1, RequestType
  <2> QED BY <1>3, <1>5, <2>1, <2>2 DEF IInv, Accounts, WqOK, QueueStart
<1>6. CASE wq = <<>> /\ pq' = done /\ UNCHANGED <<wq, qsize, sent>>
  BY <1>1, <1>3, <1>4, <1>6 DEF HeadFailed, QueueStart
<1>7. CASE /\ wq # <<>> /\ wq' = Tail(wq) /\ sent' = sent
           /\ pq' = Append(done, [Head(wq) EXCEPT !.status = "failed"])
  <2> DEFINE r == [Head(wq) EXCEPT !.status = "failed"]
  <2>1. r.status = "failed" /\ r.from = sent + lost /\ r.to = wq[1].to /\ pq' = Append(done, r)
    BY <1>5, <1>7 DEF Request
  <2> HIDE DEF r
  <2>2. /\ Len(pq') = Len(done) + 1 /\ pq'[Len(pq')] = r /\ Len(pq') \in 1 .. Len(pq')
        /\ \A i \in 1 .. Len(pq') : (i \in 1 .. Len(done) /\ pq'[i] = done[i]) \/ i = Len(pq')
    BY <1>2, <2>1
  <2>3. QueueStart' = wq[1].to
    BY <1>1, <1>7, TailStart
  <2> QED BY <1>1, <1>4, <1>7, <2>1, <2>2, <2>3 DEF HeadFailed
<1>8. CASE /\ wq # <<>> /\ wq' = Tail(wq)
           /\ pq' = Append(done, [Head(wq) EXCEPT !.from = @ + Rest(Head(wq))])
           /\ sent' = sent + Rest(Head(wq))
  <2> DEFINE r == [Head(wq) EXCEPT !.from = @ + Rest(Head(wq))]
  <2>1. r.status = "ok" /\ pq' = Append(done, r)
    BY <1>5, <1>8 DEF Request
  <2> HIDE DEF r
  <2>2. \A i \in 1 .. Len(pq') : (i \in 1 .. Len(done) /\ pq'[i] = done[i]) \/ pq'[i] = r
    BY <1>2, <2>1
  <2>3. QueueStart' = wq[1].to
    BY <1>1, <1>8, TailStart
  <2>4. sent' + lost = wq[1].to
    <3>1. sent' = sent + (wq[1].to - wq[1].from)
      BY <1>5, <1>8 DEF Rest
    <3>2. \A a, b, c \in Nat : (a + (b - (a + c))) + c = b
      OBVIOUS
    <3>3. wq[1].to \in Nat /\ sent' = sent + (wq[1].to - (sent + lost))
      BY <1>5, <1>8, <3>1
    <3> QED BY <1>2, <3>2, <3>3
  <2>5. \A i \in 1 .. Len(pq') : pq'[i].status = "ok"
    BY <1>4, <2>1, <2>2
  <2> QED BY <1>1, <2>3, <2>4, <2>5 DEF HeadFailed
<1>9. ASSUME wq # <<>>, NEW n \in 0 .. Rest(Head(wq)) - 1,
             pq' = done, wq' = [wq EXCEPT ![1].from = @ + n], sent' = sent + n
      PROVE  HeadFailed'
  <2>1. n \in Nat
    BY <1>5, <1>9 DEF Rest
  <2> DEFINE r == [wq[1] EXCEPT !.from = @ + n]
  <2>2. r.from = wq[1].from + n /\ wq' = [wq EXCEPT ![1] = r]
    BY <1>5, <1>9 DEF Request
  <2> HIDE DEF r
  <2>3. wq'[1] = r /\ wq' # <<>>
    BY <1>2, <1>9, <2>2
  <2>4. QueueStart' = sent' + lost
    <3>1. QueueStart' = wq[1].from + n
      BY <2>2, <2>3 DEF QueueStart
    <3> QED BY <1>2, <1>5, <1>9, <2>1, <3>1
  <2> QED BY <1>1, <1>4, <1>9, <2>4 DEF HeadFailed
<1> QED BY <1>1, <1>6, <1>7, <1>8, <1>9 DEF UvWriteHead

LEMMA CallbackHead == IInv /\ HeadFailed /\ Callback => HeadFailed'
<1> SUFFICES ASSUME IInv, HeadFailed, Callback, handle = "open" PROVE HeadFailed'
  BY DEF HeadFailed, Callback
<1>1. /\ pq # <<>> /\ pq' = Tail(pq) /\ lost' = lost + Rest(Head(pq))
      /\ UNCHANGED <<handle, wq, sent, accepted>>
  BY DEF Callback, Uncounted
<1>2. pq \in Seq(Request) /\ lost \in Nat /\ sent \in Nat
  BY DEF IInv, TypeOK, EnvTypeOK, ControlTypeOK
<1>3. /\ 1 \in 1 .. Len(pq) /\ Head(pq) = pq[1] /\ pq[1] \in Request
      /\ Len(pq') = Len(pq) - 1
      /\ \A i \in 1 .. Len(pq') : pq'[i] = pq[i + 1] /\ i + 1 \in 1 .. Len(pq)
      /\ \A i \in 2 .. Len(pq) : i - 1 \in 1 .. Len(pq') /\ pq'[i - 1] = pq[i]
      /\ \A i \in 1 .. Len(pq) : i = 1 \/ i \in 2 .. Len(pq)
  BY <1>1, <1>2
<1>4. QueueStart' = QueueStart
  BY <1>1 DEF QueueStart
<1>5. pq[1].from \in Nat /\ pq[1].to \in Nat
  BY <1>3, RequestType
<1>6. CASE pq[1].status = "ok"
  <2>1. lost' = lost
    <3>1. pq[1].from = pq[1].to
      BY <1>3, <1>6 DEF IInv, Accounts, PqOK
    <3> QED BY <1>1, <1>2, <1>3, <1>5, <3>1 DEF Rest
  <2>2. (\A i \in 1 .. Len(pq') : pq'[i].status = "ok") => \A i \in 1 .. Len(pq) : pq[i].status = "ok"
    BY <1>3, <1>6
  <2>3. \A i \in 1 .. Len(pq') : pq'[i].status = "failed" => i = Len(pq')
    <3>1. ASSUME NEW i \in 1 .. Len(pq'), pq'[i].status = "failed" PROVE i = Len(pq')
      <4>1. i + 1 = Len(pq)
        BY <1>3, <3>1 DEF HeadFailed
      <4> QED BY <1>2, <1>3, <4>1
    <3> QED BY <3>1
  <2>4. ASSUME NEW i \in 1 .. Len(pq'), pq'[i].status = "failed"
        PROVE  pq'[i].from = sent' + lost' /\ pq'[i].to = QueueStart'
    <3>1. pq[i + 1].from = sent + lost /\ pq[i + 1].to = QueueStart
      BY <1>3, <2>4 DEF HeadFailed
    <3> QED BY <1>1, <1>3, <1>4, <2>1, <3>1
  <2>5. (\A i \in 1 .. Len(pq') : pq'[i].status = "ok") => QueueStart' = sent' + lost'
    BY <1>1, <1>4, <2>1, <2>2 DEF HeadFailed
  <2> QED BY <2>3, <2>4, <2>5 DEF HeadFailed
<1>7. CASE pq[1].status = "failed"
  <2>1. Len(pq) = 1 /\ pq[1].from = sent + lost /\ pq[1].to = QueueStart
    BY <1>3, <1>7 DEF HeadFailed
  <2>2. Len(pq') = 0
    BY <1>3, <2>1
  <2>3. lost' = lost + (pq[1].to - pq[1].from)
    BY <1>1, <1>3 DEF Rest
  <2>4. sent' + lost' = pq[1].to
    BY <1>1, <1>2, <1>5, <2>1, <2>3
  <2> QED BY <1>4, <2>1, <2>2, <2>4 DEF HeadFailed
<1> QED BY <1>3, <1>6, <1>7 DEF Request

LEMMA StepHead == IInv /\ OrderInv /\ HeadFailed /\ [Next]_vars => HeadFailed'
<1> SUFFICES ASSUME IInv, OrderInv, HeadFailed, [Next]_vars PROVE HeadFailed'
  OBVIOUS
<1>1. CASE Quiet
  BY <1>1, QuietUnchanged, QuietPhase DEF HeadFailed, QueueStart, DataVars
<1>2. ASSUME NEW len \in Lens, Write(len) PROVE HeadFailed'
  <2>1. len \in Nat /\ len > 0
    BY BoundsAssumption
  <2> QED BY <1>1, <1>2, <2>1, WriteHeadFailed DEF Write, Quiet
<1>3. CASE IoWritable
  BY <1>3, IoWritableHead
<1>4. CASE Callback
  BY <1>4, CallbackHead
<1>5. CASE FinishClose
  BY <1>5 DEF FinishClose, HeadFailed
<1> QED BY <1>1, <1>2, <1>3, <1>4, <1>5 DEF Next, ScriptStep, Proceed, Quiet

-----------------------------------------------------------------------------
(* While the peer stays: closing and a pending shutdown wait for one and   *)
(* the same close, which the script asks for once.                         *)

StayInv ==
    /\ peer = "open" /\ pc \notin {"after_read.onEnd", "after_read.onError"}
    /\ ~asked => handle = "open" /\ ~closing /\ shut = "none"
    /\ closing => handle = "open" /\ shut = "none"
    /\ shut = "pending" => handle = "open" /\ ~closing
    /\ pc = "on_close.onClose" => handle # "open"
    /\ NoDoubleClose

\* What write() leaves alone.
LEMMA WriteLeaves ==
    ASSUME NEW len, Write(len)
    PROVE  UNCHANGED <<handle, closing, shut, peer, asked, pc, cur, pq, ended>> /\ ~closing
BY DEF Write, WriteFails, WriteFull, WriteIncomplete, WriteEagain, uvVars, ctxVars, envVars, control

LEMMA StepStay ==
    ASSUME PeerMoves = {}
    PROVE  IInv /\ OrderInv /\ StayInv /\ [Next]_vars => StayInv'
<1> SUFFICES ASSUME IInv, OrderInv, StayInv, [Next]_vars PROVE StayInv'
  OBVIOUS
<1> USE DEF StayInv, NoDoubleClose, uvVars, ctxVars, envVars, control, vars
<1>1. ASSUME NEW len \in Lens, Write(len) PROVE StayInv'
  BY <1>1, WriteLeaves
<1>2. CASE Close
  BY <1>2 DEF Close, UvClose, ClosingAfterClose, IInv, TypeOK, CtxTypeOK
<1>3. CASE Shutdown
  BY <1>3 DEF Shutdown
<1>4. CASE Pause \/ Resume \/ ReturnToWrite \/ Callback \/ AfterWriteFailed \/ AfterWriteError
           \/ AfterWriteDrains \/ AfterReadData \/ IoWritable \/ NextIteration \/ ReadData
  BY <1>4 DEF Pause, Resume, ReturnToWrite, Callback, AfterWriteFailed, AfterWriteError,
     AfterWriteDrains, AfterReadData, IoWritable, NextIteration, ReadData
<1>5. CASE AfterWriteNoDrain \/ AfterWriteDrained
  <2>1. UNCHANGED <<peer, asked, shut>> /\ pc' = "callbacks"
    BY <1>5 DEF AfterWriteNoDrain, AfterWriteDrained, AfterWriteEnds
  <2>2. \/ closing /\ handle' = (IF handle = "open" THEN "closing" ELSE "aborted") /\ closing' = FALSE
        \/ UNCHANGED <<handle, closing>>
    BY <1>5 DEF AfterWriteNoDrain, AfterWriteDrained, AfterWriteEnds, ClosesNow, UvClose
  <2> QED BY <2>1, <2>2
<1>6. CASE Drain
  <2>1. CASE UNCHANGED <<shut, closing, handle>>
    BY <1>6, <2>1 DEF Drain
  <2>2. CASE wq = <<>> /\ handle = "open" /\ shut = "pending" /\ AfterShutdown
    <3>1. qsize = 0
      <4>1. accepted = sent /\ lost = 0
        BY <2>2 DEF OrderInv, Intact, QueueStart
      <4> QED BY <4>1 DEF IInv, Accounts, Conservation, TypeOK, UvTypeOK, EnvTypeOK
    <3>2. handle' = "closing" /\ closing' = closing /\ ~closing
      BY <2>2, <3>1 DEF AfterShutdown, UvClose
    <3>3. shut' = "done" /\ asked /\ UNCHANGED <<peer, asked>> /\ pc' = "loop"
      BY <1>6, <2>2 DEF Drain
    <3> QED BY <3>2, <3>3
  <2> QED BY <1>6, <2>1, <2>2 DEF Drain
<1>7. CASE FinishClose
  BY <1>7 DEF FinishClose
<1>8. CASE Destroyed
  BY <1>8 DEF Destroyed
<1>9. CASE OnClose
  BY <1>9 DEF OnClose, Returned
<1>10. CASE AfterReadEnd \/ AfterReadError \/ ReadEnd \/ ReadError
  BY <1>10 DEF AfterReadEnd, AfterReadError, ReadEnd, ReadError, Returned
<1>11. CASE \E to \in {"half", "gone"} : PeerMove(to)
  BY <1>11 DEF PeerMove
<1>12. CASE UNCHANGED vars
  BY <1>12
<1> QED BY <1>1, <1>2, <1>3, <1>4, <1>5, <1>6, <1>7, <1>8, <1>9, <1>10, <1>11, <1>12
        DEF Next, ScriptStep, Proceed

-----------------------------------------------------------------------------
(* Scripts that close from onRead and onEnd only: closing is left set on a *)
(* closed handle only while requests are called back of which the last has *)
(* failed, and a failed request makes after_write skip the close.          *)

\* If something has completed, something is still queued behind it.
Settled == done = <<>> \/ wq # <<>>

\* EOF has been reported, and the loop has not gone on to its next iteration.
AtEnd == pc = "loop" /\ ended /\ handle = "open"

ClosingSettled == (closing /\ ~AtEnd) => Settled

ClosingCallbacks ==
    (closing /\ pc \in CallbackPCs) =>
        /\ handle \in {"open", "closed"}
        /\ handle = "closed" =>
              /\ \A i \in 1 .. Len(pq) : pq[i].status = "ok" =>
                    \E j \in i + 1 .. Len(pq) : pq[j].status = "failed"
              /\ (pc = "after_write.onWrite" /\ cur.status = "ok") =>
                    \E i \in 1 .. Len(pq) : pq[i].status = "failed"
              /\ pc # "after_write.onDrain"

Reading ==
    /\ (pc \in {"after_read.onRead", "after_read.onEnd"} /\ ~asked) => handle = "open"
    /\ pc = "after_read.onEnd" => ended
    /\ pc = "after_read.onError" => handle = "open"

ClosedPlace ==
    /\ handle = "closed" => pc \in CallbackPCs \cup {"on_close.onClose"}
    /\ pc = "on_close.onClose" => handle = "closed"

TurnInv ==
    shut = "none" /\ ClosingSettled /\ ClosingCallbacks /\ Reading /\ ClosedPlace /\ NoDoubleClose

\* Whoever may call runs in one of the handlers, nested ones in onWrite or onError.
LEMMA RunningHandler ==
    ASSUME ControlTypeOK, pc # "callbacks"
    PROVE  /\ Running \in Handlers
           /\ Running \in {"onRead", "onEnd"} =>
                 nested = <<>> /\ pc \in {"after_read.onRead", "after_read.onEnd"}
<1>1. pc \in HandlerPCs
  BY DEF ControlTypeOK, PCs
<1>2. CASE nested = <<>>
  BY <1>1, <1>2 DEF Running, HandlerAt, HandlerPCs, Handlers
<1>3. CASE nested # <<>>
  <2>1. nested[Len(nested)] \in {"onWrite", "onError"}
    BY <1>3 DEF ControlTypeOK
  <2> QED BY <1>3, <2>1 DEF Running, Handlers
<1> QED BY <1>2, <1>3

LEMMA CloseWhere ==
    ASSUME CloseOnRead, ControlTypeOK, MayCall("close")
    PROVE  nested = <<>> /\ pc \in {"after_read.onRead", "after_read.onEnd"}
BY RunningHandler DEF CloseOnRead, MayCall

LEMMA NoShutdown == ASSUME CloseOnRead, ControlTypeOK PROVE ~MayCall("shutdown")
BY RunningHandler DEF CloseOnRead, MayCall

\* An open handle with nothing queued and nothing failed has write_queue_size 0.
LEMMA NothingLeft ==
    ASSUME IInv, HeadFailed, handle = "open", pq = <<>>, wq = <<>>
    PROVE  qsize = 0
<1>1. accepted = sent + lost
  BY DEF HeadFailed, QueueStart
<1> QED BY <1>1 DEF IInv, Accounts, Conservation, TypeOK, UvTypeOK, EnvTypeOK

LEMMA FinishCloseTurn ==
    ASSUME IInv, TurnInv, FinishClose
    PROVE  TurnInv'
<1>1. /\ handle = "closing" /\ handle' = "closed" /\ pq' = done \o Cancelled(wq)
      /\ wq' = <<>> /\ done' = <<>> /\ pc' = "callbacks" /\ UNCHANGED <<shut, closing, asked>>
  BY DEF FinishClose, ctxVars, envVars
<1>2. wq \in Seq(Request) /\ done \in Seq(Request)
  BY DEF IInv, TypeOK, UvTypeOK
<1> DEFINE c == Cancelled(wq)
<1>3. c \in Seq(Request) /\ Len(c) = Len(wq) /\ \A i \in 1 .. Len(c) : c[i].status = "failed"
  <2>1. \A q \in Request : /\ [q EXCEPT !.status = "failed"] \in Request
                            /\ [q EXCEPT !.status = "failed"].status = "failed"
    BY DEF Request
  <2>2. \A i \in 1 .. Len(wq) : wq[i] \in Request
    BY <1>2
  <2>3. c \in [1 .. Len(wq) -> Request]
    BY <2>1, <2>2 DEF Cancelled
  <2>4. c \in Seq(Request) /\ Len(c) = Len(wq)
    BY <1>2, <2>3
  <2>5. \A i \in 1 .. Len(wq) : c[i] = [wq[i] EXCEPT !.status = "failed"]
    BY DEF Cancelled
  <2> HIDE DEF c
  <2>6. \A i \in 1 .. Len(c) : c[i].status = "failed"
    <3>1. \A i \in 1 .. Len(wq) : c[i].status = "failed"
      BY <2>1, <2>2, <2>5
    <3> QED BY <2>4, <3>1
  <2> QED BY <2>4, <2>6
<1>4. pq' = done \o c
  BY <1>1
<1> HIDE DEF c
<1>5. ASSUME closing, NEW i \in 1 .. Len(pq'), pq'[i].status = "ok"
      PROVE  \E j \in i + 1 .. Len(pq') : pq'[j].status = "failed"
  <2>1. /\ Len(done \o c) = Len(done) + Len(c)
        /\ \A k \in 1 .. Len(done) + Len(c) :
              (done \o c)[k] = IF k <= Len(done) THEN done[k] ELSE c[k - Len(done)]
    BY <1>2, <1>3, ConcatProperties, Zenon
  <2>2. Len(done) \in Nat /\ Len(c) \in Nat /\ Len(pq') = Len(done) + Len(c) /\ i \in Nat
    BY <1>2, <1>3, <1>4, <2>1
  <2>3. i <= Len(done)
    <3>1. ASSUME ~(i <= Len(done)) PROVE FALSE
      <4>1. i - Len(done) \in 1 .. Len(c) /\ i \in 1 .. Len(done) + Len(c)
        BY <2>2, <3>1
      <4>2. pq'[i] = c[i - Len(done)]
        BY <1>4, <2>1, <3>1, <4>1
      <4> QED BY <1>3, <1>5, <4>1, <4>2
    <3> QED BY <3>1
  <2>4. wq # <<>>
    <3>1. Settled
      BY <1>1, <1>5 DEF TurnInv, ClosingSettled, AtEnd
    <3>2. done # <<>>
      BY <2>2, <2>3
    <3> QED BY <3>1, <3>2 DEF Settled
  <2>5. Len(c) > 0
    BY <1>2, <1>3, <2>4
  <2>6. Len(done) + 1 \in i + 1 .. Len(pq') /\ Len(done) + 1 \in 1 .. Len(done) + Len(c)
        /\ ~(Len(done) + 1 <= Len(done)) /\ (Len(done) + 1) - Len(done) = 1 /\ 1 \in 1 .. Len(c)
    BY <2>2, <2>3, <2>5
  <2>7. pq'[Len(done) + 1] = c[1]
    BY <1>4, <2>1, <2>6
  <2> QED BY <1>3, <2>6, <2>7
<1>6. ClosingCallbacks'
  BY <1>1, <1>5 DEF ClosingCallbacks
<1> QED BY <1>1, <1>6 DEF TurnInv, ClosingSettled, Settled, Reading, ClosedPlace, NoDoubleClose,
        CallbackPCs

LEMMA CallbackTurn ==
    ASSUME IInv, TurnInv, Callback
    PROVE  TurnInv'
<1>1. /\ pc = "callbacks" /\ pq # <<>> /\ cur' = Head(pq) /\ pq' = Tail(pq)
      /\ pc' = "after_write.onWrite" /\ UNCHANGED <<handle, shut, wq, done, closing, asked, ended>>
  BY DEF Callback, ctxVars
<1>2. pq \in Seq(Request)
  BY DEF IInv, TypeOK, ControlTypeOK
<1>3. /\ 1 \in 1 .. Len(pq) /\ Head(pq) = pq[1] /\ Len(pq') = Len(pq) - 1
      /\ Len(pq) \in Nat
      /\ \A i \in 1 .. Len(pq') : pq'[i] = pq[i + 1] /\ i + 1 \in 1 .. Len(pq)
  BY <1>1, <1>2
<1>4. \A i \in 2 .. Len(pq) : i - 1 \in 1 .. Len(pq') /\ pq'[i - 1] = pq[i]
  <2>1. ASSUME NEW i \in 2 .. Len(pq) PROVE i - 1 \in 1 .. Len(pq') /\ pq'[i - 1] = pq[i]
    <3>1. i - 1 \in 1 .. Len(pq') /\ (i - 1) + 1 = i
      BY <1>3
    <3> QED BY <1>3, <3>1
  <2> QED BY <2>1
<1>5. CASE closing /\ handle = "closed"
  <2>1. \A i \in 1 .. Len(pq) : pq[i].status = "ok" =>
           \E j \in i + 1 .. Len(pq) : pq[j].status = "failed"
    BY <1>1, <1>5 DEF TurnInv, ClosingCallbacks, CallbackPCs
  <2>2. ASSUME NEW i \in 1 .. Len(pq'), pq'[i].status = "ok"
        PROVE  \E j \in i + 1 .. Len(pq') : pq'[j].status = "failed"
    <3>1. PICK j \in (i + 1) + 1 .. Len(pq) : pq[j].status = "failed"
      BY <1>3, <2>1, <2>2
    <3>2. j \in 2 .. Len(pq) /\ j - 1 \in i + 1 .. Len(pq')
      BY <1>3, <3>1
    <3> QED BY <1>4, <3>1, <3>2
  <2>3. cur'.status = "ok" => \E i \in 1 .. Len(pq') : pq'[i].status = "failed"
    <3>1. ASSUME cur'.status = "ok" PROVE \E i \in 1 .. Len(pq') : pq'[i].status = "failed"
      <4>1. pq[1].status = "ok"
        BY <1>1, <1>3, <3>1
      <4>2. PICK j \in 1 + 1 .. Len(pq) : pq[j].status = "failed"
        BY <1>3, <2>1, <4>1
      <4>3. j \in 2 .. Len(pq)
        BY <1>3
      <4> QED BY <1>4, <4>2, <4>3
    <3> QED BY <3>1
  <2>4. ClosingCallbacks'
    BY <1>1, <1>5, <2>2, <2>3 DEF ClosingCallbacks
  <2> QED BY <1>1, <2>4 DEF TurnInv, ClosingSettled, AtEnd, Settled, Reading, ClosedPlace, CallbackPCs,
          NoDoubleClose
<1>6. CASE ~(closing /\ handle = "closed")
  <2>1. ClosingCallbacks'
    BY <1>1, <1>6 DEF TurnInv, ClosingCallbacks, CallbackPCs
  <2> QED BY <1>1, <2>1 DEF TurnInv, ClosingSettled, AtEnd, Settled, Reading, ClosedPlace, CallbackPCs,
          NoDoubleClose
<1> QED BY <1>5, <1>6

LEMMA AfterWriteTurn ==
    ASSUME IInv, TurnInv, AfterWriteNoDrain \/ AfterWriteDrained
    PROVE  TurnInv'
<1> DEFINE flushes == qsize = 0 \/ pc = "after_write.onDrain"
<1>1. /\ pc \in CallbackPCs /\ pc' = "callbacks" /\ UNCHANGED <<shut, wq, done, asked, ended, cur, pq>>
  BY DEF AfterWriteNoDrain, AfterWriteDrained, AfterWriteEnds, Returned, CallbackPCs, envVars
<1>2. \/ /\ closing /\ closing' = FALSE
         /\ handle' = IF handle = "open" THEN "closing" ELSE "aborted"
         /\ flushes /\ (pc = "after_write.onWrite" => cur.status = "ok")
      \/ UNCHANGED <<handle, closing>>
  BY DEF AfterWriteNoDrain, AfterWriteDrained, AfterWriteEnds, Returned, ClosesNow, UvClose
<1>3. CASE UNCHANGED <<handle, closing>>
  BY <1>1, <1>3 DEF TurnInv, ClosingSettled, AtEnd, Settled, ClosingCallbacks, Reading, ClosedPlace,
     CallbackPCs, NoDoubleClose
<1>4. CASE /\ closing /\ closing' = FALSE /\ handle' = IF handle = "open" THEN "closing" ELSE "aborted"
           /\ flushes /\ (pc = "after_write.onWrite" => cur.status = "ok")
  <2>1. handle # "closed"
    <3>1. ASSUME handle = "closed" PROVE FALSE
      <4>1. pc = "after_write.onWrite" \/ pc = "after_write.onDrain"
        BY DEF AfterWriteNoDrain, AfterWriteDrained, Returned
      <4>2. pc = "after_write.onWrite" /\ qsize = 0
        BY <1>1, <1>4, <3>1, <4>1 DEF TurnInv, ClosingCallbacks
      <4>3. \E i \in 1 .. Len(pq) : pq[i].status = "failed"
        BY <1>1, <1>4, <3>1, <4>2 DEF TurnInv, ClosingCallbacks
      <4> QED BY <4>2, <4>3, EmptyQueue
    <3> QED BY <3>1
  <2>2. handle' = "closing"
    BY <1>1, <1>4, <2>1 DEF TurnInv, ClosingCallbacks
  <2> QED BY <1>1, <1>4, <2>2 DEF TurnInv, ClosingSettled, ClosingCallbacks, Reading, ClosedPlace,
          CallbackPCs, NoDoubleClose
<1> QED BY <1>2, <1>3, <1>4

LEMMA CloseTurn ==
    ASSUME CloseOnRead, IInv, HeadFailed, TurnInv, Close
    PROVE  TurnInv'
<1>1. nested = <<>> /\ pc \in {"after_read.onRead", "after_read.onEnd"}
  BY CloseWhere DEF Close, IInv, TypeOK
<1>2. ~asked /\ asked' /\ UNCHANGED <<shut, wq, done, ended, pc, cur, pq>>
  BY DEF Close, control
<1>3. handle = "open"
  BY <1>1, <1>2 DEF TurnInv, Reading
<1>4. CASE NothingQueued
  <2>1. handle' = "closing" /\ closing' = closing
    BY <1>3, <1>4 DEF Close, ClosingAfterClose, UvClose, IInv, TypeOK, CtxTypeOK
  <2> QED BY <1>1, <1>2, <2>1 DEF TurnInv, ClosingSettled, AtEnd, Settled, ClosingCallbacks, CallbackPCs,
          Reading, ClosedPlace, NoDoubleClose
<1>5. CASE ~NothingQueued
  <2>1. handle' = "open"
    BY <1>3, <1>5 DEF Close
  <2>2. pq = <<>>
    BY <1>1 DEF IInv, PqPlace, CallbackPCs
  <2>3. wq # <<>>
    BY <1>3, <1>5, <2>2, NothingLeft DEF NothingQueued
  <2>4. Settled'
    BY <1>2, <2>3 DEF Settled
  <2> QED BY <1>1, <1>2, <1>3, <2>1, <2>4 DEF TurnInv, ClosingSettled, ClosingCallbacks, CallbackPCs,
          Reading, ClosedPlace, NoDoubleClose
<1> QED BY <1>4, <1>5

LEMMA StepTurn ==
    ASSUME CloseOnRead
    PROVE  IInv /\ HeadFailed /\ TurnInv /\ [Next]_vars => TurnInv'
<1> SUFFICES ASSUME IInv, HeadFailed, TurnInv, [Next]_vars PROVE TurnInv'
  OBVIOUS
<1> USE DEF uvVars, ctxVars, envVars, control, vars
<1>1. ASSUME NEW len \in Lens, Write(len) PROVE TurnInv'
  BY <1>1, WriteLeaves DEF TurnInv, ClosingSettled, ClosingCallbacks, Reading, ClosedPlace, NoDoubleClose
<1>2. CASE Close
  BY <1>2, CloseTurn
<1>3. CASE Shutdown
  BY <1>3, NoShutdown DEF Shutdown, IInv, TypeOK
<1>4. CASE Pause \/ Resume \/ ReturnToWrite
  <2>1. UNCHANGED <<handle, shut, wq, done, closing, ended, asked, pc, cur, pq>>
    BY <1>4 DEF Pause, Resume, ReturnToWrite
  <2> QED BY <2>1 DEF TurnInv, ClosingSettled, AtEnd, Settled, ClosingCallbacks, Reading, ClosedPlace,
          NoDoubleClose
<1>5. CASE IoWritable
  <2>1. /\ handle = "open" /\ pc' = "callbacks" /\ done' = <<>>
        /\ UNCHANGED <<handle, shut, closing, asked>>
    BY <1>5 DEF IoWritable, Armed
  <2> QED BY <2>1 DEF TurnInv, ClosingSettled, Settled, ClosingCallbacks, Reading, ClosedPlace,
          CallbackPCs, NoDoubleClose
<1>6. CASE Callback
  BY <1>6, CallbackTurn
<1>7. CASE AfterWriteFailed \/ AfterWriteError
  <2>1. /\ pc \in CallbackPCs /\ pc' \in {"after_write.onError", "callbacks"}
        /\ UNCHANGED <<handle, shut, wq, done, closing, ended, asked, cur, pq>>
    BY <1>7 DEF AfterWriteFailed, AfterWriteError, Returned, CallbackPCs
  <2> QED BY <2>1 DEF TurnInv, ClosingSettled, AtEnd, Settled, ClosingCallbacks, Reading, ClosedPlace,
          CallbackPCs, NoDoubleClose
<1>8. CASE AfterWriteDrains
  <2>1. /\ pc = "after_write.onWrite" /\ cur.status = "ok" /\ qsize = 0
        /\ pc' = "after_write.onDrain"
        /\ UNCHANGED <<handle, shut, wq, done, closing, ended, asked, cur, pq>>
    BY <1>8 DEF AfterWriteDrains, Returned
  <2>2. ~\E i \in 1 .. Len(pq) : pq[i].status = "failed"
    BY <2>1, EmptyQueue
  <2>3. ~(closing /\ handle = "closed")
    BY <2>1, <2>2 DEF TurnInv, ClosingCallbacks, CallbackPCs
  <2> QED BY <2>1, <2>3 DEF TurnInv, ClosingSettled, AtEnd, Settled, ClosingCallbacks, Reading,
          ClosedPlace, CallbackPCs, NoDoubleClose
<1>9. CASE AfterWriteNoDrain \/ AfterWriteDrained
  BY <1>9, AfterWriteTurn
<1>10. CASE Drain
  <2>1. /\ pc = "callbacks" /\ handle # "closed" /\ pc' = "loop"
        /\ UNCHANGED <<handle, shut, wq, done, closing, ended, asked, cur, pq>>
    BY <1>10 DEF Drain, TurnInv
  <2> QED BY <2>1 DEF TurnInv, ClosingSettled, AtEnd, Settled, ClosingCallbacks, Reading, ClosedPlace,
          CallbackPCs, NoDoubleClose
<1>11. CASE Destroyed
  <2>1. /\ pc = "callbacks" /\ handle = "closed" /\ pc' = "on_close.onClose"
        /\ UNCHANGED <<handle, shut, wq, done, closing, ended, asked, cur, pq>>
    BY <1>11 DEF Destroyed, TurnInv
  <2> QED BY <2>1 DEF TurnInv, ClosingSettled, AtEnd, Settled, ClosingCallbacks, Reading, ClosedPlace,
          CallbackPCs, NoDoubleClose
<1>12. CASE FinishClose
  BY <1>12, FinishCloseTurn
<1>13. CASE OnClose
  <2>1. /\ pc = "on_close.onClose" /\ handle' = "freed" /\ pc' = "loop"
        /\ UNCHANGED <<shut, wq, done, closing, ended, asked, cur, pq>>
    BY <1>13 DEF OnClose, Returned
  <2> QED BY <2>1 DEF TurnInv, ClosingSettled, AtEnd, Settled, ClosingCallbacks, Reading, ClosedPlace,
          CallbackPCs, NoDoubleClose
<1>14. CASE NextIteration
  <2>1. done = <<>> /\ UNCHANGED <<handle, shut, wq, done, closing, asked, pc, cur, pq>> /\ pc = "loop"
    BY <1>14 DEF NextIteration, Returned
  <2> QED BY <2>1 DEF TurnInv, ClosingSettled, Settled, ClosingCallbacks, Reading, ClosedPlace,
          CallbackPCs, NoDoubleClose
<1>15. CASE ReadData \/ ReadEnd \/ ReadError
  <2>1. /\ handle = "open" /\ ~ended /\ pc = "loop"
        /\ pc' \in {"after_read.onRead", "after_read.onEnd", "after_read.onError"}
        /\ pc' = "after_read.onEnd" => ended'
        /\ UNCHANGED <<handle, shut, wq, done, closing, asked, cur, pq>>
    BY <1>15 DEF ReadData, ReadEnd, ReadError, Readable, Returned
  <2> QED BY <2>1 DEF TurnInv, ClosingSettled, AtEnd, Settled, ClosingCallbacks, Reading, ClosedPlace,
          CallbackPCs, NoDoubleClose
<1>16. CASE AfterReadData
  <2>1. pc = "after_read.onRead" /\ pc' = "loop" /\ UNCHANGED <<handle, shut, wq, done, closing, asked, cur, pq, ended>>
    BY <1>16 DEF AfterReadData, Returned
  <2> QED BY <2>1 DEF TurnInv, ClosingSettled, AtEnd, Settled, ClosingCallbacks, Reading, ClosedPlace,
          CallbackPCs, NoDoubleClose
<1>17. CASE AfterReadEnd
  <2>1. /\ pc = "after_read.onEnd" /\ pc' = "loop" /\ closing' = ClosingAfterEnd
        /\ UNCHANGED <<handle, shut, wq, done, asked, cur, pq, ended>>
    BY <1>17 DEF AfterReadEnd, Returned
  <2>2. ClosingSettled'
    BY <2>1 DEF TurnInv, Reading, ClosingSettled, AtEnd, Settled, ClosingAfterEnd
  <2> QED BY <2>1, <2>2 DEF TurnInv, ClosingCallbacks, Reading, ClosedPlace, CallbackPCs, NoDoubleClose
<1>18. CASE AfterReadError
  <2>1. /\ pc = "after_read.onError" /\ pc' = "loop" /\ handle' = "closing"
        /\ UNCHANGED <<shut, wq, done, closing, asked, cur, pq, ended>>
    BY <1>18 DEF AfterReadError, Returned, UvClose, TurnInv, Reading
  <2> QED BY <2>1 DEF TurnInv, ClosingSettled, AtEnd, Settled, ClosingCallbacks, Reading, ClosedPlace,
          CallbackPCs, NoDoubleClose
<1>19. CASE UNCHANGED vars \/ \E to \in {"half", "gone"} : PeerMove(to)
  <2>1. UNCHANGED <<handle, shut, wq, done, closing, asked, pc, cur, pq, ended>>
    BY <1>19 DEF PeerMove
  <2> QED BY <2>1 DEF TurnInv, ClosingSettled, AtEnd, Settled, ClosingCallbacks, Reading, ClosedPlace,
          NoDoubleClose
<1> QED BY <1>1, <1>2, <1>3, <1>4, <1>5, <1>6, <1>7, <1>8, <1>9, <1>10, <1>11, <1>12, <1>13, <1>14,
        <1>15, <1>16, <1>17, <1>18, <1>19 DEF Next, ScriptStep, Proceed

\* For every script while the peer neither leaves nor closes its side, and
\* whatever the peer does for every script that calls close(0) from onRead and
\* onEnd only and never shuts down, uv_close is never called on a handle that is
\* closing: the deferred close of close(0), the one EOF leaves to after_write and
\* the one of after_shutdown exclude each other, and requests cancelled by a close
\* find no close left to make.
THEOREM ClosedOnce == ASSUME ClosesInTurn PROVE Spec => []NoDoubleClose
<1>1. Init => IInv /\ OrderInv /\ HeadFailed
  BY InitIInv, InitOrder, InitHead
<1>2. IInv /\ OrderInv /\ HeadFailed /\ [Next]_vars => (IInv /\ OrderInv /\ HeadFailed)'
  BY StepIInv, StepOrder, StepHead
<1>3. ASSUME PeerMoves = {} PROVE Spec => []NoDoubleClose
  <2>1. Init => StayInv
    BY DEF Init, StayInv, NoDoubleClose
  <2>2. IInv /\ OrderInv /\ StayInv /\ [Next]_vars => StayInv'
    BY <1>3, StepStay
  <2>3. StayInv => NoDoubleClose
    BY DEF StayInv
  <2> QED BY <1>1, <1>2, <2>1, <2>2, <2>3, PTL DEF Spec
<1>4. ASSUME CloseOnRead PROVE Spec => []NoDoubleClose
  <2>1. Init => TurnInv
    BY DEF Init, TurnInv, ClosingSettled, ClosingCallbacks, Reading, ClosedPlace, NoDoubleClose
  <2>2. IInv /\ HeadFailed /\ TurnInv /\ [Next]_vars => TurnInv'
    BY <1>4, StepTurn
  <2>3. TurnInv => NoDoubleClose
    BY DEF TurnInv
  <2> QED BY <1>1, <1>2, <2>1, <2>2, <2>3, PTL DEF Spec
<1> QED BY <1>3, <1>4 DEF ClosesInTurn

-----------------------------------------------------------------------------
(* The copies made for queued writes: while the peer is not gone and no     *)
(* onDrain handler writes, each is owned by the one request it was made for. *)

PeerStays == "gone" \notin PeerMoves

\* The requests that own a copy: those in a queue and the one whose onWrite or
\* onDrain is running.
InCallback == IF pc \in {"after_write.onWrite", "after_write.onDrain"} THEN 1 ELSE 0
Held == Len(wq) + Len(done) + Len(pq) + InCallback

\* A handle is closed with its queue flushed, so that no write queued on a
\* closing handle loses its copy.
FlushedFirst == handle # "open" => qsize = 0

ClosedEmpty ==
    /\ handle \in {"closed", "freed"} => wq = <<>> /\ done = <<>>
    /\ pc = "on_close.onClose" => handle \in {"closed", "aborted"}
    /\ handle = "freed" => pc = "loop"

FreeInv == peer # "gone" /\ FlushedFirst /\ stats.alloc = stats.free + Held /\ ClosedEmpty

\* The sizes that FreeInv adds up.
LEMMA Sizes ==
    ASSUME IInv
    PROVE  /\ Len(wq) \in Nat /\ Len(done) \in Nat /\ Len(pq) \in Nat /\ InCallback \in Nat
           /\ stats.alloc \in Nat /\ stats.free \in Nat /\ qsize \in Nat
           /\ stats \in [written : Nat, alloc : Nat, free : Nat]
BY DEF IInv, TypeOK, UvTypeOK, CtxTypeOK, ControlTypeOK, InCallback

\* uv_write makes one request.
LEMMA UvWriteOne ==
    ASSUME NEW from, NEW to, NEW base, UvWrite(from, to, base), IInv, IInv'
    PROVE  Len(wq') + Len(done') = Len(wq) + Len(done) + 1
<1>1. wq \in Seq(Request) /\ done \in Seq(Request)
  BY DEF IInv, TypeOK, UvTypeOK
<1>2. (\E r : wq' = Append(wq, r) /\ done' = done) \/ (\E r : done' = Append(done, r) /\ wq' = wq)
  BY DEF UvWrite
<1>3. ASSUME NEW r, wq' = Append(wq, r) PROVE Len(wq') = Len(wq) + 1
  BY <1>1, <1>3
<1>4. ASSUME NEW r, done' = Append(done, r) PROVE Len(done') = Len(done) + 1
  BY <1>1, <1>4
<1>5. Len(wq) \in Nat /\ Len(done) \in Nat
  BY <1>1
<1>6. CASE \E r : wq' = Append(wq, r) /\ done' = done
  <2>1. Len(wq') = Len(wq) + 1 /\ Len(done') = Len(done)
    BY <1>3, <1>6
  <2> QED BY <1>5, <2>1
<1>7. CASE \E r : done' = Append(done, r) /\ wq' = wq
  <2>1. Len(done') = Len(done) + 1 /\ Len(wq') = Len(wq)
    BY <1>4, <1>7
  <2> QED BY <1>5, <2>1
<1> QED BY <1>2, <1>6, <1>7

LEMMA WriteFree ==
    ASSUME IInv, IInv', FreeInv, NEW len \in Nat, Write(len)
    PROVE  FreeInv'
<1> USE DEF uvVars, ctxVars, envVars, control
<1>1. UNCHANGED <<handle, peer, pc, pq>> /\ InCallback' = InCallback
  BY WriteLeaves DEF InCallback
<1>2. ASSUME Len(wq') + Len(done') = Len(wq) + Len(done) + 1, handle = "open",
             stats'.alloc = stats.alloc + 1, stats'.free = stats.free
      PROVE  FreeInv'
  <2>1. PICK a \in Nat, b \in Nat, c \in Nat, d \in Nat :
          a = Len(wq) /\ b = Len(done) /\ c = Len(pq) /\ d = InCallback
    BY Sizes
  <2>2. PICK f \in Nat, g \in Nat : f = Len(wq') /\ g = Len(done')
    BY DEF IInv, TypeOK, UvTypeOK
  <2>3. Held = a + b + c + d /\ Held' = f + g + c + d /\ f + g = a + b + 1
    BY <1>1, <1>2, <2>1, <2>2 DEF Held
  <2>4. PICK x \in Nat, y \in Nat : x = stats.alloc /\ y = stats.free
    BY Sizes
  <2>5. x = y + (a + b + c + d)
    BY <2>3, <2>4 DEF FreeInv
  <2>6. x + 1 = y + (f + g + c + d)
    BY <2>3, <2>5
  <2>7. stats'.alloc = stats'.free + Held'
    BY <1>2, <2>3, <2>4, <2>6
  <2> QED BY <1>1, <1>2, <2>7 DEF FreeInv, FlushedFirst, ClosedEmpty
<1>3. CASE WriteFails
  BY <1>1, <1>3 DEF WriteFails, FreeInv, FlushedFirst, ClosedEmpty, Held
<1>4. CASE WriteFull(len)
  <2>1. UNCHANGED <<wq, done, qsize>> /\ stats' = [stats EXCEPT !.written = @ + len]
    BY <1>4 DEF WriteFull
  <2>2. stats'.alloc = stats.alloc /\ stats'.free = stats.free
    BY <2>1, Sizes
  <2>3. Held' = Held
    BY <1>1, <2>1 DEF Held
  <2> QED BY <1>1, <2>1, <2>2, <2>3 DEF FreeInv, FlushedFirst, ClosedEmpty
<1>5. CASE WriteIncomplete(len)
  <2>1. PICK n \in 1 .. len - 1 :
          /\ UvWrite(RemainderStart(accepted, n), accepted + len, sent + n)
          /\ stats' = [stats EXCEPT !.written = @ + n, !.alloc = @ + 1]
    BY <1>5 DEF WriteIncomplete
  <2>2. stats'.alloc = stats.alloc + 1 /\ stats'.free = stats.free
    BY <2>1, Sizes
  <2>3. handle = "open"
    BY <1>5 DEF WriteIncomplete
  <2>4. Len(wq') + Len(done') = Len(wq) + Len(done) + 1
    BY <2>1, UvWriteOne
  <2> QED BY <1>2, <2>2, <2>3, <2>4
<1>6. CASE WriteEagain(len)
  <2>1. stats' = [stats EXCEPT !.alloc = @ + 1]
    BY <1>6 DEF WriteEagain
  <2>2. stats'.alloc = stats.alloc + 1 /\ stats'.free = stats.free
    BY <2>1, Sizes
  <2>3. handle = "open"
    BY <1>6 DEF WriteEagain, FreeInv, FlushedFirst
  <2>4. UvWrite(accepted, accepted + len, sent)
    BY <1>6, <2>3 DEF WriteEagain
  <2>5. Len(wq') + Len(done') = Len(wq) + Len(done) + 1
    BY <2>4, UvWriteOne
  <2> QED BY <1>2, <2>2, <2>3, <2>5
<1> QED BY <1>3, <1>4, <1>5, <1>6 DEF Write

LEMMA IoWritableFree ==
    ASSUME IInv, IInv', FreeInv, IoWritable
    PROVE  FreeInv'
<1>1. /\ handle = "open" /\ pc = "loop" /\ pq = <<>> /\ UvWriteHead /\ done' = <<>> /\ pc' = "callbacks"
      /\ UNCHANGED <<handle, stats, peer>>
  BY DEF IoWritable, Armed, Returned, IInv, PqPlace, CallbackPCs, ctxVars
<1>2. wq \in Seq(Request) /\ done \in Seq(Request)
  BY DEF IInv, TypeOK, UvTypeOK
<1>3. Len(wq') + Len(pq') = Len(wq) + Len(done)
  <2>0. Len(wq) \in Nat /\ Len(done) \in Nat
    BY <1>2
  <2>1. CASE wq' = wq /\ pq' = done
    BY <2>0, <2>1
  <2>2. ASSUME wq # <<>>, wq' = Tail(wq), NEW r, pq' = Append(done, r)
        PROVE  Len(wq') + Len(pq') = Len(wq) + Len(done)
    <3>1. Len(wq') = Len(wq) - 1 /\ Len(pq') = Len(done) + 1
      BY <1>2, <2>2
    <3> QED BY <2>0, <3>1
  <2>3. ASSUME wq # <<>>, NEW n, wq' = [wq EXCEPT ![1].from = @ + n], pq' = done
        PROVE  Len(wq') + Len(pq') = Len(wq) + Len(done)
    <3>1. Len(wq') = Len(wq)
      BY <1>2, <2>3
    <3> QED BY <2>0, <2>3, <3>1
  <2> QED BY <1>1, <2>1, <2>2, <2>3 DEF UvWriteHead
<1>4. Held' = Held
  <2>1. InCallback = 0 /\ InCallback' = 0
    BY <1>1 DEF InCallback
  <2>2. Len(done') = 0 /\ Len(pq) = 0
    BY <1>1
  <2>3. Len(wq') \in Nat /\ Len(pq') \in Nat
    BY DEF IInv, TypeOK, UvTypeOK, ControlTypeOK
  <2> QED BY <1>3, <2>1, <2>2, <2>3, Sizes DEF Held
<1> QED BY <1>1, <1>4 DEF FreeInv, FlushedFirst, ClosedEmpty

LEMMA FinishCloseFree ==
    ASSUME IInv, IInv', FreeInv, FinishClose
    PROVE  FreeInv'
<1>1. /\ handle = "closing" /\ handle' = "closed" /\ pq' = done \o Cancelled(wq) /\ wq' = <<>>
      /\ done' = <<>> /\ pc' = "callbacks" /\ UNCHANGED <<qsize, stats, peer>>
      /\ pc = "loop" /\ pq = <<>>
  BY DEF FinishClose, ctxVars, envVars, Returned, IInv, PqPlace, CallbackPCs
<1>2. wq = <<>>
  BY <1>1, EmptyQueue DEF FreeInv, FlushedFirst
<1>3. pq' = done
  <2>1. done \in Seq(Request)
    BY DEF IInv, TypeOK, UvTypeOK
  <2>2. Cancelled(wq) = <<>>
    BY <1>2 DEF Cancelled
  <2> QED BY <1>1, <2>1, <2>2
<1>4. Held' = Held
  <2>1. InCallback = 0 /\ InCallback' = 0
    BY <1>1 DEF InCallback
  <2>2. Len(wq) = 0 /\ Len(wq') = 0 /\ Len(done') = 0 /\ Len(pq) = 0 /\ Len(pq') = Len(done)
    BY <1>1, <1>2, <1>3
  <2> QED BY <2>1, <2>2, Sizes DEF Held
<1> QED BY <1>1, <1>4 DEF FreeInv, FlushedFirst, ClosedEmpty

\* Calling a request back takes it out of the queue; freeing its copy ends that.
LEMMA CallbackFree ==
    ASSUME IInv, IInv', FreeInv, Callback
    PROVE  FreeInv'
<1>1. /\ pc = "callbacks" /\ pq # <<>> /\ pq' = Tail(pq) /\ pc' = "after_write.onWrite"
      /\ UNCHANGED <<handle, wq, done, stats, peer>>
  BY DEF Callback, ctxVars
<1>2. Len(pq') = Len(pq) - 1
  BY <1>1 DEF IInv, TypeOK, ControlTypeOK
<1>3. InCallback = 0 /\ InCallback' = 1
  BY <1>1 DEF InCallback
<1>4. Held' = Held
  BY <1>1, <1>2, <1>3, Sizes DEF Held
<1>5. qsize = 0 => qsize' = 0
  <2>1. ASSUME qsize = 0 PROVE qsize' = 0
    <3>1. 1 \in 1 .. Len(pq) /\ Head(pq) = pq[1] /\ pq[1] \in Request
      BY <1>1 DEF IInv, TypeOK, ControlTypeOK
    <3>2. pq[1].status = "ok"
      BY <2>1, <3>1, EmptyQueue
    <3>3. pq[1].from = pq[1].to
      BY <3>1, <3>2 DEF IInv, Accounts, PqOK
    <3>4. pq[1].from \in Nat
      BY <3>1, RequestType
    <3>5. qsize' = qsize - (pq[1].to - pq[1].from)
      BY <3>1 DEF Callback, Uncounted, Rest
    <3> QED BY <2>1, <3>3, <3>4, <3>5
  <2> QED BY <2>1
<1> QED BY <1>1, <1>4, <1>5 DEF FreeInv, FlushedFirst, ClosedEmpty

LEMMA AfterWriteFree ==
    ASSUME IInv, IInv', DrainInv, FreeInv, AfterWriteFailed \/ AfterWriteNoDrain \/ AfterWriteDrained
    PROVE  FreeInv'
<1>1. /\ pc \in {"after_write.onWrite", "after_write.onDrain"}
      /\ pc' \in {"callbacks", "after_write.onError"}
      /\ UNCHANGED <<qsize, wq, done, pq, peer>>
  BY DEF AfterWriteFailed, AfterWriteNoDrain, AfterWriteDrained, AfterWriteEnds, Returned, uvVars, envVars
<1>2. \/ stats' = [stats EXCEPT !.free = @ + 1]
      \/ stats' = [stats EXCEPT !.written = @ + cur.len, !.free = @ + 1]
  BY DEF AfterWriteFailed, AfterWriteNoDrain, AfterWriteDrained, AfterWriteEnds, StatsAfterWrite
<1>3. stats'.alloc = stats.alloc /\ stats'.free = stats.free + 1
  BY <1>2, Sizes
<1>4. InCallback = 1 /\ InCallback' = 0
  BY <1>1 DEF InCallback
<1>5. Held = Held' + 1 /\ Held' \in Nat
  BY <1>1, <1>4, Sizes DEF Held
<1>6. stats'.alloc = stats'.free + Held'
  BY <1>3, <1>5, Sizes DEF FreeInv
<1>7. \/ handle' = handle
      \/ qsize = 0 /\ handle' = IF handle = "open" THEN "closing" ELSE "aborted"
  BY DEF AfterWriteFailed, AfterWriteNoDrain, AfterWriteDrained, AfterWriteEnds, ClosesNow, UvClose,
     uvVars, Returned, DrainInv, DrainHeld
<1> QED BY <1>1, <1>6, <1>7 DEF FreeInv, FlushedFirst, ClosedEmpty

LEMMA StepFree ==
    ASSUME PeerStays, NoWriteOnDrain
    PROVE  IInv /\ OrderInv /\ DrainInv /\ FreeInv /\ [Next]_vars => FreeInv'
<1> SUFFICES ASSUME IInv, OrderInv, DrainInv, FreeInv, [Next]_vars PROVE FreeInv'
  OBVIOUS
<1> USE DEF uvVars, ctxVars, envVars, control, vars
<1>0. IInv'
  BY StepIInv
<1>1. ASSUME NEW len \in Lens, Write(len) PROVE FreeInv'
  <2>1. len \in Nat
    BY BoundsAssumption
  <2> QED BY <1>0, <1>1, <2>1, WriteFree
<1>2. CASE IoWritable
  BY <1>0, <1>2, IoWritableFree
<1>3. CASE FinishClose
  BY <1>0, <1>3, FinishCloseFree
<1>4. CASE Callback
  BY <1>0, <1>4, CallbackFree
<1>5. CASE AfterWriteFailed \/ AfterWriteNoDrain \/ AfterWriteDrained
  BY <1>0, <1>5, AfterWriteFree
<1>6. ASSUME UNCHANGED <<qsize, wq, done, pq, stats>>, peer' # "gone", InCallback' = InCallback,
             \/ handle' = handle
             \/ qsize = 0 /\ handle' = IF handle = "open" THEN "closing" ELSE "aborted",
             pc' = "on_close.onClose" => pc = "on_close.onClose" \/ handle = "closed",
             pc' = pc \/ handle # "freed"
      PROVE  FreeInv'
  <2>1. Held' = Held
    BY <1>6 DEF Held
  <2> QED BY <1>6, <2>1 DEF FreeInv, FlushedFirst, ClosedEmpty
<1>7. CASE Close \/ Shutdown \/ Pause \/ Resume \/ ReturnToWrite
  <2>1. /\ UNCHANGED <<qsize, wq, done, pq, stats, peer, pc>>
        /\ \/ handle' = handle
           \/ qsize = 0 /\ handle' = IF handle = "open" THEN "closing" ELSE "aborted"
    BY <1>7 DEF Close, Shutdown, Pause, Resume, ReturnToWrite, UvClose, NothingQueued
  <2> QED BY <1>6, <2>1 DEF FreeInv, InCallback
<1>8. CASE Drain \/ Destroyed
  <2>1. /\ UNCHANGED <<qsize, wq, done, pq, stats, peer>> /\ pc = "callbacks" /\ Alive
        /\ pc' \in {"loop", "on_close.onClose"} /\ (pc' = "on_close.onClose" => handle = "closed")
    BY <1>8 DEF Drain, Destroyed
  <2>2. \/ handle' = handle
        \/ qsize = 0 /\ handle' = IF handle = "open" THEN "closing" ELSE "aborted"
    BY <1>8, Sizes DEF Drain, Destroyed, AfterShutdown, UvClose
  <2> QED BY <1>6, <2>1, <2>2 DEF FreeInv, InCallback, Alive
<1>9. CASE OnClose
  <2>1. /\ UNCHANGED <<qsize, wq, done, pq, stats, peer>> /\ pc = "on_close.onClose" /\ pc' = "loop"
        /\ handle = "closed" /\ handle' = "freed"
    BY <1>9 DEF OnClose, Returned, Alive, FreeInv, ClosedEmpty
  <2>2. Held' = Held
    BY <2>1 DEF Held, InCallback
  <2> QED BY <2>1, <2>2 DEF FreeInv, FlushedFirst, ClosedEmpty
<1>10. CASE AfterWriteError \/ AfterWriteDrains \/ AfterReadData \/ AfterReadEnd \/ NextIteration
            \/ ReadData \/ ReadEnd
  <2>1. UNCHANGED <<qsize, wq, done, pq, stats, peer, handle>> /\ Alive
    BY <1>10 DEF AfterWriteError, AfterWriteDrains, AfterReadData, AfterReadEnd, NextIteration, ReadData,
       ReadEnd, Readable, Returned
  <2>2. pc' # "on_close.onClose" \/ pc' = pc
    BY <1>10 DEF AfterWriteError, AfterWriteDrains, AfterReadData, AfterReadEnd, NextIteration, ReadData,
       ReadEnd
  <2>3. InCallback' = InCallback
    BY <1>10 DEF AfterWriteError, AfterWriteDrains, AfterReadData, AfterReadEnd, NextIteration, ReadData,
       ReadEnd, Readable, Returned, InCallback
  <2> QED BY <1>6, <2>1, <2>2, <2>3 DEF FreeInv, Alive
<1>11. CASE AfterReadError \/ ReadError
  BY <1>11 DEF AfterReadError, ReadError, Returned, DrainInv, ErrorGone, FreeInv
<1>12. CASE \E to \in {"half", "gone"} : PeerMove(to)
  <2>1. UNCHANGED <<qsize, wq, done, pq, stats, handle, pc>> /\ peer' # "gone"
    BY <1>12 DEF PeerMove, PeerStays
  <2> QED BY <1>6, <2>1 DEF InCallback
<1>13. CASE UNCHANGED vars
  BY <1>6, <1>13 DEF FreeInv, InCallback
<1> QED BY <1>1, <1>2, <1>3, <1>4, <1>5, <1>7, <1>8, <1>9, <1>10, <1>11, <1>12, <1>13
        DEF Next, ScriptStep, Proceed

\* While the peer is never gone and no onDrain handler writes, every script has
\* each copy of a queued write freed by after_write, once: when on_close is done
\* as many have been freed as were made.
THEOREM CopiesReturned == ASSUME PeerStays, NoWriteOnDrain PROVE Spec => []CopiesFreed
<1>1. Init => FreeInv
  <2> SUFFICES ASSUME Init PROVE FreeInv
    OBVIOUS
  <2>1. Held = 0
    BY DEF Init, Held, InCallback
  <2> QED BY <2>1 DEF Init, FreeInv, FlushedFirst, ClosedEmpty
<1>2. IInv /\ OrderInv /\ DrainInv /\ FreeInv /\ [Next]_vars => FreeInv'
  BY StepFree
<1>3. IInv /\ FreeInv => CopiesFreed
  <2> SUFFICES ASSUME IInv, FreeInv, handle = "freed" PROVE stats.alloc = stats.free
    BY DEF CopiesFreed
  <2>1. pc = "loop" /\ wq = <<>> /\ done = <<>>
    BY DEF FreeInv, ClosedEmpty
  <2>2. pq = <<>> /\ InCallback = 0
    BY <2>1 DEF IInv, PqPlace, CallbackPCs, InCallback
  <2>3. Held = 0
    BY <2>1, <2>2 DEF Held
  <2> QED BY <2>3, Sizes DEF FreeInv
<1> QED BY <1>1, <1>2, <1>3, DrainInvariance, PTL DEF Spec
=============================================================================
