--------------------------- MODULE TtyReplProofs ---------------------------
(***************************************************************************)
(* What is queued on stdout stays bounded, and what was offered to it is   *)
(* written and freed once, for every length of answers, prompt and chunks  *)
(* and every MAX_BUFFER longer than the prompt.                            *)
(*                                                                         *)
(* The bound is not inductive: a chunk adds an answer and a prompt to the  *)
(* queue, so one must know that it was below MAX_BUFFER while stdin is     *)
(* read.  That rests on three facts: onRead pauses unless the queue is     *)
(* below it or its last write was taken in part, which an empty queue      *)
(* alone allows; only a drain event resumes, with an empty queue; and      *)
(* nothing but a write makes the queue longer.                             *)
(*                                                                         *)
(* The statistics agree at the end because the books balance at every step *)
(* until a write fails: each queued request owns one copy, the bytes       *)
(* offered are those written and those of the requests, and the queue size *)
(* is what the requests have left, so that it is zero for an empty queue   *)
(* alone.  The sums are taken over queues of any length.                   *)
(***************************************************************************)
EXTENDS TtyRepl, TLAPS

Requests == [len : Nat, rest : Nat, ok : BOOLEAN]

Ins == [state : {"open", "closing", "freed", "aborted"}, reading : BOOLEAN, paused : BOOLEAN,
        pauses : Nat, resumes : Nat, closes : Nat]
Outs == [state : {"open", "closing", "freed", "aborted"}, wq : Seq(Requests),
         done : Seq(Requests), pq : Seq(Requests), qsize : Int, blocked : BOOLEAN,
         closing : BOOLEAN, failed : BOOLEAN, offered : Nat, written : Nat,
         alloc : Nat, free : Nat, closes : Nat]

Typed == in \in Ins /\ out \in Outs

\* Before the first prompt nothing is read and nothing is queued.
Fresh ==
    ~started => /\ in.state = "open" /\ ~in.reading /\ out.qsize = 0
                /\ out.wq = <<>> /\ out.done = <<>> /\ out.pq = <<>>

ReadsBelow == in.reading => out.qsize < MaxBuffer

IInv == Typed /\ Fresh /\ ReadsBelow /\ QueueBounded

-----------------------------------------------------------------------------
(* The operators of TTY                                                    *)

LEMMA Fields ==
    ASSUME NEW o \in Outs
    PROVE  /\ o.wq \in Seq(Requests) /\ o.done \in Seq(Requests) /\ o.pq \in Seq(Requests)
           /\ o.qsize \in Int /\ o.offered \in Nat /\ o.written \in Nat /\ o.alloc \in Nat
           /\ o.free \in Nat /\ o.closes \in Nat /\ o.closing \in BOOLEAN /\ o.blocked \in BOOLEAN
BY DEF Outs

LEMMA Appended == ASSUME NEW o \in Outs, NEW n \in Nat, NEW k \in Nat
  PROVE /\ Append(o.wq, Request(n, k)) \in Seq(Requests)
        /\ Append(o.done, Request(n, k)) \in Seq(Requests)
        /\ Append(o.done, Failed(Request(n, k))) \in Seq(Requests)
        /\ o.qsize \in Int
<1>1. Request(n, k) \in Requests /\ Failed(Request(n, k)) \in Requests
  BY DEF Request, Failed, Requests
<1>2. o.wq \in Seq(Requests) /\ o.done \in Seq(Requests) /\ o.qsize \in Int
  BY DEF Outs
<1> QED BY <1>1, <1>2
\* uv_write adds at most what it is given, to what an empty queue may hold.
LEMMA UvWriteAdds ==
    ASSUME NEW o \in Outs, NEW n \in Nat, n > 0, NEW q \in UvWrite(o, n)
    PROVE  q \in Outs /\ (o.qsize = 0 => q.qsize <= n) /\ (o.qsize # 0 => q.qsize = o.qsize + n)
<1> DEFINE Longer(s, m) == q = [o EXCEPT !.wq = s, !.qsize = m]
           Sent(s) == q = [o EXCEPT !.done = s]
           Fails(s, m) == q = [o EXCEPT !.done = s, !.qsize = m, !.failed = TRUE]
<1>1. o.qsize \in Int /\ o.qsize + n \in Int
  BY DEF Outs
<1>2. CASE o.qsize # 0
  <2>1. PICK s \in Seq(Requests), m \in Int : Longer(s, m) /\ m = o.qsize + n
    <3>1. Append(o.wq, Request(n, n)) \in Seq(Requests)
      BY Appended
    <3> QED BY <1>1, <1>2, <3>1 DEF UvWrite
  <2>2. q \in Outs
    BY <2>1 DEF Outs
  <2>3. q.qsize = m
    BY <2>1 DEF Outs
  <2> QED BY <1>2, <2>1, <2>2, <2>3
<1>3. CASE o.qsize = 0
  <2>1. PICK s \in Seq(Requests), m \in Int :
           (Longer(s, m) /\ m <= n) \/ Sent(s) \/ (Fails(s, m) /\ m = n)
    <3>1. CASE \E k \in 1 .. n : q = [o EXCEPT !.wq = Append(@, Request(n, k)), !.qsize = k]
      <4>1. PICK k \in 1 .. n : q = [o EXCEPT !.wq = Append(@, Request(n, k)), !.qsize = k]
        BY <3>1
      <4>2. Append(o.wq, Request(n, k)) \in Seq(Requests) /\ k \in Int /\ k <= n
        BY Appended
      <4> QED BY <4>1, <4>2
    <3>2. CASE q = [o EXCEPT !.done = Append(@, Request(n, 0))]
      BY <3>2, Appended
    <3>3. CASE q = [o EXCEPT !.done = Append(@, Failed(Request(n, n))), !.qsize = n,
                             !.failed = TRUE]
      <4>1. Append(o.done, Failed(Request(n, n))) \in Seq(Requests) /\ n \in Int
        BY Appended
      <4> QED BY <3>3, <4>1
    <3> QED BY <1>3, <3>1, <3>2, <3>3 DEF UvWrite
  <2>2. CASE Longer(s, m) /\ m <= n
    <3>1. q \in Outs
      BY <2>2 DEF Outs
    <3>2. q.qsize = m
      BY <2>2 DEF Outs
    <3> QED BY <1>3, <2>2, <3>1, <3>2
  <2>3. CASE Sent(s)
    <3>1. q \in Outs
      BY <2>3 DEF Outs
    <3>2. q.qsize = o.qsize
      BY <2>3 DEF Outs
    <3> QED BY <1>3, <3>1, <3>2
  <2>4. CASE Fails(s, m) /\ m = n
    <3>1. q \in Outs
      BY <2>4 DEF Outs
    <3>2. q.qsize = m
      BY <2>4 DEF Outs
    <3> QED BY <1>3, <2>4, <3>1, <3>2
  <2> QED BY <2>1, <2>2, <2>3, <2>4
<1> QED BY <1>2, <1>3

\* write() queues at most what it is given, and takes a part of it, or fails,
\* only if nothing is queued.
LEMMA WriteAdds ==
    ASSUME NEW o \in Outs, NEW n \in Nat, n > 0, NEW w \in Write(o, n)
    PROVE  /\ w.out \in Outs /\ w.r \in Int
           /\ o.qsize = 0 => w.out.qsize <= n
           /\ w.out.qsize <= o.qsize + n \/ o.qsize = 0
           /\ w.r # 0 => o.qsize = 0
           /\ w.r < 0 => w.out.qsize = 0
<1>1. o.qsize \in Int /\ o.alloc + 1 \in Nat /\ o.offered + n \in Nat /\ o.written \in Nat
  BY Fields
<1>2. CASE w \in WriteFails(o)
  <2>1. o.qsize = 0 /\ w = [out |-> [o EXCEPT !.failed = TRUE], r |-> -1]
    BY <1>2 DEF WriteFails, Result
  <2>2. w.out \in Outs
    BY <2>1 DEF Outs
  <2>3. w.out.qsize = o.qsize
    BY <2>1 DEF Outs
  <2>4. w.r = -1
    BY <2>1
  <2> QED BY <2>1, <2>2, <2>3, <2>4
<1>3. CASE w \in WriteFull(o, n)
  <2>1. PICK x \in Nat, y \in Nat :
           o.qsize = 0 /\ w = [out |-> [o EXCEPT !.written = x, !.offered = y], r |-> n]
    <3>1. o.written + n \in Nat /\ o.offered + n \in Nat
      BY <1>1
    <3> QED BY <1>3, <3>1 DEF WriteFull, Result
  <2>2. w.out \in Outs
    BY <2>1 DEF Outs
  <2>3. w.out.qsize = o.qsize
    BY <2>1 DEF Outs
  <2>4. w.r = n
    BY <2>1
  <2> QED BY <2>1, <2>2, <2>3, <2>4
<1>4. CASE w \in WriteIncomplete(o, n)
  <2>1. o.qsize = 0
    BY <1>4 DEF WriteIncomplete
  <2>2. PICK k \in 1 .. n - 1 :
          \E q \in UvWrite([Queued(o) EXCEPT !.written = @ + k, !.offered = @ + n], n - k) :
             w = Result(q, k)
    BY <1>4 DEF WriteIncomplete
  <2> DEFINE p == [Queued(o) EXCEPT !.written = @ + k, !.offered = @ + n]
  <2>3. PICK x \in Nat, y \in Nat, z \in Nat :
          p = [o EXCEPT !.alloc = z, !.blocked = TRUE, !.written = x, !.offered = y]
    <3>1. o.written + k \in Nat
      BY <1>1
    <3>2. p = [o EXCEPT !.alloc = o.alloc + 1, !.blocked = TRUE, !.written = o.written + k,
                        !.offered = o.offered + n]
      BY DEF Queued, Outs
    <3> QED BY <1>1, <3>1, <3>2
  <2>4. p \in Outs
    BY <2>3 DEF Outs
  <2>5. p.qsize = o.qsize
    BY <2>3 DEF Outs
  <2>6. PICK q \in UvWrite(p, n - k) : w = Result(q, k)
    BY <2>2
  <2>7. n - k \in Nat /\ n - k > 0
    OBVIOUS
  <2> HIDE DEF p
  <2>8. q \in Outs /\ q.qsize <= n - k
    BY <2>1, <2>4, <2>5, <2>6, <2>7, UvWriteAdds
  <2>9. w.out = q /\ w.r = k
    BY <2>6 DEF Result
  <2>10. q.qsize \in Int
    BY <2>8, Fields
  <2> QED BY <2>1, <2>8, <2>9, <2>10
<1>5. CASE w \in WriteEagain(o, n)
  <2> DEFINE p == [Queued(o) EXCEPT !.offered = @ + n]
  <2>1. PICK q \in UvWrite(p, n) : w = Result(q, 0)
    BY <1>5 DEF WriteEagain
  <2>2. PICK y \in Nat, z \in Nat : p = [o EXCEPT !.alloc = z, !.blocked = TRUE, !.offered = y]
    <3>1. p = [o EXCEPT !.alloc = o.alloc + 1, !.blocked = TRUE, !.offered = o.offered + n]
      BY DEF Queued, Outs
    <3> QED BY <1>1, <3>1
  <2>3. p \in Outs
    BY <2>2 DEF Outs
  <2>4. p.qsize = o.qsize
    BY <2>2 DEF Outs
  <2> HIDE DEF p
  <2>5. q \in Outs /\ (p.qsize = 0 => q.qsize <= n) /\ (p.qsize # 0 => q.qsize = p.qsize + n)
    BY <2>1, <2>3, UvWriteAdds
  <2>6. w.out = q /\ w.r = 0
    BY <2>1 DEF Result
  <2>7. q.qsize \in Int
    BY <2>5, Fields
  <2> QED BY <1>1, <2>4, <2>5, <2>6, <2>7
<1> QED BY <1>2, <1>3, <1>4, <1>5 DEF Write

LEMMA CloseKeeps ==
    ASSUME NEW o \in Outs, NEW b \in BOOLEAN
    PROVE  Close(o, b) \in Outs /\ Close(o, b).qsize = o.qsize
<1>1. Close(o, b) \in Outs
  BY DEF Close, UvClose, Outs
<1>2. Close(o, b).qsize = o.qsize
  BY DEF Close, UvClose, Outs
<1> QED BY <1>1, <1>2

LEMMA InTypes ==
    ASSUME NEW i \in Ins
    PROVE  /\ Pause(i) \in Ins /\ ~Pause(i).reading /\ Resume(i) \in Ins
           /\ CloseIn(i) \in Ins /\ ~CloseIn(i).reading
<1>1. i.pauses + 1 \in Nat /\ i.resumes + 1 \in Nat /\ i.state \in {"open", "closing", "freed", "aborted"}
      /\ i.reading \in BOOLEAN /\ i.paused \in BOOLEAN
  BY DEF Ins
<1>2. Pause(i) \in Ins /\ ~Pause(i).reading
  <2>1. PICK x \in Nat : Pause(i) = [i EXCEPT !.pauses = x, !.reading = FALSE, !.paused = TRUE]
    BY <1>1 DEF Pause
  <2> QED BY <2>1 DEF Ins
<1>3. Resume(i) \in Ins
  <2>1. CASE i.paused
    <3>1. PICK x \in Nat, b \in BOOLEAN, s \in {"open", "closing", "freed", "aborted"} :
             Resume(i) = [i EXCEPT !.resumes = x, !.paused = FALSE, !.reading = b, !.state = s]
      BY <1>1, <2>1 DEF Resume
    <3> QED BY <3>1 DEF Ins
  <2>2. CASE ~i.paused
    BY <2>2 DEF Resume
  <2> QED BY <2>1, <2>2
<1>4. CloseIn(i) \in Ins /\ ~CloseIn(i).reading
  BY <1>1 DEF CloseIn, UvClose, Ins
<1> QED BY <1>2, <1>3, <1>4

\* The prompt after an answer: it adds at most its length, and stdin is read on
\* only with less than MAX_BUFFER queued.
LEMMA PromptsBounded ==
    ASSUME NEW o \in Outs, NEW len \in Nat, len > 0, in \in Ins, Prompts(o, len)
    PROVE  /\ in' \in Ins /\ out' \in Outs /\ (in'.reading => out'.qsize < MaxBuffer)
           /\ out'.qsize <= o.qsize + PromptLen \/ out'.qsize <= PromptLen
<1> USE SizesAssumption
<1>1. PICK w \in Write(o, PromptLen) :
        \/ w.r < 0 /\ out' = Close(w.out, w.out.qsize > 0) /\ in' = in
        \/ w.r >= 0 /\ out' = w.out
           /\ in' = IF TooMuch(w.out, w.r, len) THEN Pause(in) ELSE in
  BY DEF Prompts
<1>2. /\ w.out \in Outs /\ w.r \in Int
      /\ o.qsize = 0 => w.out.qsize <= PromptLen
      /\ w.out.qsize <= o.qsize + PromptLen \/ o.qsize = 0
      /\ w.r # 0 => o.qsize = 0
      /\ w.r < 0 => w.out.qsize = 0
  BY WriteAdds
<1>3. o.qsize \in Int /\ w.out.qsize \in Int
  BY <1>2 DEF Outs
<1>4. CASE w.r < 0 /\ out' = Close(w.out, w.out.qsize > 0) /\ in' = in
  <2>1. (w.out.qsize > 0) \in BOOLEAN
    OBVIOUS
  <2>2. out' \in Outs /\ out'.qsize = w.out.qsize
    BY <1>2, <1>4, <2>1, CloseKeeps
  <2> QED BY <1>2, <1>3, <1>4, <2>2
<1>5. CASE /\ w.r >= 0 /\ out' = w.out
           /\ in' = IF TooMuch(w.out, w.r, len) THEN Pause(in) ELSE in
  <2>1. in' \in Ins /\ (TooMuch(w.out, w.r, len) => ~in'.reading)
    BY <1>5, InTypes
  <2>2. ~TooMuch(w.out, w.r, len) => w.out.qsize < MaxBuffer
    BY <1>2, <1>3, <1>5 DEF TooMuch
  <2> QED BY <1>2, <1>3, <1>5, <2>1, <2>2
<1> QED BY <1>1, <1>4, <1>5

-----------------------------------------------------------------------------
LEMMA Start_ == IInv /\ Start => IInv'
<1> SUFFICES ASSUME IInv, Start PROVE IInv'
  OBVIOUS
<1> USE SizesAssumption
<1>1. in \in Ins /\ out \in Outs /\ ~in.reading /\ out.qsize = 0 /\ started'
  BY DEF IInv, Typed, Fresh, Start
<1>2. PICK w \in Write(out, PromptLen) :
        \/ w.r < 0 /\ out' = Close(w.out, w.out.qsize > 0) /\ in' = in
        \/ w.r >= 0 /\ out' = w.out /\ in' = Resume(in)
  BY DEF Start
<1>3. w.out \in Outs /\ w.out.qsize <= PromptLen
  BY <1>1, WriteAdds
<1>4. in' \in Ins /\ out' \in Outs /\ out'.qsize = w.out.qsize
  BY <1>1, <1>2, <1>3, CloseKeeps, InTypes, (w.out.qsize > 0) \in BOOLEAN
<1>5. out'.qsize \in Int /\ out'.qsize <= PromptLen
  BY <1>3, <1>4 DEF Outs
<1> QED BY <1>1, <1>4, <1>5 DEF IInv, Typed, Fresh, ReadsBelow, QueueBounded

LEMMA ReadChunk_ == ASSUME NEW len \in ChunkLens PROVE IInv /\ ReadChunk(len) => IInv'
<1> SUFFICES ASSUME IInv, ReadChunk(len) PROVE IInv'
  OBVIOUS
<1> USE SizesAssumption
<1>1. /\ in \in Ins /\ out \in Outs /\ out.qsize < MaxBuffer /\ started'
      /\ len \in Nat /\ len > 0 /\ out.qsize \in Int
  BY DEF IInv, Typed, Fresh, ReadsBelow, ReadChunk, Readable, Outs
<1>2. CASE Prompts(out, len)
  <2>1. /\ in' \in Ins /\ out' \in Outs /\ (in'.reading => out'.qsize < MaxBuffer)
        /\ out'.qsize <= out.qsize + PromptLen \/ out'.qsize <= PromptLen
    BY <1>1, <1>2, PromptsBounded
  <2>2. out'.qsize \in Int
    BY <2>1 DEF Outs
  <2> QED BY <1>1, <2>1, <2>2 DEF IInv, Typed, Fresh, ReadsBelow, QueueBounded
<1>3. ASSUME NEW n \in 1 .. MaxPayload, NEW w \in Write(out, n),
             \/ w.r < 0 /\ out' = Close(w.out, w.out.qsize > 0) /\ in' = in
             \/ w.r >= 0 /\ Prompts(w.out, len)
      PROVE  IInv'
  <2>1. n \in Nat /\ n > 0 /\ n <= MaxPayload
    OBVIOUS
  <2>2. /\ w.out \in Outs /\ w.r \in Int
        /\ out.qsize = 0 => w.out.qsize <= n
        /\ w.out.qsize <= out.qsize + n \/ out.qsize = 0
        /\ w.r < 0 => w.out.qsize = 0
    BY <1>1, <2>1, WriteAdds
  <2>3. w.out.qsize \in Int /\ w.out.qsize < MaxBuffer + MaxPayload
    <3>1. w.out.qsize \in Int
      BY <2>2, Fields
    <3> QED BY <1>1, <2>1, <2>2, <3>1
  <2>4. CASE w.r < 0 /\ out' = Close(w.out, w.out.qsize > 0) /\ in' = in
    <3>1. out' \in Outs /\ out'.qsize = 0
      BY <2>2, <2>4, CloseKeeps, (w.out.qsize > 0) \in BOOLEAN
    <3> QED BY <1>1, <2>4, <3>1 DEF IInv, Typed, Fresh, ReadsBelow, QueueBounded
  <2>5. CASE Prompts(w.out, len)
    <3>1. /\ in' \in Ins /\ out' \in Outs /\ (in'.reading => out'.qsize < MaxBuffer)
          /\ out'.qsize <= w.out.qsize + PromptLen \/ out'.qsize <= PromptLen
      BY <1>1, <2>2, <2>5, PromptsBounded
    <3>2. out'.qsize \in Int
      BY <3>1 DEF Outs
    <3> QED BY <1>1, <2>3, <3>1, <3>2 DEF IInv, Typed, Fresh, ReadsBelow, QueueBounded
  <2> QED BY <1>3, <2>4, <2>5
<1> QED BY <1>2, <1>3 DEF ReadChunk

LEMMA ReadEnds_ == IInv /\ ReadEnds => IInv'
BY InTypes DEF IInv, Typed, Fresh, ReadsBelow, QueueBounded, ReadEnds, Readable

LEMMA InClosed_ == IInv /\ InClosed => IInv'
<1> SUFFICES ASSUME IInv, InClosed PROVE IInv'
  OBVIOUS
<1>1. in \in Ins /\ out \in Outs /\ started'
  BY DEF IInv, Typed, Fresh, InClosed
<1>2. in' \in Ins /\ in'.reading = in.reading
  <2>1. in.closes + 1 \in Nat
    BY <1>1 DEF Ins
  <2>2. PICK c \in Nat : in' = [in EXCEPT !.state = "freed", !.closes = c]
    BY <2>1 DEF InClosed
  <2> QED BY <1>1, <2>2 DEF Ins
<1>3. out' \in Outs /\ out'.qsize = out.qsize
  BY <1>1, CloseKeeps, (out.qsize > 0) \in BOOLEAN DEF InClosed
<1> QED BY <1>1, <1>2, <1>3 DEF IInv, Typed, Fresh, ReadsBelow, QueueBounded

\* The queue gets shorter: what is read on stays below its bound.
LEMMA Shorter ==
    ASSUME IInv, started', in' = in, out' \in Outs, out'.qsize <= out.qsize
    PROVE  IInv'
<1>1. out.qsize \in Int /\ out'.qsize \in Int
  BY Fields DEF IInv, Typed
<1> QED BY <1>1, SizesAssumption DEF IInv, Typed, Fresh, ReadsBelow, QueueBounded

LEMMA Flush_ == IInv /\ Flush => IInv'
<1> SUFFICES ASSUME IInv, Flush PROVE IInv'
  OBVIOUS
<1>1. /\ out \in Outs /\ out.wq \in Seq(Requests) /\ out.wq # <<>> /\ started'
      /\ out.done \in Seq(Requests) /\ out.qsize \in Int /\ in' = in
  BY DEF IInv, Typed, Fresh, Flush, Outs
<1> DEFINE r == Head(out.wq)
<1>2. r \in Requests /\ Tail(out.wq) \in Seq(Requests) /\ r = out.wq[1] /\ 1 \in DOMAIN out.wq
  BY <1>1
<1>3. /\ out.done \o <<Request(r.len, 0)>> \in Seq(Requests)
      /\ out.done \o <<Failed(r)>> \in Seq(Requests)
  <2>1. Request(r.len, 0) \in Requests /\ Failed(r) \in Requests
    BY <1>2 DEF Request, Failed, Requests
  <2> QED BY <1>1, <2>1
<1>4. CASE \E k \in 1 .. r.rest :
             out' = [out EXCEPT !.wq[1].rest = k, !.qsize = @ - (r.rest - k),
                                !.pq = out.done, !.done = <<>>]
  <2>1. PICK k \in 1 .. r.rest :
             out' = [out EXCEPT !.wq[1].rest = k, !.qsize = @ - (r.rest - k),
                                !.pq = out.done, !.done = <<>>]
    BY <1>4
  <2>2. [out.wq EXCEPT ![1].rest = k] \in Seq(Requests)
    <3>1. [out.wq EXCEPT ![1].rest = k] = [out.wq EXCEPT ![1] = [out.wq[1] EXCEPT !.rest = k]]
      OBVIOUS
    <3>2. [out.wq[1] EXCEPT !.rest = k] \in Requests
      BY <1>2 DEF Requests
    <3> QED BY <1>1, <1>2, <3>1, <3>2
  <2>3. r.rest \in Nat
    BY <1>2 DEF Requests
  <2>4. PICK s \in Seq(Requests), m \in Int :
           /\ out' = [out EXCEPT !.wq = s, !.qsize = m, !.pq = out.done, !.done = <<>>]
           /\ m <= out.qsize
    <3>1. out' = [out EXCEPT !.wq = [out.wq EXCEPT ![1].rest = k],
                             !.qsize = out.qsize - (r.rest - k), !.pq = out.done, !.done = <<>>]
      BY <2>1
    <3>2. out.qsize - (r.rest - k) \in Int /\ out.qsize - (r.rest - k) <= out.qsize
      BY <1>1, <2>3
    <3> QED BY <2>2, <3>1, <3>2
  <2>5. out' \in Outs
    <3> DEFINE e == <<>>
    <3>1. e \in Seq(Requests) /\ out' = [out EXCEPT !.wq = s, !.qsize = m, !.pq = out.done, !.done = e]
      BY <2>4
    <3> HIDE DEF e
    <3> QED BY <1>1, <3>1 DEF Outs
  <2>6. out'.qsize = m
    BY <1>1, <2>4 DEF Outs
  <2> QED BY <1>1, <2>4, <2>5, <2>6, Shorter
<1>5. CASE \/ out' = [out EXCEPT !.wq = Tail(@), !.qsize = @ - r.rest,
                                 !.pq = out.done \o <<Request(r.len, 0)>>, !.done = <<>>]
           \/ out' = [out EXCEPT !.wq = Tail(@), !.failed = TRUE,
                                 !.pq = out.done \o <<Failed(r)>>, !.done = <<>>]
  <2>1. r.rest \in Nat
    BY <1>2 DEF Requests
  <2>2. PICK s \in Seq(Requests), d \in Seq(Requests), m \in Int, b \in BOOLEAN :
           /\ out' = [out EXCEPT !.wq = s, !.qsize = m, !.failed = b, !.pq = d, !.done = <<>>]
           /\ m <= out.qsize
    <3>1. out.qsize - r.rest \in Int /\ out.qsize - r.rest <= out.qsize /\ out.failed \in BOOLEAN
      BY <1>1, <2>1 DEF Outs
    <3>2. CASE out' = [out EXCEPT !.wq = Tail(@), !.qsize = @ - r.rest,
                                  !.pq = out.done \o <<Request(r.len, 0)>>, !.done = <<>>]
      <4>1. out' = [out EXCEPT !.wq = Tail(out.wq), !.qsize = out.qsize - r.rest,
                               !.failed = out.failed,
                               !.pq = out.done \o <<Request(r.len, 0)>>, !.done = <<>>]
        BY <1>1, <3>2 DEF Outs
      <4> QED BY <1>2, <1>3, <3>1, <4>1
    <3>3. CASE out' = [out EXCEPT !.wq = Tail(@), !.failed = TRUE,
                                  !.pq = out.done \o <<Failed(r)>>, !.done = <<>>]
      <4>1. out' = [out EXCEPT !.wq = Tail(out.wq), !.qsize = out.qsize, !.failed = TRUE,
                               !.pq = out.done \o <<Failed(r)>>, !.done = <<>>]
        BY <1>1, <3>3 DEF Outs
      <4>2. out.qsize <= out.qsize
        BY <1>1
      <4> QED BY <1>1, <1>2, <1>3, <4>1, <4>2
    <3> QED BY <1>5, <3>2, <3>3
  <2>3. out' \in Outs
    <3> DEFINE e == <<>>
    <3>1. /\ e \in Seq(Requests)
          /\ out' = [out EXCEPT !.wq = s, !.qsize = m, !.failed = b, !.pq = d, !.done = e]
      BY <2>2
    <3> HIDE DEF e
    <3> QED BY <1>1, <3>1 DEF Outs
  <2>4. out'.qsize = m
    BY <1>1, <2>2 DEF Outs
  <2> QED BY <1>1, <2>2, <2>3, <2>4, Shorter
<1> QED BY <1>4, <1>5 DEF Flush

LEMMA CallsBack_ == IInv /\ CallsBack => IInv'
<1> SUFFICES ASSUME IInv, CallsBack PROVE IInv'
  OBVIOUS
<1>1. /\ started' /\ in' = in /\ out \in Outs
      /\ out' = [out EXCEPT !.pq = out.done, !.done = <<>>]
  BY DEF IInv, Typed, Fresh, CallsBack
<1>2. out' \in Outs
  <2> DEFINE e == <<>>
  <2>1. e \in Seq(Requests) /\ out.done \in Seq(Requests)
    BY <1>1, Fields
  <2>2. out' = [out EXCEPT !.pq = out.done, !.done = e]
    BY <1>1
  <2> HIDE DEF e
  <2> QED BY <1>1, <2>1, <2>2 DEF Outs
<1>3. out'.qsize = out.qsize
  BY <1>1 DEF Outs
<1>4. out.qsize \in Int
  BY <1>1, Fields
<1> QED BY <1>1, <1>2, <1>3, <1>4, Shorter

LEMMA OutClosed_ == IInv /\ OutClosed => IInv'
<1> SUFFICES ASSUME IInv, OutClosed PROVE IInv'
  OBVIOUS
<1>1. out \in Outs /\ in' = in /\ started' = started
  BY DEF IInv, Typed, OutClosed
<1>2. PICK c \in Nat : out' = [out EXCEPT !.state = "freed", !.closes = c]
  <2>1. out.closes + 1 \in Nat
    BY <1>1, Fields
  <2> QED BY <2>1 DEF OutClosed
<1>3. out' \in Outs
  BY <1>1, <1>2 DEF Outs
<1>4. /\ out'.qsize = out.qsize /\ out'.wq = out.wq /\ out'.done = out.done /\ out'.pq = out.pq
  BY <1>1, <1>2 DEF Outs
<1> QED BY <1>1, <1>3, <1>4 DEF IInv, Typed, Fresh, ReadsBelow, QueueBounded

\* The drain event comes when nothing is queued.
LEMMA AfterWrite_ == IInv /\ AfterWrite => IInv'
<1> SUFFICES ASSUME IInv, AfterWrite PROVE IInv'
  OBVIOUS
<1> USE SizesAssumption
<1> DEFINE r == Head(out.pq)
           o == [out EXCEPT !.pq = Tail(@), !.qsize = @ - Uncounted(r)]
           flushed == r.ok /\ o.qsize = 0
           drains == flushed /\ o.blocked
           p == [o EXCEPT !.blocked = @ /\ ~drains, !.written = @ + (IF r.ok THEN r.len ELSE 0)]
           c == IF flushed /\ o.closing THEN [UvClose(p) EXCEPT !.closing = FALSE] ELSE p
<1>1. in \in Ins /\ out \in Outs /\ started' /\ out.qsize \in Int /\ out.pq # <<>>
  BY DEF IInv, Typed, Fresh, AfterWrite, Outs
<1>2. in' = (IF drains THEN Resume(in) ELSE in) /\ out' = Freed(c, r)
  BY DEF AfterWrite
<1>3. r \in Requests /\ Tail(out.pq) \in Seq(Requests)
  BY <1>1 DEF Outs
<1>4. Uncounted(r) \in Nat
  BY <1>3 DEF Uncounted, Requests
<1>5. o \in Outs /\ o.qsize \in Int /\ o.qsize <= out.qsize /\ drains \in BOOLEAN
  <2>1. PICK s \in Seq(Requests), m \in Int :
           o = [out EXCEPT !.pq = s, !.qsize = m] /\ m <= out.qsize
    <3>1. out.qsize - Uncounted(r) \in Int /\ out.qsize - Uncounted(r) <= out.qsize
      BY <1>1, <1>4
    <3> QED BY <1>3, <3>1
  <2> HIDE DEF o
  <2>2. o \in Outs
    BY <1>1, <2>1 DEF Outs
  <2>3. o.qsize = m
    BY <1>1, <2>1 DEF Outs
  <2>4. r.ok \in BOOLEAN /\ o.blocked \in BOOLEAN
    BY <1>3, <2>2 DEF Requests, Outs
  <2> QED BY <2>1, <2>2, <2>3, <2>4
<1>6. (IF r.ok THEN r.len ELSE 0) \in Nat
  BY <1>3 DEF Requests
<1>7. p \in Outs /\ p.qsize = o.qsize
  <2> HIDE DEF o, drains
  <2>1. PICK b \in BOOLEAN, x \in Nat : p = [o EXCEPT !.blocked = b, !.written = x]
    <3>1. /\ o.written + (IF r.ok THEN r.len ELSE 0) \in Nat /\ (o.blocked /\ ~drains) \in BOOLEAN
      BY <1>5, <1>6, Fields
    <3> QED BY <3>1
  <2>2. p \in Outs
    BY <1>5, <2>1 DEF Outs
  <2>3. p.qsize = o.qsize
    BY <1>5, <2>1 DEF Outs
  <2> QED BY <2>2, <2>3
<1>8. c \in Outs /\ c.qsize = o.qsize
  <2> HIDE DEF p, o, flushed
  <2> QED BY <1>7 DEF Outs, UvClose
<1>9. out' \in Outs /\ out'.qsize = o.qsize
  <2>1. PICK x \in Nat : out' = [c EXCEPT !.free = x]
    <3> HIDE DEF c
    <3>1. c.free + 1 \in Nat
      BY <1>8, Fields
    <3> QED BY <1>2, <3>1 DEF Freed
  <2> HIDE DEF c
  <2>2. out' \in Outs
    BY <1>8, <2>1 DEF Outs
  <2>3. out'.qsize = c.qsize
    BY <1>8, <2>1 DEF Outs
  <2> QED BY <1>8, <2>2, <2>3
<1>10. in' \in Ins /\ (drains => out'.qsize = 0) /\ (~drains => in' = in)
  BY <1>1, <1>2, <1>9, InTypes
<1>11. out'.qsize \in Int /\ out'.qsize <= out.qsize
  BY <1>5, <1>9
<1> HIDE DEF drains
<1> QED BY <1>1, <1>9, <1>10, <1>11 DEF IInv, Typed, Fresh, ReadsBelow, QueueBounded

-----------------------------------------------------------------------------
LEMMA Invariant == Spec => []IInv
<1>1. Init => IInv
  BY SizesAssumption DEF Init, IInv, Typed, Fresh, ReadsBelow, QueueBounded, Ins, Outs
<1>2. IInv /\ [Next]_vars => IInv'
  <2> SUFFICES ASSUME IInv, [Next]_vars PROVE IInv'
    OBVIOUS
  <2>1. CASE UNCHANGED vars
    BY <2>1 DEF vars, IInv, Typed, Fresh, ReadsBelow, QueueBounded
  <2>2. CASE Next
    BY <2>2, Start_, ReadChunk_, ReadEnds_, InClosed_, Flush_, CallsBack_, AfterWrite_,
       OutClosed_ DEF Next
  <2> QED BY <2>1, <2>2
<1> QED BY <1>1, <1>2, PTL DEF Spec

\* However long the answers and however slow the terminal, less than an answer
\* and a prompt is queued beyond MAX_BUFFER: repl()'s pause comes in time.
THEOREM QueueStaysBounded == Spec => []QueueBounded
BY Invariant, PTL DEF IInv

-----------------------------------------------------------------------------
(* Sums.  What a queue adds up to is stated by the function of its partial *)
(* sums, which the steps of a queue extend, shorten or shift: no induction *)
(* over the queue is needed.  The entries are positive, the sums increase. *)

Sums(f, n, s, t) ==
    /\ f[0] = 0 /\ f[n] = t
    /\ \A i \in 1 .. n : f[i] = f[i - 1] + s[i]
    /\ \A i, j \in 0 .. n : i < j => f[i] < f[j]
AddsUp(n, s, t) == \E f \in [0 .. n -> Int] : Sums(f, n, s, t)

LEMMA NoneAddUp ==
    ASSUME NEW s, NEW t
    PROVE  AddsUp(0, s, t) <=> t = 0
<1>1. ASSUME AddsUp(0, s, t) PROVE t = 0
  BY <1>1 DEF AddsUp, Sums
<1>2. ASSUME t = 0 PROVE AddsUp(0, s, t)
  <2> DEFINE f == [i \in 0 .. 0 |-> 0]
  <2>1. f \in [0 .. 0 -> Int] /\ Sums(f, 0, s, t)
    BY <1>2 DEF Sums
  <2> QED BY <2>1 DEF AddsUp
<1> QED BY <1>1, <1>2

LEMMA SumIsInt ==
    ASSUME NEW n \in Nat, NEW s, NEW t, AddsUp(n, s, t)
    PROVE  t \in Int
<1>1. PICK f \in [0 .. n -> Int] : Sums(f, n, s, t)
  BY DEF AddsUp
<1>2. n \in 0 .. n
  OBVIOUS
<1> QED BY <1>1, <1>2 DEF Sums

\* Positive entries that do not add up to more than nothing are none.
LEMMA NothingAddsUp ==
    ASSUME NEW n \in Nat, NEW s, NEW t, AddsUp(n, s, t), t <= 0
    PROVE  n = 0
<1>1. PICK f \in [0 .. n -> Int] : Sums(f, n, s, t)
  BY DEF AddsUp
<1>2. ASSUME n > 0 PROVE FALSE
  <2>1. 0 \in 0 .. n /\ n \in 0 .. n /\ 0 < n
    BY <1>2
  <2>2. f[0] < f[n] /\ f[0] = 0 /\ f[n] = t
    BY <1>1, <2>1 DEF Sums
  <2> QED BY <2>2, SumIsInt
<1> QED BY <1>2

LEMMA AppendAddsUp ==
    ASSUME NEW n \in Nat, NEW s, NEW t, AddsUp(n, s, t),
           NEW u, \A i \in 1 .. n : u[i] = s[i], u[n + 1] \in Nat, u[n + 1] > 0
    PROVE  AddsUp(n + 1, u, t + u[n + 1])
<1>1. PICK f \in [0 .. n -> Int] : Sums(f, n, s, t)
  BY DEF AddsUp
<1>2. PICK x \in Nat : x = u[n + 1]
  OBVIOUS
<1>3. x > 0 /\ t \in Int
  BY <1>2, SumIsInt
<1> DEFINE g == [i \in 0 .. n + 1 |-> IF i = n + 1 THEN t + x ELSE f[i]]
<1>4. g \in [0 .. n + 1 -> Int]
  BY <1>3
<1>5. g[n + 1] = t + x /\ \A i \in 0 .. n : g[i] = f[i] /\ g[i] \in Int /\ g[i] <= t
  <2>1. n + 1 \in 0 .. n + 1 /\ \A i \in 0 .. n : i \in 0 .. n + 1 /\ i # n + 1
    OBVIOUS
  <2>2. \A i \in 0 .. n : f[i] <= t
    <3>1. ASSUME NEW i \in 0 .. n PROVE f[i] <= t
      <4>1. n \in 0 .. n /\ f[n] = t /\ f[i] \in Int
        BY <1>1 DEF Sums
      <4>2. i = n \/ f[i] < f[n]
        BY <1>1, <4>1 DEF Sums
      <4> QED BY <1>3, <4>1, <4>2
    <3> QED BY <3>1
  <2> QED BY <2>1, <2>2
<1> HIDE DEF g
<1>6. g[0] = 0
  BY <1>1, <1>5 DEF Sums
<1>7. \A i \in 1 .. n + 1 : g[i] = g[i - 1] + u[i]
  <2>1. ASSUME NEW i \in 1 .. n PROVE g[i] = g[i - 1] + u[i]
    <3>1. i \in 0 .. n /\ i - 1 \in 0 .. n
      OBVIOUS
    <3>2. g[i] = f[i] /\ g[i - 1] = f[i - 1]
      BY <1>5, <3>1
    <3>3. f[i] = f[i - 1] + s[i]
      BY <1>1 DEF Sums
    <3> QED BY <3>2, <3>3
  <2>2. g[n + 1] = g[(n + 1) - 1] + u[n + 1]
    <3>1. (n + 1) - 1 = n /\ n \in 0 .. n
      OBVIOUS
    <3>2. g[n] = t
      BY <1>1, <1>5, <3>1 DEF Sums
    <3>3. g[(n + 1) - 1] = t
      BY <3>1, <3>2
    <3> QED BY <1>2, <1>5, <3>3
  <2>3. \A i \in 1 .. n + 1 : i \in 1 .. n \/ i = n + 1
    OBVIOUS
  <2> QED BY <2>1, <2>2, <2>3
<1>8. \A i, j \in 0 .. n + 1 : i < j => g[i] < g[j]
  <2>1. ASSUME NEW i \in 0 .. n + 1, NEW j \in 0 .. n + 1, i < j PROVE g[i] < g[j]
    <3>1. i \in 0 .. n
      BY <2>1
    <3>2. CASE j \in 0 .. n
      BY <1>1, <1>5, <2>1, <3>1, <3>2 DEF Sums
    <3>3. CASE j = n + 1
      BY <1>3, <1>5, <3>1, <3>3
    <3> QED BY <3>2, <3>3
  <2> QED BY <2>1
<1>9. Sums(g, n + 1, u, t + x)
  BY <1>5, <1>6, <1>7, <1>8 DEF Sums
<1> QED BY <1>2, <1>4, <1>9 DEF AddsUp

LEMMA TailAddsUp ==
    ASSUME NEW n \in Nat, NEW s, NEW t, AddsUp(n, s, t), n > 0, \A i \in 1 .. n : s[i] \in Nat,
           NEW u, \A i \in 1 .. n - 1 : u[i] = s[i + 1]
    PROVE  AddsUp(n - 1, u, t - s[1])
<1>1. PICK f \in [0 .. n -> Int] : Sums(f, n, s, t)
  BY DEF AddsUp
<1>2. PICK x \in Nat : x = s[1]
  <2>1. 1 \in 1 .. n
    OBVIOUS
  <2> QED BY <2>1
<1>3. f[1] = x /\ t \in Int
  <2>1. 1 \in 1 .. n /\ 1 - 1 = 0
    OBVIOUS
  <2>2. f[1] = f[1 - 1] + s[1] /\ f[1 - 1] = 0
    BY <1>1, <2>1 DEF Sums
  <2> QED BY <1>2, <2>2, SumIsInt
<1> DEFINE g == [i \in 0 .. n - 1 |-> f[i + 1] - x]
<1>4. \A i \in 0 .. n - 1 : i + 1 \in 0 .. n /\ f[i + 1] \in Int
  OBVIOUS
<1>5. g \in [0 .. n - 1 -> Int] /\ \A i \in 0 .. n - 1 : g[i] = f[i + 1] - x /\ g[i] \in Int
  BY <1>4
<1> HIDE DEF g
<1>6. g[0] = 0 /\ g[n - 1] = t - x
  <2>1. 0 \in 0 .. n - 1 /\ n - 1 \in 0 .. n - 1 /\ 0 + 1 = 1 /\ (n - 1) + 1 = n
    OBVIOUS
  <2>2. g[0] = f[0 + 1] - x /\ g[n - 1] = f[(n - 1) + 1] - x
    BY <1>5, <2>1
  <2>3. f[(n - 1) + 1] = t /\ f[0 + 1] = x
    BY <1>1, <1>3, <2>1 DEF Sums
  <2> QED BY <1>3, <2>2, <2>3
<1>7. \A i \in 1 .. n - 1 : g[i] = g[i - 1] + u[i]
  <2>1. ASSUME NEW i \in 1 .. n - 1 PROVE g[i] = g[i - 1] + u[i]
    <3>1. i \in 0 .. n - 1 /\ i - 1 \in 0 .. n - 1 /\ i + 1 \in 1 .. n /\ (i - 1) + 1 = i /\ (i + 1) - 1 = i
          /\ i \in 0 .. n /\ i + 1 \in 0 .. n
      OBVIOUS
    <3>2. f[i + 1] = f[(i + 1) - 1] + s[i + 1]
      BY <1>1, <3>1 DEF Sums
    <3>3. f[i + 1] = f[i] + u[i]
      BY <3>1, <3>2
    <3>4. g[i] = f[i + 1] - x /\ g[i - 1] = f[(i - 1) + 1] - x
      BY <1>5, <3>1
    <3>5. g[i - 1] = f[i] - x
      BY <3>1, <3>4
    <3>6. f[i] \in Int /\ f[i + 1] \in Int
      BY <3>1
    <3>7. u[i] \in Nat
      BY <3>1
    <3>8. \A a, b, c \in Int : a = b + c => a - x = (b - x) + c
      OBVIOUS
    <3> QED BY <3>3, <3>4, <3>5, <3>6, <3>7, <3>8
  <2> QED BY <2>1
<1>8. \A i, j \in 0 .. n - 1 : i < j => g[i] < g[j]
  <2>1. ASSUME NEW i \in 0 .. n - 1, NEW j \in 0 .. n - 1, i < j PROVE g[i] < g[j]
    <3>1. i + 1 \in 0 .. n /\ j + 1 \in 0 .. n /\ i + 1 < j + 1
      BY <2>1
    <3>2. f[i + 1] < f[j + 1] /\ f[i + 1] \in Int /\ f[j + 1] \in Int
      BY <1>1, <3>1 DEF Sums
    <3>3. g[i] = f[i + 1] - x /\ g[j] = f[j + 1] - x
      BY <1>5
    <3>4. \A a, b \in Int : a < b => a - x < b - x
      OBVIOUS
    <3> QED BY <3>2, <3>3, <3>4
  <2> QED BY <2>1
<1>9. Sums(g, n - 1, u, t - x)
  BY <1>6, <1>7, <1>8 DEF Sums
<1> QED BY <1>2, <1>5, <1>9 DEF AddsUp

\* The first entry is replaced by another.
LEMMA HeadAddsUp ==
    ASSUME NEW n \in Nat, NEW s, NEW t, AddsUp(n, s, t), n > 0, \A i \in 1 .. n : s[i] \in Nat,
           NEW u, u[1] \in Nat, u[1] > 0, \A i \in 2 .. n : u[i] = s[i]
    PROVE  AddsUp(n, u, t + (u[1] - s[1]))
<1>1. PICK f \in [0 .. n -> Int] : Sums(f, n, s, t)
  BY DEF AddsUp
<1>2. PICK x \in Nat : x = s[1]
  <2>1. 1 \in 1 .. n
    OBVIOUS
  <2> QED BY <2>1
<1>3. PICK y \in Nat : y = u[1] /\ y > 0
  OBVIOUS
<1>4. PICK d \in Int : d = y - x
  OBVIOUS
<1>5. f[1] = x /\ t \in Int
  <2>1. 1 \in 1 .. n /\ 1 - 1 = 0
    OBVIOUS
  <2>2. f[1] = f[1 - 1] + s[1] /\ f[1 - 1] = 0
    BY <1>1, <2>1 DEF Sums
  <2> QED BY <1>2, <2>2, SumIsInt
<1> DEFINE g == [i \in 0 .. n |-> IF i = 0 THEN 0 ELSE f[i] + d]
<1>6. g \in [0 .. n -> Int] /\ g[0] = 0 /\ \A i \in 1 .. n : g[i] = f[i] + d /\ f[i] \in Int
  <2>1. \A i \in 1 .. n : i \in 0 .. n /\ i # 0
    OBVIOUS
  <2>2. 0 \in 0 .. n
    OBVIOUS
  <2> QED BY <1>4, <2>1, <2>2
<1> HIDE DEF g
<1>7. g[n] = t + d
  BY <1>1, <1>6 DEF Sums
<1>8. \A i \in 1 .. n : g[i] = g[i - 1] + u[i]
  <2>1. g[1] = g[1 - 1] + u[1]
    <3>1. 1 - 1 = 0 /\ 1 \in 1 .. n
      OBVIOUS
    <3>2. g[1] = x + d /\ g[1 - 1] = 0
      BY <1>5, <1>6, <3>1
    <3> QED BY <1>3, <1>4, <3>2
  <2>2. ASSUME NEW i \in 2 .. n PROVE g[i] = g[i - 1] + u[i]
    <3>1. i \in 1 .. n /\ i - 1 \in 1 .. n
      OBVIOUS
    <3>2. f[i] = f[i - 1] + u[i] /\ u[i] \in Int
      <4>1. u[i] = s[i] /\ s[i] \in Nat
        BY <3>1
      <4>2. f[i] = f[i - 1] + s[i]
        BY <1>1, <3>1 DEF Sums
      <4> QED BY <4>1, <4>2
    <3>3. g[i] = f[i] + d /\ g[i - 1] = f[i - 1] + d /\ f[i] \in Int /\ f[i - 1] \in Int
      BY <1>6, <3>1
    <3>4. \A a, b, c \in Int : a = b + c => a + d = (b + d) + c
      BY <1>4
    <3> QED BY <3>2, <3>3, <3>4
  <2>3. \A i \in 1 .. n : i = 1 \/ i \in 2 .. n
    OBVIOUS
  <2> QED BY <2>1, <2>2, <2>3
<1>9. \A i, j \in 0 .. n : i < j => g[i] < g[j]
  <2>1. ASSUME NEW i \in 1 .. n, NEW j \in 1 .. n, i < j PROVE g[i] < g[j]
    <3>1. f[i] < f[j]
      BY <1>1, <2>1 DEF Sums
    <3>2. g[i] = f[i] + d /\ g[j] = f[j] + d /\ f[i] \in Int /\ f[j] \in Int
      BY <1>6
    <3> QED BY <1>4, <3>1, <3>2
  <2>2. ASSUME NEW j \in 1 .. n PROVE g[0] < g[j]
    <3>1. 1 \in 1 .. n /\ g[1] = y
      BY <1>4, <1>5, <1>6
    <3>2. j = 1 \/ g[1] < g[j]
      BY <2>1, <3>1
    <3>3. g[j] \in Int
      BY <1>4, <1>6
    <3> QED BY <1>3, <1>6, <3>1, <3>2, <3>3
  <2>3. \A i \in 0 .. n : i = 0 \/ i \in 1 .. n
    OBVIOUS
  <2>4. \A i, j \in 0 .. n : i < j => j \in 1 .. n
    OBVIOUS
  <2> QED BY <2>1, <2>2, <2>3, <2>4
<1>10. Sums(g, n, u, t + d)
  BY <1>6, <1>7, <1>8, <1>9 DEF Sums
<1>11. t + (u[1] - s[1]) = t + d
  BY <1>2, <1>3, <1>4
<1> QED BY <1>6, <1>10, <1>11 DEF AddsUp

LEMMA SameAddsUp ==
    ASSUME NEW n \in Nat, NEW s, NEW t, AddsUp(n, s, t), NEW u, \A i \in 1 .. n : u[i] = s[i]
    PROVE  AddsUp(n, u, t)
<1>1. PICK f \in [0 .. n -> Int] : Sums(f, n, s, t)
  BY DEF AddsUp
<1>2. Sums(f, n, u, t)
  BY <1>1 DEF Sums
<1> QED BY <1>2 DEF AddsUp

Lens(q) == [i \in 1 .. Len(q) |-> q[i].len]
Rests(q) == [i \in 1 .. Len(q) |-> q[i].rest]
LensAre(q, t) == AddsUp(Len(q), Lens(q), t)
RestsAre(q, t) == AddsUp(Len(q), Rests(q), t)

LEMMA RequestFields == ASSUME NEW r \in Requests PROVE r.len \in Nat /\ r.rest \in Nat /\ r.ok \in BOOLEAN
BY DEF Requests

LEMMA QueueFields ==
    ASSUME NEW q \in Seq(Requests)
    PROVE  /\ Len(q) \in Nat /\ \A i \in 1 .. Len(q) : q[i] \in Requests /\ q[i].len \in Nat /\ q[i].rest \in Nat
           /\ \A i \in 1 .. Len(q) : Lens(q)[i] = q[i].len /\ Rests(q)[i] = q[i].rest
<1>1. Len(q) \in Nat /\ \A i \in 1 .. Len(q) : q[i] \in Requests
  OBVIOUS
<1>2. \A i \in 1 .. Len(q) : Lens(q)[i] = q[i].len /\ Rests(q)[i] = q[i].rest
  BY DEF Lens, Rests
<1> QED BY <1>1, <1>2, RequestFields

\* A queue that gets one more request.
LEMMA SumsAppend ==
    ASSUME NEW q \in Seq(Requests), NEW r \in Requests
    PROVE  /\ Append(q, r) \in Seq(Requests) /\ Len(Append(q, r)) = Len(q) + 1
           /\ \A t : LensAre(q, t) /\ r.len > 0 => LensAre(Append(q, r), t + r.len)
           /\ \A t : RestsAre(q, t) /\ r.rest > 0 => RestsAre(Append(q, r), t + r.rest)
<1> DEFINE p == Append(q, r)
<1>1. /\ p \in Seq(Requests) /\ Len(p) = Len(q) + 1 /\ p[Len(q) + 1] = r
      /\ \A i \in 1 .. Len(q) : p[i] = q[i] /\ i \in 1 .. Len(p)
      /\ Len(q) + 1 \in 1 .. Len(p)
  OBVIOUS
<1> HIDE DEF p
<1>2. /\ Lens(p)[Len(q) + 1] = r.len /\ Rests(p)[Len(q) + 1] = r.rest
      /\ \A i \in 1 .. Len(q) : Lens(p)[i] = Lens(q)[i] /\ Rests(p)[i] = Rests(q)[i]
  <2>1. \A i \in 1 .. Len(p) : Lens(p)[i] = p[i].len /\ Rests(p)[i] = p[i].rest
    BY <1>1, QueueFields
  <2> QED BY <1>1, <2>1, QueueFields
<1>3. Len(q) \in Nat /\ r.len \in Nat /\ r.rest \in Nat
  BY QueueFields, RequestFields
<1>4. ASSUME NEW t, LensAre(q, t), r.len > 0 PROVE LensAre(p, t + r.len)
  <2>1. AddsUp(Len(q) + 1, Lens(p), t + Lens(p)[Len(q) + 1])
    BY <1>2, <1>3, <1>4, AppendAddsUp DEF LensAre
  <2> QED BY <1>1, <1>2, <2>1 DEF LensAre
<1>5. ASSUME NEW t, RestsAre(q, t), r.rest > 0 PROVE RestsAre(p, t + r.rest)
  <2>1. AddsUp(Len(q) + 1, Rests(p), t + Rests(p)[Len(q) + 1])
    BY <1>2, <1>3, <1>5, AppendAddsUp DEF RestsAre
  <2> QED BY <1>1, <1>2, <2>1 DEF RestsAre
<1> QED BY <1>1, <1>4, <1>5 DEF p

\* A queue that loses its first request.
LEMMA SumsTail ==
    ASSUME NEW q \in Seq(Requests), q # <<>>
    PROVE  /\ Tail(q) \in Seq(Requests) /\ Len(Tail(q)) = Len(q) - 1
           /\ Head(q) = q[1] /\ 1 \in 1 .. Len(q)
           /\ \A i \in 1 .. Len(Tail(q)) : Tail(q)[i] = q[i + 1] /\ i + 1 \in 1 .. Len(q)
           /\ \A t : LensAre(q, t) => LensAre(Tail(q), t - q[1].len)
           /\ \A t : RestsAre(q, t) => RestsAre(Tail(q), t - q[1].rest)
<1> DEFINE p == Tail(q)
<1>1. /\ p \in Seq(Requests) /\ Len(p) = Len(q) - 1 /\ Len(q) > 0 /\ 1 \in 1 .. Len(q) /\ Head(q) = q[1]
      /\ \A i \in 1 .. Len(p) : p[i] = q[i + 1] /\ i + 1 \in 1 .. Len(q)
  OBVIOUS
<1> HIDE DEF p
<1>2. /\ \A i \in 1 .. Len(q) - 1 : Lens(p)[i] = Lens(q)[i + 1] /\ Rests(p)[i] = Rests(q)[i + 1]
      /\ Lens(q)[1] = q[1].len /\ Rests(q)[1] = q[1].rest
      /\ \A i \in 1 .. Len(q) : Lens(q)[i] \in Nat /\ Rests(q)[i] \in Nat
  <2>1. \A i \in 1 .. Len(p) : Lens(p)[i] = p[i].len /\ Rests(p)[i] = p[i].rest
    BY <1>1, QueueFields
  <2>2. \A i \in 1 .. Len(q) : /\ Lens(q)[i] = q[i].len /\ Rests(q)[i] = q[i].rest
                              /\ q[i].len \in Nat /\ q[i].rest \in Nat
    BY QueueFields
  <2>3. ASSUME NEW i \in 1 .. Len(q) - 1
        PROVE  Lens(p)[i] = Lens(q)[i + 1] /\ Rests(p)[i] = Rests(q)[i + 1]
    <3>1. i \in 1 .. Len(p)
      BY <1>1
    <3>2. p[i] = q[i + 1] /\ i + 1 \in 1 .. Len(q)
      BY <1>1, <3>1
    <3>3. Lens(q)[i + 1] = q[i + 1].len /\ Rests(q)[i + 1] = q[i + 1].rest
      BY <2>2, <3>2
    <3> QED BY <2>1, <3>1, <3>2, <3>3
  <2>4. \A i \in 1 .. Len(q) : Lens(q)[i] \in Nat /\ Rests(q)[i] \in Nat
    BY <2>2
  <2> QED BY <1>1, <2>2, <2>3, <2>4
<1>3. Len(q) \in Nat
  BY QueueFields
<1>4. ASSUME NEW t, LensAre(q, t) PROVE LensAre(p, t - q[1].len)
  <2>1. AddsUp(Len(q) - 1, Lens(p), t - Lens(q)[1])
    BY <1>1, <1>2, <1>3, <1>4, TailAddsUp DEF LensAre
  <2> QED BY <1>1, <1>2, <2>1 DEF LensAre
<1>5. ASSUME NEW t, RestsAre(q, t) PROVE RestsAre(p, t - q[1].rest)
  <2>1. AddsUp(Len(q) - 1, Rests(p), t - Rests(q)[1])
    BY <1>1, <1>2, <1>3, <1>5, TailAddsUp DEF RestsAre
  <2> QED BY <1>1, <1>2, <2>1 DEF RestsAre
<1> QED BY <1>1, <1>4, <1>5 DEF p

\* A queue whose first request has k bytes left.
WithLeft(q, k) == [q EXCEPT ![1].rest = k]

LEMMA SumsHead ==
    ASSUME NEW q \in Seq(Requests), q # <<>>, NEW k \in Nat, k > 0,
           NEW p, p = WithLeft(q, k)
    PROVE  /\ p \in Seq(Requests) /\ Len(p) = Len(q)
           /\ \A i \in 1 .. Len(q) : p[i].len = q[i].len /\ p[i].ok = q[i].ok
                                     /\ p[i].rest = IF i = 1 THEN k ELSE q[i].rest
           /\ \A t : LensAre(q, t) => LensAre(p, t)
           /\ \A t : RestsAre(q, t) => RestsAre(p, t + (k - q[1].rest))
<1> DEFINE r == [q[1] EXCEPT !.rest = k]
<1>1. 1 \in 1 .. Len(q) /\ q[1] \in Requests /\ Len(q) > 0 /\ Len(q) \in Nat
  OBVIOUS
<1>2. r \in Requests /\ r.len = q[1].len /\ r.ok = q[1].ok /\ r.rest = k
  BY <1>1 DEF Requests
<1>3. p = [q EXCEPT ![1] = r]
  BY DEF WithLeft
<1> HIDE DEF r
<1>4. p \in Seq(Requests) /\ Len(p) = Len(q) /\ p[1] = r /\ \A i \in 1 .. Len(q) : i # 1 => p[i] = q[i]
  BY <1>1, <1>2, <1>3
<1>5. \A i \in 1 .. Len(q) : p[i].len = q[i].len /\ p[i].ok = q[i].ok
                             /\ p[i].rest = IF i = 1 THEN k ELSE q[i].rest
  BY <1>2, <1>4
<1>6. /\ \A i \in 1 .. Len(q) : Lens(p)[i] = p[i].len /\ Rests(p)[i] = p[i].rest
      /\ \A i \in 1 .. Len(q) : Lens(q)[i] = q[i].len /\ Rests(q)[i] = q[i].rest /\ q[i].rest \in Nat
  BY <1>4, QueueFields
<1>7. ASSUME NEW t, LensAre(q, t) PROVE LensAre(p, t)
  <2>1. \A i \in 1 .. Len(q) : Lens(p)[i] = Lens(q)[i]
    BY <1>5, <1>6
  <2> QED BY <1>1, <1>4, <1>7, <2>1, SameAddsUp DEF LensAre
<1>8. ASSUME NEW t, RestsAre(q, t) PROVE RestsAre(p, t + (k - q[1].rest))
  <2>1. Rests(p)[1] = k /\ Rests(q)[1] = q[1].rest /\ \A i \in 2 .. Len(q) : Rests(p)[i] = Rests(q)[i]
    <3>1. \A i \in 2 .. Len(q) : i \in 1 .. Len(q) /\ i # 1
      OBVIOUS
    <3>2. \A i \in 2 .. Len(q) : Rests(p)[i] = p[i].rest /\ Rests(q)[i] = q[i].rest
      BY <1>6, <3>1
    <3>3. \A i \in 2 .. Len(q) : p[i].rest = q[i].rest
      BY <1>5, <3>1
    <3>4. Rests(p)[1] = k /\ Rests(q)[1] = q[1].rest
      BY <1>1, <1>5, <1>6
    <3> QED BY <3>2, <3>3, <3>4
  <2>2. \A i \in 1 .. Len(q) : Rests(q)[i] \in Nat
    BY <1>6
  <2>3. AddsUp(Len(q), Rests(p), t + (Rests(p)[1] - Rests(q)[1]))
    BY <1>1, <1>8, <2>1, <2>2, HeadAddsUp DEF RestsAre
  <2> QED BY <1>4, <2>1, <2>3 DEF RestsAre
<1> QED BY <1>4, <1>5, <1>7, <1>8

-----------------------------------------------------------------------------
(* The books of stdout, as long as no write has failed: every queued       *)
(* request owns a copy that is not freed yet, and what was offered is      *)
(* written or is in a queue.                                               *)

Whole(q) == \A i \in 1 .. Len(q) : q[i].ok /\ q[i].len > 0

Books(wq, done, pq, qsize, alloc, free, written, offered) ==
    /\ Whole(wq) /\ Whole(done) /\ Whole(pq)
    /\ \A i \in 1 .. Len(wq) : wq[i].rest > 0
    /\ alloc = free + (Len(wq) + Len(done) + Len(pq))
    /\ RestsAre(wq, qsize)
    /\ \E a, b, c \in Int :
          /\ LensAre(wq, a) /\ LensAre(done, b) /\ LensAre(pq, c)
          /\ offered = written + (a + b + c)

Kept(o) == Books(o.wq, o.done, o.pq, o.qsize, o.alloc, o.free, o.written, o.offered)

\* An empty queue size means an empty queue.
LEMMA KeptEmpty == ASSUME NEW o \in Outs, Kept(o), o.qsize <= 0 PROVE o.wq = <<>>
<1>1. o.wq \in Seq(Requests) /\ Len(o.wq) \in Nat
  BY Fields, QueueFields
<1>2. Len(o.wq) = 0
  BY <1>1, NothingAddsUp DEF Kept, Books, RestsAre
<1> QED BY <1>1, <1>2

LEMMA WholeAppend ==
    ASSUME NEW q \in Seq(Requests), Whole(q), NEW r \in Requests, r.ok, r.len > 0
    PROVE  Whole(Append(q, r))
BY DEF Whole

LEMMA WholeTail ==
    ASSUME NEW q \in Seq(Requests), Whole(q), q # <<>>
    PROVE  Whole(Tail(q)) /\ q[1].ok /\ q[1].len > 0
BY SumsTail DEF Whole

LEMMA NewRequests ==
    ASSUME NEW m \in Nat, NEW x \in Nat
    PROVE  /\ Request(m, x) \in Requests /\ Request(m, x).len = m /\ Request(m, x).rest = x
           /\ Request(m, x).ok
BY DEF Request, Requests

\* A write of k bytes at once and m that are copied and queued, or completed by uv_write.
LEMMA QueueOne ==
    ASSUME NEW wq \in Seq(Requests), NEW done \in Seq(Requests), NEW pq \in Seq(Requests),
           NEW qsize \in Int, NEW alloc \in Nat, NEW free \in Nat, NEW written \in Nat,
           NEW offered \in Nat, Books(wq, done, pq, qsize, alloc, free, written, offered),
           NEW m \in Nat, m > 0, NEW k \in Nat, NEW x \in Nat
    PROVE  /\ x > 0 => Books(Append(wq, Request(m, x)), done, pq, qsize + x, alloc + 1, free,
                             written + k, offered + (k + m))
           /\ Books(wq, Append(done, Request(m, 0)), pq, qsize, alloc + 1, free, written + k,
                    offered + (k + m))
<1>1. Len(wq) \in Nat /\ Len(done) \in Nat /\ Len(pq) \in Nat
  BY QueueFields
<1>2. PICK a \in Int, b \in Int, c \in Int :
          /\ LensAre(wq, a) /\ LensAre(done, b) /\ LensAre(pq, c)
          /\ offered = written + (a + b + c)
  BY DEF Books
<1>3. Whole(wq) /\ Whole(done) /\ Whole(pq) /\ (\A i \in 1 .. Len(wq) : wq[i].rest > 0)
      /\ alloc = free + (Len(wq) + Len(done) + Len(pq)) /\ RestsAre(wq, qsize)
  BY DEF Books
<1>4. ASSUME x > 0
      PROVE  Books(Append(wq, Request(m, x)), done, pq, qsize + x, alloc + 1, free,
                   written + k, offered + (k + m))
  <2> DEFINE r == Request(m, x)
             q == Append(wq, r)
  <2>1. r \in Requests /\ r.len = m /\ r.rest = x /\ r.ok
    BY NewRequests
  <2> HIDE DEF r
  <2>2. LensAre(q, a + m) /\ RestsAre(q, qsize + x) /\ Len(q) = Len(wq) + 1 /\ Whole(q)
    BY <1>2, <1>3, <1>4, <2>1, SumsAppend, WholeAppend
  <2>3. \A i \in 1 .. Len(q) : q[i].rest > 0
    <3>1. \A i \in 1 .. Len(q) : (i \in 1 .. Len(wq) /\ q[i] = wq[i]) \/ q[i] = r
      BY <2>1
    <3> QED BY <1>3, <1>4, <2>1, <3>1
  <2> HIDE DEF q
  <2>4. alloc + 1 = free + (Len(q) + Len(done) + Len(pq))
    BY <1>1, <1>3, <2>2
  <2>5. offered + (k + m) = (written + k) + ((a + m) + b + c) /\ a + m \in Int
    BY <1>2
  <2>6. Books(q, done, pq, qsize + x, alloc + 1, free, written + k, offered + (k + m))
    BY <1>2, <1>3, <2>2, <2>3, <2>4, <2>5 DEF Books
  <2> QED BY <2>6 DEF q, r
<1>5. Books(wq, Append(done, Request(m, 0)), pq, qsize, alloc + 1, free, written + k, offered + (k + m))
  <2> DEFINE r == Request(m, 0)
             q == Append(done, r)
  <2>1. r \in Requests /\ r.len = m /\ r.ok
    BY NewRequests
  <2> HIDE DEF r
  <2>2. LensAre(q, b + m) /\ Len(q) = Len(done) + 1 /\ Whole(q)
    BY <1>2, <1>3, <2>1, SumsAppend, WholeAppend
  <2> HIDE DEF q
  <2>4. alloc + 1 = free + (Len(wq) + Len(q) + Len(pq))
    BY <1>1, <1>3, <2>2
  <2>5. offered + (k + m) = (written + k) + (a + (b + m) + c) /\ b + m \in Int
    BY <1>2
  <2>6. Books(wq, q, pq, qsize, alloc + 1, free, written + k, offered + (k + m))
    BY <1>2, <1>3, <2>2, <2>4, <2>5 DEF Books
  <2> QED BY <2>6 DEF q, r
<1> QED BY <1>4, <1>5

\* Nothing adds up to nothing.
LEMMA NoneQueued == Whole(<<>>) /\ LensAre(<<>>, 0) /\ (\A t : LensAre(<<>>, t) => t = 0)
<1>1. Len(<<>>) = 0
  OBVIOUS
<1> QED BY <1>1, NoneAddUp DEF LensAre, Whole

\* What is completed goes to be called back, behind it the head of the queue if it
\* was taken whole; of a head taken in part k bytes are left.
LEMMA Flushed ==
    ASSUME NEW wq \in Seq(Requests), NEW done \in Seq(Requests),
           NEW qsize \in Int, NEW alloc \in Nat, NEW free \in Nat, NEW written \in Nat,
           NEW offered \in Nat, Books(wq, done, <<>>, qsize, alloc, free, written, offered)
    PROVE  /\ Books(wq, <<>>, done, qsize, alloc, free, written, offered)
           /\ wq # <<>> => \A k \in Nat : k > 0 =>
                 Books(WithLeft(wq, k), <<>>, done, qsize - (wq[1].rest - k),
                       alloc, free, written, offered)
           /\ wq # <<>> => Books(Tail(wq), <<>>, Append(done, Request(wq[1].len, 0)),
                                 qsize - wq[1].rest, alloc, free, written, offered)
<1>1. Len(wq) \in Nat /\ Len(done) \in Nat /\ Len(<<>>) = 0
  BY QueueFields
<1>2. PICK a \in Int, b \in Int : LensAre(wq, a) /\ LensAre(done, b) /\ offered = written + (a + b + 0)
  BY NoneQueued DEF Books
<1>3. Whole(wq) /\ Whole(done) /\ (\A i \in 1 .. Len(wq) : wq[i].rest > 0)
      /\ alloc = free + (Len(wq) + Len(done) + 0) /\ RestsAre(wq, qsize)
  BY <1>1 DEF Books
<1>4. ASSUME NEW q, Len(q) = Len(wq), Whole(q), LensAre(q, a), \A i \in 1 .. Len(q) : q[i].rest > 0,
             NEW t, RestsAre(q, t)
      PROVE  Books(q, <<>>, done, t, alloc, free, written, offered)
  <2>1. alloc = free + (Len(q) + Len(<<>>) + Len(done))
    BY <1>1, <1>3, <1>4
  <2>2. offered = written + (a + 0 + b)
    BY <1>2
  <2> QED BY <1>2, <1>3, <1>4, <2>1, <2>2, NoneQueued DEF Books
<1>5. Books(wq, <<>>, done, qsize, alloc, free, written, offered)
  BY <1>2, <1>3, <1>4
<1>6. ASSUME wq # <<>>, NEW k \in Nat, k > 0
      PROVE  Books(WithLeft(wq, k), <<>>, done, qsize - (wq[1].rest - k),
                   alloc, free, written, offered)
  <2> DEFINE q == WithLeft(wq, k)
  <2>1. /\ Len(q) = Len(wq) /\ LensAre(q, a) /\ RestsAre(q, qsize + (k - wq[1].rest))
        /\ \A i \in 1 .. Len(wq) : q[i].len = wq[i].len /\ q[i].ok = wq[i].ok
                                   /\ q[i].rest = IF i = 1 THEN k ELSE wq[i].rest
    BY <1>2, <1>3, <1>6, SumsHead
  <2>2. PICK y \in Nat : y = wq[1].rest
    BY <1>6, QueueFields, SumsTail
  <2>3. qsize - (wq[1].rest - k) = qsize + (k - wq[1].rest)
    BY <2>2
  <2> HIDE DEF q
  <2>4. Whole(q) /\ \A i \in 1 .. Len(q) : q[i].rest > 0
    BY <1>3, <1>6, <2>1 DEF Whole
  <2>5. RestsAre(q, qsize - (wq[1].rest - k))
    BY <2>1, <2>3
  <2>6. Books(q, <<>>, done, qsize - (wq[1].rest - k), alloc, free, written, offered)
    BY <1>4, <2>1, <2>4, <2>5
  <2> QED BY <2>6 DEF q
<1>7. ASSUME wq # <<>>
      PROVE  Books(Tail(wq), <<>>, Append(done, Request(wq[1].len, 0)), qsize - wq[1].rest,
                   alloc, free, written, offered)
  <2> DEFINE q == Tail(wq)
             r == Request(wq[1].len, 0)
             d == Append(done, r)
  <2>1. PICK l \in Nat : l = wq[1].len /\ l > 0 /\ wq[1].ok
    BY <1>3, <1>7, QueueFields, SumsTail, WholeTail
  <2>2. r \in Requests /\ r.len = l /\ r.ok
    BY <2>1, NewRequests
  <2>3. /\ Len(q) = Len(wq) - 1 /\ LensAre(q, a - l) /\ RestsAre(q, qsize - wq[1].rest) /\ Whole(q)
        /\ \A i \in 1 .. Len(q) : q[i] = wq[i + 1] /\ i + 1 \in 1 .. Len(wq)
    BY <1>2, <1>3, <1>7, <2>1, SumsTail, WholeTail
  <2> HIDE DEF r
  <2>4. LensAre(d, b + l) /\ Len(d) = Len(done) + 1 /\ Whole(d)
    BY <1>2, <1>3, <2>1, <2>2, SumsAppend, WholeAppend
  <2> HIDE DEF q, d
  <2>5. alloc = free + (Len(q) + Len(<<>>) + Len(d))
    BY <1>1, <1>3, <2>3, <2>4
  <2>6. offered = written + ((a - l) + 0 + (b + l)) /\ a - l \in Int /\ b + l \in Int
    BY <1>2
  <2>7. \A i \in 1 .. Len(q) : q[i].rest > 0
    BY <1>3, <2>3
  <2>8. Books(q, <<>>, d, qsize - wq[1].rest, alloc, free, written, offered)
    BY <2>3, <2>4, <2>5, <2>6, <2>7, NoneQueued DEF Books
  <2> QED BY <2>8 DEF q, d, r
<1> QED BY <1>5, <1>6, <1>7

\* after_write counts the bytes of the request and frees its copy.
LEMMA WrittenAndFreed ==
    ASSUME NEW wq \in Seq(Requests), NEW done \in Seq(Requests), NEW pq \in Seq(Requests),
           NEW qsize \in Int, NEW alloc \in Nat, NEW free \in Nat, NEW written \in Nat,
           NEW offered \in Nat, Books(wq, done, pq, qsize, alloc, free, written, offered), pq # <<>>
    PROVE  pq[1].ok /\ Books(wq, done, Tail(pq), qsize, alloc, free + 1, written + pq[1].len, offered)
<1>1. Len(wq) \in Nat /\ Len(done) \in Nat /\ Len(pq) \in Nat
  BY QueueFields
<1>2. PICK a \in Int, b \in Int, c \in Int :
          /\ LensAre(wq, a) /\ LensAre(done, b) /\ LensAre(pq, c)
          /\ offered = written + (a + b + c)
  BY DEF Books
<1>3. Whole(wq) /\ Whole(done) /\ Whole(pq) /\ (\A i \in 1 .. Len(wq) : wq[i].rest > 0)
      /\ alloc = free + (Len(wq) + Len(done) + Len(pq)) /\ RestsAre(wq, qsize)
  BY DEF Books
<1> DEFINE q == Tail(pq)
<1>4. PICK l \in Nat : l = pq[1].len /\ l > 0 /\ pq[1].ok
  BY <1>3, QueueFields, SumsTail, WholeTail
<1>5. Len(q) = Len(pq) - 1 /\ LensAre(q, c - l) /\ Whole(q)
  BY <1>2, <1>3, <1>4, SumsTail, WholeTail
<1> HIDE DEF q
<1>6. alloc = (free + 1) + (Len(wq) + Len(done) + Len(q))
  BY <1>1, <1>3, <1>5
<1>7. offered = (written + l) + (a + b + (c - l)) /\ c - l \in Int
  BY <1>2
<1>8. Books(wq, done, q, qsize, alloc, free + 1, written + l, offered)
  BY <1>2, <1>3, <1>5, <1>6, <1>7 DEF Books
<1> QED BY <1>4, <1>8 DEF q

-----------------------------------------------------------------------------
(* What a write that does not fail does to the books                       *)

\* What neither a write nor a request of the queue changes.
SameHandle(o, q) ==
    q.state = o.state /\ q.closing = o.closing /\ q.closes = o.closes /\ q.failed = o.failed

LEMMA UvWriteQueues ==
    ASSUME NEW o \in Outs, NEW n \in Nat, n > 0, NEW q \in UvWrite(o, n), ~q.failed
    PROVE  /\ SameHandle(o, q) /\ q.pq = o.pq /\ q.alloc = o.alloc /\ q.free = o.free
           /\ q.written = o.written /\ q.offered = o.offered
           /\ \/ /\ q.done = o.done
                 /\ \E x \in Nat : x > 0 /\ q.wq = Append(o.wq, Request(n, x)) /\ q.qsize = o.qsize + x
              \/ q.wq = o.wq /\ q.qsize = o.qsize /\ q.done = Append(o.done, Request(n, 0))
<1>1. o.qsize \in Int
  BY Fields
<1>2. ASSUME NEW x \in Nat, x > 0,
             q = [o EXCEPT !.wq = Append(o.wq, Request(n, x)), !.qsize = o.qsize + x]
      PROVE  /\ SameHandle(o, q) /\ q.pq = o.pq /\ q.alloc = o.alloc /\ q.free = o.free
             /\ q.written = o.written /\ q.offered = o.offered /\ q.done = o.done
             /\ q.wq = Append(o.wq, Request(n, x)) /\ q.qsize = o.qsize + x
  <2>1. PICK s, m : s = Append(o.wq, Request(n, x)) /\ m = o.qsize + x /\ q = [o EXCEPT !.wq = s, !.qsize = m]
    BY <1>2
  <2>2. /\ SameHandle(o, q) /\ q.pq = o.pq /\ q.alloc = o.alloc /\ q.free = o.free
        /\ q.written = o.written /\ q.offered = o.offered /\ q.done = o.done
        /\ q.wq = s /\ q.qsize = m
    BY <2>1 DEF Outs, SameHandle
  <2> QED BY <2>1, <2>2
<1>3. CASE o.qsize # 0
  <2>1. q = [o EXCEPT !.wq = Append(o.wq, Request(n, n)), !.qsize = o.qsize + n]
    BY <1>3 DEF UvWrite
  <2> QED BY <1>2, <2>1
<1>4. CASE o.qsize = 0
  <2>1. CASE \E k \in 1 .. n : q = [o EXCEPT !.wq = Append(@, Request(n, k)), !.qsize = k]
    <3>1. PICK k \in 1 .. n : q = [o EXCEPT !.wq = Append(@, Request(n, k)), !.qsize = k]
      BY <2>1
    <3>2. k \in Nat /\ k > 0 /\ o.qsize + k = k
      BY <1>4
    <3>3. q = [o EXCEPT !.wq = Append(o.wq, Request(n, k)), !.qsize = o.qsize + k]
      BY <3>1, <3>2
    <3> QED BY <1>2, <3>2, <3>3
  <2>2. CASE q = [o EXCEPT !.done = Append(@, Request(n, 0))]
    <3>1. PICK s : s = Append(o.done, Request(n, 0)) /\ q = [o EXCEPT !.done = s]
      BY <2>2
    <3>2. /\ SameHandle(o, q) /\ q.pq = o.pq /\ q.alloc = o.alloc /\ q.free = o.free
          /\ q.written = o.written /\ q.offered = o.offered /\ q.done = s
          /\ q.wq = o.wq /\ q.qsize = o.qsize
      BY <3>1 DEF Outs, SameHandle
    <3> QED BY <3>1, <3>2
  <2>3. CASE q = [o EXCEPT !.done = Append(@, Failed(Request(n, n))), !.qsize = n, !.failed = TRUE]
    <3>1. q.failed
      BY <2>3 DEF Outs
    <3> QED BY <3>1
  <2> QED BY <1>4, <2>1, <2>2, <2>3 DEF UvWrite
<1> QED BY <1>1, <1>3, <1>4

\* A write that is done at once.
LEMMA WrittenAtOnce ==
    ASSUME NEW wq, NEW done, NEW pq, NEW qsize, NEW alloc, NEW free, NEW written \in Nat,
           NEW offered \in Nat, Books(wq, done, pq, qsize, alloc, free, written, offered), NEW n \in Nat
    PROVE  Books(wq, done, pq, qsize, alloc, free, written + n, offered + n)
<1>1. PICK a \in Int, b \in Int, c \in Int :
          LensAre(wq, a) /\ LensAre(done, b) /\ LensAre(pq, c) /\ offered = written + (a + b + c)
  BY DEF Books
<1>2. offered + n = (written + n) + (a + b + c)
  BY <1>1
<1> QED BY <1>1, <1>2 DEF Books

\* What is copied, and queued or completed by uv_write, is in the books.
LEMMA QueuedInBooks ==
    ASSUME NEW o \in Outs, Kept(o), NEW p \in Outs, NEW k \in Nat, NEW m \in Nat, m > 0,
           SameHandle(o, p), p.wq = o.wq, p.done = o.done, p.pq = o.pq, p.qsize = o.qsize,
           p.alloc = o.alloc + 1, p.free = o.free, p.written = o.written + k,
           p.offered = o.offered + (k + m),
           NEW q \in UvWrite(p, m), ~q.failed
    PROVE  SameHandle(o, q) /\ q.pq = o.pq /\ Kept(q)
<1>1. /\ SameHandle(p, q) /\ q.pq = p.pq /\ q.alloc = p.alloc /\ q.free = p.free
      /\ q.written = p.written /\ q.offered = p.offered
      /\ \/ /\ q.done = p.done
            /\ \E x \in Nat : x > 0 /\ q.wq = Append(p.wq, Request(m, x)) /\ q.qsize = p.qsize + x
         \/ q.wq = p.wq /\ q.qsize = p.qsize /\ q.done = Append(p.done, Request(m, 0))
  BY UvWriteQueues
<1>2. \A x \in Nat :
         /\ x > 0 => Books(Append(o.wq, Request(m, x)), o.done, o.pq, o.qsize + x, o.alloc + 1, o.free,
                           o.written + k, o.offered + (k + m))
         /\ Books(o.wq, Append(o.done, Request(m, 0)), o.pq, o.qsize, o.alloc + 1, o.free, o.written + k,
                  o.offered + (k + m))
  BY Fields, QueueOne DEF Kept
<1>3. Kept(q)
  <2>1. CASE q.done = p.done /\ \E x \in Nat : x > 0 /\ q.wq = Append(p.wq, Request(m, x))
                                                /\ q.qsize = p.qsize + x
    <3>1. PICK x \in Nat : x > 0 /\ q.wq = Append(p.wq, Request(m, x)) /\ q.qsize = p.qsize + x
      BY <2>1
    <3>2. Books(Append(o.wq, Request(m, x)), o.done, o.pq, o.qsize + x, o.alloc + 1, o.free,
                o.written + k, o.offered + (k + m))
      BY <1>2, <3>1
    <3>3. /\ q.wq = Append(o.wq, Request(m, x)) /\ q.done = o.done /\ q.pq = o.pq
          /\ q.qsize = o.qsize + x /\ q.alloc = o.alloc + 1 /\ q.free = o.free
          /\ q.written = o.written + k /\ q.offered = o.offered + (k + m)
      BY <1>1, <2>1, <3>1
    <3> QED BY <3>2, <3>3 DEF Kept
  <2>2. CASE q.wq = p.wq /\ q.qsize = p.qsize /\ q.done = Append(p.done, Request(m, 0))
    <3>1. Books(o.wq, Append(o.done, Request(m, 0)), o.pq, o.qsize, o.alloc + 1, o.free, o.written + k,
                o.offered + (k + m))
      BY <1>2
    <3>2. /\ q.wq = o.wq /\ q.done = Append(o.done, Request(m, 0)) /\ q.pq = o.pq
          /\ q.qsize = o.qsize /\ q.alloc = o.alloc + 1 /\ q.free = o.free
          /\ q.written = o.written + k /\ q.offered = o.offered + (k + m)
      BY <1>1, <2>2
    <3> QED BY <3>1, <3>2 DEF Kept
  <2> QED BY <1>1, <2>1, <2>2
<1> QED BY <1>1, <1>3 DEF SameHandle

\* A write fails on a handle that is not open, and otherwise the books are kept.
LEMMA WriteKeeps ==
    ASSUME NEW o \in Outs, NEW n \in Nat, n > 0, NEW w \in Write(o, n), ~w.out.failed
    PROVE  /\ SameHandle(o, w.out) /\ o.state = "open" /\ w.r >= 0
           /\ Kept(o) => Kept(w.out) /\ w.out.pq = o.pq
<1>1. /\ o.qsize \in Int /\ o.alloc + 1 \in Nat /\ o.offered + n \in Nat /\ o.written \in Nat
      /\ o.offered \in Nat /\ o.alloc \in Nat
  BY Fields
<1>2. w \notin WriteFails(o)
  <2>1. ASSUME w = [out |-> [o EXCEPT !.failed = TRUE], r |-> 0 - 1] PROVE FALSE
    <3>1. w.out = [o EXCEPT !.failed = TRUE]
      BY <2>1
    <3> QED BY <3>1 DEF Outs
  <2>2. w \in WriteFails(o) => w.out = [o EXCEPT !.failed = TRUE]
    BY DEF WriteFails, Result
  <2> QED BY <2>2 DEF Outs
<1>3. CASE w \in WriteFull(o, n)
  <2>1. PICK x \in Nat, y \in Nat :
           /\ x = o.written + n /\ y = o.offered + n
           /\ o.state = "open" /\ w = [out |-> [o EXCEPT !.written = x, !.offered = y], r |-> n]
    <3>1. o.written + n \in Nat /\ o.offered + n \in Nat
      BY <1>1
    <3> QED BY <1>3, <3>1 DEF WriteFull, Result
  <2>2. w.out = [o EXCEPT !.written = x, !.offered = y] /\ w.r = n
    BY <2>1
  <2>3. /\ SameHandle(o, w.out) /\ w.out.wq = o.wq /\ w.out.done = o.done /\ w.out.pq = o.pq
        /\ w.out.qsize = o.qsize /\ w.out.alloc = o.alloc /\ w.out.free = o.free
        /\ w.out.written = x /\ w.out.offered = y
    BY <2>2 DEF Outs, SameHandle
  <2>4. Kept(o) => Books(o.wq, o.done, o.pq, o.qsize, o.alloc, o.free, x, y)
    BY <1>1, <2>1, WrittenAtOnce DEF Kept
  <2> QED BY <2>1, <2>2, <2>3, <2>4 DEF Kept
<1>4. CASE w \in WriteIncomplete(o, n)
  <2>1. o.state = "open"
    BY <1>4 DEF WriteIncomplete
  <2>2. PICK k \in 1 .. n - 1 :
          \E q \in UvWrite([Queued(o) EXCEPT !.written = @ + k, !.offered = @ + n], n - k) :
             w = Result(q, k)
    BY <1>4 DEF WriteIncomplete
  <2> DEFINE p == [Queued(o) EXCEPT !.written = @ + k, !.offered = @ + n]
  <2>3. PICK x \in Nat, y \in Nat, z \in Nat :
          /\ p = [o EXCEPT !.alloc = z, !.blocked = TRUE, !.written = x, !.offered = y]
          /\ x = o.written + k /\ y = o.offered + n /\ z = o.alloc + 1
    <3>1. o.written + k \in Nat
      BY <1>1
    <3>2. p = [o EXCEPT !.alloc = o.alloc + 1, !.blocked = TRUE, !.written = o.written + k,
                        !.offered = o.offered + n]
      BY DEF Queued, Outs
    <3> QED BY <1>1, <3>1, <3>2
  <2>4. p \in Outs
    BY <2>3 DEF Outs
  <2>5. /\ SameHandle(o, p) /\ p.wq = o.wq /\ p.done = o.done /\ p.pq = o.pq /\ p.qsize = o.qsize
        /\ p.free = o.free /\ p.alloc = z /\ p.written = x /\ p.offered = y
    BY <2>3 DEF Outs, SameHandle
  <2>6. PICK q \in UvWrite(p, n - k) : w = Result(q, k)
    BY <2>2
  <2> HIDE DEF p
  <2>7. PICK m \in Nat : m = n - k /\ m > 0 /\ n = k + m
    <3>1. n - k \in Nat /\ n - k > 0 /\ n = k + (n - k)
      OBVIOUS
    <3> QED BY <3>1
  <2>8. w.out = q /\ w.r = k /\ k \in Nat
    BY <2>6 DEF Result
  <2>9. /\ p.alloc = o.alloc + 1 /\ p.written = o.written + k /\ p.offered = o.offered + (k + m)
        /\ q \in UvWrite(p, m) /\ ~q.failed
    BY <2>3, <2>5, <2>6, <2>7, <2>8
  <2>10. Kept(o) => SameHandle(o, q) /\ q.pq = o.pq /\ Kept(q)
    BY <2>4, <2>5, <2>7, <2>8, <2>9, QueuedInBooks
  <2>11. SameHandle(o, q)
    BY <2>4, <2>5, <2>7, <2>9, UvWriteQueues DEF SameHandle
  <2> QED BY <2>1, <2>8, <2>10, <2>11
<1>5. CASE w \in WriteEagain(o, n)
  <2> DEFINE p == [Queued(o) EXCEPT !.offered = @ + n]
  <2>1. o.state = "open" /\ \E q \in UvWrite(p, n) : w = Result(q, 0)
    BY <1>5 DEF WriteEagain
  <2>2. PICK q \in UvWrite(p, n) : w = Result(q, 0)
    BY <2>1
  <2>3. PICK y \in Nat, z \in Nat :
          /\ p = [o EXCEPT !.alloc = z, !.blocked = TRUE, !.offered = y]
          /\ y = o.offered + n /\ z = o.alloc + 1
    <3>1. p = [o EXCEPT !.alloc = o.alloc + 1, !.blocked = TRUE, !.offered = o.offered + n]
      BY DEF Queued, Outs
    <3> QED BY <1>1, <3>1
  <2>4. p \in Outs
    BY <2>3 DEF Outs
  <2>5. /\ SameHandle(o, p) /\ p.wq = o.wq /\ p.done = o.done /\ p.pq = o.pq /\ p.qsize = o.qsize
        /\ p.free = o.free /\ p.alloc = z /\ p.written = o.written /\ p.offered = y
    BY <2>3 DEF Outs, SameHandle
  <2> HIDE DEF p
  <2>6. w.out = q /\ w.r = 0 /\ ~q.failed
    BY <2>2 DEF Result
  <2>7. p.alloc = o.alloc + 1 /\ p.written = o.written + 0 /\ p.offered = o.offered + (0 + n)
    BY <1>1, <2>3, <2>5
  <2>8. Kept(o) => SameHandle(o, q) /\ q.pq = o.pq /\ Kept(q)
    BY <2>2, <2>4, <2>5, <2>6, <2>7, QueuedInBooks
  <2>9. SameHandle(o, q)
    BY <2>2, <2>4, <2>5, <2>6, UvWriteQueues DEF SameHandle
  <2> QED BY <2>1, <2>6, <2>8, <2>9
<1> QED BY <1>2, <1>3, <1>4, <1>5 DEF Write

-----------------------------------------------------------------------------
(* The flags of the two handles.  stdin is paused before it is closed and  *)
(* never while it closes, so a drain event cannot start it again; stdout   *)
(* is closed once, with an empty queue, and by nothing but stdin's onClose.*)

InOnce(i) ==
    /\ i.reading => ~i.paused /\ i.state = "open"
    /\ i.pauses = IF i.paused THEN i.resumes ELSE i.resumes - 1
    /\ i.state # "open" => ~i.paused
    /\ i.closes = IF i.state = "freed" THEN 1 ELSE 0
    /\ i.state # "aborted"

OutOnce(o) ==
    /\ o.state \in {"open", "closing", "freed"}
    /\ o.closing => o.state = "open"
    /\ o.state # "open" => o.wq = <<>>
    /\ o.closes = IF o.state = "freed" THEN 1 ELSE 0

\* Nothing closes stdout while stdin is not closed, unless a write fails.
Follows(i, o) == i.state # "freed" => o.state = "open" /\ ~o.closing

StatsInv == InOnce(in) /\ (out.failed \/ (Kept(out) /\ OutOnce(out) /\ Follows(in, out)))

LEMMA ResumeOnce ==
    ASSUME NEW i \in Ins, InOnce(i)
    PROVE  InOnce(Resume(i)) /\ Resume(i).state = i.state
<1>1. CASE i.paused
  <2>1. i.state = "open"
    BY <1>1 DEF InOnce
  <2>2. PICK x \in Nat, y \in Nat : x = i.resumes /\ y = i.pauses /\ x = y
    BY <1>1 DEF InOnce, Ins
  <2>3. PICK z \in Nat : z = x + 1
    BY <2>2
  <2>4. Resume(i) = [i EXCEPT !.resumes = z, !.paused = FALSE, !.reading = TRUE, !.state = "open"]
    BY <1>1, <2>1, <2>2, <2>3 DEF Resume
  <2>5. /\ Resume(i).state = "open" /\ ~Resume(i).paused /\ Resume(i).pauses = y
        /\ Resume(i).resumes = z /\ Resume(i).closes = i.closes
    BY <2>2, <2>4 DEF Ins
  <2>6. y = z - 1
    BY <2>2, <2>3
  <2>7. i.closes = 0
    BY <2>1 DEF InOnce
  <2> QED BY <2>1, <2>5, <2>6, <2>7 DEF InOnce
<1>2. CASE ~i.paused
  BY <1>2 DEF Resume
<1> QED BY <1>1, <1>2

LEMMA PauseOnce ==
    ASSUME NEW i \in Ins, InOnce(i), i.reading
    PROVE  InOnce(Pause(i)) /\ Pause(i).state = i.state
<1>1. i.state = "open" /\ ~i.paused /\ i.closes = 0
  BY DEF InOnce
<1>2. PICK x \in Nat, y \in Nat : x = i.resumes /\ y = i.pauses /\ y = x - 1
  BY <1>1 DEF InOnce, Ins
<1>3. Pause(i) = [i EXCEPT !.pauses = x, !.reading = FALSE, !.paused = TRUE]
  <2>1. y + 1 = x
    BY <1>2
  <2> QED BY <1>2, <2>1 DEF Pause
<1>4. /\ Pause(i).state = "open" /\ Pause(i).paused /\ Pause(i).pauses = x
      /\ Pause(i).resumes = x /\ Pause(i).closes = 0 /\ ~Pause(i).reading
  BY <1>1, <1>2, <1>3 DEF Ins
<1> QED BY <1>1, <1>4 DEF InOnce

\* A failed handle is closed failed.
LEMMA CloseFailed == ASSUME NEW o \in Outs, NEW b \in BOOLEAN PROVE Close(o, b).failed = o.failed
BY DEF Close, UvClose, Outs

\* The same books on the same handle.
LEMMA SameOnce ==
    ASSUME NEW i, NEW o \in Outs, OutOnce(o), Follows(i, o), o.state = "open",
           NEW q \in Outs, SameHandle(o, q), NEW j, j.state = i.state
    PROVE  OutOnce(q) /\ Follows(j, q)
BY DEF OutOnce, Follows, SameHandle

LEMMA PromptsKeep ==
    ASSUME NEW o \in Outs, NEW len \in Nat, in \in Ins, InOnce(in), in.reading,
           o.failed \/ (Kept(o) /\ OutOnce(o) /\ Follows(in, o)), Prompts(o, len)
    PROVE  StatsInv'
<1> USE SizesAssumption
<1>1. PICK w \in Write(o, PromptLen) :
        \/ w.r < 0 /\ out' = Close(w.out, w.out.qsize > 0) /\ in' = in
        \/ w.r >= 0 /\ out' = w.out
           /\ in' = IF TooMuch(w.out, w.r, len) THEN Pause(in) ELSE in
  BY DEF Prompts
<1>2. w.out \in Outs
  BY WriteAdds
<1>3. InOnce(in') /\ in'.state = in.state
  BY <1>1, PauseOnce
<1>4. CASE w.out.failed
  <2>1. out'.failed
    BY <1>1, <1>2, <1>4, CloseFailed, (w.out.qsize > 0) \in BOOLEAN
  <2> QED BY <1>3, <2>1 DEF StatsInv
<1>5. CASE ~w.out.failed
  <2>1. SameHandle(o, w.out) /\ o.state = "open" /\ w.r >= 0 /\ (Kept(o) => Kept(w.out))
    BY <1>5, WriteKeeps
  <2>2. out' = w.out
    BY <1>1, <1>2, <2>1, WriteAdds
  <2>3. Kept(o) /\ OutOnce(o) /\ Follows(in, o)
    BY <1>5, <2>1 DEF SameHandle
  <2>4. Kept(w.out) /\ OutOnce(w.out) /\ Follows(in', w.out)
    BY <1>2, <1>3, <2>1, <2>3, SameOnce
  <2> QED BY <1>3, <2>2, <2>4 DEF StatsInv
<1> QED BY <1>4, <1>5

LEMMA StartKeeps == IInv /\ StatsInv /\ Start => StatsInv'
<1> SUFFICES ASSUME IInv, StatsInv, Start PROVE StatsInv'
  OBVIOUS
<1> USE SizesAssumption
<1>1. in \in Ins /\ out \in Outs /\ InOnce(in)
  BY DEF IInv, Typed, StatsInv
<1>2. PICK w \in Write(out, PromptLen) :
        \/ w.r < 0 /\ out' = Close(w.out, w.out.qsize > 0) /\ in' = in
        \/ w.r >= 0 /\ out' = w.out /\ in' = Resume(in)
  BY DEF Start
<1>3. w.out \in Outs /\ w.r \in Int
  BY <1>1, WriteAdds
<1>4. InOnce(in') /\ in'.state = in.state
  BY <1>1, <1>2, ResumeOnce
<1>5. CASE w.out.failed
  <2>1. out'.failed
    BY <1>2, <1>3, <1>5, CloseFailed, (w.out.qsize > 0) \in BOOLEAN
  <2> QED BY <1>4, <2>1 DEF StatsInv
<1>6. CASE ~w.out.failed
  <2>1. SameHandle(out, w.out) /\ out.state = "open" /\ w.r >= 0 /\ (Kept(out) => Kept(w.out))
    BY <1>1, <1>6, WriteKeeps
  <2>2. out' = w.out
    BY <1>2, <1>3, <2>1
  <2>3. Kept(out) /\ OutOnce(out) /\ Follows(in, out)
    BY <1>6, <2>1 DEF SameHandle, StatsInv
  <2>4. Kept(w.out) /\ OutOnce(w.out) /\ Follows(in', w.out)
    BY <1>1, <1>3, <1>4, <2>1, <2>3, SameOnce
  <2> QED BY <1>4, <2>2, <2>4 DEF StatsInv
<1> QED BY <1>5, <1>6

LEMMA ReadChunkKeeps ==
    ASSUME NEW len \in ChunkLens
    PROVE  IInv /\ StatsInv /\ ReadChunk(len) => StatsInv'
<1> SUFFICES ASSUME IInv, StatsInv, ReadChunk(len) PROVE StatsInv'
  OBVIOUS
<1> USE SizesAssumption
<1>1. in \in Ins /\ out \in Outs /\ InOnce(in) /\ in.reading /\ len \in Nat
  BY DEF IInv, Typed, StatsInv, ReadChunk, Readable
<1>2. CASE Prompts(out, len)
  BY <1>1, <1>2, PromptsKeep DEF StatsInv
<1>3. ASSUME NEW n \in 1 .. MaxPayload, NEW w \in Write(out, n),
             \/ w.r < 0 /\ out' = Close(w.out, w.out.qsize > 0) /\ in' = in
             \/ w.r >= 0 /\ Prompts(w.out, len)
      PROVE  StatsInv'
  <2>1. n \in Nat /\ n > 0
    OBVIOUS
  <2>2. w.out \in Outs /\ w.r \in Int
    BY <1>1, <2>1, WriteAdds
  <2>3. w.out.failed \/ (w.r >= 0 /\ Kept(w.out) /\ OutOnce(w.out) /\ Follows(in, w.out))
    <3>1. CASE ~w.out.failed
      <4>1. SameHandle(out, w.out) /\ out.state = "open" /\ w.r >= 0 /\ (Kept(out) => Kept(w.out))
        BY <1>1, <2>1, <3>1, WriteKeeps
      <4>2. Kept(out) /\ OutOnce(out) /\ Follows(in, out)
        BY <3>1, <4>1 DEF SameHandle, StatsInv
      <4> QED BY <1>1, <2>2, <4>1, <4>2, SameOnce
    <3> QED BY <3>1
  <2>4. CASE w.r < 0 /\ out' = Close(w.out, w.out.qsize > 0) /\ in' = in
    <3>2. w.out.failed
      BY <2>2, <2>3, <2>4
    <3>3. Close(w.out, w.out.qsize > 0).failed = w.out.failed
      BY <2>2, CloseFailed, (w.out.qsize > 0) \in BOOLEAN
    <3>1. out'.failed
      BY <2>4, <3>2, <3>3
    <3> QED BY <1>1, <2>4, <3>1 DEF StatsInv
  <2>5. CASE Prompts(w.out, len)
    BY <1>1, <2>2, <2>3, <2>5, PromptsKeep
  <2> QED BY <1>3, <2>4, <2>5
<1> QED BY <1>2, <1>3 DEF ReadChunk

LEMMA ReadEndsKeeps == IInv /\ StatsInv /\ ReadEnds => StatsInv'
<1> SUFFICES ASSUME IInv, StatsInv, ReadEnds PROVE StatsInv'
  OBVIOUS
<1>1. in \in Ins /\ InOnce(in) /\ in.reading /\ in.state = "open" /\ out' = out /\ in' = CloseIn(in)
  BY DEF IInv, Typed, StatsInv, ReadEnds, Readable
<1>2. /\ in'.state = "closing" /\ ~in'.reading /\ in'.paused = in.paused /\ in'.pauses = in.pauses
      /\ in'.resumes = in.resumes /\ in'.closes = in.closes
  BY <1>1 DEF CloseIn, UvClose, Ins
<1>3. InOnce(in')
  BY <1>1, <1>2 DEF InOnce
<1> QED BY <1>1, <1>2, <1>3 DEF StatsInv, Follows

\* onClose of stdin closes stdout, or leaves that to after_write.
LEMMA InClosedKeeps == IInv /\ StatsInv /\ InClosed => StatsInv'
<1> SUFFICES ASSUME IInv, StatsInv, InClosed PROVE StatsInv'
  OBVIOUS
<1>1. /\ in \in Ins /\ out \in Outs /\ InOnce(in) /\ in.state = "closing"
      /\ in' = [in EXCEPT !.state = "freed", !.closes = @ + 1]
      /\ out' = Close(out, out.qsize > 0)
  BY DEF IInv, Typed, StatsInv, InClosed
<1>2. in.closes = 0 /\ ~in.paused /\ ~in.reading
  BY <1>1 DEF InOnce
<1>3. in' = [in EXCEPT !.state = "freed", !.closes = 1]
  BY <1>1, <1>2
<1>4. /\ in'.state = "freed" /\ in'.closes = 1 /\ in'.paused = in.paused /\ in'.pauses = in.pauses
      /\ in'.resumes = in.resumes /\ in'.reading = in.reading
  BY <1>1, <1>3 DEF Ins
<1>5. InOnce(in') /\ Follows(in', out')
  BY <1>1, <1>2, <1>4 DEF InOnce, Follows
<1>6. CASE out.failed
  <2>1. out'.failed
    BY <1>1, <1>6, CloseFailed, (out.qsize > 0) \in BOOLEAN
  <2> QED BY <1>5, <2>1 DEF StatsInv
<1>7. CASE ~out.failed
  <2>1. Kept(out) /\ OutOnce(out) /\ out.state = "open" /\ ~out.closing
    BY <1>1, <1>7 DEF StatsInv, Follows
  <2>2. out' = (IF out.qsize > 0 THEN [out EXCEPT !.closing = TRUE]
                ELSE [out EXCEPT !.state = "closing", !.closing = FALSE])
    BY <1>1, <2>1 DEF Close, UvClose
  <2>3. /\ out'.wq = out.wq /\ out'.done = out.done /\ out'.pq = out.pq /\ out'.qsize = out.qsize
        /\ out'.alloc = out.alloc /\ out'.free = out.free /\ out'.written = out.written
        /\ out'.offered = out.offered /\ out'.closes = out.closes
        /\ out'.closing => out.qsize > 0
        /\ out'.state = IF out.qsize > 0 THEN "open" ELSE "closing"
    <3>1. CASE out.qsize > 0
      BY <1>1, <2>1, <2>2, <3>1 DEF Outs
    <3>2. CASE ~(out.qsize > 0)
      <4>1. out' = [out EXCEPT !.state = "closing", !.closing = FALSE]
        BY <2>2, <3>2
      <4>2. /\ out'.wq = out.wq /\ out'.done = out.done /\ out'.pq = out.pq /\ out'.qsize = out.qsize
            /\ out'.alloc = out.alloc /\ out'.free = out.free /\ out'.written = out.written
            /\ out'.offered = out.offered /\ out'.closes = out.closes
            /\ out'.closing = FALSE /\ out'.state = "closing"
        BY <1>1, <4>1 DEF Outs
      <4> QED BY <3>2, <4>2
    <3> QED BY <3>1, <3>2
  <2>4. Kept(out')
    BY <2>1, <2>3 DEF Kept
  <2>5. ~(out.qsize > 0) => out.wq = <<>>
    BY <1>1, <2>1, KeptEmpty, Fields
  <2>6. OutOnce(out')
    BY <2>1, <2>3, <2>5 DEF OutOnce
  <2> QED BY <1>5, <2>4, <2>6 DEF StatsInv
<1> QED BY <1>6, <1>7

LEMMA FlushKeeps == IInv /\ StatsInv /\ Flush => StatsInv'
<1> SUFFICES ASSUME IInv, StatsInv, Flush PROVE StatsInv'
  OBVIOUS
<1>1. /\ in' = in /\ out \in Outs /\ out.wq # <<>> /\ out.pq = <<>> /\ out.state = "open"
      /\ out.wq \in Seq(Requests) /\ out.done \in Seq(Requests) /\ out.qsize \in Int
      /\ out.alloc \in Nat /\ out.free \in Nat /\ out.written \in Nat /\ out.offered \in Nat
  BY Fields DEF IInv, Typed, Flush, Waiting
<1> DEFINE r == Head(out.wq)
<1>2. r = out.wq[1]
  BY <1>1, SumsTail
<1>3. \A q : out.done \o <<q>> = Append(out.done, q)
  BY <1>1
<1>4. \/ \E k \in 1 .. r.rest :
             out' = [out EXCEPT !.wq[1].rest = k, !.qsize = @ - (r.rest - k),
                                !.pq = out.done, !.done = <<>>]
      \/ out' = [out EXCEPT !.wq = Tail(@), !.qsize = @ - r.rest,
                            !.pq = Append(out.done, Request(r.len, 0)), !.done = <<>>]
      \/ out' = [out EXCEPT !.wq = Tail(@), !.failed = TRUE,
                            !.pq = Append(out.done, Failed(r)), !.done = <<>>]
  BY <1>3 DEF Flush
<1>5. InOnce(in')
  BY <1>1 DEF StatsInv
<1>6. ASSUME NEW s, NEW m, NEW d, out' = [out EXCEPT !.wq = s, !.qsize = m, !.pq = d, !.done = <<>>],
             ~out.failed => Books(s, <<>>, d, m, out.alloc, out.free, out.written, out.offered)
      PROVE  StatsInv'
  <2>1. /\ out'.wq = s /\ out'.done = <<>> /\ out'.pq = d /\ out'.qsize = m
        /\ out'.alloc = out.alloc /\ out'.free = out.free /\ out'.written = out.written
        /\ out'.offered = out.offered /\ out'.closes = out.closes
        /\ out'.closing = out.closing /\ out'.state = out.state /\ out'.failed = out.failed
    BY <1>1, <1>6 DEF Outs
  <2>2. ~out.failed => Kept(out')
    BY <1>6, <2>1 DEF Kept
  <2>3. ~out.failed => OutOnce(out') /\ Follows(in', out')
    BY <1>1, <2>1 DEF OutOnce, Follows, StatsInv
  <2> QED BY <1>5, <2>1, <2>2, <2>3 DEF StatsInv
<1>7. ~out.failed => Books(out.wq, out.done, <<>>, out.qsize, out.alloc, out.free, out.written, out.offered)
  BY <1>1 DEF StatsInv, Kept
<1>8. CASE \E k \in 1 .. r.rest :
             out' = [out EXCEPT !.wq[1].rest = k, !.qsize = @ - (r.rest - k),
                                !.pq = out.done, !.done = <<>>]
  <2>1. PICK k \in 1 .. r.rest :
             out' = [out EXCEPT !.wq[1].rest = k, !.qsize = @ - (r.rest - k),
                                !.pq = out.done, !.done = <<>>]
    BY <1>8
  <2>2. out' = [out EXCEPT !.wq = WithLeft(out.wq, k), !.qsize = out.qsize - (r.rest - k),
                           !.pq = out.done, !.done = <<>>]
    BY <2>1 DEF WithLeft
  <2>3. k \in Nat /\ k > 0
    <3>1. r.rest \in Nat
      BY <1>1, <1>2, SumsTail, QueueFields
    <3> QED BY <3>1
  <2>4. ~out.failed => Books(WithLeft(out.wq, k), <<>>, out.done, out.qsize - (r.rest - k), out.alloc,
                             out.free, out.written, out.offered)
    BY <1>1, <1>2, <1>7, <2>3, Flushed
  <2> HIDE DEF r
  <2> QED BY <1>6, <2>2, <2>4
<1>9. CASE out' = [out EXCEPT !.wq = Tail(@), !.qsize = @ - r.rest,
                              !.pq = Append(out.done, Request(r.len, 0)), !.done = <<>>]
  <2>1. out' = [out EXCEPT !.wq = Tail(out.wq), !.qsize = out.qsize - r.rest,
                           !.pq = Append(out.done, Request(r.len, 0)), !.done = <<>>]
    BY <1>9
  <2>2. ~out.failed => Books(Tail(out.wq), <<>>, Append(out.done, Request(r.len, 0)),
                             out.qsize - r.rest, out.alloc, out.free, out.written, out.offered)
    BY <1>1, <1>2, <1>7, Flushed
  <2> HIDE DEF r
  <2> QED BY <1>6, <2>1, <2>2
<1>10. CASE out' = [out EXCEPT !.wq = Tail(@), !.failed = TRUE,
                               !.pq = Append(out.done, Failed(r)), !.done = <<>>]
  <2>1. out'.failed
    BY <1>1, <1>10 DEF Outs
  <2> QED BY <1>5, <2>1 DEF StatsInv
<1> QED BY <1>4, <1>8, <1>9, <1>10

LEMMA CallsBackKeeps == IInv /\ StatsInv /\ CallsBack => StatsInv'
<1> SUFFICES ASSUME IInv, StatsInv, CallsBack PROVE StatsInv'
  OBVIOUS
<1>1. /\ in' = in /\ out \in Outs /\ out.pq = <<>>
      /\ out' = [out EXCEPT !.pq = out.done, !.done = <<>>]
  BY DEF IInv, Typed, CallsBack, Waiting
<1>2. /\ out'.wq = out.wq /\ out'.done = <<>> /\ out'.pq = out.done /\ out'.qsize = out.qsize
      /\ out'.alloc = out.alloc /\ out'.free = out.free /\ out'.written = out.written
      /\ out'.offered = out.offered /\ out'.closes = out.closes
      /\ out'.closing = out.closing /\ out'.state = out.state /\ out'.failed = out.failed
  BY <1>1 DEF Outs
<1>3. ~out.failed => Kept(out')
  <2>1. ~out.failed => Books(out.wq, out.done, <<>>, out.qsize, out.alloc, out.free, out.written, out.offered)
    BY <1>1 DEF StatsInv, Kept
  <2>2. ~out.failed => Books(out.wq, <<>>, out.done, out.qsize, out.alloc, out.free, out.written, out.offered)
    BY <1>1, <2>1, Fields, Flushed
  <2> QED BY <1>2, <2>2 DEF Kept
<1>4. ~out.failed => OutOnce(out') /\ Follows(in', out')
  BY <1>1, <1>2 DEF OutOnce, Follows, StatsInv
<1> QED BY <1>1, <1>2, <1>3, <1>4 DEF StatsInv

LEMMA OutClosedKeeps == IInv /\ StatsInv /\ OutClosed => StatsInv'
<1> SUFFICES ASSUME IInv, StatsInv, OutClosed PROVE StatsInv'
  OBVIOUS
<1>1. /\ in' = in /\ out \in Outs /\ out.state = "closing"
      /\ out' = [out EXCEPT !.state = "freed", !.closes = @ + 1]
  BY DEF IInv, Typed, OutClosed
<1>2. PICK c : c = out.closes + 1 /\ out' = [out EXCEPT !.state = "freed", !.closes = c]
  BY <1>1
<1>3. /\ out'.wq = out.wq /\ out'.done = out.done /\ out'.pq = out.pq /\ out'.qsize = out.qsize
      /\ out'.alloc = out.alloc /\ out'.free = out.free /\ out'.written = out.written
      /\ out'.offered = out.offered /\ out'.closes = c
      /\ out'.closing = out.closing /\ out'.state = "freed" /\ out'.failed = out.failed
  BY <1>1, <1>2 DEF Outs
<1>4. CASE ~out.failed
  <2>1. Kept(out')
    BY <1>3, <1>4 DEF StatsInv, Kept
  <2>2. out.closes = 0 /\ ~out.closing /\ out.wq = <<>> /\ in.state = "freed"
    BY <1>1, <1>4 DEF StatsInv, OutOnce, Follows
  <2>3. c = 1
    BY <1>2, <2>2
  <2>4. OutOnce(out') /\ Follows(in', out')
    BY <1>1, <1>3, <2>2, <2>3 DEF OutOnce, Follows
  <2> QED BY <1>1, <2>1, <2>4 DEF StatsInv
<1> QED BY <1>1, <1>3, <1>4 DEF StatsInv

\* after_write: the copy is freed and its bytes are counted, and the flushed handle that
\* was to be closed is closed.
LEMMA AfterWriteKeeps == IInv /\ StatsInv /\ AfterWrite => StatsInv'
<1> SUFFICES ASSUME IInv, StatsInv, AfterWrite PROVE StatsInv'
  OBVIOUS
<1> DEFINE r == Head(out.pq)
           o == [out EXCEPT !.pq = Tail(@), !.qsize = @ - Uncounted(r)]
           flushed == r.ok /\ o.qsize = 0
           drains == flushed /\ o.blocked
           p == [o EXCEPT !.blocked = @ /\ ~drains, !.written = @ + (IF r.ok THEN r.len ELSE 0)]
           c == IF flushed /\ o.closing THEN [UvClose(p) EXCEPT !.closing = FALSE] ELSE p
<1>1. in \in Ins /\ out \in Outs /\ out.pq # <<>> /\ InOnce(in)
  BY DEF IInv, Typed, StatsInv, AfterWrite
<1>2. in' = (IF drains THEN Resume(in) ELSE in) /\ out' = Freed(c, r)
  BY DEF AfterWrite
<1>3. InOnce(in') /\ in'.state = in.state
  <2> HIDE DEF drains
  <2> QED BY <1>1, <1>2, ResumeOnce
<1>4. out.failed => out'.failed
  BY <1>1, <1>2 DEF Outs, Freed, UvClose
<1>5. CASE ~out.failed
  <2>1. Kept(out) /\ OutOnce(out) /\ Follows(in, out)
    BY <1>5 DEF StatsInv
  <2>2. /\ out.wq \in Seq(Requests) /\ out.done \in Seq(Requests) /\ out.pq \in Seq(Requests)
        /\ out.qsize \in Int /\ out.alloc \in Nat /\ out.free \in Nat /\ out.written \in Nat
        /\ out.offered \in Nat
    BY <1>1, Fields
  <2>3. r = out.pq[1]
    BY <1>1, <2>2, SumsTail
  <2>4. r.ok /\ Books(out.wq, out.done, Tail(out.pq), out.qsize, out.alloc, out.free + 1,
                      out.written + r.len, out.offered)
    BY <1>1, <2>1, <2>2, <2>3, WrittenAndFreed DEF Kept
  <2>5. Uncounted(r) = 0
    BY <2>4 DEF Uncounted
  <2>6. PICK s, x, y : s = Tail(out.pq) /\ x = out.free + 1 /\ y = out.written + r.len
    OBVIOUS
  <2>7. o = [out EXCEPT !.pq = s]
    <3>1. out.qsize - Uncounted(r) = out.qsize
      BY <2>2, <2>5
    <3>2. o = [out EXCEPT !.pq = s, !.qsize = out.qsize]
      BY <2>6, <3>1
    <3> HIDE DEF o
    <3> QED BY <1>1, <3>2 DEF Outs
  <2>8. /\ o.state = out.state /\ o.closing = out.closing /\ o.closes = out.closes
        /\ o.wq = out.wq /\ o.done = out.done /\ o.pq = s /\ o.qsize = out.qsize
        /\ o.alloc = out.alloc /\ o.free = out.free /\ o.written = out.written /\ o.offered = out.offered
        /\ DOMAIN o = DOMAIN out
    <3> HIDE DEF o
    <3> QED BY <1>1, <2>7 DEF Outs
  <2>9. PICK b : p = [o EXCEPT !.blocked = b, !.written = y]
    <3>1. p = [o EXCEPT !.blocked = o.blocked /\ ~drains, !.written = out.written + r.len]
      <4> HIDE DEF o, drains
      <4> QED BY <2>4, <2>8
    <3> QED BY <2>6, <3>1
  <2>10. p = [out EXCEPT !.pq = s, !.blocked = b, !.written = y]
    <3> HIDE DEF p, o
    <3> QED BY <2>7, <2>9
  <2> HIDE DEF p, o, r
  <2>11. CASE ~(flushed /\ o.closing)
    <3>1. out' = [p EXCEPT !.free = x]
      <4>1. out' = [p EXCEPT !.free = @ + 1]
        BY <1>2, <2>11 DEF Freed
      <4>2. p.free = out.free
        BY <1>1, <2>10 DEF Outs
      <4> QED BY <2>6, <4>1, <4>2
    <3>2. /\ out'.wq = out.wq /\ out'.done = out.done /\ out'.pq = s /\ out'.qsize = out.qsize
          /\ out'.alloc = out.alloc /\ out'.free = x /\ out'.written = y
          /\ out'.offered = out.offered /\ out'.closes = out.closes
          /\ out'.closing = out.closing /\ out'.state = out.state
      BY <1>1, <2>10, <3>1 DEF Outs
    <3>3. Kept(out')
      BY <2>4, <2>6, <3>2 DEF Kept
    <3>4. OutOnce(out') /\ Follows(in', out')
      BY <1>3, <2>1, <3>2 DEF OutOnce, Follows
    <3> QED BY <1>3, <3>3, <3>4 DEF StatsInv
  <2>12. CASE flushed /\ o.closing
    <3>1. out.state = "open" /\ out.closing /\ out.wq = <<>> /\ out.closes = 0 /\ in.state = "freed"
      <4>1. out.closing /\ out.qsize = 0
        BY <2>8, <2>12
      <4> QED BY <1>1, <2>1, <4>1, KeptEmpty DEF OutOnce, Follows
    <3>2. out' = [p EXCEPT !.state = "closing", !.closing = FALSE, !.free = x]
      <4>1. p.state = "open" /\ p.free = out.free
        BY <1>1, <2>10, <3>1 DEF Outs
      <4>2. out' = Freed([UvClose(p) EXCEPT !.closing = FALSE], r)
        BY <1>2, <2>12
      <4>3. UvClose(p) = [p EXCEPT !.state = "closing"]
        BY <4>1 DEF UvClose
      <4>4. out' = [[[p EXCEPT !.state = "closing"] EXCEPT !.closing = FALSE] EXCEPT !.free = @ + 1]
        BY <4>2, <4>3 DEF Freed
      <4>5. [[p EXCEPT !.state = "closing"] EXCEPT !.closing = FALSE].free = out.free
        BY <1>1, <2>10 DEF Outs
      <4> QED BY <2>6, <4>4, <4>5
    <3>3. /\ out'.wq = out.wq /\ out'.done = out.done /\ out'.pq = s /\ out'.qsize = out.qsize
          /\ out'.alloc = out.alloc /\ out'.free = x /\ out'.written = y
          /\ out'.offered = out.offered /\ out'.closes = out.closes
          /\ ~out'.closing /\ out'.state = "closing"
      BY <1>1, <2>10, <3>2 DEF Outs
    <3>4. Kept(out')
      BY <2>4, <2>6, <3>3 DEF Kept
    <3>5. OutOnce(out') /\ Follows(in', out')
      BY <1>3, <3>1, <3>3 DEF OutOnce, Follows
    <3> QED BY <1>3, <3>4, <3>5 DEF StatsInv
  <2> QED BY <2>11, <2>12
<1> QED BY <1>3, <1>4, <1>5 DEF StatsInv

LEMMA StatsKept == Spec => []StatsInv
<1>1. Init => StatsInv
  <2> SUFFICES ASSUME Init PROVE StatsInv
    OBVIOUS
  <2>1. InOnce(in) /\ OutOnce(out) /\ Follows(in, out)
    BY DEF Init, InOnce, OutOnce, Follows
  <2>2. /\ out.wq = <<>> /\ out.done = <<>> /\ out.pq = <<>> /\ out.qsize = 0
        /\ out.alloc = 0 /\ out.free = 0 /\ out.written = 0 /\ out.offered = 0
    BY DEF Init
  <2>3. Books(<<>>, <<>>, <<>>, 0, 0, 0, 0, 0)
    <3>1. Len(<<>>) = 0 /\ RestsAre(<<>>, 0)
      <4>1. Len(<<>>) = 0
        OBVIOUS
      <4> QED BY <4>1, NoneAddUp DEF RestsAre
    <3>2. 0 = 0 + (0 + 0 + 0)
      OBVIOUS
    <3> QED BY <3>1, <3>2, NoneQueued DEF Books
  <2> QED BY <2>1, <2>2, <2>3 DEF StatsInv, Kept
<1>2. IInv /\ StatsInv /\ [Next]_vars => StatsInv'
  <2> SUFFICES ASSUME IInv, StatsInv, [Next]_vars PROVE StatsInv'
    OBVIOUS
  <2>1. CASE UNCHANGED vars
    BY <2>1 DEF vars, StatsInv
  <2>2. CASE Next
    BY <2>2, StartKeeps, ReadChunkKeeps, ReadEndsKeeps, InClosedKeeps, FlushKeeps, CallsBackKeeps,
       AfterWriteKeeps, OutClosedKeeps DEF Next
  <2> QED BY <2>1, <2>2
<1> QED BY <1>1, <1>2, Invariant, PTL DEF Spec

\* When stdin is closed, stdout closing or closed with nothing queued, and no write has
\* failed: every copy was freed, every byte offered was written, once, each pause was
\* undone, stdin was closed once and stdout not twice.
THEOREM StatisticsAgree == Spec => []StatsAgree
<1>1. IInv /\ StatsInv => StatsAgree
  <2> SUFFICES ASSUME IInv, StatsInv, in.state = "freed", out.state # "open", out.done = <<>>,
                      out.pq = <<>>, ~out.failed
               PROVE  /\ out.alloc = out.free /\ out.written = out.offered
                      /\ in.pauses = in.resumes - 1
                      /\ in.closes = 1 /\ out.state # "aborted" /\ out.closes <= 1
    BY DEF StatsAgree
  <2>1. InOnce(in) /\ Kept(out) /\ OutOnce(out) /\ out \in Outs
    BY DEF StatsInv, IInv, Typed
  <2>2. out.wq = <<>>
    BY <2>1 DEF OutOnce
  <2>3. Books(<<>>, <<>>, <<>>, out.qsize, out.alloc, out.free, out.written, out.offered)
    BY <2>1, <2>2 DEF Kept
  <2>4. out.alloc \in Nat /\ out.free \in Nat /\ out.written \in Nat /\ out.offered \in Nat
    BY <2>1, Fields
  <2>5. \A alloc, free, written, offered \in Nat :
           Books(<<>>, <<>>, <<>>, out.qsize, alloc, free, written, offered)
              => alloc = free /\ written = offered
    <3> SUFFICES ASSUME NEW alloc \in Nat, NEW free \in Nat, NEW written \in Nat, NEW offered \in Nat,
                        Books(<<>>, <<>>, <<>>, out.qsize, alloc, free, written, offered)
                 PROVE  alloc = free /\ written = offered
      OBVIOUS
    <3>1. Len(<<>>) = 0 /\ alloc = free + (Len(<<>>) + Len(<<>>) + Len(<<>>))
      BY DEF Books
    <3>2. PICK a \in Int, b \in Int, d \in Int :
             /\ LensAre(<<>>, a) /\ LensAre(<<>>, b) /\ LensAre(<<>>, d)
             /\ offered = written + (a + b + d)
      BY DEF Books
    <3>3. a = 0 /\ b = 0 /\ d = 0
      BY <3>2, NoneQueued
    <3> QED BY <3>1, <3>2, <3>3
  <2>6. in.pauses = in.resumes - 1 /\ in.closes = 1
    BY <2>1 DEF InOnce
  <2>7. out.state # "aborted" /\ out.closes <= 1
    BY <2>1 DEF OutOnce
  <2> QED BY <2>3, <2>4, <2>5, <2>6, <2>7
<1> QED BY <1>1, Invariant, StatsKept, PTL
=============================================================================
