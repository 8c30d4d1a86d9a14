------------------------------ MODULE TtyRepl ------------------------------
(***************************************************************************)
(* The interactive prompt: repl() of main.js over the TTY class.           *)
(*                                                                         *)
(* stdin is read a chunk at a time; each chunk is answered on stdout by a  *)
(* payload and a prompt.  What stdout does not take is copied and queued,  *)
(* and while MAX_BUFFER bytes or more are queued stdin is paused until the *)
(* drain event.  The end of stdin closes it, and stdout after it.          *)
(*                                                                         *)
(* Both are TTY handles on the queues of a libuv stream.  Any write(2) on  *)
(* stdout may take all, a part or nothing of what it is given, or fail.    *)
(* A handler of repl() runs to its end within the step that calls it.      *)
(***************************************************************************)
EXTENDS Integers, Sequences

CONSTANTS
    ChunkLens,      \* lengths of the chunks that are read
    MaxPayload,     \* length of the longest answer: it fits the buffer
    PromptLen,      \* length of "> "
    MaxBuffer,      \* MAX_BUFFER
    MaxReads        \* bound: chunks in a run

ASSUME SizesAssumption ==
    /\ ChunkLens \subseteq Nat \ {0}
    /\ MaxPayload \in Nat \ {0} /\ PromptLen \in Nat \ {0}
    /\ MaxBuffer \in Nat /\ PromptLen < MaxBuffer

VARIABLES
    in,         \* stdin: its handle and its flags
    out,        \* stdout: its handle, its queues and its flags
    started,    \* the first prompt has been written
    reads       \* chunks read so far

vars == <<in, out, started, reads>>

\* A request on a queue: rest of its len bytes are not written yet.
Request(len, rest) == [len |-> len, rest |-> rest, ok |-> TRUE]
Failed(r) == [r EXCEPT !.ok = FALSE]

Init ==
    /\ in = [state |-> "open", reading |-> FALSE, paused |-> TRUE,
             pauses |-> 0, resumes |-> 0, closes |-> 0]
    /\ out = [state |-> "open", wq |-> <<>>, done |-> <<>>, pq |-> <<>>, qsize |-> 0,
              blocked |-> FALSE, closing |-> FALSE, failed |-> FALSE,
              offered |-> 0, written |-> 0, alloc |-> 0, free |-> 0, closes |-> 0]
    /\ started = FALSE /\ reads = 0

\* uv_close aborts on a handle that is closing, and what is freed is gone.
UvClose(t) == [t EXCEPT !.state = IF @ = "open" THEN "closing" ELSE "aborted"]

-----------------------------------------------------------------------------
(* TTY::Write.  Each operator gives the set of its outcomes.               *)

\* uv_write of n bytes on an open handle: an empty queue is tried at once.
UvWrite(o, n) ==
    IF o.qsize # 0
    THEN {[o EXCEPT !.wq = Append(@, Request(n, n)), !.qsize = @ + n]}
    ELSE {[o EXCEPT !.wq = Append(@, Request(n, k)), !.qsize = k] : k \in 1 .. n}
         \cup {[o EXCEPT !.done = Append(@, Request(n, 0))],
               [o EXCEPT !.done = Append(@, Failed(Request(n, n))), !.qsize = n,
                         !.failed = TRUE]}

\* The copy of what was not written is made, and the drain event is promised.
Fault_Queued(o) == [o EXCEPT !.alloc = @ + 1]
Queued(o) == [o EXCEPT !.alloc = @ + 1, !.blocked = TRUE]

Result(o, r) == [out |-> o, r |-> r]

\* uv_try_write refuses a handle that is closed, or one that has a queue.
WriteFails(o) ==
    IF o.qsize = 0 THEN {Result([o EXCEPT !.failed = TRUE], -1)} ELSE {}
WriteFull(o, n) ==
    IF o.qsize = 0 /\ o.state = "open"
    THEN {Result([o EXCEPT !.written = @ + n, !.offered = @ + n], n)} ELSE {}
WriteIncomplete(o, n) ==
    IF o.qsize = 0 /\ o.state = "open"
    THEN UNION {{Result(q, k) :
                   q \in UvWrite([Queued(o) EXCEPT !.written = @ + k, !.offered = @ + n], n - k)} :
                k \in 1 .. n - 1}
    ELSE {}
WriteEagain(o, n) ==
    IF o.state = "open"
    THEN {Result(q, 0) : q \in UvWrite([Queued(o) EXCEPT !.offered = @ + n], n)} ELSE {}

Write(o, n) == WriteFails(o) \cup WriteFull(o, n) \cup WriteIncomplete(o, n) \cup WriteEagain(o, n)

-----------------------------------------------------------------------------
(* TTY::Close, Pause, Resume                                               *)

\* A handle with nothing queued is closed at once, the others by after_write.
Fault_Close(t, queued) == UvClose(t)
Close(t, queued) ==
    IF queued THEN [t EXCEPT !.closing = TRUE] ELSE [UvClose(t) EXCEPT !.closing = FALSE]

\* stdin has no queue.
CloseIn(i) == [UvClose(i) EXCEPT !.reading = FALSE]

Pause(i) == [i EXCEPT !.pauses = @ + 1, !.reading = FALSE, !.paused = TRUE]

\* uv_read_start refuses a handle that is closing.
Resume(i) ==
    IF i.paused
    THEN [i EXCEPT !.resumes = @ + 1, !.paused = FALSE, !.reading = (i.state = "open"),
                   !.state = IF @ = "freed" THEN "aborted" ELSE @]
    ELSE i

-----------------------------------------------------------------------------
(* repl                                                                    *)

Alive == "aborted" \notin {in.state, out.state}
Waiting == Alive /\ out.pq = <<>>

\* The last lines of repl().
Start ==
    /\ Waiting /\ ~started
    /\ started' = TRUE
    /\ \E w \in Write(out, PromptLen) :
          \/ w.r < 0 /\ out' = Close(w.out, w.out.qsize > 0) /\ in' = in
          \/ w.r >= 0 /\ out' = w.out /\ in' = Resume(in)
    /\ UNCHANGED reads

Fault_TooMuch(o, r, len) == r < len /\ o.qsize > MaxBuffer + PromptLen + MaxPayload
TooMuch(o, r, len) == r < len /\ o.qsize >= MaxBuffer

\* The prompt that follows an answer, or the message of an error.
Prompts(o, len) ==
    \E w \in Write(o, PromptLen) :
       \/ w.r < 0 /\ out' = Close(w.out, w.out.qsize > 0) /\ in' = in
       \/ w.r >= 0 /\ out' = w.out
          /\ in' = IF TooMuch(w.out, w.r, len) THEN Pause(in) ELSE in

Readable == Waiting /\ in.state = "open" /\ in.reading

\* onRead: a statement that does not parse, or throws, has no answer.
ReadChunk(len) ==
    /\ Readable /\ reads < MaxReads
    /\ reads' = reads + 1
    /\ \/ Prompts(out, len)
       \/ \E n \in 1 .. MaxPayload : \E w \in Write(out, n) :
             \/ w.r < 0 /\ out' = Close(w.out, w.out.qsize > 0) /\ in' = in
             \/ w.r >= 0 /\ Prompts(w.out, len)
    /\ UNCHANGED started

\* At the end onEnd closes stdin; after an error after_read does.
ReadEnds ==
    /\ Readable
    /\ in' = CloseIn(in)
    /\ UNCHANGED <<out, started, reads>>

\* on_close of stdin, whose onClose closes stdout.
InClosed ==
    /\ Waiting /\ in.state = "closing"
    /\ in' = [in EXCEPT !.state = "freed", !.closes = @ + 1]
    /\ out' = Close(out, out.qsize > 0)
    /\ UNCHANGED <<started, reads>>

-----------------------------------------------------------------------------
(* The writable half of stdout                                             *)

\* uv__write of the head of the queue, then the callbacks of what is done.
Flush ==
    /\ Waiting /\ out.state = "open" /\ out.wq # <<>>
    /\ LET r == Head(out.wq)
           finished(q) == out.done \o <<q>>
       IN \/ \E k \in 1 .. r.rest :
                out' = [out EXCEPT !.wq[1].rest = k, !.qsize = @ - (r.rest - k),
                                   !.pq = out.done, !.done = <<>>]
          \/ out' = [out EXCEPT !.wq = Tail(@), !.qsize = @ - r.rest,
                                !.pq = finished(Request(r.len, 0)), !.done = <<>>]
          \/ out' = [out EXCEPT !.wq = Tail(@), !.failed = TRUE,
                                !.pq = finished(Failed(r)), !.done = <<>>]
    /\ UNCHANGED <<in, started, reads>>

\* What uv_write wrote at once is called back too, before the on_close of a
\* handle that closes meanwhile: nothing else is queued on such a handle.
CallsBack ==
    /\ Waiting /\ out.state \in {"open", "closing"} /\ out.wq = <<>> /\ out.done # <<>>
    /\ out' = [out EXCEPT !.pq = out.done, !.done = <<>>]
    /\ UNCHANGED <<in, started, reads>>

\* What a finished request still counts for in write_queue_size.
Uncounted(r) == IF r.ok THEN 0 ELSE r.rest

Fault_Freed(o, r) == IF o.closing THEN o ELSE [o EXCEPT !.free = @ + 1]
Freed(o, r) == [o EXCEPT !.free = @ + 1]

\* after_write.  A request that failed is freed and nothing else is looked at.
AfterWrite ==
    /\ Alive /\ out.pq # <<>>
    /\ LET r == Head(out.pq)
           o == [out EXCEPT !.pq = Tail(@), !.qsize = @ - Uncounted(r)]
           flushed == r.ok /\ o.qsize = 0
           drains == flushed /\ o.blocked
           p == [o EXCEPT !.blocked = @ /\ ~drains, !.written = @ + (IF r.ok THEN r.len ELSE 0)]
       IN /\ in' = IF drains THEN Resume(in) ELSE in
          /\ out' = Freed(IF flushed /\ o.closing THEN [UvClose(p) EXCEPT !.closing = FALSE] ELSE p, r)
    /\ UNCHANGED <<started, reads>>

\* on_close of stdout.
OutClosed ==
    /\ Waiting /\ out.state = "closing" /\ out.done = <<>>
    /\ out' = [out EXCEPT !.state = "freed", !.closes = @ + 1]
    /\ UNCHANGED <<in, started, reads>>

-----------------------------------------------------------------------------
Next ==
    \/ Start \/ \E len \in ChunkLens : ReadChunk(len)
    \/ ReadEnds \/ InClosed \/ Flush \/ CallsBack \/ AfterWrite \/ OutClosed

Spec == Init /\ [][Next]_vars

\* The loop turns, and the terminal takes what it is given in the end.
Fairness ==
    /\ WF_vars(Start) /\ WF_vars(InClosed) /\ WF_vars(Flush) /\ WF_vars(CallsBack)
    /\ WF_vars(AfterWrite) /\ WF_vars(OutClosed)
FairSpec == Spec /\ Fairness

-----------------------------------------------------------------------------
\* However long the answers are and however slow the terminal, less than one
\* answer and a prompt are queued beyond MAX_BUFFER: onRead pauses in time,
\* and nothing but a flushed queue lets the input flow again.
QueueBounded == out.qsize < MaxBuffer + MaxPayload + PromptLen

\* When both ends are closed the statistics agree: every copy was freed, every
\* byte offered was written, once, each pause was undone by a resume, and each
\* handle was closed once; unless a write failed.
StatsAgree ==
    (in.state = "freed" /\ out.state # "open" /\ out.done = <<>> /\ out.pq = <<>> /\ ~out.failed) =>
        /\ out.alloc = out.free /\ out.written = out.offered
        /\ in.pauses = in.resumes - 1
        /\ in.closes = 1 /\ out.state # "aborted" /\ out.closes <= 1

\* Input that has been paused is read again, unless a write fails.
InputResumes ==
    (started /\ in.state = "open" /\ in.paused) ~> (in.reading \/ out.failed)

\* After the end of the input everything queued is flushed and both handles
\* are closed, unless a write fails.
EndsFlushed ==
    (in.state = "closing") ~> (out.failed \/ (in.state = "freed" /\ out.state = "freed"))
=============================================================================
