# dv8: TLA+ models, model checking and proofs

dv8 is a JavaScript runtime made of V8, libuv and a thin layer of C++ modules. This directory holds TLA+
models of that layer, of the JavaScript that boots it and of the HTTP parser it is built with, the TLC
configurations that check them, and proofs checked by TLAPS. Everything is translated from the sources under
`src/src/` (about 7,500 lines of dv8's own code and http_parser's 2,500); what libuv, OpenSSL and the kernel do is
modelled as far as that code uses it. About a third of these lines is modelled.

Contents: 1 the system, 2 the modules, 3 the runs, 4 bounds and fairness, 5 the proofs, 6 findings,
7 what is not modelled, 8 the plan.

## 1. The system

One process runs a JavaScript isolate on one libuv loop; `process.spawn` adds threads, each with an isolate
and a loop of its own. Nothing but the `thread_handle` of a thread, its async handle and the two ends of
a socketpair is shared between threads. On one thread there is no preemption, and yet little is atomic: C++
callbacks call into the script half way, the script calls back into the same C++ object, and the C++
code goes on with what it read before.

| component | state | operations | talks to | hard behaviour | what makes it correct |
|---|---|---|---|---|---|
| Socket, a connected stream (`socket.cc`) | flags `closing`, `blocked`, `paused`, statistics, libuv's write queue | `write`, `close`, `pause`, `resume`; `after_write`, `after_read`, `after_shutdown`, `on_close` | script (synchronous callbacks), libuv, peer | handlers that re-enter `write` and `close`; partial writes; failed and cancelled requests; EOF racing a close | order and completeness of the bytes, drain events, one close, copies freed |
| Socket, making and ending handles (`socket.cc`) | `_stream`, `ctx->handle`, `handle->data`, the context's memory | `listen`, `bind`, `connect`, `open`, `close`; `on_client_connection`, `on_connection`, `on_close`, `on_close2` | script, libuv, peer | close or pause before the connection is made; refused connections; calls that fail half way | handles stay reachable, readers have a live context, no callback on freed memory |
| Event loop and nextTick (`loop.cc`, `main.js`) | `queue`, `idleActive`, the idle handle, `stop_flag` | `nextTick`, `run`, `stop`, `ref`, `unref`, `onIdle` | all that runs on the loop | ticks that queue ticks, throw, or stop the loop; one idle handle with two owners | ticks in order, once, none left; no starvation; the loop ends |
| Timer (`timer.cc`, `main.js`) | the uv timer and its Persistent callback | `setTimeout`, `setInterval`, `clearTimeout` | loop | clearing in or after the callback; functions that throw; delays of 0 | every handle closed once; the loop's other phases get their turn |
| Worker channel (`main.js`, class `Parser`) | send buffer, receive buffer, `position`, the message under construction | `Parser.write`, `Parser.read` | Socket | frames cut anywhere; handlers that throw; multi-byte text; fields that wrap | each message once, in order, intact |
| Workers (`main.js`, `thread.cc`) | `threads`, `thread_handle`, async, error flag, both ends of the channel | `process.spawn`, `Thread::Start`; `start_context`, `on_context_complete` | two threads at once | start, boot or script fails; freeing what the other thread uses; when may the process end | one true answer for each thread; the process ends, and not under a worker |
| TTY and stdio (`tty.cc`, `repl` and `wrapStdio` of `main.js`) | flags `blocked`, `closing`, `paused`, statistics, libuv's write queue | `write`, `close`, `pause`, `resume`; `after_write`, `after_read`, `on_close` | script, libuv, terminal | a slow or failing terminal under a reader that keeps coming | the queue is bounded, the input flows again, the end is flushed, both handles closed once |
| UDP (`udp.cc`) | the out buffer | `send`, `recv`, `bind` | libuv | a buffer reused while a send is queued | each datagram sent as it was |
| OpenSSL plugin (`openssl.cc`) | two memory BIOs, the SSL state | `start`, `write`, `cycleIn`, `cycleOut`, plugin callbacks | Socket (plugin chain), peer | flights and records cut by reads, partial writes, several records in a read | bytes decrypted as they were encrypted, both ends told, nothing waits |
| HTTP parser (`http_parser.c`, `httpParser.cc`) | parser state and counts, marks, work buffer | reads of the plugin, `execute`, `reset`, `resume`; `http_parser_parse_url` | Socket (plugin chain), script | a message spread over reads, several in a read, wrong ones | each message told whole, at once and in order; wrong ones refused; the asserts hold |
| zlib, fs, os, process | none of their own | synchronous calls | kernel, zlib | none | - |
| Isolate, module loading, shutdown (`dv8.cc`, `dv8_main.cc`) | environment, loop | `start`, `ReportException`, `shutdown` | everything | an exception at each place it may occur; handles left at the end | handles closed once |
| Buffers and wrappers (`builtins/`) | memory, weak references | `alloc`, `read`, `write` | V8's collector | collection of a wrapper whose handle lives | memory outlives its users |

`PROJECT.json` lists these components with their sources and, under "hazards", everything in the code that
is hard to reach with a test, at its line, with the property that watches it or the reason why none does.

## 2. The modules

| module | lines of the system | role |
|---|---|---|
| `StreamContract` | - | what a script may expect of one direction of a stream |
| `SocketStream` | `socket.cc` Write, Close, Pause, Resume, after_write, after_read, after_shutdown, on_close; libuv's `stream.c` | one connected Socket with its peer and its script |
| `SocketLifecycle` | `socket.cc` New, Listen, Bind, Connect, Open, Close, context_init, on_client_connection, on_connection, on_close, on_close2 | many Sockets and handles, no data |
| `EventLoop` | `main.js` nextTick, timers, runLoop; `loop.cc`; `timer.cc`; the shutdown in `dv8.cc` | the loop of one isolate |
| `IpcChannel` | `main.js` Parser, process.send*; `buffer.cc` Read, Write | one direction of a worker's channel |
| `Workers` | `main.js` process.spawn; `thread.cc` | the parent, its threads and what they share |
| `TtyRepl` | `main.js` repl; `tty.cc` Write, Close, Pause, Resume, after_write, after_read, on_close; libuv's `stream.c` | stdin and stdout of the prompt, together |
| `SecureSocket` | `openssl.cc` start, write, cycleIn, cycleOut and the plugin's read | the two ends of a TLS connection |
| `HttpUrl` | `http_parser.c` parse_url_char, http_parse_host_char, http_parse_host, http_parser_parse_url | the URL automata, as functions |
| `HttpParser` | `http_parser.c` http_parser_execute; `httpParser.cc` its callbacks, Execute, Reset, Resume | the parser over the reads of a connection |
| `MC*` | - | scripts, messages, streams and names for TLC |
| `SocketStreamProofs`, `EventLoopProofs`, `SocketLifecycleProofs`, `IpcChannelProofs`, `WorkersProofs`, `TtyReplProofs`, `SecureSocketProofs`, `HttpProofs` | - | theorems |

`HttpParser` extends `HttpUrl`: `http_parser_execute` walks a URL with the same function that splits it.
`SocketStream` is composed with its abstract specification `StreamContract`; the other modules each compose the
actors they name (peer, script, threads, two handles, two ends).

### SocketStream

The script's output is the byte positions 0, 1, 2, ...; a write request is an interval `from..to`, with the
length of the copy it owns. `qsize`, `wq`, `done` are libuv's `write_queue_size`, `write_queue` and
`write_completed_queue`; `pq` is the list that `uv__write_callbacks` moved aside. `pc` is the C++ function
that is suspended and the handler it is in, `nested` the handlers that `Write` calls synchronously
(`onWrite`, `onError`), so a script step is possible in the middle of `after_write`, `after_read`, `on_close`
and `Write`. `Script[h]` says what handler `h` may do; `"loop"` stands for every callback of the process that
is not this socket's.

`Write(len)` has the branches of `Socket::Write`: nothing sent (`WriteEagain`), a part (`WriteIncomplete`),
everything (`WriteFull`), failure (`WriteFails`). `UvWrite` is libuv's `uv_write`, which may send at once if
nothing is queued. `IoWritable` is one poll event (`uv__write`), `Callback` one completed request handed to
`after_write`, whose halves are `AfterWriteFailed`/`AfterWriteError`, `AfterWriteDrains`,
`AfterWriteNoDrain` and `AfterWriteDrained`. `Drain` is `uv__drain`, which carries out a shutdown and
calls `after_shutdown` (`AfterShutdown`). `ReadData`, `ReadEnd`, `ReadError` are `after_read` up to the handler
and `AfterRead...` the rest of it. `FinishClose`, `Destroyed`, `OnClose` are the end of a handle.
`StreamContract` is instantiated with `offered <- accepted, delivered <- sent` and a phase derived from the
handle and the peer; `KeepsContract` states the refinement.

The script calls `close` once and does not use the socket after `onClose`. A peer that is gone stays gone. EOF
is reported at most once in an iteration of the loop. A second `uv_close` is the state `"aborted"`: libuv asserts
(a libuv built with NDEBUG would queue the handle for closing twice instead).

### SocketLifecycle

`handle[h]` has the libuv handle's state, what its `data` points to (uninitialised memory, the baton, the
context), the connection, and the flags libuv looks at; `sock[s]` has `ctx->handle`, `_stream`, whether
the context is allocated, and what the script did and was told. Each of `Listen`, `Bind`, `Connect`, `OpenPipe`,
`Close`, `Pause`, `Resume` is one method, its failures included; `ConnectDone` and `ConnectReturns` are
`on_client_connection` up to and after the handler; `Incoming`, `AcceptReturns`, `AcceptThrows` are
`on_connection`; `Data`, `End`, `ReadError` and their returns `after_read`; `ShutdownDone` `after_shutdown`;
`OnClose` the end of `uv_close` with the requests it cancels. `Script[c]` says what callback `c` may do.

The data of a connection is abstracted away: no write is queued here, so closing is immediate; how the
write queue delays it is SocketStream's subject. The script uses a Socket for one connection or one listener,
closes it once and pauses it when it is connected.
`crashed` marks a failed assertion or `ToLocalChecked`, of which there are several that a script can
reach: a listener's handler that throws, an accept that fails, a `close(0)` in `onConnect`, a read
error while a shutdown is pending.

### EventLoop

`phase` walks through `uv_run`: timers, idle, poll, closing, then `runLoop`'s check whether to run again, and
last the walk of `shutdown`. `NextTick`, `SetTimer`, `ClearTimeout`, `Stop`, `Ref`, `UnRef`, `TakeIdle` and
`DropIdle` are the operations of a script, possible in every callback. `idleActive` is the flag of main.js,
`idleOn`, `idleRef` and `idleCb` the handle itself: the script's `onIdle` and nextTick share it.
`TickStarts`, `TickReturns`, `TickThrows` and `BatchEnds` are the loop inside nextTick's idle callback; a tick
that throws leaves the rest of the batch queued and the idle handle running.
`ClearWhen` says in which situations the script calls `clearTimeout` (`ClearKind`). A Timer is a timeout, an interval, or an
interval of 0 (`kind`), which `uv_timer_again` does not re-arm (`Repeats`). Timers are made without end: a member of
`Timers` is used again once the Timer it stood for is closed, and if that one's handle still has to be freed, `forgotten`
says so.
`IoEvent` stands for every other handle that calls the script.

### IpcChannel

`Transmit` is `Parser.write`: header, payload, one write. `OnRead(n)` delivers any `n` bytes of the stream, and
`ReadHeader`, `ReadPart`, `ReadLast`, `HandlerThrows`, `ReadReturns` are the loop of `Parser.read`, with the
position it carries from read to read. A text is its length in UTF-16 units, its bytes, and the number of bytes
`Buffer.write` stores when it is given room for `length` bytes: the code sends `length` bytes, so a text
that is not ASCII is cut and the rest of the frame is what the buffer held before. A byte has `Base` values.
`desync` records that a handler threw in the middle of a chunk; the model stops there.

### Workers

For each thread: `thread` is what the parent knows of it, `worker` where `start_context` is, `th` the shared
handle, `async` and `signal` the async handle, `ends` the two sockets. `Spawn` is the first half of
`process.spawn`, `Start` the tick that calls `Thread::Start`, `Boots` ... `Leaves` are `start_context`,
`OnContextComplete` and `OnThreadClose` run on the parent when the async handle has been signalled. Exceptions
of the function itself and of its callbacks are apart (`ScriptThrows`, `CallbackThrows`), for the code treats
them differently.

### TtyRepl

`in` and `out` are the two handles of `repl()`: the libuv handle, the flags of the TTY object and its
statistics. `ReadChunk` is `after_read` with the whole of repl's `onRead`: the answer is written, then the
prompt, and stdin is paused as soon as MAX_BUFFER bytes are queued and the write was not taken whole (`TooMuch`). `Write` has
the four branches of `TTY::Write`; each is followed by the close, pause or resume repl does upon its result.
`ReadEnds`, `InClosed`, `Flush`, `CallsBack`, `AfterWrite` and `OutClosed` are the end of stdin, libuv's queue and the
two `on_close`. The handlers of repl run to their end within the step that calls them, since they await
nothing; a nested callback, which the sockets have, does not exist here.

### SecureSocket

`end[e]` is one SecureSocket: how far its handshake is (`stage`), the input and output BIO, what is on its
wire, what its script was told and given, and the sizes of its two buffers, which are the script's. Units of ciphertext are numbered in the order they are produced, so a
lost one is a gap and not a different byte. `SSL_do_handshake`, `CycleOut`, `CycleIn`, `Write`, `StartSSL` are
operators from the record of an end to a record, as these functions of `openssl.cc` work on one
object; the actions `Start`, `Read` and `Writes` are made of them. `CycleOut` takes from the BIO what the
buffer holds, once, and `uv_try_write` may refuse any part of it: that part is lost, as it is in the code. What the
buffer does not hold stays in the BIO until the next event of that end; `excess` counts by how much flights and
records have been longer than the buffer. `CycleIn` is one `SSL_read` with the length of the in buffer: it gives a
record in `Parts`, and `rest` is how many of the last one the SSL still has.

### HttpUrl and HttpParser

A letter stands for a class of bytes that the automaton treats alike, or for the rest of a word it only
compares ("eep-alive" after "k"). `HttpUrl` has the two automata as tables (`UrlEdges`, `HostEdges`) and
`http_parser_parse_url` as a fold over the letters. The `off` and `len` of a field are `uint16_t`: `Narrow` and
`Longer` wrap at `Width16`, and the second automaton and the port start where the wrapped offset says.

`HttpParser` has an action for each group of states of the switch: `StartRequest` ... `Version` for a request
line, `StartResponse` ... `StatusText` for a status line, `HeaderFieldStart` ... `HeadersDone` for headers,
`BodyIdentity`, `BodyIdentityEof`, `ChunkSize`, `ChunkData`, `MessageDone` for bodies. `P` is the parser with the
byte counted, `Go` takes the byte, `Reexecute` is a `REEXECUTE`, `Return` leaves the function. `Read(n)` starts
`http_parser_execute` on a read of `n` letters, with the marks that go on from the read before, and
`EndOfRead` tells the callbacks what a mark still covers. `url_cb`, `header_field_cb`, `header_value_cb` and
`onHeaders` lay the strings out in the work buffer and count their lengths in 16 bits. `HeaderValue` is the loop over
what a read has of a value: `ValueEnd` says where it stops, which is the line end, or a control byte the loop looks
at, for `memchr` jumps over those in a value that means nothing, except its second letter and the first of a read. `Resume`,
`Reset` and `ExecuteEnd` are the script's.

The model is of the parser as it is built here (`build/http-parser.sh`): with HTTP_PARSER_STRICT 0 and with its
asserts, since NDEBUG is not defined.

## 3. The runs

| run | checks | shows |
|---|---|---|
| `socket_pump` | TypeOK InOrder DrainPromised NoDoubleClose CopiesFreed; FlushAnnounced CloseCompletes | a proxy script over a peer that stays: bytes in order, the drain event comes, close and close(0) flush and complete |
| `socket_answer` | Conservation; KeepsContract | a server connection whose peer half-closes or vanishes at any point, so that requests fail and are cancelled |
| `socket_runtime_close` | NoDoubleClose, violated | close() in onEnd with bytes queued (section 6) |
| `loop_script` | TypeOK TicksInOrder NoDoubleClose TimersReleased | everything a script may do with ticks, timers and the idle handle |
| `loop_progress` | ExitsDrained; TicksRun TimersFire LoopEnds | ticks starve neither ticks nor timers, and the loop ends; timers set with a delay of 0 by timers starve ticks, and nothing else does |
| `ipc` | Delivered BlockInPlace Prompt | messages cut at every byte, handlers that throw |
| `workers` | HandleLives AnsweredTruly; Answered ProcessEnds | two threads and the parent interleaved, every failure |
| `lifecycle` | Reachable ReadersHaveContext; ConnectAnswered CloseCompletes | a script that makes, pauses, shuts down and closes Sockets of each kind in every order |
| `http_url` | FieldsExact SplitterWithinStream | every short URL, and URLs about as long as 16 bits count, against a definition of its fields that runs no automaton, by places in the whole of it |
| `http_parser` | Prompt Refused AssertsHold | requests and responses, right, wrong, too wide for 16 bits and cut short, in reads of every pattern |
| `tty_repl` | QueueBounded StatsAgree; InputResumes EndsFlushed | the prompt over a terminal that takes all, a part or nothing of a write, or fails |
| `secure` | Intact Prompt; Secured | handshakes and records cut anywhere, through buffers that hold them and that do not, over a socket that may refuse a part of a write |

Properties before the semicolon are invariants, those after it action and temporal properties.
Each property is stated in words above its definition. Every one has a mutant in `PROJECT.json`: a definition
of the model changed as a plausible slip of the code would change it, under which the property fails.

Several properties name an exception. These are behaviours of the code, not limits of the model:
`CloseCompletes` of SocketStream excludes a peer that is gone, because `after_write` returns at a failed
write before it looks at `closing` (socket.cc:78); that of SocketLifecycle excludes a `close()` between connect
and its answer, which libuv stops polling for (`stalled`); `ConnectAnswered` excludes a UNIX connect that
failed, of which the script never hears; `Reachable` excludes the handles `lost` by a failed call, by `bind`
and by `listen(fd)`; `ProcessEnds` excludes a thread that could not start or boot; `TimersReleased` excludes
timers whose function threw and intervals of 0, which fire once and stay open until the shutdown; `TicksRun` excludes timers
whose functions for ever set timers that are due at once, for `uv__run_timers` returns only when none is due (`Starved`); `Delivered` of the channel ends where a handler threw in the middle of a chunk;
`StatsAgree`, `InputResumes` and `EndsFlushed` of the prompt exclude a failed write, after which the code closes
stdout twice; `Intact` and `Secured` exclude a `uv_try_write` that took only a part, whose rest the code drops;
`Secured` also excludes a flight longer than the out buffer whose tail stays in the output BIO for ever, for `cycleOut` takes one
buffer (openssl.cc:446) and nothing calls it until the peer, which waits for the tail, has answered; `Prompt` of SecureSocket lets
as much stay there as did not fit (`excess`), and lets parts of records wait that a read brought beyond its first (`surplus`);
`FieldsExact` is of URLs whose letters 16 bits can count (`Short`), for the offsets of longer ones wrap; `Refused` lets a head be refused
before its limit, for a header cut by a read is counted twice, does not look behind an upgrade, and lets a stream be refused or not from a
control byte in a value that means nothing to the parser on, as the reads cut it (http_parser.c:1462, 1470); `Prompt` of HttpParser takes
a URL or headers of more than 65535 bytes as what their 16-bit counts say (`Counted`), for `max_header_size` is 80K.

All configurations turn the deadlock check off: a process that has ended, or whose peers are silent, stops.

## 4. Bounds and fairness

SocketStream: writes of one or two bytes and four bytes in all give every case of a request that is sent
whole, in part, in two parts or not at all, and up to four requests queued at once; in `socket_answer` the peer may
half-close and vanish, and in `socket_pump` it stays; two nested writes let a
handler of a write called from a write's handler act; one chunk is read, since a chunk only calls `onRead`,
whose effects are those of any other callback. `pc` and `nested` are unbounded by data otherwise.
EventLoop: two ticks queued let a tick queue one behind another, and a batch of two be cut by an exception
after its first; ticks are numbered modulo three, one more than can be queued, so that all numbers in the queue
differ. Two timers, used again, are what a function needs to set the next timeout while its own is not closed yet, for ever.
`loop_progress` clears no timer; `loop_script` clears them in each situation that closes no handle twice.
IpcChannel: four byte values suffice for the three opCodes and make a text of four bytes use both bytes of
the length field; a buffer of eight holds the longest frame exactly; two messages are enough for a frame to
begin where another one ended, in the same chunk or another, after any cut.
Workers: two threads, so that one may fail or end in every stage of the other. SocketLifecycle: two handles
give a listener with its connection, or two connections, and three Sockets are one of each kind: TCP, UNIX, and
without an onConnect handler. Two handles do not cover a listener whose handler opens a second connection
while accepting.
TtyRepl: answers of up to two bytes, a prompt of two and MAX_BUFFER of four let the queue pass the limit with the
answer, with the prompt, exactly and not at all; three chunks let a paused input be resumed and paused again;
chunks of one and three are answered by less than they are and by more than the terminal takes.
SecureSocket: three and four flights are TLS 1.3 and 1.2; flights and records of three units can be cut twice; of the
out buffers one holds a flight but not a flight and a record, and one not even a flight; of the in buffers one holds two
flights or records and more, and one a unit, so that a record of two units of text is given in two parts; each end has any of them; two
records each way let one wait behind another. That the tail of a flight does stay for ever TLC says if `Secured` does not except it.
HttpUrl: five letters of the nine that delimit or tell apart fields, alone, after `a://`, after `a://a@[a%` (an address with a
zone) and, for a CONNECT, after `a:1?`; offsets wrap at 16, which three longer starts come near and their URLs exceed by
up to two letters; ports up to 15 let a port overflow within them. The proof takes away these bounds, and it
was the proof that asked for the last start: the definition the run compares with let a CONNECT have a fragment of "?"
(`a:1?#?`), which the code refuses, and five letters are too few to show it.
HttpParser: reads of one, three and forty letters, mixed in every way, cut at every letter and bring two messages at
once; heads of up to 100 letters, counts that wrap at 70 (80K and 64K in the code), by a URL and by headers, and lengths up to 129 are each met from
both sides; control bytes are the first, second and a later letter of values that mean something and that do not.
The streams are in `MCHttpParser`: each method, version, header and body the code has a branch for, each way a line
can go wrong, streams that end early, several messages in a row; what a script must hear of them is written
from the message and not computed by the parser.

Fairness. SocketStream: code that has returned from a handler goes on (weak; strong for the C++ steps that
handlers can interrupt), and libuv polls a writable stream and closes closing handles again and again
(strong: in between the script may run); the peer is never forced to do anything, but a peer that
neither leaves nor closes reads what it is sent, which is why the liveness runs let it stay. EventLoop: the loop
goes on, callbacks return, and time passes for each timer; a timer that is due fires if `uv__run_timers` runs again and again
(strong), since libuv's heap puts it before all that become due later; scripts and I/O events are never forced. Workers: each
thread goes on as long as it can; no channel is ever forced to close, and `ProcessEnds` says so.
SocketLifecycle: callbacks return, and connects, shutdowns and closes that libuv has started are answered.
TtyRepl: the terminal takes data in the end, and libuv calls back; input is never forced. SecureSocket: the
client starts, and what is sent is read. HttpParser and HttpUrl have safety properties only. These are what `uv_run` does in each iteration and what an operating system's scheduler does with threads.

## 5. The proofs

`tlapm` proves every obligation of the eight proof modules; TLC has checked the same formulas first.

`SocketStreamProofs` (for every script, set of lengths, peer and bound):
- `TypeCorrect`, `QueueSizeExact` (`Conservation`). `Conservation` is not inductive: a failed callback subtracts
  what its request had left, so one must know that the requests in `pq`, `done` and `wq` are disjoint intervals of
  the bytes accepted, in this order, and that the completed ones are empty or failed. That is `Accounts`;
  with `TypeOK` and `PqPlace` (`pq` is empty outside `uv__write_callbacks`) it makes `IInv`, with
  one lemma for each action that touches a queue, and one, `Quiet`, for all that do not.
- `QueueInOrder` (`InOrder`): `OrderInv` adds that requests in `wq` are adjacent (`WqTight`), that while the peer is
  there none has failed and the first starts where the kernel stopped (`Intact`), and that a shutdown that
  has been carried out has closed the handle (`ShutCloses`): otherwise a write after it would fail and leave a gap.
- `DrainKept` (`DrainPromised`) and `ContractKept` (`KeepsContract`) under `NoWriteOnDrain`, that the script's
  onDrain does not write. The assumption is needed: without it a producer that writes from every onDrain is a
  counterexample to the first, and a write in onDrain after close(0) to the second. `DrainInv` says that while onDrain runs
  the queue stays empty (`DrainHeld`), that otherwise a queue that is not empty has `blocked` set, and where
  errors and closes are handled. `ContractKept` is a refinement proof: initial states map to initial states and each
  action to a step of `StreamContract` or to a stutter.
- `ClosedOnce` (`NoDoubleClose`) under `ClosesInTurn`: either the peer neither leaves nor closes its side, and the script may
  do anything (as in `socket_pump`), or the peer may do anything, and the script closes with `close(0)`, from onRead or onEnd,
  and never shuts down (as in `socket_answer`). Outside of that the property is false: `socket_runtime_close`. With a
  peer that stays no read or write fails, and who closes is settled by `closing`, the shutdown and the queue (`StayInv`).
  With a peer that may fail, `TurnInv` says that while `closing` is set requests are still queued behind those that have completed
  (`ClosingSettled`), so that after_write finds one close to make, and that once it is made what is left to be called back ends in a
  failed request, after which it makes none (`ClosingCallbacks`). `HeadFailed` places a failed request among the others.
- `CopiesReturned` (`CopiesFreed`) under `PeerStays` and `NoWriteOnDrain`: `FreeInv` counts: a copy that is not freed belongs to
  a request in a queue or to the one whose callback is running, and a handle is closed only when the queue is empty
  (`FlushedFirst`). Without the assumptions a write nested in a handler after the close leaks its copy (socket.cc:610).

`EventLoopProofs` (for every script, set of timers and bounds):
- `TypesCorrect`: the type invariant with `batch` at most the length of the queue, which is what keeps a
  batch from reading past it.
- `TicksOrdered` (`TicksInOrder`): inductive together with the types; the proof is about consecutive numbers in a
  queue that grows at one end and shrinks at the other.
- `TicksKeepLoopAlive` (`ExitsDrained`) under `Leaves`, that the script leaves the idle handle to nextTick: the
  invariant `Armed` ties the flag `idleActive` to the handle being active, referenced and its callback nextTick's. A
  script that sets `onIdle` really breaks it: `nextTick` returns at once when `idleActive` is set (main.js:354).

- `TimersGo` (`TimersReleased`) for every script: a timer that is open and not armed is one whose function runs or has thrown, or an interval of 0,
  and the loop does not end while one is armed (`Handed`). `ClosedOnce` (`NoDoubleClose`) under `Timely`, that a timeout is not
  cleared in its own function and no timer after it is closed: when the timer callback closes a timer
  nothing has closed it before (`OnlyCloser`). Without `Timely` the property is false (section 6).

`IpcChannelProofs` (for all texts and blocks that fit the buffer, every `Base`, and the stream cut anywhere):
- `MessagesDelivered` (`Delivered`), `BlocksFound` (`BlockInPlace`) and `NothingHeldBack` (`Prompt`). What has been sent and not
  been read is a run of frames, so the invariant says there is a function from the messages not yet delivered to the places
  where their frames begin (`InLine`): each frame lies whole behind the place, the next place is behind its end, and the first
  is as far back as `position` says. That such a function exists replaces an induction over the bytes. `InHand` says that
  of the first frame `message` holds what has been read. It ends where a handler has thrown (`desync`).

`WorkersProofs` (for every set of threads, whether or not threads can be created or boot):
- `HandleOutlivesWorker` (`HandleLives`) and `OneTrueAnswer` (`AnsweredTruly`). The invariant `Life` is a thread's life
  from both sides: what the parent believes of it fixes where the worker can be, what became of the shared handle and
  what its flag says. The async signal is the handover: it is set exactly when the worker has done its last step.

`SocketLifecycleProofs` (for every script and all sets of Sockets and handles):
- `ReadersAreTied` (`ReadersHaveContext`) and `HandlesReachable` (`Reachable`). The invariant ties `ctx->handle` to
  `handle->data`: they point at each other from `context_init` on, a context is freed only with its handle, and a
  handle that is read or connecting has been tied. `Sane` says what a handle by itself can look like.

`TtyReplProofs` (for all lengths and every MAX_BUFFER longer than the prompt):
- `QueueStaysBounded` (`QueueBounded`). A chunk adds an answer and a prompt, so the bound needs `ReadsBelow`: while stdin is
  read the queue is below MAX_BUFFER. That holds because onRead pauses unless it is, only a drain resumes, and nothing but
  a write makes the queue longer.
- `StatisticsAgree` (`StatsAgree`): at the end, when stdin is closed and nothing is queued on stdout, copies, bytes offered and written,
  pauses and closes agree unless a write failed. The counters of copies and bytes and the size of the queue are sums over
  the requests in hand (`Kept`), written with a function of partial sums, so that a request that enters at one end or leaves
  at the other changes them by its own length. `InOnce` and `OutOnce` tie pauses to resumes and let each handle be closed once, and
  nothing closes stdout before stdin is gone (`Follows`).

`SecureSocketProofs` (for any number of flights, any sizes of flights, records and buffers, and reads cut anywhere; an out buffer
holds the text of a record, for the script puts it there):
- `CiphertextIntact` (`Intact`). `Flows(p, q)` says that what `p` has produced and `q` not taken lies as one run of numbers in `q`'s
  input, on the wire and in `p`'s output. Each function of `openssl.cc` is shown to keep it in both directions
  whatever the peer (`Keeps`), and the steps are made of those functions.
- `NothingWaits` (`Prompt`): what an end expects next is told by the flights and records it has taken, and what its script was given
  by the parts of these but the `rest` of the last (`Opened`, `Accounts`); so what waits is that rest and the parts of what is complete in
  the input BIO (`WaitingIs`), and a read that finds some gives one. For each flight and each record there is a `cycleOut`, which takes
  what the out buffer holds, so that the output BIO holds no more than the `excess` when an end returns to the loop (`Fits`), where it
  is the peer's turn (`Settled`); before the client's first flight nothing is on its way (`Quiet`).

`HttpProofs` (for URLs and streams of every length, but for the URLs of `FieldsMeant`):
- `SplitterAgrees` (`SplitterWithinStream`). Both parsers are folds over letters. Induction is available over sets: a set of
  naturals that is not empty has a least element (the library's well-foundedness theorems), hence one that holds 0 and successors
  holds all (`UpTo`), and so the function that `FoldLeft` chooses is unfolded to one value for each letter (`FoldExists`,
  `FoldWalks`). Letter for letter the splitter and the request parser are in the same state of `UrlTable`. The splitter's loop ends in a
  state in which a request's URL may end, in the dead state, or with a schema and no host (`LoopEnds`), and it refuses the last two
  (`TakenByBoth`).
- `FieldsMeant` (`FieldsExact`), for every set of letters, every width of the offsets and every URL whose letters it counts (`Short`). `Meant` says what the fields are by places in the whole URL:
  the first ":" of a schema, the first "/" or "?" after the authority, the first "#", and so on; the code has two automata
  that see one letter at a time. `PlacesAre` and `HostPlacesAre` say where these places lie and which letters are between them.
  From them the state after each letter is told (`StateAt`, `HostStateAt`), and a step goes from one to the next or to the dead state
  (`AllAdvance`, `HostAllAdvance`), the latter in the authority exactly at the first letter that is not `Formed`. Along the walk a
  field has the part of its letters that has been read (`Part`, `Fits`, `HostFits`); where a field begins is where the code sees a
  new state (`HostFresh`), and the length of the host, which the code resets once and then only adds to, comes out as what it should
  (`HostFitsNext`). At the end of both walks `AuthFormed`, `FinalFields` and `ConnectIs` give what `Meant` asks for
  (`HostedExact`, `RootedExact`). `AuthClean` is where the two meet: the first automaton refuses no letter of an authority that the
  second accepts.
- `ParserAsserts` (`AssertsHold`), for every stream, cut anywhere, whatever the script does between reads. `ParserInv` has the types
  and, in three parts, what a state knows: of the flags, the length and the header in hand (`Sound`), of the count before a chunk
  and of errors (`Healthy`), and of the string that may be open, of which there is at most one (`MarksIn`). Each way an action can end
  (the next letter, the same one again, a return, an error, a string begun or handed over) has a lemma that it keeps `ParserInv`;
  an action's proof says which ends it has. The loops over a name and over a value use the folds (`NameFold`, `ValueFold`), and
  `ValueEndIn` bounds where the latter stops.

Only model-checked: all liveness (out of this prover's reach, with ENABLED); `Prompt` and `Refused` of the
HTTP parser, which compare a fold with what was meant by a whole stream; `CopiesFreed` for scripts that write in onDrain and not after
a close. `DrainPromised` for scripts that
write in onDrain is false. Assumptions on constants are named in the modules; TLC evaluates them in the runs.

## 6. Findings

A run shows one disagreement between the program and itself: `close()` at EOF with bytes queued closes the handle twice
(`socket_runtime_close`). `after_read` sets `closing` though a shutdown is pending (socket.cc:157, 195), and main.js calls
`close()` in its own `onEnd` handlers (438, 465). The same happens for `close(0)` after EOF from onDrain, and for any close
in `onError` (socket.cc:210), which are not runs of their own.

Met while modelling, and kept out of the runs by a guard, a constant or a named exception:
- the drain event is lost when onDrain writes (socket.cc:98), and a write after the handle was closed leaks its copy
  (socket.cc:610);
- `clearTimeout` of a fired timeout, or from its own function, closes twice (main.js:247);
- a refused TCP connection is announced by `onConnect` (socket.cc:236);
- after a failed write the prompt closes stdout twice (tty.cc:363, main.js:36);
- TLS: what `uv_try_write` does not take is lost (openssl.cc:450), the tail of a flight longer than the out buffer stays
  in the output BIO and the handshake stops (openssl.cc:446), the rest of a record longer than the in buffer, and a record that arrives with the end of the
  handshake, or behind another in one read, waits for the next read (openssl.cc:465, 658), and the result of
  `SSL_write` is taken to be all or nothing (openssl.cc:546);
- a URL or headers longer than 65535 bytes, which max_header_size (80K, http_parser.h:63) lets pass, are told with a length that has
  wrapped, where httpParser.h:43 has `max 64k`, and `http_parser_parse_url` reports offsets that have wrapped (http_parser.h:365);
- a control byte in a header value is refused or let through as the reads cut the value (http_parser.c:1462, 1470);
- `http_parser_parse_url` accepts `host:port?` for CONNECT, where the comment at http_parser.c:2382 has only
  `hostname:port`.

## 7. What is not modelled

Sockets: the plugin chain and its close, splice and buffer set-up, options and addresses; a listener without
`onConnect`, which reads into uninitialised memory. Loop and timers: `again`, `ref` and `unref` of Timer; `onCheck`,
`onPrepare`, `reset` and a nested `run`. `process.onExit`, which the code stores and never calls. Garbage collection of
wrappers and Buffers, and V8's module loader.
TTY: `setup` and the terminal's modes, `wrapStdio` over pipes and files. OpenSSL: the plugin's close and finish, the SNI callback,
SecureContext, Hash and Hmac; the protocol itself is flights and records that must arrive whole and in order.
HTTP: set-up of the parser, pauses inside a message (where `Resume` starts over with an empty work
buffer), and a work buffer that is too small, for the model's is unbounded. picoHttpParser: the parser it calls is
fetched by the build and is not in the repository. UDP. zlib, fs, os and process are synchronous wrappers without state.
`thread.stop` does nothing. In Workers, the error that `on_context_complete` reads after it has freed the handle is
taken to be intact, and `th->name`, which points into a string that has gone, is not modelled.

## 8. The plan

Done, in this order: SocketStream with StreamContract and its proofs; EventLoop and its proofs; IpcChannel;
Workers; SocketLifecycle; HttpUrl and HttpParser; TtyRepl; SecureSocket; the proofs of Workers, SocketLifecycle,
TtyRepl, SecureSocket and of the timers; the proofs of IpcChannel, of the close and the copies of SocketStream, of the prompt's
statistics, of promptness over TLS, of the HTTP parser's asserts, and of the fields of a URL.

Next:
1. `UdpSend` (`udp.cc`): the out buffer that a later send overwrites while a request is queued.
2. `Wrappers` (`builtins/common.h`): weak references against the handles that call back.
3. Composition: IpcChannel over two SocketStreams, with the send buffer and the drain events of both, to show
   that what `Parser.write` passes to `write` arrives whole (`Delivered` over `KeepsContract`).
4. SecureSocket over the Socket that carries it: partial writes from its queue, and the order of the two closes.
5. Proofs of `Refused` for the letters of a single header, and of `CopiesFreed`
   for scripts that write in onDrain but not after a close.
