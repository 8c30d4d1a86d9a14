----------------------------- MODULE IpcChannel -----------------------------
(***************************************************************************)
(* One direction of the message channel between a thread and the thread    *)
(* that spawned it: the class Parser of src/src/main.js, whose write()     *)
(* frames a message in the send buffer wb and whose read() takes frames    *)
(* apart, from whatever pieces the socket delivers in the receive buffer   *)
(* rb.  The socket between them is a stream of bytes (see StreamContract). *)
(*                                                                         *)
(* A frame is the sender's id, the opCode, the length in two bytes and the *)
(* payload.  A byte has Base values: 256 in the program.                   *)
(***************************************************************************)
EXTENDS Naturals, Sequences

CONSTANTS
    Base,       \* values of a byte
    Id,         \* process.TID || process.PID of the sender
    Texts,      \* what send and sendString are given: see Text
    Blocks,     \* what sendBuffer is given: sequences of bytes
    BufSize,    \* THREAD_BUFFER_SIZE
    Throws,     \* onMessage may throw
    MaxSent     \* bound: messages sent

Byte == 0 .. Base - 1

\* A text: its length in JavaScript, its UTF-8 encoding, and how many bytes of
\* that Buffer.write writes when given room for `length' bytes: it stops before
\* the first character that does not fit.
Text == [length : Nat, bytes : Seq(Byte), fits : Nat]

ASSUME IpcAssumption ==
    /\ Base \in Nat /\ Base > 3 /\ Id \in Nat
    /\ BufSize \in Nat /\ MaxSent \in Nat /\ Throws \in BOOLEAN
    /\ Texts \subseteq Text /\ Blocks \subseteq Seq(Byte)
    /\ \A t \in Texts :
          /\ t.fits <= t.length /\ t.length <= Len(t.bytes)
          /\ t.length = Len(t.bytes) => t.fits = t.length
          /\ t.length + 4 <= BufSize /\ t.length < Base * Base
    /\ \A b \in Blocks : Len(b) + 4 <= BufSize /\ Len(b) < Base * Base

VARIABLES
    \* the sender
    wb,         \* the send buffer
    sent,       \* history: the messages sent
    \* the bytes on their way
    pipe,
    \* the receiver: rb holds the chunk being read, off is how far
    rb, off, reading,
    position,   \* this.position
    pos,        \* position, the local variable of read()
    message,
    received,   \* history: the messages given to onMessage
    desync      \* history: a handler threw in the middle of a chunk or of a frame

senderVars == <<wb, sent>>
receiverVars == <<rb, off, reading, position, pos, message, received, desync>>
vars == <<senderVars, pipe, receiverVars>>

Json == 1
String == 2
Block == 3

\* The JavaScript object message; a null payload is empty here.
NoMessage == [threadId |-> 0, opCode |-> 0, length |-> 0, payload |-> <<>>, offset |-> 0]

Init ==
    /\ wb = [i \in 1 .. BufSize |-> 0] /\ sent = <<>> /\ pipe = <<>>
    /\ rb = <<>> /\ off = 0 /\ reading = FALSE /\ position = 0 /\ pos = 0
    /\ message = NoMessage /\ received = <<>> /\ desync = FALSE

-----------------------------------------------------------------------------
(* Parser.write, followed by sock.write of what it returns *)

\* setUint16 writes the more significant byte first.
Header(opCode, length) == <<Id % Base, opCode, (length \div Base) % Base, length % Base>>

\* The buffer b after data has been written at offset o.
Written(b, o, data) ==
    [i \in 1 .. BufSize |-> IF i \in o + 1 .. o + Len(data) THEN data[i - o] ELSE b[i]]

\* data goes into the send buffer and length bytes behind the header are sent:
\* those data does not fill are what the buffer held before.
Transmit(opCode, length, data) ==
    /\ wb' = Written(wb, 0, Header(opCode, length) \o data)
    /\ pipe' = pipe \o SubSeq(wb', 1, length + 4)

SendText(opCode, t) ==
    /\ Len(sent) < MaxSent
    /\ Transmit(opCode, t.length, SubSeq(t.bytes, 1, t.fits))
    /\ sent' = Append(sent, [opCode |-> opCode, length |-> t.length, bytes |-> t.bytes])
    /\ UNCHANGED receiverVars

\* The script has put the block behind the header itself.
SendBuffer(b) ==
    /\ Len(sent) < MaxSent
    /\ Transmit(Block, Len(b), b)
    /\ sent' = Append(sent, [opCode |-> Block, length |-> Len(b), bytes |-> b])
    /\ UNCHANGED receiverVars

-----------------------------------------------------------------------------
(* Parser.read *)

\* The socket delivers the next n bytes.
OnRead(n) ==
    /\ ~reading /\ n <= Len(pipe)
    /\ rb' = SubSeq(pipe, 1, n)
    /\ pipe' = SubSeq(pipe, n + 1, Len(pipe))
    /\ off' = 0 /\ pos' = position /\ reading' = TRUE
    /\ UNCHANGED <<senderVars, position, message, received, desync>>

Left == Len(rb) - off
Looping == reading /\ off < Len(rb)

\* One byte of the header.
ReadHeader ==
    /\ Looping /\ pos < 4
    /\ LET b == rb[off + 1] IN
       message' = CASE pos = 0 -> [message EXCEPT !.threadId = b]
                    [] pos = 1 -> [message EXCEPT !.opCode = b]
                    [] pos = 2 -> [message EXCEPT !.length = b * Base]
                    [] pos = 3 -> [message EXCEPT !.length = @ + b, !.payload = <<>>]
    /\ pos' = pos + 1 /\ off' = off + 1
    /\ UNCHANGED <<senderVars, pipe, rb, reading, position, received, desync>>

ToRead == message.length - (pos - 4)

\* n bytes of the chunk from offset o, as many of them as it holds.
Bytes(o, n) == SubSeq(rb, o + 1, IF o + n <= Len(rb) THEN o + n ELSE Len(rb))

\* message.payload += rb.read(off, n), for texts.
Taken(n) ==
    IF message.opCode = Block THEN message.payload ELSE message.payload \o Bytes(off, n)

Fault_Incomplete == ToRead + off >= Len(rb)
Incomplete == ToRead + off > Len(rb)

\* The payload does not end in this chunk.
Fault_PositionAfter(n) == n + 4
PositionAfter(n) == pos + n

ReadPart ==
    /\ Looping /\ pos >= 4 /\ Incomplete
    /\ message' = [message EXCEPT !.payload = Taken(Left)]
    /\ pos' = PositionAfter(Left)
    /\ off' = Len(rb)
    /\ UNCHANGED <<senderVars, pipe, rb, reading, position, received, desync>>

\* What onMessage is told of where a block lies in rb.
Fault_Offset == off + ToRead
Offset == off

Complete ==
    IF message.opCode = Block
    THEN [message EXCEPT !.payload = <<>>, !.offset = Offset]
    ELSE [message EXCEPT !.payload = Taken(ToRead)]

\* history: of a block, what lies at the offset the handler is given
Delivery ==
    [message |-> Complete, whole |-> pos = 4,
     block |-> Bytes(Offset, ToRead)]

ReadLast ==
    /\ Looping /\ pos >= 4 /\ ~Incomplete
    /\ message' = Complete
    /\ received' = Append(received, Delivery)
    /\ off' = off + ToRead /\ pos' = 0
    /\ UNCHANGED <<senderVars, pipe, rb, reading, position, desync>>

\* onMessage throws: read() is left without saving the position, and the rest
\* of the chunk is not looked at.
HandlerThrows ==
    /\ Throws /\ Looping /\ pos >= 4 /\ ~Incomplete
    /\ message' = Complete
    /\ received' = Append(received, Delivery)
    /\ desync' = (desync \/ position # 0 \/ ToRead < Left)
    /\ reading' = FALSE /\ rb' = <<>> /\ off' = 0
    /\ UNCHANGED <<senderVars, pipe, position, pos>>

ReadReturns ==
    /\ reading /\ off = Len(rb)
    /\ position' = pos
    /\ reading' = FALSE /\ rb' = <<>> /\ off' = 0
    /\ UNCHANGED <<senderVars, pipe, pos, message, received, desync>>

-----------------------------------------------------------------------------
Send ==
    \/ \E t \in Texts, opCode \in {Json, String} : SendText(opCode, t)
    \/ \E b \in Blocks : SendBuffer(b)

\* Once the parser is out of step only its types are of interest.
Next ==
    /\ ~desync
    /\ \/ Send
       \/ \E n \in 1 .. BufSize : OnRead(n)
       \/ ReadHeader \/ ReadPart \/ ReadLast \/ HandlerThrows \/ ReadReturns

Spec == Init /\ [][Next]_vars

-----------------------------------------------------------------------------
(* Properties *)

Ascii(m) == m.length = Len(m.bytes)

\* The n-th message given to onMessage is the n-th message sent: its sender,
\* opCode and length are right wherever the stream was cut, and the payload of a
\* text is complete if the text is ASCII.  A text that is not may lose
\* characters, but never the framing of the messages behind it (Parser.read,
\* Parser.write).
Delivered ==
    ~desync =>
        /\ Len(received) <= Len(sent)
        /\ \A k \in 1 .. Len(received) :
              LET m == received[k].message IN
              /\ m.threadId = Id % Base
              /\ m.opCode = sent[k].opCode /\ m.length = sent[k].length
              /\ (m.opCode # Block /\ Ascii(sent[k])) => m.payload = sent[k].bytes

\* A block whose frame was not cut inside the payload lies in rb where offset
\* says, in the moment onMessage is called.
BlockInPlace ==
    \A k \in 1 .. Len(received) :
        (received[k].message.opCode = Block /\ received[k].whole /\ ~desync)
            => received[k].block = sent[k].bytes

\* Between reads, with nothing on the way, every message sent has been given to
\* onMessage: only a last one that is empty waits, for the next byte to arrive.
Prompt ==
    (~reading /\ pipe = <<>> /\ ~desync) =>
        \A k \in Len(received) + 1 .. Len(sent) : k = Len(sent) /\ sent[k].length = 0
=============================================================================
