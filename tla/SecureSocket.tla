---------------------------- MODULE SecureSocket ----------------------------
(***************************************************************************)
(* Two SecureSockets of the openssl module, a client and a server, over    *)
(* the two directions of a connection.                                     *)
(*                                                                         *)
(* A SecureSocket is a plugin of its Socket: what the socket reads goes    *)
(* into the input BIO, and what OpenSSL leaves in the output BIO cycleOut  *)
(* gives to uv_try_write, whatever that accepts of it.                     *)
(*                                                                         *)
(* The bytes an end produces are numbered: first its flights of the        *)
(* handshake, then the records of its writes.  A unit that is lost leaves  *)
(* a gap, which the receiving SSL takes for a forgery when the record or   *)
(* flight it is part of should be complete.                                *)
(*                                                                         *)
(* The buffers are the scripts' and of any size.  What an out buffer does  *)
(* not hold stays in the output BIO until the next event of that end, and  *)
(* what an in buffer does not hold of a record stays in its SSL.           *)
(*                                                                         *)
(* The scripts write a record at most at a time, when they are told that   *)
(* the connection is secure or later, and call start until then.           *)
(* Closing is left out: on_plugin_close runs when the context it reads is  *)
(* freed.                                                                  *)
(***************************************************************************)
EXTENDS Naturals, Sequences, FiniteSets

CONSTANTS
    Flights,        \* numbers of flights of a handshake: 3 in TLS 1.3, 4 before
    FlightLen,      \* units of a flight
    RecordLen,      \* units of a record
    TextLen,        \* units of the text in it
    OutLens,        \* sizes of an out buffer
    InLens,         \* sizes of an in buffer
    MaxRecords      \* bound: records an end writes

ASSUME SizesAssumption ==
    /\ Flights \subseteq {n \in Nat : n >= 2}
    /\ FlightLen \in Nat \ {0} /\ RecordLen \in Nat \ {0}
    /\ TextLen \in 1 .. RecordLen
    /\ OutLens \subseteq {n \in Nat : n >= TextLen}     \* where a text is when it is written
    /\ InLens \subseteq Nat \ {0}

VARIABLES
    flights,        \* of the handshake, as the two ends have agreed
    end

vars == <<flights, end>>

Ends == {"client", "server"}
Peer(e) == CHOOSE p \in Ends : p # e

\* SecureSocket::Setup: a server accepts, a client connects.
Sender(flight) == IF flight % 2 = 1 THEN "client" ELSE "server"
HandshakeLen(e) == FlightLen * Cardinality({k \in 1 .. flights : Sender(k) = e})

\* One end: its buffers, the flights it has sent or taken, the next unit its
\* SSL expects, the units its SSL has produced, its BIOs, what its socket has
\* sent and the peer not read yet, and how often SSL_read has given a part of a
\* record and how many parts are left of the last one.
Init ==
    /\ flights \in Flights
    /\ \E out \in [Ends -> OutLens], in \in [Ends -> InLens] :
          end = [e \in Ends |->
                   [out |-> out[e], in |-> in[e],
                    stage |-> 0, expect |-> 1, produced |-> 0,
                    input |-> <<>>, output |-> <<>>, wire |-> <<>>,
                    told |-> FALSE, failed |-> FALSE, lost |-> FALSE,
                    written |-> 0, given |-> 0, rest |-> 0, surplus |-> 0, excess |-> 0]]

-----------------------------------------------------------------------------
(* OpenSSL, as openssl.cc uses it                                          *)

\* What is produced and no out buffer holds adds to the excess.
Excess(r, n) == IF n > r.out THEN n - r.out ELSE 0
Produce(r, n) ==
    [r EXCEPT !.output = @ \o [i \in 1 .. n |-> r.produced + i], !.produced = @ + n,
              !.excess = @ + Excess(r, n)]

Complete(r, n) == Len(r.input) >= n
Genuine(r, n) == \A i \in 1 .. n : r.input[i] = r.expect + i - 1
Take(r, n) == [r EXCEPT !.input = SubSeq(@, n + 1, Len(@)), !.expect = @ + n]

Finished(r) == r.stage = flights
Speaks(e, r) == ~Finished(r) /\ Sender(r.stage + 1) = e
Spoken(e, r) == IF Speaks(e, r) THEN [Produce(r, FlightLen) EXCEPT !.stage = @ + 1] ELSE r

\* SSL_do_handshake: it takes the peer's flight if it is there, and answers it.
SSL_do_handshake(e, r) ==
    LET q == Spoken(e, r) IN
    IF Finished(q) \/ ~Complete(q, FlightLen) THEN q
    ELSE IF ~Genuine(q, FlightLen) THEN [q EXCEPT !.failed = TRUE]
    ELSE Spoken(e, [Take(q, FlightLen) EXCEPT !.stage = @ + 1])

-----------------------------------------------------------------------------
(* cycleOut and SecureSocket::Write                                        *)

\* As much as the buffer holds leaves the BIO, once; uv_try_write takes k units of
\* it, or none, and the others are gone.
Fault_Left(r, n) == <<>>
Left(r, n) == SubSeq(r.output, n + 1, Len(r.output))

CycleOut(r) ==
    LET n == IF Len(r.output) < r.out THEN Len(r.output) ELSE r.out IN
    {[r EXCEPT !.output = Left(r, n), !.wire = @ \o SubSeq(r.output, 1, k),
               !.lost = @ \/ k < n] : k \in 0 .. n}

Write(r) == CycleOut([Produce(r, RecordLen) EXCEPT !.written = @ + 1])

\* onSecure or onRead: the script may write.
Handler(r) == {r} \cup (IF r.written < MaxRecords THEN Write(r) ELSE {})

-----------------------------------------------------------------------------
(* start_ssl                                                               *)

\* After an error the script is told and nothing is sent, not even the alert.
Fault_WantRead(q) == {q}
WantRead(q) == CycleOut(q)

Answered(q) ==
    IF q.failed THEN {q}
    ELSE IF Finished(q) THEN UNION {CycleOut(w) : w \in Handler([q EXCEPT !.told = TRUE])}
    ELSE WantRead(q)

\* A set of one element, here and in Read, is what TLC evaluates only once.
StartSSL(e, r) == UNION {Answered(q) : q \in {SSL_do_handshake(e, r)}}

Start(e) ==
    /\ ~Finished(end[e])
    /\ \E q \in StartSSL(e, end[e]) : end' = [end EXCEPT ![e] = q]
    /\ UNCHANGED flights

-----------------------------------------------------------------------------
(* on_plugin_read_data                                                     *)

\* The parts in which SSL_read gives the text of a record.
Parts(r) == (TextLen + r.in - 1) \div r.in

\* cycleIn: one SSL_read, which gives as much of one record as the buffer holds.
Fault_CycleIn(r) == {r}
CycleIn(r) ==
    IF r.failed THEN {r}
    ELSE IF r.rest > 0 THEN Handler([r EXCEPT !.given = @ + 1, !.rest = @ - 1])
    ELSE IF ~Complete(r, RecordLen) THEN {r}
    ELSE IF ~Genuine(r, RecordLen) THEN {[r EXCEPT !.failed = TRUE]}
    ELSE Handler([Take(r, RecordLen) EXCEPT !.given = @ + 1, !.rest = Parts(r) - 1])

\* Parts of the peer's records that are complete here and not given to the script.
Waiting(e, r) ==
    LET got == r.expect - 1 + Len(r.input)
        h == HandshakeLen(Peer(e))
    IN IF got < h THEN 0 ELSE ((got - h) \div RecordLen) * Parts(r) - r.given

\* Those of a read that the read itself cannot give: all but one, and all if
\* they come before the handshake is done.
Surplus(e, before, after) ==
    LET n == Waiting(e, after) - Waiting(e, before) IN
    IF Finished(before) THEN (IF n > 1 THEN n - 1 ELSE 0) ELSE n

\* BIO_write of the k units that have been read.
Brought(e, k) ==
    LET bio == [end[e] EXCEPT !.input = @ \o SubSeq(end[Peer(e)].wire, 1, k)]
    IN [bio EXCEPT !.surplus = @ + Surplus(e, end[e], bio)]

Read(e) ==
    /\ end[Peer(e)].wire # <<>>
    /\ \E k \in 1 .. Len(end[Peer(e)].wire) :
          /\ k <= end[e].in
          /\ \E r \in {Brought(e, k)} :
             \E q \in IF Finished(r) THEN UNION {CycleIn(w) : w \in CycleOut(r)}
                      ELSE StartSSL(e, r) :
                end' = [end EXCEPT ![e] = q, ![Peer(e)].wire = SubSeq(@, k + 1, Len(@))]
    /\ UNCHANGED flights

\* The script writes of its own accord.
Writes(e) ==
    /\ end[e].told /\ ~end[e].failed /\ end[e].written < MaxRecords
    /\ \E q \in Write(end[e]) : end' = [end EXCEPT ![e] = q]
    /\ UNCHANGED flights

-----------------------------------------------------------------------------
Next == \E e \in Ends : Start(e) \/ Read(e) \/ Writes(e)

Spec == Init /\ [][Next]_vars

\* The client starts, once, and what is sent is read in the end.
Begin == end["client"].stage = 0 /\ Start("client")
FairSpec == Spec /\ WF_vars(Begin) /\ \A e \in Ends : WF_vars(Read(e))

-----------------------------------------------------------------------------
\* As long as uv_try_write takes what it is given, what an end has produced and
\* its peer's SSL not taken is in one of the BIOs or on its way, in order and
\* without a gap, and no SSL fails: not where reads cut flights and records, nor
\* where a handler's write and a flight share the output BIO and its buffer.
Intact ==
    \A e \in Ends : LET p == end[Peer(e)] IN
        ~p.lost =>
            /\ ~end[e].failed
            /\ LET units == end[e].input \o p.wire \o p.output IN
               /\ Len(units) = p.produced + 1 - end[e].expect
               /\ \A i \in DOMAIN units : units[i] = end[e].expect + i - 1

\* Between events no more stays in an output BIO than flights and records have
\* been longer than the out buffer, so nothing if none is, although a flight and
\* the record of a handler share it; and no part of a record waits to be given to
\* the script but as many as reads have brought beyond their first, or with or
\* before the end of the handshake.
Prompt ==
    \A e \in Ends :
        ~end[Peer(e)].lost =>
            Len(end[e].output) <= end[e].excess /\ Waiting(e, end[e]) <= end[e].surplus

\* Both ends are told that the connection is secure, unless uv_try_write has
\* refused a part of what it was given, or the tail of a flight that is longer
\* than the out buffer stays in the output BIO: no event fetches it.
Secured ==
    \/ <>((\A e \in Ends : end[e].told) \/ \E e \in Ends : end[e].lost)
    \/ \E e \in Ends : <>[](end[e].out < FlightLen /\ end[e].output # <<>>)
=============================================================================
