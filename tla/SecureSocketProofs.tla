------------------------- MODULE SecureSocketProofs -------------------------
(***************************************************************************)
(* For any number of flights, any sizes of flights, records and buffers    *)
(* and however reads cut them: as long as uv_try_write takes what it is    *)
(* given, what one end's SSL has produced and the other's not taken lies   *)
(* in order and without a gap in the BIOs and on the wire.                 *)
(*                                                                         *)
(* Flows says so of the two ends of one direction.  Every function of      *)
(* openssl.cc takes the record of one end to another one, and is shown to  *)
(* keep Flows with any peer, in both directions; the steps are made of     *)
(* these functions.                                                        *)
(*                                                                         *)
(* That nothing waits between events rests on what an end expects: it has  *)
(* taken its peer's flights up to its stage, and the records it has given, *)
(* so that after the handshake the parts of records that wait are those of *)
(* the last one taken and of those complete in the input BIO, and a read   *)
(* that brings some gives one.  On the output BIO it rests on a cycleOut   *)
(* for every flight and every record: each takes what the buffer holds, so *)
(* that what is left grows by no more than the excess; a flight and the    *)
(* record of a handler may share the BIO, and are given two.               *)
(***************************************************************************)
EXTENDS SecureSocket, FiniteSetTheorems, TLAPS

EndType ==
    [out : Nat, in : Nat \ {0}, stage : Nat, expect : Nat, produced : Nat,
     input : Seq(Nat), output : Seq(Nat), wire : Seq(Nat),
     told : BOOLEAN, failed : BOOLEAN, lost : BOOLEAN,
     written : Nat, given : Nat, rest : Nat, surplus : Int, excess : Nat]

\* The units a, a + 1, ... up to the one before b.
Run(s, a, b) == a + Len(s) = b /\ \A i \in 1 .. Len(s) : s[i] = a + i - 1

\* What p has produced and q not taken is in q's input, on p's wire, and in p's
\* output.
Flows(p, q) ==
    p.lost \/ /\ ~q.failed
              /\ \E a, b \in Nat :
                    /\ Run(q.input, q.expect, a) /\ Run(p.wire, a, b)
                    /\ Run(p.output, b, p.produced + 1)

IInv ==
    /\ end \in [Ends -> EndType] /\ flights \in Nat
    /\ \A e \in Ends : Flows(end[Peer(e)], end[e])

LEMMA PeerOf == \A e \in Ends : Peer(e) \in Ends /\ Peer(e) # e /\ Peer(Peer(e)) = e
<1>1. Peer("client") = "server" /\ Peer("server") = "client"
  BY DEF Peer, Ends
<1> QED BY <1>1 DEF Ends

-----------------------------------------------------------------------------
(* Runs                                                                    *)

LEMMA RunJoined ==
    ASSUME NEW s \in Seq(Nat), NEW t \in Seq(Nat), NEW a \in Nat, NEW b \in Nat, NEW c \in Nat,
           Run(s, a, b), Run(t, b, c)
    PROVE  s \o t \in Seq(Nat) /\ Run(s \o t, a, c)
<1>1. s \o t \in Seq(Nat) /\ Len(s \o t) = Len(s) + Len(t)
  OBVIOUS
<1>2. ASSUME NEW i \in 1 .. Len(s \o t) PROVE (s \o t)[i] = a + i - 1
  <2>1. CASE i <= Len(s)
    BY <1>1, <2>1 DEF Run
  <2>2. CASE i > Len(s)
    <3>1. (s \o t)[i] = t[i - Len(s)] /\ i - Len(s) \in 1 .. Len(t)
      BY <1>1, <2>2
    <3> DEFINE j == i - Len(s)
    <3>2. t[j] = b + j - 1
      BY <3>1 DEF Run
    <3>3. a + Len(s) = b /\ Len(s) \in Nat /\ i \in Nat
      BY <1>1 DEF Run
    <3>4. \A l, k \in Nat : a + l = b => b + (k - l) - 1 = a + k - 1
      OBVIOUS
    <3>5. b + j - 1 = a + i - 1
      BY <3>3, <3>4
    <3> QED BY <3>1, <3>2, <3>5
  <2> QED BY <2>1, <2>2
<1>3. a + Len(s \o t) = c
  <2>1. a + Len(s) = b /\ b + Len(t) = c /\ Len(s) \in Nat /\ Len(t) \in Nat
    BY DEF Run
  <2>2. a + (Len(s) + Len(t)) = c
    BY <2>1
  <2> QED BY <1>1, <2>2
<1> HIDE DEF Run
<1>4. Run(s \o t, a, c)
  BY <1>2, <1>3 DEF Run
<1> QED BY <1>1, <1>4

LEMMA RunCut ==
    ASSUME NEW s \in Seq(Nat), NEW a \in Nat, NEW b \in Nat, NEW n \in 0 .. Len(s), Run(s, a, b)
    PROVE  /\ SubSeq(s, 1, n) \in Seq(Nat) /\ Run(SubSeq(s, 1, n), a, a + n)
           /\ SubSeq(s, n + 1, Len(s)) \in Seq(Nat) /\ Run(SubSeq(s, n + 1, Len(s)), a + n, b)
<1>1. SubSeq(s, 1, n) \in Seq(Nat) /\ Len(SubSeq(s, 1, n)) = n
      /\ \A i \in 1 .. n : SubSeq(s, 1, n)[i] = s[i]
  OBVIOUS
<1>2. SubSeq(s, n + 1, Len(s)) \in Seq(Nat) /\ Len(SubSeq(s, n + 1, Len(s))) = Len(s) - n
      /\ \A i \in 1 .. Len(s) - n : SubSeq(s, n + 1, Len(s))[i] = s[n + i]
  OBVIOUS
<1>3. Run(SubSeq(s, 1, n), a, a + n)
  BY <1>1 DEF Run
<1>4. Run(SubSeq(s, n + 1, Len(s)), a + n, b)
  <2> DEFINE t == SubSeq(s, n + 1, Len(s))
  <2>1. Len(t) = Len(s) - n /\ Len(s) \in Nat /\ n \in Nat
    BY <1>2
  <2>2. ASSUME NEW i \in 1 .. Len(t) PROVE t[i] = a + n + i - 1
    <3>1. n + i \in 1 .. Len(s) /\ t[i] = s[n + i]
      BY <1>2, <2>1
    <3>2. s[n + i] = a + (n + i) - 1
      BY <3>1 DEF Run
    <3> QED BY <3>1, <3>2
  <2>3. a + Len(s) = b
    BY DEF Run
  <2> HIDE DEF t
  <2>4. a + n + Len(t) = b
    BY <2>1, <2>3
  <2>5. Run(t, a + n, b)
    BY <2>2, <2>4 DEF Run
  <2> QED BY <2>5 DEF t
<1> QED BY <1>1, <1>2, <1>3, <1>4

LEMMA RunProduced ==
    ASSUME NEW m \in Nat, NEW n \in Nat
    PROVE  LET s == [i \in 1 .. n |-> m + i] IN s \in Seq(Nat) /\ Run(s, m + 1, m + n + 1)
<1> DEFINE s == [i \in 1 .. n |-> m + i]
<1>1. s \in Seq(Nat) /\ Len(s) = n
  OBVIOUS
<1>2. \A i \in 1 .. n : s[i] = m + 1 + i - 1
  OBVIOUS
<1> HIDE DEF s
<1>3. Run(s, m + 1, m + n + 1)
  BY <1>1, <1>2 DEF Run
<1> QED BY <1>1, <1>3 DEF s
\* Sizes in records.
LEMMA InRecords ==
    ASSUME NEW m \in Nat, m > 0, NEW g \in Nat, NEW l \in Nat
    PROVE  /\ (g * m + l) \div m - g = l \div m /\ l \div m \in Nat
           /\ l \div m >= 1 => l >= m
           /\ l >= m => (l - m) \div m = l \div m - 1
<1>1. l \div m \in Nat /\ l % m \in Nat /\ l % m < m /\ l = m * (l \div m) + (l % m)
  OBVIOUS
<1>2. PICK d \in Nat, x \in Nat : d = l \div m /\ x = l % m /\ l = m * d + x /\ x < m
  BY <1>1
<1>3. \A k, y \in Nat : y < m => (m * k + y) \div m = k
  <2> SUFFICES ASSUME NEW k \in Nat, NEW y \in Nat, y < m PROVE (m * k + y) \div m = k
    OBVIOUS
  <2>1. m * k + y \in Nat
    OBVIOUS
  <2>2. PICK d2 \in Nat, z \in Nat : d2 = (m * k + y) \div m /\ m * k + y = m * d2 + z /\ z < m
    BY <2>1
  <2>3. ~(d2 > k)
    <3>1. ASSUME d2 > k PROVE FALSE
      <4>1. PICK u \in Nat : d2 = k + 1 + u
        <5>1. d2 - k - 1 \in Nat /\ d2 = k + 1 + (d2 - k - 1)
          BY <3>1
        <5> QED BY <5>1
      <4>2. m * d2 = m * k + m + m * u
        BY <4>1
      <4>3. m * u \in Nat /\ m * k \in Nat
        OBVIOUS
      <4> QED BY <2>2, <4>2, <4>3
    <3> QED BY <3>1
  <2>4. ~(d2 < k)
    <3>1. ASSUME d2 < k PROVE FALSE
      <4>1. PICK u \in Nat : k = d2 + 1 + u
        <5>1. k - d2 - 1 \in Nat /\ k = d2 + 1 + (k - d2 - 1)
          BY <3>1
        <5> QED BY <5>1
      <4>2. m * k = m * d2 + m + m * u
        BY <4>1
      <4>3. m * u \in Nat /\ m * d2 \in Nat
        OBVIOUS
      <4> QED BY <2>2, <4>2, <4>3
    <3> QED BY <3>1
  <2> QED BY <2>2, <2>3, <2>4
<1>4. (g * m + l) \div m = g + d
  <2>1. g * m + l = m * (g + d) + x
    BY <1>2
  <2>2. g + d \in Nat
    OBVIOUS
  <2> QED BY <1>2, <1>3, <2>1, <2>2
<1>5. d >= 1 => l >= m
  <2>1. ASSUME d >= 1 PROVE l >= m
    <3>1. PICK u \in Nat : d = 1 + u
      <4>1. d - 1 \in Nat /\ d = 1 + (d - 1)
        BY <2>1
      <4> QED BY <4>1
    <3>2. m * d = m + m * u /\ m * u \in Nat
      BY <3>1
    <3> QED BY <1>2, <3>2
  <2> QED BY <2>1
<1>6. l >= m => (l - m) \div m = d - 1
  <2>1. ASSUME l >= m PROVE (l - m) \div m = d - 1
    <3>1. d >= 1
      <4>1. ASSUME d = 0 PROVE FALSE
        <5>1. m * d = 0
          BY <4>1
        <5> QED BY <1>2, <2>1, <5>1
      <4> QED BY <4>1
    <3>2. PICK u \in Nat : d = 1 + u
      <4>1. d - 1 \in Nat /\ d = 1 + (d - 1)
        BY <3>1
      <4> QED BY <4>1
    <3>3. l - m = m * u + x
      <4>1. m * d = m + m * u /\ m * u \in Nat
        BY <3>2
      <4> QED BY <1>2, <4>1
    <3>4. (l - m) \div m = u
      BY <1>2, <1>3, <3>3
    <3> QED BY <3>2, <3>4
  <2> QED BY <2>1
<1>7. (g * m + l) \div m - g = d
  BY <1>4
<1> QED BY <1>2, <1>5, <1>6, <1>7

-----------------------------------------------------------------------------
(* What keeps Flows, with any peer                                         *)

Keeps(r, q) ==
    /\ q \in EndType
    /\ \A x \in EndType : (Flows(r, x) => Flows(q, x)) /\ (Flows(x, r) => Flows(x, q))

LEMMA KeepsOn ==
    ASSUME NEW r \in EndType, NEW q, NEW x, Keeps(r, q), Keeps(q, x) PROVE Keeps(r, x)
BY DEF Keeps

\* A change to nothing that Flows looks at.
LEMMA KeepsRest ==
    ASSUME NEW r \in EndType, NEW q \in EndType,
           q.lost = r.lost, q.wire = r.wire, q.output = r.output, q.produced = r.produced,
           q.failed = r.failed, q.input = r.input, q.expect = r.expect
    PROVE  Keeps(r, q)
BY DEF Keeps, Flows

\* As a producer.
LEMMA KeepsAhead ==
    ASSUME NEW r \in EndType, NEW q \in EndType,
           q.failed = r.failed, q.input = r.input, q.expect = r.expect,
           q.lost \/ /\ q.lost = r.lost
                     /\ \A a, b \in Nat :
                           Run(r.wire, a, b) /\ Run(r.output, b, r.produced + 1)
                           => \E c \in Nat : Run(q.wire, a, c) /\ Run(q.output, c, q.produced + 1)
    PROVE  Keeps(r, q)
<1>1. ASSUME NEW x \in EndType, Flows(r, x) PROVE Flows(q, x)
  BY <1>1 DEF Flows
<1>2. ASSUME NEW x \in EndType, Flows(x, r) PROVE Flows(x, q)
  BY <1>2 DEF Flows
<1> QED BY <1>1, <1>2 DEF Keeps

LEMMA Produce_ ==
    ASSUME NEW r \in EndType, NEW n \in Nat PROVE Keeps(r, Produce(r, n))
<1> DEFINE s == [i \in 1 .. n |-> r.produced + i]
           q == Produce(r, n)
<1>1. r.produced \in Nat /\ r.output \in Seq(Nat)
  BY DEF EndType
<1>2. s \in Seq(Nat) /\ Run(s, r.produced + 1, r.produced + n + 1)
  BY <1>1, RunProduced
<1> HIDE DEF s
<1>3. PICK x \in Nat : x = r.excess + Excess(r, n)
  BY DEF EndType, Excess
<1>4. /\ r.output \o s \in Seq(Nat) /\ r.produced + n \in Nat
      /\ q = [r EXCEPT !.output = r.output \o s, !.produced = r.produced + n, !.excess = x]
  BY <1>1, <1>2, <1>3 DEF Produce, s
<1>5. q \in EndType /\ q.output = r.output \o s /\ q.produced = r.produced + n /\ q.wire = r.wire
      /\ q.lost = r.lost /\ q.failed = r.failed /\ q.input = r.input /\ q.expect = r.expect
  BY <1>3, <1>4 DEF EndType
<1> HIDE DEF q
<1>6. ASSUME NEW b \in Nat, Run(r.output, b, r.produced + 1)
      PROVE  Run(q.output, b, q.produced + 1)
  BY <1>1, <1>2, <1>5, <1>6, RunJoined
<1>7. Keeps(r, q)
  BY <1>5, <1>6, KeepsAhead
<1> QED BY <1>7 DEF q

\* uv_try_write takes all that cycleOut gives it, or something is lost.
LEMMA CycleOut_ ==
    ASSUME NEW r \in EndType, NEW q \in CycleOut(r) PROVE Keeps(r, q)
<1> DEFINE n == IF Len(r.output) < r.out THEN Len(r.output) ELSE r.out
<1>1. r.output \in Seq(Nat) /\ r.wire \in Seq(Nat) /\ r.produced \in Nat /\ r.lost \in BOOLEAN
  BY DEF EndType
<1>2. r.out \in Nat /\ Len(r.output) \in Nat
  BY <1>1 DEF EndType
<1>3. n \in 0 .. Len(r.output)
  BY <1>2
<1>4. PICK k \in 0 .. n :
         q = [r EXCEPT !.output = SubSeq(r.output, n + 1, Len(r.output)),
                       !.wire = r.wire \o SubSeq(r.output, 1, k), !.lost = r.lost \/ k < n]
  BY DEF CycleOut, Left
<1> HIDE DEF n
<1> DEFINE out == SubSeq(r.output, n + 1, Len(r.output))
           sent == SubSeq(r.output, 1, k)
           wire == r.wire \o sent
           lost == r.lost \/ k < n
<1>5. out \in Seq(Nat) /\ sent \in Seq(Nat)
  BY <1>1, <1>3, <1>4
<1>6. wire \in Seq(Nat) /\ lost \in BOOLEAN
  BY <1>1, <1>5
<1>7. q = [r EXCEPT !.output = out, !.wire = wire, !.lost = lost]
  BY <1>4
<1> HIDE DEF out, sent, wire, lost
<1>8. q \in EndType /\ q.output = out /\ q.wire = wire /\ q.lost = lost /\ q.produced = r.produced
      /\ q.failed = r.failed /\ q.input = r.input /\ q.expect = r.expect
  BY <1>5, <1>6, <1>7 DEF EndType
<1>9. CASE k < n
  BY <1>8, <1>9, KeepsAhead DEF lost
<1>10. CASE ~(k < n)
  <2>1. k = n /\ lost = r.lost
    BY <1>1, <1>3, <1>4, <1>10 DEF lost
  <2>2. ASSUME NEW a \in Nat, NEW b \in Nat, Run(r.wire, a, b), Run(r.output, b, r.produced + 1)
        PROVE  \E c \in Nat : Run(q.wire, a, c) /\ Run(q.output, c, q.produced + 1)
    <3>1. r.produced + 1 \in Nat /\ b + n \in Nat
      BY <1>1, <1>3
    <3>2. /\ Run(SubSeq(r.output, 1, n), b, b + n)
          /\ Run(SubSeq(r.output, n + 1, Len(r.output)), b + n, r.produced + 1)
      BY <1>1, <1>3, <2>2, <3>1, RunCut
    <3>3. Run(sent, b, b + n) /\ Run(out, b + n, r.produced + 1)
      BY <2>1, <3>2 DEF sent, out
    <3>4. Run(wire, a, b + n)
      BY <1>1, <1>5, <2>2, <3>1, <3>3, RunJoined DEF wire
    <3> QED BY <1>8, <3>1, <3>3, <3>4
  <2> QED BY <1>8, <2>1, <2>2, KeepsAhead
<1> QED BY <1>9, <1>10

\* As a consumer: what is complete is genuine, or the peer has lost something.
LEMMA FlowsGenuine ==
    ASSUME NEW r \in EndType, NEW x \in EndType, NEW n \in Nat, Complete(r, n),
           Flows(x, r), ~x.lost
    PROVE  Genuine(r, n)
<1>1. r.input \in Seq(Nat) /\ Len(r.input) \in Nat
  BY DEF EndType
<1>2. PICK a \in Nat : Run(r.input, r.expect, a)
  BY DEF Flows
<1>3. \A i \in 1 .. n : i \in 1 .. Len(r.input)
  BY <1>1 DEF Complete
<1> QED BY <1>2, <1>3 DEF Genuine, Run

LEMMA Take_ ==
    ASSUME NEW r \in EndType, NEW n \in Nat, Complete(r, n) PROVE Keeps(r, Take(r, n))
<1> DEFINE rest == SubSeq(r.input, n + 1, Len(r.input))
           q == Take(r, n)
<1>1. r.input \in Seq(Nat) /\ r.expect \in Nat /\ n \in 0 .. Len(r.input)
  BY DEF EndType, Complete
<1>2. rest \in Seq(Nat) /\ r.expect + n \in Nat
  BY <1>1
<1>3. q = [r EXCEPT !.input = rest, !.expect = r.expect + n]
  BY DEF Take
<1> HIDE DEF rest
<1>4. q \in EndType /\ q.input = rest /\ q.expect = r.expect + n /\ q.failed = r.failed
      /\ q.lost = r.lost /\ q.wire = r.wire /\ q.output = r.output /\ q.produced = r.produced
  BY <1>2, <1>3 DEF EndType
<1> HIDE DEF q
<1>5. \A a \in Nat : Run(r.input, r.expect, a) => Run(q.input, q.expect, a)
  BY <1>1, <1>4, RunCut DEF rest
<1>6. ASSUME NEW x \in EndType, Flows(r, x) PROVE Flows(q, x)
  BY <1>4, <1>6 DEF Flows
<1>7. ASSUME NEW x \in EndType, Flows(x, r) PROVE Flows(x, q)
  BY <1>4, <1>5, <1>7 DEF Flows
<1>8. Keeps(r, q)
  BY <1>4, <1>6, <1>7 DEF Keeps
<1> QED BY <1>8 DEF q

LEMMA Fail_ ==
    ASSUME NEW r \in EndType, NEW n \in Nat, Complete(r, n), ~Genuine(r, n)
    PROVE  Keeps(r, [r EXCEPT !.failed = TRUE])
<1> DEFINE q == [r EXCEPT !.failed = TRUE]
<1>1. q \in EndType /\ q.lost = r.lost /\ q.wire = r.wire /\ q.output = r.output
      /\ q.produced = r.produced
  BY DEF EndType
<1> HIDE DEF q
<1>2. ASSUME NEW x \in EndType, Flows(r, x) PROVE Flows(q, x)
  BY <1>1, <1>2 DEF Flows
<1>3. ASSUME NEW x \in EndType, Flows(x, r) PROVE Flows(x, q)
  BY <1>3, FlowsGenuine DEF Flows
<1>4. Keeps(r, q)
  BY <1>1, <1>2, <1>3 DEF Keeps
<1> QED BY <1>4 DEF q

-----------------------------------------------------------------------------
(* The functions of openssl.cc                                             *)

LEMMA Staged == ASSUME NEW r \in EndType PROVE Keeps(r, [r EXCEPT !.stage = @ + 1])
<1> DEFINE q == [r EXCEPT !.stage = r.stage + 1]
<1>1. r.stage + 1 \in Nat
  BY DEF EndType
<1>2. q \in EndType /\ q.lost = r.lost /\ q.wire = r.wire /\ q.output = r.output
      /\ q.produced = r.produced /\ q.failed = r.failed /\ q.input = r.input /\ q.expect = r.expect
  BY <1>1 DEF EndType
<1> HIDE DEF q
<1>3. Keeps(r, q)
  BY <1>2, KeepsRest
<1> QED BY <1>3 DEF q

LEMMA Spoken_ == ASSUME NEW e \in Ends, NEW r \in EndType PROVE Keeps(r, Spoken(e, r))
<1>1. Keeps(r, r)
  BY KeepsRest
<1>2. Keeps(r, [Produce(r, FlightLen) EXCEPT !.stage = @ + 1])
  <2>1. Keeps(r, Produce(r, FlightLen)) /\ Produce(r, FlightLen) \in EndType
    BY Produce_, SizesAssumption DEF Keeps
  <2> QED BY <2>1, Staged, KeepsOn
<1> QED BY <1>1, <1>2 DEF Spoken

LEMMA SSL_do_handshake_ ==
    ASSUME NEW e \in Ends, NEW r \in EndType PROVE Keeps(r, SSL_do_handshake(e, r))
<1> DEFINE q == Spoken(e, r)
           t == [Take(q, FlightLen) EXCEPT !.stage = @ + 1]
<1>1. Keeps(r, q) /\ q \in EndType /\ FlightLen \in Nat
  BY Spoken_, SizesAssumption DEF Keeps
<1> HIDE DEF q
<1>2. CASE Finished(q) \/ ~Complete(q, FlightLen)
  BY <1>1, <1>2 DEF SSL_do_handshake, q
<1>3. CASE Complete(q, FlightLen) /\ ~Genuine(q, FlightLen) /\ ~Finished(q)
  <2>1. Keeps(q, [q EXCEPT !.failed = TRUE])
    BY <1>1, <1>3, Fail_
  <2>2. Keeps(r, [q EXCEPT !.failed = TRUE])
    BY <1>1, <2>1, KeepsOn
  <2>3. SSL_do_handshake(e, r) = [q EXCEPT !.failed = TRUE]
    BY <1>3 DEF SSL_do_handshake, q
  <2> QED BY <2>2, <2>3
<1>4. CASE Complete(q, FlightLen) /\ Genuine(q, FlightLen) /\ ~Finished(q)
  <2>1. Keeps(q, Take(q, FlightLen)) /\ Take(q, FlightLen) \in EndType
    BY <1>1, <1>4, Take_ DEF Keeps
  <2>2. Keeps(Take(q, FlightLen), t) /\ t \in EndType
    BY <2>1, Staged DEF Keeps
  <2>3. Keeps(t, Spoken(e, t))
    BY <2>2, Spoken_
  <2>4. Keeps(r, Spoken(e, t))
    BY <1>1, <2>1, <2>2, <2>3, KeepsOn
  <2>5. SSL_do_handshake(e, r) = Spoken(e, t)
    BY <1>4 DEF SSL_do_handshake, q
  <2> QED BY <2>4, <2>5
<1> QED BY <1>2, <1>3, <1>4

LEMMA Write_ == ASSUME NEW r \in EndType, NEW q \in Write(r) PROVE Keeps(r, q)
<1> DEFINE p == Produce(r, RecordLen)
           w == [p EXCEPT !.written = p.written + 1]
<1>1. Keeps(r, p) /\ p \in EndType
  BY Produce_, SizesAssumption DEF Keeps
<1> HIDE DEF p
<1>2. Keeps(p, w) /\ w \in EndType
  <2>1. p.written + 1 \in Nat
    <3>1. PICK d \in Nat : d = p.written
      BY <1>1 DEF EndType
    <3>2. d + 1 \in Nat
      OBVIOUS
    <3> QED BY <3>1, <3>2, Zenon
  <2>2. w \in EndType /\ w.lost = p.lost /\ w.wire = p.wire /\ w.output = p.output
        /\ w.produced = p.produced /\ w.failed = p.failed /\ w.input = p.input /\ w.expect = p.expect
    BY <1>1, <2>1 DEF EndType
  <2> HIDE DEF w
  <2> QED BY <1>1, <2>2, KeepsRest
<1>3. q \in CycleOut(w)
  BY DEF Write, p
<1> HIDE DEF w
<1>4. Keeps(w, q)
  BY <1>2, <1>3, CycleOut_
<1> QED BY <1>1, <1>2, <1>4, KeepsOn

LEMMA Handler_ == ASSUME NEW r \in EndType, NEW q \in Handler(r) PROVE Keeps(r, q)
<1>1. Keeps(r, r)
  BY KeepsRest
<1> QED BY <1>1, Write_ DEF Handler

LEMMA StartSSL_ ==
    ASSUME NEW e \in Ends, NEW r \in EndType, NEW x \in StartSSL(e, r) PROVE Keeps(r, x)
<1> DEFINE q == SSL_do_handshake(e, r)
           t == [q EXCEPT !.told = TRUE]
<1>1. Keeps(r, q) /\ q \in EndType
  BY SSL_do_handshake_ DEF Keeps
<1> HIDE DEF q
<1>2. Keeps(q, t) /\ t \in EndType
  <2>1. t \in EndType /\ t.lost = q.lost /\ t.wire = q.wire /\ t.output = q.output
        /\ t.produced = q.produced /\ t.failed = q.failed /\ t.input = q.input /\ t.expect = q.expect
    BY <1>1 DEF EndType
  <2> HIDE DEF t
  <2> QED BY <1>1, <2>1, KeepsRest
<1>6. x \in Answered(q)
  BY DEF StartSSL, q
<1>3. x = q \/ (\E w \in Handler(t) : x \in CycleOut(w)) \/ x \in CycleOut(q)
  BY <1>6 DEF Answered, WantRead
<1> HIDE DEF t
<1>4. ASSUME NEW w \in Handler(t), x \in CycleOut(w) PROVE Keeps(r, x)
  <2>1. Keeps(t, w) /\ w \in EndType
    BY <1>2, Handler_ DEF Keeps
  <2>2. Keeps(w, x)
    BY <1>4, <2>1, CycleOut_
  <2> QED BY <1>1, <1>2, <2>1, <2>2, KeepsOn
<1>5. CASE x \in CycleOut(q)
  BY <1>1, <1>5, CycleOut_, KeepsOn
<1> QED BY <1>1, <1>3, <1>4, <1>5

LEMMA Gave ==
    ASSUME NEW r \in EndType, NEW g \in Nat, NEW n \in Nat
    PROVE  LET q == [r EXCEPT !.given = g, !.rest = n] IN
           /\ q \in EndType /\ q.given = g /\ q.rest = n /\ Keeps(r, q)
           /\ q.out = r.out /\ q.in = r.in /\ q.stage = r.stage /\ q.input = r.input
           /\ q.expect = r.expect /\ q.failed = r.failed /\ q.told = r.told /\ q.lost = r.lost
           /\ q.output = r.output /\ q.surplus = r.surplus /\ q.excess = r.excess
<1> DEFINE q == [r EXCEPT !.given = g, !.rest = n]
<1>1. /\ q \in EndType /\ q.given = g /\ q.rest = n /\ q.wire = r.wire /\ q.produced = r.produced
      /\ q.out = r.out /\ q.in = r.in /\ q.stage = r.stage /\ q.input = r.input
      /\ q.expect = r.expect /\ q.failed = r.failed /\ q.told = r.told /\ q.lost = r.lost
      /\ q.output = r.output /\ q.surplus = r.surplus /\ q.excess = r.excess
  BY DEF EndType
<1> HIDE DEF q
<1>2. Keeps(r, q)
  BY <1>1, KeepsRest
<1> QED BY <1>1, <1>2 DEF q

LEMMA PartsType == ASSUME NEW r \in EndType PROVE Parts(r) \in Nat \ {0}
<1>1. PICK t \in Nat \ {0}, i \in Nat \ {0} : t = TextLen /\ i = r.in
  <2>1. TextLen \in Nat \ {0}
    BY SizesAssumption
  <2>2. r.in \in Nat \ {0}
    BY DEF EndType
  <2> QED BY <2>1, <2>2
<1>2. PICK l \in Nat : l = t + i - 1 /\ l - i \in Nat
  <2>1. t + i - 1 \in Nat /\ (t + i - 1) - i \in Nat
    OBVIOUS
  <2> QED BY <2>1
<1>3. l \div i \in Nat /\ (l - i) \div i \in Nat /\ (l - i) \div i = l \div i - 1
  BY <1>2, InRecords
<1>4. PICK d \in Nat, f \in Nat : d = l \div i /\ f = d - 1
  BY <1>3
<1>5. d # 0
  BY <1>4
<1>6. Parts(r) = d
  BY <1>1, <1>2, <1>4 DEF Parts
<1> QED BY <1>5, <1>6

LEMMA CycleIn_ == ASSUME NEW r \in EndType, NEW x \in CycleIn(r) PROVE Keeps(r, x)
<1> DEFINE p == Take(r, RecordLen)
           t == [p EXCEPT !.given = p.given + 1, !.rest = Parts(r) - 1]
           u == [r EXCEPT !.given = r.given + 1, !.rest = r.rest - 1]
<1>1. Keeps(r, r) /\ RecordLen \in Nat
  BY KeepsRest, SizesAssumption
<1>2. CASE r.failed \/ (~(r.rest > 0) /\ ~Complete(r, RecordLen))
  BY <1>1, <1>2 DEF CycleIn
<1>3. CASE ~r.failed /\ ~(r.rest > 0) /\ Complete(r, RecordLen) /\ ~Genuine(r, RecordLen)
  BY <1>1, <1>3, Fail_ DEF CycleIn
<1>4. CASE ~r.failed /\ ~(r.rest > 0) /\ Complete(r, RecordLen) /\ Genuine(r, RecordLen)
  <2>1. Keeps(r, p) /\ p \in EndType
    BY <1>1, <1>4, Take_ DEF Keeps
  <2>2. x \in Handler(t)
    BY <1>4 DEF CycleIn
  <2> HIDE DEF p
  <2>3. PICK g \in Nat, n \in Nat : g = p.given + 1 /\ n = Parts(r) - 1
    <3>1. p.given \in Nat /\ Parts(r) \in Nat \ {0}
      BY <2>1, PartsType DEF EndType
    <3> QED BY <3>1
  <2>4. t \in EndType /\ Keeps(p, t)
    BY <2>1, <2>3, Gave
  <2> HIDE DEF t
  <2>5. Keeps(t, x)
    BY <2>2, <2>4, Handler_
  <2> QED BY <2>1, <2>4, <2>5, KeepsOn
<1>5. CASE ~r.failed /\ r.rest > 0
  <2>1. PICK g \in Nat, n \in Nat : g = r.given + 1 /\ n = r.rest - 1
    <3>1. r.given \in Nat /\ r.rest \in Nat
      BY DEF EndType
    <3> QED BY <1>5, <3>1
  <2>2. u \in EndType /\ Keeps(r, u)
    BY <2>1, Gave
  <2>3. x \in Handler(u)
    BY <1>5 DEF CycleIn
  <2> HIDE DEF u
  <2> QED BY <2>2, <2>3, Handler_, KeepsOn
<1> QED BY <1>2, <1>3, <1>4, <1>5

-----------------------------------------------------------------------------
(* The steps                                                               *)

\* An end goes on by itself.
LEMMA OneEnd ==
    ASSUME IInv, NEW e \in Ends, NEW q, Keeps(end[e], q), end' = [end EXCEPT ![e] = q],
           flights' = flights
    PROVE  IInv'
<1>1. end \in [Ends -> EndType] /\ q \in EndType
  BY DEF IInv, Keeps
<1>2. end' \in [Ends -> EndType]
  BY <1>1
<1>3. ASSUME NEW d \in Ends PROVE Flows(end'[Peer(d)], end'[d])
  <2>1. Flows(end[Peer(d)], end[d]) /\ Peer(d) \in Ends /\ Peer(d) # d
    BY PeerOf DEF IInv
  <2>2. CASE d = e
    BY <1>1, <2>1, <2>2 DEF Keeps
  <2>3. CASE d # e
    <3>1. Peer(d) = e
      BY <2>1, <2>3 DEF Ends
    <3> QED BY <1>1, <2>1, <2>3, <3>1 DEF Keeps
  <2> QED BY <2>2, <2>3
<1> QED BY <1>2, <1>3 DEF IInv

LEMMA Start_ == ASSUME IInv, NEW e \in Ends, Start(e) PROVE IInv'
<1>1. end[e] \in EndType
  BY DEF IInv
<1> QED BY <1>1, StartSSL_, OneEnd DEF Start

LEMMA Writes_ == ASSUME IInv, NEW e \in Ends, Writes(e) PROVE IInv'
<1>1. end[e] \in EndType
  BY DEF IInv
<1> QED BY <1>1, Write_, OneEnd DEF Writes

LEMMA WaitingType ==
    ASSUME IInv, NEW e \in Ends, NEW r \in EndType PROVE Waiting(e, r) \in Int
<1> DEFINE got == r.expect - 1 + Len(r.input)
           h == HandshakeLen(Peer(e))
<1>1. got \in Int /\ r.given \in Nat /\ RecordLen \in Nat \ {0}
  BY SizesAssumption DEF EndType
<1>5. PICK n \in Nat : n = Parts(r)
  BY PartsType
<1>2. h \in Nat
  <2> DEFINE K == {k \in 1 .. flights : Sender(k) = Peer(e)}
  <2>1. IsFiniteSet(1 .. flights)
    BY FS_Interval DEF IInv
  <2>2. IsFiniteSet(K)
    BY <2>1, FS_Subset
  <2>3. Cardinality(K) \in Nat
    BY <2>2, FS_CardinalityType
  <2> HIDE DEF K
  <2>4. FlightLen * Cardinality(K) \in Nat
    BY <2>3, SizesAssumption
  <2> QED BY <2>4 DEF HandshakeLen, K
<1> HIDE DEF got, h
<1>3. (got - h) \div RecordLen \in Int
  BY <1>1, <1>2
<1>4. (IF got < h THEN 0 ELSE ((got - h) \div RecordLen) * n - r.given) \in Int
  <2>1. PICK d \in Int : d = (got - h) \div RecordLen
    BY <1>3
  <2>2. d * n - r.given \in Int
    BY <1>1
  <2> QED BY <2>1, <2>2
<1> QED BY <1>4, <1>5 DEF Waiting, got, h

LEMMA SurplusType ==
    ASSUME IInv, NEW e \in Ends, NEW r \in EndType, NEW q \in EndType
    PROVE  Surplus(e, r, q) \in Int
BY WaitingType DEF Surplus

\* BIO_write: what was first on the wire is now last in the input.
LEMMA Moved ==
    ASSUME NEW p \in EndType, NEW r \in EndType, NEW k \in 0 .. Len(p.wire), Flows(p, r),
           NEW p2 \in EndType, NEW r2 \in EndType,
           p2 = [p EXCEPT !.wire = SubSeq(p.wire, k + 1, Len(p.wire))],
           r2.input = r.input \o SubSeq(p.wire, 1, k),
           r2.expect = r.expect, r2.failed = r.failed
    PROVE  Flows(p2, r2)
<1>1. p2.wire = SubSeq(p.wire, k + 1, Len(p.wire)) /\ p2.lost = p.lost /\ p2.output = p.output
      /\ p2.produced = p.produced
  BY DEF EndType
<1>2. p.wire \in Seq(Nat) /\ r.input \in Seq(Nat) /\ r.expect \in Nat
  BY DEF EndType
<1>3. CASE p.lost
  BY <1>1, <1>3 DEF Flows
<1>4. CASE ~p.lost
  <2>1. PICK a \in Nat, b \in Nat :
           /\ Run(r.input, r.expect, a) /\ Run(p.wire, a, b) /\ Run(p.output, b, p.produced + 1)
    BY <1>4 DEF Flows
  <2>2. /\ SubSeq(p.wire, 1, k) \in Seq(Nat) /\ Run(SubSeq(p.wire, 1, k), a, a + k)
        /\ Run(SubSeq(p.wire, k + 1, Len(p.wire)), a + k, b)
    BY <1>2, <2>1, RunCut
  <2>3. a + k \in Nat
    OBVIOUS
  <2>4. Run(r2.input, r2.expect, a + k)
    BY <1>2, <2>1, <2>2, <2>3, RunJoined
  <2>5. ~r2.failed
    BY <1>4 DEF Flows
  <2> QED BY <1>1, <2>1, <2>2, <2>3, <2>4, <2>5 DEF Flows
<1> QED BY <1>3, <1>4

LEMMA Read_ == ASSUME IInv, NEW e \in Ends, Read(e) PROVE IInv'
<1> DEFINE p == end[Peer(e)]
           before == end[e]
<1>1. /\ Peer(e) \in Ends /\ Peer(e) # e /\ Peer(Peer(e)) = e
      /\ end \in [Ends -> EndType] /\ p \in EndType /\ before \in EndType
      /\ Flows(p, before) /\ Flows(before, p)
  BY PeerOf DEF IInv
<1>2. PICK k \in 1 .. Len(p.wire) :
         \E q \in IF Finished(Brought(e, k)) THEN UNION {CycleIn(w) : w \in CycleOut(Brought(e, k))}
                  ELSE StartSSL(e, Brought(e, k)) :
            end' = [end EXCEPT ![e] = q, ![Peer(e)].wire = SubSeq(@, k + 1, Len(@))]
  BY DEF Read
<1> DEFINE bio == [before EXCEPT !.input = before.input \o SubSeq(p.wire, 1, k)]
           r == [bio EXCEPT !.surplus = bio.surplus + Surplus(e, before, bio)]
           rest == [p EXCEPT !.wire = SubSeq(p.wire, k + 1, Len(p.wire))]
<1>3. r = Brought(e, k)
  BY DEF Brought
<1> HIDE DEF r, bio, rest
<1>4. PICK q \in IF Finished(r) THEN UNION {CycleIn(w) : w \in CycleOut(r)} ELSE StartSSL(e, r) :
         end' = [end EXCEPT ![e] = q, ![Peer(e)].wire = SubSeq(@, k + 1, Len(@))]
  BY <1>2, <1>3
<1>5. p.wire \in Seq(Nat) /\ before.input \in Seq(Nat) /\ k \in 0 .. Len(p.wire)
  BY <1>1 DEF EndType
<1>6. before.input \o SubSeq(p.wire, 1, k) \in Seq(Nat)
      /\ SubSeq(p.wire, k + 1, Len(p.wire)) \in Seq(Nat)
  BY <1>5
<1>7. bio \in EndType /\ rest \in EndType
  BY <1>1, <1>6 DEF EndType, bio, rest
<1>8. bio.surplus + Surplus(e, before, bio) \in Int
  <2>1. Surplus(e, before, bio) \in Int
    BY <1>1, <1>7, SurplusType
  <2>2. bio.surplus \in Int
    BY <1>7 DEF EndType
  <2> QED BY <2>1, <2>2
<1>9. r \in EndType /\ r.input = before.input \o SubSeq(p.wire, 1, k)
      /\ r.expect = before.expect /\ r.failed = before.failed /\ r.wire = before.wire
      /\ r.output = before.output /\ r.lost = before.lost /\ r.produced = before.produced
  BY <1>1, <1>6, <1>7, <1>8 DEF EndType, r, bio
<1>10. rest.expect = p.expect /\ rest.failed = p.failed /\ rest.input = p.input
  BY <1>1 DEF EndType, rest
<1>11. Flows(rest, r)
  BY <1>1, <1>5, <1>7, <1>9, Moved DEF rest
<1>12. Flows(r, rest)
  BY <1>1, <1>9, <1>10 DEF Flows
<1>13. end' = [end EXCEPT ![e] = q, ![Peer(e)] = rest]
  BY <1>1, <1>4 DEF rest
<1>14. Keeps(r, q)
  <2>1. ASSUME NEW w \in CycleOut(r), q \in CycleIn(w) PROVE Keeps(r, q)
    <3>1. Keeps(r, w) /\ w \in EndType
      BY <1>9, CycleOut_ DEF Keeps
    <3> QED BY <1>9, <2>1, <3>1, CycleIn_, KeepsOn
  <2> QED BY <1>4, <1>9, <2>1, StartSSL_
<1>15. q \in EndType /\ Flows(rest, q) /\ Flows(q, rest)
  BY <1>7, <1>11, <1>12, <1>14 DEF Keeps
<1>16. end' \in [Ends -> EndType] /\ end'[e] = q /\ end'[Peer(e)] = rest
  BY <1>1, <1>7, <1>13, <1>15
<1>17. \A d \in Ends : d = e \/ d = Peer(e)
  BY <1>1 DEF Ends
<1>18. flights' \in Nat
  BY DEF IInv, Read
<1> QED BY <1>1, <1>15, <1>16, <1>17, <1>18 DEF IInv

-----------------------------------------------------------------------------
LEMMA Invariant == Spec => []IInv
<1>1. Init => IInv
  <2> SUFFICES ASSUME Init PROVE IInv
    OBVIOUS
  <2> DEFINE u == <<>>
             r(o, i) == [out |-> o, in |-> i, stage |-> 0, expect |-> 1, produced |-> 0,
                         input |-> u, output |-> u, wire |-> u, told |-> FALSE, failed |-> FALSE,
                         lost |-> FALSE, written |-> 0, given |-> 0, rest |-> 0, surplus |-> 0,
                         excess |-> 0]
  <2>1. u \in Seq(Nat) /\ Run(u, 1, 1)
    BY DEF Run
  <2>2. /\ \E out \in [Ends -> OutLens], in \in [Ends -> InLens] :
              end = [e \in Ends |-> r(out[e], in[e])]
        /\ flights \in Nat
    BY SizesAssumption DEF Init
  <2>3. PICK out \in [Ends -> OutLens], in \in [Ends -> InLens] :
           end = [e \in Ends |-> r(out[e], in[e])]
    BY <2>2
  <2>4. \A e \in Ends : out[e] \in Nat /\ in[e] \in Nat \ {0}
    BY SizesAssumption
  <2> HIDE DEF u
  <2>5. ASSUME NEW o \in Nat, NEW i \in Nat \ {0}, NEW o2 \in Nat, NEW i2 \in Nat \ {0}
        PROVE  r(o, i) \in EndType /\ Flows(r(o, i), r(o2, i2))
    BY <2>1 DEF EndType, Flows
  <2>6. \A e \in Ends : end[e] = r(out[e], in[e])
    BY <2>3
  <2> HIDE DEF r
  <2>7. ASSUME NEW e \in Ends PROVE end[e] \in EndType /\ Flows(end[Peer(e)], end[e])
    BY <2>4, <2>5, <2>6, PeerOf
  <2>8. end \in [Ends -> EndType]
    BY <2>3, <2>7
  <2> QED BY <2>2, <2>7, <2>8 DEF IInv
<1>2. IInv /\ [Next]_vars => IInv'
  <2> SUFFICES ASSUME IInv, [Next]_vars PROVE IInv'
    OBVIOUS
  <2>1. CASE UNCHANGED vars
    BY <2>1 DEF vars, IInv
  <2> QED BY <2>1, Start_, Read_, Writes_ DEF Next
<1> QED BY <1>1, <1>2, PTL DEF Spec

\* While uv_try_write takes what it is given, no byte of a flight or a record is
\* lost, doubled or out of order, and no SSL sees a forgery.
THEOREM CiphertextIntact == Spec => []Intact
<1>1. IInv => Intact
  <2> SUFFICES ASSUME IInv, NEW e \in Ends, ~end[Peer(e)].lost
               PROVE  LET p == end[Peer(e)]
                          units == end[e].input \o p.wire \o p.output
                      IN /\ ~end[e].failed
                         /\ Len(units) = p.produced + 1 - end[e].expect
                         /\ \A i \in DOMAIN units : units[i] = end[e].expect + i - 1
    BY DEF Intact
  <2> DEFINE p == end[Peer(e)]
             r == end[e]
             units == r.input \o p.wire \o p.output
  <2>1. p \in EndType /\ r \in EndType /\ Flows(p, r)
    BY PeerOf DEF IInv
  <2>2. /\ p.wire \in Seq(Nat) /\ p.output \in Seq(Nat) /\ p.produced \in Nat
        /\ r.input \in Seq(Nat) /\ r.expect \in Nat
    BY <2>1 DEF EndType
  <2>3. PICK a \in Nat, b \in Nat :
           ~r.failed /\ Run(r.input, r.expect, a) /\ Run(p.wire, a, b)
           /\ Run(p.output, b, p.produced + 1)
    BY <2>1 DEF Flows
  <2> HIDE DEF p, r
  <2>4. r.input \o p.wire \in Seq(Nat) /\ Run(r.input \o p.wire, r.expect, b)
    BY <2>2, <2>3, RunJoined
  <2>5. units \in Seq(Nat) /\ Run(units, r.expect, p.produced + 1)
    <3>1. p.produced + 1 \in Nat
      BY <2>2
    <3> QED BY <2>2, <2>3, <2>4, <3>1, RunJoined
  <2> HIDE DEF units
  <2>6. /\ Len(units) = p.produced + 1 - r.expect
        /\ \A i \in DOMAIN units : units[i] = r.expect + i - 1
    <3>1. r.expect + Len(units) = p.produced + 1 /\ Len(units) \in Nat
          /\ \A i \in 1 .. Len(units) : units[i] = r.expect + i - 1
      BY <2>5 DEF Run
    <3>2. DOMAIN units = 1 .. Len(units)
      BY <2>5
    <3> QED BY <2>2, <3>1, <3>2
  <2> QED BY <2>3, <2>6 DEF units, p, r
<1> QED BY <1>1, Invariant, PTL

-----------------------------------------------------------------------------
(* What waits to be given.  An end has taken its peer's part of the        *)
(* handshake as far as it has got, and its records; so what waits after    *)
(* the handshake is the rest of the last record and what lies complete in  *)
(* the input BIO.                                                          *)

\* Units of the peer's flights among the first k.
Taken(e, k) == FlightLen * Cardinality({j \in 1 .. k : Sender(j) = Peer(e)})

\* It has taken n records, and given all of them but the rest of the last.
Opened(e, r, n) ==
    /\ r.expect = 1 + Taken(e, r.stage) + n * RecordLen
    /\ r.given + r.rest = n * Parts(r)

Accounts(e, r) ==
    /\ \E n \in Nat : Opened(e, r, n) /\ (n = 0 \/ Finished(r))
    /\ r.told => Finished(r)

LEMMA TakenNext ==
    ASSUME NEW e \in Ends, NEW k \in Nat
    PROVE  /\ Taken(e, k) \in Nat /\ Taken(e, 0) = 0
           /\ Taken(e, k + 1) = Taken(e, k) + (IF Sender(k + 1) = Peer(e) THEN FlightLen ELSE 0)
<1> DEFINE K(i) == {j \in 1 .. i : Sender(j) = Peer(e)}
<1>1. \A i \in Nat : IsFiniteSet(K(i)) /\ Cardinality(K(i)) \in Nat
  <2> SUFFICES ASSUME NEW i \in Nat PROVE IsFiniteSet(K(i)) /\ Cardinality(K(i)) \in Nat
    OBVIOUS
  <2>1. IsFiniteSet(1 .. i)
    BY FS_Interval
  <2>2. IsFiniteSet(K(i))
    BY <2>1, FS_Subset
  <2> QED BY <2>2, FS_CardinalityType
<1>2. FlightLen \in Nat
  BY SizesAssumption
<1>3. K(0) = {} /\ Cardinality(K(0)) = 0
  <2>1. K(0) = {}
    OBVIOUS
  <2> QED BY <2>1, FS_EmptySet
<1>4. CASE Sender(k + 1) = Peer(e)
  <2>1. K(k + 1) = K(k) \cup {k + 1} /\ k + 1 \notin K(k)
    BY <1>4
  <2>2. Cardinality(K(k + 1)) = Cardinality(K(k)) + 1
    BY <1>1, <2>1, FS_AddElement
  <2>3. \A c \in Nat : FlightLen * (c + 1) = FlightLen * c + FlightLen
    BY <1>2
  <2> HIDE DEF K
  <2>4. FlightLen * Cardinality(K(k + 1)) = FlightLen * Cardinality(K(k)) + FlightLen
    BY <1>1, <2>2, <2>3
  <2>5. FlightLen * Cardinality(K(k)) \in Nat /\ FlightLen * Cardinality(K(0)) = 0
    BY <1>1, <1>2, <1>3
  <2> QED BY <1>4, <2>4, <2>5 DEF Taken, K
<1>5. CASE Sender(k + 1) # Peer(e)
  <2>1. K(k + 1) = K(k)
    <3>1. \A j \in 1 .. k + 1 : j \in 1 .. k \/ j = k + 1
      OBVIOUS
    <3>2. \A j \in 1 .. k : j \in 1 .. k + 1
      OBVIOUS
    <3> QED BY <1>5, <3>1, <3>2
  <2> HIDE DEF K
  <2>2. FlightLen * Cardinality(K(k)) \in Nat /\ FlightLen * Cardinality(K(0)) = 0
    BY <1>1, <1>2, <1>3
  <2>3. FlightLen * Cardinality(K(k + 1)) = FlightLen * Cardinality(K(k)) + 0
    BY <2>1, <2>2
  <2> QED BY <1>5, <2>2, <2>3 DEF Taken, K
<1> QED BY <1>4, <1>5

\* After the handshake what waits is that rest and what is complete in the input.
LEMMA WaitingIs ==
    ASSUME flights \in Nat, NEW e \in Ends, NEW r \in EndType, Accounts(e, r), Finished(r)
    PROVE  Waiting(e, r) = r.rest + (Len(r.input) \div RecordLen) * Parts(r)
<1>1. PICK l \in Nat, g \in Nat, h \in Nat, n \in Nat, w \in Nat, c \in Nat :
         /\ l = Len(r.input) /\ g = r.given /\ h = Taken(e, r.stage) /\ n = Parts(r) /\ w = r.rest
         /\ r.expect = 1 + h + c * RecordLen /\ g + w = c * n
  <2>1. r.input \in Seq(Nat) /\ r.given \in Nat /\ r.stage \in Nat /\ r.rest \in Nat
    BY DEF EndType
  <2>2. PICK l \in Nat : l = Len(r.input)
    BY <2>1
  <2>3. PICK h \in Nat : h = Taken(e, r.stage)
    BY <2>1, TakenNext
  <2>4. PICK n \in Nat : n = Parts(r)
    BY PartsType
  <2>5. PICK c \in Nat : Opened(e, r, c)
    BY DEF Accounts
  <2> QED BY <2>1, <2>2, <2>3, <2>4, <2>5 DEF Opened
<1>2. h = HandshakeLen(Peer(e))
  BY <1>1 DEF Finished, Taken, HandshakeLen
<1>3. RecordLen \in Nat /\ RecordLen > 0
  BY SizesAssumption
<1>4. c * RecordLen \in Nat
  BY <1>3
<1>5. PICK got \in Nat : got = r.expect - 1 + Len(r.input) /\ got - h = c * RecordLen + l /\ ~(got < h)
  <2>1. r.expect - 1 + Len(r.input) = h + c * RecordLen + l
    BY <1>1, <1>4
  <2>2. h + c * RecordLen + l \in Nat /\ (h + c * RecordLen + l) - h = c * RecordLen + l
        /\ ~(h + c * RecordLen + l < h)
    BY <1>4
  <2> QED BY <2>1, <2>2
<1>6. Waiting(e, r) = ((got - h) \div RecordLen) * n - g
  BY <1>1, <1>2, <1>5 DEF Waiting
<1>7. PICK d \in Nat : d = l \div RecordLen /\ (c * RecordLen + l) \div RecordLen = c + d
  <2>1. PICK x \in Int, d \in Nat : x = (c * RecordLen + l) \div RecordLen /\ d = l \div RecordLen
    <3>1. (c * RecordLen + l) \div RecordLen \in Int /\ l \div RecordLen \in Nat
      BY <1>3, <1>4, InRecords
    <3> QED BY <3>1
  <2>2. x - c = d
    BY <1>3, <2>1, InRecords
  <2>3. x = c + d
    BY <2>2
  <2> QED BY <2>1, <2>3
<1>8. (c + d) * n - g = w + d * n
  <2>1. (c + d) * n = c * n + d * n /\ c * n \in Nat /\ d * n \in Nat
    OBVIOUS
  <2>2. g + w = c * n
    BY <1>1
  <2> QED BY <2>1, <2>2
<1> QED BY <1>1, <1>5, <1>6, <1>7, <1>8

-----------------------------------------------------------------------------
(* The output BIO.  What is produced adds no more to it beyond the excess  *)
(* than the buffer holds, and cycleOut takes that away: a flight and a     *)
(* record that share the BIO when the handshake ends and the script writes *)
(* at once are followed by two calls.                                      *)

\* No more than n units are there beyond the excess.
Fits(r, n) == Len(r.output) <= r.excess + n

\* Nothing has changed but what an end sends.
SameIn(r, q) ==
    /\ q.stage = r.stage /\ q.input = r.input /\ q.expect = r.expect /\ q.failed = r.failed
    /\ q.told = r.told /\ q.given = r.given /\ q.surplus = r.surplus
    /\ q.out = r.out /\ q.in = r.in /\ q.rest = r.rest
    /\ r.lost => q.lost

LEMMA SameInOn ==
    ASSUME NEW r, NEW q, NEW x, SameIn(r, q), SameIn(q, x) PROVE SameIn(r, x)
BY DEF SameIn

LEMMA SameAccounts ==
    ASSUME NEW e \in Ends, NEW r, NEW q, SameIn(r, q)
    PROVE  /\ Accounts(e, r) => Accounts(e, q)
           /\ Waiting(e, q) = Waiting(e, r) /\ (Speaks(e, q) <=> Speaks(e, r))
           /\ Finished(q) <=> Finished(r)
<1>1. (Finished(q) <=> Finished(r)) /\ Parts(q) = Parts(r)
  BY DEF SameIn, Finished, Parts
<1>2. Accounts(e, r) => Accounts(e, q)
  BY <1>1 DEF SameIn, Accounts, Opened
<1>3. Speaks(e, q) <=> Speaks(e, r)
  BY <1>1 DEF SameIn, Speaks
<1>4. Waiting(e, q) = Waiting(e, r)
  BY <1>1 DEF SameIn, Waiting
<1> QED BY <1>1, <1>2, <1>3, <1>4

LEMMA ProduceOut ==
    ASSUME NEW r \in EndType, NEW n \in Nat
    PROVE  /\ Produce(r, n) \in EndType /\ SameIn(r, Produce(r, n))
           /\ \A m \in Nat : Fits(r, m) => Fits(Produce(r, n), m + r.out)
<1> DEFINE s == [i \in 1 .. n |-> r.produced + i]
           q == Produce(r, n)
<1>1. q \in EndType
  BY Produce_ DEF Keeps
<1>2. r.produced \in Nat /\ r.output \in Seq(Nat) /\ r.out \in Nat /\ r.excess \in Nat
  BY DEF EndType
<1>3. s \in Seq(Nat) /\ Len(s) = n
  BY <1>2
<1> HIDE DEF s
<1>4. Len(r.output \o s) = Len(r.output) + n /\ Len(r.output) \in Nat
  <2>1. \A t, u \in Seq(Nat) : Len(t \o u) = Len(t) + Len(u) /\ Len(t) \in Nat
    OBVIOUS
  <2> QED BY <1>2, <1>3, <2>1
<1>5. PICK o, p, x : /\ o = r.output \o s /\ x = r.excess + Excess(r, n)
                     /\ q = [r EXCEPT !.output = o, !.produced = p, !.excess = x]
  <2>1. q = [r EXCEPT !.output = r.output \o s, !.produced = r.produced + n,
                      !.excess = r.excess + Excess(r, n)]
    BY DEF Produce, s
  <2> QED BY <2>1
<1>6. SameIn(r, q) /\ q.output = o /\ q.excess = x
  BY <1>5 DEF EndType, SameIn
<1>7. Excess(r, n) \in Nat /\ n <= Excess(r, n) + r.out
  BY <1>2 DEF Excess
<1> HIDE DEF q
<1>8. ASSUME NEW m \in Nat, Fits(r, m) PROVE Fits(q, m + r.out)
  <2>1. PICK l \in Nat, y \in Nat, z \in Nat, w \in Nat :
           l = Len(r.output) /\ y = Excess(r, n) /\ z = r.excess /\ w = r.out
    BY <1>2, <1>4, <1>7
  <2>2. l <= z + m /\ n <= y + w
    BY <1>7, <1>8, <2>1 DEF Fits
  <2>3. l + n <= (z + y) + (m + w)
    BY <2>2
  <2>4. Len(q.output) = l + n /\ q.excess = z + y
    BY <1>4, <1>5, <1>6, <2>1
  <2> QED BY <2>1, <2>3, <2>4 DEF Fits
<1>9. q \in EndType /\ SameIn(r, q) /\ \A m \in Nat : Fits(r, m) => Fits(q, m + r.out)
  BY <1>1, <1>6, <1>8
<1> QED BY <1>9 DEF q

LEMMA CutLength ==
    ASSUME NEW s \in Seq(Nat), NEW n \in 0 .. Len(s)
    PROVE  /\ SubSeq(s, n + 1, Len(s)) \in Seq(Nat) /\ Len(SubSeq(s, n + 1, Len(s))) = Len(s) - n
           /\ n = Len(s) => SubSeq(s, n + 1, Len(s)) = <<>>
           /\ SubSeq(s, 1, 0) = <<>> /\ s \o <<>> = s
<1>1. /\ SubSeq(s, n + 1, Len(s)) \in Seq(Nat) /\ Len(SubSeq(s, n + 1, Len(s))) = Len(s) - n
      /\ SubSeq(s, 1, 0) \in Seq(Nat) /\ Len(SubSeq(s, 1, 0)) = 0
  OBVIOUS
<1>2. \A t \in Seq(Nat) : Len(t) = 0 => t = <<>>
  OBVIOUS
<1>3. n = Len(s) => Len(SubSeq(s, n + 1, Len(s))) = 0
  BY <1>1
<1>4. s \o <<>> = s
  OBVIOUS
<1> QED BY <1>1, <1>2, <1>3, <1>4

LEMMA CycleOutOut ==
    ASSUME NEW r \in EndType, NEW q \in CycleOut(r)
    PROVE  /\ q \in EndType /\ SameIn(r, q)
           /\ \A m \in Nat : Fits(r, m + r.out) \/ Fits(r, m) => Fits(q, m)
           /\ r.output = <<>> => q.output = <<>> /\ q.wire = r.wire
<1> DEFINE n == IF Len(r.output) < r.out THEN Len(r.output) ELSE r.out
<1>1. r.output \in Seq(Nat) /\ r.wire \in Seq(Nat) /\ r.lost \in BOOLEAN /\ Len(r.output) \in Nat
      /\ r.out \in Nat /\ r.excess \in Nat
  BY DEF EndType
<1>2. n \in 0 .. Len(r.output) /\ (Len(r.output) <= r.out => n = Len(r.output))
      /\ (Len(r.output) > r.out => n = r.out)
  BY <1>1
<1>3. PICK k \in 0 .. n :
         q = [r EXCEPT !.output = SubSeq(r.output, n + 1, Len(r.output)),
                       !.wire = r.wire \o SubSeq(r.output, 1, k), !.lost = r.lost \/ k < n]
  BY DEF CycleOut, Left
<1> HIDE DEF n
<1>4. PICK o, w : /\ o = SubSeq(r.output, n + 1, Len(r.output)) /\ w = r.wire \o SubSeq(r.output, 1, k)
                  /\ q = [r EXCEPT !.output = o, !.wire = w, !.lost = r.lost \/ k < n]
  BY <1>3
<1>5. PICK b \in BOOLEAN : (r.lost => b) /\ q = [r EXCEPT !.output = o, !.wire = w, !.lost = b]
  BY <1>1, <1>4
<1>6. SameIn(r, q) /\ q.output = o /\ q.wire = w /\ q.excess = r.excess
  BY <1>5 DEF EndType, SameIn
<1>7. Len(o) = Len(r.output) - n
  BY <1>1, <1>2, <1>4, CutLength
<1>8. ASSUME NEW m \in Nat, Fits(r, m + r.out) \/ Fits(r, m) PROVE Fits(q, m)
  <2>1. PICK l \in Nat, z \in Nat, x \in Nat : l = Len(r.output) /\ z = r.excess /\ x = r.out
    BY <1>1
  <2>2. l <= z + (m + x) \/ l <= z + m
    BY <1>8, <2>1 DEF Fits
  <2>3. n \in Nat /\ (l <= x => n = l) /\ (l > x => n = x)
    BY <1>2, <2>1
  <2>4. l - n <= z + m
    BY <2>2, <2>3
  <2> QED BY <1>6, <1>7, <2>1, <2>4 DEF Fits
<1>9. ASSUME r.output = <<>> PROVE o = <<>> /\ w = r.wire
  <2>1. Len(r.output) = 0
    BY <1>9
  <2>2. k = 0 /\ n = Len(r.output)
    BY <1>2, <2>1
  <2>3. SubSeq(r.output, 1, k) = <<>> /\ o = <<>>
    BY <1>1, <1>2, <1>4, <2>2, CutLength
  <2>4. r.wire \o <<>> = r.wire /\ 0 \in 0 .. Len(r.wire)
    BY <1>1, CutLength
  <2> QED BY <1>4, <2>3, <2>4
<1>10. q \in EndType
  BY CycleOut_ DEF Keeps
<1> QED BY <1>6, <1>8, <1>9, <1>10

\* A record is followed by a call of its own.
LEMMA WriteOut ==
    ASSUME NEW r \in EndType, NEW q \in Write(r), NEW m \in Nat, Fits(r, m)
    PROVE  q \in EndType /\ SameIn(r, q) /\ Fits(q, m)
<1> DEFINE p == Produce(r, RecordLen)
           w == [p EXCEPT !.written = p.written + 1]
<1>1. p \in EndType /\ SameIn(r, p) /\ Fits(p, m + r.out)
  BY SizesAssumption, ProduceOut
<1> HIDE DEF p
<1>2. w \in EndType /\ SameIn(p, w) /\ w.output = p.output /\ w.excess = p.excess
  <2>1. PICK d \in Nat : d = p.written
    BY <1>1 DEF EndType
  <2>2. PICK x \in Nat : x = d + 1
    OBVIOUS
  <2>3. w = [p EXCEPT !.written = x]
    BY <2>1, <2>2
  <2> HIDE DEF w
  <2> QED BY <1>1, <2>3 DEF EndType, SameIn
<1>3. q \in CycleOut(w)
  BY DEF Write, p
<1> HIDE DEF w
<1>4. w.out = r.out /\ Fits(w, m + w.out)
  BY <1>1, <1>2 DEF SameIn, Fits
<1>5. q \in EndType /\ SameIn(w, q) /\ Fits(q, m)
  BY <1>2, <1>3, <1>4, CycleOutOut
<1> QED BY <1>1, <1>2, <1>5, SameInOn

LEMMA HandlerOut ==
    ASSUME NEW r \in EndType, NEW q \in Handler(r), NEW m \in Nat, Fits(r, m)
    PROVE  q \in EndType /\ SameIn(r, q) /\ Fits(q, m)
<1>1. SameIn(r, r)
  BY DEF SameIn
<1> QED BY <1>1, WriteOut DEF Handler

-----------------------------------------------------------------------------
(* The handshake                                                           *)

\* A flight has one sender, and the next one the other.
LEMMA Alternate ==
    ASSUME NEW e \in Ends, NEW k \in Nat
    PROVE  Sender(k + 1) \in Ends /\ (Sender(k + 1) = e => Sender((k + 1) + 1) # e)
<1>1. (k + 1) % 2 \in {0, 1} /\ ((k + 1) % 2 = 1 => ((k + 1) + 1) % 2 = 0)
      /\ ((k + 1) % 2 = 0 => ((k + 1) + 1) % 2 = 1)
  OBVIOUS
<1> QED BY <1>1 DEF Sender, Ends

\* What a step of the handshake leaves alone.
SameTold(r, q) ==
    /\ q.told = r.told /\ q.given = r.given /\ q.surplus = r.surplus /\ q.lost = r.lost
    /\ q.out = r.out /\ q.in = r.in /\ q.rest = r.rest
    /\ r.stage # 0 => q.stage # 0

LEMMA SpokenOut ==
    ASSUME NEW e \in Ends, NEW r \in EndType, Accounts(e, r)
    PROVE  LET q == Spoken(e, r) IN
           /\ q \in EndType /\ Accounts(e, q) /\ ~Speaks(e, q) /\ SameTold(r, q)
           /\ q.input = r.input /\ q.failed = r.failed /\ Waiting(e, q) = Waiting(e, r)
           /\ Fits(r, 0) => Fits(q, r.out)
           /\ ~Speaks(e, r) => q = r
<1>1. FlightLen \in Nat /\ FlightLen > 0 /\ Len(r.output) \in Nat /\ r.stage \in Nat
      /\ r.out \in Nat /\ r.excess \in Nat
  BY SizesAssumption DEF EndType
<1>4. Fits(r, 0) => Fits(r, r.out)
  BY <1>1 DEF Fits
<1>2. CASE ~Speaks(e, r)
  BY <1>1, <1>2, <1>4 DEF Spoken, SameTold
<1>3. CASE Speaks(e, r)
  <2> DEFINE p == Produce(r, FlightLen)
             q == [p EXCEPT !.stage = p.stage + 1]
  <2>1. p \in EndType /\ SameIn(r, p) /\ (Fits(r, 0) => Fits(p, r.out)) /\ p.lost = r.lost
    <3>1. p \in EndType /\ SameIn(r, p)
      BY <1>1, ProduceOut
    <3>2. Fits(r, 0) => Fits(p, 0 + r.out)
      BY <1>1, ProduceOut
    <3>3. 0 + r.out = r.out
      BY <1>1
    <3>4. PICK o, x, y : p = [r EXCEPT !.output = o, !.produced = x, !.excess = y]
      BY DEF Produce
    <3>5. p.lost = r.lost
      BY <3>4 DEF EndType
    <3> QED BY <3>1, <3>2, <3>3, <3>5
  <2>2. Spoken(e, r) = q
    BY <1>3 DEF Spoken
  <2> HIDE DEF p
  <2>3. PICK k \in Nat : k = r.stage /\ k = p.stage
    BY <1>1, <2>1 DEF SameIn
  <2>4. PICK s \in Nat : s = k + 1 /\ s # 0 /\ q = [p EXCEPT !.stage = s]
    BY <2>3
  <2> HIDE DEF q
  <2>5. /\ q \in EndType /\ q.stage = s /\ q.input = p.input /\ q.expect = p.expect
        /\ q.failed = p.failed /\ q.told = p.told /\ q.given = p.given /\ q.surplus = p.surplus
        /\ q.lost = p.lost /\ q.output = p.output /\ q.excess = p.excess
        /\ q.out = p.out /\ q.in = p.in /\ q.rest = p.rest
    BY <2>1, <2>4 DEF EndType
  <2>6. Opened(e, r, 0) /\ ~r.told /\ ~Finished(r) /\ Sender(k + 1) = e
    BY <1>3, <2>3 DEF Accounts, Speaks
  <2>7. ~Speaks(e, q)
    BY <2>4, <2>5, <2>6, Alternate DEF Speaks
  <2>8. Taken(e, s) = Taken(e, k)
    <3>1. Taken(e, k) \in Nat /\ Taken(e, k + 1) = Taken(e, k) + 0
      BY <2>6, PeerOf, TakenNext
    <3> QED BY <2>4, <3>1
  <2>15. Parts(q) = Parts(r)
    BY <2>1, <2>5 DEF Parts, SameIn
  <2>9. Accounts(e, q)
    <3>1. Opened(e, q, 0)
      BY <2>1, <2>3, <2>5, <2>6, <2>8, <2>15 DEF Opened, SameIn
    <3>2. ~q.told
      BY <2>1, <2>5, <2>6 DEF SameIn
    <3> QED BY <3>1, <3>2 DEF Accounts
  <2>10. Waiting(e, q) = Waiting(e, r)
    BY <2>1, <2>5, <2>15 DEF Waiting, SameIn
  <2>11. SameTold(r, q) /\ q.input = r.input /\ q.failed = r.failed
    BY <2>1, <2>4, <2>5 DEF SameIn, SameTold
  <2>12. Fits(r, 0) => Fits(q, r.out)
    BY <2>1, <2>5 DEF Fits
  <2> QED BY <1>3, <2>2, <2>5, <2>7, <2>9, <2>10, <2>11, <2>12
<1> QED BY <1>2, <1>3

\* A flight or a record that is taken: the units are counted as taken, and what has
\* arrived of the peer's is the same.
LEMMA TakeOut ==
    ASSUME NEW r \in EndType, NEW n \in Nat, Complete(r, n)
    PROVE  LET q == Take(r, n) IN
           /\ q \in EndType /\ q.expect = r.expect + n /\ q.output = r.output /\ q.stage = r.stage
           /\ q.excess = r.excess
           /\ q.told = r.told /\ q.given = r.given /\ q.surplus = r.surplus /\ q.lost = r.lost
           /\ q.failed = r.failed /\ q.out = r.out /\ q.in = r.in /\ q.rest = r.rest
           /\ Len(q.input) = Len(r.input) - n /\ n <= Len(r.input)
           /\ q.expect - 1 + Len(q.input) = r.expect - 1 + Len(r.input)
<1> DEFINE q == Take(r, n)
<1>1. q \in EndType
  BY Take_ DEF Keeps
<1>2. r.input \in Seq(Nat) /\ n \in 0 .. Len(r.input) /\ n <= Len(r.input)
  BY DEF EndType, Complete
<1>3. PICK x \in Nat, l \in Nat : x = r.expect /\ l = Len(r.input)
  <2>1. r.expect \in Nat /\ Len(r.input) \in Nat
    BY <1>2 DEF EndType
  <2> QED BY <2>1
<1>10. PICK rest : rest = SubSeq(r.input, n + 1, Len(r.input))
  OBVIOUS
<1>11. PICK y \in Nat : y = x + n
  OBVIOUS
<1>4. rest = SubSeq(r.input, n + 1, Len(r.input)) /\ y = x + n
  BY <1>10, <1>11
<1>5. q = [r EXCEPT !.input = rest, !.expect = y]
  BY <1>3, <1>4 DEF Take
<1> HIDE DEF q
<1>6. /\ q.expect = y /\ q.input = rest /\ q.output = r.output /\ q.stage = r.stage
      /\ q.excess = r.excess
      /\ q.told = r.told /\ q.given = r.given /\ q.surplus = r.surplus /\ q.lost = r.lost
      /\ q.failed = r.failed /\ q.out = r.out /\ q.in = r.in /\ q.rest = r.rest
  BY <1>5 DEF EndType
<1>7. Len(rest) = l - n
  BY <1>2, <1>3, <1>4, CutLength
<1>8. y - 1 + Len(rest) = x - 1 + l
  <2>1. y - 1 + (l - n) = x - 1 + l
    BY <1>4
  <2> QED BY <1>7, <2>1
<1>9. /\ q \in EndType /\ q.expect = r.expect + n /\ q.output = r.output /\ q.stage = r.stage
      /\ q.excess = r.excess
      /\ q.told = r.told /\ q.given = r.given /\ q.surplus = r.surplus /\ q.lost = r.lost
      /\ q.failed = r.failed /\ q.out = r.out /\ q.in = r.in /\ q.rest = r.rest
      /\ Len(q.input) = Len(r.input) - n /\ n <= Len(r.input)
      /\ q.expect - 1 + Len(q.input) = r.expect - 1 + Len(r.input)
  BY <1>1, <1>2, <1>3, <1>4, <1>6, <1>7, <1>8
<1> QED BY <1>9 DEF q

\* SSL_do_handshake speaks once: no flight can be taken before the first one is sent.
LEMMA HandshakeOut ==
    ASSUME NEW e \in Ends, NEW r \in EndType, Accounts(e, r),
           Speaks(e, r) => ~Complete(r, FlightLen)
    PROVE  LET q == SSL_do_handshake(e, r) IN
           /\ q \in EndType /\ Accounts(e, q) /\ ~Speaks(e, q) /\ SameTold(r, q)
           /\ Waiting(e, q) = Waiting(e, r) /\ (r.failed => q.failed)
           /\ ~q.failed /\ Fits(r, 0) => Fits(q, r.out)
           /\ r.input = <<>> /\ ~Speaks(e, r) => q = r
<1> DEFINE q == Spoken(e, r)
           t == [Take(q, FlightLen) EXCEPT !.stage = @ + 1]
<1>1. /\ q \in EndType /\ Accounts(e, q) /\ ~Speaks(e, q) /\ SameTold(r, q)
      /\ q.input = r.input /\ q.failed = r.failed /\ Waiting(e, q) = Waiting(e, r)
      /\ (Fits(r, 0) => Fits(q, r.out)) /\ (~Speaks(e, r) => q = r)
  BY SpokenOut
<1>2. FlightLen \in Nat /\ FlightLen > 0
  BY SizesAssumption
<1> HIDE DEF q
<1>3. CASE Finished(q) \/ ~Complete(q, FlightLen)
  <2>1. SSL_do_handshake(e, r) = q
    BY <1>3 DEF SSL_do_handshake, q
  <2> QED BY <1>1, <2>1
<1>4. ASSUME ~Finished(q), Complete(q, FlightLen)
      PROVE  q = r /\ ~Finished(r) /\ Complete(r, FlightLen) /\ ~Speaks(e, r) /\ r.input # <<>>
  <2>1. Complete(r, FlightLen)
    BY <1>1, <1>4 DEF Complete
  <2>2. Len(<<>>) = 0
    OBVIOUS
  <2> QED BY <1>1, <1>2, <1>4, <2>1, <2>2 DEF Complete
<1>5. CASE Complete(q, FlightLen) /\ ~Genuine(q, FlightLen) /\ ~Finished(q)
  <2> DEFINE x == [r EXCEPT !.failed = TRUE]
  <2>1. SSL_do_handshake(e, r) = x
    BY <1>4, <1>5 DEF SSL_do_handshake, q
  <2>2. /\ x \in EndType /\ x.stage = r.stage /\ x.input = r.input /\ x.expect = r.expect
        /\ x.told = r.told /\ x.given = r.given /\ x.surplus = r.surplus /\ x.lost = r.lost
        /\ x.failed /\ x.out = r.out /\ x.in = r.in /\ x.rest = r.rest
    BY DEF EndType
  <2> HIDE DEF x
  <2>5. Parts(x) = Parts(r)
    BY <2>2 DEF Parts
  <2>3. Accounts(e, x) /\ ~Speaks(e, x) /\ SameTold(r, x)
    BY <1>4, <1>5, <2>2, <2>5 DEF Accounts, Opened, Speaks, Finished, SameTold
  <2>4. Waiting(e, x) = Waiting(e, r)
    BY <2>2, <2>5 DEF Waiting
  <2> QED BY <1>4, <1>5, <2>1, <2>2, <2>3, <2>4
<1>6. CASE Complete(q, FlightLen) /\ Genuine(q, FlightLen) /\ ~Finished(q)
  <2>1. q = r /\ ~Finished(r) /\ Complete(r, FlightLen) /\ ~Speaks(e, r) /\ r.input # <<>>
    BY <1>4, <1>6
  <2> DEFINE p == Take(r, FlightLen)
             x == [p EXCEPT !.stage = p.stage + 1]
  <2>2. /\ p \in EndType /\ p.expect = r.expect + FlightLen /\ p.output = r.output
        /\ p.stage = r.stage /\ p.told = r.told /\ p.given = r.given /\ p.surplus = r.surplus
        /\ p.lost = r.lost /\ p.failed = r.failed /\ p.out = r.out /\ p.in = r.in
        /\ p.rest = r.rest /\ p.excess = r.excess
        /\ p.expect - 1 + Len(p.input) = r.expect - 1 + Len(r.input)
    BY <1>2, <2>1, TakeOut
  <2> HIDE DEF p
  <2>3. PICK k \in Nat : k = r.stage /\ k = p.stage
    BY <2>2 DEF EndType
  <2>4. PICK s \in Nat : s = k + 1 /\ s # 0 /\ x = [p EXCEPT !.stage = s]
    BY <2>3
  <2> HIDE DEF x
  <2>5. /\ x \in EndType /\ x.stage = s /\ x.input = p.input /\ x.expect = p.expect
        /\ x.told = p.told /\ x.given = p.given /\ x.surplus = p.surplus
        /\ x.lost = p.lost /\ x.output = r.output /\ x.failed = r.failed
        /\ x.out = r.out /\ x.in = r.in /\ x.rest = r.rest /\ x.excess = r.excess
    BY <2>2, <2>4 DEF EndType
  <2>6. Opened(e, r, 0) /\ ~r.told
    BY <2>1 DEF Accounts
  <2>15. Parts(x) = Parts(r)
    BY <2>5 DEF Parts
  <2>7. Sender(k + 1) = Peer(e)
    <3>1. Sender(k + 1) # e
      BY <2>1, <2>3 DEF Speaks
    <3> QED BY <3>1, Alternate, PeerOf DEF Ends
  <2>8. x.expect = 1 + Taken(e, s) + 0 * RecordLen
    <3>1. PICK a \in Nat : a = Taken(e, k) /\ Taken(e, s) = a + FlightLen
      BY <2>4, <2>7, TakenNext
    <3>2. r.expect = 1 + a + 0 * RecordLen
      BY <2>3, <2>6, <3>1 DEF Opened
    <3>3. RecordLen \in Nat /\ 0 * RecordLen = 0
      BY SizesAssumption
    <3>4. r.expect = 1 + a
      BY <3>2, <3>3
    <3>5. (1 + a) + FlightLen = 1 + (a + FlightLen) + 0 * RecordLen
      BY <1>2, <3>3
    <3> QED BY <2>2, <2>5, <2>6, <3>1, <3>4, <3>5
  <2>9. Accounts(e, x)
    <3>1. Opened(e, x, 0)
      BY <2>2, <2>5, <2>6, <2>8, <2>15 DEF Opened
    <3> QED BY <2>2, <2>5, <2>6, <3>1 DEF Accounts
  <2>10. Waiting(e, x) = Waiting(e, r)
    <3>1. x.expect - 1 + Len(x.input) = r.expect - 1 + Len(r.input) /\ x.given = r.given
      BY <2>2, <2>5
    <3> QED BY <2>15, <3>1 DEF Waiting
  <2>11. SameTold(r, x)
    BY <2>2, <2>4, <2>5 DEF SameTold
  <2> DEFINE y == Spoken(e, x)
  <2>12. /\ y \in EndType /\ Accounts(e, y) /\ ~Speaks(e, y) /\ SameTold(x, y)
         /\ Waiting(e, y) = Waiting(e, x) /\ y.failed = x.failed
         /\ Fits(r, 0) => Fits(y, r.out)
    <3>1. Fits(r, 0) => Fits(x, 0)
      BY <2>5 DEF Fits
    <3> QED BY <2>5, <2>9, <3>1, SpokenOut
  <2>13. SSL_do_handshake(e, r) = y
    BY <1>6, <2>1 DEF SSL_do_handshake, q, p, x
  <2>14. SameTold(r, y)
    BY <2>11, <2>12 DEF SameTold
  <2> QED BY <2>1, <2>5, <2>10, <2>12, <2>13, <2>14
<1> QED BY <1>3, <1>5, <1>6

-----------------------------------------------------------------------------
(* start_ssl and cycleIn                                                   *)

\* Between events: the output BIO holds no more than the excess, and but for the
\* client's first flight it is the peer's turn.
Settled(e, r) ==
    Accounts(e, r) /\ (r.failed \/ Fits(r, 0)) /\ (r.stage # 0 => ~Speaks(e, r))

LEMMA StartOut ==
    ASSUME NEW e \in Ends, NEW r \in EndType, Accounts(e, r), r.failed \/ Fits(r, 0),
           Speaks(e, r) => ~Complete(r, FlightLen), NEW x \in StartSSL(e, r)
    PROVE  /\ x \in EndType /\ Settled(e, x) /\ x.surplus = r.surplus /\ Waiting(e, x) = Waiting(e, r)
           /\ ~Speaks(e, x) /\ (r.lost => x.lost) /\ (r.stage # 0 => x.stage # 0)
           /\ r.input = <<>> /\ r.output = <<>> /\ ~Speaks(e, r) /\ ~Finished(r)
              => /\ x.stage = r.stage /\ x.input = r.input /\ x.wire = r.wire
                 /\ x.output = r.output
<1> DEFINE q == SSL_do_handshake(e, r)
           t == [q EXCEPT !.told = TRUE]
<1>1. /\ q \in EndType /\ Accounts(e, q) /\ ~Speaks(e, q) /\ SameTold(r, q)
      /\ Waiting(e, q) = Waiting(e, r) /\ (r.failed => q.failed)
      /\ ~q.failed /\ Fits(r, 0) => Fits(q, r.out)
      /\ r.input = <<>> /\ ~Speaks(e, r) => q = r
  BY HandshakeOut
<1>2. x \in Answered(q)
  BY DEF StartSSL, q
<1>3. r.out \in Nat
  BY DEF EndType
<1> HIDE DEF q
<1>4. CASE q.failed
  <2>1. x = q
    BY <1>2, <1>4 DEF Answered
  <2> QED BY <1>1, <1>4, <2>1 DEF Settled, SameTold
<1>5. CASE ~q.failed
  <2>1. Fits(q, r.out)
    BY <1>1, <1>5
  <2>2. ASSUME NEW w \in EndType, Accounts(e, w), ~Speaks(e, w), Waiting(e, w) = Waiting(e, r),
               w.surplus = r.surplus, r.lost => w.lost, r.stage # 0 => w.stage # 0,
               w.out = r.out, Fits(w, r.out), x \in CycleOut(w)
        PROVE  /\ x \in EndType /\ Settled(e, x) /\ x.surplus = r.surplus
               /\ ~Speaks(e, x) /\ Waiting(e, x) = Waiting(e, r) /\ (r.lost => x.lost) /\ (r.stage # 0 => x.stage # 0)
    <3>1. 0 + w.out = r.out
      BY <1>3, <2>2
    <3>2. Fits(w, 0 + w.out)
      BY <2>2, <3>1
    <3>3. x \in EndType /\ SameIn(w, x) /\ Fits(x, 0)
      BY <2>2, <3>2, CycleOutOut
    <3>4. Accounts(e, x) /\ Waiting(e, x) = Waiting(e, w) /\ ~Speaks(e, x)
      BY <2>2, <3>3, SameAccounts
    <3> QED BY <2>2, <3>3, <3>4 DEF Settled, SameIn
  <2>3. CASE Finished(q)
    <3>1. PICK w \in Handler(t) : x \in CycleOut(w)
      BY <1>2, <1>5, <2>3 DEF Answered
    <3> HIDE DEF t
    <3>2. /\ t \in EndType /\ t.stage = q.stage /\ t.input = q.input /\ t.expect = q.expect
          /\ t.given = q.given /\ t.surplus = q.surplus /\ t.lost = q.lost /\ t.output = q.output
          /\ t.out = q.out /\ t.in = q.in /\ t.rest = q.rest /\ t.excess = q.excess
      BY <1>1 DEF EndType, t
    <3>3. Accounts(e, t) /\ ~Speaks(e, t) /\ Waiting(e, t) = Waiting(e, q)
      <4>1. Finished(t) /\ Parts(t) = Parts(q)
        BY <2>3, <3>2 DEF Finished, Parts
      <4>2. Accounts(e, t)
        BY <1>1, <3>2, <4>1 DEF Accounts, Opened, Finished
      <4>3. Waiting(e, t) = Waiting(e, q)
        BY <3>2, <4>1 DEF Waiting
      <4> QED BY <4>1, <4>2, <4>3 DEF Speaks
    <3>4. w \in EndType /\ SameIn(t, w) /\ Fits(w, r.out)
      <4>1. Fits(t, r.out)
        BY <2>1, <3>2 DEF Fits
      <4> QED BY <1>3, <3>1, <3>2, <4>1, HandlerOut
    <3>5. Accounts(e, w) /\ ~Speaks(e, w) /\ Waiting(e, w) = Waiting(e, r)
      BY <1>1, <3>3, <3>4, SameAccounts
    <3>6. w.surplus = r.surplus /\ (r.lost => w.lost) /\ (r.stage # 0 => w.stage # 0) /\ w.out = r.out
      BY <1>1, <3>2, <3>4 DEF SameTold, SameIn
    <3>7. ~(r.input = <<>> /\ ~Speaks(e, r) /\ ~Finished(r))
      BY <1>1, <2>3
    <3> QED BY <2>2, <3>1, <3>4, <3>5, <3>6, <3>7
  <2>4. CASE ~Finished(q)
    <3>1. x \in CycleOut(q)
      BY <1>2, <1>5, <2>4 DEF Answered, WantRead
    <3>2. q.surplus = r.surplus /\ (r.lost => q.lost) /\ (r.stage # 0 => q.stage # 0) /\ q.out = r.out
      BY <1>1 DEF SameTold
    <3>3. ASSUME r.input = <<>>, r.output = <<>>, ~Speaks(e, r)
          PROVE  x.stage = r.stage /\ x.input = r.input /\ x.wire = r.wire /\ x.output = r.output
      <4>1. q = r
        BY <1>1, <3>3
      <4> QED BY <3>1, <3>3, <4>1, CycleOutOut DEF SameIn
    <3> QED BY <1>1, <2>1, <2>2, <3>1, <3>2, <3>3
  <2> QED BY <2>3, <2>4
<1> QED BY <1>4, <1>5

\* What a handler that is given a part finds, and leaves.
LEMMA GivenOut ==
    ASSUME NEW e \in Ends, NEW t \in EndType, Accounts(e, t), Finished(t), Fits(t, 0),
           NEW x \in Handler(t)
    PROVE  /\ x \in EndType /\ Settled(e, x) /\ x.surplus = t.surplus /\ Waiting(e, x) = Waiting(e, t)
           /\ (t.lost => x.lost) /\ x.stage = t.stage
<1>1. x \in EndType /\ SameIn(t, x) /\ Fits(x, 0)
  BY HandlerOut
<1>2. Accounts(e, x) /\ Waiting(e, x) = Waiting(e, t) /\ Finished(x)
  BY <1>1, SameAccounts
<1> QED BY <1>1, <1>2 DEF Settled, Speaks, SameIn

\* cycleIn gives a part of a record if one is there.
LEMMA CycleInOut ==
    ASSUME flights \in Nat, NEW e \in Ends, NEW r \in EndType, Settled(e, r), Finished(r),
           NEW x \in CycleIn(r)
    PROVE  /\ x \in EndType /\ Settled(e, x) /\ x.surplus = r.surplus
           /\ (r.lost => x.lost) /\ (r.stage # 0 => x.stage # 0)
           /\ ~x.failed => Waiting(e, x) = IF r.rest > 0 \/ Complete(r, RecordLen)
                                           THEN Waiting(e, r) - 1 ELSE Waiting(e, r)
<1>1. RecordLen \in Nat /\ RecordLen > 0
  BY SizesAssumption
<1>2. CASE r.failed \/ (~(r.rest > 0) /\ ~Complete(r, RecordLen))
  <2>1. x = r
    BY <1>2 DEF CycleIn
  <2> QED BY <1>2, <2>1
<1>3. CASE ~r.failed /\ ~(r.rest > 0) /\ Complete(r, RecordLen) /\ ~Genuine(r, RecordLen)
  <2> DEFINE q == [r EXCEPT !.failed = TRUE]
  <2>1. x = q
    BY <1>3 DEF CycleIn
  <2>2. /\ q \in EndType /\ q.stage = r.stage /\ q.expect = r.expect
        /\ q.told = r.told /\ q.given = r.given /\ q.surplus = r.surplus /\ q.lost = r.lost
        /\ q.failed /\ q.in = r.in /\ q.rest = r.rest
    BY DEF EndType
  <2> HIDE DEF q
  <2>3. Settled(e, q)
    BY <2>2 DEF Settled, Accounts, Opened, Parts, Speaks, Finished
  <2> QED BY <2>1, <2>2, <2>3
<1>4. PICK g \in Nat, w \in Nat, l \in Nat, n \in Nat, a \in Nat, c \in Nat :
         /\ g = r.given /\ w = r.rest /\ l = Len(r.input) /\ n = Parts(r) /\ n # 0
         /\ a = Taken(e, r.stage) /\ r.expect = 1 + a + c * RecordLen /\ g + w = c * n
  <2>1. r.given \in Nat /\ r.rest \in Nat /\ Len(r.input) \in Nat /\ r.stage \in Nat
    BY DEF EndType
  <2>2. PICK n \in Nat : n = Parts(r) /\ n # 0
    BY PartsType
  <2>3. PICK a \in Nat : a = Taken(e, r.stage)
    BY <2>1, TakenNext
  <2>4. PICK c \in Nat : Opened(e, r, c)
    BY DEF Settled, Accounts
  <2> QED BY <2>1, <2>2, <2>3, <2>4 DEF Opened
<1>5. PICK d \in Nat : d = l \div RecordLen /\ Waiting(e, r) = w + d * n
  <2>1. l \div RecordLen \in Nat
    BY <1>1, InRecords
  <2> QED BY <1>4, <2>1, WaitingIs DEF Settled
<1>6. CASE ~r.failed /\ r.rest > 0
  <2> DEFINE t == [r EXCEPT !.given = r.given + 1, !.rest = r.rest - 1]
  <2>1. x \in Handler(t)
    BY <1>6 DEF CycleIn
  <2>2. PICK g2 \in Nat, w2 \in Nat : g2 = r.given + 1 /\ w2 = r.rest - 1
    BY <1>4, <1>6
  <2>3. /\ t \in EndType /\ t.given = g2 /\ t.rest = w2
        /\ t.in = r.in /\ t.stage = r.stage /\ t.input = r.input
        /\ t.expect = r.expect /\ t.told = r.told /\ t.lost = r.lost
        /\ t.output = r.output /\ t.surplus = r.surplus /\ t.excess = r.excess
    <3>1. t = [r EXCEPT !.given = g2, !.rest = w2]
      BY <2>2
    <3> HIDE DEF t
    <3> QED BY <3>1 DEF EndType
  <2> HIDE DEF t
  <2>4. Finished(t) /\ Fits(t, 0) /\ Parts(t) = n
    BY <1>4, <1>6, <2>3 DEF Finished, Fits, Parts, Settled
  <2>5. Accounts(e, t)
    <3>1. g2 + w2 = c * n
      <4>1. PICK m \in Nat : m = c * n /\ g + w = m
        BY <1>4
      <4>2. g2 = g + 1 /\ w2 = w - 1
        BY <1>4, <2>2
      <4>3. g2 + w2 = m
        BY <4>1, <4>2
      <4> QED BY <4>1, <4>3
    <3>2. Opened(e, t, c)
      BY <1>4, <2>3, <2>4, <3>1 DEF Opened
    <3> QED BY <2>4, <3>2 DEF Accounts
  <2>6. Waiting(e, t) = Waiting(e, r) - 1
    <3>1. Waiting(e, t) = w2 + d * n
      BY <1>4, <1>5, <2>3, <2>4, <2>5, WaitingIs
    <3>2. PICK k \in Nat : k = d * n
      OBVIOUS
    <3>3. w2 = w - 1
      BY <1>4, <2>2
    <3>4. w2 + k = w + k - 1
      BY <3>3
    <3> QED BY <1>5, <3>1, <3>2, <3>4
  <2> QED BY <1>6, <2>1, <2>3, <2>4, <2>5, <2>6, GivenOut
<1>7. CASE ~r.failed /\ ~(r.rest > 0) /\ Complete(r, RecordLen) /\ Genuine(r, RecordLen)
  <2> DEFINE p == Take(r, RecordLen)
             t == [p EXCEPT !.given = p.given + 1, !.rest = Parts(r) - 1]
  <2>1. x \in Handler(t)
    BY <1>7 DEF CycleIn
  <2>2. /\ p \in EndType /\ p.expect = r.expect + RecordLen /\ p.output = r.output
        /\ p.stage = r.stage /\ p.told = r.told /\ p.given = r.given /\ p.surplus = r.surplus
        /\ p.lost = r.lost /\ p.failed = r.failed /\ p.in = r.in /\ p.excess = r.excess
        /\ Len(p.input) = Len(r.input) - RecordLen /\ RecordLen <= Len(r.input)
    BY <1>1, <1>7, TakeOut
  <2> HIDE DEF p
  <2>3. PICK g2 \in Nat, w2 \in Nat : g2 = p.given + 1 /\ w2 = Parts(r) - 1
    BY <1>4, <2>2
  <2>4. /\ t \in EndType /\ t.given = g2 /\ t.rest = w2
        /\ t.in = p.in /\ t.stage = p.stage /\ t.input = p.input
        /\ t.expect = p.expect /\ t.told = p.told /\ t.lost = p.lost
        /\ t.output = p.output /\ t.surplus = p.surplus /\ t.excess = p.excess
    <3>1. t = [p EXCEPT !.given = g2, !.rest = w2]
      BY <2>3
    <3> HIDE DEF t
    <3> QED BY <2>2, <3>1 DEF EndType
  <2> HIDE DEF t
  <2>5. Finished(t) /\ Fits(t, 0) /\ Parts(t) = n
    BY <1>4, <1>7, <2>2, <2>4 DEF Finished, Fits, Parts, Settled
  <2>6. g2 = g + 1 /\ w2 = n - 1 /\ w = 0
    BY <1>4, <1>7, <2>2, <2>3
  <2>7. PICK c2 \in Nat : c2 = c + 1
    OBVIOUS
  <2>8. Accounts(e, t)
    <3>1. g2 + w2 = c2 * n
      <4>1. PICK m \in Nat : m = c * n /\ g + w = m
        BY <1>4
      <4>2. (c + 1) * n = c * n + n
        OBVIOUS
      <4>3. c2 * n = m + n
        BY <2>7, <4>1, <4>2
      <4>4. g2 + w2 = m + n
        BY <2>6, <4>1
      <4> QED BY <4>3, <4>4
    <3>2. (1 + a + c * RecordLen) + RecordLen = 1 + a + c2 * RecordLen
      <4>1. (c + 1) * RecordLen = c * RecordLen + RecordLen /\ c * RecordLen \in Nat
        BY <1>1
      <4> QED BY <1>1, <2>7, <4>1
    <3>3. t.expect = 1 + Taken(e, t.stage) + c2 * RecordLen
      BY <1>4, <2>2, <2>4, <3>2
    <3>4. Opened(e, t, c2)
      BY <2>4, <2>5, <3>1, <3>3 DEF Opened
    <3> QED BY <2>5, <3>4 DEF Accounts
  <2>9. Waiting(e, t) = Waiting(e, r) - 1
    <3>1. Waiting(e, t) = w2 + (Len(t.input) \div RecordLen) * n
      BY <1>4, <2>4, <2>5, <2>8, WaitingIs
    <3>2. Len(t.input) = l - RecordLen /\ RecordLen <= l
      BY <1>4, <2>2, <2>4
    <3>3. (l - RecordLen) \div RecordLen = d - 1
      BY <1>1, <1>5, <3>2, InRecords
    <3>4. (d - 1) * n = d * n - n /\ d * n \in Nat
      OBVIOUS
    <3>5. Waiting(e, t) = w2 + (d - 1) * n
      BY <3>1, <3>2, <3>3
    <3> QED BY <1>5, <2>6, <3>4, <3>5
  <2> QED BY <1>7, <2>1, <2>2, <2>4, <2>5, <2>8, <2>9, GivenOut
<1> QED BY <1>2, <1>3, <1>6, <1>7

-----------------------------------------------------------------------------
(* The steps.  Nothing is on its way before the client has spoken.         *)

Quiet(r) == r.stage = 0 /\ r.input = <<>> /\ r.wire = <<>> /\ r.output = <<>>

Held(n) ==
    /\ \A e \in Ends : Settled(e, n[e])
    /\ n["client"].stage = 0 => \A e \in Ends : Quiet(n[e])
    /\ \A e \in Ends : ~n[Peer(e)].lost => Waiting(e, n[e]) <= n[e].surplus

SettledInv == flights \in Flights /\ Held(end)

LEMMA HeldNext ==
    ASSUME SettledInv, flights' = flights, Held(end')
    PROVE  SettledInv'
<1>1. \A e \in Ends : Settled(e, end'[e]) <=> Settled(e, end[e])'
  BY DEF Settled, Accounts, Opened, Parts, Fits, Speaks, Finished
<1>2. \A e \in Ends : Waiting(e, end'[e]) = Waiting(e, end[e])'
  <2>1. \A e : HandshakeLen(Peer(e))' = HandshakeLen(Peer(e))
    BY DEF HandshakeLen
  <2> QED BY <2>1 DEF Waiting, Parts
<1> QED BY <1>1, <1>2 DEF SettledInv, Held

\* One end goes on and the other's wire gets shorter or stays.
LEMMA HeldOn ==
    ASSUME IInv, SettledInv, NEW e \in Ends, NEW n,
           Settled(e, n[e]), Settled(Peer(e), n[Peer(e)]),
           ~n[Peer(e)].lost => Waiting(e, n[e]) <= n[e].surplus,
           ~n[e].lost => ~end[e].lost,
           Waiting(Peer(e), n[Peer(e)]) = Waiting(Peer(e), end[Peer(e)]),
           n[Peer(e)].surplus = end[Peer(e)].surplus,
           n["client"].stage = 0 => Quiet(n[e]) /\ Quiet(n[Peer(e)])
    PROVE  Held(n)
<1>1. \A d \in Ends : d = e \/ d = Peer(e)
  BY PeerOf DEF Ends
<1>2. Peer(e) \in Ends /\ Peer(Peer(e)) = e
  BY PeerOf
<1>3. ~end[e].lost => Waiting(Peer(e), end[Peer(e)]) <= end[Peer(e)].surplus
  BY <1>2 DEF SettledInv, Held
<1>4. \A d \in Ends : ~n[Peer(d)].lost => Waiting(d, n[d]) <= n[d].surplus
  BY <1>1, <1>2, <1>3
<1> QED BY <1>1, <1>4 DEF Held

\* An end that is to speak is the client, which has nothing to read yet.
LEMMA FirstToSpeak ==
    ASSUME SettledInv, NEW e \in Ends, Speaks(e, end[e])
    PROVE  e = "client" /\ \A d \in Ends : Quiet(end[d])
<1>1. Settled(e, end[e]) /\ (end["client"].stage = 0 => \A d \in Ends : Quiet(end[d]))
  BY DEF SettledInv, Held
<1>2. end[e].stage = 0
  BY <1>1 DEF Settled
<1>3. Sender(0 + 1) = e
  BY <1>2 DEF Speaks
<1>4. e = "client"
  BY <1>3 DEF Sender
<1> QED BY <1>1, <1>2, <1>4

LEMMA NotQuiet ==
    ASSUME SettledInv, NEW r, Quiet(r)
    PROVE  ~Finished(r) /\ (Speaks("client", r)) /\ ~Speaks("server", r)
<1>1. flights >= 2 /\ r.stage = 0 /\ flights \in Nat
  BY SizesAssumption DEF SettledInv, Quiet
<1>2. ~Finished(r)
  BY <1>1 DEF Finished
<1>3. Sender(0 + 1) = "client" /\ "client" # "server"
  BY DEF Sender
<1> QED BY <1>1, <1>2, <1>3 DEF Speaks

LEMMA NothingComplete ==
    ASSUME SettledInv, NEW e \in Ends, Speaks(e, end[e])
    PROVE  ~Complete(end[e], FlightLen)
<1>1. end[e].input = <<>>
  BY FirstToSpeak DEF Quiet
<1>2. Len(<<>>) = 0 /\ FlightLen \in Nat /\ FlightLen > 0
  BY SizesAssumption
<1> QED BY <1>1, <1>2 DEF Complete

LEMMA StartSettles == ASSUME IInv, SettledInv, NEW e \in Ends, Start(e) PROVE SettledInv'
<1> DEFINE r == end[e]
<1>1. PICK x \in StartSSL(e, r) : end' = [end EXCEPT ![e] = x]
  BY DEF Start
<1>2. end \in [Ends -> EndType] /\ r \in EndType /\ Peer(e) \in Ends /\ Peer(e) # e
  BY PeerOf DEF IInv
<1>3. Settled(e, r) /\ Settled(Peer(e), end[Peer(e)])
      /\ (~end[Peer(e)].lost => Waiting(e, r) <= r.surplus)
      /\ (end["client"].stage = 0 => \A d \in Ends : Quiet(end[d]))
  BY <1>2 DEF SettledInv, Held
<1>4. Speaks(e, r) => ~Complete(r, FlightLen)
  BY NothingComplete
<1> HIDE DEF r
<1>5. /\ x \in EndType /\ Settled(e, x) /\ x.surplus = r.surplus /\ Waiting(e, x) = Waiting(e, r)
      /\ ~Speaks(e, x) /\ (r.lost => x.lost) /\ (r.stage # 0 => x.stage # 0)
      /\ r.input = <<>> /\ r.output = <<>> /\ ~Speaks(e, r) /\ ~Finished(r)
         => /\ x.stage = r.stage /\ x.input = r.input /\ x.wire = r.wire
            /\ x.output = r.output
  BY <1>2, <1>3, <1>4, StartOut DEF Settled
<1>6. end'[e] = x /\ end'[Peer(e)] = end[Peer(e)]
  BY <1>1, <1>2
<1>7. ASSUME end'["client"].stage = 0 PROVE Quiet(x) /\ Quiet(end[Peer(e)])
  <2>1. CASE e = "client"
    <3>1. x.stage = 0 /\ r.stage = 0
      BY <1>5, <1>6, <1>7, <2>1
    <3>2. Quiet(r)
      BY <1>3, <2>1, <3>1 DEF r
    <3>3. Speaks(e, x)
      BY <2>1, <3>1, <3>2, NotQuiet DEF Speaks, Finished, Quiet
    <3> QED BY <1>5, <3>3
  <2>2. CASE e = "server"
    <3>1. Peer(e) = "client"
      BY <1>2, <2>2 DEF Ends
    <3>2. Quiet(r) /\ Quiet(end[Peer(e)])
      BY <1>2, <1>3, <1>6, <1>7, <3>1 DEF r
    <3>3. ~Speaks(e, r) /\ ~Finished(r)
      BY <2>2, <3>2, NotQuiet
    <3> QED BY <1>5, <3>2, <3>3 DEF Quiet
  <2> QED BY <2>1, <2>2 DEF Ends
<1>8. Held(end')
  BY <1>3, <1>5, <1>6, <1>7, HeldOn DEF r
<1> QED BY <1>8, HeldNext DEF Start

LEMMA WritesSettles == ASSUME IInv, SettledInv, NEW e \in Ends, Writes(e) PROVE SettledInv'
<1> DEFINE r == end[e]
<1>1. PICK x \in Write(r) : end' = [end EXCEPT ![e] = x]
  BY DEF Writes
<1>2. end \in [Ends -> EndType] /\ r \in EndType /\ Peer(e) \in Ends /\ Peer(e) # e
  BY PeerOf DEF IInv
<1>3. Settled(e, r) /\ Settled(Peer(e), end[Peer(e)])
      /\ (~end[Peer(e)].lost => Waiting(e, r) <= r.surplus)
      /\ (end["client"].stage = 0 => \A d \in Ends : Quiet(end[d]))
  BY <1>2 DEF SettledInv, Held
<1>4. Finished(r) /\ Fits(r, 0)
  BY <1>3 DEF Writes, Settled, Accounts
<1>5. ~Quiet(r)
  BY <1>4, NotQuiet
<1>6. end["client"].stage # 0
  BY <1>3, <1>5
<1> HIDE DEF r
<1>7. x \in EndType /\ SameIn(r, x) /\ Fits(x, 0)
  BY <1>1, <1>2, <1>4, WriteOut
<1>8. Accounts(e, x) /\ Waiting(e, x) = Waiting(e, r) /\ (Speaks(e, x) <=> Speaks(e, r))
  BY <1>3, <1>7, SameAccounts DEF Settled
<1>9. Settled(e, x)
  BY <1>3, <1>7, <1>8 DEF Settled, SameIn
<1>10. end'[e] = x /\ end'[Peer(e)] = end[Peer(e)]
  BY <1>1, <1>2
<1>11. end'["client"].stage # 0
  BY <1>6, <1>7, <1>10, PeerOf DEF SameIn, r, Ends
<1>12. x.surplus = r.surplus /\ (r.lost => x.lost)
  BY <1>7 DEF SameIn
<1>13. Held(end')
  BY <1>3, <1>8, <1>9, <1>10, <1>11, <1>12, HeldOn DEF r
<1> QED BY <1>13, HeldNext DEF Writes

\* What a read brings: one part of a record is given at once, and of the others the
\* surplus keeps count.
LEMMA SurplusEnough ==
    ASSUME IInv, NEW e \in Ends, NEW before \in EndType, NEW r \in EndType, NEW x \in EndType,
           Accounts(e, before), Accounts(e, r), Finished(before), Finished(r),
           Waiting(e, before) <= before.surplus,
           r.surplus = before.surplus + Surplus(e, before, r), x.surplus = r.surplus,
           Waiting(e, x) = IF r.rest > 0 \/ Complete(r, RecordLen)
                           THEN Waiting(e, r) - 1 ELSE Waiting(e, r)
    PROVE  Waiting(e, x) <= x.surplus
<1>1. ASSUME NEW q \in EndType, Accounts(e, q), Finished(q)
      PROVE  /\ Waiting(e, q) \in Nat
             /\ Waiting(e, q) >= 1 => q.rest > 0 \/ Complete(q, RecordLen)
  <2>1. PICK m \in Nat, l \in Nat : m = RecordLen /\ m > 0 /\ l = Len(q.input)
    <3>1. PICK l \in Nat : l = Len(q.input)
      BY DEF EndType
    <3>2. PICK m \in Nat : m = RecordLen /\ m > 0
      BY SizesAssumption
    <3> QED BY <3>1, <3>2
  <2>2. PICK w \in Nat, n \in Nat : w = q.rest /\ n = Parts(q)
    <3>1. q.rest \in Nat
      BY DEF EndType
    <3> QED BY <3>1, PartsType
  <2>3. PICK d \in Nat : d = l \div m /\ (d >= 1 => l >= m)
    BY <2>1, InRecords
  <2>4. Waiting(e, q) = w + d * n
    BY <1>1, <2>1, <2>2, <2>3, WaitingIs DEF IInv
  <2>5. PICK k \in Nat : k = d * n /\ (d = 0 => k = 0)
    <3>1. d * n \in Nat /\ (d = 0 => d * n = 0)
      OBVIOUS
    <3> QED BY <3>1
  <2>6. w + k \in Nat /\ (w + k >= 1 => w > 0 \/ l >= m)
    BY <2>3, <2>5
  <2> QED BY <2>1, <2>2, <2>4, <2>5, <2>6 DEF Complete
<1>2. PICK b \in Nat : b = Waiting(e, before)
  BY <1>1
<1>3. PICK c \in Nat : c = Waiting(e, r) /\ (c >= 1 => r.rest > 0 \/ Complete(r, RecordLen))
  BY <1>1
<1>4. PICK s \in Int, n \in Int : s = before.surplus /\ n = c - b
  <2>1. before.surplus \in Int
    BY DEF EndType
  <2> QED BY <2>1
<1>5. r.surplus = s + (IF n > 1 THEN n - 1 ELSE 0)
  BY <1>2, <1>3, <1>4 DEF Surplus
<1>7. Waiting(e, x) = IF r.rest > 0 \/ Complete(r, RecordLen) THEN c - 1 ELSE c
  BY <1>3
<1>8. b <= s
  BY <1>2, <1>4
<1>9. PICK w \in Int : w = Waiting(e, x) /\ w <= c /\ (c >= 1 => w = c - 1)
  BY <1>3, <1>7
<1>10. w <= s + (IF n > 1 THEN n - 1 ELSE 0)
  BY <1>4, <1>8, <1>9
<1> QED BY <1>5, <1>9, <1>10

LEMMA ReadSettles == ASSUME IInv, IInv', SettledInv, NEW e \in Ends, Read(e) PROVE SettledInv'
<1> DEFINE p == end[Peer(e)]
           before == end[e]
<1>1. /\ Peer(e) \in Ends /\ Peer(e) # e /\ Peer(Peer(e)) = e
      /\ end \in [Ends -> EndType] /\ p \in EndType /\ before \in EndType
  BY PeerOf DEF IInv
<1>2. PICK k \in 1 .. Len(p.wire) :
         \E q \in IF Finished(Brought(e, k)) THEN UNION {CycleIn(w) : w \in CycleOut(Brought(e, k))}
                  ELSE StartSSL(e, Brought(e, k)) :
            end' = [end EXCEPT ![e] = q, ![Peer(e)].wire = SubSeq(@, k + 1, Len(@))]
  BY DEF Read
<1> DEFINE bio == [before EXCEPT !.input = before.input \o SubSeq(p.wire, 1, k)]
           r == [bio EXCEPT !.surplus = bio.surplus + Surplus(e, before, bio)]
           rest == [p EXCEPT !.wire = SubSeq(p.wire, k + 1, Len(p.wire))]
<1>3. r = Brought(e, k)
  BY DEF Brought
<1> HIDE DEF r, bio, rest
<1>4. PICK x \in IF Finished(r) THEN UNION {CycleIn(w) : w \in CycleOut(r)} ELSE StartSSL(e, r) :
         end' = [end EXCEPT ![e] = x, ![Peer(e)].wire = SubSeq(@, k + 1, Len(@))]
  BY <1>2, <1>3
<1>5. p.wire \in Seq(Nat) /\ before.input \in Seq(Nat) /\ k \in 0 .. Len(p.wire)
  BY <1>1 DEF EndType
<1>6. before.input \o SubSeq(p.wire, 1, k) \in Seq(Nat)
      /\ SubSeq(p.wire, k + 1, Len(p.wire)) \in Seq(Nat)
  BY <1>5
<1>7. /\ bio \in EndType /\ rest \in EndType /\ bio.surplus = before.surplus
      /\ bio.stage = before.stage /\ bio.expect = before.expect /\ bio.failed = before.failed
      /\ bio.told = before.told /\ bio.given = before.given /\ bio.output = before.output
      /\ bio.lost = before.lost /\ bio.wire = before.wire /\ bio.out = before.out
      /\ bio.in = before.in /\ bio.rest = before.rest /\ bio.excess = before.excess
  BY <1>1, <1>6 DEF EndType, bio, rest
<1>8. PICK s \in Int, y \in Int : s = before.surplus /\ y = Surplus(e, before, bio)
  BY <1>1, <1>7, SurplusType DEF EndType
<1>26. PICK z \in Int : z = s + y
  OBVIOUS
<1>9. z = s + y /\ r = [bio EXCEPT !.surplus = z]
  BY <1>7, <1>8, <1>26 DEF r
<1>10. /\ r \in EndType /\ r.surplus = s + y /\ r.input = bio.input
       /\ r.stage = before.stage /\ r.expect = before.expect /\ r.failed = before.failed
       /\ r.told = before.told /\ r.given = before.given /\ r.output = before.output
       /\ r.lost = before.lost /\ r.in = before.in /\ r.rest = before.rest
       /\ r.excess = before.excess
  BY <1>7, <1>9 DEF EndType
<1>11. /\ rest.stage = p.stage /\ rest.expect = p.expect /\ rest.failed = p.failed
       /\ rest.told = p.told /\ rest.given = p.given /\ rest.output = p.output
       /\ rest.lost = p.lost /\ rest.surplus = p.surplus /\ rest.input = p.input
       /\ rest.in = p.in /\ rest.rest = p.rest /\ rest.excess = p.excess
  BY <1>1 DEF EndType, rest
<1>12. end' = [end EXCEPT ![e] = x, ![Peer(e)] = rest]
  BY <1>1, <1>4 DEF rest
<1>13. end'[e] = x /\ end'[Peer(e)] = rest
  BY <1>1, <1>12
<1>14. /\ Settled(e, before) /\ Settled(Peer(e), p)
       /\ (~p.lost => Waiting(e, before) <= before.surplus)
       /\ (end["client"].stage = 0 => \A d \in Ends : Quiet(end[d]))
  BY <1>1 DEF SettledInv, Held
<1>15. end["client"].stage # 0
  <2>1. ~Quiet(p)
    <3>1. p.wire # <<>>
      BY DEF Read
    <3> QED BY <3>1 DEF Quiet
  <2> QED BY <1>1, <1>14, <2>1
<1>16. ~Speaks(e, before)
  BY <1>15, FirstToSpeak DEF Quiet, Ends
<1> HIDE DEF p, before
<1>17. Settled(e, r) /\ ~Speaks(e, r) /\ (Finished(r) <=> Finished(before)) /\ Accounts(e, before)
  BY <1>10, <1>14, <1>16 DEF Settled, Accounts, Opened, Parts, Fits, Speaks, Finished
<1>18. Settled(Peer(e), rest) /\ Waiting(Peer(e), rest) = Waiting(Peer(e), p)
  <2>1. Settled(Peer(e), rest)
    BY <1>11, <1>14 DEF Settled, Accounts, Opened, Parts, Fits, Speaks, Finished
  <2>2. Waiting(Peer(e), rest) = Waiting(Peer(e), p)
    BY <1>11 DEF Waiting, Parts
  <2> QED BY <2>1, <2>2
<1>19. Waiting(e, r) = Waiting(e, bio) /\ Surplus(e, before, r) = Surplus(e, before, bio)
  <2>1. Waiting(e, r) = Waiting(e, bio)
    BY <1>7, <1>10 DEF Waiting, Parts
  <2> QED BY <2>1 DEF Surplus
<1>20. ~rest.lost => ~x.failed
  <2>1. Flows(end'[Peer(e)], end'[e])
    BY DEF IInv
  <2> QED BY <1>13, <2>1 DEF Flows
<1>21. r.surplus = before.surplus + Surplus(e, before, r)
  BY <1>8, <1>10, <1>19
<1>22. /\ x \in EndType /\ Settled(e, x) /\ (r.lost => x.lost) /\ (r.stage # 0 => x.stage # 0)
       /\ ~rest.lost => Waiting(e, x) <= x.surplus
  <2>1. CASE Finished(r)
    <3>1. PICK w \in CycleOut(r) : x \in CycleIn(w)
      BY <1>4, <2>1
    <3>2. w \in EndType /\ SameIn(r, w) /\ (Fits(r, 0) => Fits(w, 0))
      BY <1>10, <3>1, CycleOutOut
    <3>3. Accounts(e, w) /\ Waiting(e, w) = Waiting(e, r) /\ ~Speaks(e, w) /\ Finished(w)
      BY <1>17, <2>1, <3>2, SameAccounts DEF Settled
    <3>4. Settled(e, w)
      BY <1>17, <3>2, <3>3 DEF Settled, SameIn
    <3>5. /\ x \in EndType /\ Settled(e, x) /\ x.surplus = w.surplus
          /\ (w.lost => x.lost) /\ (w.stage # 0 => x.stage # 0)
          /\ ~x.failed => Waiting(e, x) = IF w.rest > 0 \/ Complete(w, RecordLen)
                                          THEN Waiting(e, w) - 1 ELSE Waiting(e, w)
      BY <3>1, <3>2, <3>3, <3>4, CycleInOut DEF IInv
    <3>6. (Complete(w, RecordLen) <=> Complete(r, RecordLen)) /\ w.rest = r.rest
      BY <3>2 DEF SameIn, Complete
    <3>7. ASSUME ~rest.lost PROVE Waiting(e, x) <= x.surplus
      <4>1. x.surplus = r.surplus
        BY <3>2, <3>5 DEF SameIn
      <4>2. Waiting(e, x) = IF r.rest > 0 \/ Complete(r, RecordLen)
                            THEN Waiting(e, r) - 1 ELSE Waiting(e, r)
        BY <1>20, <3>3, <3>5, <3>6, <3>7
      <4>3. Waiting(e, before) <= before.surplus
        BY <1>11, <1>14, <3>7
      <4> QED BY <1>1, <1>10, <1>17, <1>21, <2>1, <3>5, <4>1, <4>2, <4>3, SurplusEnough
              DEF Settled, before
    <3> QED BY <3>2, <3>5, <3>7 DEF SameIn
  <2>2. CASE ~Finished(r)
    <3>1. /\ x \in EndType /\ Settled(e, x) /\ x.surplus = r.surplus /\ Waiting(e, x) = Waiting(e, r)
          /\ (r.lost => x.lost) /\ (r.stage # 0 => x.stage # 0)
      BY <1>4, <1>10, <1>17, <2>2, StartOut DEF Settled
    <3>2. ASSUME ~rest.lost PROVE Waiting(e, x) <= x.surplus
      <4>1. Waiting(e, before) <= before.surplus
        BY <1>11, <1>14, <3>2
      <4>2. PICK b \in Int, c \in Int : b = Waiting(e, before) /\ c = Waiting(e, r)
        BY <1>1, <1>10, WaitingType DEF before
      <4>3. ~Finished(before)
        BY <1>17, <2>2
      <4>4. y = c - b
        BY <1>8, <1>19, <4>2, <4>3 DEF Surplus
      <4>5. b <= s
        BY <1>8, <4>1, <4>2
      <4>6. c <= s + y
        BY <4>4, <4>5
      <4> QED BY <1>10, <3>1, <4>2, <4>6
    <3> QED BY <3>1, <3>2
  <2> QED BY <2>1, <2>2
<1>23. end'["client"].stage # 0
  <2>1. CASE e = "client"
    BY <1>10, <1>13, <1>15, <1>22, <2>1 DEF before
  <2>2. CASE e = "server"
    <3>1. Peer(e) = "client"
      BY <1>1, <2>2 DEF Ends
    <3> QED BY <1>11, <1>13, <1>15, <3>1 DEF p
  <2> QED BY <2>1, <2>2 DEF Ends
<1>24. ~x.lost => ~before.lost
  BY <1>10, <1>22
<1>25. Held(end')
  BY <1>11, <1>13, <1>18, <1>22, <1>23, <1>24, HeldOn DEF p, before
<1> QED BY <1>25, HeldNext DEF Read

LEMMA AlwaysSettled == Spec => []SettledInv
<1>1. Init => SettledInv
  <2> SUFFICES ASSUME Init PROVE SettledInv
    OBVIOUS
  <2>1. flights \in Flights /\ flights \in Nat /\ flights >= 2
    BY SizesAssumption DEF Init
  <2> DEFINE u == <<>>
             z(o, i) == [out |-> o, in |-> i, stage |-> 0, expect |-> 1, produced |-> 0,
                         input |-> u, output |-> u, wire |-> u, told |-> FALSE, failed |-> FALSE,
                         lost |-> FALSE, written |-> 0, given |-> 0, rest |-> 0, surplus |-> 0,
                         excess |-> 0]
  <2>3. PICK out \in [Ends -> OutLens], in \in [Ends -> InLens] :
           end = [e \in Ends |-> z(out[e], in[e])]
    BY DEF Init
  <2>2. ASSUME NEW e \in Ends
        PROVE  Settled(e, end[e]) /\ Quiet(end[e]) /\ Waiting(e, end[e]) <= end[e].surplus
    <3> DEFINE r == end[e]
    <3>1. r = z(out[e], in[e])
      BY <2>3
    <3>2. r.stage = 0 /\ r.expect = 1 /\ r.given = 0 /\ r.rest = 0 /\ ~r.told /\ r.output = <<>>
          /\ r.input = <<>> /\ r.wire = <<>> /\ r.surplus = 0 /\ r.excess = 0 /\ r.in = in[e]
      BY <3>1
    <3> HIDE DEF r, z
    <3>5. PICK n \in Nat : n = Parts(r)
      <4>1. PICK t \in Nat \ {0}, i \in Nat \ {0} : t = TextLen /\ i = r.in
        <5>1. TextLen \in Nat \ {0}
          BY SizesAssumption
        <5>2. in[e] \in InLens /\ InLens \subseteq Nat \ {0}
          BY <2>3, SizesAssumption
        <5> QED BY <3>2, <5>1, <5>2
      <4>2. (t + i - 1) \div i \in Nat
        OBVIOUS
      <4> QED BY <4>1, <4>2 DEF Parts
    <3>3. Settled(e, r)
      <4>1. 1 = 1 + 0 + 0 * RecordLen /\ 0 + 0 = 0 * n
        BY SizesAssumption
      <4>2. Taken(e, 0) = 0
        BY TakenNext
      <4>3. Opened(e, r, 0)
        BY <3>2, <3>5, <4>1, <4>2 DEF Opened
      <4>4. Len(<<>>) <= 0 + 0
        OBVIOUS
      <4>5. Fits(r, 0)
        BY <3>2, <4>4 DEF Fits
      <4> QED BY <3>2, <4>3, <4>5 DEF Settled, Accounts
    <3>4. Waiting(e, r) = 0
      <4>1. PICK h \in Nat : h = HandshakeLen(Peer(e))
        <5>1. Taken(e, flights) \in Nat
          BY <2>1, TakenNext
        <5> QED BY <5>1 DEF Taken, HandshakeLen
      <4>2. r.expect - 1 + Len(r.input) = 0
        <5>1. Len(<<>>) = 0 /\ 1 - 1 + 0 = 0
          OBVIOUS
        <5> QED BY <3>2, <5>1
      <4>3. Waiting(e, r) = IF 0 < h THEN 0 ELSE ((0 - h) \div RecordLen) * n - 0
        BY <3>2, <3>5, <4>1, <4>2 DEF Waiting
      <4>4. h = 0 => ((0 - h) \div RecordLen) * n - 0 = 0
        <5>1. 0 \div RecordLen = 0
          BY SizesAssumption
        <5>2. 0 * n - 0 = 0
          OBVIOUS
        <5> QED BY <5>1, <5>2
      <4> QED BY <4>3, <4>4
    <3> QED BY <3>2, <3>3, <3>4 DEF Quiet, r
  <2> QED BY <2>1, <2>2 DEF SettledInv, Held
<1>2. IInv /\ IInv' /\ SettledInv /\ [Next]_vars => SettledInv'
  <2> SUFFICES ASSUME IInv, IInv', SettledInv, [Next]_vars PROVE SettledInv'
    OBVIOUS
  <2>1. CASE UNCHANGED vars
    BY <2>1, HeldNext DEF vars, SettledInv
  <2> QED BY <2>1, StartSettles, ReadSettles, WritesSettles DEF Next
<1> QED BY <1>1, <1>2, Invariant, PTL DEF Spec

\* While uv_try_write takes what it is given, no more stays in an output BIO between
\* events than flights and records have been longer than the out buffer, and no part of
\* a record waits to be given to the script but the surplus of the reads: whatever the
\* sizes of buffers, flights and records.
THEOREM NothingWaits == Spec => []Prompt
<1>1. IInv /\ SettledInv => Prompt
  <2> SUFFICES ASSUME IInv, SettledInv, NEW e \in Ends, ~end[Peer(e)].lost
               PROVE  Len(end[e].output) <= end[e].excess /\ Waiting(e, end[e]) <= end[e].surplus
    BY DEF Prompt
  <2>1. ~end[e].failed
    BY DEF IInv, Flows
  <2>2. end[e].excess + 0 = end[e].excess
    BY DEF IInv, EndType
  <2>3. Fits(end[e], 0)
    BY <2>1 DEF SettledInv, Held, Settled
  <2> QED BY <2>2, <2>3 DEF SettledInv, Held, Fits
<1> QED BY <1>1, Invariant, AlwaysSettled, PTL
=============================================================================
