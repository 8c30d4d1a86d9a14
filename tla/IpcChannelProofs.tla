-------------------------- MODULE IpcChannelProofs --------------------------
(***************************************************************************)
(* Every message arrives: for all sets of texts and blocks, any number of  *)
(* values of a byte and wherever the stream is cut.                        *)
(*                                                                         *)
(* The invariant is a layout of the bytes not yet read: one function says  *)
(* where in them the frame of each message that has not been delivered     *)
(* begins, the first of them as far back as pos says, and the frames lie   *)
(* there whole.  What has been read of the first is in message.            *)
(***************************************************************************)
EXTENDS IpcChannel, Integers, SequenceTheorems, TLAPS

Sent == [opCode : {Json, String, Block}, length : 0 .. Base * Base - 1, bytes : Seq(Byte)]
Message == [threadId : Nat, opCode : Nat, length : Nat, payload : Seq(Byte), offset : Nat]
Given == [message : Message, whole : BOOLEAN, block : Seq(Byte)]

Typed ==
    /\ wb \in [1 .. BufSize -> Byte] /\ sent \in Seq(Sent)
    /\ pipe \in Seq(Byte) /\ rb \in Seq(Byte)
    /\ off \in Nat /\ pos \in Nat /\ position \in Nat /\ reading \in BOOLEAN
    /\ message \in Message /\ received \in Seq(Given) /\ desync \in BOOLEAN

\* The bytes not yet read, and how many of a frame have been read before them.
Unread == SubSeq(rb, off + 1, Len(rb)) \o pipe
Pos == IF reading THEN pos ELSE position

Idle == IF reading THEN off <= Len(rb) ELSE off = 0 /\ rb = <<>>

\* What is left of the frame of message m lies in the bytes u behind place a,
\* which is negative when a part of it has been read.
Lies(u, a, m) ==
    /\ \A j \in 1 .. 4 : a + j > 0 => u[a + j] = Header(m.opCode, m.length)[j]
    /\ Ascii(m) => \A j \in 1 .. m.length : a + 4 + j > 0 => u[a + 4 + j] = m.bytes[j]

\* Of the messages ms all but n are in u, one behind the other, without the
\* first p bytes; at says where each begins.
LayoutAt(at, u, p, n, ms) ==
    /\ at[n + 1] = 0 - p
    /\ at[Len(ms) + 1] = Len(u)
    /\ \A j, k \in n + 1 .. Len(ms) + 1 : j < k => at[j] + 4 <= at[k]
    /\ \A k \in n + 1 .. Len(ms) :
          at[k + 1] = at[k] + 4 + ms[k].length /\ Lies(u, at[k], ms[k])

Layout(u, p, n, ms) ==
    /\ n <= Len(ms)
    /\ \E at \in [1 .. Len(ms) + 1 -> Int] : LayoutAt(at, u, p, n, ms)

InLine == Layout(Unread, Pos, Len(received), sent)

\* What has been read of the first frame that is not delivered.
InHand ==
    LET m == sent[Len(received) + 1] IN
    /\ Pos >= 1 => Len(received) < Len(sent) /\ message.threadId = Id % Base
    /\ Pos >= 2 => message.opCode = m.opCode
    /\ Pos = 3 => message.length = ((m.length \div Base) % Base) * Base
    /\ Pos >= 4 => message.length = m.length /\ (Pos = 4 \/ Pos - 4 < m.length)
    /\ Pos >= 4 /\ m.opCode # Block /\ Ascii(m) => message.payload = SubSeq(m.bytes, 1, Pos - 4)

\* A block is sent as long as it is.
BlocksWhole == \A k \in 1 .. Len(sent) : sent[k].opCode = Block => Ascii(sent[k])

InStep == Idle /\ InLine /\ InHand /\ Delivered /\ BlockInPlace
IInv == Typed /\ BlocksWhole /\ (~desync => InStep)

-----------------------------------------------------------------------------
(* Bytes and headers                                                       *)

LEMMA BaseFact == Base \in Nat /\ Base > 3 /\ Base \in Int /\ Base > 0
BY IpcAssumption

LEMMA DivMod ==
    ASSUME NEW a \in Nat
    PROVE  /\ a \div Base \in Nat /\ a % Base \in 0 .. Base - 1
           /\ a = Base * (a \div Base) + (a % Base)
BY BaseFact, Z3

\* What setUint16 writes is what getUint16 reads.
LEMMA TwoBytes ==
    ASSUME NEW a \in 0 .. Base * Base - 1
    PROVE  /\ (a \div Base) % Base = a \div Base
           /\ ((a \div Base) % Base) * Base + (a % Base) = a
<1>1. /\ a \in Nat /\ a \div Base \in Nat /\ a % Base \in 0 .. Base - 1
      /\ a = Base * (a \div Base) + (a % Base)
  BY DivMod, BaseFact
<1>2. \A q, r, b \in Nat : b > 0 /\ r < b /\ b * q + r < b * b => q < b
  BY Z3
<1>3. a < Base * Base
  BY BaseFact
<1>4. a \div Base < Base
  BY <1>1, <1>2, <1>3, BaseFact
<1>5. \A q, b \in Nat : b > 0 /\ q < b => q % b = q
  BY Z3
<1>6. (a \div Base) % Base = a \div Base
  BY <1>1, <1>4, <1>5, BaseFact
<1>7. (a \div Base) * Base = Base * (a \div Base)
  BY <1>1, BaseFact, Z3
<1> QED BY <1>1, <1>6, <1>7

LEMMA SentType ==
    ASSUME NEW m \in Sent
    PROVE  /\ m.opCode \in {Json, String, Block} /\ m.bytes \in Seq(Byte)
           /\ m.length \in 0 .. Base * Base - 1 /\ m.length \in Nat
<1>1. m.length \in 0 .. Base * Base - 1
  BY DEF Sent
<1>2. \A x \in Int : 0 .. x \subseteq Nat
  OBVIOUS
<1>3. Base * Base - 1 \in Int
  BY BaseFact
<1> QED BY <1>1, <1>2, <1>3 DEF Sent

LEMMA Joined ==
    ASSUME NEW a \in Seq(Byte), NEW b \in Seq(Byte)
    PROVE  /\ a \o b \in Seq(Byte) /\ Len(a \o b) = Len(a) + Len(b)
           /\ Len(a) \in Nat /\ Len(b) \in Nat
           /\ \A i \in 1 .. Len(a) : (a \o b)[i] = a[i]
           /\ \A i \in 1 .. Len(b) : (a \o b)[Len(a) + i] = b[i]
<1>1. /\ a \o b \in Seq(Byte) /\ Len(a \o b) = Len(a) + Len(b)
      /\ Len(a) \in Nat /\ Len(b) \in Nat
      /\ \A i \in 1 .. Len(a) + Len(b) : (a \o b)[i] = IF i <= Len(a) THEN a[i] ELSE b[i - Len(a)]
  BY ConcatProperties, LenProperties
<1>2. ASSUME NEW i \in 1 .. Len(b) PROVE (a \o b)[Len(a) + i] = b[i]
  <2>1. Len(a) + i \in 1 .. Len(a) + Len(b) /\ ~(Len(a) + i <= Len(a)) /\ (Len(a) + i) - Len(a) = i
    BY <1>1
  <2> QED BY <1>1, <2>1
<1>3. \A i \in 1 .. Len(a) : i \in 1 .. Len(a) + Len(b) /\ i <= Len(a)
  BY <1>1
<1> QED BY <1>1, <1>2, <1>3

LEMMA JoinedTwice ==
    \A a, b, c \in Seq(Byte) : (a \o b) \o c = a \o (b \o c)
BY ConcatAssociative, SMT

LEMMA HeaderType ==
    ASSUME NEW opCode \in {Json, String, Block}, NEW length \in 0 .. Base * Base - 1
    PROVE  /\ Header(opCode, length) \in Seq(Byte) /\ Len(Header(opCode, length)) = 4
           /\ Header(opCode, length)[1] = Id % Base /\ Header(opCode, length)[2] = opCode
           /\ Header(opCode, length)[3] = (length \div Base) % Base
           /\ Header(opCode, length)[4] = length % Base
<1>1. Id \in Nat /\ length \in Nat
  BY IpcAssumption, BaseFact
<1>2. Id % Base \in Byte /\ length % Base \in Byte
  BY <1>1, DivMod DEF Byte
<1>3. (length \div Base) % Base \in Byte
  BY <1>1, DivMod DEF Byte
<1>4. opCode \in Byte
  BY BaseFact DEF Byte, Json, String, Block
<1> QED BY <1>2, <1>3, <1>4 DEF Header

-----------------------------------------------------------------------------
(* The layout                                                              *)

\* A frame lies where it lay, seen from d bytes further on.
LEMMA LiesMoved ==
    ASSUME NEW u, NEW v, NEW a \in Int, NEW d \in Nat, NEW size \in Nat, NEW m \in Sent,
           a + 4 + m.length <= size, Lies(u, a, m), \A i \in d + 1 .. size : v[i - d] = u[i]
    PROVE  Lies(v, a - d, m)
<1>1. m.length \in Nat
  BY SentType
<1>2. ASSUME NEW x \in Int, x <= size, x - d > 0 PROVE v[x - d] = u[x] /\ x > 0
  <2>1. x \in d + 1 .. size
    BY <1>2
  <2> QED BY <2>1
<1>3. ASSUME NEW j \in 1 .. 4, (a - d) + j > 0
      PROVE  v[(a - d) + j] = u[a + j] /\ a + j > 0
  <2>1. a + j \in Int /\ a + j <= size /\ (a + j) - d = (a - d) + j
    BY <1>1
  <2> QED BY <1>2, <1>3, <2>1
<1>4. ASSUME NEW j \in 1 .. m.length, (a - d) + 4 + j > 0
      PROVE  v[(a - d) + 4 + j] = u[a + 4 + j] /\ a + 4 + j > 0
  <2>1. a + 4 + j \in Int /\ a + 4 + j <= size /\ (a + 4 + j) - d = (a - d) + 4 + j
    BY <1>1
  <2> QED BY <1>2, <1>4, <2>1
<1> QED BY <1>3, <1>4 DEF Lies

\* One more frame is put behind the others.
LEMMA LayoutGrows ==
    ASSUME NEW u \in Seq(Byte), NEW p \in Nat, NEW ms \in Seq(Sent), NEW n \in Nat,
           Layout(u, p, n, ms), NEW m \in Sent, NEW frame \in Seq(Byte), Lies(frame, 0, m),
           Len(frame) = m.length + 4
    PROVE  Layout(u \o frame, p, n, Append(ms, m))
<1> DEFINE s == Len(ms)
           all == Append(ms, m)
           v == u \o frame
<1>1. PICK at \in [1 .. s + 1 -> Int] : LayoutAt(at, u, p, n, ms)
  BY DEF Layout
<1>2. s \in Nat /\ n <= s /\ Len(u) \in Nat /\ m.length \in Nat
  BY LenProperties, SentType DEF Layout
<1>3. Len(all) = s + 1 /\ all[s + 1] = m /\ \A k \in 1 .. s : all[k] = ms[k]
  BY AppendProperties
<1>4. /\ Len(v) = Len(u) + m.length + 4
      /\ \A i \in 1 .. Len(u) : v[i] = u[i]
      /\ \A i \in 1 .. m.length + 4 : v[Len(u) + i] = frame[i]
  <2>1. /\ Len(v) = Len(u) + Len(frame)
        /\ \A i \in 1 .. Len(u) : v[i] = u[i]
        /\ \A i \in 1 .. Len(frame) : v[Len(u) + i] = frame[i]
    BY Joined
  <2> HIDE DEF v
  <2>2. Len(u) + (m.length + 4) = Len(u) + m.length + 4
    BY <1>2
  <2> QED BY <2>1, <2>2
<1>5. /\ at[n + 1] = 0 - p /\ at[s + 1] = Len(u)
      /\ \A j, k \in n + 1 .. s + 1 : j < k => at[j] + 4 <= at[k]
      /\ \A k \in n + 1 .. s : at[k + 1] = at[k] + 4 + ms[k].length /\ Lies(u, at[k], ms[k])
  BY <1>1 DEF LayoutAt
<1> HIDE DEF all, v, s
<1> DEFINE new == [k \in 1 .. s + 2 |-> IF k = s + 2 THEN Len(u) + 4 + m.length ELSE at[k]]
<1>6. /\ new \in [1 .. s + 2 -> Int] /\ new[s + 2] = Len(u) + 4 + m.length
      /\ \A k \in 1 .. s + 1 : new[k] = at[k] /\ at[k] \in Int
  BY <1>1, <1>2
<1> HIDE DEF new
<1>7. ASSUME NEW k \in n + 1 .. s
      PROVE  new[k + 1] = new[k] + 4 + all[k].length /\ Lies(v, new[k], all[k])
  <2>1. k \in 1 .. s /\ k + 1 \in 1 .. s + 1 /\ k \in 1 .. s + 1
    BY <1>2
  <2>2. new[k] = at[k] /\ new[k + 1] = at[k + 1] /\ all[k] = ms[k] /\ at[k] \in Int /\ at[k + 1] \in Int
    BY <1>3, <1>6, <2>1
  <2>3. at[k + 1] = at[k] + 4 + ms[k].length /\ Lies(u, at[k], ms[k])
    BY <1>5
  <2>4. ms[k].length \in Nat
    BY <2>1, SentType, ElementOfSeq DEF s
  <2>5. at[k + 1] <= Len(u)
    <3>1. CASE k = s
      BY <1>5, <3>1
    <3>2. CASE k # s
      <4>1. k + 1 \in n + 1 .. s + 1 /\ s + 1 \in n + 1 .. s + 1 /\ k + 1 < s + 1
        BY <1>2, <3>2
      <4>2. at[k + 1] + 4 <= Len(u)
        BY <1>5, <4>1
      <4> QED BY <1>2, <2>2, <4>2
    <3> QED BY <3>1, <3>2
  <2>6. at[k] + 4 + ms[k].length <= Len(u)
    BY <2>3, <2>5
  <2>7. \A i \in 0 + 1 .. Len(u) : v[i - 0] = u[i]
    BY <1>2, <1>4
  <2>8. ms[k] \in Sent
    BY <2>1, ElementOfSeq DEF s
  <2>9. Lies(v, at[k] - 0, ms[k])
    BY <1>2, <2>2, <2>3, <2>6, <2>7, <2>8, LiesMoved
  <2>10. at[k] - 0 = at[k]
    BY <2>2
  <2> QED BY <2>2, <2>3, <2>9, <2>10
<1>8. new[s + 2] = new[s + 1] + 4 + all[s + 1].length /\ Lies(v, new[s + 1], all[s + 1])
  <2>1. new[s + 1] = Len(u) /\ all[s + 1] = m
    BY <1>2, <1>3, <1>5, <1>6
  <2>2. \A j \in 1 .. 4 : 0 + j = j /\ 0 + j > 0 /\ v[Len(u) + j] = frame[j]
    <3>1. \A j \in 1 .. 4 : j \in 1 .. m.length + 4 /\ 0 + j = j /\ 0 + j > 0
      BY <1>2
    <3> QED BY <1>4, <3>1
  <2>3. \A j \in 1 .. m.length :
           0 + 4 + j > 0 /\ 0 + 4 + j = 4 + j /\ v[Len(u) + 4 + j] = frame[4 + j]
    <3> SUFFICES ASSUME NEW j \in 1 .. m.length
                 PROVE  0 + 4 + j > 0 /\ 0 + 4 + j = 4 + j /\ v[Len(u) + 4 + j] = frame[4 + j]
      OBVIOUS
    <3>1. Len(u) + 4 + j = Len(u) + (4 + j) /\ 4 + j \in 1 .. m.length + 4
      BY <1>2
    <3> QED BY <1>4, <3>1
  <2>4. Lies(v, Len(u), m)
    BY <2>2, <2>3 DEF Lies
  <2> QED BY <1>6, <2>1, <2>4
<1>9. \A j, k \in n + 1 .. s + 2 : j < k => new[j] + 4 <= new[k]
  <2> SUFFICES ASSUME NEW j \in n + 1 .. s + 2, NEW k \in n + 1 .. s + 2, j < k
               PROVE  new[j] + 4 <= new[k]
    OBVIOUS
  <2>1. j \in 1 .. s + 1 /\ j \in n + 1 .. s + 1 /\ s + 1 \in n + 1 .. s + 1
    BY <1>2
  <2>2. at[j] \in Int /\ (j = s + 1 \/ at[j] + 4 <= Len(u))
    BY <1>2, <1>5, <1>6, <2>1
  <2>3. CASE k = s + 2
    <3>1. new[j] = at[j] /\ new[k] = Len(u) + 4 + m.length
      BY <1>6, <2>1, <2>3
    <3>2. at[j] <= Len(u)
      <4>1. j = s + 1 => at[j] = Len(u)
        BY <1>5
      <4> QED BY <1>2, <2>2, <4>1
    <3>3. \A x \in Int : \A y, z \in Nat : x <= y => x + 4 <= y + 4 + z
      OBVIOUS
    <3>4. at[j] + 4 <= Len(u) + 4 + m.length
      BY <1>2, <2>2, <3>2, <3>3
    <3> QED BY <3>1, <3>4
  <2>4. CASE k # s + 2
    <3>1. k \in 1 .. s + 1 /\ k \in n + 1 .. s + 1
      BY <1>2, <2>4
    <3>2. new[j] = at[j] /\ new[k] = at[k] /\ at[j] + 4 <= at[k]
      BY <1>5, <1>6, <2>1, <3>1
    <3> QED BY <3>2
  <2> QED BY <2>3, <2>4
<1>10. LayoutAt(new, v, p, n, all)
  <2>1. new[n + 1] = 0 - p
    BY <1>2, <1>5, <1>6
  <2>2. Len(all) + 1 = s + 2 /\ new[s + 2] = Len(v)
    <3> DEFINE x == Len(u)
               y == m.length
    <3>1. x \in Nat /\ y \in Nat /\ s \in Nat
      BY <1>2
    <3> HIDE DEF x, y
    <3>2. (s + 1) + 1 = s + 2 /\ x + 4 + y = x + y + 4
      BY <3>1
    <3>3. Len(all) = s + 1 /\ Len(v) = Len(u) + m.length + 4 /\ new[s + 2] = Len(u) + 4 + m.length
      BY <1>3, <1>4, <1>6
    <3> QED BY <3>2, <3>3 DEF x, y
  <2>3. \A k \in n + 1 .. s + 1 : k \in n + 1 .. s \/ k = s + 1
    BY <1>2
  <2>4. (s + 1) + 1 = s + 2
    BY <1>2
  <2>5. \A k \in n + 1 .. s + 1 : new[k + 1] = new[k] + 4 + all[k].length /\ Lies(v, new[k], all[k])
    BY <1>7, <1>8, <2>3, <2>4
  <2> QED BY <1>3, <1>9, <2>1, <2>2, <2>5 DEF LayoutAt
<1>11. n <= Len(all) /\ Len(all) + 1 = s + 2
  BY <1>2, <1>3
<1> QED BY <1>6, <1>10, <1>11 DEF Layout, all, v

\* d bytes are read.
LEMMA LayoutAdvances ==
    ASSUME NEW u \in Seq(Byte), NEW p \in Nat, NEW ms \in Seq(Sent), NEW n \in Nat,
           Layout(u, p, n, ms), NEW d \in 0 .. Len(u)
    PROVE  Layout(SubSeq(u, d + 1, Len(u)), p + d, n, ms)
<1> DEFINE s == Len(ms)
           v == SubSeq(u, d + 1, Len(u))
<1>1. PICK at \in [1 .. s + 1 -> Int] : LayoutAt(at, u, p, n, ms)
  BY DEF Layout
<1>2. s \in Nat /\ n <= s /\ Len(u) \in Nat /\ d \in Nat /\ d <= Len(u)
  BY LenProperties DEF Layout
<1>3. Len(v) = Len(u) - d /\ \A i \in 1 .. Len(u) - d : v[i] = u[d + i]
  BY <1>2
<1>4. /\ at[n + 1] = 0 - p /\ at[s + 1] = Len(u)
      /\ \A j, k \in n + 1 .. s + 1 : j < k => at[j] + 4 <= at[k]
      /\ \A k \in n + 1 .. s : at[k + 1] = at[k] + 4 + ms[k].length /\ Lies(u, at[k], ms[k])
  BY <1>1 DEF LayoutAt
<1> HIDE DEF v, s
<1> DEFINE new == [k \in 1 .. s + 1 |-> at[k] - d]
<1>5. /\ new \in [1 .. s + 1 -> Int]
      /\ \A k \in 1 .. s + 1 : new[k] = at[k] - d /\ at[k] \in Int
  BY <1>1, <1>2
<1> HIDE DEF new
<1>6. ASSUME NEW k \in n + 1 .. s
      PROVE  new[k + 1] = new[k] + 4 + ms[k].length /\ Lies(v, new[k], ms[k])
  <2>1. k \in 1 .. s /\ k + 1 \in 1 .. s + 1 /\ k \in 1 .. s + 1
    BY <1>2
  <2>2. new[k] = at[k] - d /\ new[k + 1] = at[k + 1] - d /\ at[k] \in Int /\ at[k + 1] \in Int
    BY <1>5, <2>1
  <2>3. at[k + 1] = at[k] + 4 + ms[k].length /\ Lies(u, at[k], ms[k])
    BY <1>4
  <2>4. ms[k].length \in Nat
    BY <2>1, SentType, ElementOfSeq DEF s
  <2>5. at[k + 1] <= Len(u)
    <3>1. CASE k = s
      BY <1>4, <3>1
    <3>2. CASE k # s
      <4>1. k + 1 \in n + 1 .. s + 1 /\ s + 1 \in n + 1 .. s + 1 /\ k + 1 < s + 1
        BY <1>2, <3>2
      <4>2. at[k + 1] + 4 <= Len(u)
        BY <1>4, <4>1
      <4> QED BY <1>2, <2>2, <4>2
    <3> QED BY <3>1, <3>2
  <2>6. at[k] + 4 + ms[k].length <= Len(u)
    BY <2>3, <2>5
  <2>7. \A i \in d + 1 .. Len(u) : v[i - d] = u[i]
    <3> SUFFICES ASSUME NEW i \in d + 1 .. Len(u) PROVE v[i - d] = u[i]
      OBVIOUS
    <3>1. i - d \in 1 .. Len(u) - d /\ d + (i - d) = i
      BY <1>2
    <3> QED BY <1>3, <3>1
  <2>8. Lies(v, at[k] - d, ms[k])
    BY <1>2, <2>1, <2>2, <2>3, <2>6, <2>7, LiesMoved, ElementOfSeq DEF s
  <2>9. at[k + 1] - d = (at[k] - d) + 4 + ms[k].length
    <3> DEFINE x == at[k]
               y == ms[k].length
    <3>1. x \in Int /\ y \in Nat /\ d \in Nat /\ at[k + 1] = x + 4 + y
      BY <1>2, <2>2, <2>3, <2>4
    <3> HIDE DEF x, y
    <3>2. at[k + 1] - d = (x - d) + 4 + y
      BY <3>1
    <3> QED BY <3>2 DEF x, y
  <2> QED BY <2>2, <2>8, <2>9
<1>7. \A j, k \in n + 1 .. s + 1 : j < k => new[j] + 4 <= new[k]
  <2> SUFFICES ASSUME NEW j \in n + 1 .. s + 1, NEW k \in n + 1 .. s + 1, j < k
               PROVE  new[j] + 4 <= new[k]
    OBVIOUS
  <2>1. j \in 1 .. s + 1 /\ k \in 1 .. s + 1
    BY <1>2
  <2>2. at[j] + 4 <= at[k] /\ at[j] \in Int /\ at[k] \in Int
    BY <1>4, <1>5, <2>1
  <2>3. new[j] = at[j] - d /\ new[k] = at[k] - d
    BY <1>5, <2>1
  <2> QED BY <1>2, <2>2, <2>3
<1>8. new[n + 1] = 0 - (p + d) /\ new[s + 1] = Len(v)
  <2>1. n + 1 \in 1 .. s + 1 /\ s + 1 \in 1 .. s + 1
    BY <1>2
  <2>2. new[n + 1] = 0 - p - d /\ new[s + 1] = Len(u) - d
    BY <1>4, <1>5, <2>1
  <2> QED BY <1>2, <1>3, <2>2
<1>9. LayoutAt(new, v, p + d, n, ms)
  BY <1>6, <1>7, <1>8 DEF LayoutAt, s
<1> QED BY <1>2, <1>5, <1>9 DEF Layout, s, v

\* A frame has been read to its end.
LEMMA LayoutMovesOn ==
    ASSUME NEW u \in Seq(Byte), NEW p \in Nat, NEW ms \in Seq(Sent), NEW n \in Nat,
           Layout(u, p, n, ms), n < Len(ms), p = 4 + ms[n + 1].length
    PROVE  Layout(u, 0, n + 1, ms)
<1>1. PICK at \in [1 .. Len(ms) + 1 -> Int] : LayoutAt(at, u, p, n, ms)
  BY DEF Layout
<1>2. Len(ms) \in Nat /\ n + 1 \in 1 .. Len(ms) /\ (n + 1) + 1 \in 1 .. Len(ms) + 1
  BY LenProperties
<1>3. ms[n + 1].length \in Nat
  BY <1>2, SentType, ElementOfSeq
<1>4. at[n + 1] = 0 - p /\ at[(n + 1) + 1] = at[n + 1] + 4 + ms[n + 1].length
  BY <1>1, <1>2 DEF LayoutAt
<1>5. at[(n + 1) + 1] = 0 - 0
  BY <1>3, <1>4
<1>6. LayoutAt(at, u, 0, n + 1, ms)
  <2>1. \A k \in (n + 1) + 1 .. Len(ms) + 1 : k \in n + 1 .. Len(ms) + 1
    BY <1>2
  <2>2. \A k \in (n + 1) + 1 .. Len(ms) : k \in n + 1 .. Len(ms)
    BY <1>2
  <2> QED BY <1>1, <1>5, <2>1, <2>2 DEF LayoutAt
<1>7. n + 1 <= Len(ms)
  BY <1>2
<1> QED BY <1>1, <1>6, <1>7 DEF Layout

\* The first frame lies in u to its end; with nothing left to read all have been
\* given to onMessage, or the last is empty and read but for that.
LEMMA LayoutRead ==
    ASSUME NEW u \in Seq(Byte), NEW p \in Nat, NEW ms \in Seq(Sent), NEW n \in Nat,
           Layout(u, p, n, ms)
    PROVE  /\ n = Len(ms) => p = 0 /\ Len(u) = 0
           /\ n < Len(ms) => 4 + ms[n + 1].length - p <= Len(u) /\ Lies(u, 0 - p, ms[n + 1])
           /\ (n < Len(ms) /\ 4 + ms[n + 1].length - p = Len(u)) => n + 1 = Len(ms)
<1>1. PICK at \in [1 .. Len(ms) + 1 -> Int] : LayoutAt(at, u, p, n, ms)
  BY DEF Layout
<1>2. Len(ms) \in Nat /\ n <= Len(ms) /\ Len(u) \in Nat
  BY LenProperties DEF Layout
<1>3. /\ at[n + 1] = 0 - p /\ at[Len(ms) + 1] = Len(u)
      /\ \A j, k \in n + 1 .. Len(ms) + 1 : j < k => at[j] + 4 <= at[k]
      /\ \A k \in n + 1 .. Len(ms) :
            at[k + 1] = at[k] + 4 + ms[k].length /\ Lies(u, at[k], ms[k])
  BY <1>1 DEF LayoutAt
<1>4. CASE n = Len(ms)
  BY <1>2, <1>3, <1>4
<1>5. CASE n < Len(ms)
  <2>1. n + 1 \in 1 .. Len(ms) /\ n + 1 \in n + 1 .. Len(ms)
    BY <1>2, <1>5
  <2>2. ms[n + 1].length \in Nat
    BY <2>1, SentType, ElementOfSeq
  <2>3. at[(n + 1) + 1] = 0 - p + 4 + ms[n + 1].length /\ Lies(u, 0 - p, ms[n + 1])
    BY <1>3, <2>1
  <2>4. n + 1 = Len(ms) \/ at[(n + 1) + 1] + 4 <= Len(u)
    <3> SUFFICES ASSUME n + 1 # Len(ms) PROVE at[(n + 1) + 1] + 4 <= Len(u)
      OBVIOUS
    <3>1. /\ (n + 1) + 1 \in n + 1 .. Len(ms) + 1 /\ Len(ms) + 1 \in n + 1 .. Len(ms) + 1
          /\ (n + 1) + 1 < Len(ms) + 1
      BY <1>2, <1>5
    <3> QED BY <1>3, <3>1
  <2>5. n + 1 = Len(ms) => at[(n + 1) + 1] = Len(u)
    BY <1>3
  <2> QED BY <1>2, <1>5, <2>2, <2>3, <2>4, <2>5
<1> QED BY <1>2, <1>4, <1>5

-----------------------------------------------------------------------------
(* What was delivered                                                      *)

\* Nothing is delivered by a step that keeps received, and what was delivered
\* stays right when more is sent.
LEMMA HistoryKept ==
    ASSUME Typed, Typed', Delivered, BlockInPlace, ~desync, UNCHANGED received,
           Len(received) <= Len(sent), Len(sent) <= Len(sent'),
           \A k \in 1 .. Len(sent) : sent'[k] = sent[k]
    PROVE  Delivered' /\ BlockInPlace'
<1>1. Len(received) \in Nat /\ Len(sent) \in Nat /\ Len(sent') \in Nat
  BY LenProperties DEF Typed
<1>2. \A k \in 1 .. Len(received) : sent'[k] = sent[k]
  BY <1>1
<1>3. Delivered'
  BY <1>1, <1>2 DEF Delivered, Ascii
<1>4. BlockInPlace'
  BY <1>1, <1>2 DEF BlockInPlace
<1> QED BY <1>3, <1>4

-----------------------------------------------------------------------------
(* Parser.write                                                            *)

\* The frame of m, as its bytes are put on the stream.
LEMMA FrameWritten ==
    ASSUME Typed, NEW m \in Sent, NEW data \in Seq(Byte),
           m.length + 4 <= BufSize, Len(data) <= m.length, Ascii(m) => data = m.bytes,
           Transmit(m.opCode, m.length, data)
    PROVE  /\ wb' \in [1 .. BufSize -> Byte]
           /\ \E frame \in Seq(Byte) :
                 pipe' = pipe \o frame /\ Len(frame) = m.length + 4 /\ Lies(frame, 0, m)
<1> DEFINE head == Header(m.opCode, m.length)
           all == head \o data
           frame == SubSeq(wb', 1, m.length + 4)
<1>1. /\ m.opCode \in {Json, String, Block} /\ m.length \in 0 .. Base * Base - 1 /\ m.bytes \in Seq(Byte)
      /\ m.length \in Nat /\ BufSize \in Nat /\ Len(data) \in Nat
  BY IpcAssumption, BaseFact, LenProperties DEF Sent
<1>2. head \in Seq(Byte) /\ Len(head) = 4
  BY <1>1, HeaderType
<1> HIDE DEF head
<1>3. /\ all \in Seq(Byte) /\ Len(all) = 4 + Len(data)
      /\ \A i \in 1 .. 4 + Len(data) : all[i] = IF i <= 4 THEN head[i] ELSE data[i - 4]
  <2>1. /\ all \in Seq(Byte) /\ Len(all) = Len(head) + Len(data)
        /\ \A i \in 1 .. Len(head) + Len(data) :
              all[i] = IF i <= Len(head) THEN head[i] ELSE data[i - Len(head)]
    BY <1>2, ConcatProperties
  <2> HIDE DEF all
  <2> QED BY <1>2, <2>1
<1> HIDE DEF all
<1>4. wb' = [i \in 1 .. BufSize |-> IF i \in 1 .. Len(all) THEN all[i] ELSE wb[i]]
  <2>1. wb' = Written(wb, 0, all)
    BY DEF Transmit, all, head
  <2>2. \A i \in 1 .. BufSize : i - 0 = i
    BY <1>1
  <2>3. 0 + 1 = 1 /\ 0 + Len(all) = Len(all)
    BY <1>1, <1>3
  <2> QED BY <2>1, <2>2, <2>3 DEF Written
<1>5. wb' \in [1 .. BufSize -> Byte]
  BY <1>3, <1>4, ElementOfSeq DEF Typed
<1>6. /\ frame \in Seq(Byte) /\ Len(frame) = m.length + 4
      /\ \A i \in 1 .. m.length + 4 : frame[i] = wb'[i]
  <2>1. \A i \in 1 .. m.length + 4 : wb'[i] \in Byte
    BY <1>1, <1>5
  <2> QED BY <1>1, <2>1, SubSeqProperties
<1>7. pipe' = pipe \o frame
  BY DEF Transmit
<1> HIDE DEF frame
<1>8. \A j \in 1 .. 4 : frame[j] = head[j]
  <2> SUFFICES ASSUME NEW j \in 1 .. 4 PROVE frame[j] = head[j]
    OBVIOUS
  <2>1. /\ j \in 1 .. m.length + 4 /\ j \in 1 .. BufSize /\ j \in 1 .. 4 + Len(data) /\ j <= 4
        /\ j \in 1 .. Len(all)
    BY <1>1, <1>3
  <2>2. frame[j] = wb'[j] /\ wb'[j] = all[j]
    BY <1>4, <1>6, <2>1
  <2>3. all[j] = head[j]
    BY <1>3, <2>1
  <2> QED BY <2>2, <2>3
<1>9. ASSUME Ascii(m), NEW j \in 1 .. m.length PROVE frame[4 + j] = m.bytes[j]
  <2>1. data = m.bytes /\ Len(data) = m.length
    BY <1>9 DEF Ascii
  <2>2. 4 + j \in 1 .. m.length + 4 /\ 4 + j \in 1 .. Len(all) /\ 4 + j \in 1 .. BufSize /\ ~(4 + j <= 4) /\ (4 + j) - 4 = j
    BY <1>1, <1>3, <2>1
  <2>3. frame[4 + j] = all[4 + j]
    BY <1>4, <1>6, <2>2
  <2> QED BY <1>1, <1>3, <2>1, <2>2, <2>3
<1>10. Lies(frame, 0, m)
  <2>1. \A j \in 1 .. 4 : 0 + j = j
    OBVIOUS
  <2>2. \A j \in 1 .. m.length : 0 + 4 + j = 4 + j
    BY <1>1
  <2> QED BY <1>8, <1>9, <2>1, <2>2 DEF Lies, head
<1> QED BY <1>5, <1>6, <1>7, <1>10

-----------------------------------------------------------------------------
(* Parser.read                                                             *)

\* Pieces of a sequence.
LEMMA Piece ==
    ASSUME NEW a \in Seq(Byte), NEW i \in Nat, NEW j \in Nat, i <= j, j <= Len(a)
    PROVE  /\ SubSeq(a, i + 1, j) \in Seq(Byte) /\ Len(SubSeq(a, i + 1, j)) = j - i
           /\ \A k \in 1 .. j - i : SubSeq(a, i + 1, j)[k] = a[i + k]
<1>1. Len(a) \in Nat
  BY LenProperties
<1>2. \A k \in i + 1 .. j : a[k] \in Byte
  BY <1>1, ElementOfSeq
<1>3. /\ SubSeq(a, i + 1, j) \in Seq(Byte)
      /\ Len(SubSeq(a, i + 1, j)) = IF i + 1 <= j THEN j - (i + 1) + 1 ELSE 0
      /\ \A k \in 1 .. j - (i + 1) + 1 : SubSeq(a, i + 1, j)[k] = a[i + 1 + k - 1]
  BY <1>2, SubSeqProperties
<1>4. j - (i + 1) + 1 = j - i /\ (IF i + 1 <= j THEN j - (i + 1) + 1 ELSE 0) = j - i
  OBVIOUS
<1>5. \A k \in 1 .. j - i : i + 1 + k - 1 = i + k
  OBVIOUS
<1> QED BY <1>3, <1>4, <1>5

LEMMA SameBytes ==
    ASSUME NEW a \in Seq(Byte), NEW b \in Seq(Byte), Len(a) = Len(b),
           \A i \in 1 .. Len(a) : a[i] = b[i]
    PROVE  a = b
BY SeqEqual

LEMMA PiecesJoin ==
    ASSUME NEW a \in Seq(Byte), NEW i \in Nat, NEW j \in Nat, NEW k \in Nat,
           i <= j, j <= k, k <= Len(a)
    PROVE  SubSeq(a, i + 1, j) \o SubSeq(a, j + 1, k) = SubSeq(a, i + 1, k)
<1> DEFINE b == SubSeq(a, i + 1, j)
           c == SubSeq(a, j + 1, k)
           e == SubSeq(a, i + 1, k)
<1>1. Len(a) \in Nat
  BY LenProperties
<1>2. b \in Seq(Byte) /\ Len(b) = j - i /\ \A x \in 1 .. j - i : b[x] = a[i + x]
  BY <1>1, Piece
<1>3. c \in Seq(Byte) /\ Len(c) = k - j /\ \A x \in 1 .. k - j : c[x] = a[j + x]
  BY <1>1, Piece
<1>4. e \in Seq(Byte) /\ Len(e) = k - i /\ \A x \in 1 .. k - i : e[x] = a[i + x]
  BY <1>1, Piece
<1> HIDE DEF b, c, e
<1>5. /\ b \o c \in Seq(Byte) /\ Len(b \o c) = Len(b) + Len(c)
      /\ \A x \in 1 .. Len(b) + Len(c) : (b \o c)[x] = IF x <= Len(b) THEN b[x] ELSE c[x - Len(b)]
  BY <1>2, <1>3, ConcatProperties
<1>6. Len(b \o c) = k - i
  BY <1>2, <1>3, <1>5
<1>7. ASSUME NEW x \in 1 .. k - i PROVE (b \o c)[x] = e[x]
  <2>1. CASE x <= j - i
    <3>1. x \in 1 .. j - i /\ x \in 1 .. Len(b) + Len(c) /\ x <= Len(b)
      BY <1>2, <1>3, <2>1
    <3> QED BY <1>2, <1>4, <1>5, <3>1
  <2>2. CASE ~(x <= j - i)
    <3>1. /\ x - (j - i) \in 1 .. k - j /\ x \in 1 .. Len(b) + Len(c) /\ ~(x <= Len(b))
          /\ j + (x - (j - i)) = i + x /\ x - Len(b) = x - (j - i)
      BY <1>2, <1>3, <2>2
    <3> QED BY <1>3, <1>4, <1>5, <3>1
  <2> QED BY <2>1, <2>2
<1> QED BY <1>4, <1>5, <1>6, <1>7, SameBytes DEF b, c, e

\* What lies in the chunk r behind offset o comes first in what is unread; with
\* d more bytes read the rest is unread.
LEMMA UnreadOf ==
    ASSUME NEW r \in Seq(Byte), NEW q \in Seq(Byte), NEW o \in Nat, o <= Len(r)
    PROVE  /\ SubSeq(r, o + 1, Len(r)) \o q \in Seq(Byte)
           /\ Len(SubSeq(r, o + 1, Len(r)) \o q) = (Len(r) - o) + Len(q)
           /\ Len(r) \in Nat /\ Len(q) \in Nat
           /\ \A i \in 1 .. Len(r) - o : (SubSeq(r, o + 1, Len(r)) \o q)[i] = r[o + i]
<1> DEFINE a == SubSeq(r, o + 1, Len(r))
<1>1. Len(r) \in Nat
  BY LenProperties
<1>2. a \in Seq(Byte) /\ Len(a) = Len(r) - o /\ \A i \in 1 .. Len(r) - o : a[i] = r[o + i]
  BY <1>1, Piece
<1> HIDE DEF a
<1>3. /\ a \o q \in Seq(Byte) /\ Len(a \o q) = Len(a) + Len(q) /\ Len(q) \in Nat
      /\ \A i \in 1 .. Len(a) : (a \o q)[i] = a[i]
  BY <1>2, Joined
<1> QED BY <1>1, <1>2, <1>3 DEF a

LEMMA UnreadAdvances ==
    ASSUME NEW r \in Seq(Byte), NEW q \in Seq(Byte), NEW o \in Nat, o <= Len(r),
           NEW d \in Nat, o + d <= Len(r)
    PROVE  LET u == SubSeq(r, o + 1, Len(r)) \o q
           IN  SubSeq(r, o + d + 1, Len(r)) \o q = SubSeq(u, d + 1, Len(u))
<1> DEFINE a == SubSeq(r, o + 1, Len(r))
           b == SubSeq(r, o + d + 1, Len(r))
           u == a \o q
           v == SubSeq(u, d + 1, Len(u))
<1>1. Len(r) \in Nat /\ Len(q) \in Nat /\ o + d \in Nat
  BY LenProperties
<1>2. a \in Seq(Byte) /\ Len(a) = Len(r) - o /\ \A i \in 1 .. Len(r) - o : a[i] = r[o + i]
  BY <1>1, Piece
<1>3. b \in Seq(Byte) /\ Len(b) = Len(r) - (o + d)
      /\ \A i \in 1 .. Len(r) - (o + d) : b[i] = r[(o + d) + i]
  BY <1>1, Piece
<1> HIDE DEF a, b
<1>4. /\ u \in Seq(Byte) /\ Len(u) = Len(a) + Len(q)
      /\ \A i \in 1 .. Len(a) : u[i] = a[i]
      /\ \A i \in 1 .. Len(q) : u[Len(a) + i] = q[i]
  BY <1>2, Joined
<1> HIDE DEF u
<1>5. Len(u) \in Nat /\ d <= Len(u)
  BY <1>1, <1>2, <1>4
<1>6. v \in Seq(Byte) /\ Len(v) = Len(u) - d /\ \A i \in 1 .. Len(u) - d : v[i] = u[d + i]
  BY <1>4, <1>5, Piece
<1> HIDE DEF v
<1>7. /\ b \o q \in Seq(Byte) /\ Len(b \o q) = Len(b) + Len(q)
      /\ \A i \in 1 .. Len(b) + Len(q) : (b \o q)[i] = IF i <= Len(b) THEN b[i] ELSE q[i - Len(b)]
  BY <1>3, ConcatProperties
<1>8. Len(b \o q) = Len(v)
  BY <1>1, <1>2, <1>3, <1>4, <1>6, <1>7
<1>9. ASSUME NEW i \in 1 .. Len(b \o q) PROVE (b \o q)[i] = v[i]
  <2>1. i \in 1 .. Len(b) + Len(q) /\ i \in 1 .. Len(u) - d /\ v[i] = u[d + i]
    BY <1>6, <1>7, <1>8
  <2>2. CASE i <= Len(b)
    <3>1. i \in 1 .. Len(r) - (o + d) /\ d + i \in 1 .. Len(r) - o /\ o + (d + i) = (o + d) + i
      BY <1>1, <1>3, <2>1, <2>2
    <3>2. (b \o q)[i] = b[i] /\ b[i] = r[(o + d) + i]
      BY <1>3, <1>7, <2>1, <2>2, <3>1
    <3>3. u[d + i] = a[d + i] /\ a[d + i] = r[o + (d + i)]
      BY <1>2, <1>4, <3>1
    <3> QED BY <2>1, <3>1, <3>2, <3>3
  <2>3. CASE ~(i <= Len(b))
    <3>1. /\ i - Len(b) \in 1 .. Len(q) /\ Len(a) + (i - Len(b)) = d + i
      BY <1>1, <1>2, <1>3, <2>1, <2>3
    <3>2. (b \o q)[i] = q[i - Len(b)]
      BY <1>7, <2>1, <2>3
    <3>3. u[d + i] = q[i - Len(b)]
      BY <1>4, <3>1
    <3> QED BY <2>1, <3>2, <3>3
  <2> QED BY <2>2, <2>3
<1>10. b \o q = v
  BY <1>6, <1>7, <1>8, <1>9, SameBytes
<1> QED BY <1>10 DEF a, b, u, v

\* The header of the first message is read as it was written.
LEMMA NextHeaderByte ==
    ASSUME Typed, InStep, Looping, pos < 4
    PROVE  /\ Len(received) < Len(sent) /\ Len(received) \in Nat
           /\ sent[Len(received) + 1] \in Sent
           /\ rb[off + 1] = Header(sent[Len(received) + 1].opCode, sent[Len(received) + 1].length)[pos + 1]
<1> DEFINE n == Len(received)
           m == sent[n + 1]
<1>1. rb \in Seq(Byte) /\ pipe \in Seq(Byte) /\ off \in Nat /\ pos \in Nat /\ sent \in Seq(Sent)
      /\ n \in Nat /\ Len(sent) \in Nat
  BY LenProperties DEF Typed
<1>2. reading /\ off < Len(rb) /\ Pos = pos
  BY DEF Looping, Pos
<1>3. off <= Len(rb) /\ Len(rb) \in Nat
  BY <1>1, <1>2, LenProperties
<1>4. /\ Unread \in Seq(Byte) /\ Len(Unread) = (Len(rb) - off) + Len(pipe) /\ Len(pipe) \in Nat
      /\ \A i \in 1 .. Len(rb) - off : Unread[i] = rb[off + i]
  BY <1>1, <1>3, UnreadOf DEF Unread
<1>5. Layout(Unread, pos, n, sent)
  BY <1>2 DEF InStep, InLine
<1>6. n <= Len(sent) /\ (n = Len(sent) => Len(Unread) = 0) /\ (n < Len(sent) => Lies(Unread, 0 - pos, m))
  BY <1>1, <1>4, <1>5, LayoutRead DEF Layout
<1>7. n < Len(sent)
  BY <1>1, <1>2, <1>3, <1>4, <1>6
<1>8. m \in Sent
  <2>1. n + 1 \in 1 .. Len(sent)
    BY <1>1, <1>7
  <2> QED BY <1>1, <2>1, ElementOfSeq
<1>9. rb[off + 1] = Header(m.opCode, m.length)[pos + 1]
  <2>1. pos + 1 \in 1 .. 4 /\ 0 - pos + (pos + 1) = 1 /\ 1 \in 1 .. Len(rb) - off
    BY <1>1, <1>2, <1>3
  <2>2. 0 - pos + (pos + 1) > 0
    BY <2>1
  <2>3. Unread[0 - pos + (pos + 1)] = Header(m.opCode, m.length)[pos + 1]
    BY <1>6, <1>7, <2>1, <2>2 DEF Lies
  <2> QED BY <1>4, <2>1, <2>3
<1> QED BY <1>1, <1>7, <1>8, <1>9

\* Of the first message the next d bytes of the payload lie in the chunk.
LEMMA NextPayload ==
    ASSUME Typed, InStep, Looping, pos >= 4, NEW d \in Nat, d <= Left, d <= ToRead
    PROVE  LET m == sent[Len(received) + 1] IN
           /\ Len(received) < Len(sent) /\ Len(received) \in Nat /\ m \in Sent
           /\ message.threadId = Id % Base /\ message.opCode = m.opCode /\ message.length = m.length
           /\ ToRead = m.length - (pos - 4) /\ pos - 4 \in Nat
           /\ Bytes(off, d) \in Seq(Byte) /\ off + d <= Len(rb)
           /\ Ascii(m) => Bytes(off, d) = SubSeq(m.bytes, pos - 4 + 1, pos - 4 + d)
           /\ (m.opCode # Block /\ Ascii(m)) => Taken(d) = SubSeq(m.bytes, 1, pos - 4 + d)
<1> DEFINE n == Len(received)
           m == sent[n + 1]
           c == Bytes(off, d)
<1>1. rb \in Seq(Byte) /\ pipe \in Seq(Byte) /\ off \in Nat /\ pos \in Nat /\ sent \in Seq(Sent)
      /\ n \in Nat /\ Len(sent) \in Nat /\ Len(rb) \in Nat
  BY LenProperties DEF Typed
<1>2. reading /\ off < Len(rb) /\ Pos = pos
  BY DEF Looping, Pos
<1>3. /\ Unread \in Seq(Byte) /\ Len(Unread) = (Len(rb) - off) + Len(pipe) /\ Len(pipe) \in Nat
      /\ \A i \in 1 .. Len(rb) - off : Unread[i] = rb[off + i]
  <2>1. off <= Len(rb)
    BY <1>1, <1>2
  <2> QED BY <1>1, <2>1, UnreadOf DEF Unread
<1>4. Layout(Unread, pos, n, sent)
  BY <1>2 DEF InStep, InLine
<1>5. /\ n < Len(sent) /\ message.threadId = Id % Base
      /\ message.opCode = m.opCode /\ message.length = m.length
      /\ (m.opCode # Block /\ Ascii(m)) => message.payload = SubSeq(m.bytes, 1, pos - 4)
  BY <1>1, <1>2 DEF InStep, InHand
<1>6. m \in Sent
  <2>1. n + 1 \in 1 .. Len(sent)
    BY <1>1, <1>5
  <2> QED BY <1>1, <2>1, ElementOfSeq
<1>7. m.length \in Nat /\ m.bytes \in Seq(Byte)
  BY <1>6, SentType
<1>8. ToRead = m.length - (pos - 4) /\ pos - 4 \in Nat
  BY <1>1, <1>5 DEF ToRead
<1>9. Lies(Unread, 0 - pos, m)
  BY <1>1, <1>3, <1>4, <1>5, LayoutRead
<1> HIDE DEF m, n
<1>10. off + d <= Len(rb) /\ c = SubSeq(rb, off + 1, off + d)
  <2>1. off + d <= Len(rb)
    BY <1>1 DEF Left
  <2> QED BY <2>1 DEF Bytes
<1>11. c \in Seq(Byte) /\ Len(c) = d /\ \A i \in 1 .. d : c[i] = rb[off + i]
  <2>1. /\ SubSeq(rb, off + 1, off + d) \in Seq(Byte)
        /\ Len(SubSeq(rb, off + 1, off + d)) = (off + d) - off
        /\ \A i \in 1 .. (off + d) - off : SubSeq(rb, off + 1, off + d)[i] = rb[off + i]
    <3>1. off + d \in Nat /\ off <= off + d
      BY <1>1
    <3> QED BY <1>1, <1>10, <3>1, Piece
  <2>2. (off + d) - off = d
    BY <1>1
  <2> QED BY <1>10, <2>1, <2>2
<1> HIDE DEF c
<1>12. ASSUME Ascii(m) PROVE c = SubSeq(m.bytes, pos - 4 + 1, pos - 4 + d)
  <2> DEFINE e == SubSeq(m.bytes, pos - 4 + 1, pos - 4 + d)
  <2>1. Len(m.bytes) = m.length /\ pos - 4 + d <= m.length /\ pos - 4 + d \in Nat /\ pos - 4 <= pos - 4 + d
    BY <1>7, <1>8, <1>12 DEF Ascii
  <2>2. (pos - 4 + d) - (pos - 4) = d
    BY <1>1
  <2>3. e \in Seq(Byte) /\ Len(e) = d /\ \A i \in 1 .. d : e[i] = m.bytes[pos - 4 + i]
    <3>1. /\ e \in Seq(Byte) /\ Len(e) = (pos - 4 + d) - (pos - 4)
          /\ \A i \in 1 .. (pos - 4 + d) - (pos - 4) : e[i] = m.bytes[pos - 4 + i]
      BY <1>7, <1>8, <2>1, Piece
    <3> QED BY <2>2, <3>1
  <2> HIDE DEF e
  <2>4. ASSUME NEW i \in 1 .. d PROVE c[i] = e[i]
    <3>1. /\ pos - 4 + i \in 1 .. m.length /\ 0 - pos + 4 + (pos - 4 + i) = i /\ i > 0
          /\ i \in 1 .. Len(rb) - off
      BY <1>1, <1>7, <1>8, <1>10, <2>1
    <3>2. Unread[0 - pos + 4 + (pos - 4 + i)] = m.bytes[pos - 4 + i]
      BY <1>9, <1>12, <3>1 DEF Lies
    <3> QED BY <1>3, <1>11, <2>3, <3>1, <3>2
  <2> QED BY <1>11, <2>3, <2>4, SameBytes DEF e
<1>13. ASSUME m.opCode # Block, Ascii(m) PROVE Taken(d) = SubSeq(m.bytes, 1, pos - 4 + d)
  <2>1. Len(m.bytes) = m.length /\ pos - 4 + d <= m.length /\ pos - 4 + d \in Nat /\ pos - 4 <= pos - 4 + d
    BY <1>7, <1>8, <1>13 DEF Ascii
  <2>2. Taken(d) = message.payload \o c
    BY <1>5, <1>13 DEF Taken, m, n, c
  <2>3. message.payload = SubSeq(m.bytes, 1, pos - 4)
    BY <1>5, <1>13 DEF m, n
  <2>4. SubSeq(m.bytes, 0 + 1, pos - 4) \o SubSeq(m.bytes, pos - 4 + 1, pos - 4 + d)
           = SubSeq(m.bytes, 0 + 1, pos - 4 + d)
    <3> DEFINE x == pos - 4
               y == pos - 4 + d
    <3>1. x \in Nat /\ y \in Nat /\ 0 <= x /\ x <= y /\ y <= Len(m.bytes)
      BY <1>8, <2>1
    <3> HIDE DEF x, y
    <3>2. SubSeq(m.bytes, 0 + 1, x) \o SubSeq(m.bytes, x + 1, y) = SubSeq(m.bytes, 0 + 1, y)
      BY <1>7, <3>1, PiecesJoin
    <3> QED BY <3>2 DEF x, y
  <2>5. 0 + 1 = 1
    OBVIOUS
  <2> QED BY <1>12, <1>13, <2>2, <2>3, <2>4, <2>5
<1> QED BY <1>1, <1>5, <1>6, <1>8, <1>10, <1>11, <1>12, <1>13 DEF m, n, c

\* The message given to onMessage is the next one, and a block lies where
\* offset says.
LEMMA Delivers ==
    ASSUME Typed, BlocksWhole, InStep, ~desync, Looping, pos >= 4, ~Incomplete,
           received' = Append(received, Delivery), message' = Complete, sent' = sent
    PROVE  /\ ToRead \in Nat /\ ToRead <= Left /\ Len(received) < Len(sent)
           /\ pos + ToRead = 4 + sent[Len(received) + 1].length
           /\ Len(received') = Len(received) + 1
           /\ message' \in Message /\ received' \in Seq(Given)
           /\ Delivered' /\ BlockInPlace'
<1> DEFINE n == Len(received)
           m == sent[n + 1]
<1>1. /\ off \in Nat /\ pos \in Nat /\ Len(rb) \in Nat /\ message \in Message
      /\ received \in Seq(Given) /\ sent \in Seq(Sent) /\ n \in Nat /\ Len(sent) \in Nat
  BY LenProperties DEF Typed
<1>2. Len(received) < Len(sent) /\ message.length = m.length /\ (pos = 4 \/ pos - 4 < m.length)
  BY <1>1 DEF InStep, InHand, Looping, Pos
<1>3. m \in Sent /\ m.length \in Nat /\ m.bytes \in Seq(Byte)
  <2>1. n + 1 \in 1 .. Len(sent)
    BY <1>1, <1>2
  <2> QED BY <1>1, <2>1, ElementOfSeq, SentType
<1>4. ToRead = m.length - (pos - 4) /\ ToRead \in Nat
  BY <1>1, <1>2, <1>3 DEF ToRead
<1>5. ToRead <= Left
  BY <1>1, <1>4 DEF Incomplete, Left
<1>6. /\ message.threadId = Id % Base /\ message.opCode = m.opCode
      /\ Bytes(off, ToRead) \in Seq(Byte)
      /\ Ascii(m) => Bytes(off, ToRead) = SubSeq(m.bytes, pos - 4 + 1, pos - 4 + ToRead)
      /\ (m.opCode # Block /\ Ascii(m)) => Taken(ToRead) = SubSeq(m.bytes, 1, pos - 4 + ToRead)
  BY <1>4, <1>5, NextPayload
<1>7. pos - 4 + ToRead = m.length /\ pos + ToRead = 4 + m.length
  <2> DEFINE l == m.length
             t == ToRead
  <2>1. l \in Nat /\ t = l - (pos - 4)
    BY <1>3, <1>4
  <2> HIDE DEF l, t
  <2>2. pos - 4 + t = l /\ pos + t = 4 + l
    BY <1>1, <2>1
  <2> QED BY <2>2 DEF l, t
<1> HIDE DEF m
<1>8. SubSeq(m.bytes, 1, Len(m.bytes)) = m.bytes
  BY <1>3
<1>9. Taken(ToRead) \in Seq(Byte)
  BY <1>1, <1>6, ConcatProperties DEF Taken, Message
<1>10. Complete \in Message /\ Complete.threadId = message.threadId
       /\ Complete.opCode = message.opCode /\ Complete.length = message.length
       /\ (message.opCode # Block => Complete.payload = Taken(ToRead))
  <2>1. CASE message.opCode = Block
    <3>1. Complete = [message EXCEPT !.payload = <<>>, !.offset = off]
      BY <2>1 DEF Complete, Offset
    <3>2. <<>> \in Seq(Byte)
      OBVIOUS
    <3> QED BY <1>1, <2>1, <3>1, <3>2 DEF Message
  <2>2. CASE message.opCode # Block
    <3>1. Complete = [message EXCEPT !.payload = Taken(ToRead)]
      BY <2>2 DEF Complete
    <3> QED BY <1>1, <1>9, <2>2, <3>1 DEF Message
  <2> QED BY <2>1, <2>2
<1>11. Delivery \in Given /\ Delivery.message = Complete /\ Delivery.whole = (pos = 4)
       /\ Delivery.block = Bytes(off, ToRead)
  BY <1>6, <1>10 DEF Delivery, Given, Offset
<1>12. /\ received' \in Seq(Given) /\ Len(received') = n + 1
       /\ \A k \in 1 .. n : received'[k] = received[k]
       /\ received'[n + 1] = Delivery
  BY <1>1, <1>11, AppendProperties
<1>13. \A k \in 1 .. n + 1 : k \in 1 .. n \/ k = n + 1
  BY <1>1
<1>14. Delivered'
  <2>1. ASSUME NEW k \in 1 .. n + 1
        PROVE  /\ received'[k].message.threadId = Id % Base
               /\ received'[k].message.opCode = sent[k].opCode
               /\ received'[k].message.length = sent[k].length
               /\ (received'[k].message.opCode # Block /\ Ascii(sent[k]))
                     => received'[k].message.payload = sent[k].bytes
    <3>1. CASE k \in 1 .. n
      BY <1>12, <3>1 DEF InStep, Delivered
    <3>2. CASE k = n + 1
      <4>1. received'[k].message = Complete /\ sent[k] = m
        BY <1>11, <1>12, <3>2 DEF m
      <4>2. (m.opCode # Block /\ Ascii(m)) => Taken(ToRead) = m.bytes
        BY <1>6, <1>7, <1>8 DEF Ascii
      <4>3. message.length = m.length
        BY <1>2 DEF m
      <4> QED BY <1>6, <1>10, <4>1, <4>2, <4>3
    <3> QED BY <1>13, <3>1, <3>2
  <2>2. Len(received') <= Len(sent')
    BY <1>1, <1>2, <1>12
  <2> QED BY <1>12, <2>1, <2>2 DEF Delivered, Ascii
<1>15. BlockInPlace'
  <2> SUFFICES ASSUME NEW k \in 1 .. n + 1,
                      received'[k].message.opCode = Block, received'[k].whole
               PROVE  received'[k].block = sent[k].bytes
    BY <1>12 DEF BlockInPlace
  <2>1. CASE k \in 1 .. n
    BY <1>12, <2>1 DEF InStep, BlockInPlace
  <2>2. CASE k = n + 1
    <3>1. received'[k] = Delivery /\ sent[k] = m
      BY <1>12, <2>2 DEF m
    <3>2. m.opCode = Block /\ pos = 4
      BY <1>6, <1>10, <1>11, <3>1
    <3>3. Ascii(m)
      <4>1. n + 1 \in 1 .. Len(sent)
        BY <1>1, <1>2
      <4> QED BY <3>2, <4>1 DEF BlocksWhole, m
    <3>4. Bytes(off, ToRead) = SubSeq(m.bytes, 1, m.length)
      <4>1. pos - 4 + 1 = 1
        BY <3>2
      <4> QED BY <1>6, <1>7, <3>3, <4>1
    <3> QED BY <1>8, <1>11, <3>1, <3>3, <3>4 DEF Ascii
  <2> QED BY <1>13, <2>1, <2>2
<1> QED BY <1>2, <1>4, <1>5, <1>7, <1>10, <1>12, <1>14, <1>15 DEF m

-----------------------------------------------------------------------------
(* The invariant                                                           *)

LEMMA InitStep == Init => IInv
<1> SUFFICES ASSUME Init PROVE IInv
  OBVIOUS
<1>1. Typed
  <2>1. 0 \in Byte
    BY BaseFact DEF Byte
  <2>2. NoMessage \in Message
    BY DEF NoMessage, Message
  <2>3. wb \in [1 .. BufSize -> Byte]
    BY <2>1 DEF Init
  <2>4. sent \in Seq(Sent) /\ pipe \in Seq(Byte) /\ rb \in Seq(Byte) /\ received \in Seq(Given)
    BY DEF Init
  <2> QED BY <2>2, <2>3, <2>4 DEF Init, Typed
<1>2. BlocksWhole
  BY DEF Init, BlocksWhole
<1>3. InLine
  <2>1. Unread \in Seq(Byte) /\ Len(Unread) = 0
    <3>1. <<>> \in Seq(Byte) /\ Len(<<>>) = 0
      OBVIOUS
    <3>2. /\ SubSeq(<<>>, 0 + 1, Len(<<>>)) \o <<>> \in Seq(Byte)
          /\ Len(SubSeq(<<>>, 0 + 1, Len(<<>>)) \o <<>>) = (Len(<<>>) - 0) + Len(<<>>)
      BY <3>1, UnreadOf
    <3> QED BY <3>1, <3>2 DEF Init, Unread
  <2>2. Pos = 0 /\ sent = <<>> /\ Len(sent) = 0 /\ Len(received) = 0
    BY DEF Init, Pos
  <2> DEFINE at == [k \in 1 .. 1 |-> 0]
  <2>3. LayoutAt(at, Unread, 0, 0, sent)
    <3>1. at[0 + 1] = 0 - 0 /\ at[Len(sent) + 1] = Len(Unread)
      <4>1. at[1] = 0
        OBVIOUS
      <4> HIDE DEF at
      <4>2. 0 + 1 = 1 /\ Len(sent) + 1 = 1
        BY <2>2
      <4>3. at[0 + 1] = 0 /\ at[Len(sent) + 1] = 0
        BY <4>1, <4>2
      <4>4. 0 - 0 = 0
        OBVIOUS
      <4> QED BY <2>1, <4>3, <4>4
    <3>2. \A j, k \in 0 + 1 .. Len(sent) + 1 : ~(j < k)
      BY <2>2
    <3>3. 0 + 1 .. Len(sent) = {}
      BY <2>2
    <3> QED BY <3>1, <3>2, <3>3 DEF LayoutAt
  <2>4. at \in [1 .. Len(sent) + 1 -> Int]
    BY <2>2
  <2> QED BY <2>2, <2>3, <2>4 DEF InLine, Layout
<1>4. Idle /\ InHand /\ Delivered /\ BlockInPlace
  BY DEF Init, Idle, InHand, Pos, Delivered, BlockInPlace
<1> QED BY <1>1, <1>2, <1>3, <1>4 DEF IInv, InStep

\* Parser.write of m.
LEMMA Sends ==
    ASSUME IInv, ~desync, NEW m \in Sent, NEW data \in Seq(Byte),
           m.length + 4 <= BufSize, Len(data) <= m.length, Ascii(m) => data = m.bytes,
           m.opCode = Block => Ascii(m),
           Transmit(m.opCode, m.length, data), sent' = Append(sent, m), UNCHANGED receiverVars
    PROVE  IInv'
<1> DEFINE n == Len(received)
           s == Len(sent)
<1>1. Typed /\ BlocksWhole /\ InStep
  BY DEF IInv
<1>2. /\ sent \in Seq(Sent) /\ n \in Nat /\ s \in Nat /\ rb \in Seq(Byte) /\ pipe \in Seq(Byte)
      /\ off \in Nat /\ Pos \in Nat /\ Len(rb) \in Nat
  BY <1>1, LenProperties DEF Typed, Pos
<1>3. /\ sent' \in Seq(Sent) /\ Len(sent') = s + 1 /\ sent'[s + 1] = m
      /\ \A k \in 1 .. s : sent'[k] = sent[k]
  BY <1>2, AppendProperties
<1>4. UNCHANGED <<rb, off, reading, position, pos, message, received, desync>> /\ Pos' = Pos
  BY DEF receiverVars, Pos
<1>5. wb' \in [1 .. BufSize -> Byte]
  BY <1>1, FrameWritten
<1>6. PICK frame \in Seq(Byte) :
          pipe' = pipe \o frame /\ Len(frame) = m.length + 4 /\ Lies(frame, 0, m)
  BY <1>1, FrameWritten
<1>7. Typed'
  <2>1. pipe' \in Seq(Byte)
    BY <1>2, <1>6, Joined
  <2> QED BY <1>1, <1>3, <1>4, <1>5, <2>1 DEF Typed
<1>8. BlocksWhole'
  <2>1. \A k \in 1 .. s + 1 : k \in 1 .. s \/ k = s + 1
    BY <1>2
  <2> QED BY <1>1, <1>3, <2>1 DEF BlocksWhole, Ascii
<1>9. off <= Len(rb) /\ Idle'
  <2>1. off <= Len(rb)
    BY <1>1, <1>2 DEF InStep, Idle
  <2> QED BY <1>1, <1>4, <2>1 DEF InStep, Idle
<1>10. Unread \in Seq(Byte) /\ Unread' = Unread \o frame
  <2>1. Unread \in Seq(Byte) /\ SubSeq(rb, off + 1, Len(rb)) \in Seq(Byte)
    BY <1>2, <1>9, UnreadOf, Piece DEF Unread
  <2>2. Unread' = SubSeq(rb, off + 1, Len(rb)) \o (pipe \o frame)
    BY <1>4, <1>6 DEF Unread
  <2> DEFINE a == SubSeq(rb, off + 1, Len(rb))
  <2>3. a \in Seq(Byte)
    BY <2>1
  <2> HIDE DEF a
  <2>4. (a \o pipe) \o frame = a \o (pipe \o frame)
    BY <1>2, <1>6, <2>3, JoinedTwice
  <2> QED BY <2>1, <2>2, <2>4 DEF Unread, a
<1>11. Layout(Unread, Pos, n, sent)
  BY <1>1 DEF InStep, InLine
<1>12. InLine'
  <2>1. Layout(Unread \o frame, Pos, n, Append(sent, m))
    BY <1>2, <1>6, <1>10, <1>11, LayoutGrows
  <2> QED BY <1>4, <1>10, <2>1 DEF InLine
<1>13. n <= s /\ (n = s => Pos = 0)
  <2>1. n <= s
    BY <1>11 DEF Layout
  <2>2. Unread \in Seq(Byte)
    BY <1>10
  <2>3. Len(received) = Len(sent) => Pos = 0 /\ Len(Unread) = 0
    BY <1>2, <1>11, <2>2, LayoutRead
  <2> QED BY <2>1, <2>3
<1>14. InHand'
  <2>1. CASE n = s
    <3>1. Pos = 0
      BY <1>13, <2>1
    <3> QED BY <1>4, <3>1 DEF InHand
  <2>2. CASE n # s
    <3>1. n < s /\ n + 1 \in 1 .. s /\ n < s + 1
      BY <1>2, <1>13, <2>2
    <3>2. sent'[n + 1] = sent[n + 1]
      BY <1>3, <3>1
    <3> QED BY <1>1, <1>3, <1>4, <3>1, <3>2 DEF InStep, InHand, Ascii
  <2> QED BY <2>1, <2>2
<1>15. Delivered' /\ BlockInPlace'
  <2>1. Len(received) <= Len(sent) /\ Len(sent) <= Len(sent')
    BY <1>2, <1>3, <1>13
  <2> QED BY <1>1, <1>3, <1>4, <1>7, <2>1, HistoryKept DEF InStep
<1> QED BY <1>7, <1>8, <1>9, <1>12, <1>14, <1>15 DEF IInv, InStep

LEMMA SendTextStep ==
    ASSUME IInv, ~desync, NEW t \in Texts, NEW opCode \in {Json, String}, SendText(opCode, t)
    PROVE  IInv'
<1> DEFINE m == [opCode |-> opCode, length |-> t.length, bytes |-> t.bytes]
           data == SubSeq(t.bytes, 1, t.fits)
<1>1. /\ t \in Text /\ t.fits <= t.length /\ t.length <= Len(t.bytes)
      /\ t.length = Len(t.bytes) => t.fits = t.length
      /\ t.length + 4 <= BufSize /\ t.length < Base * Base
  BY IpcAssumption
<1>2. t.length \in Nat /\ t.bytes \in Seq(Byte) /\ t.fits \in Nat /\ Len(t.bytes) \in Nat
  BY <1>1, LenProperties DEF Text
<1>3. t.length \in 0 .. Base * Base - 1
  <2>1. \A x \in Nat, y \in Int : x < y => x \in 0 .. y - 1
    OBVIOUS
  <2>2. Base * Base \in Int
    BY BaseFact
  <2> QED BY <1>1, <1>2, <2>1, <2>2
<1>4. m \in Sent /\ m.length = t.length /\ m.opCode = opCode /\ m.bytes = t.bytes /\ m.opCode # Block
  BY <1>2, <1>3 DEF Sent, Json, String, Block
<1>5. /\ data \in Seq(Byte) /\ Len(data) = t.fits
      /\ t.length = Len(t.bytes) => data = t.bytes
  <2>1. t.fits <= Len(t.bytes)
    BY <1>1, <1>2
  <2>2. /\ SubSeq(t.bytes, 0 + 1, t.fits) \in Seq(Byte)
        /\ Len(SubSeq(t.bytes, 0 + 1, t.fits)) = t.fits - 0
    BY <1>2, <2>1, Piece
  <2>3. SubSeq(t.bytes, 1, Len(t.bytes)) = t.bytes
    BY <1>2
  <2>4. 0 + 1 = 1 /\ t.fits - 0 = t.fits
    BY <1>2
  <2> QED BY <1>1, <2>2, <2>3, <2>4
<1>6. Transmit(opCode, t.length, data) /\ sent' = Append(sent, m) /\ UNCHANGED receiverVars
  BY DEF SendText
<1> HIDE DEF m, data
<1>7. Ascii(m) => data = m.bytes
  BY <1>4, <1>5 DEF Ascii
<1>8. m.length + 4 <= BufSize /\ Len(data) <= m.length
  BY <1>1, <1>4, <1>5
<1> QED BY <1>4, <1>5, <1>6, <1>7, <1>8, Sends

LEMMA SendBufferStep ==
    ASSUME IInv, ~desync, NEW b \in Blocks, SendBuffer(b)
    PROVE  IInv'
<1> DEFINE m == [opCode |-> Block, length |-> Len(b), bytes |-> b]
<1>1. b \in Seq(Byte) /\ Len(b) + 4 <= BufSize /\ Len(b) < Base * Base /\ Len(b) \in Nat
  BY IpcAssumption, LenProperties
<1>2. Len(b) \in 0 .. Base * Base - 1
  <2>1. \A x \in Nat, y \in Int : x < y => x \in 0 .. y - 1
    OBVIOUS
  <2>2. Base * Base \in Int
    BY BaseFact
  <2> QED BY <1>1, <2>1, <2>2
<1>3. m \in Sent /\ m.length = Len(b) /\ m.opCode = Block /\ m.bytes = b
  BY <1>1, <1>2 DEF Sent
<1>4. Transmit(Block, Len(b), b) /\ sent' = Append(sent, m) /\ UNCHANGED receiverVars
  BY DEF SendBuffer
<1> HIDE DEF m
<1>5. Len(b) <= m.length /\ m.length + 4 <= BufSize /\ Ascii(m)
  BY <1>1, <1>3 DEF Ascii
<1> QED BY <1>1, <1>3, <1>4, <1>5, Sends

LEMMA OnReadStep ==
    ASSUME IInv, ~desync, NEW i \in 1 .. BufSize, OnRead(i)
    PROVE  IInv'
<1>1. Typed /\ BlocksWhole /\ InStep
  BY DEF IInv
<1>2. /\ pipe \in Seq(Byte) /\ Len(pipe) \in Nat /\ i \in Nat /\ i <= Len(pipe) /\ 0 + 1 = 1
  BY <1>1, IpcAssumption, LenProperties DEF Typed, OnRead
<1>3. /\ rb' = SubSeq(pipe, 0 + 1, i) /\ pipe' = SubSeq(pipe, i + 1, Len(pipe)) /\ off' = 0
      /\ pos' = position /\ reading' = TRUE /\ ~reading /\ Pos' = Pos
      /\ UNCHANGED <<wb, sent, position, message, received, desync>>
  BY <1>2 DEF OnRead, senderVars, Pos
<1>4. /\ rb' \in Seq(Byte) /\ Len(rb') = i - 0 /\ pipe' \in Seq(Byte)
  BY <1>2, <1>3, Piece
<1>5. Typed'
  BY <1>1, <1>3, <1>4 DEF Typed
<1>6. Unread' = Unread
  <2>1. rb = <<>> /\ off = 0
    BY <1>1, <1>3 DEF InStep, Idle
  <2>2. SubSeq(<<>>, 0 + 1, Len(<<>>)) = <<>> /\ <<>> \o pipe = pipe
    BY <1>2
  <2>3. Unread = pipe
    BY <2>1, <2>2 DEF Unread
  <2>4. SubSeq(rb', 0 + 1, Len(rb')) = rb'
    BY <1>4
  <2>5. SubSeq(pipe, 0 + 1, i) \o SubSeq(pipe, i + 1, Len(pipe)) = SubSeq(pipe, 0 + 1, Len(pipe))
    BY <1>2, PiecesJoin
  <2>6. SubSeq(pipe, 0 + 1, Len(pipe)) = pipe
    BY <1>2
  <2> QED BY <1>3, <2>3, <2>4, <2>5, <2>6 DEF Unread
<1>7. InLine' /\ InHand'
  BY <1>1, <1>3, <1>6 DEF InStep, InLine, InHand, Ascii
<1>8. Idle'
  BY <1>2, <1>3, <1>4 DEF Idle
<1>9. BlocksWhole' /\ Delivered' /\ BlockInPlace'
  BY <1>1, <1>3 DEF InStep, BlocksWhole, Delivered, BlockInPlace, Ascii
<1> QED BY <1>5, <1>7, <1>8, <1>9 DEF IInv, InStep

\* With d bytes of the chunk read.
LEMMA Advances ==
    ASSUME Typed, InStep, reading, NEW d \in Nat, off + d <= Len(rb)
    PROVE  LET u == SubSeq(rb, off + d + 1, Len(rb)) \o pipe
           IN  u \in Seq(Byte) /\ Layout(u, pos + d, Len(received), sent)
<1>1. rb \in Seq(Byte) /\ pipe \in Seq(Byte) /\ off \in Nat /\ Len(rb) \in Nat /\ sent \in Seq(Sent)
      /\ pos \in Nat /\ Len(received) \in Nat
  BY LenProperties DEF Typed
<1>2. off <= Len(rb) /\ off + d \in Nat
  BY <1>1
<1> DEFINE u == SubSeq(rb, off + d + 1, Len(rb)) \o pipe
<1>3. /\ Unread \in Seq(Byte) /\ Len(Unread) = (Len(rb) - off) + Len(pipe) /\ Len(pipe) \in Nat
  BY <1>1, <1>2, UnreadOf DEF Unread
<1>4. d \in 0 .. Len(Unread)
  BY <1>1, <1>3
<1>5. u = SubSeq(Unread, d + 1, Len(Unread)) /\ u \in Seq(Byte)
  <2>1. u = SubSeq(Unread, d + 1, Len(Unread))
    BY <1>1, <1>2, UnreadAdvances DEF Unread
  <2>2. d <= Len(Unread) /\ Len(Unread) \in Nat
    BY <1>1, <1>3
  <2> HIDE DEF u
  <2> QED BY <1>3, <2>1, <2>2, Piece
<1>6. Layout(Unread, pos, Len(received), sent)
  BY DEF InStep, InLine, Pos
<1>7. Layout(u, pos + d, Len(received), sent)
  BY <1>1, <1>3, <1>4, <1>5, <1>6, LayoutAdvances
<1> QED BY <1>5, <1>7

LEMMA ReadOn ==
    ASSUME Typed, InStep, reading, reading', NEW d \in Nat, off + d <= Len(rb),
           off' = off + d, pos' = pos + d, UNCHANGED <<sent, pipe, rb, received>>
    PROVE  InLine' /\ Idle'
<1>1. Pos' = pos + d
  BY DEF Pos
<1>2. Idle'
  BY DEF Idle
<1> QED BY <1>1, <1>2, Advances DEF InLine, Unread

LEMMA ReadHeaderStep ==
    ASSUME IInv, ~desync, ReadHeader
    PROVE  IInv'
<1> DEFINE n == Len(received)
           m == sent[n + 1]
           b == rb[off + 1]
<1>1. Typed /\ BlocksWhole /\ InStep
  BY DEF IInv
<1>2. /\ Looping /\ pos < 4 /\ pos \in Nat /\ off \in Nat /\ rb \in Seq(Byte) /\ Len(rb) \in Nat
      /\ message \in Message /\ reading /\ off < Len(rb) /\ Pos = pos
  BY <1>1, LenProperties DEF ReadHeader, Looping, Typed, Pos
<1>3. /\ pos' = pos + 1 /\ off' = off + 1 /\ reading' = reading
      /\ UNCHANGED <<wb, sent, pipe, rb, position, received, desync>>
  BY DEF ReadHeader, senderVars
<1>4. n < Len(sent) /\ n \in Nat /\ m \in Sent /\ b = Header(m.opCode, m.length)[pos + 1]
  BY <1>1, <1>2, NextHeaderByte
<1>5. b \in Nat
  <2>1. off + 1 \in 1 .. Len(rb)
    BY <1>2
  <2>2. b \in Byte
    BY <1>2, <2>1, ElementOfSeq
  <2> QED BY <2>2, BaseFact DEF Byte
<1>6. /\ m.opCode \in {Json, String, Block} /\ m.length \in 0 .. Base * Base - 1
      /\ m.length \in Nat /\ m.bytes \in Seq(Byte)
  BY <1>4, SentType
<1>7. pos = 0 \/ pos = 1 \/ pos = 2 \/ pos = 3
  BY <1>2
<1>8. /\ pos = 0 => message' = [message EXCEPT !.threadId = b]
      /\ pos = 1 => message' = [message EXCEPT !.opCode = b]
      /\ pos = 2 => message' = [message EXCEPT !.length = b * Base]
      /\ pos = 3 => message' = [message EXCEPT !.length = message.length + b, !.payload = <<>>]
  BY <1>7 DEF ReadHeader
<1>9. /\ pos = 0 => b = Id % Base
      /\ pos = 1 => b = m.opCode
      /\ pos = 2 => b = (m.length \div Base) % Base
      /\ pos = 3 => b = m.length % Base
  <2> DEFINE h == Header(m.opCode, m.length)
  <2>1. /\ h[1] = Id % Base /\ h[2] = m.opCode
        /\ h[3] = (m.length \div Base) % Base /\ h[4] = m.length % Base
    BY <1>6, HeaderType
  <2>2. b = h[pos + 1]
    BY <1>4
  <2> HIDE DEF h
  <2>3. 0 + 1 = 1 /\ 1 + 1 = 2 /\ 2 + 1 = 3 /\ 3 + 1 = 4
    OBVIOUS
  <2> QED BY <2>1, <2>2, <2>3
<1> HIDE DEF b, m, n
<1>10. message' \in Message
  <2>1. b * Base \in Nat
    BY <1>5, BaseFact
  <2>2. message.length + b \in Nat /\ <<>> \in Seq(Byte)
    BY <1>2, <1>5 DEF Message
  <2>3. CASE pos = 0
    BY <1>2, <1>5, <1>8, <2>3 DEF Message
  <2>4. CASE pos = 1
    BY <1>2, <1>5, <1>8, <2>4 DEF Message
  <2>5. CASE pos = 2
    BY <1>2, <1>8, <2>1, <2>5 DEF Message
  <2>6. CASE pos = 3
    BY <1>2, <1>8, <2>2, <2>6 DEF Message
  <2> QED BY <1>7, <2>3, <2>4, <2>5, <2>6
<1>11. Typed'
  BY <1>1, <1>2, <1>3, <1>10 DEF Typed
<1>12. InLine' /\ Idle'
  <2>1. off + 1 <= Len(rb)
    BY <1>2
  <2> QED BY <1>1, <1>2, <1>3, <2>1, ReadOn
<1>13. InHand'
  <2>1. Pos' = pos + 1 /\ Len(received') = n /\ sent'[n + 1] = m /\ Len(sent') = Len(sent)
    BY <1>2, <1>3 DEF Pos, n, m
  <2>2. /\ pos >= 1 => message.threadId = Id % Base
        /\ pos >= 2 => message.opCode = m.opCode
        /\ pos = 3 => message.length = ((m.length \div Base) % Base) * Base
    BY <1>1, <1>2 DEF InStep, InHand, m, n
  <2>3. message'.threadId = Id % Base
    <3>1. CASE pos = 0
      BY <1>2, <1>8, <1>9, <3>1 DEF Message
    <3>2. CASE pos # 0
      <4>1. message'.threadId = message.threadId
        BY <1>2, <1>7, <1>8, <3>2 DEF Message
      <4>2. pos >= 1
        BY <1>2, <3>2
      <4> QED BY <2>2, <4>1, <4>2
    <3> QED BY <3>1, <3>2
  <2>4. pos >= 1 => message'.opCode = m.opCode
    <3>1. CASE pos = 1
      BY <1>2, <1>8, <1>9, <3>1 DEF Message
    <3>2. CASE pos = 2 \/ pos = 3
      <4>1. message'.opCode = message.opCode
        BY <1>2, <1>8, <3>2 DEF Message
      <4>2. pos >= 2
        BY <3>2
      <4> QED BY <2>2, <4>1, <4>2
    <3>3. pos = 0 => ~(pos >= 1)
      OBVIOUS
    <3> QED BY <1>7, <3>1, <3>2, <3>3
  <2>5. pos = 2 => message'.length = ((m.length \div Base) % Base) * Base
    BY <1>2, <1>8, <1>9 DEF Message
  <2>6. pos = 3 => message'.length = m.length /\ message'.payload = <<>>
    <3> SUFFICES ASSUME pos = 3 PROVE message'.length = m.length /\ message'.payload = <<>>
      OBVIOUS
    <3>1. message'.length = message.length + b /\ message'.payload = <<>>
      BY <1>2, <1>8 DEF Message
    <3>2. message.length + b = ((m.length \div Base) % Base) * Base + (m.length % Base)
      BY <1>9, <2>2
    <3> QED BY <1>6, <3>1, <3>2, TwoBytes
  <2>7. SubSeq(m.bytes, 1, 0) = <<>>
    BY <1>6
  <2>8. /\ pos + 1 >= 2 => pos >= 1
        /\ pos + 1 = 3 => pos = 2
        /\ pos + 1 >= 4 => pos = 3 /\ pos + 1 = 4 /\ (pos + 1) - 4 = 0
    BY <1>2
  <2> QED BY <1>4, <2>1, <2>3, <2>4, <2>5, <2>6, <2>7, <2>8 DEF InHand, Ascii
<1>14. BlocksWhole' /\ Delivered' /\ BlockInPlace'
  BY <1>1, <1>3 DEF InStep, BlocksWhole, Delivered, BlockInPlace, Ascii
<1> QED BY <1>11, <1>12, <1>13, <1>14 DEF IInv, InStep

LEMMA ReadPartStep ==
    ASSUME IInv, ~desync, ReadPart
    PROVE  IInv'
<1> DEFINE n == Len(received)
           m == sent[n + 1]
<1>1. Typed /\ BlocksWhole /\ InStep
  BY DEF IInv
<1>2. /\ Looping /\ pos >= 4 /\ Incomplete /\ pos \in Nat /\ off \in Nat /\ rb \in Seq(Byte)
      /\ Len(rb) \in Nat /\ message \in Message /\ reading /\ off < Len(rb) /\ Pos = pos
  BY <1>1, LenProperties DEF ReadPart, Looping, Typed, Pos
<1>3. /\ message' = [message EXCEPT !.payload = Taken(Left)]
      /\ pos' = pos + Left /\ off' = Len(rb) /\ reading' = reading
      /\ UNCHANGED <<wb, sent, pipe, rb, position, received, desync>>
  BY DEF ReadPart, senderVars, PositionAfter
<1>4. Left \in Nat /\ Left > 0 /\ off + Left = Len(rb)
  BY <1>2 DEF Left
<1>5. Left < ToRead
  BY <1>2 DEF Incomplete, Left, ToRead, Message
<1>6. /\ n < Len(sent) /\ n \in Nat /\ m \in Sent
      /\ message.threadId = Id % Base /\ message.opCode = m.opCode /\ message.length = m.length
      /\ ToRead = m.length - (pos - 4)
      /\ Bytes(off, Left) \in Seq(Byte)
      /\ (m.opCode # Block /\ Ascii(m)) => Taken(Left) = SubSeq(m.bytes, 1, pos - 4 + Left)
  <2>1. Left <= Left /\ Left <= ToRead
    BY <1>2, <1>4, <1>5 DEF ToRead, Message
  <2> QED BY <1>1, <1>2, <1>4, <2>1, NextPayload
<1>7. m.length \in Nat
  BY <1>6, SentType
<1> HIDE DEF m, n
<1>8. message' \in Message /\ message'.payload = Taken(Left) /\ message'.threadId = message.threadId
      /\ message'.opCode = message.opCode /\ message'.length = message.length
  <2>1. Taken(Left) \in Seq(Byte)
    BY <1>2, <1>6, ConcatProperties DEF Taken, Message
  <2> QED BY <1>2, <1>3, <2>1 DEF Message
<1>9. Typed'
  BY <1>1, <1>2, <1>3, <1>4, <1>8 DEF Typed
<1>10. InLine' /\ Idle'
  <2>1. off + Left <= Len(rb) /\ off' = off + Left
    BY <1>2, <1>3, <1>4
  <2> QED BY <1>1, <1>2, <1>3, <1>4, <2>1, ReadOn
<1>11. InHand'
  <2>1. Pos' = pos + Left /\ Len(received') = n /\ sent'[n + 1] = m /\ Len(sent') = Len(sent)
    BY <1>2, <1>3 DEF Pos, n, m
  <2>2. pos + Left > 4 /\ (pos + Left) - 4 < m.length /\ (pos + Left) - 4 = pos - 4 + Left
    BY <1>2, <1>4, <1>5, <1>6, <1>7
  <2>3. (m.opCode # Block /\ Ascii(m)) => message'.payload = SubSeq(m.bytes, 1, (pos + Left) - 4)
    BY <1>6, <1>8, <2>2
  <2>4. pos + Left # 3
    BY <1>2, <1>4
  <2> QED BY <1>6, <1>8, <2>1, <2>2, <2>3, <2>4 DEF InHand, Ascii
<1>12. BlocksWhole' /\ Delivered' /\ BlockInPlace'
  BY <1>1, <1>3 DEF InStep, BlocksWhole, Delivered, BlockInPlace, Ascii
<1> QED BY <1>9, <1>10, <1>11, <1>12 DEF IInv, InStep

LEMMA ReadLastStep ==
    ASSUME IInv, ~desync, ReadLast
    PROVE  IInv'
<1> DEFINE n == Len(received)
           m == sent[n + 1]
<1>1. Typed /\ BlocksWhole /\ InStep
  BY DEF IInv
<1>2. /\ Looping /\ pos >= 4 /\ ~Incomplete /\ pos \in Nat /\ off \in Nat /\ rb \in Seq(Byte)
      /\ pipe \in Seq(Byte) /\ sent \in Seq(Sent) /\ n \in Nat /\ Len(sent) \in Nat
      /\ Len(rb) \in Nat /\ reading /\ off < Len(rb) /\ Pos = pos
  BY <1>1, LenProperties DEF ReadLast, Looping, Typed, Pos
<1>3. /\ message' = Complete /\ received' = Append(received, Delivery)
      /\ off' = off + ToRead /\ pos' = 0 /\ reading' = reading
      /\ UNCHANGED <<wb, sent, pipe, rb, position, desync>>
  BY DEF ReadLast, senderVars
<1>4. /\ ToRead \in Nat /\ ToRead <= Left /\ n < Len(sent) /\ pos + ToRead = 4 + m.length
      /\ Len(received') = n + 1 /\ message' \in Message /\ received' \in Seq(Given)
      /\ Delivered' /\ BlockInPlace'
  BY <1>1, <1>2, <1>3, Delivers
<1>5. off + ToRead <= Len(rb)
  BY <1>2, <1>4 DEF Left
<1>6. Typed'
  BY <1>1, <1>2, <1>3, <1>4 DEF Typed
<1>7. InLine'
  <2>1. PICK d \in Nat : d = ToRead
    BY <1>4
  <2>2. off + d <= Len(rb) /\ off' = off + d /\ pos + d \in Nat /\ pos + d = 4 + m.length
    BY <1>2, <1>3, <1>4, <1>5, <2>1
  <2>3. Unread' \in Seq(Byte) /\ Layout(Unread', pos + d, n, sent)
    BY <1>1, <1>2, <1>3, <2>2, Advances DEF Unread
  <2>4. Layout(Unread', 0, n + 1, sent)
    BY <1>2, <1>4, <2>2, <2>3, LayoutMovesOn
  <2> QED BY <1>2, <1>3, <1>4, <2>4 DEF InLine, Pos
<1>8. Idle' /\ InHand'
  BY <1>2, <1>3, <1>5 DEF Idle, InHand, Pos
<1>9. BlocksWhole'
  BY <1>1, <1>3 DEF BlocksWhole, Ascii
<1> QED BY <1>4, <1>6, <1>7, <1>8, <1>9 DEF IInv, InStep

\* The handler threw at the end of the chunk, in a frame that began in it: what
\* read() has not saved is as it would have been.
LEMMA HandlerThrowsStep ==
    ASSUME IInv, ~desync, HandlerThrows
    PROVE  IInv'
<1> DEFINE n == Len(received)
           m == sent[n + 1]
<1>1. Typed /\ BlocksWhole /\ InStep
  BY DEF IInv
<1>2. /\ Looping /\ pos >= 4 /\ ~Incomplete /\ pos \in Nat /\ off \in Nat /\ rb \in Seq(Byte)
      /\ pipe \in Seq(Byte) /\ sent \in Seq(Sent) /\ n \in Nat /\ Len(sent) \in Nat
      /\ Len(rb) \in Nat /\ reading /\ off < Len(rb) /\ Pos = pos
  BY <1>1, LenProperties DEF HandlerThrows, Looping, Typed, Pos
<1>3. /\ message' = Complete /\ received' = Append(received, Delivery)
      /\ desync' = (desync \/ position # 0 \/ ToRead < Left)
      /\ off' = 0 /\ rb' = <<>> /\ reading' = FALSE
      /\ UNCHANGED <<wb, sent, pipe, position, pos>>
  BY DEF HandlerThrows, senderVars
<1>4. /\ ToRead \in Nat /\ ToRead <= Left /\ n < Len(sent) /\ pos + ToRead = 4 + m.length
      /\ Len(received') = n + 1 /\ message' \in Message /\ received' \in Seq(Given)
      /\ Delivered' /\ BlockInPlace'
  BY <1>1, <1>2, <1>3, Delivers
<1>5. Typed'
  <2>1. desync' \in BOOLEAN /\ <<>> \in Seq(Byte)
    BY <1>3
  <2> QED BY <1>1, <1>3, <1>4, <2>1 DEF Typed
<1>6. BlocksWhole'
  BY <1>1, <1>3 DEF BlocksWhole, Ascii
<1>7. ASSUME ~desync' PROVE InStep'
  <2>1. PICK d \in Nat : d = ToRead
    BY <1>4
  <2>2. position = 0 /\ Pos' = 0 /\ off + d = Len(rb) /\ pos + d \in Nat /\ pos + d = 4 + m.length
    <3>1. position = 0 /\ ~(ToRead < Left)
      BY <1>3, <1>7
    <3>2. d = Len(rb) - off
      BY <1>2, <1>4, <2>1, <3>1 DEF Left
    <3> QED BY <1>2, <1>3, <1>4, <2>1, <3>1, <3>2 DEF Pos
  <2>3. InLine'
    <3>1. SubSeq(rb, Len(rb) + 1, Len(rb)) = <<>> /\ SubSeq(<<>>, 0 + 1, Len(<<>>)) = <<>>
      BY <1>2
    <3>2. Unread' = SubSeq(rb, off + d + 1, Len(rb)) \o pipe
      BY <1>3, <2>2, <3>1 DEF Unread
    <3>3. off + d <= Len(rb)
      BY <1>2, <2>2
    <3>4. Unread' \in Seq(Byte) /\ Layout(Unread', pos + d, n, sent)
      BY <1>1, <1>2, <3>2, <3>3, Advances
    <3>5. Layout(Unread', 0, n + 1, sent)
      BY <1>2, <1>4, <2>2, <3>4, LayoutMovesOn
    <3> QED BY <1>3, <1>4, <2>2, <3>5 DEF InLine
  <2>4. Idle' /\ InHand'
    BY <1>3, <2>2 DEF Idle, InHand
  <2> QED BY <1>4, <2>3, <2>4 DEF InStep
<1> QED BY <1>5, <1>6, <1>7 DEF IInv

LEMMA ReadReturnsStep ==
    ASSUME IInv, ~desync, ReadReturns
    PROVE  IInv'
<1>1. Typed /\ BlocksWhole /\ InStep
  BY DEF IInv
<1>2. /\ position' = pos /\ reading /\ ~reading' /\ rb' = <<>> /\ off' = 0 /\ off = Len(rb)
      /\ reading' = FALSE /\ Pos' = Pos
      /\ UNCHANGED <<wb, sent, pipe, pos, message, received, desync>>
  BY DEF ReadReturns, senderVars, Pos
<1>3. Typed'
  <2>1. <<>> \in Seq(Byte)
    OBVIOUS
  <2> QED BY <1>1, <1>2, <2>1 DEF Typed
<1>4. Unread' = Unread
  <2>1. rb \in Seq(Byte)
    BY <1>1 DEF Typed
  <2>2. SubSeq(rb, Len(rb) + 1, Len(rb)) = <<>> /\ SubSeq(<<>>, 0 + 1, Len(<<>>)) = <<>>
    BY <2>1
  <2> QED BY <1>2, <2>2 DEF Unread
<1>5. InLine' /\ InHand'
  BY <1>1, <1>2, <1>4 DEF InStep, InLine, InHand, Ascii
<1>6. Idle' /\ BlocksWhole' /\ Delivered' /\ BlockInPlace'
  BY <1>1, <1>2 DEF InStep, Idle, BlocksWhole, Delivered, BlockInPlace, Ascii
<1> QED BY <1>3, <1>5, <1>6 DEF IInv, InStep

LEMMA NextStep ==
    ASSUME IInv, [Next]_vars
    PROVE  IInv'
<1>1. CASE UNCHANGED vars
  <2>1. UNCHANGED <<wb, sent, pipe, rb, off, reading, position, pos, message, received, desync>>
    BY <1>1 DEF vars, senderVars, receiverVars
  <2>2. UNCHANGED <<Unread, Pos>>
    BY <2>1 DEF Unread, Pos
  <2>3. Typed' /\ BlocksWhole'
    BY <2>1 DEF IInv, Typed, BlocksWhole, Ascii
  <2>4. ASSUME ~desync PROVE InStep'
    BY <2>1, <2>2, <2>4
       DEF IInv, InStep, Idle, InLine, InHand, Delivered, BlockInPlace, Ascii
  <2> QED BY <2>1, <2>3, <2>4 DEF IInv
<1>2. CASE Next
  <2>1. ~desync
    BY <1>2 DEF Next
  <2>2. CASE Send
    BY <2>1, <2>2, SendTextStep, SendBufferStep DEF Send
  <2>3. CASE \E i \in 1 .. BufSize : OnRead(i)
    BY <2>1, <2>3, OnReadStep
  <2>4. CASE ReadHeader
    BY <2>1, <2>4, ReadHeaderStep
  <2>5. CASE ReadPart
    BY <2>1, <2>5, ReadPartStep
  <2>6. CASE ReadLast
    BY <2>1, <2>6, ReadLastStep
  <2>7. CASE HandlerThrows
    BY <2>1, <2>7, HandlerThrowsStep
  <2>8. CASE ReadReturns
    BY <2>1, <2>8, ReadReturnsStep
  <2> QED BY <1>2, <2>2, <2>3, <2>4, <2>5, <2>6, <2>7, <2>8 DEF Next
<1> QED BY <1>1, <1>2

\* With nothing on the way the last message of all is read but for its end.
LEMMA NothingWaits ==
    ASSUME IInv
    PROVE  Prompt
<1> DEFINE n == Len(received)
           m == sent[n + 1]
<1> SUFFICES ASSUME ~reading, pipe = <<>>, ~desync, NEW k \in n + 1 .. Len(sent)
             PROVE  k = Len(sent) /\ sent[k].length = 0
  BY DEF Prompt
<1>1. /\ sent \in Seq(Sent) /\ n \in Nat /\ Len(sent) \in Nat /\ position \in Nat
      /\ rb = <<>> /\ off = 0 /\ Pos = position
  BY LenProperties DEF IInv, Typed, InStep, Idle, Pos
<1>2. Unread \in Seq(Byte) /\ Len(Unread) = 0
  <2>1. SubSeq(<<>>, 0 + 1, Len(<<>>)) \o <<>> = <<>>
    OBVIOUS
  <2>2. <<>> \in Seq(Byte) /\ Len(<<>>) = 0
    OBVIOUS
  <2> QED BY <1>1, <2>1, <2>2 DEF Unread
<1>3. Layout(Unread, position, n, sent)
  BY <1>1 DEF IInv, InStep, InLine
<1>4. n < Len(sent)
  BY <1>1
<1>5. m \in Sent /\ m.length \in Nat
  <2>1. n + 1 \in 1 .. Len(sent)
    BY <1>1, <1>4
  <2> QED BY <1>1, <2>1, ElementOfSeq, SentType
<1>6. /\ 4 + m.length - position <= 0
      /\ 4 + m.length - position = 0 => n + 1 = Len(sent)
  <2>1. /\ 4 + sent[n + 1].length - position <= Len(Unread)
        /\ (n < Len(sent) /\ 4 + sent[n + 1].length - position = Len(Unread)) => n + 1 = Len(sent)
    <3> HIDE DEF n
    <3> DEFINE u == Unread
               p == position
               ms == sent
    <3>1. /\ u \in Seq(Byte) /\ p \in Nat /\ ms \in Seq(Sent) /\ n \in Nat
          /\ Layout(u, p, n, ms) /\ n < Len(ms)
      BY <1>1, <1>2, <1>3, <1>4
    <3> HIDE DEF u, p, ms
    <3>2. /\ n < Len(ms) => 4 + ms[n + 1].length - p <= Len(u) /\ Lies(u, 0 - p, ms[n + 1])
          /\ (n < Len(ms) /\ 4 + ms[n + 1].length - p = Len(u)) => n + 1 = Len(ms)
      BY <3>1, LayoutRead
    <3> QED BY <3>1, <3>2 DEF u, p, ms
  <2>2. /\ 4 + m.length - position <= Len(Unread)
        /\ 4 + m.length - position = Len(Unread) => n + 1 = Len(sent)
    BY <1>4, <2>1
  <2> HIDE DEF n, m
  <2> QED BY <1>2, <2>2
<1>7. position >= 4 => position = 4 \/ position - 4 < m.length
  BY <1>1 DEF IInv, InStep, InHand
<1> DEFINE l == m.length
<1>8. l \in Nat /\ 4 + l - position <= 0 /\ (position >= 4 => position = 4 \/ position - 4 < l)
  BY <1>5, <1>6, <1>7
<1> HIDE DEF l
<1>9. position = 4 /\ l = 0 /\ 4 + l - position = 0
  BY <1>1, <1>8
<1>10. n + 1 = Len(sent)
  BY <1>6, <1>9 DEF l
<1>11. k = n + 1
  BY <1>1, <1>10
<1> QED BY <1>9, <1>10, <1>11 DEF l

LEMMA Invariant == Spec => []IInv
<1>1. IInv /\ UNCHANGED vars => IInv'
  BY NextStep
<1> QED BY InitStep, NextStep, PTL DEF Spec

\* The messages onMessage is given are those that were sent, in their order, and
\* texts in ASCII are whole, for all sets of messages that fit the buffer, any
\* number of values of a byte and all ways to cut the stream (Parser.read,
\* Parser.write).
THEOREM MessagesDelivered == Spec => []Delivered
<1>1. IInv => Delivered
  BY DEF IInv, InStep, Delivered
<1> QED BY <1>1, Invariant, PTL

\* A block not cut in its payload lies where onMessage is told (Parser.read).
THEOREM BlocksFound == Spec => []BlockInPlace
<1>1. IInv => BlockInPlace
  BY DEF IInv, InStep, BlockInPlace
<1> QED BY <1>1, Invariant, PTL

\* When all bytes have been read every message has been delivered, but for a
\* last one that is empty (Parser.read).
THEOREM NothingHeldBack == Spec => []Prompt
BY NothingWaits, Invariant, PTL
=============================================================================
