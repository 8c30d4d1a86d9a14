----------------------------- MODULE HttpProofs -----------------------------
(***************************************************************************)
(* Three results about the HTTP parser, for streams of every length and    *)
(* URLs of every length, or as many letters as 16 bits count.              *)
(*                                                                         *)
(* Both parsers run over letters, so both models fold a step over a        *)
(* sequence.  Induction is over sets here: a set of naturals that holds 0  *)
(* and the successor of each of its members up to n holds all of them      *)
(* (UpTo), which makes the fold a walk, one value for each letter          *)
(* (FoldWalks), and of a walk invariants can be shown.                     *)
(*                                                                         *)
(* SplitterAgrees: the walk of http_parser_parse_url and the walk of       *)
(* http_parser_execute over the same URL are in the same states.           *)
(* FieldsMeant: the places that Meant finds in the whole URL say in which  *)
(* state the walk is after each letter (StateAt, HostStateAt) and how much *)
(* of each field it has read (Fits, HostFits); it is refused at the first  *)
(* letter that is not as it has to be.                                     *)
(* ParserAsserts: ParserInv says what each state knows of the flags, the   *)
(* length and the header in hand, and which string can be open in it; each *)
(* way an action can end keeps that, so each action does.                  *)
(***************************************************************************)
EXTENDS MCHttpUrl, HttpParser, WellFoundedInduction, SequenceTheorems, FiniteSetTheorems, TLAPS

\* Every set of naturals that is not empty has a least element.
LEMMA SmallestNat ==
    ASSUME NEW T \in SUBSET Nat, T # {}
    PROVE  \E x \in T : \A y \in T : x <= y
<1> DEFINE R == {ss \in Nat \X Nat : ss[1] < ss[2]}
<1>1. IsWellFoundedOn(R, Nat)
  BY NatLessThanWellFounded DEF OpToRel
<1>2. PICK x \in T : \A y \in T : ~ (<<y, x>> \in R)
  <2> HIDE DEF R
  <2> QED BY <1>1, WFMin
<1>3. \A y \in T : ~ (y < x)
  BY <1>2
<1> QED BY <1>3

\* Min finds that element.
LEMMA LeastOf ==
    ASSUME NEW T \in SUBSET Nat, T # {}
    PROVE  Min(T) \in T /\ \A x \in T : Min(T) <= x
<1>1. \E x \in T : \A y \in T : x <= y
  BY SmallestNat
<1> QED BY <1>1 DEF Min

\* Induction, over sets instead of predicates: a set that holds 0 and the
\* successor of each of its members below n holds all numbers up to n.
LEMMA UpTo ==
    ASSUME NEW n \in Nat, NEW S, 0 \in S, \A k \in 0 .. n : k \in S /\ k < n => k + 1 \in S
    PROVE  \A k \in 0 .. n : k \in S
<1> DEFINE T == {k \in 0 .. n : k \notin S}
<1>1. SUFFICES ASSUME T # {} PROVE FALSE
  OBVIOUS
<1>2. PICK x \in T : \A y \in T : x <= y
  <2>1. T \in SUBSET Nat
    OBVIOUS
  <2> HIDE DEF T
  <2> QED BY <1>1, <2>1, SmallestNat
<1>3. x # 0 /\ x - 1 \in 0 .. n /\ x - 1 < n
  BY <1>2
<1>4. x - 1 \notin T
  BY <1>2
<1> QED BY <1>2, <1>3, <1>4

-----------------------------------------------------------------------------
(* FoldLeft.  Its definition chooses a function on the sets of places that  *)
(* satisfies a recursive equation; there is one.                            *)

LEMMA MaxOf ==
    ASSUME NEW n \in Nat, NEW s \in SUBSET (1 .. n), s # {}
    PROVE  Max(s) \in s /\ Max(s) \in 1 .. n /\ \A y \in s : y <= Max(s)
<1> DEFINE T == {k \in Nat : \A y \in s : y <= k}
<1>1. T \in SUBSET Nat /\ n \in T
  OBVIOUS
<1>2. PICK k \in T : \A y \in T : k <= y
  <2> HIDE DEF T
  <2> QED BY <1>1, SmallestNat
<1>3. k \in s
  <2>1. PICK y \in s : TRUE
    OBVIOUS
  <2>2. k # 0
    BY <1>2, <2>1
  <2>3. k - 1 \notin T /\ k - 1 \in Nat
    BY <1>2, <2>2
  <2> QED BY <1>2, <2>3
<1>4. k \in s /\ \A y \in s : k >= y
  BY <1>2, <1>3
<1> HIDE DEF T
<1> QED BY <1>4 DEF Max

LEMMA MaxIs ==
    ASSUME NEW n \in Nat, NEW s \in SUBSET (1 .. n + 1), n + 1 \in s
    PROVE  Max(s) = n + 1
BY MaxOf

\* The equation, of a function g on the sets of numbers up to n.
Folds(g, n, base, F) ==
    g = [s \in SUBSET (1 .. n) |-> IF s = {} THEN base ELSE F[g[s \ {Max(s)}], Max(s)]]

\* A function of two arguments that keeps the first one's type.
Stays(F, n, V) == \A v \in V, i \in 1 .. n : F[v, i] \in V

LEMMA FoldGrows ==
    ASSUME NEW n \in Nat, NEW k \in 0 .. n, k < n, NEW V, NEW base \in V, NEW F, Stays(F, n, V),
           NEW f \in [SUBSET (1 .. k) -> V], Folds(f, k, base, F)
    PROVE  \E g \in [SUBSET (1 .. k + 1) -> V] : Folds(g, k + 1, base, F)
<1> DEFINE g == [s \in SUBSET (1 .. k + 1) |->
                   IF k + 1 \in s THEN F[f[s \ {k + 1}], k + 1] ELSE f[s]]
<1>1. \A s \in SUBSET (1 .. k + 1) : s \ {k + 1} \in SUBSET (1 .. k) /\ (k + 1 \notin s => s \in SUBSET (1 .. k))
  OBVIOUS
<1>2. g \in [SUBSET (1 .. k + 1) -> V]
  <2>1. \A s \in SUBSET (1 .. k + 1) : k + 1 \in s => F[f[s \ {k + 1}], k + 1] \in V
    <3>1. k + 1 \in 1 .. n
      OBVIOUS
    <3>2. \A s \in SUBSET (1 .. k + 1) : f[s \ {k + 1}] \in V
      BY <1>1
    <3>3. \A v \in V, i \in 1 .. n : F[v, i] \in V
      BY DEF Stays
    <3> QED BY <3>1, <3>2, <3>3
  <2>2. \A s \in SUBSET (1 .. k + 1) : k + 1 \notin s => f[s] \in V
    BY <1>1
  <2> QED BY <2>1, <2>2
<1>3. ASSUME NEW s \in SUBSET (1 .. k + 1)
      PROVE  g[s] = IF s = {} THEN base ELSE F[g[s \ {Max(s)}], Max(s)]
  <2>1. CASE k + 1 \in s
    <3>1. Max(s) = k + 1
      BY <2>1, MaxIs
    <3>2. s \ {k + 1} \in SUBSET (1 .. k + 1) /\ k + 1 \notin s \ {k + 1}
      OBVIOUS
    <3>3. g[s \ {k + 1}] = f[s \ {k + 1}]
      BY <3>2
    <3> QED BY <2>1, <3>1, <3>3
  <2>2. CASE k + 1 \notin s /\ s # {}
    <3>1. s \in SUBSET (1 .. k)
      BY <1>1, <2>2
    <3>2. Max(s) \in s
      BY <2>2, <3>1, MaxOf
    <3>3. g[s] = f[s] /\ g[s \ {Max(s)}] = f[s \ {Max(s)}]
      BY <2>2, <3>1
    <3>4. f[s] = F[f[s \ {Max(s)}], Max(s)]
      BY <2>2, <3>1 DEF Folds
    <3> QED BY <2>2, <3>3, <3>4
  <2>3. CASE s = {}
    <3>1. {} \in SUBSET (1 .. k) /\ k + 1 \notin s
      BY <2>3
    <3>2. f[{}] = base
      BY <3>1 DEF Folds
    <3> QED BY <2>3, <3>1, <3>2
  <2> QED BY <2>1, <2>2, <2>3
<1> DEFINE h == [s \in SUBSET (1 .. k + 1) |-> IF s = {} THEN base ELSE F[g[s \ {Max(s)}], Max(s)]]
<1>4. g = h
  <2>1. \A s \in SUBSET (1 .. k + 1) : g[s] = h[s]
    BY <1>3
  <2>2. g = [s \in SUBSET (1 .. k + 1) |-> g[s]]
    OBVIOUS
  <2>3. h = [s \in SUBSET (1 .. k + 1) |-> h[s]]
    OBVIOUS
  <2> HIDE DEF g, h
  <2> QED BY <2>1, <2>2, <2>3
<1> HIDE DEF g
<1> QED BY <1>2, <1>4 DEF Folds

LEMMA FoldExists ==
    ASSUME NEW n \in Nat, NEW V, NEW base \in V, NEW F, Stays(F, n, V)
    PROVE  \E g \in [SUBSET (1 .. n) -> V] : Folds(g, n, base, F)
<1> DEFINE S == {k \in 0 .. n : \E g \in [SUBSET (1 .. k) -> V] : Folds(g, k, base, F)}
<1>1. 0 \in S
  <2> DEFINE g == [s \in SUBSET (1 .. 0) |-> base]
  <2>1. \A s \in SUBSET (1 .. 0) : s = {}
    OBVIOUS
  <2>2. Folds(g, 0, base, F)
    BY <2>1 DEF Folds
  <2>3. g \in [SUBSET (1 .. 0) -> V]
    OBVIOUS
  <2>4. 0 \in 0 .. n
    OBVIOUS
  <2> HIDE DEF g
  <2>5. \E f \in [SUBSET (1 .. 0) -> V] : Folds(f, 0, base, F)
    BY <2>2, <2>3
  <2> QED BY <2>4, <2>5
<1>2. ASSUME NEW k \in 0 .. n, k \in S, k < n PROVE k + 1 \in S
  <2>1. PICK f \in [SUBSET (1 .. k) -> V] : Folds(f, k, base, F)
    BY <1>2
  <2>2. \E g \in [SUBSET (1 .. k + 1) -> V] : Folds(g, k + 1, base, F)
    BY <1>2, <2>1, FoldGrows
  <2> QED BY <1>2, <2>2
<1> HIDE DEF S
<1>3. n \in S
  BY <1>1, <1>2, UpTo
<1> QED BY <1>3 DEF S

\* The equation again, where the value before is in V.
FoldsIn(g, n, V, base, F) ==
    /\ g[{}] = base
    /\ \A s \in SUBSET (1 .. n) : s # {} /\ g[s \ {Max(s)}] \in V => g[s] = F[g[s \ {Max(s)}], Max(s)]

LEMMA UpToOne ==
    ASSUME NEW n \in Nat, NEW k \in 1 .. n
    PROVE  /\ 1 .. k \in SUBSET (1 .. n) /\ 1 .. k # {} /\ k - 1 \in 0 .. n /\ k \in 0 .. n
           /\ Max(1 .. k) = k /\ (1 .. k) \ {k} = 1 .. k - 1
<1>1. 1 .. k \in SUBSET (1 .. n) /\ 1 .. k # {} /\ k - 1 \in 0 .. n /\ k \in 0 .. n
  OBVIOUS
<1>2. (1 .. k) \ {k} = 1 .. k - 1
  OBVIOUS
<1>3. 1 .. k \in SUBSET (1 .. (k - 1) + 1) /\ (k - 1) + 1 \in 1 .. k /\ k - 1 \in Nat /\ (k - 1) + 1 = k
  OBVIOUS
<1>4. Max(1 .. k) = k
  BY <1>3, MaxIs
<1> QED BY <1>1, <1>2, <1>4

LEMMA UpToEnds ==
    ASSUME NEW n \in Nat
    PROVE  1 .. 0 = {} /\ 0 \in 0 .. n /\ n \in 0 .. n
OBVIOUS

LEMMA UpToNext ==
    ASSUME NEW n \in Nat, NEW k \in 0 .. n, k < n
    PROVE  k + 1 \in 1 .. n /\ (k + 1) - 1 = k /\ k + 1 \in 0 .. n
OBVIOUS

\* The values from left to right, the last of which is end.
Walk(h, n, V, base, F, end) ==
    /\ h \in [0 .. n -> V] /\ h[0] = base /\ h[n] = end
    /\ \A k \in 1 .. n : h[k] = F[h[k - 1], k]

\* Whatever satisfies the equation has such values.
LEMMA FoldWalks ==
    ASSUME NEW n \in Nat, NEW V, NEW base \in V, NEW F, Stays(F, n, V),
           NEW it, FoldsIn(it, n, V, base, F)
    PROVE  \E h : Walk(h, n, V, base, F, it[1 .. n])
<1> DEFINE h == [k \in 0 .. n |-> it[1 .. k]]
           S == {k \in 0 .. n : h[k] \in V}
<1>0. 1 .. 0 = {} /\ 0 \in 0 .. n /\ n \in 0 .. n
  BY UpToEnds
<1>1. h[0] = base
  BY <1>0 DEF FoldsIn
<1>2. ASSUME NEW k \in 1 .. n, h[k - 1] \in V PROVE h[k] = F[h[k - 1], k]
  <2>1. /\ 1 .. k \in SUBSET (1 .. n) /\ 1 .. k # {} /\ k - 1 \in 0 .. n /\ k \in 0 .. n
        /\ Max(1 .. k) = k /\ (1 .. k) \ {k} = 1 .. k - 1
    BY UpToOne
  <2>2. h[k - 1] = it[1 .. k - 1] /\ h[k] = it[1 .. k]
    BY <2>1
  <2> HIDE DEF h
  <2> QED BY <1>2, <2>1, <2>2 DEF FoldsIn
<1>3. \A k \in 0 .. n : k \in S
  <2>1. 0 \in S
    BY <1>0, <1>1
  <2>2. ASSUME NEW k \in 0 .. n, k \in S, k < n PROVE k + 1 \in S
    <3> HIDE DEF h
    <3>1. k + 1 \in 1 .. n /\ (k + 1) - 1 = k /\ k + 1 \in 0 .. n
      BY <2>2, UpToNext
    <3>2. h[k] \in V
      BY <2>2
    <3>3. h[k + 1] = F[h[k], k + 1]
      BY <1>2, <3>1, <3>2
    <3>4. h[k + 1] \in V
      BY <3>1, <3>2, <3>3 DEF Stays
    <3> QED BY <3>1, <3>4
  <2> HIDE DEF S
  <2> QED BY <2>1, <2>2, UpTo
<1>4. h \in [0 .. n -> V]
  BY <1>3
<1>5. \A k \in 1 .. n : h[k] = F[h[k - 1], k]
  <2>1. ASSUME NEW k \in 1 .. n PROVE h[k - 1] \in V
    <3> HIDE DEF h
    <3>1. k - 1 \in 0 .. n
      BY UpToOne
    <3> QED BY <1>3, <3>1
  <2> HIDE DEF h
  <2> QED BY <1>2, <2>1
<1>6. h[n] = it[1 .. n]
  BY <1>0
<1>7. Walk(h, n, V, base, F, it[1 .. n])
  <2> HIDE DEF h
  <2> QED BY <1>1, <1>4, <1>5, <1>6 DEF Walk
<1> QED BY <1>7

-----------------------------------------------------------------------------
(* The URL automaton. *)

\* The target of an edge, or dead if there is none.
Target(edges, dead, at) ==
    LET e == {x \in edges : x.from = at[1] /\ x.on = at[2]}
    IN  IF e = {} THEN dead ELSE (CHOOSE x \in e : TRUE).to

HasTarget(edges, dead, s, c, t) ==
    IF \E x \in edges : x.from = s /\ x.on = c
    THEN \E x \in edges : x.from = s /\ x.on = c /\ x.to = t
    ELSE t = dead

LEMMA TableTarget ==
    ASSUME NEW edges, NEW states, NEW dead, NEW s \in states, NEW c \in UrlLetters
    PROVE  HasTarget(edges, dead, s, c, Table(edges, states, dead)[s, c])
<1> DEFINE e == {x \in edges : x.from = s /\ x.on = c}
           T == [at \in states \X UrlLetters |-> Target(edges, dead, at)]
<1>1. T[s, c] = Target(edges, dead, <<s, c>>)
  OBVIOUS
<1>2. Table(edges, states, dead) = T
  BY DEF Table, Target
<1>3. Target(edges, dead, <<s, c>>) = IF e = {} THEN dead ELSE (CHOOSE x \in e : TRUE).to
  BY DEF Target
<1> HIDE DEF T
<1>4. Table(edges, states, dead)[s, c] = IF e = {} THEN dead ELSE (CHOOSE x \in e : TRUE).to
  BY <1>1, <1>2, <1>3
<1>5. CASE e = {}
  <2>1. ~ \E x \in edges : x.from = s /\ x.on = c
    BY <1>5
  <2> QED BY <1>4, <1>5, <2>1 DEF HasTarget
<1>6. CASE e # {}
  <2>1. (CHOOSE x \in e : TRUE) \in e
    BY <1>6
  <2> QED BY <1>4, <1>6, <2>1 DEF HasTarget
<1> QED BY <1>5, <1>6

LEMMA Edge ==
    ASSUME NEW s \in UrlStates, NEW c
    PROVE  IF c \in UrlLetters THEN HasTarget(UrlEdges, "s_dead", s, c, parse_url_char(s, c))
                               ELSE parse_url_char(s, c) = "s_dead"
<1>1. CASE c \in UrlLetters
  <2>1. parse_url_char(s, c) = Table(UrlEdges, UrlStates, "s_dead")[s, c]
    BY <1>1 DEF parse_url_char, UrlTable
  <2>2. HasTarget(UrlEdges, "s_dead", s, c, Table(UrlEdges, UrlStates, "s_dead")[s, c])
    BY <1>1, TableTarget
  <2> QED BY <1>1, <2>1, <2>2
<1>2. CASE c \notin UrlLetters
  BY <1>2 DEF parse_url_char
<1> QED BY <1>1, <1>2

\* Where the automaton can come from.
LEMMA Steps ==
    ASSUME NEW s \in UrlStates, NEW c, NEW t, t = parse_url_char(s, c)
    PROVE  /\ t \in UrlStates /\ t # "s_req_spaces_before_url"
           /\ s = "s_dead" => t = "s_dead"
           /\ t = "s_req_schema" => s \in {"s_req_spaces_before_url", "s_req_schema"}
           /\ t = "s_req_schema_slash" => s = "s_req_schema"
           /\ t = "s_req_schema_slash_slash" => s = "s_req_schema_slash"
           /\ t = "s_req_server_start" => s = "s_req_schema_slash_slash"
<1>1. CASE t = "s_dead"
  BY <1>1 DEF UrlStates
<1>2. CASE \E x \in UrlEdges : x.from = s /\ x.on = c /\ x.to = t
  <2>1. PICK x \in UrlEdges : x.from = s /\ x.to = t
    BY <1>2
  <2> QED BY <2>1 DEF UrlEdges, UrlStates, ServerStates, QueryStates, FragmentStates
<1> QED BY <1>1, <1>2, Edge DEF HasTarget
LEMMA StreamFold ==
    ASSUME NEW L, NEW seq \in Seq(L), NEW base \in UrlStates
    PROVE  \E h \in [0 .. Len(seq) -> UrlStates] :
              /\ h[0] = base /\ h[Len(seq)] = FoldLeft(parse_url_char, base, seq)
              /\ \A k \in 1 .. Len(seq) : h[k] = parse_url_char(h[k - 1], seq[k])
<1> DEFINE n == Len(seq)
           F == [x \in UrlStates \X (1 .. n) |-> parse_url_char(x[1], seq[x[2]])]
           Q(g) == g = [s \in SUBSET (DOMAIN seq) |->
                          IF s = {} THEN base ELSE parse_url_char(g[s \ {Max(s)}], seq[Max(s)])]
           it == CHOOSE g : Q(g)
<1>1. n \in Nat /\ DOMAIN seq = 1 .. n
  OBVIOUS
<1>2. FoldLeft(parse_url_char, base, seq) = it[DOMAIN seq]
  BY DEF FoldLeft, MapThenFoldSet
<1>3. \A v \in UrlStates, i \in 1 .. n : F[v, i] = parse_url_char(v, seq[i])
  OBVIOUS
<1> HIDE DEF n, F
<1>4. Stays(F, n, UrlStates)
  <2>1. ASSUME NEW v \in UrlStates, NEW i \in 1 .. n PROVE F[v, i] \in UrlStates
    <3>1. F[v, i] = parse_url_char(v, seq[i])
      BY <1>3
    <3>2. i \in Nat
      BY <1>1
    <3>3. parse_url_char(v, seq[i]) \in UrlStates
      BY <3>2, Steps
    <3> QED BY <3>1, <3>3
  <2> QED BY <2>1 DEF Stays
<1>5. PICK g \in [SUBSET (1 .. n) -> UrlStates] : Folds(g, n, base, F)
  BY <1>1, <1>4, FoldExists
<1>6. Q(g)
  <2>1. ASSUME NEW s \in SUBSET (1 .. n), s # {}
        PROVE  F[g[s \ {Max(s)}], Max(s)] = parse_url_char(g[s \ {Max(s)}], seq[Max(s)])
    BY <1>1, <1>3, <2>1, MaxOf
  <2>2. \A s \in SUBSET (1 .. n) :
          (IF s = {} THEN base ELSE F[g[s \ {Max(s)}], Max(s)])
          = IF s = {} THEN base ELSE parse_url_char(g[s \ {Max(s)}], seq[Max(s)])
    BY <2>1
  <2> QED BY <1>1, <1>5, <2>2 DEF Folds
<1>7. Q(it)
  <2> HIDE DEF Q
  <2> QED BY <1>6
<1> HIDE DEF it
<1>8. FoldsIn(it, n, UrlStates, base, F)
  <2>1. it[{}] = base
    BY <1>1, <1>7
  <2>2. ASSUME NEW s \in SUBSET (1 .. n), s # {}, it[s \ {Max(s)}] \in UrlStates
        PROVE  it[s] = F[it[s \ {Max(s)}], Max(s)]
    <3>1. Max(s) \in 1 .. n
      BY <1>1, <2>2, MaxOf
    <3>2. it[s] = parse_url_char(it[s \ {Max(s)}], seq[Max(s)])
      BY <1>1, <1>7, <2>2
    <3> QED BY <1>1, <1>3, <2>2, <3>1, <3>2
  <2> QED BY <2>1, <2>2 DEF FoldsIn
<1> HIDE DEF Q
<1>9. PICK h : Walk(h, n, UrlStates, base, F, it[1 .. n])
  BY <1>1, <1>4, <1>8, FoldWalks
<1>10. h \in [0 .. n -> UrlStates] /\ h[0] = base /\ h[n] = it[1 .. n]
  BY <1>9 DEF Walk
<1>11. ASSUME NEW k \in 1 .. n PROVE h[k] = parse_url_char(h[k - 1], seq[k])
  <2>1. k - 1 \in 0 .. n
    BY <1>1, UpToOne
  <2>2. h[k] = F[h[k - 1], k]
    BY <1>9 DEF Walk
  <2>3. h[k - 1] \in UrlStates
    BY <1>10, <2>1
  <2> QED BY <1>3, <2>2, <2>3
<1> QED BY <1>1, <1>2, <1>10, <1>11 DEF n

-----------------------------------------------------------------------------
(* The loop of http_parser_parse_url. *)

Field3 == Fields \cup {"none"}
Splits == [s : UrlStates, at : BOOLEAN, old : Field3, u : [Fields -> Nat \X Nat]]

\* 16 bits hold an offset that is not 0, and the one there is if they can.
LEMMA NarrowIs ==
    ASSUME NEW i \in Nat
    PROVE  /\ Narrow(i) \in Nat \ {0}
           /\ i # 0 /\ i <= Width16 => Narrow(i) = i
<1>1. Width16 \in Nat \ {0}
  BY WidthAssumption
<1>2. (i - 1) % Width16 \in 0 .. Width16 - 1
  BY <1>1
<1>3. i # 0 /\ i <= Width16 => (i - 1) % Width16 = i - 1
  <2> SUFFICES ASSUME i # 0, i <= Width16 PROVE (i - 1) % Width16 = i - 1
    OBVIOUS
  <2>1. i - 1 \in Nat /\ i - 1 < Width16
    BY <1>1
  <2> DEFINE v == i - 1
             n == Width16
  <2>2. v \in Nat /\ n \in Nat /\ v < n
    BY <1>1, <2>1
  <2> HIDE DEF v, n
  <2>3. v % n = v
    BY <2>2
  <2> QED BY <2>3 DEF v, n
<1> DEFINE v == (i - 1) % Width16
<1>4. v \in 0 .. Width16 - 1 /\ (i # 0 /\ i <= Width16 => v = i - 1)
  BY <1>2, <1>3
<1>5. Narrow(i) = v + 1
  BY DEF Narrow
<1> HIDE DEF v
<1> QED BY <1>1, <1>4, <1>5

LEMMA LongerIs ==
    ASSUME NEW m \in Nat
    PROVE  Longer(m) \in Nat /\ (m + 1 < Width16 => Longer(m) = m + 1)
<1>1. Width16 \in Nat \ {0} /\ m + 1 \in Nat
  BY WidthAssumption
<1> DEFINE v == m + 1
           n == Width16
<1>2. v \in Nat /\ n \in Nat \ {0} /\ Longer(m) = v % n
  BY <1>1 DEF Longer
<1> HIDE DEF v, n
<1>3. v % n \in 0 .. n - 1 /\ (v < n => v % n = v)
  BY <1>2
<1> QED BY <1>2, <1>3 DEF v, n

LEMMA GrowType ==
    ASSUME NEW u \in [Fields -> Nat \X Nat], NEW f \in Fields, NEW i \in Nat, NEW fresh \in BOOLEAN
    PROVE  /\ Grow(u, f, i, fresh) \in [Fields -> Nat \X Nat]
           /\ Grow(u, f, i, fresh)[f] = IF fresh THEN <<Narrow(i), 1>> ELSE <<u[f][1], Longer(u[f][2])>>
<1>1. u[f] \in Nat \X Nat /\ Narrow(i) \in Nat
  BY NarrowIs
<1>2. Longer(u[f][2]) \in Nat /\ u[f][1] \in Nat
  BY <1>1, LongerIs
<1>3. (IF fresh THEN <<Narrow(i), 1>> ELSE <<u[f][1], Longer(u[f][2])>>) \in Nat \X Nat
  BY <1>1, <1>2
<1> QED BY <1>3 DEF Grow

\* Of a URL that 16 bits can count, fields are where and as long as they are.
LEMMA GrowExact ==
    ASSUME NEW u \in [Fields -> Nat \X Nat], NEW f \in Fields, NEW i \in Nat, NEW fresh \in BOOLEAN,
           i # 0, i <= Width16, u[f][2] + 1 < Width16
    PROVE  Grow(u, f, i, fresh)[f] = IF fresh THEN <<i, 1>> ELSE <<u[f][1], u[f][2] + 1>>
<1>1. u[f] \in Nat \X Nat
  OBVIOUS
<1>2. Narrow(i) = i /\ Longer(u[f][2]) = u[f][2] + 1
  BY <1>1, NarrowIs, LongerIs
<1>3. Grow(u, f, i, fresh)[f] = IF fresh THEN <<Narrow(i), 1>> ELSE <<u[f][1], Longer(u[f][2])>>
  BY GrowType
<1> QED BY <1>2, <1>3

LEMMA GrowOthers ==
    ASSUME NEW u \in [Fields -> Nat \X Nat], NEW f \in Fields, NEW i \in Nat, NEW fresh \in BOOLEAN,
           NEW g \in Fields, g # f
    PROVE  Grow(u, f, i, fresh)[g] = u[g]
BY DEF Grow

LEMMA UrlFieldType == \A s \in UrlStates : UrlField[s] \in Field3
BY DEF UrlField, Field3, Fields

LEMMA TurnType ==
    ASSUME NEW w, NEW a \in Splits, NEW i \in Nat
    PROVE  /\ UrlTurn(w, a, i) \in Splits
           /\ UrlTurn(w, a, i).s = parse_url_char(a.s, w[i])
           /\ UrlTurn(w, a, i).u =
                LET f == UrlField[parse_url_char(a.s, w[i])]
                IN  IF f = "none" THEN a.u ELSE Grow(a.u, f, i, f # a.old)
<1> DEFINE s == parse_url_char(a.s, w[i])
           f == UrlField[s]
           u == IF f = "none" THEN a.u ELSE Grow(a.u, f, i, f # a.old)
<1>1. a.s \in UrlStates /\ a.at \in BOOLEAN /\ a.old \in Field3 /\ a.u \in [Fields -> Nat \X Nat]
  BY DEF Splits
<1>2. s \in UrlStates /\ f \in Field3
  BY <1>1, Steps, UrlFieldType
<1> HIDE DEF s
<1>3. u \in [Fields -> Nat \X Nat]
  <2> HIDE DEF f
  <2>1. CASE f = "none"
    BY <1>1, <2>1
  <2>2. CASE f # "none"
    <3>1. f \in Fields /\ (f # a.old) \in BOOLEAN
      BY <1>2, <2>2 DEF Field3
    <3> QED BY <1>1, <2>2, <3>1, GrowType
  <2> QED BY <2>1, <2>2
<1>4. UrlTurn(w, a, i) = [s |-> s, at |-> a.at \/ s = "s_req_server_with_at",
                            old |-> IF f = "none" THEN a.old ELSE f, u |-> u]
  BY DEF UrlTurn, s
<1> HIDE DEF f, u
<1>5. (a.at \/ s = "s_req_server_with_at") \in BOOLEAN /\ (IF f = "none" THEN a.old ELSE f) \in Field3
  BY <1>1, <1>2
<1>6. UrlTurn(w, a, i) \in Splits
  BY <1>2, <1>3, <1>4, <1>5 DEF Splits
<1>7. UrlTurn(w, a, i).s = s /\ UrlTurn(w, a, i).u = u
  BY <1>4
<1> QED BY <1>6, <1>7 DEF s, f, u

\* The loop, from base on.
UrlLoop(w, base) == FoldLeft(LAMBDA x, i : UrlTurn(w, x, i), base, [i \in 1 .. Len(w) |-> i])

LEMMA UrlFold ==
    ASSUME NEW u, Len(u) \in Nat, NEW base \in Splits
    PROVE  \E h \in [0 .. Len(u) -> Splits] :
              /\ h[0] = base /\ h[Len(u)] = UrlLoop(u, base)
              /\ \A k \in 1 .. Len(u) : h[k] = UrlTurn(u, h[k - 1], k)
<1> DEFINE n == Len(u)
           seq == [i \in 1 .. Len(u) |-> i]
           F == [x \in Splits \X (1 .. n) |-> UrlTurn(u, x[1], x[2])]
           Q(g) == g = [s \in SUBSET (DOMAIN seq) |->
                          IF s = {} THEN base ELSE UrlTurn(u, g[s \ {Max(s)}], seq[Max(s)])]
           it == CHOOSE g : Q(g)
<1>1. n \in Nat /\ DOMAIN seq = 1 .. n /\ \A i \in 1 .. n : seq[i] = i
  OBVIOUS
<1>2. UrlLoop(u, base) = it[DOMAIN seq]
  BY DEF UrlLoop, FoldLeft, MapThenFoldSet
<1> HIDE DEF seq
<1>3. \A v \in Splits, i \in 1 .. n : F[v, i] = UrlTurn(u, v, i)
  OBVIOUS
<1> HIDE DEF n, F
<1>4. Stays(F, n, Splits)
  <2>1. ASSUME NEW v \in Splits, NEW i \in 1 .. n PROVE F[v, i] \in Splits
    <3>1. F[v, i] = UrlTurn(u, v, i)
      BY <1>3
    <3>2. i \in Nat
      BY <1>1
    <3>3. UrlTurn(u, v, i) \in Splits
      BY <3>2, TurnType
    <3> QED BY <3>1, <3>3
  <2> QED BY <2>1 DEF Stays
<1>5. PICK g \in [SUBSET (1 .. n) -> Splits] : Folds(g, n, base, F)
  BY <1>1, <1>4, FoldExists
<1>6. Q(g)
  <2>1. ASSUME NEW s \in SUBSET (1 .. n), s # {}
        PROVE  F[g[s \ {Max(s)}], Max(s)] = UrlTurn(u, g[s \ {Max(s)}], seq[Max(s)])
    BY <1>1, <1>3, <2>1, MaxOf
  <2>2. \A s \in SUBSET (1 .. n) :
          (IF s = {} THEN base ELSE F[g[s \ {Max(s)}], Max(s)])
          = IF s = {} THEN base ELSE UrlTurn(u, g[s \ {Max(s)}], seq[Max(s)])
    BY <2>1
  <2> QED BY <1>1, <1>5, <2>2 DEF Folds
<1>7. Q(it)
  <2> HIDE DEF Q
  <2> QED BY <1>6
<1> HIDE DEF it
<1>8. FoldsIn(it, n, Splits, base, F)
  <2>1. it[{}] = base
    BY <1>1, <1>7
  <2>2. ASSUME NEW s \in SUBSET (1 .. n), s # {}, it[s \ {Max(s)}] \in Splits
        PROVE  it[s] = F[it[s \ {Max(s)}], Max(s)]
    <3>1. Max(s) \in 1 .. n
      BY <1>1, <2>2, MaxOf
    <3>2. it[s] = UrlTurn(u, it[s \ {Max(s)}], seq[Max(s)])
      BY <1>1, <1>7, <2>2
    <3> QED BY <1>1, <1>3, <2>2, <3>1, <3>2
  <2> QED BY <2>1, <2>2 DEF FoldsIn
<1> HIDE DEF Q
<1>9. PICK h : Walk(h, n, Splits, base, F, it[1 .. n])
  BY <1>1, <1>4, <1>8, FoldWalks
<1>10. h \in [0 .. n -> Splits] /\ h[0] = base /\ h[n] = it[1 .. n]
  BY <1>9 DEF Walk
<1>11. ASSUME NEW k \in 1 .. n PROVE h[k] = UrlTurn(u, h[k - 1], k)
  <2>1. k - 1 \in 0 .. n
    BY <1>1, UpToOne
  <2>2. h[k] = F[h[k - 1], k]
    BY <1>9 DEF Walk
  <2>3. h[k - 1] \in Splits
    BY <1>10, <2>1
  <2> QED BY <1>3, <2>2, <2>3
<1> QED BY <1>1, <1>2, <1>10, <1>11 DEF n, seq

-----------------------------------------------------------------------------
(* The splitter accepts nothing that the stream refuses. *)

\* What the fields and the letters read so far say of the splitter's state: it
\* is before the host only with nothing read, or with a schema and no host.
Early(k, a) ==
    /\ a.s = "s_req_spaces_before_url" => k = 0 /\ a.u["host"] = None /\ a.old = "none"
    /\ a.s \in {"s_req_schema", "s_req_schema_slash", "s_req_schema_slash_slash"}
         => a.u["schema"][1] # 0 /\ a.u["host"] = None
    /\ a.s = "s_req_server_start" => k = 0 \/ (a.u["schema"][1] # 0 /\ a.u["host"] = None)

EarlyStates == {"s_req_spaces_before_url", "s_req_schema", "s_req_schema_slash", "s_req_schema_slash_slash"}

LEMMA EarlyTurn ==
    ASSUME NEW w, NEW a \in Splits, NEW k \in Nat, Early(k, a)
    PROVE  Early(k + 1, UrlTurn(w, a, k + 1))
<1> DEFINE b == UrlTurn(w, a, k + 1)
           t == parse_url_char(a.s, w[k + 1])
<1>1. a.s \in UrlStates /\ a.u \in [Fields -> Nat \X Nat] /\ k + 1 \in Nat
  BY DEF Splits
<1>2. /\ b \in Splits /\ b.s = t
      /\ b.u = LET f == UrlField[t] IN IF f = "none" THEN a.u ELSE Grow(a.u, f, k + 1, f # a.old)
  BY <1>1, TurnType
<1>3. /\ t \in UrlStates /\ t # "s_req_spaces_before_url"
      /\ t = "s_req_schema" => a.s \in {"s_req_spaces_before_url", "s_req_schema"}
      /\ t = "s_req_schema_slash" => a.s = "s_req_schema"
      /\ t = "s_req_schema_slash_slash" => a.s = "s_req_schema_slash"
      /\ t = "s_req_server_start" => a.s = "s_req_schema_slash_slash"
  BY <1>1, Steps
<1> SUFFICES Early(k + 1, b)
  OBVIOUS
<1> HIDE DEF b, t
<1>4. CASE t = "s_req_schema"
  <2>1. UrlField[t] = "schema"
    BY <1>3, <1>4 DEF UrlField
  <2> DEFINE fresh == ("schema" # a.old)
  <2>2. b.u = Grow(a.u, "schema", k + 1, fresh)
    BY <1>2, <2>1
  <2>3. "schema" \in Fields /\ "host" \in Fields /\ fresh \in BOOLEAN
    BY DEF Fields
  <2> HIDE DEF fresh
  <2>4. /\ b.u["schema"] = IF fresh THEN <<Narrow(k + 1), 1>> ELSE <<a.u["schema"][1], Longer(a.u["schema"][2])>>
        /\ b.u["host"] = a.u["host"]
    <3>1. Grow(a.u, "schema", k + 1, fresh)["host"] = a.u["host"]
      BY <1>1, <2>3, GrowOthers
    <3>2. Grow(a.u, "schema", k + 1, fresh)["schema"]
            = IF fresh THEN <<Narrow(k + 1), 1>> ELSE <<a.u["schema"][1], Longer(a.u["schema"][2])>>
      BY <1>1, <2>3, GrowType
    <3> QED BY <2>2, <2>3, <3>1, <3>2
  <2>5. b.u["schema"][1] # 0
    <3>1. Narrow(k + 1) # 0
      BY <1>1, NarrowIs
    <3>2. a.s = "s_req_spaces_before_url" => fresh
      BY DEF Early, fresh
    <3>3. a.s = "s_req_schema" => a.u["schema"][1] # 0
      BY DEF Early
    <3> QED BY <1>3, <1>4, <2>4, <3>1, <3>2, <3>3
  <2>6. a.u["host"] = None
    BY <1>3, <1>4 DEF Early
  <2> QED BY <1>2, <1>4, <2>4, <2>5, <2>6 DEF Early
<1>5. CASE t \in {"s_req_schema_slash", "s_req_schema_slash_slash", "s_req_server_start"}
  <2>1. UrlField[t] = "none"
    BY <1>3, <1>5 DEF UrlField
  <2>2. b.u = a.u
    BY <1>2, <2>1
  <2>3. a.u["schema"][1] # 0 /\ a.u["host"] = None
    BY <1>3, <1>5 DEF Early
  <2> QED BY <1>2, <1>5, <2>2, <2>3 DEF Early
<1>6. CASE t \notin {"s_req_schema", "s_req_schema_slash", "s_req_schema_slash_slash", "s_req_server_start"}
  BY <1>2, <1>3, <1>6 DEF Early
<1> QED BY <1>4, <1>5, <1>6

\* The states in which a URL may end are all but the dead one and the early ones.
LEMMA MayEnd ==
    ASSUME NEW s \in UrlStates, s # "s_dead", s \notin EarlyStates, s # "s_req_server_start"
    PROVE  s \in UrlMayEnd
BY DEF UrlStates, UrlMayEnd, EarlyStates, QueryStates, FragmentStates

UrlStart(c) == [s |-> IF c THEN "s_req_server_start" ELSE "s_req_spaces_before_url",
                at |-> FALSE, old |-> "none", u |-> [f \in Fields |-> None]]

\* Of a URL with at least one letter the loop ends in a state in which it may
\* end, in the dead state, or with a schema and no host.
LEMMA LoopEnds ==
    ASSUME NEW L, NEW w \in Seq(L), w # <<>>, NEW c \in BOOLEAN,
           NEW a, a = UrlLoop(w, UrlStart(c))
    PROVE  \/ a.s \in UrlMayEnd /\ a.s = FoldLeft(parse_url_char, UrlStart(c).s, w)
           \/ a.s = "s_dead"
           \/ a.u["schema"] # None /\ a.u["host"] = None
<1> DEFINE n == Len(w)
           base == UrlStart(c)
<1>1. n \in Nat /\ n # 0 /\ n \in 0 .. n /\ 0 \in 0 .. n
  <2>1. Len(w) \in Nat \ {0}
    BY EmptySeq
  <2> QED BY <2>1
<1>2. base \in Splits /\ base.s \in UrlStates /\ Early(0, base)
  <2>1. [f \in Fields |-> None] \in [Fields -> Nat \X Nat] /\ "host" \in Fields
    BY DEF None, Fields
  <2>2. /\ base.u["host"] = None /\ base.old = "none"
        /\ base.s \in {"s_req_server_start", "s_req_spaces_before_url"}
    BY <2>1 DEF UrlStart
  <2>3. Early(0, base)
    BY <2>2 DEF Early
  <2>4. base.s \in UrlStates
    BY <2>2 DEF UrlStates
  <2>5. base \in Splits
    BY <2>1, <2>4 DEF UrlStart, Splits, Field3
  <2> QED BY <2>3, <2>4, <2>5
<1> HIDE DEF base
<1>3. PICK g \in [0 .. n -> UrlStates] :
         /\ g[0] = base.s /\ g[n] = FoldLeft(parse_url_char, base.s, w)
         /\ \A k \in 1 .. n : g[k] = parse_url_char(g[k - 1], w[k])
  BY <1>2, StreamFold
<1>4. PICK h \in [0 .. n -> Splits] :
         /\ h[0] = base /\ h[n] = UrlLoop(w, base)
         /\ \A k \in 1 .. n : h[k] = UrlTurn(w, h[k - 1], k)
  BY <1>1, <1>2, UrlFold
<1>5. h[n] = a
  BY <1>4 DEF base
<1> DEFINE S == {k \in 0 .. n : g[k] = h[k].s /\ Early(k, h[k])}
<1> HIDE DEF n
<1>6. \A k \in 0 .. n : k \in S
  <2>1. 0 \in S
    BY <1>1, <1>2, <1>3, <1>4
  <2>2. ASSUME NEW k \in 0 .. n, k \in S, k < n PROVE k + 1 \in S
    <3>1. k + 1 \in 1 .. n /\ (k + 1) - 1 = k /\ k + 1 \in 0 .. n /\ k \in Nat
      BY <1>1, <2>2, UpToNext
    <3> HIDE DEF base
    <3>2. g[k] = h[k].s /\ Early(k, h[k])
      BY <2>2
    <3>9. h[k] \in Splits
      BY <1>4
    <3>3. g[k + 1] = parse_url_char(g[k], w[k + 1]) /\ h[k + 1] = UrlTurn(w, h[k], k + 1)
      BY <1>3, <1>4, <3>1
    <3>4. h[k + 1].s = parse_url_char(h[k].s, w[k + 1])
      <4>1. k + 1 \in Nat
        BY <3>1
      <4>2. UrlTurn(w, h[k], k + 1).s = parse_url_char(h[k].s, w[k + 1])
        BY <3>9, <4>1, TurnType
      <4> QED BY <3>3, <4>2
    <3>5. Early(k + 1, h[k + 1])
      BY <3>1, <3>2, <3>3, <3>9, EarlyTurn
    <3> QED BY <3>1, <3>2, <3>3, <3>4, <3>5
  <2> HIDE DEF S
  <2> QED BY <1>1, <2>1, <2>2, UpTo
<1>7. g[n] = a.s /\ Early(n, a) /\ a \in Splits
  BY <1>1, <1>4, <1>5, <1>6
<1>8. a.s \in UrlStates
  BY <1>7 DEF Splits
<1>9. CASE a.s \in EarlyStates \/ a.s = "s_req_server_start"
  <2>1. a.u["host"] = None /\ (a.u["schema"][1] # 0 \/ a.s = "s_req_spaces_before_url")
    BY <1>1, <1>7, <1>9 DEF Early, EarlyStates
  <2>2. a.s # "s_req_spaces_before_url"
    BY <1>1, <1>7 DEF Early
  <2> QED BY <2>1, <2>2 DEF None
<1>10. CASE a.s \notin EarlyStates /\ a.s # "s_req_server_start" /\ a.s # "s_dead"
  BY <1>3, <1>7, <1>8, <1>10, MayEnd DEF base
<1> QED BY <1>9, <1>10

LEMMA TakenByBoth ==
    ASSUME NEW L, NEW w \in Seq(L), w # <<>>, NEW c \in BOOLEAN, http_parser_parse_url(w, c).ok
    PROVE  StreamTakes(w, c)
<1> DEFINE a == UrlLoop(w, UrlStart(c))
<1>1. a.s # "s_dead" /\ (a.u["schema"] # None => a.u["host"] # None)
  BY DEF http_parser_parse_url, UrlStart, UrlLoop
<1>2. a.s \in UrlMayEnd /\ a.s = FoldLeft(parse_url_char, UrlStart(c).s, w)
  <2> HIDE DEF a
  <2>1. a = UrlLoop(w, UrlStart(c))
    BY DEF a
  <2> QED BY <1>1, <2>1, LoopEnds
<1>3. UrlStart(c).s = IF c THEN "s_req_server_start" ELSE "s_req_spaces_before_url"
  BY DEF UrlStart
<1> HIDE DEF a
<1> QED BY <1>2, <1>3 DEF StreamTakes

\* The letters a URL has, those it grows from included.
TypedLetters == Letters \cup {"a", ":", "/", "@", "[", "%", "1", "?"}
UrlTyped == connect \in BOOLEAN /\ url \in Seq(TypedLetters)

\* A URL is at all times a sequence of letters: what the two theorems about the
\* splitter rest on.
LEMMA UrlTypes == UrlSpec => []UrlTyped
<1>1. UrlInit => UrlTyped
  <2>1. /\ "a" \in TypedLetters /\ ":" \in TypedLetters /\ "/" \in TypedLetters /\ "@" \in TypedLetters
        /\ "[" \in TypedLetters /\ "%" \in TypedLetters /\ "1" \in TypedLetters /\ "?" \in TypedLetters
    BY DEF TypedLetters
  <2>2. <<>> \in Seq(TypedLetters)
    OBVIOUS
  <2>3. <<"a", ":", "/", "/">> \in Seq(TypedLetters)
    BY <2>1
  <2>4. <<"a", ":", "/", "/", "a", "@", "[", "a", "%">> \in Seq(TypedLetters)
    BY <2>1
  <2>5. <<"a", ":", "1", "?">> \in Seq(TypedLetters)
    BY <2>1
  <2>7. ASSUME NEW t \in Seq(TypedLetters) PROVE Long(t) \in Seq(TypedLetters)
    <3> DEFINE m == Width16 - 2 - Len(t)
               more == [i \in 1 .. m |-> "a"]
    <3>1. m \in Int
      BY WidthAssumption
    <3> HIDE DEF m
    <3>2. ASSUME m \in Nat PROVE more \in Seq(TypedLetters)
      BY <2>1, <3>2
    <3>3. ASSUME ~ (m \in Nat) PROVE more \in Seq(TypedLetters)
      <4>1. 1 .. m = 1 .. 0
        BY <3>1, <3>3
      <4>2. more = [i \in 1 .. 0 |-> "a"]
        BY <4>1
      <4>3. [i \in 1 .. 0 |-> "a"] \in Seq(TypedLetters)
        BY <2>1
      <4> HIDE DEF more
      <4> QED BY <4>2, <4>3
    <3>4. more \in Seq(TypedLetters)
      BY <3>1, <3>2, <3>3
    <3> HIDE DEF more
    <3>5. Long(t) = t \o more
      BY DEF Long, m, more
    <3> QED BY <3>4, <3>5
  <2>8. <<"a">> \in Seq(TypedLetters) /\ <<"/">> \in Seq(TypedLetters)
    BY <2>1
  <2>9. /\ Long(<<"a">>) \in Seq(TypedLetters) /\ Long(<<"/">>) \in Seq(TypedLetters)
        /\ Long(<<"a", ":", "/", "/">>) \in Seq(TypedLetters)
    BY <2>3, <2>7, <2>8
  <2>6. \A c \in BOOLEAN : Starts(c) \subseteq Seq(TypedLetters)
    BY <2>2, <2>3, <2>4, <2>5, <2>9 DEF Starts
  <2> QED BY <2>6 DEF UrlInit, UrlTyped
<1>2. UrlTyped /\ [Grows]_<<url, connect>> => UrlTyped'
  <2>1. CASE Grows
    <3>1. PICK c \in Letters : url' = Append(url, c)
      BY <2>1 DEF Grows
    <3>2. c \in TypedLetters /\ TypedLetters' = TypedLetters
      BY DEF TypedLetters
    <3>3. UrlTyped => url' \in Seq(TypedLetters)
      BY <3>1, <3>2 DEF UrlTyped
    <3> QED BY <2>1, <3>2, <3>3 DEF Grows, UrlTyped
  <2>2. CASE UNCHANGED <<url, connect>>
    <3>1. TypedLetters' = TypedLetters
      BY DEF TypedLetters
    <3> QED BY <2>2, <3>1 DEF UrlTyped
  <2> QED BY <2>1, <2>2
<1> QED BY <1>1, <1>2, PTL DEF UrlSpec

\* A URL that http_parser_parse_url accepts is one that http_parser_execute lets
\* through as the target of a request: for URLs of every length.
THEOREM SplitterAgrees == UrlSpec => []SplitterWithinStream
<1>1. UrlTyped => SplitterWithinStream
  BY TakenByBoth DEF UrlTyped, SplitterWithinStream
<1> QED BY <1>1, UrlTypes, PTL

-----------------------------------------------------------------------------
(* The fields of a URL are those it is meant to have.                       *)

\* The places of a URL that Meant finds.
Colon == FirstIn(1, {":"})
HasSchema ==
    /\ ~connect /\ Colon > 1 /\ Colon + 2 <= Len(url)
    /\ Span(1, Colon - 1, Alpha)
    /\ url[Colon + 1] = "/" /\ url[Colon + 2] = "/"
Hosted == HasSchema \/ connect
From == IF HasSchema THEN Colon + 3 ELSE 1
To == IF Hosted THEN FirstIn(From, {"/", "?"}) - 1 ELSE 0
Hash == FirstIn(To + 1, {"#"})
Question == Min({FirstIn(To + 1, {"?"}), Hash})
Anchor == Min({k \in Hash .. Len(url) : url[k] # "#"} \cup {Len(url) + 1})
Rooted == ~Hosted /\ (Len(url) = 0 \/ url[1] \in {"/", "*"})

LEMMA FirstIs ==
    ASSUME Len(url) \in Nat, NEW i \in 1 .. Len(url) + 1, NEW S
    PROVE  /\ FirstIn(i, S) \in i .. Len(url) + 1
           /\ FirstIn(i, S) <= Len(url) => url[FirstIn(i, S)] \in S
           /\ \A k \in i .. FirstIn(i, S) - 1 : url[k] \notin S
<1> DEFINE T == {j \in i .. Len(url) : url[j] \in S} \cup {Len(url) + 1}
<1>1. T \in SUBSET Nat /\ T # {} /\ Len(url) + 1 \in T
  OBVIOUS
<1>2. Min(T) \in T /\ \A x \in T : Min(T) <= x
  <2> HIDE DEF T
  <2> QED BY <1>1, LeastOf
<1>3. FirstIn(i, S) = Min(T)
  BY DEF FirstIn
<1>4. FirstIn(i, S) \in T /\ \A x \in T : FirstIn(i, S) <= x
  BY <1>2, <1>3
<1>5. FirstIn(i, S) \in i .. Len(url) + 1 /\ (FirstIn(i, S) <= Len(url) => url[FirstIn(i, S)] \in S)
  BY <1>4
<1>6. ASSUME NEW k \in i .. FirstIn(i, S) - 1, url[k] \in S PROVE FALSE
  <2>1. k \in T /\ k < FirstIn(i, S)
    BY <1>5, <1>6
  <2> HIDE DEF T
  <2>2. FirstIn(i, S) <= k /\ k \in Nat /\ FirstIn(i, S) \in Nat
    BY <1>1, <1>4, <2>1
  <2> QED BY <2>1, <2>2
<1> QED BY <1>5, <1>6

LEMMA LessOf ==
    ASSUME NEW a \in Nat, NEW b \in Nat
    PROVE  Min({a, b}) = IF a <= b THEN a ELSE b
<1>1. Min({a, b}) \in {a, b} /\ \A x \in {a, b} : Min({a, b}) <= x
  <2>1. {a, b} \in SUBSET Nat /\ {a, b} # {}
    OBVIOUS
  <2> QED BY <2>1, LeastOf
<1> QED BY <1>1

\* Where the places are, and what the letters are in between.
Places ==
    /\ From \in 1 .. Len(url) + 1 /\ To \in 0 .. Len(url) /\ From - 1 <= To
    /\ HasSchema => /\ Colon \in 2 .. Len(url) - 2 /\ From = Colon + 3
                    /\ \A k \in 1 .. Colon - 1 : url[k] \in Alpha
                    /\ url[Colon] = ":" /\ url[Colon + 1] = "/" /\ url[Colon + 2] = "/"
    /\ ~HasSchema => From = 1
    /\ ~Hosted => To = 0
    /\ \A k \in From .. To : url[k] \notin {"/", "?"}
    /\ Hosted /\ To < Len(url) => url[To + 1] \in {"/", "?"}
    /\ Hash \in To + 1 .. Len(url) + 1 /\ (Hash <= Len(url) => url[Hash] = "#")
    /\ \A k \in To + 1 .. Hash - 1 : url[k] # "#"
    /\ Question \in To + 1 .. Hash /\ (Question < Hash => url[Question] = "?")
    /\ \A k \in To + 1 .. Question - 1 : url[k] # "?"
    /\ Anchor \in Hash .. Len(url) + 1 /\ (Anchor <= Len(url) => url[Anchor] # "#")
    /\ \A k \in Hash .. Anchor - 1 : url[k] = "#"
    /\ Hash <= Len(url) => Hash < Anchor

LEMMA PlacesAre == ASSUME Len(url) \in Nat PROVE Places
<1>1. /\ Colon \in 1 .. Len(url) + 1 /\ (Colon <= Len(url) => url[Colon] = ":")
  <2>1. 1 \in 1 .. Len(url) + 1
    OBVIOUS
  <2> QED BY <2>1, FirstIs DEF Colon
<1>2. /\ From \in 1 .. Len(url) + 1 /\ (~HasSchema => From = 1)
      /\ HasSchema => /\ Colon \in 2 .. Len(url) - 2 /\ From = Colon + 3
                      /\ \A k \in 1 .. Colon - 1 : url[k] \in Alpha
                      /\ url[Colon] = ":" /\ url[Colon + 1] = "/" /\ url[Colon + 2] = "/"
  <2>1. CASE HasSchema
    <3>1. /\ Colon > 1 /\ Colon + 2 <= Len(url) /\ url[Colon + 1] = "/" /\ url[Colon + 2] = "/"
          /\ \A k \in 1 .. Colon - 1 : url[k] \in Alpha
      BY <2>1 DEF HasSchema, Span
    <3> QED BY <1>1, <2>1, <3>1 DEF From
  <2>2. CASE ~HasSchema
    BY <2>2 DEF From
  <2> QED BY <2>1, <2>2
<1>3. /\ To \in 0 .. Len(url) /\ From - 1 <= To /\ (~Hosted => To = 0)
      /\ \A k \in From .. To : url[k] \notin {"/", "?"}
      /\ Hosted /\ To < Len(url) => url[To + 1] \in {"/", "?"}
  <2>1. CASE Hosted
    <3> DEFINE e == FirstIn(From, {"/", "?"})
    <3>1. /\ e \in From .. Len(url) + 1 /\ (e <= Len(url) => url[e] \in {"/", "?"})
          /\ \A k \in From .. e - 1 : url[k] \notin {"/", "?"}
      BY <1>2, FirstIs
    <3>2. To = e - 1
      BY <2>1 DEF To
    <3> HIDE DEF e
    <3>3. To + 1 = e /\ (To < Len(url) => e <= Len(url)) /\ To \in 0 .. Len(url) /\ From - 1 <= To
      BY <1>2, <3>1, <3>2
    <3> QED BY <2>1, <3>1, <3>2, <3>3
  <2>2. CASE ~Hosted
    <3>1. ~HasSchema
      BY <2>2 DEF Hosted
    <3> QED BY <1>2, <2>2, <3>1 DEF To
  <2> QED BY <2>1, <2>2
<1>4. To + 1 \in 1 .. Len(url) + 1
  BY <1>3
<1>5. /\ Hash \in To + 1 .. Len(url) + 1 /\ (Hash <= Len(url) => url[Hash] = "#")
      /\ \A k \in To + 1 .. Hash - 1 : url[k] # "#"
  BY <1>4, FirstIs DEF Hash
<1>6. /\ Question \in To + 1 .. Hash /\ (Question < Hash => url[Question] = "?")
      /\ \A k \in To + 1 .. Question - 1 : url[k] # "?"
  <2> DEFINE q == FirstIn(To + 1, {"?"})
  <2>1. /\ q \in To + 1 .. Len(url) + 1 /\ (q <= Len(url) => url[q] = "?")
        /\ \A k \in To + 1 .. q - 1 : url[k] # "?"
    BY <1>4, FirstIs
  <2>2. Question = Min({q, Hash})
    BY DEF Question
  <2> HIDE DEF q
  <2>3. q \in Nat /\ Hash \in Nat
    BY <1>3, <1>5, <2>1
  <2>4. Question = IF q <= Hash THEN q ELSE Hash
    BY <2>2, <2>3, LessOf
  <2> QED BY <1>3, <1>5, <2>1, <2>3, <2>4
<1>7. /\ Anchor \in Hash .. Len(url) + 1 /\ (Anchor <= Len(url) => url[Anchor] # "#")
      /\ \A k \in Hash .. Anchor - 1 : url[k] = "#"
  <2> DEFINE T == {k \in Hash .. Len(url) : url[k] # "#"} \cup {Len(url) + 1}
  <2>1. T \in SUBSET Nat /\ T # {}
    BY <1>3, <1>5
  <2>2. Anchor = Min(T)
    BY DEF Anchor
  <2>3. Anchor \in T /\ \A x \in T : Anchor <= x
    <3> HIDE DEF T
    <3> QED BY <2>1, <2>2, LeastOf
  <2>4. Anchor \in Hash .. Len(url) + 1 /\ (Anchor <= Len(url) => url[Anchor] # "#")
    BY <1>3, <1>5, <2>3
  <2>5. ASSUME NEW k \in Hash .. Anchor - 1, url[k] # "#" PROVE FALSE
    <3>1. k \in T /\ k < Anchor /\ Anchor \in Nat /\ k \in Nat
      BY <1>3, <1>5, <2>4, <2>5
    <3> HIDE DEF T
    <3> QED BY <2>3, <3>1
  <2> QED BY <2>4, <2>5
<1>8. Hash <= Len(url) => Hash < Anchor
  BY <1>3, <1>5, <1>7
<1> HIDE DEF Colon, From, To, Hash, Question, Anchor
<1> QED BY <1>2, <1>3, <1>5, <1>6, <1>7, <1>8 DEF Places

-----------------------------------------------------------------------------
\* The transitions of parse_url_char, state by state.
Goes(s, c) ==
    CASE s = "s_req_spaces_before_url" ->
           IF c \in {"/", "*"} THEN "s_req_path" ELSE IF c \in Alpha THEN "s_req_schema" ELSE "s_dead"
      [] s = "s_req_schema" ->
           IF c \in Alpha THEN "s_req_schema" ELSE IF c = ":" THEN "s_req_schema_slash" ELSE "s_dead"
      [] s = "s_req_schema_slash" -> IF c = "/" THEN "s_req_schema_slash_slash" ELSE "s_dead"
      [] s = "s_req_schema_slash_slash" -> IF c = "/" THEN "s_req_server_start" ELSE "s_dead"
      [] s \in ServerStates ->
           IF c = "/" THEN "s_req_path" ELSE IF c = "?" THEN "s_req_query_string_start"
           ELSE IF c = "@" THEN IF s = "s_req_server_with_at" THEN "s_dead" ELSE "s_req_server_with_at"
           ELSE IF c = "#" THEN "s_dead" ELSE "s_req_server"
      [] s = "s_req_path" ->
           IF c = "?" THEN "s_req_query_string_start"
           ELSE IF c = "#" THEN "s_req_fragment_start" ELSE "s_req_path"
      [] s \in QueryStates -> IF c = "#" THEN "s_req_fragment_start" ELSE "s_req_query_string"
      [] s = "s_req_fragment_start" -> IF c = "#" THEN "s_req_fragment_start" ELSE "s_req_fragment"
      [] s = "s_req_fragment" -> "s_req_fragment"
      [] OTHER -> "s_dead"

LEMMA GoesRight ==
    ASSUME NEW s \in UrlStates, NEW c \in UrlLetters
    PROVE  parse_url_char(s, c) = Goes(s, c)
<1>1. \A x \in UrlEdges : x.to = Goes(x.from, x.on) /\ x.to # "s_dead"
  <2> SUFFICES ASSUME NEW x \in UrlEdges PROVE x.to = Goes(x.from, x.on) /\ x.to # "s_dead"
    OBVIOUS
  <2> QED BY DEF UrlEdges, Goes, ServerStates, QueryStates, FragmentStates, UrlChar, Userinfo, AlphaNum, Alpha, Num
<1>2. Goes(s, c) # "s_dead" => [from |-> s, on |-> c, to |-> Goes(s, c)] \in UrlEdges
  <2> SUFFICES ASSUME Goes(s, c) # "s_dead" PROVE [from |-> s, on |-> c, to |-> Goes(s, c)] \in UrlEdges
    OBVIOUS
  <2>1. c \in Userinfo \cup {"/", "@", "[", "]", "?", "#"}
    BY DEF UrlLetters, UrlChar
  <2>2. CASE s \in ServerStates
    <3> DEFINE t == Goes(s, c)
    <3>1. \/ c = "/" /\ t = "s_req_path"
          \/ c = "?" /\ t = "s_req_query_string_start"
          \/ c = "@" /\ t = "s_req_server_with_at" /\ s # "s_req_server_with_at"
          \/ c \in Userinfo \cup {"[", "]"} /\ t = "s_req_server"
      <4>1. Goes(s, c) =
              IF c = "/" THEN "s_req_path" ELSE IF c = "?" THEN "s_req_query_string_start"
              ELSE IF c = "@" THEN IF s = "s_req_server_with_at" THEN "s_dead" ELSE "s_req_server_with_at"
              ELSE IF c = "#" THEN "s_dead" ELSE "s_req_server"
        BY <2>2 DEF Goes, ServerStates, QueryStates
      <4> QED BY <2>1, <4>1
    <3> HIDE DEF t
    <3>2. [from |-> s, on |-> c, to |-> t] \in UrlEdges
      BY <2>2, <3>1 DEF UrlEdges
    <3> QED BY <3>2 DEF t
  <2>3. CASE s \in QueryStates
    <3> DEFINE t == Goes(s, c)
    <3>1. \/ c = "#" /\ t = "s_req_fragment_start"
          \/ c \in UrlChar \cup {"?"} /\ t = "s_req_query_string"
      BY <2>3 DEF Goes, ServerStates, QueryStates, UrlLetters
    <3> HIDE DEF t
    <3>2. [from |-> s, on |-> c, to |-> t] \in UrlEdges
      BY <2>3, <3>1 DEF UrlEdges
    <3> QED BY <3>2 DEF t
  <2>4. CASE s \in FragmentStates
    <3> DEFINE t == Goes(s, c)
    <3>1. \/ c = "#" /\ t = s
          \/ c \in UrlChar \cup {"?"} /\ t = "s_req_fragment"
      BY <2>4 DEF Goes, ServerStates, QueryStates, FragmentStates, UrlLetters
    <3> HIDE DEF t
    <3>2. [from |-> s, on |-> c, to |-> t] \in UrlEdges
      BY <2>4, <3>1 DEF UrlEdges, FragmentStates
    <3> QED BY <3>2 DEF t
  <2>5. CASE s = "s_req_path"
    <3> DEFINE t == Goes(s, c)
    <3>1. \/ c = "#" /\ t = "s_req_fragment_start"
          \/ c = "?" /\ t = "s_req_query_string_start"
          \/ c \in UrlChar /\ t = "s_req_path"
      BY <2>5 DEF Goes, ServerStates, QueryStates, UrlLetters
    <3> HIDE DEF t
    <3>2. [from |-> s, on |-> c, to |-> t] \in UrlEdges
      BY <2>5, <3>1 DEF UrlEdges
    <3> QED BY <3>2 DEF t
  <2>6. CASE s \in {"s_dead", "s_req_spaces_before_url", "s_req_schema", "s_req_schema_slash",
                    "s_req_schema_slash_slash"}
    BY <2>6 DEF Goes, UrlEdges, ServerStates, QueryStates
  <2> QED BY <2>2, <2>3, <2>4, <2>5, <2>6 DEF UrlStates, ServerStates, QueryStates, FragmentStates
<1>3. HasTarget(UrlEdges, "s_dead", s, c, parse_url_char(s, c))
  BY Edge
<1>4. CASE Goes(s, c) # "s_dead"
  <2> DEFINE e == [from |-> s, on |-> c, to |-> Goes(s, c)]
  <2>1. e \in UrlEdges /\ e.from = s /\ e.on = c
    BY <1>2, <1>4
  <2> HIDE DEF e
  <2>2. \E x \in UrlEdges : x.from = s /\ x.on = c /\ x.to = parse_url_char(s, c)
    BY <1>3, <2>1 DEF HasTarget
  <2> QED BY <1>1, <2>2
<1>5. CASE Goes(s, c) = "s_dead"
  <2>1. ~ \E x \in UrlEdges : x.from = s /\ x.on = c
    BY <1>1, <1>5
  <2> QED BY <1>3, <1>5, <2>1 DEF HasTarget
<1> QED BY <1>4, <1>5

\* The state after k letters of a URL that begins with a schema, an authority
\* or a root.
TailState(k) ==
    IF k < Question THEN "s_req_path"
    ELSE IF k < Hash THEN IF k = Question THEN "s_req_query_string_start" ELSE "s_req_query_string"
    ELSE IF k < Anchor THEN "s_req_fragment_start" ELSE "s_req_fragment"

StateAt(k) ==
    IF k > To /\ k # 0 THEN TailState(k)
    ELSE IF k >= From THEN IF url[k] = "@" THEN "s_req_server_with_at" ELSE "s_req_server"
    ELSE IF Hosted /\ k = From - 1 THEN "s_req_server_start"
    ELSE IF k = 0 THEN "s_req_spaces_before_url"
    ELSE IF k < Colon THEN "s_req_schema"
    ELSE IF k = Colon THEN "s_req_schema_slash" ELSE "s_req_schema_slash_slash"

\* What the automaton asks of the letters of such a URL.
Clean ==
    /\ Span(1, Len(url), UrlLetters)
    /\ \A k \in From .. To : url[k] # "#" /\ (k > From /\ url[k] = "@" => url[k - 1] # "@")

\* The automaton goes from the state after k letters to the one after k + 1, if
\* it goes on at all.
Advances(k) ==
    /\ Goes(StateAt(k), url[k + 1]) # "s_dead" => Goes(StateAt(k), url[k + 1]) = StateAt(k + 1)
    /\ Clean => Goes(StateAt(k), url[k + 1]) # "s_dead"

LEMMA SchemaAdvances ==
    ASSUME Len(url) \in Nat, Places, HasSchema, NEW k \in 0 .. Len(url) - 1, k + 1 < From
    PROVE  Advances(k)
<1>1. /\ Colon \in 2 .. Len(url) - 2 /\ From = Colon + 3 /\ ~connect /\ Hosted
      /\ \A j \in 1 .. Colon - 1 : url[j] \in Alpha
      /\ url[Colon] = ":" /\ url[Colon + 1] = "/" /\ url[Colon + 2] = "/"
      /\ From - 1 <= To /\ To \in Nat
  BY DEF Places, HasSchema, Hosted
<1>2. CASE k = 0
  <2>1. StateAt(k) = "s_req_spaces_before_url" /\ StateAt(k + 1) = "s_req_schema"
    BY <1>1, <1>2 DEF StateAt
  <2>2. url[k + 1] \in Alpha
    BY <1>1, <1>2
  <2>3. Goes("s_req_spaces_before_url", url[k + 1]) = "s_req_schema"
    BY <2>2 DEF Goes, Alpha, ServerStates, QueryStates
  <2> QED BY <2>1, <2>3 DEF Advances
<1>3. CASE k \in 1 .. Colon - 2
  <2>1. StateAt(k) = "s_req_schema" /\ StateAt(k + 1) = "s_req_schema"
    BY <1>1, <1>3 DEF StateAt
  <2>2. url[k + 1] \in Alpha
    BY <1>1, <1>3
  <2>3. Goes("s_req_schema", url[k + 1]) = "s_req_schema"
    BY <2>2 DEF Goes, Alpha, ServerStates, QueryStates
  <2> QED BY <2>1, <2>3 DEF Advances
<1>4. CASE k = Colon - 1
  <2>1. StateAt(k) = "s_req_schema" /\ StateAt(k + 1) = "s_req_schema_slash"
    BY <1>1, <1>4 DEF StateAt
  <2>2. url[k + 1] = ":"
    BY <1>1, <1>4
  <2>3. Goes("s_req_schema", url[k + 1]) = "s_req_schema_slash"
    BY <2>2 DEF Goes, Alpha, ServerStates, QueryStates
  <2> QED BY <2>1, <2>3 DEF Advances
<1>5. CASE k = Colon
  <2>1. StateAt(k) = "s_req_schema_slash" /\ StateAt(k + 1) = "s_req_schema_slash_slash"
    BY <1>1, <1>5 DEF StateAt
  <2>2. url[k + 1] = "/"
    BY <1>1, <1>5
  <2>3. Goes("s_req_schema_slash", url[k + 1]) = "s_req_schema_slash_slash"
    BY <2>2 DEF Goes, Alpha, ServerStates, QueryStates
  <2> QED BY <2>1, <2>3 DEF Advances
<1>6. CASE k = Colon + 1
  <2>1. StateAt(k) = "s_req_schema_slash_slash" /\ StateAt(k + 1) = "s_req_server_start"
    BY <1>1, <1>6 DEF StateAt
  <2>2. url[k + 1] = "/"
    BY <1>1, <1>6
  <2>3. Goes("s_req_schema_slash_slash", url[k + 1]) = "s_req_server_start"
    BY <2>2 DEF Goes, Alpha, ServerStates, QueryStates
  <2> QED BY <2>1, <2>3 DEF Advances
<1> QED BY <1>1, <1>2, <1>3, <1>4, <1>5, <1>6

\* The states before and within an authority.
LEMMA ServerState ==
    ASSUME Places, Hosted, NEW k \in Nat, From - 1 <= k, k <= To
    PROVE  /\ StateAt(k) \in ServerStates
           /\ StateAt(k) = "s_req_server_with_at" <=> k >= From /\ url[k] = "@"
<1>1. From \in Nat /\ To \in Nat
  BY DEF Places
<1> QED BY <1>1 DEF StateAt, ServerStates

LEMMA ServerGoes ==
    ASSUME NEW s \in ServerStates, NEW c
    PROVE  Goes(s, c) =
             IF c = "/" THEN "s_req_path" ELSE IF c = "?" THEN "s_req_query_string_start"
             ELSE IF c = "@" THEN IF s = "s_req_server_with_at" THEN "s_dead" ELSE "s_req_server_with_at"
             ELSE IF c = "#" THEN "s_dead" ELSE "s_req_server"
BY DEF Goes, ServerStates, QueryStates

LEMMA ServerAdvances ==
    ASSUME Len(url) \in Nat, Places, Hosted, NEW k \in 0 .. Len(url) - 1, From - 1 <= k, k < To
    PROVE  Advances(k)
<1> DEFINE c == url[k + 1]
<1>1. From \in Nat /\ To \in Nat /\ k \in Nat /\ k + 1 \in From .. To
  BY DEF Places
<1>2. StateAt(k) \in ServerStates /\ (StateAt(k) = "s_req_server_with_at" <=> k >= From /\ url[k] = "@")
  BY <1>1, ServerState
<1>3. StateAt(k + 1) = IF c = "@" THEN "s_req_server_with_at" ELSE "s_req_server"
  BY <1>1 DEF StateAt
<1>4. c # "/" /\ c # "?"
  BY <1>1 DEF Places
<1>5. Goes(StateAt(k), c) =
        IF c = "@" THEN IF StateAt(k) = "s_req_server_with_at" THEN "s_dead" ELSE "s_req_server_with_at"
        ELSE IF c = "#" THEN "s_dead" ELSE "s_req_server"
  BY <1>2, <1>4, ServerGoes
<1>6. Clean => c # "#" /\ (c = "@" => StateAt(k) # "s_req_server_with_at")
  <2> SUFFICES ASSUME Clean PROVE c # "#" /\ (c = "@" => StateAt(k) # "s_req_server_with_at")
    OBVIOUS
  <2>1. c # "#" /\ (k + 1 > From /\ c = "@" => url[(k + 1) - 1] # "@")
    BY <1>1 DEF Clean
  <2>2. (k + 1) - 1 = k
    BY <1>1
  <2> QED BY <1>1, <1>2, <2>1, <2>2
<1> HIDE DEF c
<1>7. /\ Goes(StateAt(k), c) # "s_dead" => Goes(StateAt(k), c) = StateAt(k + 1)
      /\ Clean => Goes(StateAt(k), c) # "s_dead"
  BY <1>3, <1>5, <1>6
<1> QED BY <1>7 DEF Advances, c

\* What follows the authority begins with the path or with the query.
LEMMA RootAdvances ==
    ASSUME Len(url) \in Nat, Places, Hosted \/ Rooted, NEW k \in 0 .. Len(url) - 1, k = To
    PROVE  Advances(k)
<1> DEFINE c == url[k + 1]
<1>1. /\ From \in Nat /\ To \in Nat /\ k \in Nat /\ Hash \in To + 1 .. Len(url) + 1
      /\ Question \in To + 1 .. Hash
  BY DEF Places
<1>2. StateAt(k + 1) = TailState(k + 1)
  BY <1>1 DEF StateAt
<1>3. CASE Hosted
  <2>1. c \in {"/", "?"} /\ StateAt(k) \in ServerStates
    BY <1>1, <1>3, ServerState DEF Places
  <2>2. Goes(StateAt(k), c) = IF c = "/" THEN "s_req_path" ELSE "s_req_query_string_start"
    BY <2>1, ServerGoes
  <2>3. CASE c = "/"
    <3>1. Question # k + 1 /\ Hash # k + 1
      BY <1>1, <2>3 DEF Places
    <3>2. k + 1 < Question
      BY <1>1, <3>1
    <3>3. StateAt(k + 1) = "s_req_path"
      BY <1>1, <1>2, <3>2 DEF TailState
    <3> QED BY <2>2, <2>3, <3>3 DEF Advances
  <2>4. CASE c = "?"
    <3>1. Question <= k + 1 /\ Hash # k + 1
      BY <1>1, <2>4 DEF Places
    <3>2. k + 1 = Question /\ k + 1 < Hash
      BY <1>1, <3>1
    <3>3. StateAt(k + 1) = "s_req_query_string_start"
      BY <1>1, <1>2, <3>2 DEF TailState
    <3> QED BY <2>2, <2>4, <3>3 DEF Advances
  <2> QED BY <2>1, <2>3, <2>4
<1>4. CASE Rooted
  <2>1. k = 0 /\ ~Hosted /\ From = 1 /\ c \in {"/", "*"}
    BY <1>4 DEF Rooted, Places, Hosted
  <2>2. StateAt(k) = "s_req_spaces_before_url"
    BY <1>1, <2>1 DEF StateAt
  <2>3. Goes(StateAt(k), c) = "s_req_path"
    BY <2>1, <2>2 DEF Goes, ServerStates, QueryStates
  <2>4. Question # k + 1 /\ Hash # k + 1
    BY <1>1, <2>1 DEF Places
  <2>5. StateAt(k + 1) = "s_req_path"
    BY <1>1, <1>2, <2>4 DEF TailState
  <2> QED BY <2>3, <2>5 DEF Advances
<1> QED BY <1>3, <1>4

LEMMA TailAdvances ==
    ASSUME Len(url) \in Nat, Places, NEW k \in 0 .. Len(url) - 1, k > To
    PROVE  Advances(k)
<1> DEFINE c == url[k + 1]
<1>1. /\ From \in Nat /\ To \in Nat /\ k \in Nat /\ Hash \in To + 1 .. Len(url) + 1
      /\ Question \in To + 1 .. Hash /\ Anchor \in Hash .. Len(url) + 1 /\ k + 1 <= Len(url)
      /\ Hash <= Len(url) => Hash < Anchor
  BY DEF Places
<1>2. StateAt(k) = TailState(k) /\ StateAt(k + 1) = TailState(k + 1)
  BY <1>1 DEF StateAt
<1>3. CASE k < Question
  <2>1. StateAt(k) = "s_req_path"
    BY <1>2, <1>3 DEF TailState
  <2>2. Goes(StateAt(k), c) = IF c = "?" THEN "s_req_query_string_start"
                              ELSE IF c = "#" THEN "s_req_fragment_start" ELSE "s_req_path"
    BY <2>1 DEF Goes, ServerStates, QueryStates
  <2>3. (c = "?" <=> k + 1 = Question /\ Question < Hash) /\ (c = "#" <=> k + 1 = Hash)
    BY <1>1, <1>3 DEF Places
  <2>4. StateAt(k + 1) = IF c = "?" THEN "s_req_query_string_start"
                         ELSE IF c = "#" THEN "s_req_fragment_start" ELSE "s_req_path"
    BY <1>1, <1>2, <1>3, <2>3 DEF TailState
  <2> QED BY <2>2, <2>4 DEF Advances
<1>4. CASE Question <= k /\ k < Hash
  <2>1. StateAt(k) \in QueryStates
    BY <1>1, <1>2, <1>4 DEF TailState, QueryStates
  <2>2. Goes(StateAt(k), c) = IF c = "#" THEN "s_req_fragment_start" ELSE "s_req_query_string"
    BY <2>1 DEF Goes, ServerStates, QueryStates
  <2>3. c = "#" <=> k + 1 = Hash
    BY <1>1, <1>4 DEF Places
  <2>4. StateAt(k + 1) = IF c = "#" THEN "s_req_fragment_start" ELSE "s_req_query_string"
    BY <1>1, <1>2, <1>4, <2>3 DEF TailState
  <2> QED BY <2>2, <2>4 DEF Advances
<1>5. CASE Hash <= k /\ k < Anchor
  <2>1. StateAt(k) = "s_req_fragment_start"
    BY <1>1, <1>2, <1>5 DEF TailState
  <2>2. Goes(StateAt(k), c) = IF c = "#" THEN "s_req_fragment_start" ELSE "s_req_fragment"
    BY <2>1 DEF Goes, ServerStates, QueryStates
  <2>3. c # "#" <=> k + 1 = Anchor
    BY <1>1, <1>5 DEF Places
  <2>4. StateAt(k + 1) = IF c = "#" THEN "s_req_fragment_start" ELSE "s_req_fragment"
    BY <1>1, <1>2, <1>5, <2>3 DEF TailState
  <2> QED BY <2>2, <2>4 DEF Advances
<1>6. CASE Anchor <= k
  <2>1. StateAt(k) = "s_req_fragment" /\ StateAt(k + 1) = "s_req_fragment"
    BY <1>1, <1>2, <1>6 DEF TailState
  <2>2. Goes(StateAt(k), c) = "s_req_fragment"
    BY <2>1 DEF Goes, ServerStates, QueryStates
  <2> QED BY <2>1, <2>2 DEF Advances
<1> QED BY <1>1, <1>3, <1>4, <1>5, <1>6

LEMMA AllAdvance ==
    ASSUME Len(url) \in Nat, Hosted \/ Rooted, NEW k \in 0 .. Len(url) - 1
    PROVE  Advances(k)
<1>1. Places /\ From \in Nat /\ To \in Nat /\ From - 1 <= To
  BY PlacesAre DEF Places
<1>2. CASE k + 1 < From
  <2>1. HasSchema
    BY <1>1, <1>2 DEF Places
  <2> QED BY <1>1, <1>2, <2>1, SchemaAdvances
<1>3. CASE From - 1 <= k /\ k < To
  <2>1. Hosted
    BY <1>1, <1>3 DEF Places
  <2> QED BY <1>1, <1>3, <2>1, ServerAdvances
<1>4. CASE k = To
  BY <1>1, <1>4, RootAdvances
<1>5. CASE k > To
  BY <1>1, <1>5, TailAdvances
<1> QED BY <1>1, <1>2, <1>3, <1>4, <1>5

-----------------------------------------------------------------------------
\* A field that lies from i to j, as far as k letters tell of it.
Part(i, j, k) == Field(i, IF j < k THEN j ELSE k)

LEMMA PartGrows ==
    ASSUME NEW i \in Nat, NEW j \in Int, NEW k \in Nat
    PROVE  /\ i <= k + 1 /\ k + 1 <= j
                => Part(i, j, k + 1) = IF k + 1 = i THEN <<k + 1, 1>>
                                       ELSE <<Part(i, j, k)[1], Part(i, j, k)[2] + 1>>
           /\ ~ (i <= k + 1 /\ k + 1 <= j) => Part(i, j, k + 1) = Part(i, j, k)
<1>1. CASE i <= k + 1 /\ k + 1 <= j
  <2>1. Part(i, j, k + 1) = <<i, (k + 1) - i + 1>>
    BY <1>1 DEF Part, Field
  <2>2. k + 1 # i => Part(i, j, k) = <<i, k - i + 1>>
    BY <1>1 DEF Part, Field
  <2>3. (k + 1) - i + 1 = (k - i + 1) + 1 /\ (k + 1 = i => (k + 1) - i + 1 = 1)
    OBVIOUS
  <2> QED BY <1>1, <2>1, <2>2, <2>3
<1>2. CASE k + 1 < i
  BY <1>2 DEF Part, Field
<1>3. CASE j < k + 1
  BY <1>3 DEF Part, Field
<1> QED BY <1>1, <1>2, <1>3

LEMMA PartShort ==
    ASSUME NEW i \in Nat, i # 0, NEW j \in Int, NEW k \in Nat
    PROVE  Part(i, j, k)[2] \in 0 .. k
BY DEF Part, Field, None

\* The first and the last letter of each field the automaton tells of.
Lo(f) == CASE f = "host" -> From
           [] f = "path" -> To + 1
           [] f = "query" -> Question + 1
           [] f = "fragment" -> Anchor
           [] OTHER -> 1
Hi(f) == CASE f = "schema" -> IF HasSchema THEN Colon - 1 ELSE 0
           [] f = "host" -> To
           [] f = "path" -> Question - 1
           [] f = "query" -> Hash - 1
           [] f = "fragment" -> Len(url)
           [] OTHER -> 0

LEMMA Ends ==
    ASSUME Len(url) \in Nat, NEW f \in Fields
    PROVE  Lo(f) \in Nat /\ Lo(f) # 0 /\ Hi(f) \in Int
<1>1. /\ From \in Nat \ {0} /\ To \in Nat /\ Question \in Nat /\ Hash \in Nat /\ Anchor \in Nat \ {0}
      /\ HasSchema => Colon \in Nat
  BY PlacesAre DEF Places
<1>2. Lo(f) \in {From, To + 1, Question + 1, Anchor, 1}
  BY DEF Lo
<1>3. Hi(f) \in {IF HasSchema THEN Colon - 1 ELSE 0, To, Question - 1, Hash - 1, Len(url), 0}
  BY DEF Hi
<1>4. Lo(f) \in Nat /\ Lo(f) # 0
  BY <1>1, <1>2
<1>5. Hi(f) \in Int
  BY <1>1, <1>3
<1> QED BY <1>4, <1>5

LEMMA StateType ==
    ASSUME NEW k PROVE StateAt(k) \in UrlStates
BY DEF StateAt, TailState, UrlStates

\* The state after k letters tells the field that the last of them is in.
LEMMA FieldOfState ==
    ASSUME Len(url) \in Nat, Hosted \/ Rooted, NEW k \in 1 .. Len(url), NEW f \in Fields
    PROVE  UrlField[StateAt(k)] = f <=> Lo(f) <= k /\ k <= Hi(f)
<1>1. /\ From \in Nat /\ From # 0 /\ To \in Nat /\ Question \in Nat /\ Hash \in Nat /\ Anchor \in Nat
      /\ k \in Nat /\ k # 0 /\ k <= Len(url)
      /\ From - 1 <= To /\ To < Question /\ Question <= Hash /\ Hash <= Anchor /\ To < Hash
      /\ HasSchema => Colon \in Nat /\ From = Colon + 3 /\ Colon > 1 /\ Hosted
      /\ ~HasSchema => From = 1
      /\ ~Hosted => To = 0
      /\ Hash <= Len(url) => Hash < Anchor
  <2>1. /\ From \in 1 .. Len(url) + 1 /\ To \in 0 .. Len(url) /\ From - 1 <= To
        /\ Hash \in To + 1 .. Len(url) + 1 /\ Question \in To + 1 .. Hash
        /\ Anchor \in Hash .. Len(url) + 1 /\ (Hash <= Len(url) => Hash < Anchor)
        /\ HasSchema => Colon \in 2 .. Len(url) - 2 /\ From = Colon + 3
        /\ ~HasSchema => From = 1
        /\ ~Hosted => To = 0
    BY PlacesAre DEF Places
  <2>2. HasSchema => Hosted
    BY DEF Hosted
  <2> QED BY <2>1, <2>2
<1>2. UrlField[StateAt(k)] =
        CASE StateAt(k) = "s_req_schema" -> "schema"
          [] StateAt(k) \in {"s_req_server", "s_req_server_with_at"} -> "host"
          [] StateAt(k) = "s_req_path" -> "path"
          [] StateAt(k) = "s_req_query_string" -> "query"
          [] StateAt(k) = "s_req_fragment" -> "fragment"
          [] OTHER -> "none"
  BY StateType DEF UrlField
<1> DEFINE s == StateAt(k)
<1>3. /\ s = "s_req_schema" <=> HasSchema /\ k < Colon
      /\ s \in {"s_req_server", "s_req_server_with_at"} <=> From <= k /\ k <= To
      /\ s = "s_req_path" <=> To < k /\ k < Question
      /\ s = "s_req_query_string" <=> Question < k /\ k < Hash
      /\ s = "s_req_fragment" <=> Anchor <= k
  <2>1. CASE k > To
    <3>1. s = TailState(k)
      BY <1>1, <2>1 DEF StateAt
    <3>2. ~ (HasSchema /\ k < Colon) /\ ~ (From <= k /\ k <= To)
      BY <1>1, <2>1
    <3> HIDE DEF s
    <3> QED BY <1>1, <2>1, <3>1, <3>2 DEF TailState
  <2>2. CASE From <= k /\ k <= To
    <3>1. s = IF url[k] = "@" THEN "s_req_server_with_at" ELSE "s_req_server"
      BY <1>1, <2>2 DEF StateAt
    <3> HIDE DEF s
    <3> QED BY <1>1, <2>2, <3>1
  <2>3. CASE k < From
    <3>1. HasSchema /\ k <= To
      BY <1>1, <2>3
    <3>2. s = IF k = From - 1 THEN "s_req_server_start" ELSE IF k < Colon THEN "s_req_schema"
              ELSE IF k = Colon THEN "s_req_schema_slash" ELSE "s_req_schema_slash_slash"
      BY <1>1, <2>3, <3>1 DEF StateAt
    <3> HIDE DEF s
    <3> QED BY <1>1, <2>3, <3>1, <3>2
  <2> QED BY <1>1, <2>1, <2>2, <2>3
<1> HIDE DEF s
<1>4. UrlField[s] =
        CASE s = "s_req_schema" -> "schema"
          [] s \in {"s_req_server", "s_req_server_with_at"} -> "host"
          [] s = "s_req_path" -> "path"
          [] s = "s_req_query_string" -> "query"
          [] s = "s_req_fragment" -> "fragment"
          [] OTHER -> "none"
  BY <1>2 DEF s
<1>5. /\ UrlField[s] = "schema" <=> s = "s_req_schema"
      /\ UrlField[s] = "host" <=> s \in {"s_req_server", "s_req_server_with_at"}
      /\ UrlField[s] = "path" <=> s = "s_req_path"
      /\ UrlField[s] = "query" <=> s = "s_req_query_string"
      /\ UrlField[s] = "fragment" <=> s = "s_req_fragment"
      /\ UrlField[s] \notin {"port", "userinfo"}
  BY <1>4
<1>6. f \in {"schema", "host", "port", "path", "query", "fragment", "userinfo"}
  BY DEF Fields
<1>7. /\ f = "schema" => Lo(f) = 1 /\ Hi(f) = IF HasSchema THEN Colon - 1 ELSE 0
      /\ f = "host" => Lo(f) = From /\ Hi(f) = To
      /\ f = "path" => Lo(f) = To + 1 /\ Hi(f) = Question - 1
      /\ f = "query" => Lo(f) = Question + 1 /\ Hi(f) = Hash - 1
      /\ f = "fragment" => Lo(f) = Anchor /\ Hi(f) = Len(url)
      /\ f \in {"port", "userinfo"} => Lo(f) = 1 /\ Hi(f) = 0
  BY DEF Lo, Hi
<1>8. /\ f = "schema" => (Lo(f) <= k /\ k <= Hi(f) <=> HasSchema /\ k < Colon)
      /\ f = "host" => (Lo(f) <= k /\ k <= Hi(f) <=> From <= k /\ k <= To)
      /\ f = "path" => (Lo(f) <= k /\ k <= Hi(f) <=> To < k /\ k < Question)
      /\ f = "query" => (Lo(f) <= k /\ k <= Hi(f) <=> Question < k /\ k < Hash)
      /\ f = "fragment" => (Lo(f) <= k /\ k <= Hi(f) <=> Anchor <= k)
      /\ f \in {"port", "userinfo"} => ~ (Lo(f) <= k /\ k <= Hi(f))
  BY <1>1, <1>7
<1>9. UrlField[s] = f <=> Lo(f) <= k /\ k <= Hi(f)
  BY <1>3, <1>5, <1>6, <1>8
<1> QED BY <1>9 DEF s

\* What the loop knows after k letters.
Fits(k, a) ==
    /\ a.s = StateAt(k)
    /\ \A f \in Fields : a.u[f] = Part(Lo(f), Hi(f), k)
    /\ a.at <=> \E j \in From .. To : j <= k /\ url[j] = "@"
    /\ a.old = "none" \/ Lo(a.old) <= k
    /\ UrlField[a.s] # "none" => a.old = UrlField[a.s]

LEMMA TurnMore ==
    ASSUME NEW w, NEW a \in Splits, NEW i \in Nat
    PROVE  LET s == parse_url_char(a.s, w[i])
               b == UrlTurn(w, a, i)
           IN  /\ b.at = (a.at \/ s = "s_req_server_with_at")
               /\ b.old = IF UrlField[s] = "none" THEN a.old ELSE UrlField[s]
BY DEF UrlTurn

LEMMA FitsFirst ==
    ASSUME Len(url) \in Nat, Hosted \/ Rooted, UrlTyped
    PROVE  Fits(0, UrlStart(connect))
<1> DEFINE a == UrlStart(connect)
<1>1. From \in Nat \ {0} /\ To \in Nat /\ (~HasSchema => From = 1) /\ (HasSchema => From > 4)
  BY PlacesAre DEF Places
<1>2. StateAt(0) = IF connect THEN "s_req_server_start" ELSE "s_req_spaces_before_url"
  <2>1. CASE connect
    <3>1. Hosted /\ ~HasSchema
      BY <2>1 DEF Hosted, HasSchema
    <3> QED BY <1>1, <2>1, <3>1 DEF StateAt
  <2>2. CASE ~connect
    <3>1. ~ (Hosted /\ 0 = From - 1)
      BY <1>1, <2>2 DEF Hosted
    <3> QED BY <1>1, <2>2, <3>1 DEF StateAt
  <2> QED BY <2>1, <2>2
<1>3. a.s = StateAt(0) /\ a.at = FALSE /\ a.old = "none" /\ a.u = [f \in Fields |-> None]
  BY <1>2 DEF UrlStart
<1>4. \A f \in Fields : Part(Lo(f), Hi(f), 0) = None
  <2> SUFFICES ASSUME NEW f \in Fields PROVE Part(Lo(f), Hi(f), 0) = None
    OBVIOUS
  <2>1. Lo(f) \in Nat /\ Lo(f) # 0 /\ Hi(f) \in Int
    BY Ends
  <2> QED BY <2>1 DEF Part, Field
<1>5. UrlField[a.s] = "none"
  <2>1. a.s \in {"s_req_server_start", "s_req_spaces_before_url"}
    BY <1>2, <1>3
  <2> QED BY <2>1 DEF UrlField, UrlStates
<1>6. ~ \E j \in From .. To : j <= 0 /\ url[j] = "@"
  BY <1>1
<1> HIDE DEF a
<1>7. Fits(0, a)
  BY <1>3, <1>4, <1>5, <1>6 DEF Fits
<1> QED BY <1>7 DEF a

LEMMA FitsNext ==
    ASSUME Len(url) \in Nat, Short, Hosted \/ Rooted, NEW k \in 0 .. Len(url) - 1, NEW a \in Splits, Fits(k, a),
           NEW b, b = UrlTurn(url, a, k + 1)
    PROVE  /\ b.s # "s_dead" => Fits(k + 1, b) /\ url[k + 1] \in UrlLetters
           /\ Clean => b.s # "s_dead"
<1> DEFINE t == parse_url_char(a.s, url[k + 1])
           f == UrlField[t]
<1>1. k \in Nat /\ k + 1 \in 1 .. Len(url) /\ k + 1 \in Nat
  OBVIOUS
<1>2. /\ b \in Splits /\ b.s = t
      /\ b.u = IF f = "none" THEN a.u ELSE Grow(a.u, f, k + 1, f # a.old)
      /\ b.at = (a.at \/ t = "s_req_server_with_at")
      /\ b.old = IF f = "none" THEN a.old ELSE f
  BY <1>1, TurnType, TurnMore
<1>3. a.s = StateAt(k) /\ a.s \in UrlStates /\ a.u \in [Fields -> Nat \X Nat] /\ a.old \in Field3
  BY DEF Fits, Splits
<1>4. url[k + 1] \notin UrlLetters => t = "s_dead"
  BY DEF parse_url_char
<1>5. CASE url[k + 1] \in UrlLetters /\ t # "s_dead"
  <2>1. t = Goes(StateAt(k), url[k + 1])
    BY <1>3, <1>5, GoesRight
  <2>2. Advances(k)
    BY AllAdvance
  <2>3. t = StateAt(k + 1)
    <3> HIDE DEF t
    <3> QED BY <1>5, <2>1, <2>2 DEF Advances
  <2>4. \A g \in Fields : f = g <=> Lo(g) <= k + 1 /\ k + 1 <= Hi(g)
    BY <1>1, <2>3, FieldOfState
  <2>5. f \in Field3
    BY <2>3, StateType, UrlFieldType
  <2>6. ASSUME NEW g \in Fields PROVE b.u[g] = Part(Lo(g), Hi(g), k + 1)
    <3>1. Lo(g) \in Nat /\ Lo(g) # 0 /\ Hi(g) \in Int
      BY Ends
    <3>2. a.u[g] = Part(Lo(g), Hi(g), k)
      BY DEF Fits
    <3>3. CASE f # g
      <4>1. Part(Lo(g), Hi(g), k + 1) = Part(Lo(g), Hi(g), k)
        BY <1>1, <2>4, <3>1, <3>3, PartGrows
      <4>2. b.u[g] = a.u[g]
        <5>1. CASE f = "none"
          BY <1>2, <5>1
        <5>2. CASE f # "none"
          <6>1. f \in Fields /\ (f # a.old) \in BOOLEAN
            BY <2>5, <5>2 DEF Field3
          <6> HIDE DEF f
          <6>2. Grow(a.u, f, k + 1, f # a.old)[g] = a.u[g]
            <7>1. a.u \in [Fields -> Nat \X Nat] /\ k + 1 \in Nat /\ g # f
              BY <1>1, <1>3, <3>3
            <7> QED BY <6>1, <7>1, GrowOthers
          <6> QED BY <1>2, <5>2, <6>2
        <5> QED BY <5>1, <5>2
      <4> QED BY <3>2, <4>1, <4>2
    <3>4. CASE f = g
      <4>1. Lo(g) <= k + 1 /\ k + 1 <= Hi(g)
        BY <2>4, <3>4
      <4>2. g # a.old <=> k + 1 = Lo(g)
        <5>1. CASE k + 1 = Lo(g)
          <6>1. a.old = "none" \/ Lo(a.old) <= k
            BY DEF Fits
          <6>2. g # "none"
            BY DEF Fields
          <6> QED BY <1>1, <5>1, <6>1, <6>2
        <5>2. CASE k + 1 # Lo(g)
          <6>1. k \in 1 .. Len(url) /\ Lo(g) <= k /\ k <= Hi(g)
            BY <1>1, <3>1, <4>1, <5>2, Ends
          <6>2. UrlField[a.s] = g
            BY <1>3, <6>1, FieldOfState
          <6>3. g # "none"
            BY DEF Fields
          <6>4. a.old = g
            BY <6>2, <6>3 DEF Fits
          <6> QED BY <5>2, <6>4
        <5> QED BY <5>1, <5>2
      <4>3. b.u = Grow(a.u, g, k + 1, g # a.old)
        <5>1. g # "none"
          BY DEF Fields
        <5> HIDE DEF f
        <5> QED BY <1>2, <3>4, <5>1
      <4>4. b.u[g] = IF g # a.old THEN <<k + 1, 1>> ELSE <<a.u[g][1], a.u[g][2] + 1>>
        <5>1. (g # a.old) \in BOOLEAN
          OBVIOUS
        <5>2. Grow(a.u, g, k + 1, g # a.old)[g] = IF g # a.old THEN <<k + 1, 1>> ELSE <<a.u[g][1], a.u[g][2] + 1>>
          <6>1. a.u[g][2] \in 0 .. k
            BY <1>1, <3>1, <3>2, PartShort
          <6>2. k + 1 # 0 /\ k + 1 <= Width16 /\ a.u[g][2] + 1 < Width16
            BY <1>1, <6>1, WidthAssumption DEF Short
          <6> QED BY <1>1, <1>3, <5>1, <6>2, GrowExact
        <5> QED BY <4>3, <5>2
      <4>5. Part(Lo(g), Hi(g), k + 1) = IF k + 1 = Lo(g) THEN <<k + 1, 1>>
                                        ELSE <<Part(Lo(g), Hi(g), k)[1], Part(Lo(g), Hi(g), k)[2] + 1>>
        BY <1>1, <3>1, <4>1, PartGrows
      <4> QED BY <3>2, <4>2, <4>4, <4>5
    <3> QED BY <3>3, <3>4
  <2>7. b.at <=> \E j \in From .. To : j <= k + 1 /\ url[j] = "@"
    <3>1. From \in Nat /\ To \in Nat
      BY PlacesAre DEF Places
    <3>2. t = "s_req_server_with_at" <=> k + 1 \in From .. To /\ url[k + 1] = "@"
      BY <1>1, <2>3, <3>1 DEF StateAt, TailState
    <3>3. a.at <=> \E j \in From .. To : j <= k /\ url[j] = "@"
      BY DEF Fits
    <3>4. (\E j \in From .. To : j <= k + 1 /\ url[j] = "@")
            <=> (\E j \in From .. To : j <= k /\ url[j] = "@") \/ (k + 1 \in From .. To /\ url[k + 1] = "@")
      BY <1>1, <3>1
    <3> HIDE DEF t
    <3> QED BY <1>2, <3>2, <3>3, <3>4
  <2>8. b.old = "none" \/ Lo(b.old) <= k + 1
    <3>1. CASE f = "none"
      <4>1. b.old = a.old /\ (a.old = "none" \/ Lo(a.old) <= k)
        BY <1>2, <3>1 DEF Fits
      <4>2. CASE a.old # "none"
        <5>1. a.old \in Fields
          BY <1>3, <4>2 DEF Field3
        <5>2. Lo(a.old) \in Nat
          BY <5>1, Ends
        <5> QED BY <1>1, <4>1, <4>2, <5>2
      <4> QED BY <4>1, <4>2
    <3>2. CASE f # "none"
      <4>1. f \in Fields /\ b.old = f
        BY <1>2, <2>5, <3>2 DEF Field3
      <4> QED BY <2>4, <4>1
    <3> QED BY <3>1, <3>2
  <2>9. UrlField[b.s] # "none" => b.old = UrlField[b.s]
    BY <1>2
  <2>10. Fits(k + 1, b)
    <3>1. b.s = StateAt(k + 1)
      BY <1>2, <2>3
    <3> HIDE DEF t, f
    <3> QED BY <2>6, <2>7, <2>8, <2>9, <3>1 DEF Fits
  <2> QED BY <1>2, <1>5, <2>10
<1>6. CASE url[k + 1] \in UrlLetters /\ t = "s_dead"
  <2>1. t = Goes(StateAt(k), url[k + 1])
    BY <1>3, <1>6, GoesRight
  <2>2. Advances(k)
    BY AllAdvance
  <2>3. ~Clean
    <3> HIDE DEF t
    <3> QED BY <1>6, <2>1, <2>2 DEF Advances
  <2> QED BY <1>2, <1>6, <2>3
<1>7. CASE url[k + 1] \notin UrlLetters
  <2>1. ~Clean
    BY <1>1, <1>7 DEF Clean, Span
  <2> QED BY <1>2, <1>4, <1>7, <2>1
<1> QED BY <1>5, <1>6, <1>7

LEMMA StartType == ASSUME UrlTyped PROVE UrlStart(connect) \in Splits /\ Early(0, UrlStart(connect))
<1>1. [f \in Fields |-> None] \in [Fields -> Nat \X Nat] /\ "host" \in Fields
  BY DEF None, Fields
<1> DEFINE base == UrlStart(connect)
<1>2. /\ base.u = [f \in Fields |-> None] /\ base.at = FALSE /\ base.old = "none"
      /\ base.s = IF connect THEN "s_req_server_start" ELSE "s_req_spaces_before_url"
  BY DEF UrlStart
<1>3. base.s \in UrlStates /\ base.s \notin {"s_req_schema", "s_req_schema_slash", "s_req_schema_slash_slash"}
  <2>1. base.s \in {"s_req_server_start", "s_req_spaces_before_url"}
    BY <1>2
  <2> HIDE DEF base
  <2> QED BY <2>1 DEF UrlStates
<1>4. base \in Splits
  <2>1. base = [s |-> base.s, at |-> base.at, old |-> base.old, u |-> base.u]
    BY DEF UrlStart
  <2> HIDE DEF base
  <2>2. base.at \in BOOLEAN /\ base.old \in Field3 /\ base.u \in [Fields -> Nat \X Nat]
    BY <1>1, <1>2 DEF Field3
  <2> QED BY <1>3, <2>1, <2>2 DEF Splits
<1>5. Early(0, base)
  <2> HIDE DEF base
  <2>1. base.u["host"] = None /\ base.old = "none"
    BY <1>1, <1>2
  <2> QED BY <1>3, <2>1 DEF Early
<1> QED BY <1>4, <1>5

\* A URL the loop does not refuse has its fields where they are meant to be.
LEMMA LoopReads ==
    ASSUME UrlTyped, Short, Hosted \/ Rooted, NEW a, a = UrlLoop(url, UrlStart(connect))
    PROVE  /\ a \in Splits
           /\ a.s # "s_dead" => Fits(Len(url), a) /\ Span(1, Len(url), UrlLetters)
           /\ Clean => a.s # "s_dead"
<1> DEFINE n == Len(url)
           base == UrlStart(connect)
<1>1. n \in Nat /\ n \in 0 .. n /\ 0 \in 0 .. n
  BY DEF UrlTyped
<1>2. base \in Splits /\ Fits(0, base) /\ base.s # "s_dead"
  <2>1. base.s # "s_dead"
    BY DEF UrlStart
  <2> QED BY <1>1, <2>1, StartType, FitsFirst
<1> HIDE DEF base
<1>3. PICK h \in [0 .. n -> Splits] :
         /\ h[0] = base /\ h[n] = UrlLoop(url, base)
         /\ \A k \in 1 .. n : h[k] = UrlTurn(url, h[k - 1], k)
  BY <1>1, <1>2, UrlFold
<1> DEFINE Good(k) == /\ h[k].s # "s_dead" => Fits(k, h[k]) /\ \A j \in 1 .. k : url[j] \in UrlLetters
                      /\ Clean => h[k].s # "s_dead"
           S == {k \in 0 .. n : Good(k)}
<1>4. 0 \in S
  BY <1>1, <1>2, <1>3
<1>5. ASSUME NEW k \in 0 .. n, k \in S, k < n PROVE k + 1 \in S
  <2>1. k + 1 \in 1 .. n /\ (k + 1) - 1 = k /\ k + 1 \in 0 .. n /\ k \in Nat /\ k + 1 \in Nat /\ k \in 0 .. n - 1
    BY <1>1, <1>5
  <2>2. h[k + 1] = UrlTurn(url, h[k], k + 1) /\ h[k] \in Splits /\ Good(k)
    BY <1>3, <1>5, <2>1
  <2>3. CASE h[k].s # "s_dead"
    <3>1. /\ h[k + 1].s # "s_dead" => Fits(k + 1, h[k + 1]) /\ url[k + 1] \in UrlLetters
          /\ Clean => h[k + 1].s # "s_dead"
      BY <1>1, <2>1, <2>2, <2>3, FitsNext
    <3>2. h[k + 1].s # "s_dead" => \A j \in 1 .. k + 1 : url[j] \in UrlLetters
      BY <2>1, <2>2, <2>3, <3>1
    <3> QED BY <2>1, <3>1, <3>2
  <2>4. CASE h[k].s = "s_dead"
    <3>1. h[k + 1].s = parse_url_char(h[k].s, url[k + 1])
      <4>1. UrlTurn(url, h[k], k + 1).s = parse_url_char(h[k].s, url[k + 1])
        BY <2>1, <2>2, TurnType
      <4> QED BY <2>2, <4>1
    <3>2. h[k].s \in UrlStates
      BY <2>2 DEF Splits
    <3>3. h[k + 1].s = "s_dead"
      BY <2>4, <3>1, <3>2, Steps
    <3>4. ~Clean
      BY <2>2, <2>4
    <3> QED BY <2>1, <3>3, <3>4
  <2> QED BY <2>3, <2>4
<1>6. n \in S
  <2> HIDE DEF S, n
  <2> QED BY <1>1, <1>4, <1>5, UpTo
<1>7. h[n] = a /\ h[n] \in Splits
  BY <1>1, <1>3 DEF base
<1> QED BY <1>6, <1>7 DEF Span

\* What is known of a URL that begins with no schema, authority or root.
Begins(k, s) ==
    /\ s \in {"s_dead"} \cup EarlyStates
    /\ s = "s_req_spaces_before_url" => k = 0
    /\ s = "s_req_schema" => k >= 1 /\ \A j \in 1 .. k : url[j] \in Alpha
    /\ s = "s_req_schema_slash" => k >= 2 /\ url[k] = ":" /\ \A j \in 1 .. k - 1 : url[j] \in Alpha
    /\ s = "s_req_schema_slash_slash" =>
         k >= 3 /\ url[k] = "/" /\ url[k - 1] = ":" /\ \A j \in 1 .. k - 2 : url[j] \in Alpha

LEMMA BeginsNext ==
    ASSUME Len(url) \in Nat, ~Hosted, ~Rooted, NEW k \in 0 .. Len(url) - 1, NEW s \in UrlStates, Begins(k, s),
           NEW t, t = parse_url_char(s, url[k + 1])
    PROVE  Begins(k + 1, t)
<1> DEFINE c == url[k + 1]
<1>1. k \in Nat /\ k + 1 <= Len(url) /\ k + 1 # 0 /\ (k + 1) - 1 = k /\ (k + 1) - 2 = k - 1
  OBVIOUS
<1>2. CASE t = "s_dead"
  BY <1>2 DEF Begins
<1>3. CASE t # "s_dead"
  <2>1. c \in UrlLetters
    BY <1>3 DEF parse_url_char
  <2>2. t = Goes(s, c)
    BY <2>1, GoesRight
  <2>3. CASE s = "s_req_spaces_before_url"
    <3>1. k = 0 /\ c \notin {"/", "*"}
      BY <1>1, <2>3 DEF Begins, Rooted
    <3>2. t = "s_req_schema" /\ c \in Alpha
      BY <1>3, <2>2, <2>3, <3>1 DEF Goes, ServerStates, QueryStates
    <3>3. \A j \in 1 .. k + 1 : url[j] \in Alpha
      BY <3>1, <3>2
    <3> QED BY <1>1, <3>2, <3>3 DEF Begins, EarlyStates
  <2>4. CASE s = "s_req_schema"
    <3>1. k >= 1 /\ \A j \in 1 .. k : url[j] \in Alpha
      BY <2>4 DEF Begins
    <3>2. \/ t = "s_req_schema" /\ c \in Alpha
          \/ t = "s_req_schema_slash" /\ c = ":"
      BY <1>3, <2>2, <2>4 DEF Goes, ServerStates, QueryStates
    <3>3. c \in Alpha => \A j \in 1 .. k + 1 : url[j] \in Alpha
      BY <1>1, <3>1
    <3>4. k + 1 >= 2 /\ k + 1 >= 1 /\ \A j \in 1 .. (k + 1) - 1 : url[j] \in Alpha
      BY <1>1, <3>1
    <3> QED BY <3>2, <3>3, <3>4 DEF Begins, EarlyStates
  <2>5. CASE s = "s_req_schema_slash"
    <3>1. k >= 2 /\ url[k] = ":" /\ \A j \in 1 .. k - 1 : url[j] \in Alpha
      BY <2>5 DEF Begins
    <3>2. t = "s_req_schema_slash_slash" /\ c = "/"
      BY <1>3, <2>2, <2>5 DEF Goes, ServerStates, QueryStates
    <3>3. k + 1 >= 3 /\ url[(k + 1) - 1] = ":" /\ \A j \in 1 .. (k + 1) - 2 : url[j] \in Alpha
      BY <1>1, <3>1
    <3> QED BY <3>2, <3>3 DEF Begins, EarlyStates
  <2>6. CASE s = "s_req_schema_slash_slash"
    <3>1. k >= 3 /\ url[k] = "/" /\ url[k - 1] = ":" /\ \A j \in 1 .. k - 2 : url[j] \in Alpha
      BY <2>6 DEF Begins
    <3>2. c = "/"
      BY <1>3, <2>2, <2>6 DEF Goes, ServerStates, QueryStates
    <3>3. Colon = k - 1
      <4>1. /\ Colon \in 1 .. Len(url) + 1 /\ (Colon <= Len(url) => url[Colon] = ":")
            /\ \A j \in 1 .. Colon - 1 : url[j] # ":"
        <5>1. 1 \in 1 .. Len(url) + 1
          OBVIOUS
        <5> QED BY <5>1, FirstIs DEF Colon
      <4>2. ":" \notin Alpha
        BY DEF Alpha
      <4>3. ~ (Colon < k - 1)
        <5> SUFFICES ASSUME Colon < k - 1 PROVE FALSE
          OBVIOUS
        <5>1. Colon \in 1 .. k - 2 /\ Colon <= Len(url)
          BY <1>1, <3>1, <4>1
        <5> QED BY <3>1, <4>1, <4>2, <5>1
      <4>4. ~ (Colon > k - 1)
        <5> SUFFICES ASSUME Colon > k - 1 PROVE FALSE
          OBVIOUS
        <5>1. k - 1 \in 1 .. Colon - 1
          BY <1>1, <3>1, <4>1
        <5> QED BY <3>1, <4>1, <5>1
      <4> QED BY <1>1, <4>1, <4>3, <4>4
    <3>4. /\ Colon > 1 /\ Colon + 2 <= Len(url) /\ url[Colon + 1] = "/" /\ url[Colon + 2] = "/"
          /\ \A j \in 1 .. Colon - 1 : url[j] \in Alpha
      <4>1. Colon + 1 = k /\ Colon + 2 = k + 1 /\ Colon - 1 = k - 2 /\ Colon > 1
        BY <1>1, <3>1, <3>3
      <4> QED BY <1>1, <3>1, <3>2, <4>1
    <3>5. HasSchema \/ connect
      BY <3>4 DEF HasSchema, Span
    <3> QED BY <3>5 DEF Hosted
  <2>7. s # "s_dead"
    BY <1>3, Steps
  <2> QED BY <2>3, <2>4, <2>5, <2>6, <2>7 DEF Begins, EarlyStates
<1> QED BY <1>2, <1>3

LEMMA LoopRefuses ==
    ASSUME UrlTyped, ~Hosted, ~Rooted, NEW a, a = UrlLoop(url, UrlStart(connect))
    PROVE  a.s = "s_dead" \/ (a.u["schema"] # None /\ a.u["host"] = None)
<1> DEFINE n == Len(url)
           base == UrlStart(connect)
<1>1. n \in Nat /\ n # 0 /\ n \in 0 .. n /\ 0 \in 0 .. n
  BY DEF UrlTyped, Rooted
<1>2. base \in Splits /\ Early(0, base) /\ Begins(0, base.s)
  <2>1. base.s = "s_req_spaces_before_url"
    BY DEF UrlStart, Hosted
  <2> HIDE DEF base
  <2>2. Begins(0, base.s)
    BY <2>1 DEF Begins, EarlyStates
  <2> QED BY <2>2, StartType DEF base
<1> HIDE DEF base
<1>3. PICK h \in [0 .. n -> Splits] :
         /\ h[0] = base /\ h[n] = UrlLoop(url, base)
         /\ \A k \in 1 .. n : h[k] = UrlTurn(url, h[k - 1], k)
  BY <1>1, <1>2, UrlFold
<1> DEFINE S == {k \in 0 .. n : Early(k, h[k]) /\ Begins(k, h[k].s)}
<1>4. 0 \in S
  BY <1>1, <1>2, <1>3
<1>5. ASSUME NEW k \in 0 .. n, k \in S, k < n PROVE k + 1 \in S
  <2>1. k + 1 \in 1 .. n /\ (k + 1) - 1 = k /\ k + 1 \in 0 .. n /\ k \in Nat /\ k + 1 \in Nat /\ k \in 0 .. n - 1
    BY <1>1, <1>5
  <2>2. h[k + 1] = UrlTurn(url, h[k], k + 1) /\ h[k] \in Splits /\ Early(k, h[k]) /\ Begins(k, h[k].s)
    BY <1>3, <1>5, <2>1
  <2>3. Early(k + 1, h[k + 1])
    BY <2>1, <2>2, EarlyTurn
  <2>4. h[k + 1].s = parse_url_char(h[k].s, url[k + 1]) /\ h[k].s \in UrlStates
    <3>1. h[k].s \in UrlStates
      BY <2>2 DEF Splits
    <3>2. UrlTurn(url, h[k], k + 1).s = parse_url_char(h[k].s, url[k + 1])
      BY <2>1, <2>2, TurnType
    <3> QED BY <2>2, <3>1, <3>2
  <2>5. Begins(k + 1, h[k + 1].s)
    BY <1>1, <2>1, <2>2, <2>4, BeginsNext
  <2> QED BY <2>1, <2>3, <2>5
<1>6. n \in S
  <2> HIDE DEF S, n
  <2> QED BY <1>1, <1>4, <1>5, UpTo
<1>7. h[n] = a
  BY <1>3 DEF base
<1>8. Early(n, a) /\ Begins(n, a.s)
  BY <1>6, <1>7
<1>9. a.u["schema"][1] # 0 => a.u["schema"] # None
  BY DEF None
<1> QED BY <1>1, <1>8, <1>9 DEF Early, Begins, EarlyStates

-----------------------------------------------------------------------------
(* The authority. *)

HexChar == Hex \cup {":", "."}
ZoneChar == AlphaNum \cup {"%", "."}

\* The transitions of http_parse_host_char, state by state.
HostGoes(s, c) ==
    CASE s \in {"s_http_userinfo_start", "s_http_userinfo"} ->
           IF c = "@" THEN "s_http_host_start" ELSE IF c \in Userinfo THEN "s_http_userinfo" ELSE "s_http_host_dead"
      [] s = "s_http_host_start" ->
           IF c = "[" THEN "s_http_host_v6_start" ELSE IF c \in HostChar THEN "s_http_host" ELSE "s_http_host_dead"
      [] s = "s_http_host" ->
           IF c = ":" THEN "s_http_host_port_start" ELSE IF c \in HostChar THEN "s_http_host" ELSE "s_http_host_dead"
      [] s = "s_http_host_v6_end" -> IF c = ":" THEN "s_http_host_port_start" ELSE "s_http_host_dead"
      [] s = "s_http_host_v6_start" -> IF c \in HexChar THEN "s_http_host_v6" ELSE "s_http_host_dead"
      [] s = "s_http_host_v6" ->
           IF c = "]" THEN "s_http_host_v6_end" ELSE IF c = "%" THEN "s_http_host_v6_zone_start"
           ELSE IF c \in HexChar THEN "s_http_host_v6" ELSE "s_http_host_dead"
      [] s = "s_http_host_v6_zone_start" -> IF c \in ZoneChar THEN "s_http_host_v6_zone" ELSE "s_http_host_dead"
      [] s = "s_http_host_v6_zone" ->
           IF c = "]" THEN "s_http_host_v6_end" ELSE IF c \in ZoneChar THEN "s_http_host_v6_zone" ELSE "s_http_host_dead"
      [] s \in {"s_http_host_port_start", "s_http_host_port"} ->
           IF c \in Num THEN "s_http_host_port" ELSE "s_http_host_dead"
      [] OTHER -> "s_http_host_dead"

LEMMA HostGoesRight ==
    ASSUME NEW s \in HostStates, NEW c \in UrlLetters
    PROVE  http_parse_host_char(s, c) = HostGoes(s, c)
<1> USE DEF Userinfo, HostChar, HexChar, ZoneChar, Hex, AlphaNum, Alpha, Num
<1>1. \A x \in HostEdges : x.to = HostGoes(x.from, x.on) /\ x.to # "s_http_host_dead"
  <2> SUFFICES ASSUME NEW x \in HostEdges PROVE x.to = HostGoes(x.from, x.on) /\ x.to # "s_http_host_dead"
    OBVIOUS
  <2> QED BY DEF HostEdges, HostGoes
<1>2. HostGoes(s, c) # "s_http_host_dead" => [from |-> s, on |-> c, to |-> HostGoes(s, c)] \in HostEdges
  <2> SUFFICES ASSUME HostGoes(s, c) # "s_http_host_dead" PROVE [from |-> s, on |-> c, to |-> HostGoes(s, c)] \in HostEdges
    OBVIOUS
  <2>1. CASE s \in {"s_http_userinfo_start", "s_http_userinfo", "s_http_host_start", "s_http_host"}
    BY <2>1 DEF HostEdges, HostGoes
  <2>2. CASE s \in {"s_http_host_v6_end", "s_http_host_v6_start", "s_http_host_v6"}
    BY <2>2 DEF HostEdges, HostGoes
  <2>3. CASE s \in {"s_http_host_v6_zone_start", "s_http_host_v6_zone", "s_http_host_port_start",
                    "s_http_host_port", "s_http_host_dead"}
    BY <2>3 DEF HostEdges, HostGoes
  <2> QED BY <2>1, <2>2, <2>3 DEF HostStates
<1>3. HasTarget(HostEdges, "s_http_host_dead", s, c, http_parse_host_char(s, c))
  BY TableTarget DEF http_parse_host_char, HostTable
<1>4. CASE HostGoes(s, c) # "s_http_host_dead"
  <2> DEFINE e == [from |-> s, on |-> c, to |-> HostGoes(s, c)]
  <2>1. e \in HostEdges /\ e.from = s /\ e.on = c
    BY <1>2, <1>4
  <2> HIDE DEF e
  <2>2. \E x \in HostEdges : x.from = s /\ x.on = c /\ x.to = http_parse_host_char(s, c)
    BY <1>3, <2>1 DEF HasTarget
  <2> QED BY <1>1, <2>2
<1>5. CASE HostGoes(s, c) = "s_http_host_dead"
  <2>1. ~ \E x \in HostEdges : x.from = s /\ x.on = c
    BY <1>1, <1>5
  <2> QED BY <1>3, <1>5, <2>1 DEF HasTarget
<1> QED BY <1>4, <1>5

\* The places in an authority that Authority finds.
Ats == {k \in From .. To : url[k] = "@"}
HostFrom == IF Ats = {} THEN From ELSE Min(Ats) + 1
V6 == HostFrom <= To /\ url[HostFrom] = "["
HostTo == IF V6 THEN FirstIn(HostFrom, {"]"}) ELSE FirstIn(HostFrom, {":", "@"} \cup {"/", "?"}) - 1
Zone == Min({FirstIn(HostFrom, {"%"}), HostTo})

HostPlaces ==
    /\ From \in Nat /\ To \in Nat /\ From # 0 /\ HostFrom \in From .. To + 1 /\ HostTo \in Nat
    /\ Ats = {} => HostFrom = From
    /\ Ats # {} => HostFrom > From /\ url[HostFrom - 1] = "@"
    /\ \A k \in From .. HostFrom - 2 : url[k] # "@"
    /\ V6 => /\ HostFrom <= To /\ url[HostFrom] = "["
             /\ HostTo > HostFrom /\ (HostTo <= To => url[HostTo] = "]")
             /\ \A k \in HostFrom .. HostTo - 1 : url[k] # "]"
             /\ Zone \in Nat /\ Zone > HostFrom /\ Zone <= HostTo /\ (Zone < HostTo => url[Zone] = "%")
             /\ \A k \in HostFrom .. Zone - 1 : url[k] # "%"
    /\ ~V6 => /\ HostTo \in HostFrom - 1 .. To
              /\ \A k \in HostFrom .. HostTo : url[k] \notin {":", "@"}
              /\ HostTo < To => url[HostTo + 1] \in {":", "@"}
              /\ HostFrom <= To => url[HostFrom] # "["

LEMMA HostPlacesAre == ASSUME Len(url) \in Nat, Hosted PROVE HostPlaces
<1>1. /\ From \in Nat /\ To \in Nat /\ From # 0 /\ From - 1 <= To /\ To <= Len(url)
      /\ \A k \in From .. To : url[k] \notin {"/", "?"}
      /\ To < Len(url) => url[To + 1] \in {"/", "?"}
  BY PlacesAre DEF Places
<1>2. /\ HostFrom \in From .. To + 1
      /\ Ats = {} => HostFrom = From
      /\ Ats # {} => HostFrom > From /\ url[HostFrom - 1] = "@"
      /\ \A k \in From .. HostFrom - 2 : url[k] # "@"
  <2>1. CASE Ats = {}
    <3>1. HostFrom = From
      BY <2>1 DEF HostFrom
    <3>2. HostFrom \in From .. To + 1
      BY <1>1, <3>1
    <3>3. From .. HostFrom - 2 = {}
      BY <1>1, <3>1
    <3> QED BY <2>1, <3>1, <3>2, <3>3
  <2>2. CASE Ats # {}
    <3>1. Ats \in SUBSET Nat /\ \A k : k \in Ats <=> k \in From .. To /\ url[k] = "@"
      BY <1>1 DEF Ats
    <3>2. Min(Ats) \in Ats /\ \A x \in Ats : Min(Ats) <= x
      BY <2>2, <3>1, LeastOf
    <3>3. HostFrom = Min(Ats) + 1
      BY <2>2 DEF HostFrom
    <3>4. Min(Ats) \in From .. To /\ url[Min(Ats)] = "@"
      BY <3>1, <3>2
    <3>5. HostFrom - 1 = Min(Ats) /\ HostFrom \in From .. To + 1 /\ HostFrom > From
      BY <1>1, <3>3, <3>4
    <3>6. ASSUME NEW k \in From .. HostFrom - 2, url[k] = "@" PROVE FALSE
      <4>1. k \in From .. To /\ k < Min(Ats)
        BY <1>1, <3>3, <3>4, <3>6
      <4>2. Min(Ats) <= k
        BY <3>1, <3>2, <3>6, <4>1
      <4> QED BY <1>1, <3>4, <4>1, <4>2
    <3> QED BY <2>2, <3>4, <3>5, <3>6
  <2> QED BY <2>1, <2>2
<1>3. HostFrom \in 1 .. Len(url) + 1
  BY <1>1, <1>2
<1>4. CASE V6
  <2> DEFINE z == FirstIn(HostFrom, {"%"})
  <2>1. HostFrom <= To /\ url[HostFrom] = "["
    BY <1>4 DEF V6
  <2>2. /\ HostTo \in HostFrom .. Len(url) + 1 /\ (HostTo <= Len(url) => url[HostTo] = "]")
        /\ \A k \in HostFrom .. HostTo - 1 : url[k] # "]"
    BY <1>3, <1>4, FirstIs DEF HostTo
  <2>3. /\ z \in HostFrom .. Len(url) + 1 /\ (z <= Len(url) => url[z] = "%")
        /\ \A k \in HostFrom .. z - 1 : url[k] # "%"
    BY <1>3, FirstIs
  <2>4. Zone = Min({z, HostTo})
    BY DEF Zone
  <2> HIDE DEF z
  <2>5. HostTo > HostFrom /\ HostTo \in Nat /\ (HostTo <= To => url[HostTo] = "]")
    BY <1>1, <1>3, <2>1, <2>2
  <2>6. z > HostFrom /\ z \in Nat
    BY <1>1, <1>3, <2>1, <2>3
  <2>7. Zone = IF z <= HostTo THEN z ELSE HostTo
    BY <2>4, <2>5, <2>6, LessOf
  <2>8. Zone \in Nat /\ Zone > HostFrom /\ Zone <= HostTo /\ Zone <= z
    BY <2>5, <2>6, <2>7
  <2>9. Zone < HostTo => url[Zone] = "%"
    BY <1>1, <1>3, <2>2, <2>3, <2>5, <2>6, <2>7
  <2>10. \A k \in HostFrom .. Zone - 1 : url[k] # "%"
    BY <1>3, <2>3, <2>6, <2>8
  <2> QED BY <1>1, <1>2, <1>4, <2>1, <2>2, <2>5, <2>8, <2>9, <2>10 DEF HostPlaces
<1>5. CASE ~V6
  <2> DEFINE e == FirstIn(HostFrom, {":", "@"} \cup {"/", "?"})
  <2>1. /\ e \in HostFrom .. Len(url) + 1 /\ (e <= Len(url) => url[e] \in {":", "@"} \cup {"/", "?"})
        /\ \A k \in HostFrom .. e - 1 : url[k] \notin {":", "@"} \cup {"/", "?"}
    BY <1>3, FirstIs
  <2>2. HostTo = e - 1
    BY <1>5 DEF HostTo
  <2> HIDE DEF e
  <2>3. e <= To + 1
    <3> SUFFICES ASSUME e > To + 1 PROVE FALSE
      BY <1>1, <1>3, <2>1
    <3>1. To < Len(url) /\ To + 1 \in HostFrom .. e - 1
      BY <1>1, <1>2, <1>3, <2>1
    <3> QED BY <1>1, <2>1, <3>1
  <2>4. HostTo \in HostFrom - 1 .. To /\ HostTo \in Nat
    BY <1>1, <1>2, <2>1, <2>2, <2>3
  <2>5. \A k \in HostFrom .. HostTo : url[k] \notin {":", "@"}
    BY <2>1, <2>2
  <2>6. HostTo < To => url[HostTo + 1] \in {":", "@"}
    <3> SUFFICES ASSUME HostTo < To PROVE url[HostTo + 1] \in {":", "@"}
      OBVIOUS
    <3>1. HostTo + 1 = e /\ e <= Len(url) /\ e \in From .. To
      BY <1>1, <1>2, <2>1, <2>2
    <3>2. url[e] \notin {"/", "?"} /\ url[e] \in {":", "@"} \cup {"/", "?"}
      BY <1>1, <2>1, <3>1
    <3> QED BY <3>1, <3>2
  <2>7. HostFrom <= To => url[HostFrom] # "["
    BY <1>5 DEF V6
  <2> QED BY <1>1, <1>2, <1>5, <2>4, <2>5, <2>6, <2>7 DEF HostPlaces
<1> QED BY <1>4, <1>5

\* The state after the letters of an authority up to the one at x.
HostStateAt(x) ==
    IF x < HostFrom - 1 THEN IF x < From THEN "s_http_userinfo_start" ELSE "s_http_userinfo"
    ELSE IF x < HostFrom THEN "s_http_host_start"
    ELSE IF x > HostTo THEN IF x = HostTo + 1 THEN "s_http_host_port_start" ELSE "s_http_host_port"
    ELSE IF ~V6 THEN "s_http_host"
    ELSE IF x = HostFrom THEN "s_http_host_v6_start"
    ELSE IF x < Zone THEN "s_http_host_v6"
    ELSE IF x = HostTo THEN "s_http_host_v6_end"
    ELSE IF x = Zone THEN "s_http_host_v6_zone_start" ELSE "s_http_host_v6_zone"

\* The letters up to the one at x are as they have to be.
Formed(x) ==
    /\ \A k \in From .. HostFrom - 2 : k <= x => url[k] \in Userinfo
    /\ V6 => /\ \A k \in HostFrom + 1 .. Zone - 1 : k <= x => url[k] \in HexChar
             /\ x >= Zone => HostFrom + 1 < Zone
             /\ \A k \in Zone + 1 .. HostTo - 1 : k <= x => url[k] \in ZoneChar
             /\ x >= HostTo /\ Zone < HostTo => Zone + 1 < HostTo
    /\ ~V6 => /\ \A k \in HostFrom .. HostTo : k <= x => url[k] \in HostChar
              /\ x > HostTo => HostFrom <= HostTo
    /\ x > HostTo => url[HostTo + 1] = ":"
    /\ \A k \in HostTo + 2 .. To : k <= x => url[k] \in Num

LEMMA FormedBefore ==
    ASSUME HostPlaces, NEW x \in Nat, Formed(x + 1)
    PROVE  Formed(x)
<1>1. From \in Nat /\ To \in Nat /\ HostFrom \in Nat /\ HostTo \in Nat /\ (V6 => Zone \in Nat)
  BY DEF HostPlaces
<1>2. \A k \in Int : k <= x => k <= x + 1
  OBVIOUS
<1>3. \A k \in From .. HostFrom - 2 : k <= x => url[k] \in Userinfo
  BY <1>1, <1>2 DEF Formed
<1>4. V6 => /\ \A k \in HostFrom + 1 .. Zone - 1 : k <= x => url[k] \in HexChar
            /\ x >= Zone => HostFrom + 1 < Zone
            /\ \A k \in Zone + 1 .. HostTo - 1 : k <= x => url[k] \in ZoneChar
            /\ x >= HostTo /\ Zone < HostTo => Zone + 1 < HostTo
  <2> SUFFICES ASSUME V6
               PROVE  /\ \A k \in HostFrom + 1 .. Zone - 1 : k <= x => url[k] \in HexChar
                      /\ x >= Zone => HostFrom + 1 < Zone
                      /\ \A k \in Zone + 1 .. HostTo - 1 : k <= x => url[k] \in ZoneChar
                      /\ x >= HostTo /\ Zone < HostTo => Zone + 1 < HostTo
    OBVIOUS
  <2> QED BY <1>1, <1>2 DEF Formed
<1>5. ~V6 => /\ \A k \in HostFrom .. HostTo : k <= x => url[k] \in HostChar
             /\ x > HostTo => HostFrom <= HostTo
  BY <1>1, <1>2 DEF Formed
<1>6. x > HostTo => url[HostTo + 1] = ":"
  BY <1>1, <1>2 DEF Formed
<1>7. \A k \in HostTo + 2 .. To : k <= x => url[k] \in Num
  BY <1>1, <1>2 DEF Formed
<1> QED BY <1>3, <1>4, <1>5, <1>6, <1>7 DEF Formed

\* The automaton goes on exactly if the next letter is as it has to be.
HostAdvances(x) ==
    HostGoes(HostStateAt(x), url[x + 1])
        = IF Formed(x + 1) THEN HostStateAt(x + 1) ELSE "s_http_host_dead"

LEMMA UserinfoAdvances ==
    ASSUME HostPlaces, NEW x \in Nat, From - 1 <= x, x < To, x + 1 < HostFrom, Formed(x)
    PROVE  HostAdvances(x)
<1> DEFINE c == url[x + 1]
<1>1. /\ From \in Nat /\ To \in Nat /\ HostFrom \in Nat /\ HostTo \in Nat /\ HostTo >= HostFrom - 1
      /\ V6 => Zone \in Nat /\ Zone > HostFrom /\ HostTo > HostFrom
      /\ HostFrom > From
  BY DEF HostPlaces
<1>2. HostStateAt(x) \in {"s_http_userinfo_start", "s_http_userinfo"}
  BY <1>1 DEF HostStateAt
<1>3. HostGoes(HostStateAt(x), c) =
        IF c = "@" THEN "s_http_host_start" ELSE IF c \in Userinfo THEN "s_http_userinfo" ELSE "s_http_host_dead"
  BY <1>2 DEF HostGoes
<1>4. CASE x + 1 = HostFrom - 1
  <2>1. c = "@" /\ Ats # {}
    BY <1>1, <1>4 DEF HostPlaces
  <2>2. HostStateAt(x + 1) = "s_http_host_start"
    BY <1>1, <1>4 DEF HostStateAt
  <2>3. Formed(x + 1)
    <3>1. \A k \in From .. HostFrom - 2 : k <= x + 1 => k <= x
      BY <1>1, <1>4
    <3>2. ~ (x + 1 > HostTo) /\ (V6 => ~ (x + 1 >= Zone) /\ ~ (x + 1 >= HostTo))
      BY <1>1, <1>4
    <3>3. \A k \in HostTo + 2 .. To : ~ (k <= x + 1)
      BY <1>1, <1>4
    <3>4. /\ V6 => (\A k \in HostFrom + 1 .. Zone - 1 : ~ (k <= x + 1)) /\ \A k \in Zone + 1 .. HostTo - 1 : ~ (k <= x + 1)
          /\ \A k \in HostFrom .. HostTo : ~ (k <= x + 1)
      BY <1>1, <1>4
    <3> QED BY <3>1, <3>2, <3>3, <3>4 DEF Formed
  <2> QED BY <1>3, <2>1, <2>2, <2>3 DEF HostAdvances
<1>5. CASE x + 1 < HostFrom - 1
  <2>1. x + 1 \in From .. HostFrom - 2
    BY <1>1, <1>5
  <2>2. c # "@"
    BY <2>1 DEF HostPlaces
  <2>3. HostStateAt(x + 1) = "s_http_userinfo"
    BY <1>1, <1>5, <2>1 DEF HostStateAt
  <2>4. Formed(x + 1) <=> c \in Userinfo
    <3>1. Formed(x + 1) => c \in Userinfo
      BY <1>1, <2>1 DEF Formed
    <3>2. ASSUME c \in Userinfo PROVE Formed(x + 1)
      <4>1. \A k \in From .. HostFrom - 2 : k <= x + 1 => k <= x \/ k = x + 1
        BY <1>1
      <4>2. ~ (x + 1 > HostTo) /\ (V6 => ~ (x + 1 >= Zone) /\ ~ (x + 1 >= HostTo))
        BY <1>1, <1>5
      <4>3. \A k \in HostTo + 2 .. To : ~ (k <= x + 1)
        BY <1>1, <1>5
      <4>4. /\ V6 => (\A k \in HostFrom + 1 .. Zone - 1 : ~ (k <= x + 1)) /\ \A k \in Zone + 1 .. HostTo - 1 : ~ (k <= x + 1)
            /\ \A k \in HostFrom .. HostTo : ~ (k <= x + 1)
        BY <1>1, <1>5
      <4> QED BY <3>2, <4>1, <4>2, <4>3, <4>4 DEF Formed
    <3> QED BY <3>1, <3>2
  <2> QED BY <1>3, <2>2, <2>3, <2>4 DEF HostAdvances
<1> QED BY <1>1, <1>4, <1>5

\* A host that is a name.
LEMMA NameAdvances ==
    ASSUME HostPlaces, NEW x \in Nat, From - 1 <= x, x < To, x + 1 >= HostFrom, x <= HostTo, ~V6, Formed(x)
    PROVE  HostAdvances(x)
<1> DEFINE c == url[x + 1]
<1>1. /\ From \in Nat /\ To \in Nat /\ HostFrom \in Nat /\ HostTo \in Nat /\ HostTo >= HostFrom - 1
      /\ HostTo <= To /\ x + 1 <= To /\ HostFrom <= To
      /\ HostTo < To => url[HostTo + 1] \in {":", "@"}
      /\ url[HostFrom] # "["
      /\ \A k \in HostFrom .. HostTo : url[k] \notin {":", "@"}
  BY DEF HostPlaces
<1>2. HostStateAt(x) = IF x < HostFrom THEN "s_http_host_start" ELSE "s_http_host"
  BY <1>1 DEF HostStateAt
<1>3. HostGoes(HostStateAt(x), c) =
        IF x < HostFrom
        THEN IF c = "[" THEN "s_http_host_v6_start" ELSE IF c \in HostChar THEN "s_http_host" ELSE "s_http_host_dead"
        ELSE IF c = ":" THEN "s_http_host_port_start" ELSE IF c \in HostChar THEN "s_http_host" ELSE "s_http_host_dead"
  BY <1>2 DEF HostGoes
<1>4. x < HostFrom => c # "["
  BY <1>1
<1>5. CASE x + 1 <= HostTo
  <2>1. c \notin {":", "@"} /\ HostStateAt(x + 1) = "s_http_host"
    <3>1. x + 1 \in HostFrom .. HostTo
      BY <1>1, <1>5
    <3> QED BY <1>1, <1>5, <3>1 DEF HostStateAt
  <2>2. Formed(x + 1) <=> c \in HostChar
    <3>1. Formed(x + 1) => c \in HostChar
      BY <1>1, <1>5 DEF Formed
    <3>2. ASSUME c \in HostChar PROVE Formed(x + 1)
      <4>1. \A k \in HostFrom .. HostTo : k <= x + 1 => k <= x \/ k = x + 1
        BY <1>1
      <4>2. \A k \in From .. HostFrom - 2 : k <= x
        BY <1>1
      <4>3. ~ (x + 1 > HostTo) /\ \A k \in HostTo + 2 .. To : ~ (k <= x + 1)
        BY <1>1, <1>5
      <4> QED BY <3>2, <4>1, <4>2, <4>3 DEF Formed
    <3> QED BY <3>1, <3>2
  <2> QED BY <1>3, <1>4, <2>1, <2>2 DEF HostAdvances
<1>6. CASE x = HostTo
  <2>1. c \in {":", "@"} /\ c \notin HostChar
    BY <1>1, <1>6 DEF HostChar, AlphaNum, Alpha, Num
  <2>2. CASE x < HostFrom
    <3>1. ~Formed(x + 1)
      BY <1>1, <1>6, <2>2 DEF Formed
    <3> QED BY <1>3, <1>4, <2>1, <2>2, <3>1 DEF HostAdvances
  <2>3. CASE HostFrom <= x
    <3>1. HostStateAt(x + 1) = "s_http_host_port_start"
      BY <1>1, <1>6, <2>3 DEF HostStateAt
    <3>2. Formed(x + 1) <=> c = ":"
      <4>1. Formed(x + 1) => c = ":"
        BY <1>1, <1>6 DEF Formed
      <4>2. ASSUME c = ":" PROVE Formed(x + 1)
        <5>1. /\ \A k \in From .. HostFrom - 2 : k <= x
              /\ \A k \in HostFrom .. HostTo : k <= x
              /\ \A k \in HostTo + 2 .. To : ~ (k <= x + 1)
          BY <1>1, <1>6
        <5> QED BY <1>6, <2>3, <4>2, <5>1 DEF Formed
      <4> QED BY <4>1, <4>2
    <3> QED BY <1>1, <1>3, <2>1, <2>3, <3>1, <3>2 DEF HostAdvances
  <2> QED BY <1>1, <2>2, <2>3
<1> QED BY <1>1, <1>5, <1>6

\* A host that is an address in brackets.
LEMMA AddressAdvances ==
    ASSUME HostPlaces, NEW x \in Nat, From - 1 <= x, x < To, x + 1 >= HostFrom, x <= HostTo, V6, Formed(x)
    PROVE  HostAdvances(x)
<1> DEFINE c == url[x + 1]
<1>1. /\ From \in Nat /\ To \in Nat /\ HostFrom \in Nat /\ HostTo \in Nat /\ HostTo > HostFrom
      /\ x + 1 <= To /\ url[HostFrom] = "[" /\ (HostTo <= To => url[HostTo] = "]")
      /\ \A k \in HostFrom .. HostTo - 1 : url[k] # "]"
      /\ Zone \in Nat /\ Zone > HostFrom /\ Zone <= HostTo /\ (Zone < HostTo => url[Zone] = "%")
      /\ \A k \in HostFrom .. Zone - 1 : url[k] # "%"
  BY DEF HostPlaces
<1>2. \A k \in From .. HostFrom - 2 : k <= x
  BY <1>1
<1>3. x + 1 <= HostTo => ~ (x + 1 > HostTo) /\ \A k \in HostTo + 2 .. To : ~ (k <= x + 1)
  BY <1>1
<1>4. CASE x + 1 = HostFrom
  <2>1. HostStateAt(x) = "s_http_host_start" /\ HostStateAt(x + 1) = "s_http_host_v6_start" /\ c = "["
    BY <1>1, <1>4 DEF HostStateAt
  <2>2. Formed(x + 1)
    <3>1. /\ \A k \in HostFrom + 1 .. Zone - 1 : ~ (k <= x + 1)
          /\ \A k \in Zone + 1 .. HostTo - 1 : ~ (k <= x + 1)
          /\ ~ (x + 1 >= Zone) /\ ~ (x + 1 >= HostTo)
      BY <1>1, <1>4
    <3> QED BY <1>1, <1>2, <1>3, <3>1 DEF Formed
  <2>3. HostGoes("s_http_host_start", c) = "s_http_host_v6_start"
    BY <2>1 DEF HostGoes
  <2> QED BY <2>1, <2>2, <2>3 DEF HostAdvances
<1>5. CASE HostFrom <= x /\ x + 1 < Zone
  <2>1. /\ HostStateAt(x) \in {"s_http_host_v6_start", "s_http_host_v6"} /\ HostStateAt(x + 1) = "s_http_host_v6"
        /\ c # "%" /\ c # "]"
    <3>1. x + 1 \in HostFrom .. Zone - 1 /\ x + 1 \in HostFrom .. HostTo - 1
      BY <1>1, <1>5
    <3> QED BY <1>1, <1>5, <3>1 DEF HostStateAt
  <2>2. HostGoes(HostStateAt(x), c) = IF c \in HexChar THEN "s_http_host_v6" ELSE "s_http_host_dead"
    BY <2>1 DEF HostGoes
  <2>3. Formed(x + 1) <=> c \in HexChar
    <3>1. Formed(x + 1) => c \in HexChar
      BY <1>1, <1>5 DEF Formed
    <3>2. ASSUME c \in HexChar PROVE Formed(x + 1)
      <4>1. /\ \A k \in HostFrom + 1 .. Zone - 1 : k <= x + 1 => k <= x \/ k = x + 1
            /\ \A k \in Zone + 1 .. HostTo - 1 : ~ (k <= x + 1)
            /\ ~ (x + 1 >= Zone) /\ ~ (x + 1 >= HostTo)
        BY <1>1, <1>5
      <4> QED BY <1>1, <1>2, <1>3, <1>5, <3>2, <4>1 DEF Formed
    <3> QED BY <3>1, <3>2
  <2> QED BY <2>1, <2>2, <2>3 DEF HostAdvances
<1>6. CASE x + 1 = Zone
  <2>1. HostStateAt(x) = IF x = HostFrom THEN "s_http_host_v6_start" ELSE "s_http_host_v6"
    BY <1>1, <1>6 DEF HostStateAt
  <2>2. c = IF Zone = HostTo THEN "]" ELSE "%"
    BY <1>1, <1>6
  <2>3. HostStateAt(x + 1) = IF Zone = HostTo THEN "s_http_host_v6_end" ELSE "s_http_host_v6_zone_start"
    BY <1>1, <1>6 DEF HostStateAt
  <2>4. HostGoes(HostStateAt(x), c) = IF x = HostFrom THEN "s_http_host_dead" ELSE HostStateAt(x + 1)
    <3>1. c \notin HexChar
      BY <2>2 DEF HexChar, Hex, Num
    <3>2. CASE x = HostFrom
      BY <2>1, <3>1, <3>2 DEF HostGoes
    <3>3. CASE x # HostFrom
      <4>1. HostStateAt(x) = "s_http_host_v6"
        BY <2>1, <3>3
      <4>2. HostGoes("s_http_host_v6", c) = IF Zone = HostTo THEN "s_http_host_v6_end" ELSE "s_http_host_v6_zone_start"
        BY <2>2 DEF HostGoes
      <4> QED BY <2>3, <3>3, <4>1, <4>2
    <3> QED BY <3>2, <3>3
  <2>5. Formed(x + 1) <=> x # HostFrom
    <3>1. Formed(x + 1) => x # HostFrom
      BY <1>1, <1>6 DEF Formed
    <3>2. ASSUME x # HostFrom PROVE Formed(x + 1)
      <4>1. /\ \A k \in HostFrom + 1 .. Zone - 1 : k <= x
            /\ \A k \in Zone + 1 .. HostTo - 1 : ~ (k <= x + 1)
            /\ HostFrom + 1 < Zone /\ ~ (x + 1 >= HostTo /\ Zone < HostTo)
        BY <1>1, <1>6, <3>2
      <4> QED BY <1>1, <1>2, <1>3, <1>6, <4>1 DEF Formed
    <3> QED BY <3>1, <3>2
  <2> QED BY <2>4, <2>5 DEF HostAdvances
<1>7. CASE Zone <= x /\ x + 1 < HostTo
  <2>1. /\ HostStateAt(x) \in {"s_http_host_v6_zone_start", "s_http_host_v6_zone"}
        /\ HostStateAt(x + 1) = "s_http_host_v6_zone" /\ c # "]"
    <3>1. x + 1 \in HostFrom .. HostTo - 1
      BY <1>1, <1>7
    <3> QED BY <1>1, <1>7, <3>1 DEF HostStateAt
  <2>2. HostGoes(HostStateAt(x), c) = IF c \in ZoneChar THEN "s_http_host_v6_zone" ELSE "s_http_host_dead"
    BY <2>1 DEF HostGoes
  <2>3. Formed(x + 1) <=> c \in ZoneChar
    <3>1. Formed(x + 1) => c \in ZoneChar
      BY <1>1, <1>7 DEF Formed
    <3>2. ASSUME c \in ZoneChar PROVE Formed(x + 1)
      <4>1. /\ \A k \in HostFrom + 1 .. Zone - 1 : k <= x
            /\ \A k \in Zone + 1 .. HostTo - 1 : k <= x + 1 => k <= x \/ k = x + 1
            /\ x >= Zone /\ ~ (x + 1 >= HostTo)
        BY <1>1, <1>7
      <4> QED BY <1>1, <1>2, <1>3, <1>7, <3>2, <4>1 DEF Formed
    <3> QED BY <3>1, <3>2
  <2> QED BY <2>1, <2>2, <2>3 DEF HostAdvances
<1>8. CASE Zone <= x /\ x + 1 = HostTo
  <2>1. HostStateAt(x) = IF x = Zone THEN "s_http_host_v6_zone_start" ELSE "s_http_host_v6_zone"
    BY <1>1, <1>8 DEF HostStateAt
  <2>2. c = "]" /\ HostStateAt(x + 1) = "s_http_host_v6_end"
    BY <1>1, <1>8 DEF HostStateAt
  <2>3. c \notin ZoneChar
    BY <2>2 DEF ZoneChar, AlphaNum, Alpha, Num
  <2>4. HostGoes(HostStateAt(x), c) = IF x = Zone THEN "s_http_host_dead" ELSE "s_http_host_v6_end"
    BY <2>1, <2>2, <2>3 DEF HostGoes
  <2>5. Formed(x + 1) <=> x # Zone
    <3>1. Formed(x + 1) => x # Zone
      BY <1>1, <1>8 DEF Formed
    <3>2. ASSUME x # Zone PROVE Formed(x + 1)
      <4>1. /\ \A k \in HostFrom + 1 .. Zone - 1 : k <= x
            /\ \A k \in Zone + 1 .. HostTo - 1 : k <= x
            /\ x >= Zone /\ Zone + 1 < HostTo
        BY <1>1, <1>8, <3>2
      <4> QED BY <1>1, <1>2, <1>3, <1>8, <4>1 DEF Formed
    <3> QED BY <3>1, <3>2
  <2> QED BY <2>2, <2>4, <2>5 DEF HostAdvances
<1>9. CASE x = HostTo
  <2>1. HostStateAt(x) = "s_http_host_v6_end" /\ HostStateAt(x + 1) = "s_http_host_port_start"
    BY <1>1, <1>9 DEF HostStateAt
  <2>2. HostGoes(HostStateAt(x), c) = IF c = ":" THEN "s_http_host_port_start" ELSE "s_http_host_dead"
    BY <2>1 DEF HostGoes
  <2>3. Formed(x + 1) <=> c = ":"
    <3>1. Formed(x + 1) => c = ":"
      BY <1>1, <1>9 DEF Formed
    <3>2. ASSUME c = ":" PROVE Formed(x + 1)
      <4>1. /\ \A k \in HostFrom + 1 .. Zone - 1 : k <= x
            /\ \A k \in Zone + 1 .. HostTo - 1 : k <= x
            /\ \A k \in HostTo + 2 .. To : ~ (k <= x + 1)
            /\ x >= Zone /\ x >= HostTo
        BY <1>1, <1>9
      <4> QED BY <1>1, <1>2, <1>9, <3>2, <4>1 DEF Formed
    <3> QED BY <3>1, <3>2
  <2> QED BY <2>1, <2>2, <2>3 DEF HostAdvances
<1> QED BY <1>1, <1>4, <1>5, <1>6, <1>7, <1>8, <1>9

LEMMA PortAdvances ==
    ASSUME HostPlaces, NEW x \in Nat, From - 1 <= x, x < To, x >= HostFrom, x > HostTo, Formed(x)
    PROVE  HostAdvances(x)
<1> DEFINE c == url[x + 1]
<1>1. /\ From \in Nat /\ To \in Nat /\ HostFrom \in Nat /\ HostTo \in Nat /\ x + 1 <= To
      /\ V6 => HostTo > HostFrom /\ Zone \in Nat /\ Zone <= HostTo
  BY DEF HostPlaces
<1>2. /\ HostStateAt(x) \in {"s_http_host_port_start", "s_http_host_port"}
      /\ HostStateAt(x + 1) = "s_http_host_port"
  BY <1>1 DEF HostStateAt
<1>3. HostGoes(HostStateAt(x), c) = IF c \in Num THEN "s_http_host_port" ELSE "s_http_host_dead"
  BY <1>2 DEF HostGoes
<1>4. Formed(x + 1) <=> c \in Num
  <2>1. Formed(x + 1) => c \in Num
    BY <1>1 DEF Formed
  <2>2. ASSUME c \in Num PROVE Formed(x + 1)
    <3>1. /\ \A k \in From .. HostFrom - 2 : k <= x
          /\ V6 => \A k \in HostFrom + 1 .. Zone - 1 : k <= x
          /\ V6 => \A k \in Zone + 1 .. HostTo - 1 : k <= x
          /\ \A k \in HostFrom .. HostTo : k <= x
          /\ \A k \in HostTo + 2 .. To : k <= x + 1 => k <= x \/ k = x + 1
          /\ V6 => x >= Zone /\ x >= HostTo
      BY <1>1
    <3> QED BY <2>2, <3>1 DEF Formed
  <2> QED BY <2>1, <2>2
<1> QED BY <1>2, <1>3, <1>4 DEF HostAdvances

LEMMA HostAllAdvance ==
    ASSUME HostPlaces, NEW x \in Nat, From - 1 <= x, x < To, Formed(x)
    PROVE  HostAdvances(x)
<1>1. /\ From \in Nat /\ To \in Nat /\ HostFrom \in Nat /\ HostTo \in Nat /\ HostTo >= HostFrom - 1
  BY DEF HostPlaces
<1>2. CASE x + 1 < HostFrom
  BY <1>2, UserinfoAdvances
<1>3. CASE x + 1 >= HostFrom /\ x <= HostTo
  BY <1>3, NameAdvances, AddressAdvances
<1>4. CASE x + 1 >= HostFrom /\ x > HostTo
  <2>1. x >= HostFrom
    BY <1>1, <1>4
  <2> QED BY <1>4, <2>1, PortAdvances
<1> QED BY <1>1, <1>2, <1>3, <1>4

\* The first and the last letter of the fields of an authority.
HostLo(f) == CASE f = "host" -> IF V6 THEN HostFrom + 1 ELSE HostFrom
               [] f = "port" -> HostTo + 2
               [] f = "userinfo" -> From
               [] OTHER -> 1
HostHi(f) == CASE f = "host" -> IF V6 THEN HostTo - 1 ELSE HostTo
               [] f = "port" -> To
               [] f = "userinfo" -> HostFrom - 2
               [] OTHER -> 0

LEMMA HostStateType == ASSUME NEW x PROVE HostStateAt(x) \in HostStates
BY DEF HostStateAt, HostStates

LEMMA HostGoesType == ASSUME NEW s, NEW c PROVE HostGoes(s, c) \in HostStates
BY DEF HostGoes, HostStates

LEMMA HostEndsAre ==
    ASSUME HostPlaces, NEW f \in Fields
    PROVE  HostLo(f) \in Nat /\ HostHi(f) \in Int
<1>1. From \in Nat /\ To \in Nat /\ HostFrom \in Nat /\ HostTo \in Nat
  BY DEF HostPlaces
<1>2. HostLo(f) \in {IF V6 THEN HostFrom + 1 ELSE HostFrom, HostTo + 2, From, 1}
  BY DEF HostLo
<1>3. HostHi(f) \in {IF V6 THEN HostTo - 1 ELSE HostTo, To, HostFrom - 2, 0}
  BY DEF HostHi
<1>4. HostLo(f) \in Nat
  BY <1>1, <1>2
<1>5. HostHi(f) \in Int
  BY <1>1, <1>3
<1> QED BY <1>4, <1>5

LEMMA HostFieldIs ==
    ASSUME NEW s \in HostStates
    PROVE  /\ HostField[s] = "host" <=> s \in {"s_http_host", "s_http_host_v6", "s_http_host_v6_zone_start",
                                               "s_http_host_v6_zone"}
           /\ HostField[s] = "port" <=> s = "s_http_host_port"
           /\ HostField[s] = "userinfo" <=> s = "s_http_userinfo"
           /\ HostField[s] \in {"host", "port", "userinfo", "none"}
BY DEF HostField

LEMMA HostFieldOfState ==
    ASSUME HostPlaces, NEW x \in From .. To, NEW f \in Fields
    PROVE  HostField[HostStateAt(x)] = f <=> HostLo(f) <= x /\ x <= HostHi(f)
<1> DEFINE s == HostStateAt(x)
<1>1. /\ From \in Nat /\ To \in Nat /\ HostFrom \in Nat /\ HostTo \in Nat /\ x \in Nat
      /\ From <= x /\ x <= To /\ From # 0
      /\ HostTo >= HostFrom - 1
      /\ V6 => HostTo > HostFrom /\ Zone \in Nat /\ Zone <= HostTo /\ Zone > HostFrom
  BY DEF HostPlaces
<1>2. /\ s \in {"s_http_host", "s_http_host_v6", "s_http_host_v6_zone_start", "s_http_host_v6_zone"}
           <=> IF V6 THEN HostFrom < x /\ x < HostTo ELSE HostFrom <= x /\ x <= HostTo
      /\ s = "s_http_host_port" <=> HostTo + 2 <= x
      /\ s = "s_http_userinfo" <=> x <= HostFrom - 2
  <2>1. CASE x < HostFrom
    <3>1. s = IF x < HostFrom - 1 THEN "s_http_userinfo" ELSE "s_http_host_start"
      BY <1>1, <2>1 DEF HostStateAt
    <3> HIDE DEF s
    <3> QED BY <1>1, <2>1, <3>1
  <2>2. CASE x >= HostFrom /\ x > HostTo
    <3>1. s = IF x = HostTo + 1 THEN "s_http_host_port_start" ELSE "s_http_host_port"
      BY <1>1, <2>2 DEF HostStateAt
    <3> HIDE DEF s
    <3> QED BY <1>1, <2>2, <3>1
  <2>3. CASE x >= HostFrom /\ x <= HostTo /\ V6
    <3>1. s = IF x = HostFrom THEN "s_http_host_v6_start" ELSE IF x < Zone THEN "s_http_host_v6"
              ELSE IF x = HostTo THEN "s_http_host_v6_end"
              ELSE IF x = Zone THEN "s_http_host_v6_zone_start" ELSE "s_http_host_v6_zone"
      BY <1>1, <2>3 DEF HostStateAt
    <3> HIDE DEF s
    <3> QED BY <1>1, <2>3, <3>1
  <2>4. CASE x >= HostFrom /\ x <= HostTo /\ ~V6
    <3>1. s = "s_http_host"
      BY <1>1, <2>4 DEF HostStateAt
    <3> HIDE DEF s
    <3> QED BY <1>1, <2>4, <3>1
  <2> QED BY <1>1, <2>1, <2>2, <2>3, <2>4
<1>3. s \in HostStates
  BY HostStateType
<1> HIDE DEF s
<1>4. /\ f = "host" => HostLo(f) = (IF V6 THEN HostFrom + 1 ELSE HostFrom) /\ HostHi(f) = IF V6 THEN HostTo - 1 ELSE HostTo
      /\ f = "port" => HostLo(f) = HostTo + 2 /\ HostHi(f) = To
      /\ f = "userinfo" => HostLo(f) = From /\ HostHi(f) = HostFrom - 2
      /\ f \notin {"host", "port", "userinfo"} => HostLo(f) = 1 /\ HostHi(f) = 0
  BY DEF HostLo, HostHi
<1>5. CASE f = "host"
  <2>1. HostLo(f) <= x /\ x <= HostHi(f) <=> IF V6 THEN HostFrom < x /\ x < HostTo ELSE HostFrom <= x /\ x <= HostTo
    BY <1>1, <1>4, <1>5
  <2> QED BY <1>2, <1>3, <1>5, <2>1, HostFieldIs DEF s
<1>6. CASE f = "port"
  <2>1. HostLo(f) <= x /\ x <= HostHi(f) <=> HostTo + 2 <= x
    BY <1>1, <1>4, <1>6
  <2> QED BY <1>2, <1>3, <1>6, <2>1, HostFieldIs DEF s
<1>7. CASE f = "userinfo"
  <2>1. HostLo(f) <= x /\ x <= HostHi(f) <=> x <= HostFrom - 2
    BY <1>1, <1>4, <1>7
  <2> QED BY <1>2, <1>3, <1>7, <2>1, HostFieldIs DEF s
<1>8. CASE f \notin {"host", "port", "userinfo"}
  <2>1. ~ (HostLo(f) <= x /\ x <= HostHi(f))
    BY <1>1, <1>4, <1>8
  <2>2. f # "none"
    BY DEF Fields
  <2> QED BY <1>3, <1>8, <2>1, <2>2, HostFieldIs DEF s
<1> QED BY <1>5, <1>6, <1>7, <1>8

FreshStates == {"s_http_host", "s_http_host_v6", "s_http_host_port", "s_http_userinfo"}

\* A field begins where the code gives it a new offset.
LEMMA HostFresh ==
    ASSUME HostPlaces, NEW x \in Nat, From - 1 <= x, x < To, Formed(x + 1), NEW f \in Fields,
           HostLo(f) <= x + 1, x + 1 <= HostHi(f)
    PROVE  HostStateAt(x + 1) # HostStateAt(x) /\ HostStateAt(x + 1) \in FreshStates <=> x + 1 = HostLo(f)
<1>1. /\ From \in Nat /\ To \in Nat /\ HostFrom \in Nat /\ HostTo \in Nat
      /\ HostTo >= HostFrom - 1 /\ From # 0
      /\ V6 => HostTo > HostFrom /\ Zone \in Nat /\ Zone <= HostTo /\ Zone > HostFrom
  BY DEF HostPlaces
<1>2. V6 /\ x + 1 >= Zone => HostFrom + 1 < Zone
  BY DEF Formed
<1>3. /\ f = "host" => HostLo(f) = (IF V6 THEN HostFrom + 1 ELSE HostFrom) /\ HostHi(f) = IF V6 THEN HostTo - 1 ELSE HostTo
      /\ f = "port" => HostLo(f) = HostTo + 2 /\ HostHi(f) = To
      /\ f = "userinfo" => HostLo(f) = From /\ HostHi(f) = HostFrom - 2
      /\ f \notin {"host", "port", "userinfo"} => HostLo(f) = 1 /\ HostHi(f) = 0
  BY DEF HostLo, HostHi
<1>4. CASE f = "host" /\ ~V6
  <2>1. /\ HostStateAt(x + 1) = "s_http_host"
        /\ HostStateAt(x) = IF x < HostFrom THEN "s_http_host_start" ELSE "s_http_host"
    BY <1>1, <1>3, <1>4 DEF HostStateAt
  <2> QED BY <1>1, <1>3, <1>4, <2>1 DEF FreshStates
<1>5. CASE f = "host" /\ V6
  <2>1. HostFrom + 1 <= x + 1 /\ x + 1 <= HostTo - 1
    BY <1>3, <1>5
  <2>2. HostStateAt(x + 1) = IF x + 1 < Zone THEN "s_http_host_v6"
                             ELSE IF x + 1 = Zone THEN "s_http_host_v6_zone_start" ELSE "s_http_host_v6_zone"
    BY <1>1, <1>5, <2>1 DEF HostStateAt
  <2>3. x + 1 < Zone => HostStateAt(x) = IF x = HostFrom THEN "s_http_host_v6_start" ELSE "s_http_host_v6"
    BY <1>1, <1>5, <2>1 DEF HostStateAt
  <2>4. x = HostFrom => x + 1 < Zone
    BY <1>1, <1>2, <1>5
  <2> QED BY <1>1, <1>3, <1>5, <2>1, <2>2, <2>3, <2>4 DEF FreshStates
<1>6. CASE f = "port"
  <2>1. /\ HostStateAt(x + 1) = "s_http_host_port"
        /\ HostStateAt(x) = IF x = HostTo + 1 THEN "s_http_host_port_start" ELSE "s_http_host_port"
    <3>1. x >= HostFrom /\ x > HostTo
      BY <1>1, <1>3, <1>6
    <3> QED BY <1>1, <1>3, <1>6, <3>1 DEF HostStateAt
  <2> QED BY <1>1, <1>3, <1>6, <2>1 DEF FreshStates
<1>7. CASE f = "userinfo"
  <2>1. /\ HostStateAt(x + 1) = "s_http_userinfo"
        /\ HostStateAt(x) = IF x < From THEN "s_http_userinfo_start" ELSE "s_http_userinfo"
    BY <1>1, <1>3, <1>7 DEF HostStateAt
  <2> QED BY <1>1, <1>3, <1>7, <2>1 DEF FreshStates
<1>8. CASE f \notin {"host", "port", "userinfo"}
  BY <1>1, <1>3, <1>8
<1> QED BY <1>4, <1>5, <1>6, <1>7, <1>8

\* What http_parse_host knows after the letter at x: of the host nothing but
\* the offset it was called with until there is a letter of it.
HostValue(f, x, u) ==
    IF f \in {"port", "userinfo"} THEN Part(HostLo(f), HostHi(f), x)
    ELSE IF f # "host" THEN u[f]
    ELSE IF x < HostLo(f) THEN <<From, 0>> ELSE Part(HostLo(f), HostHi(f), x)

HostFits(x, a, u) ==
    /\ a.s = HostStateAt(x)
    /\ \A f \in Fields : a.u[f] = HostValue(f, x, u)

HostSplits == [s : HostStates, u : [Fields -> Nat \X Nat]]

LEMMA HostTurnType ==
    ASSUME NEW w, NEW a \in HostSplits, NEW i \in Nat, w[i] \in UrlLetters
    PROVE  LET s == HostGoes(a.s, w[i])
               f == HostField[s]
               fresh == s # a.s /\ s \in FreshStates
               b == HostTurn(w, a, i)
           IN  /\ b \in HostSplits /\ b.s = s
               /\ \A g \in Fields : b.u[g] = IF g # f THEN a.u[g]
                                             ELSE IF fresh THEN <<Narrow(i), IF f = "host" THEN Longer(a.u[g][2]) ELSE 1>>
                                             ELSE <<a.u[g][1], Longer(a.u[g][2])>>
<1> DEFINE s == HostGoes(a.s, w[i])
           f == HostField[s]
           fresh == s # a.s /\ s \in FreshStates
           b == HostTurn(w, a, i)
           u == CASE f = "none" -> a.u
                  [] f = "host" /\ fresh -> [a.u EXCEPT !["host"] = <<Narrow(i), Longer(@[2])>>]
                  [] OTHER -> Grow(a.u, f, i, fresh)
<1>1. a.s \in HostStates /\ a.u \in [Fields -> Nat \X Nat]
  BY DEF HostSplits
<1>2. http_parse_host_char(a.s, w[i]) = s
  BY <1>1, HostGoesRight
<1>3. b = [s |-> s, u |-> u]
  <2> HIDE DEF s
  <2> QED BY <1>2 DEF HostTurn, FreshStates
<1>4. s \in HostStates
  BY HostGoesType
<1> HIDE DEF s
<1>5. f \in {"host", "port", "userinfo", "none"}
  BY <1>4, HostFieldIs
<1>6. fresh \in BOOLEAN
  OBVIOUS
<1> HIDE DEF f, fresh
<1>7. /\ u \in [Fields -> Nat \X Nat]
      /\ \A g \in Fields : u[g] = IF g # f THEN a.u[g]
                                  ELSE IF fresh THEN <<Narrow(i), IF f = "host" THEN Longer(a.u[g][2]) ELSE 1>>
                                  ELSE <<a.u[g][1], Longer(a.u[g][2])>>
  <2>1. CASE f = "none"
    <3>1. u = a.u /\ "none" \notin Fields
      BY <2>1 DEF Fields
    <3> HIDE DEF u
    <3> QED BY <1>1, <2>1, <3>1
  <2>2. CASE f = "host" /\ fresh
    <3>1. u = [a.u EXCEPT !["host"] = <<Narrow(i), Longer(a.u["host"][2])>>]
      BY <2>2
    <3>2. "host" \in Fields /\ a.u["host"] \in Nat \X Nat
      BY <1>1 DEF Fields
    <3>3. <<Narrow(i), Longer(a.u["host"][2])>> \in Nat \X Nat
      BY <3>2, NarrowIs, LongerIs
    <3> DEFINE v == <<Narrow(i), Longer(a.u["host"][2])>>
    <3>4. v \in Nat \X Nat /\ u = [a.u EXCEPT !["host"] = v]
      BY <3>1, <3>3
    <3>5. v = <<Narrow(i), Longer(a.u["host"][2])>>
      OBVIOUS
    <3> HIDE DEF u, v
    <3>6. u \in [Fields -> Nat \X Nat] /\ u["host"] = v /\ \A g \in Fields : g # "host" => u[g] = a.u[g]
      BY <1>1, <3>2, <3>4
    <3> QED BY <2>2, <3>5, <3>6
  <2>3. CASE f # "none" /\ ~ (f = "host" /\ fresh)
    <3>1. u = Grow(a.u, f, i, fresh)
      BY <2>3
    <3>2. f \in Fields
      BY <1>5, <2>3 DEF Fields
    <3> HIDE DEF u
    <3>3. u \in [Fields -> Nat \X Nat] /\ u[f] = IF fresh THEN <<Narrow(i), 1>> ELSE <<a.u[f][1], Longer(a.u[f][2])>>
      <4>1. /\ Grow(a.u, f, i, fresh) \in [Fields -> Nat \X Nat]
            /\ Grow(a.u, f, i, fresh)[f] = IF fresh THEN <<Narrow(i), 1>> ELSE <<a.u[f][1], Longer(a.u[f][2])>>
        BY <1>1, <1>6, <3>2, GrowType
      <4> QED BY <3>1, <4>1
    <3>4. \A g \in Fields : g # f => u[g] = a.u[g]
      <4>1. ASSUME NEW g \in Fields, g # f PROVE u[g] = a.u[g]
        <5>1. Grow(a.u, f, i, fresh)[g] = a.u[g]
          BY <1>1, <1>6, <3>2, <4>1, GrowOthers
        <5> QED BY <3>1, <5>1
      <4> QED BY <4>1
    <3> QED BY <2>3, <3>3, <3>4
  <2> QED BY <2>1, <2>2, <2>3
<1> HIDE DEF u
<1>8. b \in HostSplits
  BY <1>3, <1>4, <1>7 DEF HostSplits
<1>9. b.s = s /\ b.u = u
  BY <1>3
<1> QED BY <1>7, <1>8, <1>9 DEF s, f, fresh

LEMMA HostFitsNext ==
    ASSUME HostPlaces, To < Width16, NEW x \in Nat, From - 1 <= x, x < To, Formed(x), url[x + 1] \in UrlLetters,
           NEW u, NEW a \in HostSplits, HostFits(x, a, u), NEW b, b = HostTurn(url, a, x + 1)
    PROVE  /\ b \in HostSplits
           /\ IF Formed(x + 1) THEN HostFits(x + 1, b, u) ELSE b.s = "s_http_host_dead"
<1> DEFINE s == HostGoes(a.s, url[x + 1])
           fresh == s # a.s /\ s \in FreshStates
<1>1. /\ x + 1 \in Nat /\ x + 1 \in From .. To /\ From \in Nat /\ HostFrom \in Nat /\ HostTo \in Nat
      /\ V6 => Zone \in Nat /\ Zone <= HostTo
  BY DEF HostPlaces
<1>2. s = IF Formed(x + 1) THEN HostStateAt(x + 1) ELSE "s_http_host_dead"
  BY HostAllAdvance DEF HostAdvances, HostFits
<1>3. /\ b \in HostSplits /\ b.s = s
      /\ \A g \in Fields : b.u[g] = IF g # HostField[s] THEN a.u[g]
                                    ELSE IF fresh THEN <<Narrow(x + 1), IF HostField[s] = "host" THEN Longer(a.u[g][2]) ELSE 1>>
                                    ELSE <<a.u[g][1], Longer(a.u[g][2])>>
  BY <1>1, HostTurnType
<1>4. a.s = HostStateAt(x) /\ \A f \in Fields : a.u[f] = HostValue(f, x, u)
  BY DEF HostFits
<1>5. CASE ~Formed(x + 1)
  BY <1>2, <1>3, <1>5
<1>6. CASE Formed(x + 1)
  <2>1. s = HostStateAt(x + 1)
    BY <1>2, <1>6
  <2>2. ASSUME NEW f \in Fields PROVE b.u[f] = HostValue(f, x + 1, u)
    <3>1. HostField[s] = f <=> HostLo(f) <= x + 1 /\ x + 1 <= HostHi(f)
      BY <1>1, <2>1, HostFieldOfState
    <3>2. HostLo(f) <= x + 1 /\ x + 1 <= HostHi(f) => (fresh <=> x + 1 = HostLo(f))
      BY <1>4, <1>6, <2>1, HostFresh
    <3>3. HostLo(f) \in Nat /\ HostHi(f) \in Int
      BY HostEndsAre
    <3>4. b.u[f] = IF ~ (HostLo(f) <= x + 1 /\ x + 1 <= HostHi(f)) THEN HostValue(f, x, u)
                   ELSE IF x + 1 = HostLo(f) THEN <<x + 1, IF f = "host" THEN HostValue(f, x, u)[2] + 1 ELSE 1>>
                   ELSE <<HostValue(f, x, u)[1], HostValue(f, x, u)[2] + 1>>
      <4> HIDE DEF s, fresh
      <4>1. b.u[f] = IF ~ (HostLo(f) <= x + 1 /\ x + 1 <= HostHi(f)) THEN HostValue(f, x, u)
                     ELSE IF x + 1 = HostLo(f) THEN <<Narrow(x + 1), IF f = "host" THEN Longer(HostValue(f, x, u)[2]) ELSE 1>>
                     ELSE <<HostValue(f, x, u)[1], Longer(HostValue(f, x, u)[2])>>
        BY <1>3, <1>4, <3>1, <3>2
      <4>2. Narrow(x + 1) = x + 1
        BY <1>1, NarrowIs, WidthAssumption DEF HostPlaces
      <4>3. f \in {"host", "port", "userinfo"} => Longer(HostValue(f, x, u)[2]) = HostValue(f, x, u)[2] + 1
        <5> SUFFICES ASSUME f \in {"host", "port", "userinfo"}
                     PROVE  Longer(HostValue(f, x, u)[2]) = HostValue(f, x, u)[2] + 1
          OBVIOUS
        <5>1. HostLo(f) # 0
          BY DEF HostPlaces, HostLo
        <5>2. Part(HostLo(f), HostHi(f), x)[2] \in 0 .. x
          BY <3>3, <5>1, PartShort
        <5>3. HostValue(f, x, u)[2] \in 0 .. x
          BY <5>2 DEF HostValue
        <5> DEFINE v == HostValue(f, x, u)[2]
        <5>4. v \in 0 .. x
          BY <5>3
        <5> HIDE DEF v
        <5>5. v \in Nat /\ v + 1 < Width16
          BY <1>1, <5>4, WidthAssumption DEF HostPlaces
        <5>6. Longer(v) = v + 1
          BY <5>5, LongerIs
        <5> QED BY <5>6 DEF v
      <4>4. HostLo(f) <= x + 1 /\ x + 1 <= HostHi(f) => f \in {"host", "port", "userinfo"}
        <5> SUFFICES ASSUME f \notin {"host", "port", "userinfo"} PROVE HostLo(f) > HostHi(f)
          BY <3>3
        <5> QED BY DEF HostLo, HostHi
      <4> QED BY <4>1, <4>2, <4>3, <4>4
    <3>5. /\ HostLo(f) <= x + 1 /\ x + 1 <= HostHi(f)
               => Part(HostLo(f), HostHi(f), x + 1)
                    = IF x + 1 = HostLo(f) THEN <<x + 1, 1>>
                      ELSE <<Part(HostLo(f), HostHi(f), x)[1], Part(HostLo(f), HostHi(f), x)[2] + 1>>
          /\ ~ (HostLo(f) <= x + 1 /\ x + 1 <= HostHi(f))
               => Part(HostLo(f), HostHi(f), x + 1) = Part(HostLo(f), HostHi(f), x)
      <4> DEFINE i == HostLo(f)
                 j == HostHi(f)
      <4>1. i \in Nat /\ j \in Int
        BY <3>3
      <4> HIDE DEF i, j
      <4>2. /\ i <= x + 1 /\ x + 1 <= j
                 => Part(i, j, x + 1) = IF x + 1 = i THEN <<x + 1, 1>>
                                        ELSE <<Part(i, j, x)[1], Part(i, j, x)[2] + 1>>
            /\ ~ (i <= x + 1 /\ x + 1 <= j) => Part(i, j, x + 1) = Part(i, j, x)
        BY <4>1, PartGrows
      <4> QED BY <4>2 DEF i, j
    <3>6. CASE f \in {"port", "userinfo"}
      <4>1. \A y : HostValue(f, y, u) = Part(HostLo(f), HostHi(f), y)
        BY <3>6 DEF HostValue
      <4> QED BY <3>4, <3>6, <3>5, <4>1
    <3>7. CASE f \notin {"port", "userinfo", "host"}
      <4>1. \A y : HostValue(f, y, u) = u[f]
        BY <3>7 DEF HostValue
      <4>2. HostLo(f) = 1 /\ HostHi(f) = 0
        BY <3>7 DEF HostLo, HostHi
      <4>3. ~ (HostLo(f) <= x + 1 /\ x + 1 <= HostHi(f))
        BY <4>2
      <4> QED BY <3>4, <4>1, <4>3
    <3>8. CASE f = "host"
      <4>1. \A y : HostValue(f, y, u) = IF y < HostLo(f) THEN <<From, 0>> ELSE Part(HostLo(f), HostHi(f), y)
        BY <3>8 DEF HostValue
      <4>2. CASE x + 1 < HostLo(f)
        BY <3>3, <3>4, <4>1, <4>2
      <4>3. CASE x + 1 = HostLo(f)
        <5>1. HostLo(f) = (IF V6 THEN HostFrom + 1 ELSE HostFrom) /\ HostHi(f) = IF V6 THEN HostTo - 1 ELSE HostTo
          BY <3>8 DEF HostLo, HostHi
        <5>2. V6 => HostFrom + 1 <= HostTo - 1
          <6> SUFFICES ASSUME V6 PROVE HostFrom + 1 <= HostTo - 1
            OBVIOUS
          <6>1. x + 1 >= Zone => HostFrom + 1 < Zone
            BY <1>6 DEF Formed
          <6> QED BY <1>1, <4>3, <5>1, <6>1
        <5>3. ~V6 => HostFrom <= HostTo
          <6> SUFFICES ASSUME ~V6 PROVE HostFrom <= HostTo
            OBVIOUS
          <6>1. x + 1 > HostTo => HostFrom <= HostTo
            BY <1>6 DEF Formed
          <6> QED BY <1>1, <4>3, <5>1, <6>1
        <5>4. x + 1 <= HostHi(f)
          BY <1>1, <4>3, <5>1, <5>2, <5>3
        <5>5. Part(HostLo(f), HostHi(f), x + 1) = <<x + 1, 1>>
          BY <3>3, <3>5, <4>3, <5>4
        <5>6. HostValue(f, x, u) = <<From, 0>>
          BY <3>3, <4>1, <4>3
        <5>7. HostValue(f, x + 1, u) = <<x + 1, 1>>
          BY <3>3, <4>1, <4>3, <5>5
        <5> QED BY <3>3, <3>4, <3>8, <4>3, <5>4, <5>6, <5>7
      <4>4. CASE x + 1 > HostLo(f)
        <5>1. x + 1 # HostLo(f)
          BY <3>3, <4>4
        <5>2. HostValue(f, x, u) = Part(HostLo(f), HostHi(f), x) /\ HostValue(f, x + 1, u) = Part(HostLo(f), HostHi(f), x + 1)
          BY <3>3, <4>1, <4>4
        <5> QED BY <3>4, <3>5, <4>4, <5>1, <5>2
      <4> QED BY <3>3, <4>2, <4>3, <4>4
    <3> QED BY <3>6, <3>7, <3>8
  <2> QED BY <1>3, <1>6, <2>1, <2>2 DEF HostFits
<1> QED BY <1>5, <1>6

HostBase(u, found_at) ==
    [s |-> IF found_at THEN "s_http_userinfo_start" ELSE "s_http_host_start", u |-> [u EXCEPT !["host"][2] = 0]]

LEMMA HostFitsFirst ==
    ASSUME HostPlaces, NEW u \in [Fields -> Nat \X Nat], u["host"] = <<From, To - From + 1>>,
           u["port"] = None, u["userinfo"] = None, NEW found_at, found_at <=> Ats # {}
    PROVE  /\ HostBase(u, found_at) \in HostSplits /\ HostFits(From - 1, HostBase(u, found_at), u)
           /\ Formed(From - 1)
<1> DEFINE a == HostBase(u, found_at)
           v == [u EXCEPT !["host"][2] = 0]
<1>1. /\ From \in Nat /\ From # 0 /\ To \in Nat /\ HostFrom \in Nat /\ HostTo \in Nat
      /\ HostFrom >= From /\ HostTo >= HostFrom - 1 /\ From - 1 \in Nat
      /\ V6 => Zone \in Nat /\ Zone > HostFrom /\ HostTo > HostFrom
      /\ Ats = {} => HostFrom = From
      /\ Ats # {} => HostFrom > From
  BY DEF HostPlaces
<1>2. "host" \in Fields /\ u["host"][1] = From
  BY DEF Fields
<1>3. /\ v \in [Fields -> Nat \X Nat] /\ v["host"] = <<From, 0>>
      /\ \A f \in Fields : f # "host" => v[f] = u[f]
  <2>1. u["host"] \in Nat \X Nat
    BY <1>2
  <2>2. [u["host"] EXCEPT ![2] = 0] = <<From, 0>>
    OBVIOUS
  <2>3. v = [u EXCEPT !["host"] = [u["host"] EXCEPT ![2] = 0]]
    OBVIOUS
  <2>4. v = [u EXCEPT !["host"] = <<From, 0>>]
    BY <2>2, <2>3
  <2>5. <<From, 0>> \in Nat \X Nat
    BY <1>1
  <2> HIDE DEF v
  <2> QED BY <1>2, <2>4, <2>5
<1>4. a.u = v /\ a.s = (IF found_at THEN "s_http_userinfo_start" ELSE "s_http_host_start") /\ a \in HostSplits
  <2> HIDE DEF v
  <2>1. a = [s |-> IF found_at THEN "s_http_userinfo_start" ELSE "s_http_host_start", u |-> v]
    BY DEF HostBase, v
  <2> HIDE DEF a
  <2> QED BY <1>3, <2>1 DEF HostSplits, HostStates
<1> HIDE DEF a, v
<1>5. a.s = HostStateAt(From - 1)
  <2>1. CASE Ats = {}
    <3>1. HostStateAt(From - 1) = "s_http_host_start"
      BY <1>1, <2>1 DEF HostStateAt
    <3> QED BY <1>4, <2>1, <3>1
  <2>2. CASE Ats # {}
    <3>1. HostStateAt(From - 1) = "s_http_userinfo_start"
      BY <1>1, <2>2 DEF HostStateAt
    <3> QED BY <1>4, <2>2, <3>1
  <2> QED BY <2>1, <2>2
<1>6. ASSUME NEW f \in Fields PROVE a.u[f] = HostValue(f, From - 1, u)
  <2>1. CASE f = "host"
    <3>1. From - 1 < HostLo(f)
      BY <1>1, <2>1 DEF HostLo
    <3>2. HostValue(f, From - 1, u) = <<From, 0>>
      BY <2>1, <3>1 DEF HostValue
    <3> QED BY <1>3, <1>4, <2>1, <3>2
  <2>2. CASE f \in {"port", "userinfo"}
    <3>1. HostLo(f) \in Nat /\ HostHi(f) \in Int
      BY HostEndsAre
    <3>2. HostLo(f) > From - 1
      BY <1>1, <2>2 DEF HostLo
    <3>3. Part(HostLo(f), HostHi(f), From - 1) = None
      BY <1>1, <3>1, <3>2 DEF Part, Field
    <3>4. HostValue(f, From - 1, u) = None
      BY <2>2, <3>3 DEF HostValue
    <3>5. u[f] = None /\ f # "host"
      BY <2>2
    <3> QED BY <1>3, <1>4, <3>4, <3>5
  <2>3. CASE f \notin {"port", "userinfo", "host"}
    BY <1>3, <1>4, <2>3 DEF HostValue
  <2> QED BY <2>1, <2>2, <2>3
<1>7. Formed(From - 1)
  <2>1. /\ \A k \in From .. HostFrom - 2 : ~ (k <= From - 1)
        /\ V6 => \A k \in HostFrom + 1 .. Zone - 1 : ~ (k <= From - 1)
        /\ V6 => \A k \in Zone + 1 .. HostTo - 1 : ~ (k <= From - 1)
        /\ \A k \in HostFrom .. HostTo : ~ (k <= From - 1)
        /\ \A k \in HostTo + 2 .. To : ~ (k <= From - 1)
        /\ ~ (From - 1 > HostTo)
        /\ V6 => ~ (From - 1 >= Zone) /\ ~ (From - 1 >= HostTo)
    BY <1>1
  <2> QED BY <2>1 DEF Formed
<1> QED BY <1>4, <1>5, <1>6, <1>7 DEF HostFits, a

\* The loop of http_parse_host over the letters at seq.
HostLoop(w, seq, base) == FoldLeft(LAMBDA a, i : HostTurn(w, a, i), base, seq)

\* The walk h is the one of that loop.
HostWalks(w, seq, m, h) == \A k \in 1 .. m : h[k] = HostTurn(w, h[k - 1], seq[k])

LEMMA HostFold ==
    ASSUME NEW w, NEW m \in Nat, NEW seq \in [1 .. m -> Nat], NEW base \in HostSplits,
           \A k \in 1 .. m : w[seq[k]] \in UrlLetters
    PROVE  \E h \in [0 .. m -> HostSplits] :
              /\ h[0] = base /\ h[m] = HostLoop(w, seq, base)
              /\ HostWalks(w, seq, m, h)
<1> DEFINE F == [x \in HostSplits \X (1 .. m) |-> HostTurn(w, x[1], seq[x[2]])]
           Q(g) == g = [s \in SUBSET (DOMAIN seq) |->
                          IF s = {} THEN base ELSE HostTurn(w, g[s \ {Max(s)}], seq[Max(s)])]
           it == CHOOSE g : Q(g)
<1>1. DOMAIN seq = 1 .. m
  OBVIOUS
<1>2. HostLoop(w, seq, base) = it[DOMAIN seq]
  BY DEF HostLoop, FoldLeft, MapThenFoldSet
<1>3. \A v \in HostSplits, k \in 1 .. m : F[v, k] = HostTurn(w, v, seq[k])
  OBVIOUS
<1> HIDE DEF F
<1>4. Stays(F, m, HostSplits)
  <2>1. ASSUME NEW v \in HostSplits, NEW k \in 1 .. m PROVE F[v, k] \in HostSplits
    <3>1. F[v, k] = HostTurn(w, v, seq[k])
      BY <1>3
    <3>2. seq[k] \in Nat /\ w[seq[k]] \in UrlLetters
      OBVIOUS
    <3>3. HostTurn(w, v, seq[k]) \in HostSplits
      BY <3>2, HostTurnType
    <3> QED BY <3>1, <3>3
  <2> QED BY <2>1 DEF Stays
<1>5. PICK g \in [SUBSET (1 .. m) -> HostSplits] : Folds(g, m, base, F)
  BY <1>1, <1>4, FoldExists
<1>6. Q(g)
  <2>1. ASSUME NEW s \in SUBSET (1 .. m), s # {}
        PROVE  F[g[s \ {Max(s)}], Max(s)] = HostTurn(w, g[s \ {Max(s)}], seq[Max(s)])
    BY <1>1, <1>3, <2>1, MaxOf
  <2>2. \A s \in SUBSET (1 .. m) :
          (IF s = {} THEN base ELSE F[g[s \ {Max(s)}], Max(s)])
          = IF s = {} THEN base ELSE HostTurn(w, g[s \ {Max(s)}], seq[Max(s)])
    BY <2>1
  <2> QED BY <1>1, <1>5, <2>2 DEF Folds
<1>7. Q(it)
  <2> HIDE DEF Q
  <2> QED BY <1>6
<1> HIDE DEF it
<1>8. FoldsIn(it, m, HostSplits, base, F)
  <2>1. it[{}] = base
    BY <1>1, <1>7
  <2>2. ASSUME NEW s \in SUBSET (1 .. m), s # {}, it[s \ {Max(s)}] \in HostSplits
        PROVE  it[s] = F[it[s \ {Max(s)}], Max(s)]
    <3>1. Max(s) \in 1 .. m
      BY <1>1, <2>2, MaxOf
    <3>2. it[s] = HostTurn(w, it[s \ {Max(s)}], seq[Max(s)])
      BY <1>1, <1>7, <2>2
    <3> QED BY <1>1, <1>3, <2>2, <3>1, <3>2
  <2> QED BY <2>1, <2>2 DEF FoldsIn
<1> HIDE DEF Q
<1>9. PICK h : Walk(h, m, HostSplits, base, F, it[1 .. m])
  BY <1>1, <1>4, <1>8, FoldWalks
<1>10. h \in [0 .. m -> HostSplits] /\ h[0] = base /\ h[m] = it[1 .. m]
  BY <1>9 DEF Walk
<1>11. ASSUME NEW k \in 1 .. m PROVE h[k] = HostTurn(w, h[k - 1], seq[k])
  <2>1. k - 1 \in 0 .. m
    BY <1>1, UpToOne
  <2>2. h[k] = F[h[k - 1], k]
    BY <1>9 DEF Walk
  <2>3. h[k - 1] \in HostSplits
    BY <1>10, <2>1
  <2> QED BY <1>3, <2>2, <2>3
<1>12. HostWalks(w, seq, m, h)
  BY <1>11 DEF HostWalks
<1> QED BY <1>1, <1>2, <1>10, <1>12

\* An authority is accepted exactly if all of it is as it has to be and it ends
\* where it may, and its fields are then where they are meant to be.
LEMMA HostReads ==
    ASSUME HostPlaces, To < Width16, From - 1 <= To, \A k \in From .. To : url[k] \in UrlLetters,
           NEW u \in [Fields -> Nat \X Nat], u["host"] = <<From, To - From + 1>>,
           u["port"] = None, u["userinfo"] = None, NEW found_at, found_at <=> Ats # {},
           NEW r, r = http_parse_host(url, u, found_at)
    PROVE  /\ r.ok <=> Formed(To) /\ HostStateAt(To) \in HostEnds
           /\ r.ok => r.u \in [Fields -> Nat \X Nat] /\ \A f \in Fields : r.u[f] = HostValue(f, To, u)
<1> DEFINE m == To - From + 1
           base == HostBase(u, found_at)
           seq == [k \in 1 .. m |-> From + k - 1]
           a == HostLoop(url, seq, base)
           x(k) == From - 1 + k
<1>1. /\ From \in Nat \ {0} /\ To \in Nat /\ m \in Nat /\ x(0) = From - 1 /\ x(m) = To
      /\ m \in 0 .. m /\ 0 \in 0 .. m
  BY DEF HostPlaces
<1>2. r = [ok |-> a.s \in HostEnds, u |-> a.u]
  <2>1. u["host"][1] = From /\ u["host"][2] = m
    OBVIOUS
  <2> QED BY <2>1 DEF http_parse_host, HostLoop, HostBase
<1>3. base \in HostSplits /\ HostFits(x(0), base, u) /\ Formed(x(0))
  BY <1>1, HostFitsFirst
<1> HIDE DEF base
<1>4. seq \in [1 .. m -> Nat] /\ \A k \in 1 .. m : seq[k] = From + k - 1 /\ url[seq[k]] \in UrlLetters
  <2> SUFFICES ASSUME NEW k \in 1 .. m
               PROVE  From + k - 1 \in Nat /\ url[From + k - 1] \in UrlLetters
    OBVIOUS
  <2>1. From + k - 1 \in From .. To /\ From + k - 1 \in Nat
    BY <1>1
  <2> QED BY <2>1
<1> HIDE DEF seq
<1>5. PICK h \in [0 .. m -> HostSplits] :
         /\ h[0] = base /\ h[m] = a
         /\ \A k \in 1 .. m : h[k] = HostTurn(url, h[k - 1], From + k - 1)
  <2> HIDE DEF m
  <2>1. PICK h \in [0 .. m -> HostSplits] :
           h[0] = base /\ h[m] = HostLoop(url, seq, base) /\ HostWalks(url, seq, m, h)
    <3>1. \A k \in 1 .. m : url[seq[k]] \in UrlLetters
      BY <1>4
    <3> QED BY <1>1, <1>3, <1>4, <3>1, HostFold
  <2>2. \A k \in 1 .. m : h[k] = HostTurn(url, h[k - 1], From + k - 1)
    BY <1>4, <2>1 DEF HostWalks
  <2> QED BY <2>1, <2>2
<1> DEFINE Good(k) == IF Formed(x(k)) THEN HostFits(x(k), h[k], u) ELSE h[k].s = "s_http_host_dead"
           S == {k \in 0 .. m : Good(k)}
<1>6. 0 \in S
  BY <1>1, <1>3, <1>5
<1>7. ASSUME NEW k \in 0 .. m, k \in S, k < m PROVE k + 1 \in S
  <2>1. /\ k + 1 \in 1 .. m /\ (k + 1) - 1 = k /\ k + 1 \in 0 .. m
        /\ From + (k + 1) - 1 = x(k) + 1 /\ x(k + 1) = x(k) + 1
        /\ x(k) \in Nat /\ From - 1 <= x(k) /\ x(k) < To /\ x(k) + 1 \in From .. To /\ x(k) + 1 \in Nat
    BY <1>1, <1>7
  <2> DEFINE y == x(k)
  <2>2. h[k + 1] = HostTurn(url, h[k], y + 1) /\ h[k] \in HostSplits /\ Good(k) /\ url[y + 1] \in UrlLetters
    BY <1>5, <1>7, <2>1
  <2>3. CASE Formed(y)
    <3>1. IF Formed(y + 1) THEN HostFits(y + 1, h[k + 1], u) ELSE h[k + 1].s = "s_http_host_dead"
      <4>1. HostFits(y, h[k], u) /\ y \in Nat /\ From - 1 <= y /\ y < To
        BY <2>1, <2>2, <2>3
      <4> HIDE DEF y
      <4> QED BY <2>2, <2>3, <4>1, HostFitsNext
    <3> QED BY <2>1, <3>1
  <2>4. CASE ~Formed(y)
    <3>1. h[k].s = "s_http_host_dead" /\ y \in Nat /\ y + 1 \in Nat
      BY <2>1, <2>2, <2>4
    <3> HIDE DEF y
    <3>2. ~Formed(y + 1)
      BY <2>4, <3>1, FormedBefore
    <3>3. h[k + 1].s = HostGoes("s_http_host_dead", url[y + 1])
      BY <2>2, <3>1, HostTurnType
    <3>4. h[k + 1].s = "s_http_host_dead"
      BY <3>3 DEF HostGoes
    <3>5. Good(k + 1)
      BY <2>1, <3>2, <3>4 DEF y
    <3> QED BY <2>1, <3>5
  <2> QED BY <2>3, <2>4
<1>8. m \in S
  <2> HIDE DEF S, m
  <2> QED BY <1>1, <1>6, <1>7, UpTo
<1>9. IF Formed(To) THEN HostFits(To, a, u) ELSE a.s = "s_http_host_dead"
  BY <1>1, <1>5, <1>8
<1>10. a \in HostSplits
  BY <1>1, <1>5
<1> HIDE DEF a
<1>11. "s_http_host_dead" \notin HostEnds
  BY DEF HostEnds
<1>12. r.ok = (a.s \in HostEnds) /\ r.u = a.u
  BY <1>2
<1>13. r.ok => Formed(To)
  BY <1>9, <1>11, <1>12
<1>14. Formed(To) => a.s = HostStateAt(To) /\ \A f \in Fields : a.u[f] = HostValue(f, To, u)
  BY <1>9 DEF HostFits
<1> QED BY <1>10, <1>12, <1>13, <1>14 DEF HostSplits

-----------------------------------------------------------------------------
(* The authority, as it is meant to be. *)

AuthOk ==
    /\ From <= To
    /\ Ats # {} => Span(From, HostFrom - 2, Userinfo)
    /\ Field(HostLo("host"), HostHi("host")) # None
    /\ HostTo <= To
    /\ IF V6 THEN /\ HostFrom + 1 < Zone /\ Span(HostFrom + 1, Zone - 1, HexChar)
                  /\ Zone < HostTo => Zone + 1 < HostTo /\ Span(Zone + 1, HostTo - 1, ZoneChar)
             ELSE Span(HostFrom, HostTo, HostChar)
    /\ HostTo < To => url[HostTo + 1] = ":" /\ HostTo + 2 <= To /\ Span(HostTo + 2, To, Num)

LEMMA FieldNone ==
    ASSUME NEW i \in Nat, NEW j \in Int
    PROVE  Field(i, j) = None <=> j < i
<1>1. CASE j < i
  BY <1>1 DEF Field
<1>2. CASE j >= i
  <2>1. Field(i, j) = <<i, j - i + 1>> /\ j - i + 1 # 0
    BY <1>2 DEF Field
  <2> QED BY <1>2, <2>1 DEF None
<1> QED BY <1>1, <1>2

LEMMA HostThere ==
    ASSUME HostPlaces
    PROVE  Field(HostLo("host"), HostHi("host")) # None
             <=> IF V6 THEN HostFrom + 1 <= HostTo - 1 ELSE HostFrom <= HostTo
<1>1. HostFrom \in Nat /\ HostTo \in Nat
  BY DEF HostPlaces
<1>2. HostLo("host") = (IF V6 THEN HostFrom + 1 ELSE HostFrom) /\ HostHi("host") = IF V6 THEN HostTo - 1 ELSE HostTo
  BY DEF HostLo, HostHi
<1>3. HostLo("host") \in Nat /\ HostHi("host") \in Int
  BY <1>1, <1>2
<1>4. Field(HostLo("host"), HostHi("host")) = None <=> HostHi("host") < HostLo("host")
  BY <1>3, FieldNone
<1>5. HostHi("host") < HostLo("host") <=> ~ (IF V6 THEN HostFrom + 1 <= HostTo - 1 ELSE HostFrom <= HostTo)
  BY <1>1, <1>2
<1> QED BY <1>4, <1>5

LEMMA AuthFormed ==
    ASSUME HostPlaces, From <= To
    PROVE  AuthOk <=> Formed(To) /\ HostStateAt(To) \in HostEnds
<1>1. /\ From \in Nat /\ From # 0 /\ To \in Nat /\ HostFrom \in Nat /\ HostTo \in Nat
      /\ From <= HostFrom /\ HostFrom <= To + 1 /\ HostTo >= HostFrom - 1
      /\ Ats = {} => HostFrom = From
      /\ V6 => Zone \in Nat /\ Zone > HostFrom /\ HostTo > HostFrom /\ Zone <= HostTo
      /\ ~V6 => HostTo <= To
  BY DEF HostPlaces
<1>2. ASSUME AuthOk PROVE Formed(To) /\ HostStateAt(To) \in HostEnds
  <2>1. HostTo <= To /\ IF V6 THEN HostFrom + 1 <= HostTo - 1 ELSE HostFrom <= HostTo
    BY <1>2, HostThere DEF AuthOk
  <2>2. HostTo < To => url[HostTo + 1] = ":" /\ HostTo + 2 <= To
    BY <1>2 DEF AuthOk
  <2>3. HostStateAt(To) \in HostEnds
    <3>1. HostFrom <= To
      BY <1>1, <2>1
    <3>2. CASE To > HostTo
      <4>1. HostStateAt(To) = "s_http_host_port"
        BY <1>1, <2>2, <3>1, <3>2 DEF HostStateAt
      <4> QED BY <4>1 DEF HostEnds
    <3>3. CASE To = HostTo /\ ~V6
      <4>1. HostStateAt(To) = "s_http_host"
        BY <1>1, <3>1, <3>3 DEF HostStateAt
      <4> QED BY <4>1 DEF HostEnds
    <3>4. CASE To = HostTo /\ V6
      <4>1. HostStateAt(To) = "s_http_host_v6_end"
        BY <1>1, <3>1, <3>4 DEF HostStateAt
      <4> QED BY <4>1 DEF HostEnds
    <3> QED BY <1>1, <2>1, <3>2, <3>3, <3>4
  <2>4. \A k \in From .. HostFrom - 2 : url[k] \in Userinfo
    <3>1. CASE Ats = {}
      BY <1>1, <3>1
    <3>2. CASE Ats # {}
      BY <1>2, <3>2 DEF AuthOk, Span
    <3> QED BY <3>1, <3>2
  <2>5. V6 => /\ \A k \in HostFrom + 1 .. Zone - 1 : url[k] \in HexChar
              /\ HostFrom + 1 < Zone
              /\ \A k \in Zone + 1 .. HostTo - 1 : url[k] \in ZoneChar
              /\ Zone < HostTo => Zone + 1 < HostTo
    <3> SUFFICES ASSUME V6
                 PROVE  /\ \A k \in HostFrom + 1 .. Zone - 1 : url[k] \in HexChar
                        /\ HostFrom + 1 < Zone
                        /\ \A k \in Zone + 1 .. HostTo - 1 : url[k] \in ZoneChar
                        /\ Zone < HostTo => Zone + 1 < HostTo
      OBVIOUS
    <3>1. CASE Zone < HostTo
      BY <1>2, <3>1 DEF AuthOk, Span
    <3>2. CASE ~ (Zone < HostTo)
      BY <1>1, <1>2, <3>2 DEF AuthOk, Span
    <3> QED BY <3>1, <3>2
  <2>6. ~V6 => \A k \in HostFrom .. HostTo : url[k] \in HostChar
    BY <1>2 DEF AuthOk, Span
  <2>7. \A k \in HostTo + 2 .. To : url[k] \in Num
    <3>1. CASE HostTo < To
      BY <1>2, <3>1 DEF AuthOk, Span
    <3>2. CASE ~ (HostTo < To)
      BY <1>1, <3>2
    <3> QED BY <3>1, <3>2
  <2>8. To > HostTo => url[HostTo + 1] = ":"
    BY <1>1, <2>2
  <2> QED BY <2>1, <2>3, <2>4, <2>5, <2>6, <2>7, <2>8 DEF Formed
<1>3. ASSUME Formed(To), HostStateAt(To) \in HostEnds PROVE AuthOk
  <2>1. /\ HostTo <= To
        /\ HostTo < To => HostTo + 2 <= To
    <3>1. To >= HostFrom
      <4> SUFFICES ASSUME To < HostFrom PROVE FALSE
        BY <1>1
      <4>1. HostStateAt(To) \in {"s_http_userinfo_start", "s_http_userinfo", "s_http_host_start"}
        BY <1>1 DEF HostStateAt
      <4> QED BY <1>3, <4>1 DEF HostEnds
    <3>2. CASE To > HostTo
      <4>1. To # HostTo + 1
        <5> SUFFICES ASSUME To = HostTo + 1 PROVE FALSE
          OBVIOUS
        <5>1. HostStateAt(To) = "s_http_host_port_start"
          BY <1>1, <3>1, <3>2 DEF HostStateAt
        <5> QED BY <1>3, <5>1 DEF HostEnds
      <4> QED BY <1>1, <3>2, <4>1
    <3>3. CASE To < HostTo
      <4>1. V6
        BY <1>1, <3>3
      <4>2. HostStateAt(To) \in {"s_http_host_v6_start", "s_http_host_v6", "s_http_host_v6_zone_start",
                                 "s_http_host_v6_zone"}
        BY <1>1, <3>1, <3>3, <4>1 DEF HostStateAt
      <4> QED BY <1>3, <4>2 DEF HostEnds
    <3> QED BY <1>1, <3>2, <3>3
  <2>2. ~V6 => HostFrom <= HostTo
    <3> SUFFICES ASSUME ~V6, HostFrom > HostTo PROVE FALSE
      BY <1>1
    <3>1. To > HostTo
      <4> SUFFICES ASSUME To = HostTo PROVE FALSE
        BY <1>1, <2>1
      <4>1. To = HostFrom - 1
        BY <1>1
      <4>2. HostStateAt(To) = "s_http_host_start"
        BY <1>1, <4>1 DEF HostStateAt
      <4> QED BY <1>3, <4>2 DEF HostEnds
    <3> QED BY <1>1, <1>3, <3>1 DEF Formed
  <2>3. V6 => HostFrom + 1 < Zone /\ (Zone < HostTo => Zone + 1 < HostTo)
    <3> SUFFICES ASSUME V6 PROVE HostFrom + 1 < Zone /\ (Zone < HostTo => Zone + 1 < HostTo)
      OBVIOUS
    <3>1. To >= Zone /\ To >= HostTo
      BY <1>1, <2>1
    <3> QED BY <1>3, <3>1 DEF Formed
  <2>4. Field(HostLo("host"), HostHi("host")) # None
    <3>1. IF V6 THEN HostFrom + 1 <= HostTo - 1 ELSE HostFrom <= HostTo
      BY <1>1, <2>2, <2>3
    <3> QED BY <3>1, HostThere
  <2>5. Span(From, HostFrom - 2, Userinfo)
    <3>1. \A k \in From .. HostFrom - 2 : k <= To
      BY <1>1
    <3> QED BY <1>3, <3>1 DEF Formed, Span
  <2>6. V6 => Span(HostFrom + 1, Zone - 1, HexChar) /\ Span(Zone + 1, HostTo - 1, ZoneChar)
    <3> SUFFICES ASSUME V6 PROVE Span(HostFrom + 1, Zone - 1, HexChar) /\ Span(Zone + 1, HostTo - 1, ZoneChar)
      OBVIOUS
    <3>1. /\ \A k \in HostFrom + 1 .. Zone - 1 : k <= To
          /\ \A k \in Zone + 1 .. HostTo - 1 : k <= To
      BY <1>1, <2>1
    <3> QED BY <1>3, <3>1 DEF Formed, Span
  <2>7. ~V6 => Span(HostFrom, HostTo, HostChar)
    <3>1. \A k \in HostFrom .. HostTo : k <= To
      BY <1>1, <2>1
    <3> QED BY <1>3, <3>1 DEF Formed, Span
  <2>8. Span(HostTo + 2, To, Num)
    <3>1. \A k \in HostTo + 2 .. To : k <= To
      BY <1>1
    <3> QED BY <1>3, <3>1 DEF Formed, Span
  <2>9. HostTo < To => url[HostTo + 1] = ":"
    BY <1>1, <1>3 DEF Formed
  <2> QED BY <2>1, <2>3, <2>4, <2>5, <2>6, <2>7, <2>8, <2>9 DEF AuthOk
<1> QED BY <1>2, <1>3

\* The letters of an authority are none that the loop over the URL refuses.
LEMMA AuthClean ==
    ASSUME HostPlaces, AuthOk, Span(1, Len(url), UrlLetters)
    PROVE  Clean
<1>1. /\ From \in Nat /\ From # 0 /\ To \in Nat /\ HostFrom \in Nat /\ HostTo \in Nat
      /\ From <= HostFrom /\ HostFrom <= To + 1 /\ HostTo >= HostFrom - 1 /\ HostTo <= To
      /\ Ats = {} => HostFrom = From
      /\ Ats # {} => url[HostFrom - 1] = "@" /\ HostFrom > From
      /\ V6 => /\ Zone \in Nat /\ Zone > HostFrom /\ HostTo > HostFrom /\ Zone <= HostTo
               /\ url[HostFrom] = "[" /\ url[HostTo] = "]" /\ (Zone < HostTo => url[Zone] = "%")
  BY DEF HostPlaces, AuthOk
<1>2. ASSUME NEW k \in From .. To, k >= HostFrom PROVE url[k] \notin {"#", "@"}
  <2>1. CASE k > HostTo
    <3>1. url[HostTo + 1] = ":" /\ Span(HostTo + 2, To, Num)
      BY <1>1, <2>1 DEF AuthOk
    <3>2. k # HostTo + 1 => url[k] \in Num
      BY <1>1, <2>1, <3>1 DEF Span
    <3> QED BY <3>1, <3>2 DEF Num
  <2>2. CASE k <= HostTo /\ ~V6
    <3>1. url[k] \in HostChar
      BY <1>1, <1>2, <2>2 DEF AuthOk, Span
    <3> QED BY <3>1 DEF HostChar, AlphaNum, Alpha, Num
  <2>3. CASE k <= HostTo /\ V6
    <3>1. CASE k \in {HostFrom, HostTo} \/ (k = Zone /\ Zone < HostTo)
      BY <1>1, <2>3, <3>1
    <3>2. CASE k \in HostFrom + 1 .. Zone - 1
      <4>1. url[k] \in HexChar
        BY <2>3, <3>2 DEF AuthOk, Span
      <4> QED BY <4>1 DEF HexChar, Hex, Num
    <3>3. CASE k \in Zone + 1 .. HostTo - 1
      <4>1. Zone < HostTo
        BY <1>1, <2>3, <3>3
      <4>2. url[k] \in ZoneChar
        BY <2>3, <3>3, <4>1 DEF AuthOk, Span
      <4> QED BY <4>2 DEF ZoneChar, AlphaNum, Alpha, Num
    <3> QED BY <1>1, <1>2, <2>3, <3>1, <3>2, <3>3
  <2> QED BY <1>1, <2>1, <2>2, <2>3
<1>3. ASSUME NEW k \in From .. HostFrom - 2 PROVE url[k] \notin {"#", "@"}
  <2>1. Ats # {}
    BY <1>1
  <2>2. url[k] \in Userinfo
    BY <2>1 DEF AuthOk, Span
  <2> QED BY <2>2 DEF Userinfo, AlphaNum, Alpha, Num
<1>4. ASSUME NEW k \in From .. To PROVE url[k] # "#" /\ (k > From /\ url[k] = "@" => url[k - 1] # "@")
  <2>1. k \in From .. HostFrom - 2 \/ k >= HostFrom \/ k = HostFrom - 1
    BY <1>1
  <2>2. url[k] # "#"
    <3>1. k = HostFrom - 1 => url[k] = "@"
      BY <1>1
    <3> QED BY <1>2, <1>3, <2>1, <3>1
  <2>3. ASSUME k > From, url[k] = "@" PROVE url[k - 1] # "@"
    <3>1. k = HostFrom - 1
      BY <1>2, <1>3, <2>1, <2>3
    <3>2. k - 1 \in From .. HostFrom - 2
      BY <1>1, <2>3, <3>1
    <3> QED BY <1>3, <3>2
  <2> QED BY <2>2, <2>3
<1> QED BY <1>4 DEF Clean

-----------------------------------------------------------------------------
(* The whole. *)

\* The fields of a URL, its port, and what more a CONNECT has to be.
MeantUserinfo == IF Ats = {} THEN None ELSE Field(From, HostFrom - 2)
MeantPort == IF AuthOk /\ Field(HostTo + 2, To) # None THEN PortOf(SubSeq(url, HostTo + 2, To)) ELSE 0
ConnectOk ==
    connect => /\ Field(HostTo + 2, To) # None /\ MeantUserinfo = None
               /\ Question <= To + 1 /\ Hash <= Question + 1 /\ Anchor > Len(url)

MeantSchema == IF HasSchema THEN Field(1, Colon - 1) ELSE None

MeantFields ==
    [schema |-> MeantSchema,
     host |-> Field(HostLo("host"), HostHi("host")), port |-> Field(HostTo + 2, To), userinfo |-> MeantUserinfo,
     path |-> Field(To + 1, Question - 1), query |-> Field(Question + 1, Hash - 1),
     fragment |-> Field(Anchor, Len(url))]

LEMMA AuthorityIs ==
    Authority(From, To) = [ok |-> AuthOk, host |-> Field(HostLo("host"), HostHi("host")),
                           port |-> Field(HostTo + 2, To), userinfo |-> MeantUserinfo]
<1>1. Field(HostLo("host"), HostHi("host"))
        = IF V6 THEN Field(HostFrom + 1, HostTo - 1) ELSE Field(HostFrom, HostTo)
  BY DEF HostLo, HostHi
<1> DEFINE i == From
           j == To
           ats == {k \in i .. j : url[k] = "@"}
           h == IF ats = {} THEN i ELSE Min(ats) + 1
           v6 == h <= j /\ url[h] = "["
           e == IF v6 THEN FirstIn(h, {"]"}) ELSE FirstIn(h, {":", "@"} \cup {"/", "?"}) - 1
           z == Min({FirstIn(h, {"%"}), e})
           host == IF v6 THEN Field(h + 1, e - 1) ELSE Field(h, e)
<1>2. ats = Ats /\ h = HostFrom /\ v6 = V6 /\ e = HostTo /\ z = Zone
  BY DEF Ats, HostFrom, V6, HostTo, Zone
<1>3. host = Field(HostLo("host"), HostHi("host"))
  <2>1. host = IF V6 THEN Field(HostFrom + 1, HostTo - 1) ELSE Field(HostFrom, HostTo)
    BY <1>2
  <2> HIDE DEF host
  <2> QED BY <1>1, <2>1
<1>4. Authority(From, To) =
        [ok |-> /\ i <= j
                /\ ats # {} => Span(i, h - 2, Userinfo)
                /\ host # None
                /\ e <= j
                /\ IF v6 THEN /\ h + 1 < z /\ Span(h + 1, z - 1, Hex \cup {":", "."})
                              /\ z < e => z + 1 < e /\ Span(z + 1, e - 1, AlphaNum \cup {"%", "."})
                         ELSE Span(h, e, HostChar)
                /\ e < j => url[e + 1] = ":" /\ e + 2 <= j /\ Span(e + 2, j, Num),
         host |-> host,
         port |-> Field(e + 2, j),
         userinfo |-> IF ats = {} THEN None ELSE Field(i, h - 2)]
  BY DEF Authority
<1> HIDE DEF ats, h, v6, e, z, host
<1> QED BY <1>2, <1>3, <1>4 DEF AuthOk, MeantUserinfo, HexChar, ZoneChar

LEMMA MeantHosted ==
    ASSUME Hosted
    PROVE  /\ Meant.ok <=> AuthOk /\ MeantPort <= MaxPort /\ ConnectOk
           /\ Meant.fields = MeantFields
<1> DEFINE n == Len(url)
           auth == Authority(From, To)
           port == IF auth.ok /\ auth.port # None THEN PortOf(SubSeq(url, auth.port[1], To)) ELSE 0
<1>1. Meant = [ok |-> /\ auth.ok /\ port <= MaxPort
                      /\ connect => /\ auth.port # None /\ auth.userinfo = None
                                    /\ Question <= To + 1 /\ Hash <= Question + 1 /\ Anchor > n,
               fields |-> [schema |-> IF HasSchema THEN Field(1, Colon - 1) ELSE None,
                           host |-> auth.host, port |-> auth.port,
                           userinfo |-> auth.userinfo,
                           path |-> Field(To + 1, Question - 1),
                           query |-> Field(Question + 1, Hash - 1),
                           fragment |-> Field(Anchor, n)]]
  BY DEF Meant, Hosted, HasSchema, Colon, From, To, Question, Hash, Anchor
<1>2. /\ auth.ok = AuthOk /\ auth.host = Field(HostLo("host"), HostHi("host"))
      /\ auth.port = Field(HostTo + 2, To) /\ auth.userinfo = MeantUserinfo
  BY AuthorityIs
<1> HIDE DEF auth
<1>3. port = MeantPort
  BY <1>2 DEF MeantPort, Field
<1> HIDE DEF port
<1> QED BY <1>1, <1>2, <1>3 DEF ConnectOk, MeantFields, MeantSchema

\* What http_parser_parse_url makes of what its loop has found.
LEMMA ParseIs ==
    ASSUME NEW w, NEW c, NEW a, a = UrlLoop(w, UrlStart(c)),
           NEW h, h = IF a.u["host"] # None THEN http_parse_host(w, a.u, a.at) ELSE [ok |-> TRUE, u |-> a.u],
           NEW r, r = http_parser_parse_url(w, c)
    PROVE  LET set == {f \in Fields : h.u[f] # None}
               port == IF "port" \in set
                       THEN PortOf(SubSeq(w, h.u["port"][1], h.u["port"][1] + h.u["port"][2] - 1))
                       ELSE 0
           IN  /\ r.ok <=> /\ a.s # "s_dead"
                           /\ a.u["schema"] # None => a.u["host"] # None
                           /\ h.ok
                           /\ c => set = {"host", "port"}
                           /\ port <= MaxPort
               /\ r.ok => r.fields = h.u /\ r.port = port
<1> DEFINE set == {f \in Fields : h.u[f] # None}
           port == IF "port" \in set
                   THEN PortOf(SubSeq(w, h.u["port"][1], h.u["port"][1] + h.u["port"][2] - 1))
                   ELSE 0
           good == /\ a.s # "s_dead"
                   /\ a.u["schema"] # None => a.u["host"] # None
                   /\ h.ok
                   /\ c => set = {"host", "port"}
                   /\ port <= MaxPort
<1>1. r = IF good THEN [ok |-> TRUE, fields |-> h.u, port |-> port]
          ELSE [ok |-> FALSE, fields |-> [f \in Fields |-> None], port |-> 0]
  BY DEF http_parser_parse_url, UrlLoop, UrlStart
<1> HIDE DEF good, port, set
<1>2. (r.ok <=> good) /\ (r.ok => r.fields = h.u /\ r.port = port)
  BY <1>1
<1> QED BY <1>2 DEF good, port, set

\* The fields that the loop of a URL it does not refuse has found.
LEMMA LoopFields ==
    ASSUME UrlTyped, Hosted \/ Rooted, NEW a \in Splits, Fits(Len(url), a)
    PROVE  /\ \A f \in Fields : a.u[f] = Field(Lo(f), Hi(f))
           /\ Hosted => (a.at <=> Ats # {})
<1>1. Len(url) \in Nat
  BY DEF UrlTyped
<1>2. /\ To \in 0 .. Len(url) /\ Hash \in To + 1 .. Len(url) + 1 /\ Question \in To + 1 .. Hash /\ From \in Nat
      /\ HasSchema => Colon \in 2 .. Len(url) - 2
  BY <1>1, PlacesAre DEF Places
<1>3. ASSUME NEW f \in Fields PROVE a.u[f] = Field(Lo(f), Hi(f))
  <2>1. Hi(f) \in {IF HasSchema THEN Colon - 1 ELSE 0, To, Question - 1, Hash - 1, Len(url), 0}
    BY DEF Hi
  <2>2. Hi(f) <= Len(url) /\ Hi(f) \in Int
    BY <1>1, <1>2, <2>1
  <2>3. (IF Hi(f) < Len(url) THEN Hi(f) ELSE Len(url)) = Hi(f)
    BY <1>1, <2>2
  <2> QED BY <2>3 DEF Fits, Part
<1>4. ASSUME Hosted PROVE a.at <=> Ats # {}
  <2>1. a.at <=> \E j \in From .. To : j <= Len(url) /\ url[j] = "@"
    BY DEF Fits
  <2>2. \A j \in From .. To : j <= Len(url)
    BY <1>1, <1>2
  <2> QED BY <2>1, <2>2 DEF Ats
<1> QED BY <1>3, <1>4

\* The fields after http_parse_host has gone over the authority.
LEMMA FinalFields ==
    ASSUME HostPlaces, AuthOk, NEW u, \A f \in Fields : u[f] = Field(Lo(f), Hi(f)),
           NEW v \in [Fields -> Nat \X Nat], \A f \in Fields : v[f] = HostValue(f, To, u)
    PROVE  v = MeantFields
<1>1. /\ From \in Nat /\ To \in Nat /\ HostFrom \in Nat /\ HostTo \in Nat
      /\ From <= HostFrom /\ HostFrom <= To + 1 /\ HostTo >= HostFrom - 1 /\ HostTo <= To
      /\ Ats = {} => HostFrom = From
  BY DEF HostPlaces, AuthOk
<1>2. ASSUME NEW f \in {"host", "port", "userinfo"}
      PROVE  v[f] = Field(HostLo(f), HostHi(f))
  <2>1. f \in Fields
    BY DEF Fields
  <2>2. HostHi(f) \in {IF V6 THEN HostTo - 1 ELSE HostTo, To, HostFrom - 2}
    BY DEF HostHi
  <2>3. HostHi(f) \in Int /\ HostHi(f) <= To
    BY <1>1, <2>2
  <2>4. (IF HostHi(f) < To THEN HostHi(f) ELSE To) = HostHi(f)
    BY <1>1, <2>3
  <2>5. Part(HostLo(f), HostHi(f), To) = Field(HostLo(f), HostHi(f))
    BY <2>4 DEF Part
  <2>6. HostLo(f) \in Nat
    BY <2>1, HostEndsAre
  <2>7. f = "host" => ~ (To < HostLo(f))
    <3> SUFFICES ASSUME f = "host", To < HostLo(f) PROVE FALSE
      OBVIOUS
    <3>1. HostHi(f) < HostLo(f)
      BY <1>1, <2>3, <2>6
    <3>2. Field(HostLo(f), HostHi(f)) = None
      BY <3>1 DEF Field
    <3> QED BY <3>2 DEF AuthOk
  <2>8. v[f] = HostValue(f, To, u)
    BY <2>1
  <2> QED BY <2>5, <2>7, <2>8 DEF HostValue
<1>3. ASSUME NEW f \in Fields \ {"host", "port", "userinfo"} PROVE v[f] = Field(Lo(f), Hi(f))
  BY <1>3 DEF HostValue
<1>4. v["host"] = Field(HostLo("host"), HostHi("host"))
  BY <1>2
<1>5. v["port"] = Field(HostTo + 2, To)
  <2>1. HostLo("port") = HostTo + 2 /\ HostHi("port") = To
    BY DEF HostLo, HostHi
  <2> QED BY <1>2, <2>1
<1>6. v["userinfo"] = MeantUserinfo
  <2>1. HostLo("userinfo") = From /\ HostHi("userinfo") = HostFrom - 2
    BY DEF HostLo, HostHi
  <2>2. v["userinfo"] = Field(From, HostFrom - 2)
    BY <1>2, <2>1
  <2>3. Ats = {} => Field(From, HostFrom - 2) = None
    BY <1>1 DEF Field
  <2> QED BY <2>2, <2>3 DEF MeantUserinfo
<1>7. v["schema"] = MeantSchema
  <2>1. Lo("schema") = 1 /\ Hi("schema") = IF HasSchema THEN Colon - 1 ELSE 0
    BY DEF Lo, Hi
  <2>2. v["schema"] = Field(1, IF HasSchema THEN Colon - 1 ELSE 0)
    BY <1>3, <2>1 DEF Fields
  <2>3. Field(1, 0) = None
    BY DEF Field
  <2> QED BY <2>2, <2>3 DEF MeantSchema
<1>8. v["path"] = Field(To + 1, Question - 1)
  BY <1>3 DEF Fields, Lo, Hi
<1>9. v["query"] = Field(Question + 1, Hash - 1)
  BY <1>3 DEF Fields, Lo, Hi
<1>10. v["fragment"] = Field(Anchor, Len(url))
  BY <1>3 DEF Fields, Lo, Hi
<1> QED BY <1>4, <1>5, <1>6, <1>7, <1>8, <1>9, <1>10 DEF MeantFields, Fields

\* A CONNECT has no other fields exactly if it is what it has to be.
LEMMA ConnectIs ==
    ASSUME Len(url) \in Nat, HostPlaces, AuthOk, connect, NEW v, v = MeantFields
    PROVE  {f \in Fields : v[f] # None} = {"host", "port"} <=> ConnectOk
<1>1. /\ To \in Nat /\ Question \in Nat /\ Hash \in Nat /\ Anchor \in Nat /\ HostTo \in Nat
      /\ Question >= To + 1
  <2>1. HostTo \in Nat /\ To \in Nat
    BY DEF HostPlaces
  <2> QED BY <2>1, PlacesAre DEF Places
<1>2. /\ v["schema"] = MeantSchema /\ v["host"] = Field(HostLo("host"), HostHi("host"))
      /\ v["port"] = Field(HostTo + 2, To) /\ v["userinfo"] = MeantUserinfo
      /\ v["path"] = Field(To + 1, Question - 1) /\ v["query"] = Field(Question + 1, Hash - 1)
      /\ v["fragment"] = Field(Anchor, Len(url))
  BY DEF MeantFields
<1>3. v["schema"] = None /\ v["host"] # None
  BY <1>2 DEF MeantSchema, HasSchema, AuthOk
<1>4. v["path"] = None <=> Question <= To + 1
  <2>1. To + 1 \in Nat /\ Question - 1 \in Int
    BY <1>1
  <2>2. Field(To + 1, Question - 1) = None <=> Question - 1 < To + 1
    BY <2>1, FieldNone
  <2>3. Question - 1 < To + 1 <=> Question <= To + 1
    BY <1>1
  <2> QED BY <1>2, <2>2, <2>3
<1>5. v["query"] = None <=> Hash <= Question + 1
  <2>1. Question + 1 \in Nat /\ Hash - 1 \in Int
    BY <1>1
  <2>2. Field(Question + 1, Hash - 1) = None <=> Hash - 1 < Question + 1
    BY <2>1, FieldNone
  <2>3. Hash - 1 < Question + 1 <=> Hash <= Question + 1
    BY <1>1
  <2> QED BY <1>2, <2>2, <2>3
<1>6. v["fragment"] = None <=> Anchor > Len(url)
  <2>1. Field(Anchor, Len(url)) = None <=> Len(url) < Anchor
    BY <1>1, FieldNone
  <2> QED BY <1>1, <1>2, <2>1
<1>7. {f \in Fields : v[f] # None} = {"host", "port"}
        <=> /\ v["schema"] = None /\ v["host"] # None /\ v["port"] # None /\ v["userinfo"] = None
            /\ v["path"] = None /\ v["query"] = None /\ v["fragment"] = None
  <2>1. ASSUME {f \in Fields : v[f] # None} = {"host", "port"}
        PROVE  \A f \in Fields : v[f] # None <=> f \in {"host", "port"}
    BY <2>1
  <2> QED BY <2>1 DEF Fields
<1> QED BY <1>2, <1>3, <1>4, <1>5, <1>6, <1>7 DEF ConnectOk

LEMMA HostedExact == ASSUME UrlTyped, Short, Hosted PROVE FieldsExact
<1> DEFINE n == Len(url)
           a == UrlLoop(url, UrlStart(connect))
           h == IF a.u["host"] # None THEN http_parse_host(url, a.u, a.at) ELSE [ok |-> TRUE, u |-> a.u]
           set == {f \in Fields : h.u[f] # None}
           port == IF "port" \in set
                   THEN PortOf(SubSeq(url, h.u["port"][1], h.u["port"][1] + h.u["port"][2] - 1))
                   ELSE 0
           r == http_parser_parse_url(url, connect)
<1>1. n \in Nat /\ connect \in BOOLEAN
  BY DEF UrlTyped
<1>2. HostPlaces
  BY <1>1, HostPlacesAre
<1>3. /\ From \in Nat /\ From # 0 /\ To \in Nat /\ To <= n /\ HostTo \in Nat
      /\ HasSchema => Colon \in Nat /\ Colon >= 2
  <2>1. HostTo \in Nat
    BY <1>2 DEF HostPlaces
  <2> QED BY <1>1, <2>1, PlacesAre DEF Places
<1>4. /\ r.ok <=> /\ a.s # "s_dead"
                  /\ a.u["schema"] # None => a.u["host"] # None
                  /\ h.ok
                  /\ connect => set = {"host", "port"}
                  /\ port <= MaxPort
      /\ r.ok => r.fields = h.u /\ r.port = port
  <2> HIDE DEF a, r
  <2>1. a = UrlLoop(url, UrlStart(connect)) /\ r = http_parser_parse_url(url, connect)
    BY DEF a, r
  <2> HIDE DEF h
  <2>2. h = IF a.u["host"] # None THEN http_parse_host(url, a.u, a.at) ELSE [ok |-> TRUE, u |-> a.u]
    BY DEF h
  <2> QED BY <2>1, <2>2, ParseIs
<1>5. /\ a \in Splits
      /\ a.s # "s_dead" => Fits(n, a) /\ Span(1, n, UrlLetters)
      /\ Clean => a.s # "s_dead"
  <2> HIDE DEF a
  <2>1. a = UrlLoop(url, UrlStart(connect))
    BY DEF a
  <2> QED BY <2>1, LoopReads
<1>6. /\ Meant.ok <=> AuthOk /\ MeantPort <= MaxPort /\ ConnectOk
      /\ Meant.fields = MeantFields
  BY MeantHosted
<1> SUFFICES /\ r.ok <=> Meant.ok /\ Span(1, n, UrlLetters)
             /\ r.ok => r.fields = Meant.fields /\ r.port <= MaxPort
  BY DEF FieldsExact
<1> HIDE DEF r
<1>7. CASE a.s = "s_dead"
  <2> HIDE DEF h, set, port
  <2>1. ~r.ok
    <3> HIDE DEF a
    <3> QED BY <1>4, <1>7
  <2>2. Meant.ok /\ Span(1, n, UrlLetters) => Clean
    BY <1>2, <1>6, AuthClean
  <2>3. ~Clean
    <3> HIDE DEF a
    <3> QED BY <1>5, <1>7
  <2> QED BY <2>1, <2>2, <2>3
<1>8. CASE a.s # "s_dead" /\ To < From
  <2>1. Fits(n, a) /\ a \in Splits
    <3> HIDE DEF a
    <3> QED BY <1>5, <1>8
  <2> HIDE DEF a
  <2>2. \A f \in Fields : a.u[f] = Field(Lo(f), Hi(f))
    BY <2>1, LoopFields
  <2>3. a.u["host"] = None
    <3>1. a.u["host"] = Field(From, To)
      BY <2>2 DEF Fields, Lo, Hi
    <3> QED BY <1>3, <1>8, <3>1 DEF Field
  <2>4. h.u = a.u
    BY <2>3
  <2> HIDE DEF h
  <2>5. HasSchema => a.u["schema"] # None
    <3> SUFFICES ASSUME HasSchema PROVE a.u["schema"] # None
      OBVIOUS
    <3>1. a.u["schema"] = Field(1, Colon - 1)
      BY <2>2 DEF Fields, Lo, Hi
    <3>2. 1 \in Nat /\ Colon - 1 \in Int /\ ~ (Colon - 1 < 1)
      BY <1>3
    <3> QED BY <3>1, <3>2, FieldNone
  <2>6. connect => set # {"host", "port"}
    BY <2>3, <2>4
  <2> HIDE DEF set, port
  <2>7. ~r.ok
    BY <1>4, <2>3, <2>5, <2>6 DEF Hosted
  <2>8. ~AuthOk
    BY <1>3, <1>8 DEF AuthOk
  <2> QED BY <1>6, <2>7, <2>8
<1>9. CASE a.s # "s_dead" /\ From <= To
  <2>1. Fits(n, a) /\ a \in Splits /\ Span(1, n, UrlLetters)
    <3> HIDE DEF a
    <3> QED BY <1>5, <1>9
  <2> HIDE DEF a
  <2>2. (\A f \in Fields : a.u[f] = Field(Lo(f), Hi(f))) /\ (a.at <=> Ats # {})
    BY <2>1, LoopFields
  <2>3. a.u \in [Fields -> Nat \X Nat]
    BY <2>1 DEF Splits
  <2>4. a.u["host"] = <<From, To - From + 1>> /\ a.u["port"] = None /\ a.u["userinfo"] = None
    <3>1. a.u["host"] = Field(From, To) /\ a.u["port"] = Field(1, 0) /\ a.u["userinfo"] = Field(1, 0)
      BY <2>2 DEF Fields, Lo, Hi
    <3>2. Field(From, To) = <<From, To - From + 1>>
      BY <1>3, <1>9 DEF Field
    <3>3. Field(1, 0) = None
      BY DEF Field
    <3> QED BY <3>1, <3>2, <3>3
  <2>5. a.u["host"] # None
    BY <1>3, <2>4 DEF None
  <2>6. h = http_parse_host(url, a.u, a.at)
    BY <2>5
  <2> HIDE DEF h
  <2>7. \A k \in From .. To : url[k] \in UrlLetters
    <3>1. \A k \in From .. To : k \in 1 .. n
      BY <1>1, <1>3
    <3> QED BY <2>1, <3>1 DEF Span
  <2>8. /\ h.ok <=> Formed(To) /\ HostStateAt(To) \in HostEnds
        /\ h.ok => h.u \in [Fields -> Nat \X Nat] /\ \A f \in Fields : h.u[f] = HostValue(f, To, a.u)
    <3>1. From - 1 <= To
      BY <1>3, <1>9
    <3>2. To < Width16
      BY <1>1, <1>3, WidthAssumption DEF Short
    <3> QED BY <1>2, <2>2, <2>3, <2>4, <2>6, <2>7, <3>1, <3>2, HostReads
  <2>9. h.ok <=> AuthOk
    BY <1>2, <1>9, <2>8, AuthFormed
  <2>10. CASE ~AuthOk
    <3> HIDE DEF set, port
    <3> QED BY <1>4, <1>6, <2>9, <2>10
  <2>11. CASE AuthOk
    <3>1. h.u = MeantFields
      <4>1. /\ h.u \in [Fields -> Nat \X Nat]
            /\ \A f \in Fields : h.u[f] = HostValue(f, To, a.u)
            /\ \A f \in Fields : a.u[f] = Field(Lo(f), Hi(f))
        BY <2>2, <2>8, <2>9, <2>11
      <4> QED BY <1>2, <2>11, <4>1, FinalFields
    <3>2. connect => (set = {"host", "port"} <=> ConnectOk)
      <4> SUFFICES ASSUME connect PROVE set = {"host", "port"} <=> ConnectOk
        OBVIOUS
      <4> QED BY <1>1, <1>2, <2>11, <3>1, ConnectIs
    <3>3. ~connect => ConnectOk
      BY DEF ConnectOk
    <3>4. port = MeantPort
      <4>1. h.u["port"] = Field(HostTo + 2, To) /\ "port" \in Fields
        BY <3>1 DEF MeantFields, Fields
      <4>2. CASE Field(HostTo + 2, To) = None
        BY <4>1, <4>2 DEF MeantPort
      <4>3. CASE Field(HostTo + 2, To) # None
        <5>1. "port" \in set
          BY <4>1, <4>3
        <5> DEFINE lo == h.u["port"][1]
                   hi == h.u["port"][1] + h.u["port"][2] - 1
        <5>2. port = PortOf(SubSeq(url, lo, hi))
          BY <5>1
        <5> HIDE DEF port, set
        <5>3. Field(HostTo + 2, To) = <<HostTo + 2, To - (HostTo + 2) + 1>>
          BY <4>3 DEF Field
        <5>4. lo = HostTo + 2 /\ hi = To
          <6>1. h.u["port"] = <<HostTo + 2, To - (HostTo + 2) + 1>>
            BY <4>1, <5>3
          <6>2. h.u["port"][1] = HostTo + 2 /\ h.u["port"][2] = To - (HostTo + 2) + 1
            BY <6>1
          <6> QED BY <1>3, <6>2
        <5> HIDE DEF lo, hi
        <5> QED BY <2>11, <4>3, <5>2, <5>4 DEF MeantPort
      <4> QED BY <4>2, <4>3
    <3> HIDE DEF set, port
    <3>5. a.u["schema"] # None => a.u["host"] # None
      BY <2>5
    <3>6. a.s # "s_dead"
      BY <1>9
    <3>7. r.ok <=> MeantPort <= MaxPort /\ ConnectOk
      BY <1>1, <1>4, <2>9, <2>11, <3>2, <3>3, <3>4, <3>5, <3>6
    <3>8. r.ok => r.fields = MeantFields /\ r.port = MeantPort
      BY <1>4, <3>1, <3>4
    <3> QED BY <1>6, <2>1, <2>11, <3>7, <3>8
  <2> QED BY <2>10, <2>11
<1> QED
  <2> HIDE DEF a
  <2>1. To < From \/ From <= To
    BY <1>3
  <2> QED BY <1>7, <1>8, <1>9, <2>1

LEMMA MeantElse ==
    ASSUME ~Hosted
    PROVE  /\ Meant.ok <=> Rooted
           /\ Meant.fields = [schema |-> None, host |-> None, port |-> None, userinfo |-> None,
                              path |-> Field(1, Question - 1), query |-> Field(Question + 1, Hash - 1),
                              fragment |-> Field(Anchor, Len(url))]
<1>1. To = 0
  BY DEF To
<1>2. Hash = FirstIn(1, {"#"}) /\ Question = Min({FirstIn(1, {"?"}), FirstIn(1, {"#"})})
  <2>1. To + 1 = 1
    BY <1>1
  <2> QED BY <2>1 DEF Hash, Question
<1>3. Meant = [ok |-> Len(url) = 0 \/ url[1] \in {"/", "*"},
               fields |-> [schema |-> None, host |-> None, port |-> None, userinfo |-> None,
                           path |-> Field(1, Question - 1), query |-> Field(Question + 1, Hash - 1),
                           fragment |-> Field(Anchor, Len(url))]]
  BY DEF Meant, Hosted, HasSchema, Colon, From, To, Question, Hash, Anchor
<1> QED BY <1>3 DEF Rooted

LEMMA RootedExact == ASSUME UrlTyped, Short, ~Hosted, MaxPort \in Nat PROVE FieldsExact
<1> DEFINE n == Len(url)
           a == UrlLoop(url, UrlStart(connect))
           h == IF a.u["host"] # None THEN http_parse_host(url, a.u, a.at) ELSE [ok |-> TRUE, u |-> a.u]
           set == {f \in Fields : h.u[f] # None}
           port == IF "port" \in set
                   THEN PortOf(SubSeq(url, h.u["port"][1], h.u["port"][1] + h.u["port"][2] - 1))
                   ELSE 0
           r == http_parser_parse_url(url, connect)
<1>1. n \in Nat /\ ~connect
  BY DEF UrlTyped, Hosted
<1>2. /\ r.ok <=> /\ a.s # "s_dead"
                  /\ a.u["schema"] # None => a.u["host"] # None
                  /\ h.ok
                  /\ connect => set = {"host", "port"}
                  /\ port <= MaxPort
      /\ r.ok => r.fields = h.u /\ r.port = port
  <2> HIDE DEF a, r
  <2>1. a = UrlLoop(url, UrlStart(connect)) /\ r = http_parser_parse_url(url, connect)
    BY DEF a, r
  <2> HIDE DEF h
  <2>2. h = IF a.u["host"] # None THEN http_parse_host(url, a.u, a.at) ELSE [ok |-> TRUE, u |-> a.u]
    BY DEF h
  <2> QED BY <2>1, <2>2, ParseIs
<1> SUFFICES /\ r.ok <=> Meant.ok /\ Span(1, n, UrlLetters)
             /\ r.ok => r.fields = Meant.fields /\ r.port <= MaxPort
  BY DEF FieldsExact
<1> HIDE DEF r
<1>3. CASE ~Rooted
  <2> HIDE DEF h, set, port
  <2>1. a.s = "s_dead" \/ (a.u["schema"] # None /\ a.u["host"] = None)
    <3> HIDE DEF a
    <3>1. a = UrlLoop(url, UrlStart(connect))
      BY DEF a
    <3> QED BY <1>3, <3>1, LoopRefuses
  <2> HIDE DEF a
  <2>2. ~r.ok
    BY <1>2, <2>1
  <2> QED BY <1>3, <2>2, MeantElse
<1>4. CASE Rooted
  <2>1. /\ a \in Splits
        /\ a.s # "s_dead" => Fits(n, a) /\ Span(1, n, UrlLetters)
        /\ Clean => a.s # "s_dead"
    <3> HIDE DEF a
    <3>1. a = UrlLoop(url, UrlStart(connect))
      BY DEF a
    <3> QED BY <1>4, <3>1, LoopReads
  <2> HIDE DEF a
  <2>2. From = 1 /\ To = 0
    BY PlacesAre, <1>1 DEF Places, Hosted
  <2>3. Clean <=> Span(1, n, UrlLetters)
    BY <2>2 DEF Clean
  <2>4. ASSUME a.s # "s_dead"
        PROVE  r.ok /\ r.fields = Meant.fields /\ r.port = 0
    <3>1. \A f \in Fields : a.u[f] = Field(Lo(f), Hi(f))
      BY <1>4, <2>1, <2>4, LoopFields
    <3>2. Field(1, 0) = None
      BY DEF Field
    <3>3. /\ a.u["schema"] = None /\ a.u["host"] = None /\ a.u["port"] = None /\ a.u["userinfo"] = None
      <4>1. /\ Lo("schema") = 1 /\ Hi("schema") = 0 /\ Lo("host") = 1 /\ Hi("host") = 0
            /\ Lo("port") = 1 /\ Hi("port") = 0 /\ Lo("userinfo") = 1 /\ Hi("userinfo") = 0
        BY <2>2 DEF Lo, Hi, Hosted
      <4> QED BY <3>1, <3>2, <4>1 DEF Fields
    <3>4. /\ a.u["path"] = Field(1, Question - 1) /\ a.u["query"] = Field(Question + 1, Hash - 1)
          /\ a.u["fragment"] = Field(Anchor, n)
      <4>1. /\ Lo("path") = 1 /\ Hi("path") = Question - 1
            /\ Lo("query") = Question + 1 /\ Hi("query") = Hash - 1
            /\ Lo("fragment") = Anchor /\ Hi("fragment") = n
        BY <2>2 DEF Lo, Hi
      <4> QED BY <3>1, <4>1 DEF Fields
    <3>5. h.ok /\ h.u = a.u
      BY <3>3
    <3> HIDE DEF h
    <3>6. port = 0
      BY <3>3, <3>5
    <3> HIDE DEF set, port
    <3>7. a.u = Meant.fields
      <4>1. Meant.fields = [schema |-> None, host |-> None, port |-> None, userinfo |-> None,
                            path |-> Field(1, Question - 1), query |-> Field(Question + 1, Hash - 1),
                            fragment |-> Field(Anchor, n)]
        BY MeantElse
      <4>2. a.u \in [Fields -> Nat \X Nat]
        BY <2>1 DEF Splits
      <4> QED BY <3>3, <3>4, <4>1, <4>2 DEF Fields
    <3>8. 0 <= MaxPort
      OBVIOUS
    <3>9. r.ok
      BY <1>1, <1>2, <2>4, <3>3, <3>5, <3>6, <3>8
    <3> QED BY <1>2, <3>5, <3>6, <3>7, <3>9
  <2> HIDE DEF h, set, port
  <2>5. r.ok => a.s # "s_dead"
    BY <1>2
  <2>6. Meant.ok
    BY <1>4, MeantElse
  <2>7. 0 <= MaxPort
    OBVIOUS
  <2> QED BY <2>1, <2>3, <2>4, <2>5, <2>6, <2>7
<1> QED BY <1>3, <1>4

\* Of the URLs that 16 bits can count, whatever their letters and however wide
\* that is, http_parser_parse_url accepts those of the form Meant describes and
\* no other, and reports of each the fields it has there.
THEOREM FieldsMeant == UrlSpec => []FieldsExact
<1>1. UrlTyped /\ Short => FieldsExact
  BY HostedExact, RootedExact, MaxPortAssumption
<1>2. ~Short => FieldsExact
  BY DEF FieldsExact
<1>3. UrlTyped => FieldsExact
  BY <1>1, <1>2
<1> QED BY <1>3, UrlTypes, PTL

-----------------------------------------------------------------------------
(* The parser.  Its states, and the values of its fields. *)

States == RequestLine \cup StatusLine \cup HeaderStates \cup ChunkLine \cup BodyStates
HStates == NameStates \cup KnownNames \cup ValueStates
Methods == {"DELETE", "GET", "HEAD", "POST", "CONNECT", "PUT", "COPY"}

Parsers == [type : {"REQUEST", "RESPONSE"}, flags : SUBSET Flags, state : States, hstate : HStates,
            index : Nat, nread : Nat, length : 0 .. ULLMax, major : Nat, minor : Nat, status : Nat,
            method : Methods, errno : Errors, upgrade : BOOLEAN]
\* Letters, with those the callbacks put in.
Texts == STRING \cup {"CR", "LF", ":", "SP"}
Works == [text : Seq(Texts), urllength : 0 .. Width16 - 1, headerLength : 0 .. Width16 - 1,
          lastel : {"NONE", "FIELD", "VALUE"}]

Starting == {"s_start_req", "s_start_res"}
Chunks == (ChunkLine \cup BodyStates) \ {"s_body_identity", "s_body_identity_eof", "s_message_done"}
Sizes == {"s_chunk_size", "s_chunk_parameters", "s_chunk_size_almost_done"}
\* What the hstate of a value can be: it is no longer the name's, unless the
\* value has been refused at its first letter.
ValueHStates == ValueStates \cup {"h_general", "h_content_length"}

\* What the state says of the flags, the length and the header in hand.
Sound(q) ==
    /\ q.state \in Chunks => "F_CHUNKED" \in q.flags
    /\ q.state \in {"s_body_identity", "s_chunk_data"} => q.length # 0 /\ q.length # ULLMax
    /\ q.state \in Sizes => q.length # ULLMax
    /\ q.state = "s_chunk_data_almost_done" => q.length = 0
    /\ q.state = "s_header_value" => q.hstate \in ValueHStates

\* Unless it has failed, a parser that waits for the size of a chunk has
\* counted nothing; a script pauses between messages only.
Healthy(q, re) ==
    /\ q.errno = "OK" /\ q.state = "s_chunk_size_start" => q.nread = 0 /\ ~ re
    /\ q.errno = "PAUSED" => q.state \in Starting

\* The states in which a string of each kind is open.
UrlRun == UrlStates \ {"s_dead", "s_req_spaces_before_url"}
In(f) ==
    CASE f = "url" -> UrlRun
      [] f = "header_field" -> {"s_header_field"}
      [] f = "header_value" -> {"s_header_value"}
      [] f = "status" -> {"s_res_status"}
      [] OTHER -> {"s_body_identity", "s_body_identity_eof", "s_chunk_data", "s_chunk_data_almost_done"}
MarksIn(m, s) == m \in [Marks -> Nat] /\ \A f \in Marks : m[f] # 0 => s \in In(f)

\* p is in the read or one past it, and an error ends the call.
Placed ==
    /\ p \in Nat \ {0} /\ last \in Nat /\ last <= Len(stream.bytes) /\ p <= last + 1
    /\ phase \in {"idle", "parsing"} /\ again \in BOOLEAN
    /\ phase = "parsing" => parser.errno = "OK"

ParserInv ==
    /\ stream \in Streams /\ parser \in Parsers /\ ctx \in Works /\ mark \in [Marks -> Nat]
    /\ Placed
    /\ Sound(parser) /\ Healthy(parser, again)
    /\ phase = "parsing" => MarksIn(mark, parser.state)

\* The states in which no string is open and of which Sound says nothing.
Plain == States \ (UrlRun \cup Chunks \cup {"s_header_field", "s_header_value", "s_res_status",
                                            "s_body_identity", "s_body_identity_eof"})

LEMMA PlainStates ==
    /\ Starting \subseteq Plain /\ DOMAIN Literal \subseteq Plain
    /\ {"s_req_method", "s_req_http_start", "s_req_http_H", "s_req_http_HT", "s_req_http_HTT",
        "s_req_http_HTTP", "s_req_http_major", "s_req_http_dot", "s_req_http_minor", "s_req_http_end",
        "s_req_line_almost_done", "s_dead", "s_req_spaces_before_url"} \subseteq Plain
    /\ {"s_res_H", "s_res_HT", "s_res_HTT", "s_res_HTTP", "s_res_http_major", "s_res_http_dot",
        "s_res_http_minor", "s_res_http_end", "s_res_first_status_code", "s_res_status_code",
        "s_res_status_start", "s_res_line_almost_done"} \subseteq Plain
    /\ {"s_header_field_start", "s_header_value_discard_ws", "s_header_value_discard_ws_almost_done",
        "s_header_value_discard_lws", "s_header_value_start", "s_header_value_lws",
        "s_header_almost_done", "s_headers_almost_done", "s_headers_done", "s_message_done"} \subseteq Plain
BY DEF Plain, States, RequestLine, StatusLine, HeaderStates, ChunkLine, BodyStates, UrlStates, UrlRun,
       Chunks, Starting, Literal

\* The others, and what each of them is in.
LEMMA OtherStates ==
    /\ UrlRun \subseteq States /\ Chunks \subseteq States
    /\ {"s_header_field", "s_header_value", "s_res_status", "s_body_identity", "s_body_identity_eof"} \subseteq States
    /\ UrlRun \cap Chunks = {}
    /\ {"s_header_field", "s_header_value", "s_res_status", "s_body_identity", "s_body_identity_eof"} \cap (UrlRun \cup Chunks) = {}
    /\ {"s_chunk_size_start", "s_chunk_data", "s_chunk_data_almost_done", "s_chunk_data_done"} \subseteq Chunks
    /\ Sizes \subseteq Chunks
BY DEF States, RequestLine, StatusLine, HeaderStates, ChunkLine, BodyStates, UrlStates, UrlRun, Chunks, Sizes

LEMMA PlainMeans ==
    ASSUME NEW s \in Plain
    PROVE  /\ s \in States /\ s \notin Chunks /\ s \notin Sizes
           /\ s \notin {"s_body_identity", "s_chunk_data", "s_chunk_data_almost_done", "s_header_value",
                        "s_chunk_size_start"}
           /\ \A f \in Marks : s \notin In(f)
BY OtherStates DEF Plain, In, Marks

\* Nor does it say anything of these.
Loose == Plain \cup UrlRun \cup {"s_header_field", "s_res_status", "s_body_identity_eof"}

LEMMA LooseSound ==
    ASSUME NEW q, q.state \in Loose
    PROVE  Sound(q) /\ q.state # "s_chunk_size_start"
<1>1. CASE q.state \in Plain
  BY <1>1, PlainMeans DEF Sound
<1>2. CASE q.state \in UrlRun
  BY <1>2, OtherStates DEF Sound
<1>3. CASE q.state \in {"s_header_field", "s_res_status", "s_body_identity_eof"}
  BY <1>3, OtherStates DEF Sound
<1> QED BY <1>1, <1>2, <1>3 DEF Loose

\* A parser that moves on, with nothing else changed.
LEMMA Moved ==
    ASSUME NEW q \in Parsers, NEW s \in States
    PROVE  /\ [q EXCEPT !.state = s] \in Parsers
           /\ [q EXCEPT !.state = s].state = s /\ [q EXCEPT !.state = s].errno = q.errno
BY DEF Parsers

LEMMA Failed ==
    ASSUME NEW q \in Parsers, NEW e \in Errors, Sound(q)
    PROVE  /\ [q EXCEPT !.errno = e] \in Parsers /\ Sound([q EXCEPT !.errno = e])
           /\ [q EXCEPT !.errno = e].errno = e /\ [q EXCEPT !.errno = e].state = q.state
<1>1. [q EXCEPT !.errno = e] \in Parsers
  BY DEF Parsers
<1> DEFINE r == [q EXCEPT !.errno = e]
<1>2. r.state = q.state /\ r.flags = q.flags /\ r.length = q.length /\ r.hstate = q.hstate /\ r.errno = e
  BY DEF Parsers
<1> HIDE DEF r
<1>3. Sound(r)
  BY <1>2 DEF Sound
<1> QED BY <1>1, <1>2, <1>3 DEF r

LEMMA ErrorNames ==
    {"HEADER_OVERFLOW", "INVALID_VERSION", "INVALID_STATUS", "INVALID_METHOD", "INVALID_URL", "LF_EXPECTED",
     "INVALID_HEADER_TOKEN", "INVALID_CONTENT_LENGTH", "UNEXPECTED_CONTENT_LENGTH", "INVALID_CHUNK_SIZE",
     "INVALID_CONSTANT", "INVALID_EOF_STATE", "PAUSED", "OK"} \subseteq Errors
BY DEF Errors

-----------------------------------------------------------------------------
(* The marks. *)

\* The states in which no string is open.
Shut == Plain \cup ChunkLine \cup {"s_chunk_data_done"}

LEMMA ShutMeans ==
    ASSUME NEW s \in Shut, NEW f \in Marks
    PROVE  s \notin In(f)
<1>1. CASE s \in Plain
  BY <1>1, PlainMeans
<1>2. CASE s \in ChunkLine \cup {"s_chunk_data_done"}
  BY <1>2 DEF In, Marks, ChunkLine, UrlRun, UrlStates
<1> QED BY <1>1, <1>2 DEF Shut

\* No state is in two of the sets.
LEMMA OneString ==
    ASSUME NEW s, NEW f \in Marks, NEW g \in Marks, s \in In(f), s \in In(g)
    PROVE  f = g
BY OtherStates DEF In, Marks

LEMMA MarksFromShut ==
    ASSUME NEW m, NEW s \in Shut, NEW t, MarksIn(m, s)
    PROVE  MarksIn(m, t)
BY ShutMeans DEF MarksIn

\* The string is opened, or goes on.
LEMMA MarksOpen ==
    ASSUME NEW m, NEW s, NEW t, NEW f \in Marks, MarksIn(m, s), s \in Shut \/ s \in In(f), t \in In(f),
           NEW v \in Nat
    PROVE  MarksIn([m EXCEPT ![f] = v], t) /\ MarksIn(m, t)
<1>1. m \in [Marks -> Nat] /\ [m EXCEPT ![f] = v] \in [Marks -> Nat]
  BY DEF MarksIn
<1>2. \A g \in Marks : g # f => m[g] = 0
  BY ShutMeans, OneString DEF MarksIn
<1> QED BY <1>1, <1>2 DEF MarksIn

\* The string is handed over.
LEMMA MarksClose ==
    ASSUME NEW m, NEW s, NEW t, NEW f \in Marks, MarksIn(m, s), s \in Shut \/ s \in In(f)
    PROVE  MarksIn([m EXCEPT ![f] = 0], t)
<1>1. m \in [Marks -> Nat] /\ [m EXCEPT ![f] = 0] \in [Marks -> Nat]
  BY DEF MarksIn
<1>2. \A g \in Marks : g # f => m[g] = 0
  BY ShutMeans, OneString DEF MarksIn
<1> QED BY <1>1, <1>2 DEF MarksIn

LEMMA OneMark ==
    ASSUME NEW m, NEW s, MarksIn(m, s)
    PROVE  Cardinality({f \in Marks : m[f] # 0}) <= 1
<1> DEFINE T == {f \in Marks : m[f] # 0}
<1>1. \A f, g \in T : f = g
  BY OneString DEF MarksIn
<1>2. CASE T = {}
  BY <1>2, FS_EmptySet
<1>3. CASE T # {}
  <2>1. PICK f \in T : TRUE
    BY <1>3
  <2>2. T = {f}
    BY <1>1, <2>1
  <2>3. Cardinality({f}) = 1
    BY FS_Singleton
  <2> QED BY <2>2, <2>3
<1> QED BY <1>2, <1>3

-----------------------------------------------------------------------------
(* How a step ends.  Each of the operators with which the actions end keeps  *)
(* the invariant, whatever the parser it is given.                           *)

LEMMA StreamType ==
    ASSUME ParserInv
    PROVE  stream.bytes \in Seq(Texts) /\ stream.type \in {"REQUEST", "RESPONSE"}
<1>1. stream.bytes \in Seq(STRING) /\ stream.type \in {"REQUEST", "RESPONSE"}
  BY HttpAssumption DEF ParserInv
<1>2. STRING \subseteq Texts
  BY DEF Texts
<1> QED BY <1>1, <1>2, SeqMonotonic

\* Counting the letter disturbs nothing but the count.
LEMMA Counting ==
    ASSUME ParserInv, phase = "parsing", p <= last
    PROVE  /\ P \in Parsers /\ Sound(P) /\ P.errno = "OK" /\ P.state = parser.state
           /\ MarksIn(mark, P.state) /\ (P.state = "s_chunk_size_start" => P.nread = 1)
<1>1. parser \in Parsers /\ Sound(parser) /\ Healthy(parser, again) /\ parser.errno = "OK"
      /\ MarksIn(mark, parser.state)
  BY DEF ParserInv, Placed
<1> DEFINE r == [parser EXCEPT !.nread = @ + 1]
<1>2. parser.nread \in Nat /\ parser.nread + 1 \in Nat
  BY <1>1 DEF Parsers
<1>3. r \in Parsers /\ r.nread = parser.nread + 1 /\ r.state = parser.state /\ r.errno = parser.errno
      /\ r.flags = parser.flags /\ r.length = parser.length /\ r.hstate = parser.hstate
  BY <1>1, <1>2 DEF Parsers
<1>4. P = IF again \/ parser.state \in BodyStates THEN parser ELSE r
  BY DEF P
<1>5. P.state = parser.state /\ P.errno = "OK" /\ P \in Parsers
  BY <1>1, <1>3, <1>4
<1>6. Sound(P)
  BY <1>1, <1>3, <1>4 DEF Sound
<1>7. "s_chunk_size_start" \notin BodyStates
  BY DEF BodyStates
<1>8. P.state = "s_chunk_size_start" => P.nread = 1
  <2>1. parser.state = "s_chunk_size_start" => parser.nread = 0 /\ ~ again
    BY <1>1 DEF Healthy
  <2> HIDE DEF r
  <2> QED BY <1>3, <1>4, <1>7, <2>1
<1> QED BY <1>1, <1>5, <1>6, <1>8

LEMMA GoKeeps ==
    ASSUME ParserInv, phase = "parsing", p <= last, NEW q \in Parsers, Sound(q), q.errno = "OK",
           q.state = "s_chunk_size_start" => q.nread = 0,
           NEW k \in Nat, p + k <= last + 1, Go(q, k), Still, ctx' \in Works, MarksIn(mark', q.state)
    PROVE  ParserInv'
<1>1. /\ parser' = q /\ p' = p + k /\ again' = FALSE /\ phase' = phase /\ last' = last /\ stream' = stream
  BY DEF Go, Still
<1>2. p \in Nat \ {0} /\ last \in Nat /\ last <= Len(stream.bytes) /\ stream \in Streams
  BY DEF ParserInv, Placed
<1>3. p + k \in Nat \ {0}
  BY <1>2
<1>4. Placed'
  BY <1>1, <1>2, <1>3 DEF Placed
<1>5. Healthy(q, FALSE)
  BY DEF Healthy
<1>6. mark' \in [Marks -> Nat]
  BY DEF MarksIn
<1> QED BY <1>1, <1>2, <1>4, <1>5, <1>6 DEF ParserInv

LEMMA ReexecuteKeeps ==
    ASSUME ParserInv, phase = "parsing", p <= last, NEW q \in Parsers, Sound(q), q.errno = "OK",
           q.state # "s_chunk_size_start",
           NEW k \in Nat, p + k <= last + 1, Reexecute(q, k), Still, ctx' \in Works, MarksIn(mark', q.state)
    PROVE  ParserInv'
<1>1. /\ parser' = q /\ p' = p + k /\ again' = TRUE /\ phase' = phase /\ last' = last /\ stream' = stream
  BY DEF Reexecute, Still
<1>2. p \in Nat \ {0} /\ last \in Nat /\ last <= Len(stream.bytes) /\ stream \in Streams
  BY DEF ParserInv, Placed
<1>3. p + k \in Nat \ {0}
  BY <1>2
<1>4. Placed'
  BY <1>1, <1>2, <1>3 DEF Placed
<1>5. Healthy(q, TRUE)
  BY DEF Healthy
<1>6. mark' \in [Marks -> Nat]
  BY DEF MarksIn
<1> QED BY <1>1, <1>2, <1>4, <1>5, <1>6 DEF ParserInv

LEMMA ReturnKeeps ==
    ASSUME ParserInv, phase = "parsing", p <= last, NEW q \in Parsers, Sound(q), Healthy(q, FALSE),
           NEW k, Return(q, k), Still, ctx' \in Works, mark' \in [Marks -> Nat]
    PROVE  ParserInv'
<1>1. /\ parser' = q /\ p' = last + 1 /\ again' = FALSE /\ phase' = "idle" /\ last' = last /\ stream' = stream
  BY DEF Return, Still
<1>2. p \in Nat \ {0} /\ last \in Nat /\ last <= Len(stream.bytes) /\ stream \in Streams
  BY DEF ParserInv, Placed
<1>3. last + 1 \in Nat \ {0}
  BY <1>2
<1>4. Placed'
  <2>1. p' \in Nat \ {0} /\ p' <= last' + 1 /\ last' \in Nat /\ last' <= Len(stream'.bytes)
    BY <1>1, <1>2, <1>3
  <2>2. phase' = "idle" /\ again' \in BOOLEAN
    BY <1>1
  <2> QED BY <2>1, <2>2 DEF Placed
<1>5. ~ (phase' = "parsing") /\ Healthy(parser', again') /\ Sound(parser') /\ parser' \in Parsers
  BY <1>1
<1>6. stream' \in Streams
  BY <1>1, <1>2
<1> QED BY <1>4, <1>5, <1>6 DEF ParserInv

LEMMA FailKeeps ==
    ASSUME ParserInv, phase = "parsing", p <= last, NEW q \in Parsers, Sound(q),
           NEW e \in Errors \ {"OK", "PAUSED"}, Fail(q, e), Still
    PROVE  ParserInv'
<1> DEFINE r == [q EXCEPT !.errno = e]
<1>1. r \in Parsers /\ Sound(r) /\ r.errno = e
  BY Failed
<1>2. Return(r, 0) /\ ctx' = ctx /\ mark' = mark
  BY DEF Fail
<1> HIDE DEF r
<1>3. Healthy(r, FALSE)
  BY <1>1 DEF Healthy
<1>4. ctx' \in Works /\ mark' \in [Marks -> Nat]
  BY <1>2 DEF ParserInv
<1> QED BY <1>1, <1>2, <1>3, <1>4, ReturnKeeps

\* What an action knows once its guard has held.
LEMMA Gated ==
    ASSUME ParserInv, NEW S, At(S)
    PROVE  /\ phase = "parsing" /\ p <= last
           /\ P \in Parsers /\ Sound(P) /\ P.errno = "OK" /\ P.state \in S
           /\ MarksIn(mark, P.state)
BY Counting DEF At

LEMMA QuietKeeps ==
    ASSUME ParserInv, Quiet
    PROVE  ctx' \in Works /\ mark' = mark
BY DEF Quiet, ParserInv

\* A letter that neither opens nor closes a string.
LEMMA PlainGo ==
    ASSUME ParserInv, phase = "parsing", p <= last, P.state \in Shut,
           NEW q \in Parsers, q.errno = "OK", q.state \in Loose,
           Go(q, 1) \/ Reexecute(q, 0), ctx' \in Works, mark' = mark, Still
    PROVE  ParserInv'
<1>1. Sound(q) /\ q.state # "s_chunk_size_start"
  BY LooseSound
<1>2. MarksIn(mark', q.state)
  BY Counting, MarksFromShut
<1>3. p \in Nat /\ last \in Nat
  BY DEF ParserInv, Placed
<1>4. CASE Go(q, 1)
  <2>1. 1 \in Nat /\ p + 1 <= last + 1
    BY <1>3
  <2> QED BY <1>1, <1>2, <1>4, <2>1, GoKeeps
<1>5. CASE Reexecute(q, 0)
  <2>1. 0 \in Nat /\ p + 0 <= last + 1
    BY <1>3
  <2> QED BY <1>1, <1>2, <1>5, <2>1, ReexecuteKeeps
<1> QED BY <1>4, <1>5

LEMMA CompleteKeeps ==
    ASSUME ParserInv, phase = "parsing", p <= last, P.state \in Plain,
           NEW q \in Parsers, q.errno = "OK", q.state \in Starting, MessageComplete(q, 1), Still
    PROVE  ParserInv'
<1>1. q.state \in Plain /\ Sound(q) /\ q.state # "s_chunk_size_start"
  BY PlainStates, LooseSound DEF Loose
<1>2. ctx' = ctx /\ mark' = mark /\ ctx' \in Works /\ mark' \in [Marks -> Nat]
  BY DEF MessageComplete, ParserInv
<1> DEFINE r == [q EXCEPT !.errno = "PAUSED"]
<1>3. r \in Parsers /\ Sound(r) /\ r.errno = "PAUSED" /\ r.state = q.state
  BY <1>1, ErrorNames, Failed
<1> HIDE DEF r
<1>4. Healthy(q, FALSE) /\ Healthy(r, FALSE)
  BY <1>1, <1>3 DEF Healthy
<1>5. Return(q, 1) \/ Go(q, 1) \/ Return(r, 1)
  BY DEF MessageComplete, r
<1>6. CASE Go(q, 1)
  <2>1. MarksIn(mark', q.state)
    BY <1>2, Counting, MarksFromShut DEF Shut
  <2>2. 1 \in Nat /\ p + 1 <= last + 1
    BY DEF ParserInv, Placed
  <2> QED BY <1>1, <1>2, <1>6, <2>1, <2>2, GoKeeps
<1> QED BY <1>1, <1>2, <1>3, <1>4, <1>5, <1>6, ReturnKeeps

-----------------------------------------------------------------------------
(* The callbacks keep the work buffer's type. *)

LEMMA Cut ==
    ASSUME NEW s \in Seq(Texts), NEW m \in Nat \ {0}, NEW j \in Int, j <= Len(s)
    PROVE  SubSeq(s, m, j) \in Seq(Texts)
<1>1. Len(s) \in Nat
  OBVIOUS
<1>2. CASE m <= j
  <2>1. m \in 1 .. Len(s) + 1 /\ j \in m - 1 .. Len(s)
    BY <1>1, <1>2
  <2> QED BY <2>1, SubSeqProperties
<1>3. CASE j < m
  <2>1. \A i \in m .. j : FALSE
    BY <1>3
  <2> QED BY <2>1
<1> QED BY <1>2, <1>3

LEMMA Sum16 ==
    ASSUME NEW a \in Nat, NEW b \in Nat
    PROVE  Add16(a, b) \in 0 .. Width16 - 1
<1>1. Width16 \in Nat \ {0}
  BY WidthAssumption
<1>2. a + b \in Nat
  OBVIOUS
<1> QED BY <1>1, <1>2 DEF Add16

LEMMA CallbacksType ==
    ASSUME NEW c \in Works, NEW s \in Seq(Texts)
    PROVE  url_cb(c, s) \in Works /\ header_field_cb(c, s) \in Works /\ header_value_cb(c, s) \in Works
<1>1. c.text \in Seq(Texts) /\ c.urllength \in Nat /\ c.headerLength \in Nat
  BY WidthAssumption DEF Works
<1>2. \A t \in Seq(Texts) : Len(t) \in Nat /\ c.text \o t \in Seq(Texts) /\ t \o s \in Seq(Texts)
  BY <1>1
<1>3. <<>> \in Seq(Texts) /\ <<"CR", "LF">> \in Seq(Texts) /\ <<":", "SP">> \in Seq(Texts)
  <2>1. "CR" \in Texts /\ "LF" \in Texts /\ ":" \in Texts /\ "SP" \in Texts
    BY DEF Texts
  <2> QED BY <2>1
<1>4. url_cb(c, s) \in Works
  <2>1. Add16(c.urllength, Len(s)) \in 0 .. Width16 - 1
    BY <1>1, <1>2, Sum16
  <2> QED BY <1>2, <2>1 DEF url_cb, Works
<1>5. header_field_cb(c, s) \in Works
  <2> DEFINE sep == IF c.lastel = "VALUE" THEN <<"CR", "LF">> ELSE <<>>
  <2>1. sep \in Seq(Texts)
    BY <1>3
  <2>2. header_field_cb(c, s) = [c EXCEPT !.text = @ \o sep \o s, !.headerLength = Add16(@, Len(sep \o s)),
                                          !.lastel = "FIELD"]
    BY DEF header_field_cb
  <2> HIDE DEF sep
  <2>3. Add16(c.headerLength, Len(sep \o s)) \in 0 .. Width16 - 1 /\ c.text \o sep \o s \in Seq(Texts)
    BY <1>1, <1>2, <2>1, Sum16
  <2> QED BY <2>2, <2>3 DEF Works
<1>6. header_value_cb(c, s) \in Works
  <2> DEFINE sep == IF c.lastel # "VALUE" THEN <<":", "SP">> ELSE <<>>
  <2>1. sep \in Seq(Texts)
    BY <1>3
  <2>2. header_value_cb(c, s) = [c EXCEPT !.text = @ \o sep \o s, !.headerLength = Add16(@, Len(sep \o s)),
                                          !.lastel = "VALUE"]
    BY DEF header_value_cb
  <2> HIDE DEF sep
  <2>3. Add16(c.headerLength, Len(sep \o s)) \in 0 .. Width16 - 1 /\ c.text \o sep \o s \in Seq(Texts)
    BY <1>1, <1>2, <2>1, Sum16
  <2> QED BY <2>2, <2>3 DEF Works
<1> QED BY <1>4, <1>5, <1>6

LEMMA CallDataKeeps ==
    ASSUME ParserInv, NEW f \in Marks, NEW m \in Nat, NEW j \in Int, j <= last, CallData(f, m, j)
    PROVE  ctx' \in Works /\ mark' = [mark EXCEPT ![f] = 0] /\ mark' \in [Marks -> Nat]
<1>1. ctx \in Works /\ mark \in [Marks -> Nat]
  BY DEF ParserInv
<1>2. mark' = [mark EXCEPT ![f] = 0]
  BY DEF CallData
<1>3. mark' \in [Marks -> Nat]
  BY <1>1, <1>2
<1> DEFINE s == SubSeq(stream.bytes, m, j)
<1>4. ctx' = IF m = 0 THEN ctx
             ELSE CASE f = "url" -> url_cb(ctx, s)
                    [] f = "header_field" -> header_field_cb(ctx, s)
                    [] f = "header_value" -> header_value_cb(ctx, s)
                    [] OTHER -> ctx
  BY DEF CallData
<1>5. m # 0 => s \in Seq(Texts)
  <2>1. stream.bytes \in Seq(Texts) /\ Len(stream.bytes) \in Nat
    BY StreamType
  <2>2. j <= Len(stream.bytes)
    BY <2>1 DEF ParserInv, Placed
  <2> QED BY <2>1, <2>2, Cut
<1> HIDE DEF s
<1>6. ctx' \in Works
  BY <1>1, <1>4, <1>5, CallbacksType
<1> QED BY <1>2, <1>3, <1>6

-----------------------------------------------------------------------------
(* What the tables of the automaton hold. *)

Into(f, V) == \A x \in DOMAIN f : f[x] \in V

LEMMA RulesInto ==
    ASSUME NEW V, NEW rules, \A r \in rules : r[3] \in V
    PROVE  Into(Rules(rules), V)
<1> SUFFICES ASSUME NEW x \in DOMAIN Rules(rules) PROVE Rules(rules)[x] \in V
  BY DEF Into
<1>1. x \in {<<r[1], r[2]>> : r \in rules}
  BY DEF Rules
<1>2. PICK r \in rules : x = <<r[1], r[2]>>
  BY <1>1
<1>3. r[1] = x[1] /\ r[2] = x[2]
  BY <1>2
<1>4. (CHOOSE e \in rules : e[1] = x[1] /\ e[2] = x[2]) \in rules
  BY <1>3
<1>5. Rules(rules)[x] = (CHOOSE e \in rules : e[1] = x[1] /\ e[2] = x[2])[3]
  BY <1>1 DEF Rules
<1> QED BY <1>4, <1>5

LEMMA LookIn ==
    ASSUME NEW V, NEW f, Into(f, V), NEW x, NEW other \in V
    PROVE  Look(f, x, other) \in V
BY DEF Into, Look

Names == NameStates \cup KnownNames

LEMMA DigitsInto == Into(Digits, 0 .. 4) /\ Into(unhex, 0 .. 10)
BY DEF Into, Digits, unhex

LEMMA MethodsInto == Into(MethodFirst, Methods) /\ Into(MethodSwitch, Methods)
<1>1. Into(MethodFirst, Methods)
  BY DEF Into, MethodFirst, Methods
<1>2. Into(MethodSwitch, Methods)
  BY RulesInto DEF MethodSwitch, Methods
<1> QED BY <1>1, <1>2

LEMMA NamesInto == Into(NameFirst, Names) /\ Into(NameNext, Names)
<1>1. Into(NameFirst, Names)
  BY DEF Into, NameFirst, Names, NameStates, KnownNames
<1>2. Into(NameNext, Names)
  BY RulesInto DEF NameNext, Names, NameStates, KnownNames
<1> QED BY <1>1, <1>2

LEMMA TokensInto ==
    Into(TokenFirst, ValueStates) /\ Into(TokenRest, ValueStates) /\ Into(FlagOf, Flags)
<1>1. Into(TokenFirst, ValueStates) /\ Into(FlagOf, Flags)
  BY DEF Into, TokenFirst, FlagOf, ValueStates, Flags
<1>2. Into(TokenRest, ValueStates)
  BY RulesInto DEF TokenRest, ValueStates
<1> QED BY <1>1, <1>2

LEMMA NameStep ==
    ASSUME NEW h \in HStates, NEW c
    PROVE  Look(NameNext, <<h, c>>, "h_general") \in HStates
<1>1. "h_general" \in Names /\ Names \subseteq HStates
  BY DEF Names, NameStates, HStates
<1> QED BY <1>1, NamesInto, LookIn

-----------------------------------------------------------------------------
(* The numbers of lengths, and the letters of a value. *)

\* The check before a digit is added leaves room for it, and for one more.
LEMMA Room ==
    ASSUME NEW l \in Nat, NEW b \in {10, 16}, NEW d \in 0 .. 10, d < b, ~ ((ULLMax - b) \div b < l)
    PROVE  l * b + d \in Nat /\ l * b + d < ULLMax
<1>1. ULLMax \in Nat /\ ULLMax > 16
  BY HttpAssumption
<1>2. CASE b = 10
  BY <1>1, <1>2
<1>3. CASE b = 16
  BY <1>1, <1>3
<1> QED BY <1>2, <1>3

LEMMA SmallMod ==
    ASSUME NEW v \in Nat, NEW n \in Nat, v < n
    PROVE  v % n = v
OBVIOUS

LEMMA DigitAdded ==
    ASSUME NEW q \in Parsers, NEW b \in {10, 16}, NEW d \in 0 .. 10, d < b
    PROVE  LET r == AddDigit(q, b, d)
           IN  /\ r \in Parsers /\ r.state = q.state /\ r.nread = q.nread /\ r.hstate = q.hstate
               /\ r.flags = q.flags
               /\ r.errno \in {q.errno, "INVALID_CONTENT_LENGTH"}
               /\ q.length # ULLMax => r.length # ULLMax
<1>1. q.length \in Nat /\ ULLMax \in Nat
  BY HttpAssumption DEF Parsers
<1>2. CASE (ULLMax - b) \div b < q.length
  <2>1. AddDigit(q, b, d) = [q EXCEPT !.errno = "INVALID_CONTENT_LENGTH"]
    BY <1>2 DEF AddDigit
  <2> QED BY <2>1, ErrorNames DEF Parsers
<1>3. CASE ~ ((ULLMax - b) \div b < q.length)
  <2> DEFINE v == q.length * b + d
  <2>1. v \in Nat /\ v < ULLMax
    BY <1>1, <1>3, Room
  <2>2. AddDigit(q, b, d) = [q EXCEPT !.length = v % (ULLMax + 1)]
    BY <1>3 DEF AddDigit
  <2> HIDE DEF v
  <2>3. ULLMax + 1 \in Nat /\ v < ULLMax + 1
    BY <1>1, <2>1
  <2>4. v % (ULLMax + 1) = v
    BY <2>1, <2>3, SmallMod
  <2>5. AddDigit(q, b, d) = [q EXCEPT !.length = v] /\ v \in 0 .. ULLMax /\ v # ULLMax
    BY <1>1, <2>1, <2>2, <2>4
  <2> QED BY <2>5 DEF Parsers
<1> QED BY <1>2, <1>3

\* What the letters of a value leave alone.
Values(q) == {v \in Parsers : v.state = q.state /\ v.nread = q.nread /\ v.hstate \in ValueHStates
                              /\ v.errno # "PAUSED"}

LEMMA ValueStep ==
    ASSUME NEW q, NEW v \in Values(q), NEW c
    PROVE  ValueNext(v, c) \in Values(q)
<1>1. v \in Parsers /\ v.state = q.state /\ v.nread = q.nread /\ v.hstate \in ValueHStates /\ v.errno # "PAUSED"
  BY DEF Values
\* It is enough to say what becomes of hstate, or of hstate and flags, or of errno.
<1>2. ASSUME NEW h \in ValueHStates PROVE [v EXCEPT !.hstate = h] \in Values(q)
  <2>1. h \in HStates
    BY DEF ValueHStates, HStates, NameStates, KnownNames
  <2>2. [v EXCEPT !.hstate = h] \in Parsers
    BY <1>1, <2>1 DEF Parsers
  <2> QED BY <1>1, <2>2 DEF Values, Parsers
<1>3. ASSUME NEW h \in ValueHStates, NEW f \in Flags
      PROVE  [v EXCEPT !.flags = @ \cup {f}, !.hstate = h] \in Values(q)
  <2>1. h \in HStates
    BY DEF ValueHStates, HStates, NameStates, KnownNames
  <2>2. [v EXCEPT !.flags = @ \cup {f}, !.hstate = h] \in Parsers
    BY <1>1, <2>1 DEF Parsers
  <2> QED BY <1>1, <2>2 DEF Values, Parsers
<1>4. [v EXCEPT !.errno = "INVALID_CONTENT_LENGTH"] \in Values(q)
  <2>1. [v EXCEPT !.errno = "INVALID_CONTENT_LENGTH"] \in Parsers
    BY <1>1, ErrorNames DEF Parsers
  <2> QED BY <1>1, <2>1 DEF Values, Parsers
<1>5. /\ "h_content_length_ws" \in ValueHStates /\ "h_transfer_encoding_chunked" \in ValueHStates
      /\ "h_general" \in ValueHStates /\ "h_matching_connection_token" \in ValueHStates
      /\ "h_matching_connection_token_start" \in ValueHStates /\ "h_matching_connection_token" \in ValueStates
      /\ ValueStates \subseteq ValueHStates
  BY DEF ValueHStates, ValueStates
<1>6. CASE v.errno # "OK" \/ v.hstate = "h_general"
  BY <1>6 DEF ValueNext
<1>7. CASE v.errno = "OK" /\ v.hstate = "h_content_length_num"
  <2>1. ValueNext(v, c) = IF c = "SP" THEN [v EXCEPT !.hstate = "h_content_length_ws"]
                          ELSE IF c \in DOMAIN Digits THEN AddDigit(v, 10, Digits[c])
                          ELSE [v EXCEPT !.errno = "INVALID_CONTENT_LENGTH"]
    BY <1>7 DEF ValueNext, FlagOf
  <2>2. c \in DOMAIN Digits => AddDigit(v, 10, Digits[c]) \in Values(q)
    <3> SUFFICES ASSUME c \in DOMAIN Digits PROVE AddDigit(v, 10, Digits[c]) \in Values(q)
      OBVIOUS
    <3>1. Digits[c] \in 0 .. 4
      BY DigitsInto DEF Into
    <3>2. Digits[c] \in 0 .. 10 /\ Digits[c] < 10 /\ 10 \in {10, 16}
      BY <3>1
    <3> DEFINE r == AddDigit(v, 10, Digits[c])
    <3>3. /\ r \in Parsers /\ r.state = v.state /\ r.nread = v.nread /\ r.hstate = v.hstate
          /\ r.errno \in {v.errno, "INVALID_CONTENT_LENGTH"}
      BY <1>1, <3>2, DigitAdded
    <3> HIDE DEF r
    <3>4. r \in Values(q)
      BY <1>1, <3>3 DEF Values
    <3> QED BY <3>4 DEF r
  <2> QED BY <1>2, <1>4, <1>5, <2>1, <2>2
<1>8. CASE v.errno = "OK" /\ v.hstate = "h_content_length_ws"
  <2>1. ValueNext(v, c) = IF c = "SP" THEN v ELSE [v EXCEPT !.errno = "INVALID_CONTENT_LENGTH"]
    BY <1>8 DEF ValueNext, FlagOf
  <2> QED BY <1>4, <2>1
<1>9. CASE v.errno = "OK" /\ v.hstate = "h_matching_transfer_encoding_chunked"
  <2>1. ValueNext(v, c) = [v EXCEPT !.hstate = IF c = "hunked" THEN "h_transfer_encoding_chunked" ELSE "h_general"]
    BY <1>9 DEF ValueNext, FlagOf
  <2> QED BY <1>2, <1>5, <2>1
<1>10. CASE v.errno = "OK" /\ v.hstate = "h_transfer_encoding_chunked"
  <2>1. ValueNext(v, c) = IF c = "SP" THEN v ELSE [v EXCEPT !.hstate = "h_general"]
    BY <1>10 DEF ValueNext, FlagOf
  <2> QED BY <1>2, <1>5, <2>1
<1>11. CASE v.errno = "OK" /\ v.hstate = "h_matching_connection_token_start"
  <2> DEFINE h == CASE c \in DOMAIN TokenFirst -> TokenFirst[c]
                    [] c = "SP" -> v.hstate
                    [] c \in NotToken -> "h_general"
                    [] OTHER -> "h_matching_connection_token"
  <2>1. ValueNext(v, c) = [v EXCEPT !.hstate = h]
    BY <1>11 DEF ValueNext, FlagOf
  <2>2. h \in ValueHStates
    BY <1>1, <1>5, TokensInto DEF Into
  <2> HIDE DEF h
  <2> QED BY <1>2, <2>1, <2>2
<1>12. CASE v.errno = "OK" /\ v.hstate = "h_matching_connection_token"
  <2>1. ValueNext(v, c) = IF c = "," THEN [v EXCEPT !.hstate = "h_matching_connection_token_start"] ELSE v
    BY <1>12 DEF ValueNext, FlagOf
  <2> QED BY <1>2, <1>5, <2>1
<1>13. CASE /\ v.errno = "OK" /\ v.hstate \in DOMAIN FlagOf
            /\ v.hstate # "h_transfer_encoding_chunked"
  <2>1. ValueNext(v, c) =
          IF c = "," THEN [v EXCEPT !.flags = @ \cup {FlagOf[v.hstate]}, !.hstate = "h_matching_connection_token_start"]
          ELSE IF c = "SP" THEN v ELSE [v EXCEPT !.hstate = "h_matching_connection_token"]
    BY <1>13 DEF ValueNext, FlagOf
  <2>2. FlagOf[v.hstate] \in Flags
    BY <1>13, TokensInto DEF Into
  <2> QED BY <1>2, <1>3, <1>5, <2>1, <2>2
<1>14. CASE /\ v.errno = "OK"
            /\ v.hstate \notin {"h_general", "h_content_length_num", "h_content_length_ws",
                  "h_matching_transfer_encoding_chunked", "h_transfer_encoding_chunked",
                  "h_matching_connection_token_start", "h_matching_connection_token"} \cup DOMAIN FlagOf
  <2>1. ValueNext(v, c) = [v EXCEPT !.hstate = Look(TokenRest, <<v.hstate, c>>, "h_matching_connection_token")]
    BY <1>14 DEF ValueNext
  <2>2. Look(TokenRest, <<v.hstate, c>>, "h_matching_connection_token") \in ValueHStates
    BY <1>5, TokensInto, LookIn
  <2> QED BY <1>2, <2>1, <2>2
<1> QED BY <1>6, <1>7, <1>8, <1>9, <1>10, <1>11, <1>12, <1>13, <1>14

\* The rest of a name.
NameRest(base, s) == FoldLeft(LAMBDA h, c : Look(NameNext, <<h, c>>, "h_general"), base, s)

LEMMA NameFold ==
    ASSUME NEW L, NEW seq \in Seq(L), NEW base \in HStates
    PROVE  \E h \in [0 .. Len(seq) -> HStates] :
              /\ h[0] = base /\ h[Len(seq)] = NameRest(base, seq)
              /\ \A k \in 1 .. Len(seq) : h[k] = Look(NameNext, <<h[k - 1], seq[k]>>, "h_general")
<1> DEFINE n == Len(seq)
           F == [x \in HStates \X (1 .. n) |-> Look(NameNext, <<x[1], seq[x[2]]>>, "h_general")]
           Q(g) == g = [s \in SUBSET (DOMAIN seq) |->
                          IF s = {} THEN base ELSE Look(NameNext, <<g[s \ {Max(s)}], seq[Max(s)]>>, "h_general")]
           it == CHOOSE g : Q(g)
<1>1. n \in Nat /\ DOMAIN seq = 1 .. n
  OBVIOUS
<1>2. NameRest(base, seq) = it[DOMAIN seq]
  BY DEF NameRest, FoldLeft, MapThenFoldSet
<1>3. \A v \in HStates, i \in 1 .. n : F[v, i] = Look(NameNext, <<v, seq[i]>>, "h_general")
  OBVIOUS
<1> HIDE DEF n, F
<1>4. Stays(F, n, HStates)
  <2>1. ASSUME NEW v \in HStates, NEW i \in 1 .. n PROVE F[v, i] \in HStates
    <3>1. F[v, i] = Look(NameNext, <<v, seq[i]>>, "h_general")
      BY <1>3
    <3>2. i \in Nat
      BY <1>1
    <3>3. Look(NameNext, <<v, seq[i]>>, "h_general") \in HStates
      BY <3>2, NameStep
    <3> QED BY <3>1, <3>3
  <2> QED BY <2>1 DEF Stays
<1>5. PICK g \in [SUBSET (1 .. n) -> HStates] : Folds(g, n, base, F)
  BY <1>1, <1>4, FoldExists
<1>6. Q(g)
  <2>1. ASSUME NEW s \in SUBSET (1 .. n), s # {}
        PROVE  F[g[s \ {Max(s)}], Max(s)] = Look(NameNext, <<g[s \ {Max(s)}], seq[Max(s)]>>, "h_general")
    BY <1>1, <1>3, <2>1, MaxOf
  <2>2. \A s \in SUBSET (1 .. n) :
          (IF s = {} THEN base ELSE F[g[s \ {Max(s)}], Max(s)])
          = IF s = {} THEN base ELSE Look(NameNext, <<g[s \ {Max(s)}], seq[Max(s)]>>, "h_general")
    BY <2>1
  <2> QED BY <1>1, <1>5, <2>2 DEF Folds
<1>7. Q(it)
  <2> HIDE DEF Q
  <2> QED BY <1>6
<1> HIDE DEF it
<1>8. FoldsIn(it, n, HStates, base, F)
  <2>1. it[{}] = base
    BY <1>1, <1>7
  <2>2. ASSUME NEW s \in SUBSET (1 .. n), s # {}, it[s \ {Max(s)}] \in HStates
        PROVE  it[s] = F[it[s \ {Max(s)}], Max(s)]
    <3>1. Max(s) \in 1 .. n
      BY <1>1, <2>2, MaxOf
    <3>2. it[s] = Look(NameNext, <<it[s \ {Max(s)}], seq[Max(s)]>>, "h_general")
      BY <1>1, <1>7, <2>2
    <3> QED BY <1>1, <1>3, <2>2, <3>1, <3>2
  <2> QED BY <2>1, <2>2 DEF FoldsIn
<1> HIDE DEF Q
<1>9. PICK h : Walk(h, n, HStates, base, F, it[1 .. n])
  BY <1>1, <1>4, <1>8, FoldWalks
<1>10. h \in [0 .. n -> HStates] /\ h[0] = base /\ h[n] = it[1 .. n]
  BY <1>9 DEF Walk
<1>11. ASSUME NEW k \in 1 .. n PROVE h[k] = Look(NameNext, <<h[k - 1], seq[k]>>, "h_general")
  <2>1. k - 1 \in 0 .. n
    BY <1>1, UpToOne
  <2>2. h[k] = F[h[k - 1], k]
    BY <1>9 DEF Walk
  <2>3. h[k - 1] \in HStates
    BY <1>10, <2>1
  <2> QED BY <1>3, <2>2, <2>3
<1> QED BY <1>1, <1>2, <1>10, <1>11 DEF n

LEMMA ValueFold ==
    ASSUME NEW L, NEW seq \in Seq(L), NEW q, NEW base \in Values(q)
    PROVE  \E h \in [0 .. Len(seq) -> Values(q)] :
              /\ h[0] = base /\ h[Len(seq)] = FoldLeft(ValueNext, base, seq)
              /\ \A k \in 1 .. Len(seq) : h[k] = ValueNext(h[k - 1], seq[k])
<1> DEFINE n == Len(seq)
           F == [x \in Values(q) \X (1 .. n) |-> ValueNext(x[1], seq[x[2]])]
           Q(g) == g = [s \in SUBSET (DOMAIN seq) |->
                          IF s = {} THEN base ELSE ValueNext(g[s \ {Max(s)}], seq[Max(s)])]
           it == CHOOSE g : Q(g)
<1>1. n \in Nat /\ DOMAIN seq = 1 .. n
  OBVIOUS
<1>2. FoldLeft(ValueNext, base, seq) = it[DOMAIN seq]
  BY DEF FoldLeft, MapThenFoldSet
<1>3. \A v \in Values(q), i \in 1 .. n : F[v, i] = ValueNext(v, seq[i])
  OBVIOUS
<1> HIDE DEF n, F
<1>4. Stays(F, n, Values(q))
  <2>1. ASSUME NEW v \in Values(q), NEW i \in 1 .. n PROVE F[v, i] \in Values(q)
    <3>1. F[v, i] = ValueNext(v, seq[i])
      BY <1>3
    <3>2. i \in Nat
      BY <1>1
    <3>3. ValueNext(v, seq[i]) \in Values(q)
      BY <3>2, ValueStep
    <3> QED BY <3>1, <3>3
  <2> QED BY <2>1 DEF Stays
<1>5. PICK g \in [SUBSET (1 .. n) -> Values(q)] : Folds(g, n, base, F)
  BY <1>1, <1>4, FoldExists
<1>6. Q(g)
  <2>1. ASSUME NEW s \in SUBSET (1 .. n), s # {}
        PROVE  F[g[s \ {Max(s)}], Max(s)] = ValueNext(g[s \ {Max(s)}], seq[Max(s)])
    BY <1>1, <1>3, <2>1, MaxOf
  <2>2. \A s \in SUBSET (1 .. n) :
          (IF s = {} THEN base ELSE F[g[s \ {Max(s)}], Max(s)])
          = IF s = {} THEN base ELSE ValueNext(g[s \ {Max(s)}], seq[Max(s)])
    BY <2>1
  <2> QED BY <1>1, <1>5, <2>2 DEF Folds
<1>7. Q(it)
  <2> HIDE DEF Q
  <2> QED BY <1>6
<1> HIDE DEF it
<1>8. FoldsIn(it, n, Values(q), base, F)
  <2>1. it[{}] = base
    BY <1>1, <1>7
  <2>2. ASSUME NEW s \in SUBSET (1 .. n), s # {}, it[s \ {Max(s)}] \in Values(q)
        PROVE  it[s] = F[it[s \ {Max(s)}], Max(s)]
    <3>1. Max(s) \in 1 .. n
      BY <1>1, <2>2, MaxOf
    <3>2. it[s] = ValueNext(it[s \ {Max(s)}], seq[Max(s)])
      BY <1>1, <1>7, <2>2
    <3> QED BY <1>1, <1>3, <2>2, <3>1, <3>2
  <2> QED BY <2>1, <2>2 DEF FoldsIn
<1> HIDE DEF Q
<1>9. PICK h : Walk(h, n, Values(q), base, F, it[1 .. n])
  BY <1>1, <1>4, <1>8, FoldWalks
<1>10. h \in [0 .. n -> Values(q)] /\ h[0] = base /\ h[n] = it[1 .. n]
  BY <1>9 DEF Walk
<1>11. ASSUME NEW k \in 1 .. n PROVE h[k] = ValueNext(h[k - 1], seq[k])
  <2>1. k - 1 \in 0 .. n
    BY <1>1, UpToOne
  <2>2. h[k] = F[h[k - 1], k]
    BY <1>9 DEF Walk
  <2>3. h[k - 1] \in Values(q)
    BY <1>10, <2>1
  <2> QED BY <1>3, <2>2, <2>3
<1> QED BY <1>1, <1>2, <1>10, <1>11 DEF n

-----------------------------------------------------------------------------
(* The actions, one by one. *)

LEMMA HeaderOverflowKeeps ==
    ASSUME ParserInv, HeaderOverflow
    PROVE  ParserInv'
<1>1. phase = "parsing" /\ p <= last /\ Fail(P, "HEADER_OVERFLOW") /\ Still
  BY DEF HeaderOverflow
<1>2. "HEADER_OVERFLOW" \in Errors \ {"OK", "PAUSED"}
  BY ErrorNames
<1> QED BY <1>1, <1>2, Counting, FailKeeps

LEMMA ReadKeeps ==
    ASSUME ParserInv, NEW n \in ReadSizes, Read(n)
    PROVE  ParserInv'
<1>1. /\ phase = "idle" /\ p + n - 1 <= Len(stream.bytes) /\ last' = p + n - 1
      /\ stream' = stream /\ again' = again /\ parser' = parser /\ ctx' = ctx
  BY DEF Read
<1>2. n \in Nat \ {0}
  BY HttpAssumption
<1>3. p \in Nat \ {0} /\ parser \in Parsers /\ mark \in [Marks -> Nat] /\ again \in BOOLEAN
  BY DEF ParserInv, Placed
<1>4. p + n - 1 \in Nat /\ p + n \in Nat \ {0} /\ p <= (p + n - 1) + 1 /\ p + n <= (p + n - 1) + 1
  BY <1>2, <1>3
<1>5. CASE parser.errno = "OK"
  <2>1. phase' = "parsing" /\ p' = p /\ mark' = [f \in Marks |-> IF GoesOn(f) THEN p ELSE 0]
    BY <1>5 DEF Read
  <2>2. Placed'
    BY <1>1, <1>3, <1>4, <1>5, <2>1 DEF Placed
  <2>3. MarksIn(mark', parser.state)
    <3>1. \A f \in Marks : GoesOn(f) => parser.state \in In(f)
      BY DEF GoesOn, In, UrlRun, Marks
    <3> QED BY <1>3, <2>1, <3>1 DEF MarksIn
  <2>4. mark' \in [Marks -> Nat]
    BY <2>3 DEF MarksIn
  <2> QED BY <1>1, <2>2, <2>3, <2>4 DEF ParserInv
<1>6. CASE parser.errno # "OK"
  <2>1. phase' = "idle" /\ p' = p + n /\ mark' = mark
    BY <1>1, <1>6 DEF Read
  <2>2. Placed'
    BY <1>1, <1>3, <1>4, <2>1 DEF Placed
  <2> QED BY <1>1, <1>3, <2>1, <2>2 DEF ParserInv
<1> QED BY <1>5, <1>6

LEMMA EndOfReadKeeps ==
    ASSUME ParserInv, EndOfRead
    PROVE  ParserInv'
<1> DEFINE f == IF mark = NoMark THEN "status" ELSE CHOOSE x \in Marks : mark[x] # 0
<1>1. /\ CallData(f, mark[f], last) /\ phase' = "idle"
      /\ stream' = stream /\ p' = p /\ last' = last /\ again' = again /\ parser' = parser
  BY DEF EndOfRead
<1>2. mark \in [Marks -> Nat] /\ last \in Int
  BY DEF ParserInv, Placed
<1>3. f \in Marks
  <2>1. CASE mark = NoMark
    BY <2>1 DEF Marks
  <2>2. CASE mark # NoMark
    <3>1. \E x \in Marks : mark[x] # 0
      BY <1>2, <2>2 DEF NoMark
    <3> QED BY <2>2, <3>1
  <2> QED BY <2>1, <2>2
<1> HIDE DEF f
<1>4. ctx' \in Works /\ mark' \in [Marks -> Nat]
  <2>1. mark[f] \in Nat /\ last <= last
    BY <1>2, <1>3
  <2> QED BY <1>1, <1>2, <1>3, <2>1, CallDataKeeps
<1>5. Placed'
  BY <1>1 DEF ParserInv, Placed
<1> QED BY <1>1, <1>4, <1>5 DEF ParserInv

LEMMA FreshType ==
    ASSUME NEW type \in {"REQUEST", "RESPONSE"}
    PROVE  /\ Fresh(type) \in Parsers /\ Sound(Fresh(type)) /\ Fresh(type).errno = "OK"
           /\ Fresh(type).state \in Starting
<1> DEFINE s == IF type = "REQUEST" THEN "s_start_req" ELSE "s_start_res"
           r == [type |-> type, flags |-> {}, state |-> s,
                 hstate |-> "h_general", index |-> 0, nread |-> 0, length |-> 0,
                 major |-> 0, minor |-> 0, status |-> 0, method |-> "DELETE",
                 errno |-> "OK", upgrade |-> FALSE]
<1>1. Fresh(type) = r
  BY DEF Fresh
<1>2. s \in Starting /\ s \in States
  BY PlainStates, PlainMeans DEF Starting
<1>3. "h_general" \in HStates /\ "DELETE" \in Methods /\ "OK" \in Errors
  BY ErrorNames DEF HStates, NameStates, Methods
<1>4. 0 \in 0 .. ULLMax
  BY HttpAssumption
<1>5. r.state = s /\ r.errno = "OK"
  OBVIOUS
<1> HIDE DEF s
<1>6. r \in Parsers
  BY <1>2, <1>3, <1>4 DEF Parsers
<1> HIDE DEF r
<1>7. Sound(r)
  BY <1>2, <1>5, PlainStates, LooseSound DEF Loose
<1> QED BY <1>1, <1>2, <1>5, <1>6, <1>7

LEMMA ScriptKeeps ==
    ASSUME ParserInv, Script
    PROVE  ParserInv'
<1>1. /\ parser \in Parsers /\ Sound(parser) /\ Healthy(parser, again) /\ ctx \in Works /\ mark \in [Marks -> Nat]
      /\ Placed /\ stream \in Streams
  BY DEF ParserInv
\* The script calls between two reads, and of all this a call changes the parser.
<1>2. ASSUME phase = "idle", parser' \in Parsers, Sound(parser'), Healthy(parser', again),
             UNCHANGED <<stream, p, last, again, phase, mark, ctx>>
      PROVE  ParserInv'
  <2>1. Placed'
    BY <1>1, <1>2 DEF Placed
  <2> QED BY <1>1, <1>2, <2>1 DEF ParserInv
<1>3. CASE ExecuteEnd
  <2>1. phase = "idle" /\ UNCHANGED <<stream, p, last, again, phase, mark, ctx>>
    BY <1>3 DEF ExecuteEnd
  <2>2. parser' = parser \/ parser' = [parser EXCEPT !.errno = "INVALID_EOF_STATE"]
    BY <1>3 DEF ExecuteEnd
  <2>3. CASE parser' = parser
    BY <1>1, <1>2, <2>1, <2>3
  <2>4. CASE parser' = [parser EXCEPT !.errno = "INVALID_EOF_STATE"]
    <3> DEFINE r == [parser EXCEPT !.errno = "INVALID_EOF_STATE"]
    <3>1. r \in Parsers /\ Sound(r) /\ r.errno = "INVALID_EOF_STATE"
      BY <1>1, ErrorNames, Failed
    <3>2. parser' = r
      BY <2>4
    <3> HIDE DEF r
    <3>3. Healthy(r, again)
      BY <3>1 DEF Healthy
    <3> QED BY <1>2, <2>1, <3>1, <3>2, <3>3
  <2> QED BY <2>2, <2>3, <2>4
<1>4. CASE Resume
  <2>1. /\ phase = "idle" /\ parser.errno = "PAUSED" /\ parser' = [parser EXCEPT !.errno = "OK"]
        /\ UNCHANGED <<stream, p, last, again, phase, mark, ctx>>
    BY <1>4 DEF Resume
  <2> DEFINE r == [parser EXCEPT !.errno = "OK"]
  <2>2. r \in Parsers /\ Sound(r) /\ r.errno = "OK" /\ r.state = parser.state
    BY <1>1, ErrorNames, Failed
  <2>3. parser' = r
    BY <2>1
  <2> HIDE DEF r
  <2>4. Healthy(r, again)
    <3>1. parser.state \in Starting
      BY <1>1, <2>1 DEF Healthy
    <3> QED BY <2>2, <3>1 DEF Healthy, Starting
  <2> QED BY <1>2, <2>1, <2>2, <2>3, <2>4
<1>5. CASE Reset
  <2>1. /\ phase = "idle" /\ parser' = Fresh(parser.type)
        /\ UNCHANGED <<stream, p, last, again, phase, mark, ctx>>
    BY <1>5 DEF Reset
  <2>2. parser.type \in {"REQUEST", "RESPONSE"}
    BY <1>1 DEF Parsers
  <2>3. parser' \in Parsers /\ Sound(parser') /\ parser'.errno = "OK" /\ parser'.state \in Starting
    BY <2>1, <2>2, FreshType
  <2>4. Healthy(parser', again)
    BY <2>3 DEF Healthy, Starting
  <2> QED BY <1>2, <2>1, <2>3, <2>4
<1> QED BY <1>3, <1>4, <1>5 DEF Script

-----------------------------------------------------------------------------
(* The first lines. *)

LEMMA EmptyType == EmptyWork \in Works
<1>1. 0 \in 0 .. Width16 - 1
  BY WidthAssumption
<1> QED BY <1>1 DEF EmptyWork, Works

LEMMA BeginKeeps ==
    ASSUME NEW q, Begin(q)
    PROVE  Go(q, 1) /\ ctx' \in Works /\ mark' = mark
BY EmptyType DEF Begin

\* A parser before its first letter: what it knows of the last message is gone.
Afresh(q) == [q EXCEPT !.flags = {}, !.length = ULLMax]

LEMMA AfreshType ==
    ASSUME NEW q \in Parsers, NEW s \in Plain
    PROVE  /\ [Afresh(q) EXCEPT !.state = s] \in Parsers /\ Afresh(q) \in Parsers
           /\ Afresh(q).state = q.state /\ Afresh(q).errno = q.errno
           /\ [Afresh(q) EXCEPT !.state = s].state = s /\ [Afresh(q) EXCEPT !.state = s].errno = q.errno
<1>1. s \in States /\ ULLMax \in 0 .. ULLMax
  BY PlainMeans, HttpAssumption
<1> QED BY <1>1 DEF Afresh, Parsers

LEMMA StartRequestKeeps ==
    ASSUME ParserInv, StartRequest
    PROVE  ParserInv'
<1>1. /\ phase = "parsing" /\ p <= last /\ P \in Parsers /\ Sound(P) /\ P.errno = "OK"
      /\ P.state = "s_start_req" /\ P.state \in Plain /\ P.state \in Shut /\ P.state \in Loose
  BY Gated, PlainStates DEF StartRequest, Starting, Shut, Loose
<1>2. Still
  BY DEF StartRequest
<1>3. \/ Go(P, 1) /\ Quiet
      \/ /\ ch \in DOMAIN MethodFirst
         /\ Begin([Afresh(P) EXCEPT !.method = MethodFirst[ch], !.index = 1, !.state = "s_req_method"])
      \/ Fail(Afresh(P), "INVALID_METHOD")
  BY DEF StartRequest, Afresh
<1>4. CASE Go(P, 1) /\ Quiet
  BY <1>1, <1>2, <1>4, QuietKeeps, PlainGo
<1>5. CASE /\ ch \in DOMAIN MethodFirst
           /\ Begin([Afresh(P) EXCEPT !.method = MethodFirst[ch], !.index = 1, !.state = "s_req_method"])
  <2> DEFINE r == [Afresh(P) EXCEPT !.method = MethodFirst[ch], !.index = 1, !.state = "s_req_method"]
  <2>1. MethodFirst[ch] \in Methods
    BY <1>5, MethodsInto DEF Into
  <2>2. "s_req_method" \in Plain /\ "s_req_method" \in States /\ "s_req_method" \in Loose
    BY PlainStates, PlainMeans DEF Loose
  <2>3. Afresh(P) \in Parsers /\ Afresh(P).errno = "OK"
    BY <1>1, <2>2, AfreshType
  <2>4. r \in Parsers /\ r.errno = "OK" /\ r.state = "s_req_method"
    BY <2>1, <2>2, <2>3 DEF Parsers
  <2>5. Begin(r)
    BY <1>5
  <2> HIDE DEF r
  <2> QED BY <1>1, <1>2, <2>2, <2>4, <2>5, BeginKeeps, PlainGo
<1>6. CASE Fail(Afresh(P), "INVALID_METHOD")
  <2>1. Afresh(P) \in Parsers /\ Afresh(P).state \in Loose
    BY <1>1, AfreshType
  <2>2. Sound(Afresh(P)) /\ "INVALID_METHOD" \in Errors \ {"OK", "PAUSED"}
    BY <2>1, LooseSound, ErrorNames
  <2> QED BY <1>1, <1>2, <1>6, <2>1, <2>2, FailKeeps
<1> QED BY <1>3, <1>4, <1>5, <1>6

LEMMA MethodKeeps ==
    ASSUME ParserInv, Method
    PROVE  ParserInv'
<1>1. /\ phase = "parsing" /\ p <= last /\ P \in Parsers /\ Sound(P) /\ P.errno = "OK"
      /\ P.state = "s_req_method" /\ P.state \in Shut /\ P.state \in Loose
  BY Gated, PlainStates DEF Method, Shut, Loose
<1>2. Still
  BY DEF Method
<1> DEFINE method == IF ch = MethodRest[P.method] THEN P.method
                     ELSE Look(MethodSwitch, <<P.method, ch>>, "none")
<1>3. \/ Go([P EXCEPT !.state = "s_req_spaces_before_url", !.index = 3], 1) /\ Quiet
      \/ method # "none" /\ Go([P EXCEPT !.method = method, !.index = 2], 1) /\ Quiet
      \/ Fail(P, "INVALID_METHOD")
  BY DEF Method
<1>4. method \in Methods \cup {"none"}
  <2>1. Into(MethodSwitch, Methods \cup {"none"})
    BY MethodsInto DEF Into
  <2>2. Look(MethodSwitch, <<P.method, ch>>, "none") \in Methods \cup {"none"}
    BY <2>1, LookIn
  <2> QED BY <1>1, <2>2 DEF Parsers
<1> HIDE DEF method
<1>5. CASE Go([P EXCEPT !.state = "s_req_spaces_before_url", !.index = 3], 1) /\ Quiet
  <2> DEFINE r == [P EXCEPT !.state = "s_req_spaces_before_url", !.index = 3]
  <2>1. "s_req_spaces_before_url" \in States /\ "s_req_spaces_before_url" \in Loose
    BY PlainStates, PlainMeans DEF Loose
  <2>2. r \in Parsers /\ r.errno = "OK" /\ r.state \in Loose
    BY <1>1, <2>1 DEF Parsers
  <2>3. Go(r, 1) /\ Quiet
    BY <1>5
  <2> HIDE DEF r
  <2> QED BY <1>1, <1>2, <2>2, <2>3, QuietKeeps, PlainGo
<1>6. CASE method # "none" /\ Go([P EXCEPT !.method = method, !.index = 2], 1) /\ Quiet
  <2> DEFINE r == [P EXCEPT !.method = method, !.index = 2]
  <2>1. r \in Parsers /\ r.errno = "OK" /\ r.state \in Loose
    BY <1>1, <1>4, <1>6 DEF Parsers
  <2>2. Go(r, 1) /\ Quiet
    BY <1>6
  <2> HIDE DEF r
  <2> QED BY <1>1, <1>2, <2>1, <2>2, QuietKeeps, PlainGo
<1>7. CASE Fail(P, "INVALID_METHOD")
  BY <1>1, <1>2, <1>7, ErrorNames, FailKeeps
<1> QED BY <1>3, <1>5, <1>6, <1>7

\* The parser goes to a state, and nothing else happens.
LEMMA MoveKeeps ==
    ASSUME ParserInv, phase = "parsing", p <= last, P.state \in Shut, NEW s \in Loose,
           Go([P EXCEPT !.state = s], 1) \/ Reexecute([P EXCEPT !.state = s], 0), Quiet, Still
    PROVE  ParserInv'
<1> DEFINE r == [P EXCEPT !.state = s]
<1>1. s \in States
  BY PlainMeans, OtherStates DEF Loose
<1>2. r \in Parsers /\ r.state = s /\ r.errno = "OK"
  BY <1>1, Counting, Moved
<1> HIDE DEF r
<1>3. Go(r, 1) \/ Reexecute(r, 0)
  BY DEF r
<1> QED BY <1>2, <1>3, QuietKeeps, PlainGo

LEMMA StayKeeps ==
    ASSUME ParserInv, phase = "parsing", p <= last, P.state \in Plain, Go(P, 1), Quiet, Still
    PROVE  ParserInv'
BY Counting, QuietKeeps, PlainGo DEF Shut, Loose

LEMMA FailsKeeps ==
    ASSUME ParserInv, phase = "parsing", p <= last, NEW e \in Errors \ {"OK", "PAUSED"}, Fail(P, e), Still
    PROVE  ParserInv'
BY Counting, FailKeeps

LEMMA UrlStateSets ==
    /\ UrlStates = UrlRun \cup {"s_dead", "s_req_spaces_before_url"}
    /\ {"s_req_server_start", "s_req_schema"} \subseteq UrlRun
    /\ UrlRun \subseteq Loose /\ Plain \subseteq Loose /\ Plain \subseteq Shut
    /\ In("url") = UrlRun /\ "url" \in Marks
BY DEF UrlRun, UrlStates, Loose, Shut, In, Marks

LEMMA MarkedType ==
    ASSUME ParserInv, NEW f \in Marks
    PROVE  Marked(f) \in Nat
BY DEF ParserInv, Placed, Marked

\* A letter of the URL.
LEMMA UrlLetter ==
    ASSUME NEW s \in UrlStates, NEW c, parse_url_char(s, c) # "s_dead"
    PROVE  parse_url_char(s, c) \in UrlRun
<1>1. parse_url_char(s, c) \in UrlStates /\ parse_url_char(s, c) # "s_req_spaces_before_url"
  BY Steps
<1> QED BY <1>1 DEF UrlRun

LEMMA UrlBeginKeeps ==
    ASSUME ParserInv, UrlBegin
    PROVE  ParserInv'
<1> DEFINE from == IF P.method = "CONNECT" THEN "s_req_server_start" ELSE P.state
           s == parse_url_char(from, ch)
<1>1. /\ phase = "parsing" /\ p <= last /\ P \in Parsers /\ Sound(P) /\ P.errno = "OK"
      /\ P.state = "s_req_spaces_before_url" /\ P.state \in Plain /\ P.state \in Shut
      /\ MarksIn(mark, P.state)
  BY Gated, PlainStates, UrlStateSets DEF UrlBegin
<1>2. Still
  BY DEF UrlBegin
<1>3. \/ Go(P, 1) /\ Quiet
      \/ s = "s_dead" /\ Fail([P EXCEPT !.state = s], "INVALID_URL")
      \/ /\ s # "s_dead" /\ Go([P EXCEPT !.state = s], 1)
         /\ mark' = [mark EXCEPT !["url"] = Marked("url")] /\ ctx' = ctx
  BY DEF UrlBegin
<1>4. from \in UrlStates
  BY <1>1, UrlStateSets
<1>5. s # "s_dead" => s \in UrlRun
  BY <1>4, UrlLetter
<1> HIDE DEF s
<1>6. CASE Go(P, 1) /\ Quiet
  BY <1>1, <1>2, <1>6, StayKeeps
<1>7. CASE s = "s_dead" /\ Fail([P EXCEPT !.state = s], "INVALID_URL")
  <2> DEFINE r == [P EXCEPT !.state = s]
  <2>1. s \in States /\ s \in Loose
    BY <1>7, PlainStates, PlainMeans, UrlStateSets
  <2>2. r \in Parsers /\ r.state \in Loose
    BY <1>1, <2>1, Moved
  <2>3. Fail(r, "INVALID_URL")
    BY <1>7
  <2> HIDE DEF r
  <2> QED BY <1>1, <1>2, <2>2, <2>3, LooseSound, ErrorNames, FailKeeps
<1>8. CASE /\ s # "s_dead" /\ Go([P EXCEPT !.state = s], 1)
           /\ mark' = [mark EXCEPT !["url"] = Marked("url")] /\ ctx' = ctx
  <2> DEFINE r == [P EXCEPT !.state = s]
  <2>1. s \in States /\ s \in Loose
    BY <1>5, <1>8, OtherStates, UrlStateSets
  <2>2. r \in Parsers /\ r.state = s /\ r.errno = "OK"
    BY <1>1, <2>1, Moved
  <2>3. Go(r, 1)
    BY <1>8
  <2> HIDE DEF r
  <2>4. Sound(r) /\ r.state # "s_chunk_size_start"
    BY <2>1, <2>2, LooseSound
  <2>5. MarksIn(mark', r.state)
    BY <1>1, <1>5, <1>8, <2>2, UrlStateSets, MarkedType, MarksOpen
  <2>6. ctx' \in Works /\ 1 \in Nat /\ p + 1 <= last + 1
    BY <1>1, <1>8 DEF ParserInv, Placed
  <2> QED BY <1>1, <1>2, <2>2, <2>3, <2>4, <2>5, <2>6, GoKeeps
<1> QED BY <1>3, <1>6, <1>7, <1>8

\* A string is handed over at a letter that the parser then goes past.
LEMMA HandKeeps ==
    ASSUME ParserInv, phase = "parsing", p <= last, NEW f \in Marks, P.state \in Shut \/ P.state \in In(f),
           NEW m \in Nat, CallData(f, m, p - 1),
           NEW q \in Parsers, q.errno = "OK", q.state \in Loose, Go(q, 1) \/ Reexecute(q, 0), Still
    PROVE  ParserInv'
<1>1. p \in Nat /\ last \in Nat /\ p - 1 \in Int /\ p - 1 <= last
  BY DEF ParserInv, Placed
<1>2. ctx' \in Works /\ mark' = [mark EXCEPT ![f] = 0]
  BY <1>1, CallDataKeeps
<1>3. MarksIn(mark', q.state)
  BY <1>2, Counting, MarksClose
<1>4. Sound(q) /\ q.state # "s_chunk_size_start"
  BY LooseSound
<1>5. CASE Go(q, 1)
  <2>1. 1 \in Nat /\ p + 1 <= last + 1
    BY <1>1
  <2> QED BY <1>2, <1>3, <1>4, <1>5, <2>1, GoKeeps
<1>6. CASE Reexecute(q, 0)
  <2>1. 0 \in Nat /\ p + 0 <= last + 1
    BY <1>1
  <2> QED BY <1>2, <1>3, <1>4, <1>6, <2>1, ReexecuteKeeps
<1> QED BY <1>5, <1>6

LEMMA UrlKeeps ==
    ASSUME ParserInv, Url
    PROVE  ParserInv'
<1> DEFINE s == parse_url_char(P.state, ch)
           plain == [P EXCEPT !.major = 0, !.minor = 9]
           q == CASE ch = "SP" -> [P EXCEPT !.state = "s_req_http_start"]
                  [] ch = "CR" -> [plain EXCEPT !.state = "s_req_line_almost_done"]
                  [] OTHER -> [plain EXCEPT !.state = "s_header_field_start"]
<1>1. /\ phase = "parsing" /\ p <= last /\ P \in Parsers /\ Sound(P) /\ P.errno = "OK"
      /\ P.state \in UrlStates \ {"s_req_spaces_before_url"} /\ MarksIn(mark, P.state)
  BY Gated DEF Url
<1>2. Still
  BY DEF Url
<1>3. \/ Fail(P, "INVALID_URL")
      \/ s = "s_dead" /\ Fail([P EXCEPT !.state = s], "INVALID_URL")
      \/ s # "s_dead" /\ Go([P EXCEPT !.state = s], 1) /\ Quiet
      \/ CallData("url", mark["url"], p - 1) /\ Go(q, 1)
  BY DEF Url
<1>4. s # "s_dead" => s \in UrlRun
  BY <1>1, UrlLetter
<1>5. P.state \in UrlRun \/ (P.state = "s_dead" /\ P.state \in Shut)
  BY <1>1, PlainStates, UrlStateSets
<1> HIDE DEF s
<1>6. CASE Fail(P, "INVALID_URL")
  BY <1>1, <1>2, <1>6, ErrorNames, FailsKeeps
<1>7. CASE s = "s_dead" /\ Fail([P EXCEPT !.state = s], "INVALID_URL")
  <2> DEFINE r == [P EXCEPT !.state = s]
  <2>1. s \in States /\ s \in Loose
    BY <1>7, PlainStates, PlainMeans, UrlStateSets
  <2>2. r \in Parsers /\ r.state \in Loose
    BY <1>1, <2>1, Moved
  <2>3. Fail(r, "INVALID_URL")
    BY <1>7
  <2> HIDE DEF r
  <2> QED BY <1>1, <1>2, <2>2, <2>3, LooseSound, ErrorNames, FailKeeps
<1>8. CASE s # "s_dead" /\ Go([P EXCEPT !.state = s], 1) /\ Quiet
  <2> DEFINE r == [P EXCEPT !.state = s]
  <2>1. s \in States /\ s \in Loose
    BY <1>4, <1>8, OtherStates, UrlStateSets
  <2>2. r \in Parsers /\ r.state = s /\ r.errno = "OK"
    BY <1>1, <2>1, Moved
  <2>3. Go(r, 1)
    BY <1>8
  <2> HIDE DEF r
  <2>4. Sound(r) /\ r.state # "s_chunk_size_start"
    BY <2>1, <2>2, LooseSound
  <2>5. ctx' \in Works /\ mark' = mark
    BY <1>8, QuietKeeps
  <2>6. MarksIn(mark', r.state)
    <3>1. 0 \in Nat
      OBVIOUS
    <3> QED BY <1>1, <1>4, <1>5, <1>8, <2>2, <2>5, <3>1, UrlStateSets, MarksOpen
  <2>7. 1 \in Nat /\ p + 1 <= last + 1
    BY <1>1 DEF ParserInv, Placed
  <2> QED BY <1>1, <1>2, <2>2, <2>3, <2>4, <2>5, <2>6, <2>7, GoKeeps
<1>9. CASE CallData("url", mark["url"], p - 1) /\ Go(q, 1)
  <2>1. {"s_req_http_start", "s_req_line_almost_done", "s_header_field_start"} \subseteq Loose \cap States
    BY PlainStates, PlainMeans, UrlStateSets
  <2>2. plain \in Parsers /\ plain.errno = "OK"
    BY <1>1 DEF Parsers
  <2> HIDE DEF plain
  <2>3. q \in Parsers /\ q.errno = "OK" /\ q.state \in Loose
    BY <1>1, <2>1, <2>2, Moved
  <2> HIDE DEF q
  <2>4. mark["url"] \in Nat
    BY UrlStateSets DEF ParserInv
  <2> QED BY <1>1, <1>2, <1>5, <1>9, <2>3, <2>4, UrlStateSets, HandKeeps
<1> QED BY <1>3, <1>6, <1>7, <1>8, <1>9

LEMMA LiteralInto == Into(Literal, Plain)
<1>1. {"s_req_http_HT", "s_req_http_HTT", "s_req_http_HTTP", "s_req_http_major",
       "s_res_HT", "s_res_HTT", "s_res_HTTP", "s_res_http_major"} \subseteq Plain
  BY PlainStates
<1> QED BY <1>1 DEF Into, Literal

LEMMA ProtocolKeeps ==
    ASSUME ParserInv, Protocol
    PROVE  ParserInv'
<1>1. Still
  BY DEF Protocol
<1>2. CASE At(DOMAIN Literal) /\ Go([P EXCEPT !.state = Literal[P.state]], 1) /\ Quiet
  <2>1. phase = "parsing" /\ p <= last /\ P.state \in DOMAIN Literal
    BY <1>2, Gated
  <2>2. P.state \in Shut /\ Literal[P.state] \in Loose
    BY <2>1, LiteralInto, PlainStates, UrlStateSets DEF Into
  <2> QED BY <1>1, <1>2, <2>1, <2>2, MoveKeeps
<1>3. CASE /\ At({"s_req_http_start"})
           /\ \/ ch = "H" /\ Go([P EXCEPT !.state = "s_req_http_H"], 1) /\ Quiet
              \/ ch = "SP" /\ Go(P, 1) /\ Quiet
              \/ ch \notin {"H", "SP"} /\ Fail(P, "INVALID_CONSTANT")
  <2>1. phase = "parsing" /\ p <= last /\ P.state \in Plain /\ P.state \in Shut
    BY <1>3, Gated, PlainStates, UrlStateSets
  <2>2. "s_req_http_H" \in Loose /\ "INVALID_CONSTANT" \in Errors \ {"OK", "PAUSED"}
    BY PlainStates, UrlStateSets, ErrorNames
  <2>3. CASE Go([P EXCEPT !.state = "s_req_http_H"], 1) /\ Quiet
    BY <1>1, <2>1, <2>2, <2>3, MoveKeeps
  <2>4. CASE Go(P, 1) /\ Quiet
    BY <1>1, <2>1, <2>4, StayKeeps
  <2>5. CASE Fail(P, "INVALID_CONSTANT")
    BY <1>1, <2>1, <2>2, <2>5, FailsKeeps
  <2> QED BY <1>3, <2>3, <2>4, <2>5
<1> QED BY <1>2, <1>3 DEF Protocol

LEMMA VersionKeeps ==
    ASSUME ParserInv, Version
    PROVE  ParserInv'
<1> DEFINE request == P.type = "REQUEST"
           major == P.state \in {"s_req_http_major", "s_res_http_major"}
           dot == P.state \in {"s_req_http_dot", "s_res_http_dot"}
           q == CASE major -> [P EXCEPT !.major = Digits[ch],
                               !.state = IF request THEN "s_req_http_dot" ELSE "s_res_http_dot"]
                  [] dot -> [P EXCEPT
                               !.state = IF request THEN "s_req_http_minor" ELSE "s_res_http_minor"]
                  [] OTHER -> [P EXCEPT !.minor = Digits[ch],
                               !.state = IF request THEN "s_req_http_end" ELSE "s_res_http_end"]
<1>1. /\ phase = "parsing" /\ p <= last /\ P \in Parsers /\ P.errno = "OK" /\ P.state \in Shut
  BY Gated, PlainStates, UrlStateSets DEF Version
<1>2. Still
  BY DEF Version
<1>3. \/ Fail(P, "INVALID_VERSION")
      \/ (dot \/ ch \in DOMAIN Digits) /\ Go(q, 1) /\ Quiet
  BY DEF Version
<1>4. CASE Fail(P, "INVALID_VERSION")
  BY <1>1, <1>2, <1>4, ErrorNames, FailsKeeps
<1>5. CASE (dot \/ ch \in DOMAIN Digits) /\ Go(q, 1) /\ Quiet
  <2>1. {"s_req_http_dot", "s_res_http_dot", "s_req_http_minor", "s_res_http_minor",
         "s_req_http_end", "s_res_http_end"} \subseteq Loose \cap States
    BY PlainStates, PlainMeans, UrlStateSets
  <2>2. ch \in DOMAIN Digits => Digits[ch] \in Nat
    BY DigitsInto DEF Into
  <2>3. ~ (major /\ dot)
    OBVIOUS
  <2> DEFINE to1 == IF request THEN "s_req_http_dot" ELSE "s_res_http_dot"
             to2 == IF request THEN "s_req_http_minor" ELSE "s_res_http_minor"
             to3 == IF request THEN "s_req_http_end" ELSE "s_res_http_end"
  <2>4. to1 \in Loose \cap States /\ to2 \in Loose \cap States /\ to3 \in Loose \cap States
    BY <2>1
  <2>5. /\ major => q = [P EXCEPT !.major = Digits[ch], !.state = to1]
        /\ dot => q = [P EXCEPT !.state = to2]
        /\ ~ major /\ ~ dot => q = [P EXCEPT !.minor = Digits[ch], !.state = to3]
    BY <2>3
  <2> HIDE DEF q, to1, to2, to3, major, dot
  <2>6. q \in Parsers /\ q.errno = "OK" /\ q.state \in Loose
    <3>1. CASE major
      BY <1>1, <1>5, <2>2, <2>3, <2>4, <2>5, <3>1 DEF Parsers
    <3>2. CASE dot
      BY <1>1, <2>4, <2>5, <3>2 DEF Parsers
    <3>3. CASE ~ major /\ ~ dot
      BY <1>1, <1>5, <2>2, <2>4, <2>5, <3>3 DEF Parsers
    <3> QED BY <3>1, <3>2, <3>3
  <2> QED BY <1>1, <1>2, <1>5, <2>6, QuietKeeps, PlainGo
<1> QED BY <1>3, <1>4, <1>5

LEMMA RequestLineEndKeeps ==
    ASSUME ParserInv, RequestLineEnd
    PROVE  ParserInv'
<1>1. Still
  BY DEF RequestLineEnd
<1>2. /\ "s_req_line_almost_done" \in Loose /\ "s_header_field_start" \in Loose
      /\ "INVALID_VERSION" \in Errors \ {"OK", "PAUSED"} /\ "LF_EXPECTED" \in Errors \ {"OK", "PAUSED"}
  BY PlainStates, UrlStateSets, ErrorNames
<1>3. phase = "parsing" /\ p <= last /\ P.state \in Shut
  <2>1. At({"s_req_http_end"}) \/ At({"s_req_line_almost_done"})
    BY DEF RequestLineEnd
  <2> QED BY <2>1, Gated, PlainStates, UrlStateSets
<1>4. \/ Go([P EXCEPT !.state = "s_req_line_almost_done"], 1) /\ Quiet
      \/ Go([P EXCEPT !.state = "s_header_field_start"], 1) /\ Quiet
      \/ Fail(P, "INVALID_VERSION") \/ Fail(P, "LF_EXPECTED")
  BY DEF RequestLineEnd
<1> QED BY <1>1, <1>2, <1>3, <1>4, MoveKeeps, FailsKeeps

LEMMA StartResponseKeeps ==
    ASSUME ParserInv, StartResponse
    PROVE  ParserInv'
<1>1. /\ phase = "parsing" /\ p <= last /\ P \in Parsers /\ P.errno = "OK"
      /\ P.state = "s_start_res" /\ P.state \in Plain /\ P.state \in Shut /\ P.state \in Loose
  BY Gated, PlainStates, UrlStateSets DEF StartResponse, Starting
<1>2. Still
  BY DEF StartResponse
<1>3. \/ Begin([Afresh(P) EXCEPT !.state = "s_res_H"])
      \/ Begin(Afresh(P))
      \/ Fail(Afresh(P), "INVALID_CONSTANT")
  BY DEF StartResponse, Afresh
<1> DEFINE r == [Afresh(P) EXCEPT !.state = "s_res_H"]
<1>4. "s_res_H" \in Plain /\ "s_res_H" \in Loose
  BY PlainStates, UrlStateSets
<1>5. /\ Afresh(P) \in Parsers /\ Afresh(P).state \in Loose /\ Afresh(P).errno = "OK"
      /\ r \in Parsers /\ r.state \in Loose /\ r.errno = "OK"
  BY <1>1, <1>4, AfreshType
<1>6. CASE Begin(r)
  <2> HIDE DEF r
  <2> QED BY <1>1, <1>2, <1>5, <1>6, BeginKeeps, PlainGo
<1>7. CASE Begin(Afresh(P))
  BY <1>1, <1>2, <1>5, <1>7, BeginKeeps, PlainGo
<1>8. CASE Fail(Afresh(P), "INVALID_CONSTANT")
  BY <1>1, <1>2, <1>5, <1>8, LooseSound, ErrorNames, FailKeeps
<1> QED BY <1>3, <1>6, <1>7, <1>8

LEMMA StatusCodeKeeps ==
    ASSUME ParserInv, StatusCode
    PROVE  ParserInv'
<1>1. Still
  BY DEF StatusCode
<1>2. /\ {"s_res_first_status_code", "s_res_status_code", "s_res_status_start"} \subseteq Loose \cap States
      /\ "INVALID_VERSION" \in Errors \ {"OK", "PAUSED"} /\ "INVALID_STATUS" \in Errors \ {"OK", "PAUSED"}
  BY PlainStates, PlainMeans, UrlStateSets, ErrorNames
<1>3. phase = "parsing" /\ p <= last /\ P \in Parsers /\ P.errno = "OK" /\ P.state \in Plain /\ P.state \in Shut /\ P.state \in Loose
  <2>1. At({"s_res_http_end"}) \/ At({"s_res_first_status_code"}) \/ At({"s_res_status_code"})
    BY DEF StatusCode
  <2> QED BY <2>1, Gated, PlainStates, UrlStateSets
<1> DEFINE first == [P EXCEPT !.status = Digits[ch], !.state = "s_res_status_code"]
           more == [P EXCEPT !.status = @ * 10 + Digits[ch]]
<1>4. \/ Go([P EXCEPT !.state = "s_res_first_status_code"], 1) /\ Quiet
      \/ Fail(P, "INVALID_VERSION") \/ Fail(P, "INVALID_STATUS")
      \/ ch \in DOMAIN Digits /\ Go(first, 1) /\ Quiet
      \/ Go(P, 1) /\ Quiet
      \/ ch \in DOMAIN Digits /\ (Fail(more, "INVALID_STATUS") \/ (Go(more, 1) /\ Quiet))
      \/ Go([P EXCEPT !.state = "s_res_status_start"], 1) /\ Quiet
      \/ Reexecute([P EXCEPT !.state = "s_res_status_start"], 0) /\ Quiet
  BY DEF StatusCode
<1>5. ch \in DOMAIN Digits => Digits[ch] \in Nat
  BY DigitsInto DEF Into
<1>6. CASE Go([P EXCEPT !.state = "s_res_first_status_code"], 1) /\ Quiet
  BY <1>1, <1>2, <1>3, <1>6, MoveKeeps
<1>7. CASE Fail(P, "INVALID_VERSION") \/ Fail(P, "INVALID_STATUS")
  BY <1>1, <1>2, <1>3, <1>7, FailsKeeps
<1>8. CASE ch \in DOMAIN Digits /\ Go(first, 1) /\ Quiet
  <2>1. first \in Parsers /\ first.errno = "OK" /\ first.state \in Loose
    BY <1>2, <1>3, <1>5, <1>8 DEF Parsers
  <2> HIDE DEF first
  <2> QED BY <1>1, <1>3, <1>8, <2>1, QuietKeeps, PlainGo
<1>9. CASE Go(P, 1) /\ Quiet
  BY <1>1, <1>3, <1>9, StayKeeps
<1>10. CASE ch \in DOMAIN Digits /\ (Fail(more, "INVALID_STATUS") \/ (Go(more, 1) /\ Quiet))
  <2>1. P.status * 10 + Digits[ch] \in Nat
    BY <1>3, <1>5, <1>10 DEF Parsers
  <2>2. more \in Parsers /\ more.errno = "OK" /\ more.state \in Loose
    BY <1>3, <2>1 DEF Parsers
  <2> HIDE DEF more
  <2>3. CASE Fail(more, "INVALID_STATUS")
    BY <1>1, <1>2, <1>3, <2>2, <2>3, LooseSound, FailKeeps
  <2>4. CASE Go(more, 1) /\ Quiet
    BY <1>1, <1>3, <2>2, <2>4, QuietKeeps, PlainGo
  <2> QED BY <1>10, <2>3, <2>4
<1>11. CASE \/ Go([P EXCEPT !.state = "s_res_status_start"], 1) /\ Quiet
            \/ Reexecute([P EXCEPT !.state = "s_res_status_start"], 0) /\ Quiet
  BY <1>1, <1>2, <1>3, <1>11, MoveKeeps
<1> HIDE DEF first, more
<1> QED BY <1>4, <1>6, <1>7, <1>8, <1>9, <1>10, <1>11

\* The letter with which a string begins.
LEMMA OpenKeeps ==
    ASSUME ParserInv, phase = "parsing", p <= last, NEW f \in Marks, P.state \in Shut \/ P.state \in In(f),
           mark' = [mark EXCEPT ![f] = Marked(f)], ctx' = ctx,
           NEW q \in Parsers, Sound(q), q.errno = "OK", q.state \in In(f), q.state # "s_chunk_size_start",
           NEW k \in Nat, p + k <= last + 1, Go(q, k) \/ Reexecute(q, k), Still
    PROVE  ParserInv'
<1>1. MarksIn(mark', q.state)
  BY Counting, MarkedType, MarksOpen
<1>2. ctx' \in Works
  BY DEF ParserInv
<1> QED BY <1>1, <1>2, GoKeeps, ReexecuteKeeps

LEMMA StatusTextKeeps ==
    ASSUME ParserInv, StatusText
    PROVE  ParserInv'
<1>1. Still
  BY DEF StatusText
<1>2. /\ {"s_res_line_almost_done", "s_header_field_start", "s_res_status"} \subseteq Loose \cap States
      /\ "s_res_status" \in In("status") /\ "status" \in Marks
  BY PlainStates, PlainMeans, OtherStates, UrlStateSets DEF Loose, In, Marks
<1>3. CASE /\ At({"s_res_status_start"})
           /\ mark' = [mark EXCEPT !["status"] = Marked("status")]
           /\ LET q == [P EXCEPT !.state = "s_res_status"]
              IN  IF ch \in EOL THEN Reexecute(q, 0) ELSE Go(q, 1)
           /\ UNCHANGED <<ctx, heard>>
  <2> DEFINE q == [P EXCEPT !.state = "s_res_status"]
  <2>1. phase = "parsing" /\ p <= last /\ P \in Parsers /\ P.errno = "OK" /\ P.state \in Shut
    BY <1>3, Gated, PlainStates, UrlStateSets
  <2>2. q \in Parsers /\ q.errno = "OK" /\ q.state = "s_res_status"
    BY <1>2, <2>1, Moved
  <2>3. Reexecute(q, 0) \/ Go(q, 1)
    BY <1>3
  <2> HIDE DEF q
  <2>4. Sound(q) /\ q.state # "s_chunk_size_start" /\ q.state \in In("status")
    BY <1>2, <2>2, LooseSound
  <2>5. 0 \in Nat /\ 1 \in Nat /\ p + 0 <= last + 1 /\ p + 1 <= last + 1
    BY <2>1 DEF ParserInv, Placed
  <2> QED BY <1>1, <1>2, <1>3, <2>1, <2>2, <2>3, <2>4, <2>5, OpenKeeps
<1>4. CASE At({"s_res_status"}) /\ Go(P, 1) /\ Quiet
  <2>1. /\ phase = "parsing" /\ p <= last /\ P \in Parsers /\ P.errno = "OK" /\ Sound(P)
        /\ P.state = "s_res_status" /\ MarksIn(mark, P.state)
    BY <1>4, Gated
  <2>2. 1 \in Nat /\ p + 1 <= last + 1
    BY <2>1 DEF ParserInv, Placed
  <2>3. ctx' \in Works /\ mark' = mark
    BY <1>4, QuietKeeps
  <2> QED BY <1>1, <1>4, <2>1, <2>2, <2>3, GoKeeps
<1>5. CASE /\ At({"s_res_status"})
           /\ CallData("status", mark["status"], p - 1)
           /\ Go([P EXCEPT !.state = IF ch = "CR" THEN "s_res_line_almost_done"
                                     ELSE "s_header_field_start"], 1)
  <2> DEFINE s == IF ch = "CR" THEN "s_res_line_almost_done" ELSE "s_header_field_start"
             q == [P EXCEPT !.state = s]
  <2>1. phase = "parsing" /\ p <= last /\ P \in Parsers /\ P.errno = "OK" /\ P.state \in In("status")
    BY <1>2, <1>5, Gated
  <2>2. s \in Loose /\ s \in States
    BY <1>2
  <2> HIDE DEF s
  <2>3. q \in Parsers /\ q.errno = "OK" /\ q.state \in Loose
    BY <2>1, <2>2, Moved
  <2>4. Go(q, 1) /\ CallData("status", mark["status"], p - 1)
    BY <1>5 DEF s
  <2>5. mark["status"] \in Nat
    BY <1>2 DEF ParserInv
  <2> HIDE DEF q
  <2> QED BY <1>1, <1>2, <2>1, <2>3, <2>4, <2>5, HandKeeps
<1>6. CASE At({"s_res_line_almost_done"}) /\ Go([P EXCEPT !.state = "s_header_field_start"], 1) /\ Quiet
  <2>1. phase = "parsing" /\ p <= last /\ P.state \in Shut
    BY <1>6, Gated, PlainStates, UrlStateSets
  <2> QED BY <1>1, <1>2, <1>6, <2>1, MoveKeeps
<1> QED BY <1>3, <1>4, <1>5, <1>6 DEF StatusText

-----------------------------------------------------------------------------
(* The headers. *)

LEMMA HeaderFieldStartKeeps ==
    ASSUME ParserInv, HeaderFieldStart
    PROVE  ParserInv'
<1>1. /\ phase = "parsing" /\ p <= last /\ P \in Parsers /\ P.errno = "OK" /\ P.state \in Shut
  BY Gated, PlainStates, UrlStateSets DEF HeaderFieldStart
<1>2. Still
  BY DEF HeaderFieldStart
<1> DEFINE q == [P EXCEPT !.hstate = Look(NameFirst, ch, "h_general"), !.state = "s_header_field"]
<1>3. \/ Go([P EXCEPT !.state = "s_headers_almost_done"], 1) /\ Quiet
      \/ Reexecute([P EXCEPT !.state = "s_headers_almost_done"], 0) /\ Quiet
      \/ Fail(P, "INVALID_HEADER_TOKEN")
      \/ /\ mark' = [mark EXCEPT !["header_field"] = Marked("header_field")]
         /\ Go(q, 1) /\ ctx' = ctx
  BY DEF HeaderFieldStart
<1>4. CASE \/ Go([P EXCEPT !.state = "s_headers_almost_done"], 1) /\ Quiet
           \/ Reexecute([P EXCEPT !.state = "s_headers_almost_done"], 0) /\ Quiet
  <2>1. "s_headers_almost_done" \in Loose
    BY PlainStates, UrlStateSets
  <2> QED BY <1>1, <1>2, <1>4, <2>1, MoveKeeps
<1>5. CASE Fail(P, "INVALID_HEADER_TOKEN")
  BY <1>1, <1>2, <1>5, ErrorNames, FailsKeeps
<1>6. CASE /\ mark' = [mark EXCEPT !["header_field"] = Marked("header_field")]
           /\ Go(q, 1) /\ ctx' = ctx
  <2>1. /\ "s_header_field" \in In("header_field") /\ "header_field" \in Marks
        /\ "s_header_field" \in Loose /\ "s_header_field" \in States
    BY OtherStates DEF In, Marks, Loose
  <2>2. Look(NameFirst, ch, "h_general") \in HStates
    <3>1. "h_general" \in Names /\ Names \subseteq HStates
      BY DEF Names, NameStates, HStates
    <3> QED BY <3>1, NamesInto, LookIn
  <2>3. q \in Parsers /\ q.errno = "OK" /\ q.state = "s_header_field"
    BY <1>1, <2>1, <2>2 DEF Parsers
  <2> HIDE DEF q
  <2>4. Sound(q) /\ q.state # "s_chunk_size_start"
    BY <2>1, <2>3, LooseSound
  <2>5. 1 \in Nat /\ p + 1 <= last + 1
    BY <1>1 DEF ParserInv, Placed
  <2> QED BY <1>1, <1>2, <1>6, <2>1, <2>3, <2>4, <2>5, OpenKeeps
<1> HIDE DEF q
<1> QED BY <1>3, <1>4, <1>5, <1>6

LEMMA RunToIn ==
    ASSUME ParserInv, p <= last, NEW stops
    PROVE  /\ RunTo(stops) \in Nat /\ p <= RunTo(stops) /\ RunTo(stops) <= last + 1
           /\ RunTo(stops) - p \in Nat /\ RunTo(stops) - 1 \in Int /\ RunTo(stops) - 1 <= last
           /\ p + (RunTo(stops) - p) = RunTo(stops)
           /\ RunTo(stops) <= last => RunTo(stops) - p + 1 \in Nat /\ p + (RunTo(stops) - p + 1) <= last + 1
<1> DEFINE s == {i \in p .. last : stream.bytes[i] \in stops}
           stop == RunTo(stops)
<1>1. p \in Nat /\ last \in Nat
  BY DEF ParserInv, Placed
<1>2. stop = IF s = {} THEN last + 1 ELSE Min(s)
  BY DEF RunTo
<1>3. s \in SUBSET Nat /\ \A i \in s : p <= i /\ i <= last
  BY <1>1
<1> HIDE DEF s, stop
<1>4. stop \in Nat /\ p <= stop /\ stop <= last + 1
  <2>1. CASE s = {}
    BY <1>1, <1>2, <2>1
  <2>2. CASE s # {}
    <3>1. Min(s) \in s
      BY <1>3, <2>2, LeastOf
    <3> QED BY <1>1, <1>2, <1>3, <2>2, <3>1
  <2> QED BY <2>1, <2>2
<1>5. stop - p \in Nat /\ stop - 1 \in Int /\ stop - 1 <= last /\ p + (stop - p) = stop
  BY <1>1, <1>4
<1>6. stop <= last => stop - p + 1 \in Nat /\ p + (stop - p + 1) <= last + 1
  BY <1>1, <1>4
<1> QED BY <1>4, <1>5, <1>6 DEF stop

\* So does the loop over a header's value, whichever of its ends it meets.
LEMMA ValueEndIn ==
    ASSUME ParserInv, p <= last, MaxHeader \in Nat
    PROVE  /\ ValueEnd \in Nat /\ p <= ValueEnd /\ ValueEnd <= last + 1
           /\ ValueEnd - p \in Nat /\ ValueEnd - 1 \in Int /\ ValueEnd - 1 <= last
           /\ p + (ValueEnd - p) = ValueEnd
           /\ ValueEnd <= last => ValueEnd - p + 1 \in Nat /\ p + (ValueEnd - p + 1) <= last + 1
<1> DEFINE eol == RunTo(EOL)
           jumps(i) == /\ i >= p
                       /\ FoldLeft(ValueNext, P, SubSeq(stream.bytes, p, i - 1)).hstate = "h_general"
           bad == {i \in p .. eol - 1 : stream.bytes[i] \in Control /\ ~ jumps(i - 1)}
           far == \E i \in p .. eol - MaxHeader : jumps(i)
           stop == ValueEnd
<1>1. p \in Nat /\ last \in Nat
  BY DEF ParserInv, Placed
<1>2. eol \in Nat /\ p <= eol /\ eol <= last + 1
  BY RunToIn
<1>3. stop = CASE bad # {} -> Min(bad)
               [] bad = {} /\ far -> last + 1
               [] OTHER -> eol
  BY DEF ValueEnd
<1>4. bad \subseteq p .. eol - 1
  OBVIOUS
<1> HIDE DEF eol, bad, far, stop
<1>5. stop \in Nat /\ p <= stop /\ stop <= last + 1
  <2>1. CASE bad # {}
    <3>1. bad \in SUBSET Nat
      BY <1>1, <1>2, <1>4
    <3>2. Min(bad) \in bad
      BY <2>1, <3>1, LeastOf
    <3>3. stop = Min(bad)
      BY <1>3, <2>1
    <3>4. stop \in p .. eol - 1
      BY <1>4, <3>2, <3>3
    <3> QED BY <1>1, <1>2, <3>4
  <2>2. CASE bad = {} /\ far
    <3>1. stop = last + 1
      BY <1>3, <2>2
    <3> QED BY <1>1, <3>1
  <2>3. CASE bad = {} /\ ~ far
    <3>1. stop = eol
      BY <1>3, <2>3
    <3> QED BY <1>2, <3>1
  <2> QED BY <2>1, <2>2, <2>3
<1>6. stop - p \in Nat /\ stop - 1 \in Int /\ stop - 1 <= last /\ p + (stop - p) = stop
  BY <1>1, <1>5
<1>7. stop <= last => stop - p + 1 \in Nat /\ p + (stop - p + 1) <= last + 1
  BY <1>1, <1>5
<1> QED BY <1>5, <1>6, <1>7 DEF stop

LEMMA BytesAhead ==
    ASSUME ParserInv, NEW j \in Int, j <= last
    PROVE  SubSeq(stream.bytes, p, j) \in Seq(Texts)
<1>1. stream.bytes \in Seq(Texts) /\ p \in Nat \ {0} /\ Len(stream.bytes) \in Nat /\ last <= Len(stream.bytes)
      /\ last \in Nat
  BY StreamType DEF ParserInv, Placed
<1>2. j <= Len(stream.bytes)
  BY <1>1
<1> QED BY <1>1, <1>2, Cut


\* The letter or the run of letters with which a string ends.
LEMMA CloseKeeps ==
    ASSUME ParserInv, phase = "parsing", p <= last, NEW f \in Marks, P.state \in Shut \/ P.state \in In(f),
           NEW m \in Nat, NEW j \in Int, j <= last, CallData(f, m, j),
           NEW q \in Parsers, Sound(q), q.errno = "OK", q.state # "s_chunk_size_start",
           NEW k \in Nat, p + k <= last + 1, Go(q, k) \/ Reexecute(q, k), Still
    PROVE  ParserInv'
<1>1. ctx' \in Works /\ mark' = [mark EXCEPT ![f] = 0]
  BY CallDataKeeps
<1>2. MarksIn(mark', q.state)
  BY <1>1, Counting, MarksClose
<1> QED BY <1>1, <1>2, GoKeeps, ReexecuteKeeps

LEMMA HeaderFieldKeeps ==
    ASSUME ParserInv, HeaderField
    PROVE  ParserInv'
<1> DEFINE stop == RunTo(NotToken)
           name == NameRest(P.hstate, SubSeq(stream.bytes, p, stop - 1))
           q == [P EXCEPT !.nread = P.nread + stop - p, !.hstate = name]
           r == [q EXCEPT !.state = "s_header_value_discard_ws"]
<1>1. /\ phase = "parsing" /\ p <= last /\ P \in Parsers /\ Sound(P) /\ P.errno = "OK"
      /\ P.state = "s_header_field" /\ MarksIn(mark, P.state)
  BY Gated DEF HeaderField
<1>2. Still
  BY DEF HeaderField
<1>3. \/ Fail(q, "HEADER_OVERFLOW") \/ Fail(q, "INVALID_HEADER_TOKEN")
      \/ Go(q, stop - p) /\ Quiet
      \/ /\ stop <= last /\ CallData("header_field", mark["header_field"], stop - 1)
         /\ Go(r, stop - p + 1)
  BY DEF HeaderField, NameRest
<1>4. /\ stop \in Nat /\ p <= stop /\ stop <= last + 1
      /\ stop - p \in Nat /\ stop - 1 \in Int /\ stop - 1 <= last
      /\ p + (stop - p) = stop
      /\ stop <= last => stop - p + 1 \in Nat /\ p + (stop - p + 1) <= last + 1
  BY <1>1, RunToIn
<1>5. /\ "header_field" \in Marks /\ "s_header_field" \in In("header_field")
      /\ "s_header_field" \in Loose /\ "s_header_value_discard_ws" \in Loose
      /\ "s_header_value_discard_ws" \in States
      /\ {"HEADER_OVERFLOW", "INVALID_HEADER_TOKEN"} \subseteq Errors \ {"OK", "PAUSED"}
  BY PlainStates, PlainMeans, UrlStateSets, ErrorNames DEF Marks, In, Loose
<1>6. name \in HStates
  <2> DEFINE s == SubSeq(stream.bytes, p, stop - 1)
  <2>1. s \in Seq(Texts)
    BY <1>4, BytesAhead
  <2>2. P.hstate \in HStates
    BY <1>1 DEF Parsers
  <2> HIDE DEF s
  <2>4. PICK h \in [0 .. Len(s) -> HStates] : h[Len(s)] = NameRest(P.hstate, s)
    BY <2>1, <2>2, NameFold
  <2>5. Len(s) \in 0 .. Len(s)
    BY <2>1
  <2> QED BY <2>4, <2>5 DEF s
<1> HIDE DEF stop, name
<1>7. P.nread + stop - p \in Nat
  <2>1. P.nread \in Nat /\ p \in Nat
    BY <1>1 DEF ParserInv, Placed, Parsers
  <2> QED BY <1>4, <2>1
<1>8. q \in Parsers /\ q.errno = "OK" /\ q.state = "s_header_field"
  BY <1>1, <1>6, <1>7 DEF Parsers
<1>9. r \in Parsers /\ r.errno = "OK" /\ r.state = "s_header_value_discard_ws"
  BY <1>5, <1>8, Moved
<1> HIDE DEF q, r
<1>10. Sound(q) /\ Sound(r) /\ q.state # "s_chunk_size_start" /\ r.state # "s_chunk_size_start"
  BY <1>5, <1>8, <1>9, LooseSound
<1>11. CASE Fail(q, "HEADER_OVERFLOW") \/ Fail(q, "INVALID_HEADER_TOKEN")
  BY <1>1, <1>2, <1>5, <1>8, <1>10, <1>11, FailKeeps
<1>12. CASE Go(q, stop - p) /\ Quiet
  BY <1>1, <1>2, <1>4, <1>8, <1>10, <1>12, QuietKeeps, GoKeeps
<1>13. CASE /\ stop <= last /\ CallData("header_field", mark["header_field"], stop - 1)
            /\ Go(r, stop - p + 1)
  <2>1. mark["header_field"] \in Nat
    BY <1>5 DEF ParserInv
  <2> QED BY <1>1, <1>2, <1>4, <1>5, <1>9, <1>10, <1>13, <2>1, CloseKeeps
<1> QED BY <1>3, <1>11, <1>12, <1>13

\* The first letter of a value settles what is looked for in it.
LEMMA ValueFirstType ==
    ASSUME NEW q \in Parsers, q.errno = "OK", NEW c
    PROVE  LET v == ValueFirst(q, c)
           IN  /\ v \in Parsers /\ v.state = q.state /\ v.hstate \in ValueHStates
               /\ v.errno \in {"OK", "INVALID_CONTENT_LENGTH", "UNEXPECTED_CONTENT_LENGTH"}
<1> DEFINE v == ValueFirst(q, c)
           E == {"OK", "INVALID_CONTENT_LENGTH", "UNEXPECTED_CONTENT_LENGTH"}
\* It is enough to say what the letter changes.
<1>1. ASSUME NEW h \in ValueHStates, v = [q EXCEPT !.hstate = h]
      PROVE  v \in Parsers /\ v.state = q.state /\ v.hstate \in ValueHStates /\ v.errno \in E
  <2>1. h \in HStates
    BY DEF ValueHStates, HStates, NameStates, KnownNames
  <2> HIDE DEF v
  <2> QED BY <1>1, <2>1 DEF Parsers
<1>2. ASSUME NEW h \in ValueHStates, NEW f \in Flags, v = [q EXCEPT !.flags = @ \cup {f}, !.hstate = h]
      PROVE  v \in Parsers /\ v.state = q.state /\ v.hstate \in ValueHStates /\ v.errno \in E
  <2>1. h \in HStates
    BY DEF ValueHStates, HStates, NameStates, KnownNames
  <2> HIDE DEF v
  <2> QED BY <1>2, <2>1 DEF Parsers
<1>3. /\ {"h_general", "h_content_length", "h_content_length_num", "h_matching_transfer_encoding_chunked",
          "h_matching_connection_token", "h_matching_connection_token_start"} \subseteq ValueHStates
      /\ "F_UPGRADE" \in Flags /\ "F_CONTENTLENGTH" \in Flags /\ ValueStates \subseteq ValueHStates
      /\ "h_matching_connection_token" \in ValueStates
  BY DEF ValueHStates, ValueStates, Flags
<1>4. CASE q.hstate = "h_upgrade"
  <2>1. v = [q EXCEPT !.flags = @ \cup {"F_UPGRADE"}, !.hstate = "h_general"]
    BY <1>4 DEF ValueFirst
  <2> QED BY <1>2, <1>3, <2>1
<1>5. CASE q.hstate = "h_transfer_encoding"
  <2>1. v = [q EXCEPT !.hstate = IF c = "c" THEN "h_matching_transfer_encoding_chunked" ELSE "h_general"]
    BY <1>5 DEF ValueFirst
  <2> QED BY <1>1, <1>3, <2>1
<1>6. CASE q.hstate = "h_content_length"
  <2>1. v = IF c \notin DOMAIN Digits THEN [q EXCEPT !.errno = "INVALID_CONTENT_LENGTH"]
            ELSE IF "F_CONTENTLENGTH" \in q.flags
            THEN [q EXCEPT !.errno = "UNEXPECTED_CONTENT_LENGTH"]
            ELSE [q EXCEPT !.flags = @ \cup {"F_CONTENTLENGTH"}, !.length = Digits[c],
                           !.hstate = "h_content_length_num"]
    BY <1>6 DEF ValueFirst
  <2>2. ASSUME NEW e \in {"INVALID_CONTENT_LENGTH", "UNEXPECTED_CONTENT_LENGTH"}, v = [q EXCEPT !.errno = e]
        PROVE  v \in Parsers /\ v.state = q.state /\ v.hstate \in ValueHStates /\ v.errno \in E
    <3>1. e \in Errors /\ q.hstate \in ValueHStates
      BY <1>3, <1>6, ErrorNames
    <3> HIDE DEF v
    <3> QED BY <2>2, <3>1 DEF Parsers
  <2>3. ASSUME c \in DOMAIN Digits, v = [q EXCEPT !.flags = @ \cup {"F_CONTENTLENGTH"}, !.length = Digits[c],
                                                 !.hstate = "h_content_length_num"]
        PROVE  v \in Parsers /\ v.state = q.state /\ v.hstate \in ValueHStates /\ v.errno \in E
    <3>1. Digits[c] \in 0 .. 4 /\ ULLMax \in Nat /\ ULLMax > 16
      BY <2>3, DigitsInto, HttpAssumption DEF Into
    <3>2. Digits[c] \in 0 .. ULLMax
      BY <3>1
    <3>3. "h_content_length_num" \in HStates
      BY DEF HStates, ValueStates
    <3> HIDE DEF v
    <3> QED BY <1>3, <2>3, <3>2, <3>3 DEF Parsers
  <2> DEFINE e1 == [q EXCEPT !.errno = "INVALID_CONTENT_LENGTH"]
             e2 == [q EXCEPT !.errno = "UNEXPECTED_CONTENT_LENGTH"]
             d == [q EXCEPT !.flags = @ \cup {"F_CONTENTLENGTH"}, !.length = Digits[c],
                            !.hstate = "h_content_length_num"]
  <2>4. v = e1 \/ v = e2 \/ (c \in DOMAIN Digits /\ v = d)
    BY <2>1
  <2>5. CASE v = e1
    BY <2>2, <2>5
  <2>6. CASE v = e2
    BY <2>2, <2>6
  <2>7. CASE c \in DOMAIN Digits /\ v = d
    BY <2>3, <2>7
  <2> QED BY <2>4, <2>5, <2>6, <2>7
<1>7. CASE q.hstate = "h_connection"
  <2>1. v = [q EXCEPT !.hstate = Look(TokenFirst, c, "h_matching_connection_token")]
    BY <1>7 DEF ValueFirst
  <2>2. Look(TokenFirst, c, "h_matching_connection_token") \in ValueHStates
    BY <1>3, TokensInto, LookIn
  <2> QED BY <1>1, <2>1, <2>2
<1>8. CASE q.hstate = "h_matching_connection_token_start"
  <2>1. v = q
    BY <1>8 DEF ValueFirst
  <2> QED BY <1>3, <1>8, <2>1
<1>9. CASE q.hstate \notin {"h_upgrade", "h_transfer_encoding", "h_content_length", "h_connection",
                            "h_matching_connection_token_start"}
  <2>1. v = [q EXCEPT !.hstate = "h_general"]
    BY <1>9 DEF ValueFirst
  <2> QED BY <1>1, <1>3, <2>1
<1> QED BY <1>4, <1>5, <1>6, <1>7, <1>8, <1>9

LEMMA HeaderValueStartKeeps ==
    ASSUME ParserInv, HeaderValueStart
    PROVE  ParserInv'
<1>1. Still
  BY DEF HeaderValueStart
<1>2. /\ {"s_header_value_discard_ws", "s_header_value_discard_ws_almost_done",
          "s_header_value_discard_lws", "s_header_value_start"} \subseteq Plain
  BY PlainStates
<1>3. CASE /\ At({"s_header_value_discard_ws"})
           /\ \/ ch = "SP" /\ Go(P, 1)
              \/ ch = "CR" /\ Go([P EXCEPT !.state = "s_header_value_discard_ws_almost_done"], 1)
              \/ ch = "LF" /\ Go([P EXCEPT !.state = "s_header_value_discard_lws"], 1)
           /\ Quiet
  <2>1. phase = "parsing" /\ p <= last /\ P.state \in Plain /\ P.state \in Shut
    BY <1>2, <1>3, Gated, UrlStateSets
  <2> QED BY <1>1, <1>2, <1>3, <2>1, UrlStateSets, StayKeeps, MoveKeeps
<1>4. CASE /\ At({"s_header_value_discard_ws", "s_header_value_start"})
           /\ LET q == ValueFirst([P EXCEPT !.state = "s_header_value"], ch)
              IN  IF q.errno # "OK" THEN Fail(q, q.errno)
                  ELSE /\ mark' = [mark EXCEPT !["header_value"] = Marked("header_value")]
                       /\ Go(q, 1) /\ UNCHANGED <<ctx, heard>>
  <2> DEFINE r == [P EXCEPT !.state = "s_header_value"]
             q == ValueFirst(r, ch)
  <2>1. phase = "parsing" /\ p <= last /\ P \in Parsers /\ P.errno = "OK" /\ P.state \in Shut
    BY <1>2, <1>4, Gated, UrlStateSets
  <2>2. r \in Parsers /\ r.state = "s_header_value" /\ r.errno = "OK"
    BY <2>1, OtherStates, Moved
  <2>3. IF q.errno # "OK" THEN Fail(q, q.errno)
        ELSE /\ mark' = [mark EXCEPT !["header_value"] = Marked("header_value")]
             /\ Go(q, 1) /\ ctx' = ctx
    BY <1>4
  <2> HIDE DEF r
  <2>4. /\ q \in Parsers /\ q.state = "s_header_value" /\ q.hstate \in ValueHStates
        /\ q.errno \in {"OK", "INVALID_CONTENT_LENGTH", "UNEXPECTED_CONTENT_LENGTH"}
    BY <2>2, ValueFirstType
  <2> HIDE DEF q
  <2>5. Sound(q) /\ q.state # "s_chunk_size_start"
    BY <2>4, OtherStates DEF Sound
  <2>6. CASE q.errno # "OK"
    BY <1>1, <2>1, <2>3, <2>4, <2>5, <2>6, ErrorNames, FailKeeps
  <2>7. CASE q.errno = "OK"
    <3>1. "header_value" \in Marks /\ q.state \in In("header_value")
      BY <2>4 DEF Marks, In
    <3>2. 1 \in Nat /\ p + 1 <= last + 1
      BY <2>1 DEF ParserInv, Placed
    <3> QED BY <1>1, <2>1, <2>3, <2>4, <2>5, <2>7, <3>1, <3>2, OpenKeeps
  <2> QED BY <2>6, <2>7
<1> QED BY <1>3, <1>4 DEF HeaderValueStart

\* The letters of a value that are in the read.
LEMMA ValueIn ==
    ASSUME ParserInv, phase = "parsing", p <= last, P.state = "s_header_value", NEW j \in Int, j <= last
    PROVE  FoldLeft(ValueNext, P, SubSeq(stream.bytes, p, j)) \in Values(P)
<1> DEFINE s == SubSeq(stream.bytes, p, j)
<1>1. s \in Seq(Texts)
  BY BytesAhead
<1>2. P \in Values(P)
  BY Counting DEF Sound, Values
<1> HIDE DEF s
<1>3. PICK h \in [0 .. Len(s) -> Values(P)] : h[Len(s)] = FoldLeft(ValueNext, P, s)
  BY <1>1, <1>2, ValueFold
<1>4. Len(s) \in 0 .. Len(s)
  BY <1>1
<1> QED BY <1>3, <1>4 DEF s

LEMMA HeaderValueKeeps ==
    ASSUME ParserInv, HeaderValue
    PROVE  ParserInv'
<1> DEFINE stop == ValueEnd
           bad == stop <= last /\ stream.bytes[stop] \in Control
           cr == stop <= last /\ stream.bytes[stop] = "CR"
           v == FoldLeft(ValueNext, P, SubSeq(stream.bytes, p, stop - 1))
           q == [v EXCEPT !.nread = v.nread + stop - p]
           over == q.nread > MaxHeader
           end == [q EXCEPT !.state = "s_header_almost_done"]
           long == [end EXCEPT !.errno = "HEADER_OVERFLOW"]
           kept == [v EXCEPT !.hstate = P.hstate]
<1>1. /\ phase = "parsing" /\ p <= last /\ P \in Parsers /\ P.errno = "OK"
      /\ P.state = "s_header_value" /\ MarksIn(mark, P.state)
  BY Gated DEF HeaderValue
<1>2. Still
  BY DEF HeaderValue
<1>3. \/ v.errno # "OK" /\ Fail(v, v.errno)
      \/ v.errno = "OK" /\ Fail(kept, "INVALID_HEADER_TOKEN")
      \/ v.errno = "OK" /\ Fail(q, "HEADER_OVERFLOW")
      \/ v.errno = "OK" /\ Go(q, stop - p) /\ Quiet
      \/ /\ v.errno = "OK" /\ stop <= last
         /\ CallData("header_value", mark["header_value"], stop - 1)
         /\ CASE over -> Return(long, 0)
              [] cr /\ ~ over -> Go(end, stop - p + 1)
              [] OTHER -> Reexecute(end, stop - p)
  BY DEF HeaderValue
<1>4. /\ stop \in Nat /\ p <= stop /\ stop <= last + 1
      /\ stop - p \in Nat /\ stop - 1 \in Int /\ stop - 1 <= last
      /\ p + (stop - p) = stop
      /\ stop <= last => stop - p + 1 \in Nat /\ p + (stop - p + 1) <= last + 1
  BY <1>1, ValueEndIn, HttpAssumption
<1>5. /\ "header_value" \in Marks /\ "s_header_value" \in In("header_value")
      /\ "s_header_almost_done" \in Loose /\ "s_header_almost_done" \in States
      /\ {"HEADER_OVERFLOW", "INVALID_HEADER_TOKEN"} \subseteq Errors \ {"OK", "PAUSED"}
  BY PlainStates, PlainMeans, UrlStateSets, ErrorNames DEF Marks, In
<1>6. v \in Values(P)
  BY <1>1, <1>4, ValueIn
<1> HIDE DEF v
<1>7. v \in Parsers /\ v.state = "s_header_value" /\ v.hstate \in ValueHStates /\ v.errno \in Errors \ {"PAUSED"}
  BY <1>1, <1>6 DEF Values, Parsers
<1>8. v.nread + stop - p \in Nat
  <2>1. v.nread \in Nat /\ p \in Nat
    BY <1>7 DEF ParserInv, Placed, Parsers
  <2> HIDE DEF stop
  <2> QED BY <1>4, <2>1
<1> HIDE DEF stop
<1>9. /\ q \in Parsers /\ q.state = "s_header_value" /\ q.hstate \in ValueHStates
      /\ q.errno = v.errno
  BY <1>7, <1>8 DEF Parsers
<1>18. /\ kept \in Parsers /\ kept.state = "s_header_value" /\ kept.errno = v.errno
       /\ kept.hstate \in ValueHStates
  <2>1. P.hstate \in ValueHStates /\ P.hstate \in HStates
    BY <1>1, Counting DEF Sound, Parsers
  <2> QED BY <1>7, <2>1 DEF Parsers
<1>19. Sound(kept)
  BY <1>1, <1>18, OtherStates DEF Sound
<1> HIDE DEF q, kept
<1>10. Sound(v) /\ Sound(q)
  BY <1>7, <1>9, OtherStates DEF Sound
<1>11. end \in Parsers /\ end.errno = v.errno /\ end.state = "s_header_almost_done"
  BY <1>5, <1>9, Moved
<1> HIDE DEF end
<1>12. Sound(end) /\ end.state # "s_chunk_size_start"
  BY <1>5, <1>11, LooseSound
<1>13. long \in Parsers /\ Sound(long) /\ long.errno = "HEADER_OVERFLOW"
  BY <1>5, <1>11, <1>12, Failed
<1> HIDE DEF long
<1>14. CASE v.errno # "OK" /\ Fail(v, v.errno)
  BY <1>1, <1>2, <1>7, <1>10, <1>14, FailKeeps
<1>15. CASE v.errno = "OK" /\ Fail(q, "HEADER_OVERFLOW")
  BY <1>1, <1>2, <1>5, <1>9, <1>10, <1>15, FailKeeps
<1>20. CASE v.errno = "OK" /\ Fail(kept, "INVALID_HEADER_TOKEN")
  BY <1>1, <1>2, <1>5, <1>18, <1>19, <1>20, FailKeeps
<1>16. CASE v.errno = "OK" /\ Go(q, stop - p) /\ Quiet
  BY <1>1, <1>2, <1>4, <1>9, <1>10, <1>16, QuietKeeps, GoKeeps
<1>17. CASE /\ v.errno = "OK" /\ stop <= last
            /\ CallData("header_value", mark["header_value"], stop - 1)
            /\ (Return(long, 0) \/ Go(end, stop - p + 1) \/ Reexecute(end, stop - p))
  <2>1. mark["header_value"] \in Nat
    BY <1>5 DEF ParserInv
  <2>2. CASE Return(long, 0)
    <3>1. Healthy(long, FALSE)
      BY <1>13 DEF Healthy
    <3>2. ctx' \in Works /\ mark' \in [Marks -> Nat]
      BY <1>4, <1>5, <1>17, <2>1, CallDataKeeps
    <3> QED BY <1>1, <1>2, <1>13, <2>2, <3>1, <3>2, ReturnKeeps
  <2>3. CASE Go(end, stop - p + 1)
    BY <1>1, <1>2, <1>4, <1>5, <1>11, <1>12, <1>17, <2>1, <2>3, CloseKeeps
  <2>4. CASE Reexecute(end, stop - p)
    BY <1>1, <1>2, <1>4, <1>5, <1>11, <1>12, <1>17, <2>1, <2>4, CloseKeeps
  <2> QED BY <1>17, <2>2, <2>3, <2>4
<1> HIDE DEF cr, over, bad
<1> QED BY <1>3, <1>14, <1>15, <1>16, <1>17, <1>20

LEMMA FinishedType ==
    ASSUME ParserInv, phase = "parsing", p <= last
    PROVE  /\ Finished(P) \in Parsers /\ Finished(P).errno = "OK"
           /\ Finished(P).state = "s_header_field_start" /\ Finished(P).state \in Loose
<1> DEFINE f == IF P.hstate \in DOMAIN FlagOf THEN {FlagOf[P.hstate]} ELSE {}
<1>1. f \subseteq Flags
  BY TokensInto DEF Into
<1>2. Finished(P) = [P EXCEPT !.flags = @ \cup f, !.state = "s_header_field_start"]
  BY DEF Finished
<1>3. P \in Parsers /\ P.errno = "OK"
  BY Counting
<1>4. "s_header_field_start" \in States /\ "s_header_field_start" \in Loose
  BY PlainStates, PlainMeans, UrlStateSets
<1> HIDE DEF f
<1>5. P.flags \cup f \in SUBSET Flags
  BY <1>1, <1>3 DEF Parsers
<1>6. PICK q \in Parsers, g \in SUBSET Flags, s \in States :
         /\ q = P /\ s = "s_header_field_start"
         /\ Finished(P) = [q EXCEPT !.flags = g, !.state = s]
  BY <1>2, <1>3, <1>4, <1>5
<1>7. Finished(P) \in Parsers /\ Finished(P).errno = q.errno /\ Finished(P).state = s
  BY <1>6 DEF Parsers
<1> QED BY <1>3, <1>4, <1>6, <1>7

LEMMA HeaderEndKeeps ==
    ASSUME ParserInv, HeaderEnd
    PROVE  ParserInv'
<1>1. Still
  BY DEF HeaderEnd
<1>2. /\ {"s_header_almost_done", "s_header_value_lws", "s_header_value_discard_ws_almost_done",
          "s_header_value_discard_lws", "s_header_value_start", "s_header_value_discard_ws"} \subseteq Plain
      /\ "LF_EXPECTED" \in Errors \ {"OK", "PAUSED"} /\ "header_value" \in Marks
  BY PlainStates, ErrorNames DEF Marks
<1>3. phase = "parsing" /\ p <= last /\ P.state \in Plain /\ P.state \in Shut
  <2>1. \/ At({"s_header_almost_done"}) \/ At({"s_header_value_lws"})
        \/ At({"s_header_value_discard_ws_almost_done"}) \/ At({"s_header_value_discard_lws"})
    BY DEF HeaderEnd
  <2> QED BY <1>2, <2>1, Gated, UrlStateSets
<1>4. \/ Go([P EXCEPT !.state = "s_header_value_lws"], 1) /\ Quiet
      \/ Fail(P, "LF_EXPECTED")
      \/ Reexecute([P EXCEPT !.state = "s_header_value_start"], 0) /\ Quiet
      \/ Reexecute(Finished(P), 0) /\ Quiet
      \/ Go([P EXCEPT !.state = "s_header_value_discard_lws"], 1) /\ Quiet
      \/ Go([P EXCEPT !.state = "s_header_value_discard_ws"], 1) /\ Quiet
      \/ /\ CallData("header_value", Marked("header_value"), p - 1)
         /\ Reexecute(Finished(P), 0)
  BY DEF HeaderEnd
<1>5. CASE \/ Go([P EXCEPT !.state = "s_header_value_lws"], 1) /\ Quiet
           \/ Reexecute([P EXCEPT !.state = "s_header_value_start"], 0) /\ Quiet
           \/ Go([P EXCEPT !.state = "s_header_value_discard_lws"], 1) /\ Quiet
           \/ Go([P EXCEPT !.state = "s_header_value_discard_ws"], 1) /\ Quiet
  BY <1>1, <1>2, <1>3, <1>5, UrlStateSets, MoveKeeps
<1>6. CASE Fail(P, "LF_EXPECTED")
  BY <1>1, <1>2, <1>3, <1>6, FailsKeeps
<1>7. CASE Reexecute(Finished(P), 0) /\ Quiet
  BY <1>1, <1>3, <1>7, FinishedType, QuietKeeps, PlainGo
<1>8. CASE /\ CallData("header_value", Marked("header_value"), p - 1)
           /\ Reexecute(Finished(P), 0)
  BY <1>1, <1>2, <1>3, <1>8, FinishedType, MarkedType, HandKeeps
<1> QED BY <1>4, <1>5, <1>6, <1>7, <1>8

LEMMA HeadersAlmostDoneKeeps ==
    ASSUME ParserInv, HeadersAlmostDone
    PROVE  ParserInv'
<1> DEFINE switching == {"F_UPGRADE", "F_CONNECTION_UPGRADE"} \subseteq P.flags
           u == IF switching THEN P.type = "REQUEST" \/ P.status = 101 ELSE P.method = "CONNECT"
           q == [P EXCEPT !.state = "s_headers_done", !.upgrade = u]
<1>1. /\ phase = "parsing" /\ p <= last /\ P \in Parsers /\ P.errno = "OK" /\ P.state \in Shut
  BY Gated, PlainStates, UrlStateSets DEF HeadersAlmostDone
<1>2. Still
  BY DEF HeadersAlmostDone
<1>3. \/ Reexecute([P EXCEPT !.state = "s_message_done"], 0) /\ Quiet
      \/ Fail(P, "UNEXPECTED_CONTENT_LENGTH")
      \/ Reexecute(q, 0) /\ mark' = mark /\ ctx' = ctx
  BY DEF HeadersAlmostDone
<1>4. {"s_headers_done", "s_message_done"} \subseteq Loose \cap States
  BY PlainStates, PlainMeans, UrlStateSets
<1>5. CASE Reexecute([P EXCEPT !.state = "s_message_done"], 0) /\ Quiet
  BY <1>1, <1>2, <1>4, <1>5, MoveKeeps
<1>6. CASE Fail(P, "UNEXPECTED_CONTENT_LENGTH")
  BY <1>1, <1>2, <1>6, ErrorNames, FailsKeeps
<1>7. CASE Reexecute(q, 0) /\ mark' = mark /\ ctx' = ctx
  <2>1. u \in BOOLEAN
    OBVIOUS
  <2> HIDE DEF u
  <2>2. q \in Parsers /\ q.errno = "OK" /\ q.state \in Loose
    BY <1>1, <1>4, <2>1 DEF Parsers
  <2>3. ctx' \in Works
    BY <1>7 DEF ParserInv
  <2> HIDE DEF q
  <2> QED BY <1>1, <1>2, <1>7, <2>2, <2>3, PlainGo
<1> HIDE DEF q
<1> QED BY <1>3, <1>5, <1>6, <1>7

LEMMA HeadersDoneKeeps ==
    ASSUME ParserInv, HeadersDone
    PROVE  ParserInv'
<1> DEFINE q == AfterHeaders
           next == [q EXCEPT !.state = start_state(q)]
           chunked == "F_CHUNKED" \in q.flags
           hasBody == chunked \/ q.length \notin {0, ULLMax}
           sized == [q EXCEPT !.state = "s_chunk_size_start"]
           known == [q EXCEPT !.state = "s_body_identity"]
           rest == [q EXCEPT !.state = "s_body_identity_eof"]
<1>1. /\ phase = "parsing" /\ p <= last /\ P \in Parsers /\ P.errno = "OK" /\ P.state \in Plain /\ P.state \in Shut
      /\ MarksIn(mark, P.state)
  BY Gated, PlainStates, UrlStateSets DEF HeadersDone
<1>2. Still
  BY DEF HeadersDone
<1>3. \/ MessageComplete(next, 1)
      \/ chunked /\ Go(sized, 1) /\ Quiet
      \/ ~ chunked /\ hasBody /\ Go(known, 1) /\ Quiet
      \/ Go(rest, 1) /\ Quiet
  BY DEF HeadersDone
<1>4. /\ q \in Parsers /\ q.errno = "OK" /\ q.nread = 0
  BY <1>1 DEF AfterHeaders, Parsers
<1> HIDE DEF q
<1>5. /\ {"s_start_req", "s_start_res", "s_chunk_size_start", "s_body_identity", "s_body_identity_eof"} \subseteq States
      /\ start_state(q) \in Starting /\ Starting \subseteq States /\ "s_body_identity_eof" \in Loose
      /\ "s_chunk_size_start" \notin {"s_body_identity", "s_chunk_data"} \cup Sizes
      /\ "s_body_identity" \notin Chunks \cup Sizes
  BY PlainStates, PlainMeans, OtherStates DEF start_state, Starting, Loose, Sizes
<1>6. 1 \in Nat /\ p + 1 <= last + 1
  BY <1>1 DEF ParserInv, Placed
<1>7. CASE MessageComplete(next, 1)
  <2>1. next \in Parsers /\ next.errno = "OK" /\ next.state \in Starting
    BY <1>4, <1>5, Moved
  <2> HIDE DEF next
  <2> QED BY <1>1, <1>2, <1>7, <2>1, CompleteKeeps
<1>8. CASE chunked /\ Go(sized, 1) /\ Quiet
  <2>1. /\ sized \in Parsers /\ sized.errno = "OK" /\ sized.state = "s_chunk_size_start" /\ sized.nread = 0
        /\ sized.flags = q.flags
    BY <1>4, <1>5 DEF Parsers
  <2> HIDE DEF sized
  <2>2. Sound(sized)
    BY <1>5, <1>8, <2>1 DEF Sound
  <2>3. MarksIn(mark, sized.state)
    BY <1>1, MarksFromShut
  <2> QED BY <1>1, <1>2, <1>6, <1>8, <2>1, <2>2, <2>3, QuietKeeps, GoKeeps
<1>9. CASE ~ chunked /\ hasBody /\ Go(known, 1) /\ Quiet
  <2>1. /\ known \in Parsers /\ known.errno = "OK" /\ known.state = "s_body_identity"
        /\ known.length = q.length
    BY <1>4, <1>5 DEF Parsers
  <2>2. q.length # 0 /\ q.length # ULLMax
    BY <1>9
  <2> HIDE DEF known
  <2>3. Sound(known)
    BY <1>5, <2>1, <2>2 DEF Sound
  <2>4. MarksIn(mark, known.state)
    BY <1>1, MarksFromShut
  <2> QED BY <1>1, <1>2, <1>6, <1>9, <2>1, <2>3, <2>4, QuietKeeps, GoKeeps
<1>10. CASE Go(rest, 1) /\ Quiet
  <2>1. rest \in Parsers /\ rest.errno = "OK" /\ rest.state \in Loose
    BY <1>4, <1>5, Moved
  <2> HIDE DEF rest
  <2> QED BY <1>1, <1>2, <1>10, <2>1, QuietKeeps, PlainGo
<1> HIDE DEF next, sized, known, rest
<1> QED BY <1>3, <1>7, <1>8, <1>9, <1>10

-----------------------------------------------------------------------------
(* The body. *)

LEMMA BodyMarks ==
    /\ "body" \in Marks
    /\ {"s_body_identity", "s_body_identity_eof", "s_chunk_data", "s_chunk_data_almost_done"} = In("body")
    /\ In("body") \subseteq States /\ In("body") \cap Sizes = {} /\ "s_chunk_size_start" \notin In("body")
BY DEF Marks, In, States, BodyStates, Sizes

LEMMA ToReadIn ==
    ASSUME ParserInv, phase = "parsing", p <= last, P.length # 0
    PROVE  /\ ToRead \in Nat /\ P.length - ToRead \in 0 .. ULLMax /\ P.length - ToRead # ULLMax
           /\ p + ToRead <= last + 1 /\ p + ToRead - 1 \in Int /\ p + ToRead - 1 <= last
           /\ ToRead - 1 \in Nat /\ p + (ToRead - 1) <= last + 1
<1>1. P.length \in 0 .. ULLMax /\ ULLMax \in Nat /\ p \in Nat /\ last \in Nat
  BY Counting, HttpAssumption DEF Parsers, ParserInv, Placed
<1> DEFINE left == last - p + 1
           n == ToRead
           l == P.length
<1>2. left \in Nat /\ left >= 1 /\ l \in Nat /\ l >= 1 /\ l <= ULLMax
  BY <1>1
<1>3. n = Min({l, left})
  BY DEF ToRead
<1> HIDE DEF left, l, n
<1>4. n \in {l, left} /\ n <= l /\ n <= left
  <2>1. {l, left} \in SUBSET Nat /\ {l, left} # {}
    BY <1>2
  <2> QED BY <1>3, <2>1, LeastOf
<1>5. n \in Nat /\ n >= 1 /\ n <= l /\ n <= left
  BY <1>2, <1>4
<1>6. l - n \in 0 .. ULLMax /\ l - n # ULLMax
  BY <1>1, <1>2, <1>5
<1>7. p + n <= last + 1 /\ p + n - 1 \in Int /\ p + n - 1 <= last
  BY <1>1, <1>5 DEF left
<1>8. n - 1 \in Nat /\ p + (n - 1) <= last + 1
  BY <1>1, <1>5 DEF left
<1> QED BY <1>5, <1>6, <1>7, <1>8 DEF n, l

LEMMA BodyIdentityKeeps ==
    ASSUME ParserInv, BodyIdentity
    PROVE  ParserInv'
<1> DEFINE n == ToRead
           l == P.length - n
           q == [P EXCEPT !.length = l]
           r == [q EXCEPT !.state = "s_message_done"]
<1>1. /\ phase = "parsing" /\ p <= last /\ P \in Parsers /\ P.errno = "OK" /\ Sound(P)
      /\ P.state = "s_body_identity" /\ P.state \in In("body")
  BY Gated, BodyMarks DEF BodyIdentity
<1>2. Still
  BY DEF BodyIdentity
<1>3. \/ /\ q.length > 0 /\ Go(q, n)
         /\ mark' = [mark EXCEPT !["body"] = Marked("body")] /\ ctx' = ctx
      \/ /\ CallData("body", Marked("body"), p + n - 1)
         /\ Reexecute(r, n - 1)
  BY DEF BodyIdentity
<1>4. P.length # 0
  BY <1>1 DEF Sound
<1>5. /\ n \in Nat /\ l \in 0 .. ULLMax /\ l # ULLMax
      /\ p + n <= last + 1 /\ p + n - 1 \in Int /\ p + n - 1 <= last
      /\ n - 1 \in Nat /\ p + (n - 1) <= last + 1
  BY <1>1, <1>4, ToReadIn
<1>6. "s_message_done" \in Loose /\ "s_message_done" \in States
  BY PlainStates, PlainMeans, UrlStateSets
<1> HIDE DEF n, l
<1>7. /\ q \in Parsers /\ q.errno = "OK" /\ q.state = "s_body_identity" /\ q.length = l
  BY <1>1, <1>5 DEF Parsers
<1> HIDE DEF q
<1>8. CASE /\ q.length > 0 /\ Go(q, n)
           /\ mark' = [mark EXCEPT !["body"] = Marked("body")] /\ ctx' = ctx
  <2>1. q.length # 0
    BY <1>5, <1>7, <1>8
  <2>2. Sound(q)
    BY <1>5, <1>7, <2>1, OtherStates, BodyMarks DEF Sound
  <2> QED BY <1>1, <1>2, <1>5, <1>7, <1>8, <2>2, BodyMarks, OpenKeeps
<1>9. CASE /\ CallData("body", Marked("body"), p + n - 1)
           /\ Reexecute(r, n - 1)
  <2>1. r \in Parsers /\ r.errno = "OK" /\ r.state = "s_message_done"
    BY <1>6, <1>7, Moved
  <2> HIDE DEF r
  <2>2. Sound(r) /\ r.state # "s_chunk_size_start"
    BY <1>6, <2>1, LooseSound
  <2> QED BY <1>1, <1>2, <1>5, <1>9, <2>1, <2>2, BodyMarks, MarkedType, CloseKeeps
<1> HIDE DEF r
<1> QED BY <1>3, <1>8, <1>9

LEMMA BodyIdentityEofKeeps ==
    ASSUME ParserInv, BodyIdentityEof
    PROVE  ParserInv'
<1>1. /\ phase = "parsing" /\ p <= last /\ P \in Parsers /\ P.errno = "OK" /\ Sound(P)
      /\ P.state = "s_body_identity_eof" /\ P.state \in In("body")
  BY Gated, BodyMarks DEF BodyIdentityEof
<1>2. /\ mark' = [mark EXCEPT !["body"] = Marked("body")] /\ ctx' = ctx
      /\ Go(P, last - p + 1) /\ Still
  BY DEF BodyIdentityEof
<1>3. last - p + 1 \in Nat /\ p + (last - p + 1) <= last + 1
  BY <1>1 DEF ParserInv, Placed
<1> QED BY <1>1, <1>2, <1>3, BodyMarks, OpenKeeps

LEMMA MessageDoneKeeps ==
    ASSUME ParserInv, MessageDone
    PROVE  ParserInv'
<1> DEFINE q == [P EXCEPT !.state = start_state(P)]
<1>1. /\ phase = "parsing" /\ p <= last /\ P \in Parsers /\ P.errno = "OK" /\ P.state \in Plain
  BY Gated, PlainStates DEF MessageDone
<1>2. MessageComplete(q, 1) /\ Still
  BY DEF MessageDone
<1>3. start_state(P) \in Starting /\ start_state(P) \in States
  BY PlainStates, PlainMeans DEF start_state, Starting
<1>4. q \in Parsers /\ q.errno = "OK" /\ q.state \in Starting
  BY <1>1, <1>3, Moved
<1> HIDE DEF q
<1> QED BY <1>1, <1>2, <1>4, CompleteKeeps

\* A letter between two strings.
LEMMA BetweenKeeps ==
    ASSUME ParserInv, phase = "parsing", p <= last, P.state \in Shut,
           NEW q \in Parsers, Sound(q), q.errno = "OK", q.state = "s_chunk_size_start" => q.nread = 0,
           Go(q, 1), Quiet, Still
    PROVE  ParserInv'
<1>1. MarksIn(mark, q.state)
  BY Counting, MarksFromShut
<1>2. 1 \in Nat /\ p + 1 <= last + 1
  BY DEF ParserInv, Placed
<1> QED BY <1>1, <1>2, QuietKeeps, GoKeeps

LEMMA ChunkStates ==
    /\ ChunkLine \subseteq Shut /\ ChunkLine \subseteq Chunks /\ ChunkLine \subseteq States
    /\ "s_chunk_data_done" \in Shut /\ "s_chunk_data_done" \in Chunks /\ "s_chunk_data_done" \in States
    /\ Sizes \subseteq ChunkLine /\ "s_chunk_size_start" \in ChunkLine /\ "s_chunk_size_start" \notin Sizes
    /\ {"s_chunk_data", "s_chunk_data_almost_done"} \subseteq Chunks \ Sizes
    /\ {"s_body_identity", "s_chunk_data", "s_chunk_data_almost_done", "s_header_value", "s_chunk_data_done"}
         \cap ChunkLine = {}
BY DEF Shut, Chunks, States, ChunkLine, BodyStates, Sizes

LEMMA ChunkSizeKeeps ==
    ASSUME ParserInv, ChunkSize
    PROVE  ParserInv'
<1>1. Still
  BY DEF ChunkSize
<1>2. phase = "parsing" /\ p <= last /\ P \in Parsers /\ P.errno = "OK" /\ Sound(P) /\ P.state \in ChunkLine
      /\ P.state \in Shut /\ "F_CHUNKED" \in P.flags
  <2>1. \/ At({"s_chunk_size_start"}) \/ At({"s_chunk_size"}) \/ At({"s_chunk_parameters"})
        \/ At({"s_chunk_size_almost_done"})
    BY DEF ChunkSize
  <2>2. {"s_chunk_size_start", "s_chunk_size", "s_chunk_parameters", "s_chunk_size_almost_done"} = ChunkLine
    BY DEF ChunkLine
  <2>3. P.state \in ChunkLine /\ phase = "parsing" /\ p <= last /\ P \in Parsers /\ P.errno = "OK" /\ Sound(P)
    BY <2>1, <2>2, Gated
  <2> QED BY <2>3, ChunkStates DEF Sound
<1>3. {"INVALID_CHUNK_SIZE", "INVALID_CONTENT_LENGTH"} \subseteq Errors \ {"OK", "PAUSED"}
  BY ErrorNames
<1>4. {"s_chunk_size", "s_chunk_parameters", "s_chunk_size_almost_done"} = Sizes
  BY DEF Sizes
\* Another state of the size line, with a length that is known.
<1>5. ASSUME NEW q \in Parsers, q.errno = "OK", q.state \in Sizes, q.flags = P.flags, q.length # ULLMax,
             Go(q, 1), Quiet
      PROVE  ParserInv'
  <2>1. Sound(q)
    BY <1>2, <1>5, ChunkStates DEF Sound
  <2>2. q.state # "s_chunk_size_start"
    BY <1>5, ChunkStates
  <2> QED BY <1>1, <1>2, <1>5, <2>1, <2>2, BetweenKeeps
<1>6. CASE /\ At({"s_chunk_size_start"})
           /\ IF ch \notin DOMAIN unhex THEN Fail(P, "INVALID_CHUNK_SIZE")
              ELSE Go([P EXCEPT !.length = unhex[ch], !.state = "s_chunk_size"], 1) /\ Quiet
  <2>1. CASE Fail(P, "INVALID_CHUNK_SIZE")
    BY <1>1, <1>2, <1>3, <2>1, FailsKeeps
  <2> DEFINE q == [P EXCEPT !.length = unhex[ch], !.state = "s_chunk_size"]
  <2>2. CASE ch \in DOMAIN unhex /\ Go(q, 1) /\ Quiet
    <3>1. unhex[ch] \in 0 .. 10 /\ ULLMax \in Nat /\ ULLMax > 16
      BY <2>2, DigitsInto, HttpAssumption DEF Into
    <3>2. unhex[ch] \in 0 .. ULLMax /\ unhex[ch] # ULLMax
      BY <3>1
    <3>3. "s_chunk_size" \in Sizes /\ "s_chunk_size" \in States
      BY <1>4, ChunkStates
    <3>4. q \in Parsers /\ q.errno = "OK" /\ q.state = "s_chunk_size" /\ q.flags = P.flags /\ q.length = unhex[ch]
      BY <1>2, <3>2, <3>3 DEF Parsers
    <3> HIDE DEF q
    <3> QED BY <1>5, <2>2, <3>2, <3>3, <3>4
  <2> QED BY <1>6, <2>1, <2>2
<1>7. CASE /\ At({"s_chunk_size"})
           /\ LET q == AddDigit(P, 16, unhex[ch])
              IN  CASE ch = "CR" -> Go([P EXCEPT !.state = "s_chunk_size_almost_done"], 1) /\ Quiet
                    [] ch = "SP" -> Go([P EXCEPT !.state = "s_chunk_parameters"], 1) /\ Quiet
                    [] ch \in DOMAIN unhex -> IF q.errno = "OK" THEN Go(q, 1) /\ Quiet
                                                                ELSE Fail(q, q.errno)
                    [] OTHER -> Fail(P, "INVALID_CHUNK_SIZE")
  <2> DEFINE q == AddDigit(P, 16, unhex[ch])
  <2>1. P.state \in Sizes /\ P.state = "s_chunk_size" /\ P.length # ULLMax
    BY <1>2, <1>4, <1>7, Gated DEF Sound
  <2>2. \/ Go([P EXCEPT !.state = "s_chunk_size_almost_done"], 1) /\ Quiet
        \/ Go([P EXCEPT !.state = "s_chunk_parameters"], 1) /\ Quiet
        \/ ch \in DOMAIN unhex /\ q.errno = "OK" /\ Go(q, 1) /\ Quiet
        \/ ch \in DOMAIN unhex /\ q.errno # "OK" /\ Fail(q, q.errno)
        \/ Fail(P, "INVALID_CHUNK_SIZE")
    BY <1>7
  <2>3. ASSUME NEW s \in Sizes, Go([P EXCEPT !.state = s], 1), Quiet PROVE ParserInv'
    <3> DEFINE r == [P EXCEPT !.state = s]
    <3>1. r \in Parsers /\ r.errno = "OK" /\ r.state \in Sizes /\ r.flags = P.flags /\ r.length # ULLMax
      BY <1>2, <2>1, <2>3, ChunkStates DEF Parsers
    <3> HIDE DEF r
    <3>2. Go(r, 1)
      BY <2>3 DEF r
    <3> QED BY <1>5, <2>3, <3>1, <3>2
  <2>4. ch \in DOMAIN unhex =>
          /\ q \in Parsers /\ q.state = P.state /\ q.flags = P.flags /\ q.length # ULLMax
          /\ q.errno \in {"OK", "INVALID_CONTENT_LENGTH"}
    <3> SUFFICES ASSUME ch \in DOMAIN unhex
                 PROVE  /\ q \in Parsers /\ q.state = P.state /\ q.flags = P.flags /\ q.length # ULLMax
                        /\ q.errno \in {"OK", "INVALID_CONTENT_LENGTH"}
      OBVIOUS
    <3>1. unhex[ch] \in 0 .. 10 /\ unhex[ch] < 16 /\ 16 \in {10, 16}
      BY DigitsInto DEF Into
    <3> QED BY <1>2, <2>1, <3>1, DigitAdded
  <2> HIDE DEF q
  <2>5. CASE ch \in DOMAIN unhex /\ q.errno = "OK" /\ Go(q, 1) /\ Quiet
    BY <1>5, <2>1, <2>4, <2>5
  <2>6. CASE ch \in DOMAIN unhex /\ q.errno # "OK" /\ Fail(q, q.errno)
    <3>1. Sound(q)
      BY <1>2, <2>1, <2>4, <2>6, ChunkStates DEF Sound
    <3> QED BY <1>1, <1>2, <1>3, <2>4, <2>6, <3>1, FailKeeps
  <2>7. CASE Fail(P, "INVALID_CHUNK_SIZE")
    BY <1>1, <1>2, <1>3, <2>7, FailsKeeps
  <2>8. CASE \/ Go([P EXCEPT !.state = "s_chunk_size_almost_done"], 1) /\ Quiet
             \/ Go([P EXCEPT !.state = "s_chunk_parameters"], 1) /\ Quiet
    BY <1>4, <2>3, <2>8
  <2> QED BY <2>2, <2>5, <2>6, <2>7, <2>8
<1>8. CASE /\ At({"s_chunk_parameters"})
           /\ Go([P EXCEPT !.state = IF ch = "CR" THEN "s_chunk_size_almost_done" ELSE @], 1)
           /\ Quiet
  <2> DEFINE s == IF ch = "CR" THEN "s_chunk_size_almost_done" ELSE P.state
             q == [P EXCEPT !.state = s]
  <2>1. P.state \in Sizes /\ P.length # ULLMax
    BY <1>2, <1>4, <1>8, Gated DEF Sound
  <2>2. s \in Sizes /\ s \in States
    BY <1>4, <2>1, ChunkStates
  <2>3. Go(q, 1)
    BY <1>8
  <2> HIDE DEF s
  <2>4. q \in Parsers /\ q.errno = "OK" /\ q.state \in Sizes /\ q.flags = P.flags /\ q.length # ULLMax
    BY <1>2, <2>1, <2>2 DEF Parsers
  <2> HIDE DEF q
  <2> QED BY <1>5, <1>8, <2>3, <2>4
<1>9. CASE /\ At({"s_chunk_size_almost_done"})
           /\ Go(IF P.length = 0
                 THEN [P EXCEPT !.nread = 0, !.flags = @ \cup {"F_TRAILING"},
                                !.state = "s_header_field_start"]
                 ELSE [P EXCEPT !.nread = 0, !.state = "s_chunk_data"], 1)
           /\ Quiet
  <2> DEFINE q == [P EXCEPT !.nread = 0, !.flags = @ \cup {"F_TRAILING"}, !.state = "s_header_field_start"]
             r == [P EXCEPT !.nread = 0, !.state = "s_chunk_data"]
  <2>1. P.length # ULLMax
    BY <1>2, <1>4, <1>9, Gated DEF Sound
  <2>2. CASE P.length = 0 /\ Go(q, 1)
    <3>1. "F_TRAILING" \in Flags /\ "s_header_field_start" \in Loose /\ "s_header_field_start" \in States
      BY PlainStates, PlainMeans, UrlStateSets DEF Flags
    <3>2. q \in Parsers /\ q.errno = "OK" /\ q.state \in Loose
      BY <1>2, <3>1 DEF Parsers
    <3> HIDE DEF q
    <3> QED BY <1>1, <1>2, <1>9, <2>2, <3>2, QuietKeeps, PlainGo
  <2>3. CASE P.length # 0 /\ Go(r, 1)
    <3>1. r \in Parsers /\ r.errno = "OK" /\ r.state = "s_chunk_data" /\ r.flags = P.flags /\ r.length = P.length
      BY <1>2, BodyMarks DEF Parsers
    <3> HIDE DEF r
    <3>2. Sound(r)
      BY <1>2, <2>1, <2>3, <3>1, ChunkStates DEF Sound
    <3> QED BY <1>1, <1>2, <1>9, <2>3, <3>1, <3>2, BetweenKeeps
  <2> QED BY <1>9, <2>2, <2>3
<1> QED BY <1>6, <1>7, <1>8, <1>9 DEF ChunkSize

LEMMA ChunkDataKeeps ==
    ASSUME ParserInv, ChunkData
    PROVE  ParserInv'
<1>1. Still
  BY DEF ChunkData
<1>2. CASE /\ At({"s_chunk_data"})
           /\ LET n == ToRead
              IN  Go([P EXCEPT !.length = @ - n,
                        !.state = IF P.length = n THEN "s_chunk_data_almost_done" ELSE @], n)
           /\ mark' = [mark EXCEPT !["body"] = Marked("body")] /\ UNCHANGED <<ctx, heard>>
  <2> DEFINE n == ToRead
             l == P.length - n
             s == IF P.length = n THEN "s_chunk_data_almost_done" ELSE P.state
             q == [P EXCEPT !.length = l, !.state = s]
  <2>1. /\ phase = "parsing" /\ p <= last /\ P \in Parsers /\ P.errno = "OK" /\ Sound(P)
        /\ P.state = "s_chunk_data" /\ P.state \in In("body")
    BY <1>2, Gated, BodyMarks
  <2>2. P.length # 0 /\ "F_CHUNKED" \in P.flags
    BY <2>1, ChunkStates DEF Sound
  <2>3. Go(q, n) /\ mark' = [mark EXCEPT !["body"] = Marked("body")] /\ ctx' = ctx
    BY <1>2
  <2>4. n \in Nat /\ l \in 0 .. ULLMax /\ l # ULLMax /\ p + n <= last + 1
    BY <2>1, <2>2, ToReadIn
  <2>5. /\ s \in {"s_chunk_data", "s_chunk_data_almost_done"} /\ s \in States
        /\ s = "s_chunk_data_almost_done" => l = 0
        /\ s = "s_chunk_data" => l # 0
    <3>1. P.length \in Nat
      BY <2>1, HttpAssumption DEF Parsers
    <3> HIDE DEF n
    <3> QED BY <2>1, <2>4, <3>1, BodyMarks
  <2> HIDE DEF n, l, s
  <2>6. q \in Parsers /\ q.errno = "OK" /\ q.state = s /\ q.length = l /\ q.flags = P.flags
    BY <2>1, <2>4, <2>5 DEF Parsers
  <2> HIDE DEF q
  <2>7. Sound(q)
    <3>1. q.state \notin Sizes /\ q.state # "s_header_value" /\ q.state # "s_body_identity"
      BY <2>5, <2>6, ChunkStates
    <3> QED BY <2>2, <2>4, <2>5, <2>6, <3>1 DEF Sound
  <2>8. q.state \in In("body") /\ q.state # "s_chunk_size_start"
    BY <2>5, <2>6, BodyMarks
  <2> QED BY <1>1, <2>1, <2>3, <2>4, <2>6, <2>7, <2>8, BodyMarks, OpenKeeps
<1>3. CASE /\ At({"s_chunk_data_almost_done"})
           /\ CallData("body", mark["body"], p - 1)
           /\ Go([P EXCEPT !.state = "s_chunk_data_done"], 1)
  <2> DEFINE q == [P EXCEPT !.state = "s_chunk_data_done"]
  <2>1. /\ phase = "parsing" /\ p <= last /\ P \in Parsers /\ P.errno = "OK" /\ Sound(P)
        /\ P.state = "s_chunk_data_almost_done" /\ P.state \in In("body")
    BY <1>3, Gated, BodyMarks
  <2>2. "F_CHUNKED" \in P.flags
    BY <2>1, ChunkStates DEF Sound
  <2>3. q \in Parsers /\ q.errno = "OK" /\ q.state = "s_chunk_data_done" /\ q.flags = P.flags
    BY <2>1, ChunkStates DEF Parsers
  <2>4. Go(q, 1)
    BY <1>3
  <2> HIDE DEF q
  <2>5. Sound(q) /\ q.state # "s_chunk_size_start"
    BY <2>2, <2>3, ChunkStates DEF Sound
  <2>6. mark["body"] \in Nat /\ 1 \in Nat /\ p + 1 <= last + 1 /\ p - 1 \in Int /\ p - 1 <= last
    BY <2>1, BodyMarks DEF ParserInv, Placed
  <2> QED BY <1>1, <1>3, <2>1, <2>3, <2>4, <2>5, <2>6, BodyMarks, CloseKeeps
<1>4. CASE /\ At({"s_chunk_data_done"})
           /\ Go([P EXCEPT !.nread = 0, !.state = "s_chunk_size_start"], 1) /\ Quiet
  <2> DEFINE q == [P EXCEPT !.nread = 0, !.state = "s_chunk_size_start"]
  <2>1. /\ phase = "parsing" /\ p <= last /\ P \in Parsers /\ P.errno = "OK" /\ Sound(P)
        /\ P.state = "s_chunk_data_done" /\ P.state \in Shut /\ "F_CHUNKED" \in P.flags
    <3>1. /\ phase = "parsing" /\ p <= last /\ P \in Parsers /\ P.errno = "OK" /\ Sound(P)
          /\ P.state = "s_chunk_data_done"
      BY <1>4, Gated
    <3> QED BY <3>1, ChunkStates DEF Sound
  <2>2. q \in Parsers /\ q.errno = "OK" /\ q.state = "s_chunk_size_start" /\ q.flags = P.flags /\ q.nread = 0
    BY <2>1, ChunkStates DEF Parsers
  <2>3. Go(q, 1)
    BY <1>4
  <2> HIDE DEF q
  <2>4. Sound(q)
    BY <2>1, <2>2, ChunkStates DEF Sound
  <2> QED BY <1>1, <1>4, <2>1, <2>2, <2>3, <2>4, BetweenKeeps
<1> QED BY <1>2, <1>3, <1>4 DEF ChunkData

-----------------------------------------------------------------------------
(* The connection. *)

LEMMA ParserInvInit == Init => ParserInv
<1> SUFFICES ASSUME Init PROVE ParserInv
  OBVIOUS
<1>1. /\ stream \in Streams /\ p = 1 /\ last = 0 /\ again = FALSE /\ phase = "idle"
      /\ parser = Fresh(stream.type) /\ mark = NoMark /\ ctx = EmptyWork
  BY DEF Init
<1>2. stream.type \in {"REQUEST", "RESPONSE"} /\ Len(stream.bytes) \in Nat
  BY <1>1, HttpAssumption
<1>3. /\ parser \in Parsers /\ Sound(parser) /\ parser.errno = "OK" /\ parser.state \in Starting
  BY <1>1, <1>2, FreshType
<1>4. Healthy(parser, again)
  BY <1>3 DEF Healthy, Starting
<1>5. ctx \in Works
  BY <1>1, EmptyType
<1>6. mark \in [Marks -> Nat]
  BY <1>1 DEF NoMark
<1>7. Placed
  <2>1. p \in Nat \ {0} /\ last \in Nat /\ last <= Len(stream.bytes) /\ p <= last + 1
    BY <1>1, <1>2
  <2>2. phase \in {"idle", "parsing"} /\ again \in BOOLEAN /\ parser.errno = "OK"
    BY <1>1, <1>3
  <2> QED BY <2>1, <2>2 DEF Placed
<1> QED BY <1>1, <1>3, <1>4, <1>5, <1>6, <1>7 DEF ParserInv

LEMMA ParserInvStep ==
    ASSUME ParserInv, [Next]_vars
    PROVE  ParserInv'
<1>1. CASE UNCHANGED vars
  <2>1. Placed'
    BY <1>1 DEF ParserInv, Placed, vars
  <2> QED BY <1>1, <2>1 DEF ParserInv, vars
<1>2. CASE \E n \in ReadSizes : Read(n)
  BY <1>2, ReadKeeps
<1>3. CASE EndOfRead \/ HeaderOverflow \/ Protocol \/ Version
  BY <1>3, EndOfReadKeeps, HeaderOverflowKeeps, ProtocolKeeps, VersionKeeps
<1>4. CASE Request
  BY <1>4, StartRequestKeeps, MethodKeeps, UrlBeginKeeps, UrlKeeps, RequestLineEndKeeps DEF Request
<1>5. CASE Response
  BY <1>5, StartResponseKeeps, StatusCodeKeeps, StatusTextKeeps DEF Response
<1>6. CASE Headers
  BY <1>6, HeaderFieldStartKeeps, HeaderFieldKeeps, HeaderValueStartKeeps, HeaderValueKeeps,
     HeaderEndKeeps, HeadersAlmostDoneKeeps, HeadersDoneKeeps DEF Headers
<1>7. CASE Body
  BY <1>7, BodyIdentityKeeps, BodyIdentityEofKeeps, MessageDoneKeeps, ChunkSizeKeeps, ChunkDataKeeps DEF Body
<1>8. CASE Script
  BY <1>8, ScriptKeeps
<1> QED BY <1>1, <1>2, <1>3, <1>4, <1>5, <1>6, <1>7, <1>8 DEF Next

LEMMA InvAsserts ==
    ASSUME ParserInv
    PROVE  AssertsHold
<1>1. /\ parser \in Parsers /\ Sound(parser) /\ ctx \in Works /\ Placed
      /\ phase = "parsing" => MarksIn(mark, parser.state)
  BY DEF ParserInv
<1>2. TypeOK
  BY <1>1 DEF TypeOK, Parsers, Works, Placed, States, HStates
<1>3. phase = "parsing" /\ p <= last /\ P.state = "s_chunk_size_start" => P.nread = 1
  BY Counting
<1>4. parser.state \in Chunks => "F_CHUNKED" \in parser.flags
  BY <1>1 DEF Sound
<1>5. parser.state \in {"s_body_identity", "s_chunk_data"} => parser.length \notin {0, ULLMax}
  BY <1>1 DEF Sound
<1>6. parser.state = "s_chunk_data_almost_done" => parser.length = 0
  BY <1>1 DEF Sound
<1>7. phase = "parsing" => Cardinality({f \in Marks : mark[f] # 0}) <= 1
  BY <1>1, OneMark
<1>8. parser.state = "s_header_value" => parser.hstate \notin {"h_connection", "h_transfer_encoding"}
  BY <1>1 DEF Sound, ValueHStates, ValueStates
<1> QED BY <1>2, <1>3, <1>4, <1>5, <1>6, <1>7, <1>8 DEF AssertsHold, Chunks

\* The asserts of http_parser_execute (http_parser.c:1497, 1844, 1893-2004 and
\* 2028) hold for every stream, wherever the reads cut it, whatever the script
\* does between them, with every limit on the headers and every width of the
\* lengths; and no variable leaves its type.
THEOREM ParserAsserts == Spec => []AssertsHold
<1>1. Spec => []ParserInv
  BY ParserInvInit, ParserInvStep, PTL DEF Spec
<1>2. ParserInv => AssertsHold
  BY InvAsserts
<1> QED BY <1>1, <1>2, PTL
=============================================================================
