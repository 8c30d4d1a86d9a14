------------------------------ MODULE HttpUrl ------------------------------
(***************************************************************************)
(* The URL automaton of http_parser.c and http_parser_parse_url, which     *)
(* splits a URL into fields with it.  A URL is a sequence of letters, one  *)
(* for each class of bytes the automaton tells apart; HTTP_PARSER_STRICT   *)
(* is 0, as build/http-parser.sh compiles it.                              *)
(***************************************************************************)
EXTENDS Integers, Sequences, SequencesExt, FiniteSets

CONSTANTS
    MaxPort,        \* 0xffff, scaled down
    Width16         \* 2^16, scaled down

ASSUME MaxPortAssumption == MaxPort \in Nat
ASSUME WidthAssumption == Width16 \in Nat \ {0}

\* The letters: two of the alphabet, one of them a hex digit, two digits, and
\* the bytes that stand for themselves.
Alpha == {"a", "z"}
Num == {"0", "1"}
AlphaNum == Alpha \cup Num
Hex == Num \cup {"a"}
Userinfo == AlphaNum \cup {"%", ":", "*", "."}
HostChar == AlphaNum \cup {"."}
UrlChar == Userinfo \cup {"/", "@", "[", "]"}

Fields == {"schema", "host", "port", "path", "query", "fragment", "userinfo"}
None == <<0, 0>>

UrlStates == {"s_dead", "s_req_spaces_before_url", "s_req_schema",
    "s_req_schema_slash", "s_req_schema_slash_slash", "s_req_server_start",
    "s_req_server", "s_req_server_with_at", "s_req_path",
    "s_req_query_string_start", "s_req_query_string", "s_req_fragment_start",
    "s_req_fragment"}

HostStates == {"s_http_host_dead", "s_http_userinfo_start", "s_http_userinfo",
    "s_http_host_start", "s_http_host_v6_start", "s_http_host", "s_http_host_v6",
    "s_http_host_v6_end", "s_http_host_v6_zone_start", "s_http_host_v6_zone",
    "s_http_host_port_start", "s_http_host_port"}

ServerStates == {"s_req_server_start", "s_req_server", "s_req_server_with_at"}
QueryStates == {"s_req_query_string_start", "s_req_query_string"}
FragmentStates == {"s_req_fragment_start", "s_req_fragment"}

\* The transitions of parse_url_char: <<from, on, to>>.
UrlEdges ==
    [from: {"s_req_spaces_before_url"}, on: {"/", "*"}, to: {"s_req_path"}]
    \cup [from: {"s_req_spaces_before_url", "s_req_schema"}, on: Alpha, to: {"s_req_schema"}]
    \cup [from: {"s_req_schema"}, on: {":"}, to: {"s_req_schema_slash"}]
    \cup [from: {"s_req_schema_slash"}, on: {"/"}, to: {"s_req_schema_slash_slash"}]
    \cup [from: {"s_req_schema_slash_slash"}, on: {"/"}, to: {"s_req_server_start"}]
    \cup [from: ServerStates, on: {"/"}, to: {"s_req_path"}]
    \cup [from: ServerStates, on: {"?"}, to: {"s_req_query_string_start"}]
    \cup [from: ServerStates \ {"s_req_server_with_at"}, on: {"@"}, to: {"s_req_server_with_at"}]
    \cup [from: ServerStates, on: Userinfo \cup {"[", "]"}, to: {"s_req_server"}]
    \cup [from: {"s_req_path"}, on: UrlChar, to: {"s_req_path"}]
    \cup [from: {"s_req_path"}, on: {"?"}, to: {"s_req_query_string_start"}]
    \cup [from: QueryStates, on: UrlChar \cup {"?"}, to: {"s_req_query_string"}]
    \cup [from: QueryStates \cup {"s_req_path"}, on: {"#"}, to: {"s_req_fragment_start"}]
    \cup [from: FragmentStates, on: UrlChar \cup {"?"}, to: {"s_req_fragment"}]
    \cup [from: {"s_req_fragment_start"}, on: {"#"}, to: {"s_req_fragment_start"}]
    \cup [from: {"s_req_fragment"}, on: {"#"}, to: {"s_req_fragment"}]

UrlLetters == UrlChar \cup {"?", "#"}

\* Each letter less "0".
Value == [d \in UrlLetters |->
    CASE d = "0" -> 0 [] d = "1" -> 1 [] d = "a" -> 49 [] d = "z" -> 74
      [] d = ":" -> 10 [] d = "?" -> 15 [] d = "@" -> 16 [] d = "[" -> 43 [] d = "]" -> 45
      [] d = "/" -> -1 [] d = "." -> -2 [] d = "*" -> -6 [] d = "%" -> -11 [] d = "#" -> -13]

\* The function a set of edges stands for: without an edge the URL is refused.
Table(edges, states, dead) ==
    [at \in states \X UrlLetters |->
        LET e == {x \in edges : x.from = at[1] /\ x.on = at[2]}
        IN  IF e = {} THEN dead ELSE (CHOOSE x \in e : TRUE).to]

UrlTable == Table(UrlEdges, UrlStates, "s_dead")

parse_url_char(s, ch) == IF ch \in UrlLetters THEN UrlTable[s, ch] ELSE "s_dead"

Fault_UrlMayEnd == {"s_req_server", "s_req_server_with_at", "s_req_path"} \cup FragmentStates
\* The states in which a space or a line end may follow the URL of a request:
\* the others, s_req_schema to s_req_server_start, refuse it.
UrlMayEnd == {"s_req_server", "s_req_server_with_at", "s_req_path"}
             \cup QueryStates \cup FragmentStates

-----------------------------------------------------------------------------
\* http_parse_host: the authority, "userinfo@host:port", letter by letter.
HostEdges ==
    LET user == {"s_http_userinfo_start", "s_http_userinfo"}
    IN  [from: user, on: {"@"}, to: {"s_http_host_start"}]
        \cup [from: user, on: Userinfo, to: {"s_http_userinfo"}]
        \cup [from: {"s_http_host_start"}, on: {"["}, to: {"s_http_host_v6_start"}]
        \cup [from: {"s_http_host_start", "s_http_host"}, on: HostChar, to: {"s_http_host"}]
        \cup [from: {"s_http_host", "s_http_host_v6_end"}, on: {":"}, to: {"s_http_host_port_start"}]
        \cup [from: {"s_http_host_v6", "s_http_host_v6_zone"}, on: {"]"}, to: {"s_http_host_v6_end"}]
        \cup [from: {"s_http_host_v6_start", "s_http_host_v6"}, on: Hex \cup {":", "."}, to: {"s_http_host_v6"}]
        \cup [from: {"s_http_host_v6"}, on: {"%"}, to: {"s_http_host_v6_zone_start"}]
        \cup [from: {"s_http_host_v6_zone_start", "s_http_host_v6_zone"},
              on: AlphaNum \cup {"%", "."}, to: {"s_http_host_v6_zone"}]
        \cup [from: {"s_http_host_port_start", "s_http_host_port"}, on: Num, to: {"s_http_host_port"}]

HostTable == Table(HostEdges, HostStates, "s_http_host_dead")

http_parse_host_char(s, ch) == HostTable[s, ch]

\* The offset of letter i, counted from 1, and a length that grows by one, when
\* they are put into a uint16_t.  As offsets begin at 1, a field that is set is
\* never None.
Narrow(i) == ((i - 1) % Width16) + 1
Longer(len) == (len + 1) % Width16

\* Letter i belongs to field f: a new field starts there, or it grows by one.
Grow(u, f, i, fresh) ==
    [u EXCEPT ![f] = IF fresh THEN <<Narrow(i), 1>> ELSE <<@[1], Longer(@[2])>>]

\* The field a state of the host automaton counts its letter to.
HostField == [s \in HostStates |->
    CASE s \in {"s_http_host", "s_http_host_v6", "s_http_host_v6_zone_start",
                "s_http_host_v6_zone"} -> "host"
      [] s = "s_http_host_port" -> "port"
      [] s = "s_http_userinfo" -> "userinfo"
      [] OTHER -> "none"]

\* One turn of the loop of http_parse_host.  The length of the host is reset
\* before the loop, its offset when a host state is entered; a zone only adds
\* to the length.
HostTurn(url, a, i) ==
    LET s == http_parse_host_char(a.s, url[i])
        f == HostField[s]
        fresh == s # a.s /\ s \in {"s_http_host", "s_http_host_v6",
                                   "s_http_host_port", "s_http_userinfo"}
    IN  [s |-> s,
         u |-> CASE f = "none" -> a.u
                 [] f = "host" /\ fresh -> [a.u EXCEPT !["host"] = <<Narrow(i), Longer(@[2])>>]
                 [] OTHER -> Grow(a.u, f, i, fresh)]

Fault_HostEnds == {"s_http_host", "s_http_host_v6_end", "s_http_host_port_start", "s_http_host_port"}
\* An authority may end in a host or in a port that has digits.
HostEnds == {"s_http_host", "s_http_host_v6_end", "s_http_host_port"}

http_parse_host(url, u, found_at) ==
    LET from == u["host"][1]
        r == FoldLeft(LAMBDA a, i : HostTurn(url, a, i),
                      [s |-> IF found_at THEN "s_http_userinfo_start" ELSE "s_http_host_start",
                       u |-> [u EXCEPT !["host"][2] = 0]],
                      [k \in 1 .. u["host"][2] |-> from + k - 1])
    IN  [ok |-> r.s \in HostEnds, u |-> r.u]

-----------------------------------------------------------------------------
\* The field of a state of the URL automaton; delimiters belong to none.
UrlField == [s \in UrlStates |->
    CASE s = "s_req_schema" -> "schema"
      [] s \in {"s_req_server", "s_req_server_with_at"} -> "host"
      [] s = "s_req_path" -> "path"
      [] s = "s_req_query_string" -> "query"
      [] s = "s_req_fragment" -> "fragment"
      [] OTHER -> "none"]

\* One turn of the loop of http_parser_parse_url.
UrlTurn(url, a, i) ==
    LET s == parse_url_char(a.s, url[i])
        f == UrlField[s]
    IN  [s |-> s,
         at |-> a.at \/ s = "s_req_server_with_at",
         old |-> IF f = "none" THEN a.old ELSE f,
         u |-> IF f = "none" THEN a.u ELSE Grow(a.u, f, i, f # a.old)]

\* The value of the port, or one too large as soon as it is.  Its letters are
\* digits unless its offset is a narrowed one; less than 0 is a large unsigned.
PortOf(digits) ==
    LET next(v, d) == v * 10 + Value[d]
    IN  FoldLeft(LAMBDA v, d : IF v > MaxPort \/ next(v, d) < 0 THEN MaxPort + 1 ELSE next(v, d),
                 0, digits)

\* The loop, then the host, then what a CONNECT may hold, then the port.
http_parser_parse_url(url, connect) ==
    LET a == FoldLeft(LAMBDA x, i : UrlTurn(url, x, i),
                      [s |-> IF connect THEN "s_req_server_start" ELSE "s_req_spaces_before_url",
                       at |-> FALSE, old |-> "none", u |-> [f \in Fields |-> None]],
                      [i \in 1 .. Len(url) |-> i])
        hosted == a.u["host"] # None
        h == IF hosted THEN http_parse_host(url, a.u, a.at) ELSE [ok |-> TRUE, u |-> a.u]
        set == {f \in Fields : h.u[f] # None}
        port == IF "port" \in set
                THEN PortOf(SubSeq(url, h.u["port"][1], h.u["port"][1] + h.u["port"][2] - 1))
                ELSE 0
    IN  IF /\ a.s # "s_dead"
           /\ a.u["schema"] # None => hosted
           /\ h.ok
           /\ connect => set = {"host", "port"}
           /\ port <= MaxPort
        THEN [ok |-> TRUE, fields |-> h.u, port |-> port]
        ELSE [ok |-> FALSE, fields |-> [f \in Fields |-> None], port |-> 0]

\* What the request parser makes of the same URL: it runs the automaton alone.
StreamTakes(url, connect) ==
    FoldLeft(parse_url_char,
             IF connect THEN "s_req_server_start" ELSE "s_req_spaces_before_url",
             url) \in UrlMayEnd
=============================================================================
