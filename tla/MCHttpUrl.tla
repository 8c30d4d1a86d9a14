----------------------------- MODULE MCHttpUrl -----------------------------
(* Every URL of a few letters, grown one letter at a time, against a        *)
(* definition of its fields that runs no automaton.                         *)
EXTENDS HttpUrl, FiniteSetsExt

CONSTANTS Letters, MaxLetters

VARIABLES url, connect

\* What a URL grows from: nothing, what its longer forms begin with, and what is
\* almost as long as 16 bits can count.
Long(s) == s \o [i \in 1 .. Width16 - 2 - Len(s) |-> "a"]
Starts(c) ==
    IF c THEN {<<>>, <<"a", ":", "1", "?">>, Long(<<"a">>)}
    ELSE {<<>>, <<"a", ":", "/", "/">>, <<"a", ":", "/", "/", "a", "@", "[", "a", "%">>,
          Long(<<"/">>), Long(<<"a", ":", "/", "/">>)}

UrlInit == connect \in BOOLEAN /\ url \in Starts(connect)

Grows == /\ \E s \in Starts(connect) : IsPrefix(s, url) /\ Len(url) < Len(s) + MaxLetters
         /\ Len(url) < Width16 + 2
         /\ \E ch \in Letters : url' = Append(url, ch)
         /\ UNCHANGED connect

UrlSpec == UrlInit /\ [][Grows]_<<url, connect>>

-----------------------------------------------------------------------------
\* The first place from i on that holds one of S, or one past the end.
FirstIn(i, S) == Min({j \in i .. Len(url) : url[j] \in S} \cup {Len(url) + 1})
\* Letters i to j are all in S.
Span(i, j, S) == \A k \in i .. j : url[k] \in S
Field(i, j) == IF j < i THEN None ELSE <<i, j - i + 1>>

\* An authority between i and j: [userinfo@]host[:port], where a host is a name
\* or [address] or [address%zone].
Authority(i, j) ==
    LET ats == {k \in i .. j : url[k] = "@"}
        h == IF ats = {} THEN i ELSE Min(ats) + 1
        v6 == h <= j /\ url[h] = "["
        e == IF v6 THEN FirstIn(h, {"]"}) ELSE FirstIn(h, {":", "@"} \cup {"/", "?"}) - 1
        z == Min({FirstIn(h, {"%"}), e})
        host == IF v6 THEN Field(h + 1, e - 1) ELSE Field(h, e)
    IN  [ok |-> /\ i <= j
                /\ ats # {} => Span(i, h - 2, Userinfo)
                /\ host # None
                /\ e <= j
                /\ IF v6 THEN /\ h + 1 < z /\ Span(h + 1, z - 1, Hex \cup {":", "."})
                              /\ z < e => z + 1 < e /\ Span(z + 1, e - 1, AlphaNum \cup {"%", "."})
                         ELSE Span(h, e, HostChar)
                /\ e < j => url[e + 1] = ":" /\ e + 2 <= j /\ Span(e + 2, j, Num),
         host |-> host,
         port |-> Field(e + 2, j),
         userinfo |-> IF ats = {} THEN None ELSE Field(i, h - 2)]

\* What the fields of a URL are: [schema://authority][path][?query][#fragment],
\* of a CONNECT those of host:port, whatever delimiters follow, and no other.
Meant ==
    LET n == Len(url)
        colon == FirstIn(1, {":"})
        schema == /\ ~connect /\ colon > 1 /\ colon + 2 <= n
                  /\ Span(1, colon - 1, Alpha)
                  /\ url[colon + 1] = "/" /\ url[colon + 2] = "/"
        from == IF schema THEN colon + 3 ELSE 1
        to == IF schema \/ connect THEN FirstIn(from, {"/", "?"}) - 1 ELSE 0
        auth == Authority(from, to)
        rest == to + 1                      \* the path, or the query at once
        hash == FirstIn(rest, {"#"})
        mark == Min({FirstIn(rest, {"?"}), hash})
        tail == Min({k \in hash .. n : url[k] # "#"} \cup {n + 1})
        port == IF auth.ok /\ auth.port # None THEN PortOf(SubSeq(url, auth.port[1], to)) ELSE 0
    IN  IF schema \/ connect
        THEN [ok |-> /\ auth.ok /\ port <= MaxPort
                     /\ connect => /\ auth.port # None /\ auth.userinfo = None
                                   /\ mark <= rest /\ hash <= mark + 1 /\ tail > n,
              fields |-> [schema |-> IF schema THEN Field(1, colon - 1) ELSE None,
                          host |-> auth.host, port |-> auth.port,
                          userinfo |-> auth.userinfo,
                          path |-> Field(rest, mark - 1),
                          query |-> Field(mark + 1, hash - 1),
                          fragment |-> Field(tail, n)]]
        ELSE [ok |-> n = 0 \/ url[1] \in {"/", "*"},
              fields |-> [schema |-> None, host |-> None, port |-> None, userinfo |-> None,
                          path |-> Field(1, mark - 1),
                          query |-> Field(mark + 1, hash - 1),
                          fragment |-> Field(tail, n)]]

\* 16 bits count the letters of the URL, and so every offset and length in it.
Short == Len(url) < Width16

\* http_parser_parse_url accepts the URLs that have this form and no other, and
\* reports of each the fields it has: no letter lost at a delimiter, no "@" or
\* "?" taken for another field's, no field left over from one that was given up.
\* The offsets and lengths of a longer URL wrap, and the host and the port are
\* then looked for where they say.
FieldsExact ==
    Short => LET r == http_parser_parse_url(url, connect)
             IN  /\ r.ok <=> Meant.ok /\ Span(1, Len(url), UrlLetters)
                 /\ r.ok => r.fields = Meant.fields /\ r.port <= MaxPort

\* "This is designed to be shared by http_parser_execute() for URL validation":
\* a URL the splitter accepts is one the request parser has let through, however
\* long it is.
SplitterWithinStream ==
    url # <<>> /\ http_parser_parse_url(url, connect).ok => StreamTakes(url, connect)
=============================================================================
