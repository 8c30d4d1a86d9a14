---------------------------- MODULE MCHttpParser ----------------------------
(* Streams of messages for HttpParser, written from what the messages say;   *)
(* and what a script must hear of them, however the reads cut them.          *)
EXTENDS HttpParser

CrLf == <<"CR", "LF">>
Lf == <<"LF">>
Never == 999

\* A header, and those the parser knows.
Folded(name, raw, value) == [name |-> name, raw |-> raw, value |-> value]
H(name, value) == Folded(name, value, value)
Plain == H(<<"x">>, <<"c", "d">>)
Empty == H(<<"c", "on", "x">>, <<>>)
Twice == Folded(<<"p">>, <<"c", "CR", "LF", "SP", "SP", "d">>, <<"c", "SP", "SP", "d">>)
Late == Folded(<<"x", "pgrade">>, <<"CR", "LF", "SP", "d">>, <<"d">>)
ContentLength(digits) == H(<<"c", "on", "tent-length">>, digits)
Chunked == H(<<"t", "ransfer-encoding">>, <<"c", "hunked">>)
Close == H(<<"c", "on", "nection">>, <<"c", "lose">>)
KeepAlive == H(<<"p", "roxy-connection">>, <<"x", ",", "SP", "k", "eep-alive">>)
Upgrade == H(<<"u", "pgrade">>, <<"x">>)
Upgrading == H(<<"c", "on", "nection">>, <<"u", "pgrade">>)

Lines(fields, eol) ==
    FoldLeft(LAMBDA s, f : s \o f.name \o <<":", "SP">> \o f.raw \o eol, <<>>, fields) \o eol

\* What the work buffer must hold of them.
Laid(fields) ==
    FoldLeft(LAMBDA s, f : s \o (IF s = <<>> THEN <<>> ELSE CrLf) \o f.name \o <<":", "SP">> \o f.value,
             <<>>, fields)

\* Bodies: their letters on the wire, and which of those are the script's.
Bare == [bytes |-> <<>>, at |-> {}, whole |-> TRUE, eof |-> FALSE]
Sized(s) == [Bare EXCEPT !.bytes = s, !.at = DOMAIN s]
UntilClose(s) == [Sized(s) EXCEPT !.eof = TRUE, !.whole = FALSE]
Chunk(b, size, s) ==
    [b EXCEPT !.bytes = @ \o size \o CrLf \o s \o CrLf,
              !.at = @ \cup {Len(b.bytes) + Len(size) + 2 + i : i \in DOMAIN s}]
LastChunk(b, trailers) == [b EXCEPT !.bytes = @ \o <<"0">> \o CrLf \o Lines(trailers, CrLf)]

\* A message from its first line, its headers and its body.
Message(head, first, url, fields, eol, body) ==
    LET top == first \o eol \o Lines(fields, eol)
    IN  [bytes |-> top \o body.bytes,
         head |-> head @@ [url |-> url, headers |-> Laid(fields),
             keep |-> ~ body.eof /\ IF head.minor = 1 /\ head.major = 1
                                    THEN Close \notin Range(fields)
                                    ELSE KeepAlive \in Range(fields)],
         headAt |-> Len(top),
         body |-> {Len(top) + i : i \in body.at},
         ends |-> IF body.whole THEN Len(top) + Len(body.bytes) ELSE Never,
         eof |-> body.eof]

Protocol10 == <<"H", "T", "T", "P", "/", "1", ".", "0">>
Protocol11 == <<"H", "T", "T", "P", "/", "1", ".", "1">>
V11 == [major |-> 1, minor |-> 1]
V10 == [major |-> 1, minor |-> 0]
V09 == [major |-> 0, minor |-> 9]

Subject(v, s, up) == v @@ [subject |-> s, upgrade |-> up]
Asks(letters, name, url, up, fields, eol, body) ==
    Message(Subject(V11, name, up), letters \o <<"SP">> \o url \o <<"SP">> \o Protocol11,
            url, fields, eol, body)
Get(url, fields) == Asks(<<"G", "ET">>, "GET", url, FALSE, fields, CrLf, Bare)
Post(fields, body) == Asks(<<"P", "OST">>, "POST", <<"*">>, FALSE, fields, CrLf, body)
Old(fields) == Message(Subject(V10, "GET", FALSE), <<"G", "ET", "SP", "/", "SP">> \o Protocol10,
                       <<"/">>, fields, CrLf, Bare)
Answers(code, digits, text, fields, body) ==
    Message(Subject(V11, code, FALSE), Protocol11 \o <<"SP">> \o digits \o text, <<>>, fields, CrLf, body)

\* A stream of messages; badAt is the letter that no message may hold there.
Sequel(ms, tail, badAt) ==
    LET put(a, m) == [bytes |-> a.bytes \o m.bytes,
                      messages |-> Append(a.messages,
                        [head |-> m.head, headAt |-> Len(a.bytes) + m.headAt,
                         body |-> {Len(a.bytes) + i : i \in m.body},
                         ends |-> Len(a.bytes) + m.ends, eof |-> m.eof])]
        all == FoldLeft(put, [bytes |-> <<>>, messages |-> <<>>], ms)
    IN  [bytes |-> all.bytes \o tail, messages |-> all.messages,
         badFrom |-> Len(all.bytes) + badAt,
         badAt |-> Len(all.bytes) + badAt]
Good(ms) == Sequel(ms, <<>>, Never)
\* The last message is refused at its letter n, when its head has been told.
Broken(m, badAt) == [Good(<<[m EXCEPT !.ends = Never]>>)
                       EXCEPT !.badAt = badAt, !.badFrom = badAt]
\* The messages are followed by the head of one that is refused at its letter n.
Refuses(ms, m, n) == Sequel(ms, m.bytes, n)
Slash == <<"/", "a", "?", "z">>
Small == <<"b", "d">>

RequestStreams == {
    Good(<<Get(Slash, <<Plain>>), Get(<<"*">>, <<>>)>>),
    Good(<<Asks(<<"H", "EAD">>, "HEAD", <<"/">>, FALSE, <<Plain, Empty>>, Lf, Bare),
           Get(<<"/">>, <<>>)>>),
    Good(<<Post(<<ContentLength(<<"2">>)>>, Sized(Small)), Get(<<"/">>, <<Close>>)>>),
    Good(<<Post(<<ContentLength(<<"1", "1", "SP">>)>>,
                Sized(<<"b", "d", "b", "CR", "LF", "d", "d", "b", "b", "d", "G">>))>>),
    Good(<<Post(<<ContentLength(<<"0">>)>>, Bare), Get(<<"/">>, <<Twice>>)>>),
    Good(<<Asks(<<"C", "OPY">>, "COPY", <<"/">>, FALSE, <<Late>>, CrLf, Bare)>>),
    Good(<<Asks(<<"P", "UT">>, "PUT", <<"/">>, FALSE, <<Chunked>>, CrLf,
                LastChunk(Chunk(Chunk(Bare, <<"3">>, <<"b", "CR", "LF">>),
                                <<"0", "2", "SP", "x">>, Small), <<>>)),
           Get(<<"/">>, <<>>)>>),
    Good(<<Post(<<Chunked>>, LastChunk(Chunk(Bare, <<"1">>, <<"b">>), <<Plain>>))>>),
    Good(<<Old(<<KeepAlive>>), Old(<<>>)>>),
    Good(<<Message(Subject(V09, "GET", FALSE), <<"G", "ET", "SP", "/">>, <<"/">>, <<>>, CrLf, Bare),
           Message(Subject(V09, "GET", FALSE), <<"G", "ET", "SP", "SP", "/">>, <<"/">>, <<>>, Lf, Bare)>>),
    Sequel(<<Asks(<<"G", "ET">>, "GET", <<"/">>, TRUE, <<Upgrade, Upgrading>>, CrLf, Bare)>>, <<"b">>, 1),
    Sequel(<<Asks(<<"C", "ONNECT">>, "CONNECT", <<"a", ":", "1">>, TRUE, <<>>, CrLf, Bare)>>, <<"b">>, 1),
    Sequel(<<Asks(<<"P", "OST">>, "POST", <<"/">>, TRUE,
                  <<Upgrade, Upgrading, ContentLength(<<"2">>)>>, CrLf, Sized(Small))>>, <<"b">>, 1),
    Refuses(<<>>, Get(<<"z", "/">>, <<>>), 5),
    Refuses(<<>>, Get(<<"z", ":", "/">>, <<>>), 7),
    Refuses(<<Get(<<"/">>, <<>>)>>, Get(<<"CR">>, <<>>), 4),
    Refuses(<<Get(<<"/">>, <<>>)>>, Asks(<<"x">>, "GET", <<"/">>, FALSE, <<>>, CrLf, Bare), 1),
    Refuses(<<>>, Asks(<<"P", "ET">>, "GET", <<"/">>, FALSE, <<>>, CrLf, Bare), 2),
    Refuses(<<>>, Post(<<ContentLength(<<"1">>), ContentLength(<<"1">>)>>, Bare), 29),
    Refuses(<<>>, Post(<<ContentLength(<<"1", "1", "1", "1">>)>>, Bare), 24),
    Refuses(<<>>, Post(<<ContentLength(<<"1", "SP", "1">>)>>, Bare), 23),
    Refuses(<<>>, Post(<<ContentLength(<<"1", "x">>)>>, Bare), 22),
    Refuses(<<>>, Post(<<ContentLength(<<"x">>)>>, Bare), 21),
    Refuses(<<>>, Post(<<ContentLength(<<"1">>), Chunked>>, Bare), 33),
    Refuses(<<>>, Get(<<"/">>, <<H(<<"x", "@">>, <<>>)>>), 17),
    Refuses(<<>>, Get(<<"/">>, <<H(<<"@">>, <<>>)>>), 16),
    Refuses(<<>>, Get(<<"/">>, <<H(<<"x">>, <<"d", "CR", "d">>)>>), 21),
    Broken(Post(<<Chunked>>, LastChunk(Chunk(Bare, <<"a", "0">>, Small), <<>>)), 27),
    Broken(Post(<<Chunked>>, LastChunk(Chunk(Bare, <<"x">>, Small), <<>>)), 26),
    Broken(Post(<<Chunked>>, LastChunk(Chunk(Bare, <<"1", "x">>, <<"b">>), <<>>)), 27)}

ResponseStreams == {
    Good(<<Answers("200", <<"2", "0", "0">>, <<"SP", "O", "K">>, <<ContentLength(<<"2">>)>>, Sized(Small)),
           Answers("204", <<"2", "0", "4">>, <<>>, <<Plain>>, Bare)>>),
    Good(<<Answers("304", <<"SP", "3", "0", "4">>, <<"SP">>, <<Close>>, Bare)>>),
    Good(<<Answers("100", <<"1", "0", "0">>, <<"SP", "O">>, <<>>, Bare),
           Answers("200", <<"2", "0", "0">>, <<"SP", "O">>, <<Chunked>>,
                   LastChunk(Chunk(Bare, <<"2">>, Small), <<>>))>>),
    Good(<<Answers("200", <<"2", "0", "0">>, <<"SP", "O">>, <<Plain>>, UntilClose(<<"b", "d", "d">>))>>),
    Sequel(<<Answers("101", <<"1", "0", "1">>, <<>>, <<Upgrade, Upgrading>>, Bare)>>, <<"b">>, 1),
    Refuses(<<>>, Answers("1000", <<"1", "0", "0", "0">>, <<>>, <<>>, Bare), 13),
    Refuses(<<>>, Answers("20x", <<"2", "0", "x">>, <<>>, <<>>, Bare), 12),
    Refuses(<<>>, Answers("x", <<"x">>, <<>>, <<>>, Bare), 10)}

\* Names and values that begin or go on like those the parser knows.
Kept(m, keep) == [m EXCEPT !.head.keep = keep]
Connection(value) == H(<<"c", "on", "nection">>, value)
NearStreams == {
    Good(<<Kept(Old(<<H(<<"c", "on", "nection", "SP">>, <<"k", "x", ",", "k", "eep-alive", "SP">>)>>), TRUE),
           Kept(Old(<<Connection(<<"k", "eep-alive", "x">>)>>), FALSE)>>),
    Good(<<Kept(Get(<<"/">>, <<Connection(<<"c", "lose", ",", "@", "k">>)>>), FALSE),
           Get(<<"/">>, <<H(<<"c", "on", "nection", "x">>, <<"c", "lose">>)>>)>>),
    Good(<<Kept(Get(<<"/">>, <<Connection(<<"c", "x">>), Connection(<<"u", "x", ",", "c", "lose">>)>>), FALSE),
           Kept(Old(<<Connection(<<"k", "eep-alive", ",", "c", "lose", ",">>)>>), TRUE)>>),
    Good(<<Get(<<"/">>, <<H(<<"t", "ransfer-encoding">>, <<"c", "hunked", "x">>), H(<<"p", "x">>, <<"x">>)>>),
           Get(<<"/">>, <<H(<<"t", "ransfer-encoding">>, <<"c", "x">>), H(<<"t", "x">>, <<"1">>)>>)>>),
    Good(<<Get(<<"/">>, <<H(<<"t", "ransfer-encoding">>, <<"x">>), Upgrade, H(<<"u", "x">>, <<"1">>)>>)>>),
    Good(<<Post(<<H(<<"t", "ransfer-encoding">>, <<"c", "hunked", "SP">>)>>,
                LastChunk(Chunk(Bare, <<"1", "SP">>, <<"b">>), <<Plain, Empty>>))>>)}

\* First lines that go wrong at their last letter.
Ask(s) == Sequel(<<>>, <<"G", "ET", "SP", "/", "SP">> \o s, 5 + Len(s))
Answer(s) == Sequel(<<>>, s, Len(s))
Http == <<"H", "T", "T", "P", "/">>
Ends(s) == {s \o <<"x">>, s \o <<"1", "x">>, s \o <<"1", ".", "x">>, s \o <<"1", ".", "1", "x">>}
WrongAsks ==
    {Ask(s) : s \in Ends(Http) \cup {<<"x">>, <<"SP", "x">>, Protocol11 \o <<"CR", "x">>}}
    \cup {Sequel(<<>>, <<"G", "ET", "x">>, 3)}
WrongAnswers == {Answer(s) : s \in Ends(Http) \cup {<<"x">>, <<"CR", "LF", "x">>}}

\* A stream that ends too early: the last n letters never come.
Cut(s, n) == [s EXCEPT !.bytes = SubSeq(@, 1, Len(@) - n)]
EarlyEnds == {
    Cut(Good(<<Get(<<"/">>, <<>>), Get(<<"/">>, <<Plain>>)>>), 3),
    Cut(Good(<<Post(<<ContentLength(<<"2">>)>>, Sized(Small))>>), 1),
    Cut(Good(<<Post(<<Chunked>>, LastChunk(Chunk(Bare, <<"2">>, Small), <<>>))>>), 4)}

\* Line ends before and between messages, and a head that is too long.
LooseStreams == {
    Sequel(<<Get(<<"/">>, <<>>)>>, <<"CR", "LF", "x">>, 3),
    Sequel(<<>>, <<"LF", "CR", "x">>, 3)}
Long == [i \in 1 .. MaxHeader + 5 |-> "a"]
LongStreams == {
    [Refuses(<<>>, m, MaxHeader + 1) EXCEPT !.badFrom = MaxHeader \div 2] :
        m \in {Get(<<"/">>, <<H(<<"x">>, Long)>>), Get(<<"/">>, <<H(Long, <<>>)>>),
              Get(<<"/">>, <<H(<<"x">>, Long \o <<"LF">>)>>), Get(<<"/">> \o Long, <<>>)}}

\* Control bytes in values: the first letter of a value is not looked at, the
\* second always is, others are if the value means something, or if a read begins
\* with them.
Skipped(m, n) == [Good(<<m>>) EXCEPT !.badFrom = n]
ControlStreams == {
    Good(<<Get(<<"/">>, <<H(<<"x">>, <<"CTL", "d">>)>>)>>),
    Refuses(<<>>, Get(<<"/">>, <<H(<<"x">>, <<"d", "CTL">>)>>), 20),
    Skipped(Get(<<"/">>, <<H(<<"x">>, <<"d", "d", "CTL", "d", "CTL">>)>>), 21),
    Refuses(<<>>, Get(<<"/">>, <<Connection(<<"x", "d", "d", "CTL">>)>>), 24),
    Skipped(Get(<<"/">>, <<H(<<"t", "ransfer-encoding">>, <<"c", "x", "d", "CTL">>)>>), 23),
    Refuses(<<>>, Get(<<"/">>, <<H(<<"CTL">>, <<>>)>>), 16)}

\* Heads that fit max_header_size, with headers or a URL of one less than 2^16
\* and more.
Wide(n) == [i \in 1 .. n |-> "d"]
WideStreams == {
    [Good(<<m>>) EXCEPT !.badFrom = MaxHeader \div 2] :
        m \in {Get(<<"/">>, <<H(<<"x">>, Wide(n))>>) : n \in {Width16 - 4, Width16}}
              \cup {Get(<<"/">> \o [i \in 1 .. n |-> "a"], <<Plain>>) : n \in {Width16 - 2, Width16 + 1}}}

MCStreams ==
    {s @@ [type |-> "REQUEST"] : s \in
        RequestStreams \cup NearStreams \cup LooseStreams \cup LongStreams
        \cup WideStreams \cup ControlStreams \cup WrongAsks \cup EarlyEnds}
    \cup {s @@ [type |-> "RESPONSE"] : s \in ResponseStreams \cup WrongAnswers}
=============================================================================
