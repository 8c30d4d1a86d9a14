----------------------------- MODULE HttpParser -----------------------------
(***************************************************************************)
(* HTTPParser: http_parser_execute over the reads of one connection, and   *)
(* the callbacks of httpParser.cc that lay the URL and the headers out in  *)
(* the work buffer and call the script.                                    *)
(*                                                                         *)
(* A letter stands for one byte, or for the rest of a word of which the    *)
(* automaton only asks whether it is the one it expects ("ransfer-encoding"*)
(* after "t").  Letters are lower case where the code lowers them.  The    *)
(* build sets HTTP_PARSER_STRICT to 0 (build/http-parser.sh), so           *)
(* STRICT_CHECK checks nothing and NEW_MESSAGE is the start state; it does *)
(* not set NDEBUG, so the asserts are live.                                *)
(***************************************************************************)
EXTENDS HttpUrl, FiniteSetsExt, TLC

CONSTANTS
    Streams,        \* what a peer may send: records [type, bytes, messages, ...]
    ReadSizes,      \* how many letters a read may bring
    MaxHeader,      \* max_header_size
    ULLMax          \* ULLONG_MAX, scaled down

\* A byte is a letter, and a length that one more digit has been added to can
\* be less than ULLMax.
ASSUME HttpAssumption ==
    /\ \A s \in Streams : s.type \in {"REQUEST", "RESPONSE"} /\ s.bytes \in Seq(STRING)
    /\ ReadSizes \subseteq Nat \ {0}
    /\ MaxHeader \in Nat /\ ULLMax \in Nat /\ ULLMax > 16

VARIABLES
    stream,         \* the peer's stream
    driven,         \* "plugin": the socket's reads come here; "execute": the script calls
    polite,         \* the peer sends a message only when the last one was answered
    p, last,        \* the next letter, and the last one of the read in hand
    again,          \* REEXECUTE: the letter at p has been looked at before
    phase,          \* "idle", or "parsing" inside http_parser_execute
    parser,         \* struct http_parser
    mark,           \* the *_mark pointers, 0 for NULL
    ctx,            \* the work buffer from STRING_OFFSET on, and the lengths in it
    heard,          \* what the script has been told of each message
    told            \* the last error given to onError

vars == <<stream, driven, polite, p, last, again, phase, parser, mark, ctx, heard, told>>

RequestLine == {"s_start_req", "s_req_method", "s_req_http_start", "s_req_http_H", "s_req_http_HT",
    "s_req_http_HTT", "s_req_http_HTTP", "s_req_http_major", "s_req_http_dot",
    "s_req_http_minor", "s_req_http_end", "s_req_line_almost_done"} \cup UrlStates
StatusLine == {"s_start_res", "s_res_H", "s_res_HT", "s_res_HTT", "s_res_HTTP",
    "s_res_http_major", "s_res_http_dot", "s_res_http_minor", "s_res_http_end",
    "s_res_first_status_code", "s_res_status_code", "s_res_status_start", "s_res_status",
    "s_res_line_almost_done"}
HeaderStates == {"s_header_field_start", "s_header_field", "s_header_value_discard_ws",
    "s_header_value_discard_ws_almost_done", "s_header_value_discard_lws",
    "s_header_value_start", "s_header_value", "s_header_value_lws", "s_header_almost_done",
    "s_headers_almost_done", "s_headers_done"}
ChunkLine == {"s_chunk_size_start", "s_chunk_size", "s_chunk_parameters", "s_chunk_size_almost_done"}
BodyStates == {"s_chunk_data", "s_chunk_data_almost_done", "s_chunk_data_done",
    "s_body_identity", "s_body_identity_eof", "s_message_done"}

NameStates == {"h_general", "h_C", "h_CON", "h_matching_transfer_encoding",
    "h_matching_upgrade", "h_matching_proxy_connection"}
KnownNames == {"h_connection", "h_content_length", "h_transfer_encoding", "h_upgrade"}
ValueStates == {"h_content_length_num", "h_content_length_ws",
    "h_matching_transfer_encoding_chunked", "h_transfer_encoding_chunked",
    "h_matching_connection_token_start", "h_matching_connection_token",
    "h_matching_connection_keep_alive", "h_matching_connection_close",
    "h_matching_connection_upgrade", "h_connection_keep_alive", "h_connection_close",
    "h_connection_upgrade"}

Flags == {"F_CHUNKED", "F_CONNECTION_KEEP_ALIVE", "F_CONNECTION_CLOSE", "F_CONNECTION_UPGRADE",
          "F_TRAILING", "F_UPGRADE", "F_CONTENTLENGTH"}
Errors == {"OK", "INVALID_EOF_STATE", "HEADER_OVERFLOW", "INVALID_VERSION", "INVALID_STATUS",
    "INVALID_METHOD", "INVALID_URL", "LF_EXPECTED", "INVALID_HEADER_TOKEN",
    "INVALID_CONTENT_LENGTH", "UNEXPECTED_CONTENT_LENGTH", "INVALID_CHUNK_SIZE",
    "INVALID_CONSTANT", "PAUSED"}
Marks == {"url", "header_field", "header_value", "body", "status"}
NoMark == [f \in Marks |-> 0]

EOL == {"CR", "LF"}
Digits == [d \in {"0", "1", "2", "3", "4"} |->
            CASE d = "0" -> 0 [] d = "1" -> 1 [] d = "2" -> 2 [] d = "3" -> 3 [] OTHER -> 4]
unhex == [d \in DOMAIN Digits \cup {"a"} |-> IF d = "a" THEN 10 ELSE Digits[d]]
\* The bytes that IS_HEADER_CHAR leaves out.
Control == {"CTL"}
NotToken == EOL \cup Control \cup {":", ",", "/", "?", "@", "[", "]"}

\* The function that rules <<from, on, to>> stand for.
Rules(rules) ==
    [x \in {<<r[1], r[2]>> : r \in rules} |-> (CHOOSE r \in rules : r[1] = x[1] /\ r[2] = x[2])[3]]

\* The method guessed from its first letter, and what the rest makes of the guess.
MethodFirst == [G |-> "GET", H |-> "HEAD", P |-> "POST", C |-> "CONNECT"]
MethodRest == [GET |-> "ET", HEAD |-> "EAD", POST |-> "OST", PUT |-> "UT",
               CONNECT |-> "ONNECT", COPY |-> "OPY"]
MethodSwitch == Rules({<<"POST", "UT", "PUT">>, <<"CONNECT", "OPY", "COPY">>})

\* What the first letter of a name, and each further one, may be the name of.
NameFirst == [c |-> "h_C", p |-> "h_matching_proxy_connection",
              t |-> "h_matching_transfer_encoding", u |-> "h_matching_upgrade"]
NameNext ==
    Rules({<<"h_C", "on", "h_CON">>,
           <<"h_CON", "nection", "h_connection">>,
           <<"h_CON", "tent-length", "h_content_length">>,
           <<"h_matching_transfer_encoding", "ransfer-encoding", "h_transfer_encoding">>,
           <<"h_matching_upgrade", "pgrade", "h_upgrade">>,
           <<"h_matching_proxy_connection", "roxy-connection", "h_connection">>}
          \cup {<<name, "SP", name>> : name \in KnownNames})

\* The tokens of a Connection header, by their first letter and by the rest.
TokenFirst == [k |-> "h_matching_connection_keep_alive", c |-> "h_matching_connection_close",
               u |-> "h_matching_connection_upgrade"]
TokenRest ==
    Rules({<<"h_matching_connection_keep_alive", "eep-alive", "h_connection_keep_alive">>,
           <<"h_matching_connection_close", "lose", "h_connection_close">>,
           <<"h_matching_connection_upgrade", "pgrade", "h_connection_upgrade">>})
\* The flag a header state stands for when its value ends there.
FlagOf == [h_connection_keep_alive |-> "F_CONNECTION_KEEP_ALIVE",
           h_connection_close |-> "F_CONNECTION_CLOSE",
           h_connection_upgrade |-> "F_CONNECTION_UPGRADE",
           h_transfer_encoding_chunked |-> "F_CHUNKED"]

Look(f, x, other) == IF x \in DOMAIN f THEN f[x] ELSE other

-----------------------------------------------------------------------------
\* http_parser_init
Fresh(type) ==
    [type |-> type, flags |-> {}, state |-> IF type = "REQUEST" THEN "s_start_req" ELSE "s_start_res",
     hstate |-> "h_general", index |-> 0, nread |-> 0, length |-> 0,
     major |-> 0, minor |-> 0, status |-> 0, method |-> "DELETE",
     errno |-> "OK", upgrade |-> FALSE]

EmptyWork == [text |-> <<>>, urllength |-> 0, headerLength |-> 0, lastel |-> "NONE"]

Init ==
    /\ stream \in Streams
    /\ driven \in {"plugin", "execute"} /\ polite \in BOOLEAN
    /\ p = 1 /\ last = 0 /\ again = FALSE /\ phase = "idle"
    /\ parser = Fresh(stream.type) /\ mark = NoMark
    /\ ctx = EmptyWork /\ heard = <<>> /\ told = "none"

\* Does the parser need to see an EOF to find the end of the message?
http_message_needs_eof(q) ==
    /\ q.type = "RESPONSE"
    /\ q.status \div 100 # 1 /\ q.status \notin {204, 304}
    /\ "F_CHUNKED" \notin q.flags /\ q.length = ULLMax

http_should_keep_alive(q) ==
    /\ IF q.major > 0 /\ q.minor > 0 THEN "F_CONNECTION_CLOSE" \notin q.flags
                                     ELSE "F_CONNECTION_KEEP_ALIVE" \in q.flags
    /\ ~ http_message_needs_eof(q)

start_state(q) == IF q.type = "REQUEST" THEN "s_start_req" ELSE "s_start_res"

-----------------------------------------------------------------------------
\* The callbacks of httpParser.cc.  The lengths are uint16_t, soff is not.
Add16(a, b) == (a + b) % Width16

url_cb(c, s) == [c EXCEPT !.text = @ \o s, !.urllength = Add16(@, Len(s))]

header_field_cb(c, s) ==
    LET sep == IF c.lastel = "VALUE" THEN <<"CR", "LF">> ELSE <<>>
    IN  [c EXCEPT !.text = @ \o sep \o s, !.headerLength = Add16(@, Len(sep \o s)),
                  !.lastel = "FIELD"]

header_value_cb(c, s) ==
    LET sep == IF c.lastel # "VALUE" THEN <<":", "SP">> ELSE <<>>
    IN  [c EXCEPT !.text = @ \o sep \o s, !.headerLength = Add16(@, Len(sep \o s)),
                  !.lastel = "VALUE"]

\* The nine bytes before the strings, and the strings, as the script reads them.
HeadBytes(q, c) ==
    [major |-> q.major, minor |-> q.minor,
     subject |-> IF q.type = "REQUEST" THEN q.method ELSE ToString(q.status),
     upgrade |-> q.type = "REQUEST" /\ q.upgrade,
     keep |-> http_should_keep_alive(q),
     url |-> SubSeq(c.text, 1, c.urllength),
     headers |-> SubSeq(c.text, c.urllength + 1, c.urllength + c.headerLength)]

onHeaders(q, c) == Append(heard, [head |-> HeadBytes(q, c), body |-> <<>>, done |-> FALSE])
onBody(s) == [heard EXCEPT ![Len(heard)].body = @ \o s]
onComplete == [heard EXCEPT ![Len(heard)].done = TRUE]

\* The data callbacks, for the letters from the mark to j; a mark that is not
\* set calls nothing.  on_status is not set, so a status is only unmarked.
CallData(f, m, j) ==
    LET s == SubSeq(stream.bytes, m, j)
    IN  /\ ctx' = IF m = 0 THEN ctx
                  ELSE CASE f = "url" -> url_cb(ctx, s)
                         [] f = "header_field" -> header_field_cb(ctx, s)
                         [] f = "header_value" -> header_value_cb(ctx, s)
                         [] OTHER -> ctx
        /\ heard' = IF m # 0 /\ f = "body" /\ s # <<>> THEN onBody(s) ELSE heard
        /\ mark' = [mark EXCEPT ![f] = 0]

Marked(f) == IF mark[f] = 0 THEN p ELSE mark[f]

-----------------------------------------------------------------------------
ch == stream.bytes[p]

\* The parser once the letter at p has been counted: COUNT_HEADER_SIZE(1) at
\* the top of the loop, which REEXECUTE jumps over.
P == IF again \/ parser.state \in BodyStates THEN parser ELSE [parser EXCEPT !.nread = @ + 1]

At(S) == phase = "parsing" /\ p <= last /\ parser.state \in S /\ P.nread <= MaxHeader

\* Go to the next letter, k further, or look at the one there again.
Go(q, k) == parser' = q /\ p' = p + k /\ again' = FALSE /\ UNCHANGED <<phase, told>>
Reexecute(q, k) == parser' = q /\ p' = p + k /\ again' = TRUE /\ UNCHANGED <<phase, told>>

\* RETURN when k letters from p on have been consumed.  What is left of the
\* read is not seen again.  Only Execute tells the script of an error.
Return(q, k) ==
    /\ parser' = q /\ p' = last + 1 /\ again' = FALSE /\ phase' = "idle"
    /\ told' = IF driven = "execute" /\ p + k <= last /\ q.errno # "PAUSED" THEN q.errno ELSE told

Fail(q, e) == Return([q EXCEPT !.errno = e], 0) /\ UNCHANGED <<mark, ctx, heard>>

Quiet == UNCHANGED <<mark, ctx, heard>>
Still == UNCHANGED <<stream, driven, polite, last>>

\* message_complete: onRequest or onResponse, in which the script of a polite
\* peer may pause the parser.  The letter at p is consumed either way.
MessageComplete(q, k) ==
    /\ heard' = onComplete
    /\ UNCHANGED <<mark, ctx>>
    /\ \/ IF q.upgrade THEN Return(q, k) ELSE Go(q, k)
       \/ polite /\ Return([q EXCEPT !.errno = "PAUSED"], k)

HeaderOverflow ==
    /\ phase = "parsing" /\ p <= last /\ P.nread > MaxHeader
    /\ Fail(P, "HEADER_OVERFLOW") /\ Still

-----------------------------------------------------------------------------
\* The read callback of the plugin, or Execute: n letters are in the read
\* buffer.  A parser in error, or paused, returns at once and they are lost.
\* A mark is set again when the last read ended inside of its string.
Boundary(i) == i = 1 \/ \E m \in DOMAIN stream.messages : stream.messages[m].ends + 1 = i

Fault_GoesOn(f) == f = "header_field" /\ parser.state = "s_header_field"
\* The read before this one ended inside a string of kind f.
GoesOn(f) ==
    parser.state \in CASE f = "url" -> UrlStates \ {"s_dead", "s_req_spaces_before_url"}
                       [] f = "header_field" -> {"s_header_field"}
                       [] f = "header_value" -> {"s_header_value"}
                       [] f = "status" -> {"s_res_status"}
                       [] OTHER -> {}
Read(n) ==
    /\ phase = "idle" /\ p + n - 1 <= Len(stream.bytes)
    /\ polite => /\ parser.errno # "PAUSED"
                 /\ \A i \in p + 1 .. p + n - 1 : ~ Boundary(i)
    /\ last' = p + n - 1
    /\ IF parser.errno = "OK"
       THEN /\ phase' = "parsing"
            /\ mark' = [f \in Marks |-> IF GoesOn(f) THEN p ELSE 0]
            /\ UNCHANGED <<p, told>>
       ELSE /\ p' = p + n
            /\ told' = IF driven = "execute" /\ parser.errno # "PAUSED" THEN parser.errno ELSE told
            /\ UNCHANGED <<phase, mark>>
    /\ UNCHANGED <<stream, driven, polite, again, parser, ctx, heard>>

\* The end of the read: the string it ends in is handed over as far as it goes.
EndOfRead ==
    /\ phase = "parsing" /\ p > last
    /\ LET f == IF mark = NoMark THEN "status" ELSE CHOOSE x \in Marks : mark[x] # 0
       IN  CallData(f, mark[f], last)
    /\ phase' = "idle"
    /\ UNCHANGED <<stream, driven, polite, p, last, again, parser, told>>

\* Execute(0), with which a script reports the end of the stream.
ExecuteEnd ==
    /\ driven = "execute" /\ phase = "idle" /\ p > Len(stream.bytes)
    /\ parser.errno = "OK"
    /\ \/ /\ parser.state = "s_body_identity_eof" /\ ~ heard[Len(heard)].done
          /\ heard' = onComplete /\ UNCHANGED <<parser, told>>
       \/ /\ parser.state \notin {"s_body_identity_eof", "s_start_req", "s_start_res"}
          /\ parser' = [parser EXCEPT !.errno = "INVALID_EOF_STATE"]
          /\ told' = "INVALID_EOF_STATE" /\ UNCHANGED heard
    /\ UNCHANGED <<stream, driven, polite, p, last, again, phase, mark, ctx>>

\* HTTPParser.resume and, between two messages, HTTPParser.reset.  A script whose
\* peer has been refused does not go on with the connection.
Resume ==
    /\ phase = "idle" /\ parser.errno = "PAUSED"
    /\ parser' = [parser EXCEPT !.errno = "OK"]
    /\ UNCHANGED <<stream, driven, polite, p, last, again, phase, mark, ctx, heard, told>>

Reset ==
    /\ phase = "idle" /\ Boundary(p) /\ polite /\ parser # Fresh(parser.type)
    /\ parser.errno \in {"OK", "PAUSED"}
    /\ parser' = Fresh(parser.type)
    /\ UNCHANGED <<stream, driven, polite, p, last, again, phase, mark, ctx, heard, told>>

-----------------------------------------------------------------------------
\* message_begin_cb
Begin(q) == Go(q, 1) /\ ctx' = EmptyWork /\ UNCHANGED <<mark, heard>>

StartRequest ==
    /\ At({"s_start_req"})
    /\ LET q == [P EXCEPT !.flags = {}, !.length = ULLMax]
       IN  \/ ch \in EOL /\ Go(P, 1) /\ Quiet
           \/ ch \in DOMAIN MethodFirst
              /\ Begin([q EXCEPT !.method = MethodFirst[ch], !.index = 1, !.state = "s_req_method"])
           \/ ch \notin EOL \cup DOMAIN MethodFirst /\ Fail(q, "INVALID_METHOD")
    /\ Still

Method ==
    /\ At({"s_req_method"})
    /\ LET on == P.index = 1
           method == IF ch = MethodRest[P.method] THEN P.method
                     ELSE Look(MethodSwitch, <<P.method, ch>>, "none")
       IN  \/ ch = "SP" /\ ~ on /\ Go([P EXCEPT !.state = "s_req_spaces_before_url", !.index = 3], 1) /\ Quiet
           \/ on /\ method # "none" /\ Go([P EXCEPT !.method = method, !.index = 2], 1) /\ Quiet
           \/ /\ IF on THEN method = "none" ELSE ch # "SP"
              /\ Fail(P, "INVALID_METHOD")
    /\ Still

UrlBegin ==
    /\ At({"s_req_spaces_before_url"})
    /\ LET from == IF P.method = "CONNECT" THEN "s_req_server_start" ELSE P.state
           s == parse_url_char(from, ch)
       IN  \/ ch = "SP" /\ Go(P, 1) /\ Quiet
           \/ ch # "SP" /\ s = "s_dead" /\ Fail([P EXCEPT !.state = s], "INVALID_URL")
           \/ /\ ch # "SP" /\ s # "s_dead" /\ Go([P EXCEPT !.state = s], 1)
              /\ mark' = [mark EXCEPT !["url"] = Marked("url")]
              /\ UNCHANGED <<ctx, heard>>
    /\ Still

Url ==
    /\ At(UrlStates \ {"s_req_spaces_before_url"})
    /\ LET s == parse_url_char(P.state, ch)
           over == ch \in EOL \cup {"SP"}
           plain == [P EXCEPT !.major = 0, !.minor = 9]
       IN  \/ over /\ P.state \notin UrlMayEnd /\ Fail(P, "INVALID_URL")
           \/ ~ over /\ s = "s_dead" /\ Fail([P EXCEPT !.state = s], "INVALID_URL")
           \/ ~ over /\ s # "s_dead" /\ Go([P EXCEPT !.state = s], 1) /\ Quiet
           \/ /\ over /\ P.state \in UrlMayEnd
              /\ CallData("url", mark["url"], p - 1)
              /\ Go(CASE ch = "SP" -> [P EXCEPT !.state = "s_req_http_start"]
                      [] ch = "CR" -> [plain EXCEPT !.state = "s_req_line_almost_done"]
                      [] OTHER -> [plain EXCEPT !.state = "s_header_field_start"], 1)
    /\ Still

\* "HTTP/" of both first lines: with HTTP_PARSER_STRICT 0 nothing looks at the
\* letters after the H.
Literal == [s_req_http_H |-> "s_req_http_HT", s_req_http_HT |-> "s_req_http_HTT",
            s_req_http_HTT |-> "s_req_http_HTTP", s_req_http_HTTP |-> "s_req_http_major",
            s_res_H |-> "s_res_HT", s_res_HT |-> "s_res_HTT",
            s_res_HTT |-> "s_res_HTTP", s_res_HTTP |-> "s_res_http_major"]

Protocol ==
    /\ \/ /\ At(DOMAIN Literal) /\ Go([P EXCEPT !.state = Literal[P.state]], 1) /\ Quiet
       \/ /\ At({"s_req_http_start"})
          /\ \/ ch = "H" /\ Go([P EXCEPT !.state = "s_req_http_H"], 1) /\ Quiet
             \/ ch = "SP" /\ Go(P, 1) /\ Quiet
             \/ ch \notin {"H", "SP"} /\ Fail(P, "INVALID_CONSTANT")
    /\ Still

Version ==
    /\ At({"s_req_http_major", "s_res_http_major", "s_req_http_dot", "s_res_http_dot",
           "s_req_http_minor", "s_res_http_minor"})
    /\ LET request == P.type = "REQUEST"
           major == P.state \in {"s_req_http_major", "s_res_http_major"}
           dot == P.state \in {"s_req_http_dot", "s_res_http_dot"}
       IN  IF IF dot THEN ch # "." ELSE ch \notin DOMAIN Digits
           THEN Fail(P, "INVALID_VERSION")
           ELSE /\ Go(CASE major -> [P EXCEPT !.major = Digits[ch],
                               !.state = IF request THEN "s_req_http_dot" ELSE "s_res_http_dot"]
                        [] dot -> [P EXCEPT
                               !.state = IF request THEN "s_req_http_minor" ELSE "s_res_http_minor"]
                        [] OTHER -> [P EXCEPT !.minor = Digits[ch],
                               !.state = IF request THEN "s_req_http_end" ELSE "s_res_http_end"], 1)
                /\ Quiet
    /\ Still

RequestLineEnd ==
    /\ \/ /\ At({"s_req_http_end"})
          /\ \/ ch = "CR" /\ Go([P EXCEPT !.state = "s_req_line_almost_done"], 1) /\ Quiet
             \/ ch = "LF" /\ Go([P EXCEPT !.state = "s_header_field_start"], 1) /\ Quiet
             \/ ch \notin EOL /\ Fail(P, "INVALID_VERSION")
       \/ /\ At({"s_req_line_almost_done"})
          /\ \/ ch = "LF" /\ Go([P EXCEPT !.state = "s_header_field_start"], 1) /\ Quiet
             \/ ch # "LF" /\ Fail(P, "LF_EXPECTED")
    /\ Still

\* message_begin is called for the line ends before a response as well.
StartResponse ==
    /\ At({"s_start_res"})
    /\ LET q == [P EXCEPT !.flags = {}, !.length = ULLMax]
       IN  \/ ch = "H" /\ Begin([q EXCEPT !.state = "s_res_H"])
           \/ ch \in EOL /\ Begin(q)
           \/ ch \notin EOL \cup {"H"} /\ Fail(q, "INVALID_CONSTANT")
    /\ Still

StatusCode ==
    /\ \/ /\ At({"s_res_http_end"})
          /\ \/ ch = "SP" /\ Go([P EXCEPT !.state = "s_res_first_status_code"], 1) /\ Quiet
             \/ ch # "SP" /\ Fail(P, "INVALID_VERSION")
       \/ /\ At({"s_res_first_status_code"})
          /\ \/ ch \in DOMAIN Digits
                /\ Go([P EXCEPT !.status = Digits[ch], !.state = "s_res_status_code"], 1) /\ Quiet
             \/ ch = "SP" /\ Go(P, 1) /\ Quiet
             \/ ch \notin DOMAIN Digits \cup {"SP"} /\ Fail(P, "INVALID_STATUS")
       \/ /\ At({"s_res_status_code"})
          /\ \/ /\ ch \in DOMAIN Digits
                /\ LET q == [P EXCEPT !.status = @ * 10 + Digits[ch]]
                   IN  IF q.status > 999 THEN Fail(q, "INVALID_STATUS") ELSE Go(q, 1) /\ Quiet
             \/ ch = "SP" /\ Go([P EXCEPT !.state = "s_res_status_start"], 1) /\ Quiet
             \/ ch \in EOL /\ Reexecute([P EXCEPT !.state = "s_res_status_start"], 0) /\ Quiet
             \/ ch \notin DOMAIN Digits \cup EOL \cup {"SP"} /\ Fail(P, "INVALID_STATUS")
    /\ Still

StatusText ==
    /\ \/ /\ At({"s_res_status_start"})
          /\ mark' = [mark EXCEPT !["status"] = Marked("status")]
          /\ LET q == [P EXCEPT !.state = "s_res_status"]
             IN  IF ch \in EOL THEN Reexecute(q, 0) ELSE Go(q, 1)
          /\ UNCHANGED <<ctx, heard>>
       \/ /\ At({"s_res_status"}) /\ ch \notin EOL /\ Go(P, 1) /\ Quiet
       \/ /\ At({"s_res_status"}) /\ ch \in EOL
          /\ CallData("status", mark["status"], p - 1)
          /\ Go([P EXCEPT !.state = IF ch = "CR" THEN "s_res_line_almost_done"
                                    ELSE "s_header_field_start"], 1)
       \/ /\ At({"s_res_line_almost_done"})
          /\ Go([P EXCEPT !.state = "s_header_field_start"], 1) /\ Quiet
    /\ Still

-----------------------------------------------------------------------------
HeaderFieldStart ==
    /\ At({"s_header_field_start"})
    /\ LET done == [P EXCEPT !.state = "s_headers_almost_done"]
       IN  \/ ch = "CR" /\ Go(done, 1) /\ Quiet
           \/ ch = "LF" /\ Reexecute(done, 0) /\ Quiet
           \/ ch \in NotToken \ EOL /\ Fail(P, "INVALID_HEADER_TOKEN")
           \/ /\ ch \notin NotToken
              /\ mark' = [mark EXCEPT !["header_field"] = Marked("header_field")]
              /\ Go([P EXCEPT !.hstate = Look(NameFirst, ch, "h_general"),
                              !.state = "s_header_field"], 1)
              /\ UNCHANGED <<ctx, heard>>
    /\ Still

\* Where the run of letters from p on that a header loop consumes ends.
RunTo(stops) ==
    LET s == {i \in p .. last : stream.bytes[i] \in stops}
    IN  IF s = {} THEN last + 1 ELSE Min(s)

\* The loop of s_header_field: the rest of the name in this read.
HeaderField ==
    /\ At({"s_header_field"})
    /\ LET stop == RunTo(NotToken)
           q == [P EXCEPT !.nread = @ + stop - p,
                          !.hstate = FoldLeft(LAMBDA h, c : Look(NameNext, <<h, c>>, "h_general"), @,
                                              SubSeq(stream.bytes, p, stop - 1))]
       IN  \/ q.nread > MaxHeader /\ Fail(q, "HEADER_OVERFLOW")
           \/ q.nread <= MaxHeader /\ stop > last /\ Go(q, stop - p) /\ Quiet
           \/ /\ q.nread <= MaxHeader /\ stop <= last /\ stream.bytes[stop] = ":"
              /\ CallData("header_field", mark["header_field"], stop - 1)
              /\ Go([q EXCEPT !.state = "s_header_value_discard_ws"], stop - p + 1)
           \/ /\ q.nread <= MaxHeader /\ stop <= last /\ stream.bytes[stop] # ":"
              /\ Fail(q, "INVALID_HEADER_TOKEN")
    /\ Still

\* What the first letter of a value says, by the name it is the value of.
ValueFirst(q, c) ==
    CASE q.hstate = "h_upgrade" -> [q EXCEPT !.flags = @ \cup {"F_UPGRADE"}, !.hstate = "h_general"]
      [] q.hstate = "h_transfer_encoding" ->
           [q EXCEPT !.hstate = IF c = "c" THEN "h_matching_transfer_encoding_chunked"
                                ELSE "h_general"]
      [] q.hstate = "h_content_length" ->
           IF c \notin DOMAIN Digits THEN [q EXCEPT !.errno = "INVALID_CONTENT_LENGTH"]
           ELSE IF "F_CONTENTLENGTH" \in q.flags
           THEN [q EXCEPT !.errno = "UNEXPECTED_CONTENT_LENGTH"]
           ELSE [q EXCEPT !.flags = @ \cup {"F_CONTENTLENGTH"}, !.length = Digits[c],
                          !.hstate = "h_content_length_num"]
      [] q.hstate = "h_connection" ->
           [q EXCEPT !.hstate = Look(TokenFirst, c, "h_matching_connection_token")]
      [] q.hstate = "h_matching_connection_token_start" -> q
      [] OTHER -> [q EXCEPT !.hstate = "h_general"]

Fault_AddDigit(q, base, digit) == [q EXCEPT !.length = (@ * base + digit) % (ULLMax + 1)]
\* The check for overflow is made on the length before the digit is added.
AddDigit(q, base, digit) ==
    IF (ULLMax - base) \div base < q.length
    THEN [q EXCEPT !.errno = "INVALID_CONTENT_LENGTH"]
    ELSE [q EXCEPT !.length = (@ * base + digit) % (ULLMax + 1)]

\* Each further letter of a value.
ValueNext(q, c) ==
    IF q.errno # "OK" \/ q.hstate = "h_general" THEN q ELSE
    CASE q.hstate = "h_content_length_num" ->
           IF c = "SP" THEN [q EXCEPT !.hstate = "h_content_length_ws"]
           ELSE IF c \in DOMAIN Digits THEN AddDigit(q, 10, Digits[c])
           ELSE [q EXCEPT !.errno = "INVALID_CONTENT_LENGTH"]
      [] q.hstate = "h_content_length_ws" ->
           IF c = "SP" THEN q ELSE [q EXCEPT !.errno = "INVALID_CONTENT_LENGTH"]
      [] q.hstate = "h_matching_transfer_encoding_chunked" ->
           [q EXCEPT !.hstate = IF c = "hunked" THEN "h_transfer_encoding_chunked" ELSE "h_general"]
      [] q.hstate = "h_transfer_encoding_chunked" ->
           IF c = "SP" THEN q ELSE [q EXCEPT !.hstate = "h_general"]
      [] q.hstate = "h_matching_connection_token_start" ->
           [q EXCEPT !.hstate = CASE c \in DOMAIN TokenFirst -> TokenFirst[c]
                                  [] c = "SP" -> @
                                  [] c \in NotToken -> "h_general"
                                  [] OTHER -> "h_matching_connection_token"]
      [] q.hstate = "h_matching_connection_token" ->
           IF c = "," THEN [q EXCEPT !.hstate = "h_matching_connection_token_start"] ELSE q
      [] q.hstate \in DOMAIN FlagOf \ {"h_transfer_encoding_chunked"} ->
           IF c = "," THEN [q EXCEPT !.flags = @ \cup {FlagOf[q.hstate]},
                                     !.hstate = "h_matching_connection_token_start"]
           ELSE IF c = "SP" THEN q ELSE [q EXCEPT !.hstate = "h_matching_connection_token"]
      [] OTHER -> [q EXCEPT !.hstate = Look(TokenRest, <<q.hstate, c>>, "h_matching_connection_token")]

\* The white space before a value, and its first letter.
HeaderValueStart ==
    /\ \/ /\ At({"s_header_value_discard_ws"})
          /\ \/ ch = "SP" /\ Go(P, 1)
             \/ ch = "CR" /\ Go([P EXCEPT !.state = "s_header_value_discard_ws_almost_done"], 1)
             \/ ch = "LF" /\ Go([P EXCEPT !.state = "s_header_value_discard_lws"], 1)
          /\ Quiet
       \/ /\ At({"s_header_value_discard_ws", "s_header_value_start"})
          /\ P.state = "s_header_value_discard_ws" => ch \notin EOL \cup {"SP"}
          /\ LET q == ValueFirst([P EXCEPT !.state = "s_header_value"], ch)
             IN  IF q.errno # "OK" THEN Fail(q, q.errno)
                 ELSE /\ mark' = [mark EXCEPT !["header_value"] = Marked("header_value")]
                      /\ Go(q, 1) /\ UNCHANGED <<ctx, heard>>
    /\ Still

\* Where the loop of s_header_value stops in this read: at a control byte, if it
\* looks at it, or at the end of the line.  A letter met in h_general is the last
\* it looks at: memchr takes it to the end, over control bytes, and over the end
\* itself if that is max_header_size away.
ValueEnd ==
    LET eol == RunTo(EOL)
        jumps(i) == /\ i >= p
                    /\ FoldLeft(ValueNext, P, SubSeq(stream.bytes, p, i - 1)).hstate = "h_general"
        bad == {i \in p .. eol - 1 : stream.bytes[i] \in Control /\ ~ jumps(i - 1)}
    IN  CASE bad # {} -> Min(bad)
          [] bad = {} /\ (\E i \in p .. eol - MaxHeader : jumps(i)) -> last + 1
          [] OTHER -> eol

\* The loop of s_header_value: the rest of the value in this read.  Up to a CR
\* it is handed over before its length is checked, up to an LF after that.
HeaderValue ==
    /\ At({"s_header_value"})
    /\ LET stop == ValueEnd
           bad == stop <= last /\ stream.bytes[stop] \in Control
           cr == stop <= last /\ stream.bytes[stop] = "CR"
           v == FoldLeft(ValueNext, P, SubSeq(stream.bytes, p, stop - 1))
           q == [v EXCEPT !.nread = @ + stop - p]
           over == q.nread > MaxHeader
           end == [q EXCEPT !.state = "s_header_almost_done"]
       IN  \/ v.errno # "OK" /\ Fail(v, v.errno)
           \/ v.errno = "OK" /\ bad /\ Fail([v EXCEPT !.hstate = P.hstate], "INVALID_HEADER_TOKEN")
           \/ v.errno = "OK" /\ ~ bad /\ over /\ ~ cr /\ Fail(q, "HEADER_OVERFLOW")
           \/ v.errno = "OK" /\ ~ over /\ stop > last /\ Go(q, stop - p) /\ Quiet
           \/ /\ v.errno = "OK" /\ ~ bad /\ stop <= last /\ (over => cr)
              /\ CallData("header_value", mark["header_value"], stop - 1)
              /\ CASE over -> Return([end EXCEPT !.errno = "HEADER_OVERFLOW"], 0)
                   [] cr /\ ~ over -> Go(end, stop - p + 1)
                   [] OTHER -> Reexecute(end, stop - p)
    /\ Still

\* The end of a header counts only when the next line does not continue it.
Finished(q) ==
    [q EXCEPT !.flags = @ \cup (IF q.hstate \in DOMAIN FlagOf THEN {FlagOf[q.hstate]} ELSE {}),
              !.state = "s_header_field_start"]

HeaderEnd ==
    /\ \/ /\ At({"s_header_almost_done"})
          /\ \/ ch = "LF" /\ Go([P EXCEPT !.state = "s_header_value_lws"], 1) /\ Quiet
             \/ ch # "LF" /\ Fail(P, "LF_EXPECTED")
       \/ /\ At({"s_header_value_lws"})
          /\ Reexecute(IF ch = "SP" THEN [P EXCEPT !.state = "s_header_value_start"]
                                    ELSE Finished(P), 0)
          /\ Quiet
       \/ /\ At({"s_header_value_discard_ws_almost_done"})
          /\ Go([P EXCEPT !.state = "s_header_value_discard_lws"], 1) /\ Quiet
       \/ /\ At({"s_header_value_discard_lws"}) /\ ch = "SP"
          /\ Go([P EXCEPT !.state = "s_header_value_discard_ws"], 1) /\ Quiet
       \/ /\ At({"s_header_value_discard_lws"}) /\ ch # "SP"
          /\ CallData("header_value", Marked("header_value"), p - 1)
          /\ Reexecute(Finished(P), 0)
    /\ Still

\* The empty line: the end of the trailers, or the headers are complete.
HeadersAlmostDone ==
    /\ At({"s_headers_almost_done"})
    /\ LET switching == {"F_UPGRADE", "F_CONNECTION_UPGRADE"} \subseteq P.flags
           q == [P EXCEPT !.state = "s_headers_done",
                          !.upgrade = IF switching THEN P.type = "REQUEST" \/ P.status = 101
                                      ELSE P.method = "CONNECT"]
       IN  \/ /\ "F_TRAILING" \in P.flags
              /\ Reexecute([P EXCEPT !.state = "s_message_done"], 0) /\ Quiet
           \/ /\ "F_TRAILING" \notin P.flags /\ {"F_CHUNKED", "F_CONTENTLENGTH"} \subseteq P.flags
              /\ Fail(P, "UNEXPECTED_CONTENT_LENGTH")
           \/ /\ "F_TRAILING" \notin P.flags /\ ~ {"F_CHUNKED", "F_CONTENTLENGTH"} \subseteq P.flags
              /\ heard' = onHeaders(q, ctx)
              /\ Reexecute(q, 0)
              /\ UNCHANGED <<mark, ctx>>
    /\ Still

Fault_AfterHeaders == P
\* The count of the headers ends with them.
AfterHeaders == [P EXCEPT !.nread = 0]

\* What follows the headers: nothing, a body of known length, chunks, or all
\* that comes until the peer closes.  headers_complete_cb always returns 0, so
\* F_SKIPBODY is never set.
HeadersDone ==
    /\ At({"s_headers_done"})
    /\ LET q == AfterHeaders
           next == [q EXCEPT !.state = start_state(q)]
           chunked == "F_CHUNKED" \in q.flags
           hasBody == chunked \/ q.length \notin {0, ULLMax}
           leave == q.upgrade /\ (q.method = "CONNECT" \/ ~ hasBody)
       IN  \/ leave /\ MessageComplete(next, 1)
           \/ /\ ~ leave /\ chunked
              /\ Go([q EXCEPT !.state = "s_chunk_size_start"], 1) /\ Quiet
           \/ /\ ~ leave /\ ~ chunked /\ hasBody
              /\ Go([q EXCEPT !.state = "s_body_identity"], 1) /\ Quiet
           \/ /\ ~ leave /\ ~ hasBody
              /\ IF q.length = 0 \/ ~ http_message_needs_eof(q) THEN MessageComplete(next, 1)
                 ELSE Go([q EXCEPT !.state = "s_body_identity_eof"], 1) /\ Quiet
    /\ Still

-----------------------------------------------------------------------------
\* How much of a body of known length, or of a chunk, this read holds.
ToRead == Min({P.length, last - p + 1})

BodyIdentity ==
    /\ At({"s_body_identity"})
    /\ LET n == ToRead
           q == [P EXCEPT !.length = @ - n]
       IN  \/ /\ q.length > 0 /\ Go(q, n)
              /\ mark' = [mark EXCEPT !["body"] = Marked("body")] /\ UNCHANGED <<ctx, heard>>
           \/ /\ q.length = 0
              /\ CallData("body", Marked("body"), p + n - 1)
              /\ Reexecute([q EXCEPT !.state = "s_message_done"], n - 1)
    /\ Still

BodyIdentityEof ==
    /\ At({"s_body_identity_eof"})
    /\ mark' = [mark EXCEPT !["body"] = Marked("body")]
    /\ Go(P, last - p + 1) /\ UNCHANGED <<ctx, heard>> /\ Still

MessageDone ==
    /\ At({"s_message_done"})
    /\ MessageComplete([P EXCEPT !.state = start_state(P)], 1) /\ Still

ChunkSize ==
    /\ \/ /\ At({"s_chunk_size_start"})
          /\ IF ch \notin DOMAIN unhex THEN Fail(P, "INVALID_CHUNK_SIZE")
             ELSE Go([P EXCEPT !.length = unhex[ch], !.state = "s_chunk_size"], 1) /\ Quiet
       \/ /\ At({"s_chunk_size"})
          /\ LET q == AddDigit(P, 16, unhex[ch])
             IN  CASE ch = "CR" -> Go([P EXCEPT !.state = "s_chunk_size_almost_done"], 1) /\ Quiet
                   [] ch = "SP" -> Go([P EXCEPT !.state = "s_chunk_parameters"], 1) /\ Quiet
                   [] ch \in DOMAIN unhex -> IF q.errno = "OK" THEN Go(q, 1) /\ Quiet
                                                               ELSE Fail(q, q.errno)
                   [] OTHER -> Fail(P, "INVALID_CHUNK_SIZE")
       \/ /\ At({"s_chunk_parameters"})
          /\ Go([P EXCEPT !.state = IF ch = "CR" THEN "s_chunk_size_almost_done" ELSE @], 1)
          /\ Quiet
       \/ /\ At({"s_chunk_size_almost_done"})
          /\ Go(IF P.length = 0
                THEN [P EXCEPT !.nread = 0, !.flags = @ \cup {"F_TRAILING"},
                               !.state = "s_header_field_start"]
                ELSE [P EXCEPT !.nread = 0, !.state = "s_chunk_data"], 1)
          /\ Quiet
    /\ Still

ChunkData ==
    /\ \/ /\ At({"s_chunk_data"})
          /\ LET n == ToRead
             IN  Go([P EXCEPT !.length = @ - n,
                       !.state = IF P.length = n THEN "s_chunk_data_almost_done" ELSE @], n)
          /\ mark' = [mark EXCEPT !["body"] = Marked("body")] /\ UNCHANGED <<ctx, heard>>
       \/ /\ At({"s_chunk_data_almost_done"})
          /\ CallData("body", mark["body"], p - 1)
          /\ Go([P EXCEPT !.state = "s_chunk_data_done"], 1)
       \/ /\ At({"s_chunk_data_done"})
          /\ Go([P EXCEPT !.nread = 0, !.state = "s_chunk_size_start"], 1) /\ Quiet
    /\ Still

-----------------------------------------------------------------------------
Headers == \/ HeaderFieldStart \/ HeaderField \/ HeaderValueStart \/ HeaderValue
           \/ HeaderEnd \/ HeadersAlmostDone \/ HeadersDone
Body == BodyIdentity \/ BodyIdentityEof \/ MessageDone \/ ChunkSize \/ ChunkData
Request == StartRequest \/ Method \/ UrlBegin \/ Url \/ RequestLineEnd
Response == StartResponse \/ StatusCode \/ StatusText
Script == ExecuteEnd \/ Resume \/ Reset

Next ==
    \/ \E n \in ReadSizes : Read(n)
    \/ EndOfRead \/ HeaderOverflow \/ Protocol \/ Version
    \/ Request \/ Response \/ Headers \/ Body \/ Script

Spec == Init /\ [][Next]_vars

-----------------------------------------------------------------------------
\* Every variable has its type, and the parser never looks beyond the read.
TypeOK ==
    /\ parser.flags \subseteq Flags /\ parser.errno \in Errors
    /\ parser.state \in RequestLine \cup StatusLine \cup HeaderStates \cup ChunkLine \cup BodyStates
    /\ parser.hstate \in NameStates \cup KnownNames \cup ValueStates
    /\ parser.length \in 0 .. ULLMax
    /\ ctx.urllength \in 0 .. Width16 - 1 /\ ctx.headerLength \in 0 .. Width16 - 1
    /\ phase \in {"idle", "parsing"} /\ last <= Len(stream.bytes) /\ p <= last + 1

\* The URL and the headers the script is given of a head.  Both lengths are 16
\* bits wide: of a URL or of headers of more than 65535 bytes it is given what is
\* left when their length has wrapped, and the headers begin where the URL then
\* ends.
Counted(head) ==
    LET text == head.url \o head.headers
        u == Len(head.url) % Width16
        h == Len(head.headers) % Width16
    IN  [head EXCEPT !.url = SubSeq(text, 1, u), !.headers = SubSeq(text, u + 1, u + h)]

\* What a script must have heard of the first i letters: of each message whose
\* headers are there the head, the letters of the body, and that it is done.
Expected(i) ==
    LET told_of == {m \in DOMAIN stream.messages : stream.messages[m].headAt <= i}
        letters(m) == SelectSeq([k \in 1 .. i |-> k], LAMBDA k : k \in stream.messages[m].body)
    IN  [m \in told_of |->
          [head |-> Counted(stream.messages[m].head),
           body |-> [k \in DOMAIN letters(m) |-> stream.bytes[letters(m)[k]]],
           done |-> stream.messages[m].ends <= i]]

\* Between two reads the script has heard all that has come, and only that:
\* where the reads cut the stream, in a name, before a line end or in a chunk,
\* makes no difference, and no message waits for the one behind it.  A body
\* that ends with the stream is done when Execute is told of the end.  A URL or
\* headers that max_header_size lets pass and 16 bits do not count (Counted) are
\* the exception; and a parser that has refused the stream has no more to tell.
Prompt ==
    phase = "idle" /\ parser.errno \in {"OK", "PAUSED"}
        => \/ heard = Expected(p - 1)
           \/ /\ p > Len(stream.bytes) /\ stream.messages[Len(heard)].eof
              /\ heard = [Expected(p - 1) EXCEPT ![Len(heard)].done = TRUE]

\* A stream is refused at the letter that makes it wrong, not before and not
\* later; a head that is too long may be refused before its limit, because a
\* read that ends within a header is counted once more.  What follows a switch
\* of protocols in the same read is not looked at; and of control bytes in a
\* value that means nothing to the parser, which are wrong, only the second letter
\* of the value and the first of a read are looked at: a stream with another one
\* is refused from there on (badFrom) or not at all (badAt), as the reads cut it.
Refused ==
    LET refused == parser.errno \notin {"OK", "PAUSED", "INVALID_EOF_STATE"}
        switched == \E m \in DOMAIN heard : heard[m].head.upgrade \/ heard[m].head.subject = "101"
    IN  /\ refused => p > stream.badFrom
        /\ phase = "idle" /\ p > stream.badAt => refused \/ switched

\* What the asserts of http_parser_execute say, which are compiled in: a chunk
\* begins with a fresh count, lengths are known where a body is read, and there
\* is at most one string to go on with when the read ends; and no variable
\* leaves its type.
AssertsHold ==
    /\ TypeOK
    /\ phase = "parsing" /\ p <= last /\ P.state = "s_chunk_size_start" => P.nread = 1
    /\ parser.state \in (ChunkLine \cup BodyStates) \ {"s_body_identity", "s_body_identity_eof",
                         "s_message_done"} => "F_CHUNKED" \in parser.flags
    /\ parser.state \in {"s_body_identity", "s_chunk_data"} => parser.length \notin {0, ULLMax}
    /\ parser.state = "s_chunk_data_almost_done" => parser.length = 0
    /\ phase = "parsing" /\ p > last => Cardinality({f \in Marks : mark[f] # 0}) <= 1
    /\ parser.state = "s_header_value" =>
         parser.hstate \notin {"h_connection", "h_transfer_encoding"}
=============================================================================
