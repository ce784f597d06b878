----------------------------- MODULE HttpMessage -----------------------------
(***************************************************************************)
(* HTTP messages and their form on the wire (rko-util/src/http/: wire.rs,  *)
(* headers.rs, request.rs, response.rs, error.rs, version.rs, and what     *)
(* parse.rs takes from httparse).  A stream is a sequence of tokens: the   *)
(* request or status line, a header line, the empty line, one body byte.   *)
(* A header value is a sequence of strings, so that a number can be        *)
(* formatted and parsed; numbers are written in base Base.                 *)
(***************************************************************************)
EXTENDS Integers, Sequences, FiniteSetsExt

CONSTANT Base               \* ten in the code

Digit == <<"0", "1", "2", "3", "4", "5", "6", "7", "8", "9">>

\* The digits of val from the last one back, at most `width` of them.
FormatUsize(val, width) ==
    LET digits[pos \in 0 .. width] ==
            [v \in 0 .. val |->
                IF pos = 0 \/ v = 0 THEN <<>>
                ELSE Append(digits[pos - 1][v \div Base], Digit[(v % Base) + 1])]
    IN  IF val = 0 THEN <<"0">> ELSE digits[width][val]

\* str::parse: nothing unless all of it is digits.
IsUsize(v) == v # <<>> /\ \A i \in DOMAIN v : v[i] \in {Digit[d] : d \in 1 .. Base}
ParseUsize(v) ==
    LET value[n \in 0 .. Len(v)] ==
            IF n = 0 THEN 0
            ELSE Base * value[n - 1] + (CHOOSE d \in 1 .. Base : Digit[d] = v[n]) - 1
    IN  value[Len(v)]

-----------------------------------------------------------------------------
\* eq_ignore_ascii_case, for the words that occur here.
Lower(name) ==
    CASE name = "CONTENT-LENGTH" -> "content-length"
      [] name = "Content-Length" -> "content-length"
      [] name = "CONNECTION"     -> "connection"
      [] name = "Connection"     -> "connection"
      [] name = "Host"           -> "host"
      [] name = "CLOSE"          -> "close"
      [] OTHER                   -> name

Header(name, value) == [t |-> "header", name |-> name, value |-> value]

\* Mutant of Get: the last header of the name wins.
GetLast(headers, name) ==
    LET is == {i \in DOMAIN headers : Lower(headers[i].name) = Lower(name)}
    IN  IF is = {} THEN <<>> ELSE <<headers[Max(is)].value>>

\* The first value of the name, if there is one.
Get(headers, name) ==
    LET is == {i \in DOMAIN headers : Lower(headers[i].name) = Lower(name)}
    IN  IF is = {} THEN <<>> ELSE <<headers[Min(is)].value>>

\* content_length().unwrap_or(0)
ContentLength(headers) ==
    LET found == Get(headers, "Content-Length")
    IN  IF found # <<>> /\ IsUsize(found[1]) THEN ParseUsize(found[1]) ELSE 0

ConnectionIs(headers, option) ==
    LET found == Get(headers, "Connection")
    IN  found # <<>> /\ Len(found[1]) = 1 /\ Lower(found[1][1]) = option

\* handle_connection: HTTP/1.1 stays open unless told otherwise, HTTP/1.0 closes.
KeepAlive(request) ==
    CASE request.version = "1.1" -> ~ConnectionIs(request.headers, "close")
      [] request.version = "1.0" -> ConnectionIs(request.headers, "keep-alive")

-----------------------------------------------------------------------------
\* RequestBuilder::body and ResponseBuilder::body, no allocation having failed.
Built(b) == [b EXCEPT !.path = IF b.path = "none" THEN "/" ELSE b.path]
Response(status, headers, body) ==
    [status |-> status, version |-> "1.1", headers |-> headers, body |-> body]

\* HttpError::to_response, with a text of one byte.
ErrorResponse(status) ==
    Response(status, <<Header("Content-Type", <<"text/plain">>),
                       Header("Connection", <<"close">>)>>, <<"text">>)

\* Every IPv6 address is written as [::1].
FormatHost(addr) ==
    CASE addr.family = "v4" ->
            <<addr.ip>> \o IF addr.port = 80 THEN <<>> ELSE <<":">> \o FormatUsize(addr.port, 5)
      [] addr.family = "v6" -> <<"[::1]">>

Empty == [t |-> "empty"]
Bytes(body) == [i \in DOMAIN body |-> [t |-> "byte", value |-> body[i]]]
LengthHeader(body) == Header("Content-Length", FormatUsize(Len(body), 20))

\* The buffers handed to write_all: the head, and the body unless it is empty.
WriteRequest(req, host) ==
    <<<<[t |-> "line", method |-> req.method, path |-> req.path, version |-> req.version],
        Header("Host", host)>>
      \o (IF req.body # <<>> THEN <<LengthHeader(req.body)>> ELSE <<>>)
      \o req.headers \o <<Empty>>>>
    \o IF req.body # <<>> THEN <<Bytes(req.body)>> ELSE <<>>

WriteResponse(resp) ==
    <<<<[t |-> "line", status |-> resp.status, version |-> resp.version],
        LengthHeader(resp.body)>>
      \o resp.headers \o <<Empty>>>>
    \o IF resp.body # <<>> THEN <<Bytes(resp.body)>> ELSE <<>>

-----------------------------------------------------------------------------
\* httparse on data(): a head begins with its line and ends with the empty line.
Verdict(data) ==
    LET ends == {i \in DOMAIN data : data[i].t = "empty"}
        head == IF ends = {} THEN Len(data) + 1 ELSE Min(ends)
    IN  IF data[1].t # "line" \/ \E i \in 2 .. head - 1 : data[i].t # "header"
        THEN "error"
        ELSE IF head > Len(data) THEN "partial" ELSE "complete"

\* A complete head and read_body's first part: what the buffer has of the body,
\* how much is missing, and what is left in the buffer.
Parsed(data) ==
    LET head == Min({i \in DOMAIN data : data[i].t = "empty"})
        headers == SubSeq(data, 2, head - 1)
        length == ContentLength(headers)
        from_buf == Min({Len(data) - head, length})
    IN  [headers |-> headers, length |-> length, remaining |-> length - from_buf,
         body |-> SubSeq(data, head + 1, head + from_buf),
         left |-> SubSeq(data, head + from_buf + 1, Len(data))]

\* What a parse makes of the buffer.
Parse(data) ==
    [verdict |-> Verdict(data),
     message |-> IF Verdict(data) = "complete" THEN Parsed(data) ELSE <<>>]
=============================================================================
