---------------------------- MODULE HttpExchange ----------------------------
(***************************************************************************)
(* The HTTP client and the HTTP server at the two ends of one connection   *)
(* (rko-util/src/http/: client.rs, server.rs, parse.rs, buf_reader.rs,     *)
(* wire.rs; TcpStream of rko-core/src/kasync/net).  The caller sends one   *)
(* request with send, or two with send_on over the stream it connected,    *)
(* and drops the stream at the first error.  Either end reads any part of  *)
(* what is there, so write_all's short writes are one step.  TCP is        *)
(* external: a stream closed with data unread resets the peer.             *)
(***************************************************************************)
EXTENDS HttpMessage

CONSTANTS Plans,            \* what callers do: [addr, fresh, requests]
          Answers,          \* responses of the handler
          MaxHead,          \* max_header_size, the size of both BufReaders
          MaxBody           \* max_body_size

\* Headers as callers and handlers give them; a length has at most twenty digits.
Field == [t : {"header"}, name : STRING, value : Seq(STRING)]
Power[k \in 0 .. 20] == IF k = 0 THEN 1 ELSE Base * Power[k - 1]

\* A caller gives no length to a request without a body.
ASSUME ExchangeAssumption ==
    /\ Base \in 2 .. 10 /\ MaxHead \in Nat \ {0} /\ MaxBody \in Nat
    /\ Plans \subseteq
          [addr : [family : {"v4", "v6"}, ip : STRING, port : Nat], fresh : BOOLEAN,
           requests : Seq([method : STRING, path : STRING, version : {"1.0", "1.1"},
                           headers : Seq(Field), body : Seq(STRING)]) \ {<<>>}]
    /\ \A p \in Plans : \A i \in DOMAIN p.requests :
          LET r == p.requests[i] IN
          /\ Len(r.body) < Power[20]
          /\ r.body = <<>> => \A j \in DOMAIN r.headers :
                                 Lower(r.headers[j].name) # "content-length"
    /\ Answers \subseteq
          [status : STRING, version : STRING, headers : Seq(Field), body : Seq(STRING)]
    /\ \A a \in Answers : Len(a.body) < Power[20]

VARIABLES plan,             \* this caller's
          cpc, cout,        \* where send_on_inner is; buffers still to be written
          cbuf, cbody,      \* the client's BufReader; the response being read
          results,          \* what the calls returned, in order
          up, down,         \* the tokens in flight to the server, to the client
          spc, sout,        \* where the server is; buffers still to be written
          sbuf, sreq,       \* the server's BufReader; the request being read
          seen, answers     \* what the handler was given and returned, in order

clientVars == <<cpc, cout, cbuf, cbody, results>>
serverVars == <<spc, sout, sbuf, sreq, seen, answers>>
vars == <<plan, clientVars, up, down, serverVars>>

NoMessage == [remaining |-> 0, body |-> <<>>]
Failure == [status |-> "error", headers |-> <<>>, body |-> <<>>]

Init ==
    /\ plan \in Plans
    /\ cpc = "connect" /\ cout = <<>> /\ cbuf = <<>> /\ cbody = NoMessage /\ results = <<>>
    /\ up = <<>> /\ down = <<>>
    /\ spc = "start" /\ sout = <<>> /\ sbuf = <<>> /\ sreq = NoMessage
    /\ seen = <<>> /\ answers = <<>>

-----------------------------------------------------------------------------
\* start_inner binds the listener and spawns the accept loop, or fails.
StartInner ==
    /\ spc = "start"
    /\ spc' \in {"accept", "closed"}
    /\ UNCHANGED <<plan, clientVars, up, down, sout, sbuf, sreq, seen, answers>>

\* accept_loop spawns handle_connection, which makes its BufReader; when accept,
\* spawn or the allocation fails the stream is dropped.
AcceptLoop ==
    /\ spc = "accept" /\ cpc # "connect"
    /\ spc' \in {"fill", "closed"}
    /\ UNCHANGED <<plan, clientVars, up, down, sout, sbuf, sreq, seen, answers>>

\* The connection ends with an error response.
Refuse(status) ==
    /\ spc' = "write"
    /\ sout' = WriteResponse(ErrorResponse(status))
    /\ sreq' = NoMessage
    /\ UNCHANGED sbuf

\* Why a message is refused; any complete one may meet a failed allocation.
Refusals(data, parse) ==
    CASE parse.verdict = "error"    -> {"400"}
      [] parse.verdict = "partial"  -> IF Len(data) >= MaxHead THEN {"431"} ELSE {}
      [] parse.verdict = "complete" ->
            {"500"} \cup IF parse.message.length > MaxBody THEN {"413"} ELSE {}

Request(line, message) ==
    [method |-> line.method, path |-> line.path, version |-> line.version,
     headers |-> message.headers, body |-> message.body, remaining |-> message.remaining]

\* parse_request, one round: a read, and what httparse makes of the buffer.
ParseRequest(n) ==
    /\ spc = "fill"
    /\ n \in 1 .. Min({MaxHead - Len(sbuf), Len(up)})
    /\ up' = SubSeq(up, n + 1, Len(up))
    /\ \E data \in {sbuf \o SubSeq(up, 1, n)} : \E parse \in {Parse(data)} :
          \/ /\ parse.verdict = "partial" /\ Len(data) < MaxHead
             /\ sbuf' = data
             /\ UNCHANGED <<spc, sout, sreq>>
          \/ \E status \in Refusals(data, parse) : Refuse(status)
          \/ /\ parse.verdict = "complete" /\ parse.message.length <= MaxBody
             /\ sbuf' = parse.message.left
             /\ sreq' = Request(data[1], parse.message)
             /\ spc' = IF parse.message.remaining = 0 THEN "handle" ELSE "body"
             /\ UNCHANGED sout
    /\ UNCHANGED <<plan, clientVars, down, seen, answers>>

\* read_body: the rest comes straight from the stream.
ReadRequestBody(n) ==
    /\ spc = "body"
    /\ n \in 1 .. Min({sreq.remaining, Len(up)})
    /\ up' = SubSeq(up, n + 1, Len(up))
    /\ sreq' = [sreq EXCEPT !.body = @ \o SubSeq(up, 1, n), !.remaining = @ - n]
    /\ spc' = IF sreq'.remaining = 0 THEN "handle" ELSE "body"
    /\ UNCHANGED <<plan, clientVars, down, sout, sbuf, seen, answers>>

\* fill, read_body or write_all fails because the client is gone.
ServerFails ==
    /\ spc \in {"fill", "body", "write"}
    /\ cpc = "closed"
    /\ spc' = "closed"
    /\ UNCHANGED <<plan, clientVars, up, down, sout, sbuf, sreq, seen, answers>>

Handle(answer) ==
    /\ spc = "handle"
    /\ seen' = Append(seen, sreq)
    /\ answers' = Append(answers, answer)
    /\ sout' = WriteResponse(answer)
    /\ spc' = "write"
    /\ UNCHANGED <<plan, clientVars, up, down, sbuf, sreq>>

\* write_response, then the next round, with what reset left in the buffer, or
\* the end of the connection.
ServerWrite ==
    /\ spc = "write"
    /\ down' = down \o Head(sout)
    /\ sout' = Tail(sout)
    /\ spc' = IF sout' # <<>> THEN "write"
              ELSE IF sreq = NoMessage \/ ~KeepAlive(sreq) THEN "closed" ELSE "fill"
    /\ UNCHANGED <<plan, clientVars, up, sbuf, sreq, seen, answers>>

-----------------------------------------------------------------------------
\* A call returns; the stream is dropped after send, an error or the last request.
Return(result) ==
    /\ results' = Append(results, result)
    /\ cpc' = IF result.status = "error" \/ Len(results') = Len(plan.requests)
              THEN "closed" ELSE "build"
    /\ cbuf' = <<>> /\ cbody' = NoMessage /\ cout' = <<>>

\* TcpStream::connect; a failed one releases the socket.
Connect ==
    /\ cpc = "connect" /\ spc # "start"
    /\ \/ spc = "accept" /\ cpc' = "build" /\ UNCHANGED <<cout, cbuf, cbody, results>>
       \/ Return(Failure)
    /\ UNCHANGED <<plan, up, down, serverVars>>

\* The Host that is written: the address's, or the request's own, or empty.
HostFor(request) ==
    IF plan.fresh
    THEN FormatHost(plan.addr)
    ELSE IF Get(request.headers, "Host") # <<>> THEN Get(request.headers, "Host")[1] ELSE <<>>

\* The request is built and written to a buffer, unless memory runs out.
SendOn ==
    LET request == Built(plan.requests[Len(results) + 1]) IN
    /\ cpc = "build"
    /\ \/ /\ cout' = WriteRequest(request, HostFor(request))
          /\ cpc' = "write"
          /\ UNCHANGED <<cbuf, cbody, results>>
       \/ Return(Failure)
    /\ UNCHANGED <<plan, up, down, serverVars>>

\* write_request: EIO if the server is gone; a new BufReader when all is written.
ClientWrite ==
    /\ cpc = "write"
    /\ \/ /\ up' = up \o Head(cout)
          /\ cout' = Tail(cout)
          /\ cpc' = IF cout' = <<>> THEN "fill" ELSE "write"
          /\ UNCHANGED <<cbuf, cbody, results>>
       \/ spc = "closed" /\ Return(Failure) /\ UNCHANGED up
    /\ UNCHANGED <<plan, down, serverVars>>

\* The response is complete when no byte of its body is missing.
Receive(message) ==
    IF message.remaining = 0
    THEN Return([status |-> message.status, headers |-> message.headers,
                 body |-> message.body])
    ELSE cpc' = "body" /\ cbody' = message /\ cbuf' = <<>> /\ UNCHANGED <<cout, results>>

\* parse_response, one round.
ParseResponse(n) ==
    /\ cpc = "fill"
    /\ n \in 1 .. Min({MaxHead - Len(cbuf), Len(down)})
    /\ down' = SubSeq(down, n + 1, Len(down))
    /\ \E data \in {cbuf \o SubSeq(down, 1, n)} : \E parse \in {Parse(data)} :
          \/ /\ parse.verdict = "partial" /\ Len(data) < MaxHead
             /\ cbuf' = data
             /\ UNCHANGED <<cpc, cout, cbody, results>>
          \/ /\ parse.verdict = "complete" /\ parse.message.length <= MaxBody
             /\ Receive([status |-> data[1].status, headers |-> parse.message.headers,
                         body |-> parse.message.body,
                         remaining |-> parse.message.remaining])
          \/ Refusals(data, parse) # {} /\ Return(Failure)
    /\ UNCHANGED <<plan, up, serverVars>>

ReadResponseBody(n) ==
    /\ cpc = "body"
    /\ n \in 1 .. Min({cbody.remaining, Len(down)})
    /\ down' = SubSeq(down, n + 1, Len(down))
    /\ Receive([cbody EXCEPT !.body = @ \o SubSeq(down, 1, n), !.remaining = @ - n])
    /\ UNCHANGED <<plan, up, serverVars>>

\* A read finds the end of the stream, or a reset.
ClientFails ==
    /\ cpc \in {"fill", "body"} /\ spc = "closed"
    /\ down = <<>> \/ up # <<>>
    /\ Return(Failure)
    /\ UNCHANGED <<plan, up, down, serverVars>>

-----------------------------------------------------------------------------
ClientStep ==
    \/ Connect \/ SendOn \/ ClientWrite \/ ClientFails
    \/ \E n \in 1 .. MaxHead : ParseResponse(n)
    \/ \E n \in 1 .. MaxBody : ReadResponseBody(n)

ServerStep ==
    \/ StartInner \/ AcceptLoop \/ ServerWrite \/ ServerFails
    \/ \E answer \in Answers : Handle(answer)
    \/ \E n \in 1 .. MaxHead : ParseRequest(n)
    \/ \E n \in 1 .. MaxBody : ReadRequestBody(n)

Next == ClientStep \/ ServerStep

\* Each end is a task its executor polls when its socket is ready.
Spec == Init /\ [][Next]_vars /\ WF_vars(ClientStep) /\ WF_vars(ServerStep)

-----------------------------------------------------------------------------
\* The last headers of `all` are `own`.
EndWith(all, own) == \E i \in 0 .. Len(all) : SubSeq(all, i + 1, Len(all)) = own

\* What the two ends agree on, however reads split the streams and whatever
\* Content-Length or Connection headers callers and handlers add themselves, but
\* for a length on a request without a body (ExchangeAssumption): the i-th request
\* the handler sees is the i-th that was sent, and the i-th call returns the
\* handler's i-th response, a refusal, or an error.
ExchangeExact ==
    /\ \A i \in DOMAIN seen :
          LET sent == Built(plan.requests[i]) IN
          /\ seen[i].method = sent.method /\ seen[i].path = sent.path
          /\ seen[i].version = sent.version
          /\ seen[i].body = Bytes(sent.body)
          /\ EndWith(seen[i].headers, sent.headers)
          /\ plan.fresh => Get(seen[i].headers, "Host") = <<FormatHost(plan.addr)>>
    /\ \A i \in DOMAIN results :
          \/ results[i].status \in {"error", "413", "431", "500"}
          \/ /\ i <= Len(answers)
             /\ results[i].status = answers[i].status
             /\ results[i].body = Bytes(answers[i].body)
             /\ EndWith(results[i].headers, answers[i].headers)

\* A call of the client returns, whatever becomes of the server's end.
CallsReturn == cpc \notin {"build", "closed"} ~> cpc \in {"build", "closed"}
=============================================================================
