--------------------------- MODULE HttpConnection ---------------------------
(***************************************************************************)
(* One connection of the HTTP server (rko-util/src/http/: server.rs,       *)
(* parse.rs, buf_reader.rs).  Bytes are counted, not represented: the      *)
(* client's stream is a script of requests with the lengths of their heads *)
(* and bodies, and `taken` bytes of it have left the socket.  httparse is  *)
(* external: at the first byte of a request it finds the whole head, or    *)
(* asks for more, or rejects it; anywhere else it sees garbage.            *)
(***************************************************************************)
EXTENDS Naturals, Sequences

CONSTANTS Scripts,          \* sequences of [head, body, ok, keepalive]
          Capacity,         \* ServerConfig.max_header_size, the BufReader's size
          MaxBody           \* ServerConfig.max_body_size

VARIABLES script,           \* what this client will send
          pipelines,        \* ... without waiting for its responses
          sent,             \* bytes of it the network has delivered
          eof,              \* ... and its end of the connection is closed
          taken,            \* bytes read from the socket
          pos, len,         \* BufReader
          remaining,        \* body bytes read_body still has to read
          parsed,           \* number of requests parsed
          responses,        \* statuses written, in order
          pc                \* where handle_connection is

vars == <<script, pipelines, sent, eof, taken, pos, len, remaining, parsed, responses, pc>>

clientVars == <<script, pipelines, sent, eof>>

\* The stream offset at which the k-th request ends.
Boundary(k) ==
    LET Ends[i \in 0 .. Len(script)] ==
            IF i = 0 THEN 0 ELSE Ends[i - 1] + script[i].head + script[i].body
    IN  Ends[k]

\* The stream offset of the first byte of data().
Offset == taken - (len - pos)

Init ==
    /\ script \in Scripts /\ pipelines \in BOOLEAN
    /\ sent = 0 /\ eof = FALSE
    /\ taken = 0 /\ pos = 0 /\ len = 0 /\ remaining = 0
    /\ parsed = 0 /\ responses = <<>>
    /\ pc = "fill"

-----------------------------------------------------------------------------
\* Bytes arrive; a client that does not pipeline sends one request and waits.
Arrive(n) ==
    /\ ~eof
    /\ sent + n <= Boundary(IF pipelines \/ Len(responses) = Len(script)
                            THEN Len(script) ELSE Len(responses) + 1)
    /\ sent' = sent + n
    /\ UNCHANGED <<script, pipelines, eof, taken, pos, len, remaining, parsed, responses,
                   pc>>

ClientCloses ==
    /\ ~eof
    /\ eof' = TRUE
    /\ UNCHANGED <<script, pipelines, sent, taken, pos, len, remaining, parsed, responses,
                   pc>>

-----------------------------------------------------------------------------
\* Mutant of Refuse: the connection is kept after an error response.
RefuseOpen(status) ==
    /\ pc' = "fill"
    /\ responses' = Append(responses, status)

\* An error response is written, or not, and the connection closed.
Refuse(status) ==
    /\ pc' = "closed"
    /\ responses' \in {Append(responses, status), responses}

\* stream.read into a buffer of `room` bytes: some of what is there.
Read(room, n) == n \in 1 .. room /\ taken + n <= sent /\ taken' = taken + n

\* fill: compaction, E2BIG when there is no room, and one read.
Fill(n) ==
    /\ pc = "fill"
    /\ len - pos < Capacity
    /\ Read(Capacity - (len - pos), n)
    /\ pos' = 0
    /\ len' = len - pos + n
    /\ pc' = "parse"
    /\ UNCHANGED <<clientVars, remaining, parsed, responses>>

\* fill or read_body fails: E2BIG, end of file, or an error on the socket; the
\* connection is closed without a word.
ReadFails ==
    /\ pc \in {"fill", "body"}
    /\ \/ eof
       \/ pc = "fill" /\ len - pos >= Capacity
    /\ pc' = "closed"
    /\ UNCHANGED <<clientVars, taken, pos, len, remaining, parsed, responses>>

\* What httparse makes of data().
Verdict ==
    LET k == parsed + 1 IN
    IF k > Len(script) \/ Offset # Boundary(parsed) \/ ~script[k].ok THEN "garbage"
    ELSE IF len - pos < script[k].head THEN "partial" ELSE "complete"

\* Mutant of ParseComplete: read_body reads once even when nothing is missing.
ParseCompleteWaits ==
    LET r == script[parsed + 1]
        from_buf == IF len - pos - r.head <= r.body THEN len - pos - r.head ELSE r.body
    IN
    /\ pc = "parse" /\ Verdict = "complete" /\ r.body <= MaxBody
    /\ parsed' = parsed + 1
    /\ pos' = pos + r.head + from_buf
    /\ remaining' = r.body - from_buf
    /\ pc' = IF r.body = 0 THEN "handle" ELSE "body"
    /\ UNCHANGED <<clientVars, taken, len, responses>>

\* A complete head: it is consumed, and with it what is buffered of the body.
ParseComplete ==
    LET r == script[parsed + 1]
        from_buf == IF len - pos - r.head <= r.body THEN len - pos - r.head ELSE r.body
    IN
    /\ pc = "parse" /\ Verdict = "complete" /\ r.body <= MaxBody
    /\ parsed' = parsed + 1
    /\ pos' = pos + r.head + from_buf
    /\ remaining' = r.body - from_buf
    /\ pc' = IF remaining' = 0 THEN "handle" ELSE "body"
    /\ UNCHANGED <<clientVars, taken, len, responses>>

\* An incomplete head: 431 when the buffer is full of it, else more is read.
ParsePartial ==
    /\ pc = "parse" /\ Verdict = "partial"
    /\ IF len - pos >= Capacity
       THEN Refuse("431")
       ELSE pc' = "fill" /\ UNCHANGED responses
    /\ UNCHANGED <<clientVars, taken, pos, len, remaining, parsed>>

\* A request that is refused: 400, 413, or 500 when memory runs out.
ParseRefuses ==
    /\ pc = "parse"
    /\ \/ Verdict = "garbage" /\ Refuse("400")
       \/ Verdict = "complete" /\ script[parsed + 1].body > MaxBody /\ Refuse("413")
       \/ Verdict = "complete" /\ Refuse("500")
    /\ UNCHANGED <<clientVars, taken, pos, len, remaining, parsed>>

\* read_body: the rest of the body, straight from the socket.
ReadBody(n) ==
    /\ pc = "body"
    /\ Read(remaining, n)
    /\ remaining' = remaining - n
    /\ pc' = IF remaining' = 0 THEN "handle" ELSE "body"
    /\ UNCHANGED <<clientVars, pos, len, parsed, responses>>

\* Mutant of Respond: the buffer is emptied for the next request.
RespondClears ==
    /\ pc = "handle"
    /\ responses' = Append(responses, "200")
    /\ IF script[parsed].keepalive
       THEN pc' = "fill" /\ pos' = 0 /\ len' = 0
       ELSE pc' = "closed" /\ UNCHANGED <<pos, len>>
    /\ UNCHANGED <<clientVars, taken, remaining, parsed>>

\* The handler's response is written; reset moves what is left in the buffer to
\* its front for the next request.
Respond ==
    /\ pc = "handle"
    /\ responses' = Append(responses, "200")
    /\ IF script[parsed].keepalive
       THEN pc' = "fill" /\ pos' = 0 /\ len' = len - pos
       ELSE pc' = "closed" /\ UNCHANGED <<pos, len>>
    /\ UNCHANGED <<clientVars, taken, remaining, parsed>>

\* write_response fails.
RespondFails ==
    /\ pc = "handle" /\ eof
    /\ pc' = "closed"
    /\ UNCHANGED <<clientVars, taken, pos, len, remaining, parsed, responses>>

-----------------------------------------------------------------------------
ServerStep ==
    \/ \E n \in 1 .. Capacity : Fill(n)
    \/ \E n \in 1 .. MaxBody : ReadBody(n)
    \/ ReadFails \/ ParseComplete \/ ParsePartial \/ ParseRefuses \/ Respond \/ RespondFails

ClientStep == ClientCloses \/ \E n \in 1 .. 2 : Arrive(n)

Next == ClientStep \/ ServerStep

\* The executor polls the connection's task whenever the socket has something for
\* it (ReadyLeadsToResult of SocketFuture); the client owes nothing.
Spec == Init /\ [][Next]_vars /\ WF_vars(ServerStep)

-----------------------------------------------------------------------------
TypeOK ==
    /\ script \in Scripts /\ pipelines \in BOOLEAN
    /\ pos \in 0 .. len /\ len \in 0 .. Capacity
    /\ taken \in 0 .. sent /\ remaining \in 0 .. MaxBody
    /\ sent \in 0 .. Boundary(Len(script)) /\ eof \in BOOLEAN
    /\ parsed \in 0 .. Len(script)
    /\ \A i \in DOMAIN responses : responses[i] \in {"200", "400", "413", "431", "500"}
    /\ pc \in {"fill", "parse", "body", "handle", "closed"}

\* Requests are cut out of the stream exactly: however reads split it, the next
\* parse begins at the first byte of the next request, and a body has all of its
\* bytes and none of the next head (compaction, consume, reset and read_body agree).
Framing ==
    /\ pc \in {"fill", "parse", "handle"} => Offset = Boundary(parsed)
    /\ pc = "body" => Offset + remaining = Boundary(parsed) /\ pos = len

\* A head that is too large is answered with 431: fill is never called with a full
\* buffer, which would close the connection without a response.
RoomToFill == pc = "fill" => len - pos < Capacity

\* What HTTP/1.1 clients rely on: the i-th response is that to the i-th request,
\* and a refusal is the last thing on the connection.
InOrder ==
    /\ Len(responses) \in {parsed, parsed + 1, IF parsed = 0 THEN 0 ELSE parsed - 1}
    /\ \A i \in DOMAIN responses :
          responses[i] # "200" => i = Len(responses) /\ pc = "closed"
    /\ pc \in {"fill", "parse"} => Len(responses) = parsed

\* The k-th request has arrived in full, and not been dealt with.
Due(k) == Len(script) >= k /\ sent >= Boundary(k) /\ Len(responses) < k /\ pc # "closed"

\* A request that has arrived in full is answered, or the connection closed, when
\* the client waits for the response before it sends on.
CompleteIsAnswered == \A k \in 1 .. 2 : ~pipelines /\ Due(k) ~> ~Due(k)

\* What reset says of pipelined requests: the start of the next one is kept, for
\* the round that then begins to deal with.
PipelinedIsAnswered == \A k \in 1 .. 2 : Due(k) ~> ~Due(k)
=============================================================================
