----------------------------- MODULE MCHandoffs -----------------------------
(***************************************************************************)
(* The protocols by which one thread or task waits for another, on small   *)
(* instances: block_on, the two one-shot channels, the socket futures, an  *)
(* HTTP connection that waits for its client, and an HTTP client with the  *)
(* server it calls.  Init chooses one; the others stay in their initial    *)
(* states, the connection and the exchange in their last.                  *)
(*                                                                         *)
(* The connection gets two requests in a buffer of three bytes: heads that *)
(* fit with room for more, exactly, or not at all; bodies that end inside  *)
(* the buffer, beyond it, or above the limit of two bytes.  The exchange   *)
(* has buffers of five tokens: the line, at most three headers, the empty  *)
(* line; numbers are binary, so that lengths have one digit or two.        *)
(***************************************************************************)
EXTENDS HttpExchange

CONSTANTS Callers, Values, Capacity, Scripts

\* A value is told apart from the words the channels' states use.
ASSUME ValuesAssumption ==
    Values \cap {"uninit", "nothing", "open", "closed", "waiting", "none", "timeout",
                 "dropped"} = {}

\* A request has a head, and the buffer is not empty.
ASSUME ConnectionAssumption ==
    /\ Capacity \in Nat \ {0}
    /\ Scripts \subseteq
          Seq([head : Nat \ {0}, body : Nat, ok : BOOLEAN, keepalive : BOOLEAN])

\* One that cannot be parsed, and the others.
BadRequest == [head |-> 2, body |-> 0, ok |-> FALSE, keepalive |-> TRUE]
GoodRequests(heads, bodies, keepalives) ==
    [head : heads, body : bodies, ok : {TRUE}, keepalive : keepalives]

\* After the second request nothing comes that its keepalive could matter to.
MCScripts ==
    {<<a, b>> : a \in GoodRequests({1, 3, 4}, 0 .. 3, {TRUE})
                        \cup GoodRequests({1, 3}, {0, 2}, {FALSE}) \cup {BadRequest},
                b \in GoodRequests({1, 3, 4}, {0, 2}, {TRUE})
                        \cup GoodRequests({1}, {3}, {TRUE}) \cup {BadRequest}}

\* Requests of the exchange: with a body, without, too large, and with headers that
\* contradict what the client computes or end the connection.
Misleading == Header("CONTENT-LENGTH", <<"1", "1">>)
GetRequest(version, headers) ==
    [method |-> "GET", path |-> "none", version |-> version, headers |-> headers, body |-> <<>>]
Post(headers, body) ==
    [method |-> "POST", path |-> "/p", version |-> "1.1", headers |-> headers, body |-> body]
Hosted == GetRequest("1.1", <<Header("Host", <<"h">>)>>)
FirstRequests ==
    {Post(<<>>, <<"a", "b">>), Post(<<>>, <<"a", "b", "c">>),
     Post(<<Misleading>>, <<"a">>), Post(<<Misleading, Misleading>>, <<"a">>),
     GetRequest("1.1", <<Header("CONNECTION", <<"CLOSE">>)>>),
     GetRequest("1.0", <<>>), GetRequest("1.0", <<Header("Connection", <<"keep-alive">>)>>)}

\* Two requests on a stream of the caller's, or one on a new stream.
MCPlans ==
    LET addr(port) == [family |-> "v4", ip |-> "ip", port |-> port]
    IN  [addr : {addr(80)}, fresh : {FALSE},
         requests : FirstRequests \X {Post(<<>>, <<"c">>), Hosted}]
        \cup [addr : {addr(80), addr(3)}, fresh : {TRUE},
              requests : {<<Hosted>>, <<Post(<<>>, <<"a">>)>>}]

\* The handler's responses: two the client can take, and two it cannot.
MCAnswers ==
    {Response("200", <<>>, <<"x", "y">>), Response("404", <<Misleading>>, <<>>),
     Response("200", <<>>, <<"x", "y", "z">>),
     Response("200", <<Misleading, Misleading, Misleading>>, <<"x">>)}

VARIABLES which,
          stopped, revoked, caller, task, cell, done, signals,
          state, avalue, areceived, awaker, taken, arefs, afreed, aspc, arpc, ascheduled,
          svalue, sreceived, sent, tokens, srefs, sfreed, sspc, srpc, timed,
          lstate, lpc, waker, cb_state, is_queued, future, scheduled, ppc, callbackpc, ready,
          script, pipelines, arrived, eof, read, pos, len, remaining, parsed, responses, pc

B == INSTANCE BlockOn WITH value <- cell, tokens <- signals
A == INSTANCE AsyncOneshot WITH
         value <- avalue, received <- areceived, waker <- awaker, refcount <- arefs,
         freed <- afreed, spc <- aspc, rpc <- arpc, scheduled <- ascheduled
S == INSTANCE SyncOneshot WITH
         value <- svalue, received <- sreceived, refcount <- srefs,
         freed <- sfreed, spc <- sspc, rpc <- srpc
F == INSTANCE SocketFuture WITH cpc <- callbackpc
C == INSTANCE HttpConnection WITH sent <- arrived, taken <- read

bVars == <<stopped, revoked, caller, task, cell, done, signals>>
aVars == <<state, avalue, areceived, awaker, taken, arefs, afreed, aspc, arpc, ascheduled>>
sVars == <<svalue, sreceived, sent, tokens, srefs, sfreed, sspc, srpc, timed>>
fVars == <<lstate, lpc, waker, cb_state, is_queued, future, scheduled, ppc, callbackpc, ready>>
cVars == <<script, pipelines, arrived, eof, read, pos, len, remaining, parsed, responses, pc>>
handoffVars == <<which, bVars, aVars, sVars, fVars, cVars, vars>>

HandoffInit ==
    /\ which \in {"block_on", "async", "sync", "socket", "connection", "exchange"}
    /\ B!Init /\ A!Init /\ S!Init /\ F!Init
    /\ ready \/ cb_state = "live" => which = "socket"
    /\ \/ which = "connection" /\ C!Init
       \/ /\ which # "connection"
          /\ script = <<>> /\ pipelines = FALSE /\ arrived = 0 /\ eof = TRUE
          /\ read = 0 /\ pos = 0 /\ len = 0 /\ remaining = 0
          /\ parsed = 0 /\ responses = <<>> /\ pc = "closed"
    /\ \/ which = "exchange" /\ Init
       \/ /\ which # "exchange"
          /\ plan = <<>> /\ cpc = "closed" /\ cout = <<>> /\ cbuf = <<>>
          /\ cbody = <<>> /\ results = <<>> /\ up = <<>> /\ down = <<>>
          /\ spc = "closed" /\ sout = <<>> /\ sbuf = <<>> /\ sreq = <<>>
          /\ seen = <<>> /\ answers = <<>>

BlockOnSteps ==
    which = "block_on" /\ B!Next /\ UNCHANGED <<which, aVars, sVars, fVars, cVars, vars>>
AsyncSteps ==
    which = "async" /\ A!Next /\ UNCHANGED <<which, bVars, sVars, fVars, cVars, vars>>
SyncSteps ==
    which = "sync" /\ S!Next /\ UNCHANGED <<which, bVars, aVars, fVars, cVars, vars>>
SocketSteps ==
    which = "socket" /\ F!Next /\ UNCHANGED <<which, bVars, aVars, sVars, cVars, vars>>
ConnectionClient ==
    /\ which = "connection"
    /\ C!ClientStep
    /\ UNCHANGED <<which, bVars, aVars, sVars, fVars, vars>>
ConnectionServer ==
    /\ which = "connection"
    /\ C!ServerStep
    /\ UNCHANGED <<which, bVars, aVars, sVars, fVars, vars>>
ExchangeClient ==
    which = "exchange" /\ ClientStep /\ UNCHANGED <<which, bVars, aVars, sVars, fVars, cVars>>
ExchangeServer ==
    which = "exchange" /\ ServerStep /\ UNCHANGED <<which, bVars, aVars, sVars, fVars, cVars>>

HandoffNext ==
    \/ BlockOnSteps \/ AsyncSteps \/ SyncSteps \/ SocketSteps
    \/ ConnectionClient \/ ConnectionServer \/ ExchangeClient \/ ExchangeServer

\* The fairness of each component, for the one that runs.
HandoffSpec ==
    /\ HandoffInit /\ [][HandoffNext]_handoffVars
    /\ \A c \in Callers : /\ WF_handoffVars(BlockOnSteps /\ B!CallerStep(c))
                          /\ WF_handoffVars(BlockOnSteps /\ B!PollRuns(c))
    /\ WF_handoffVars(AsyncSteps /\ A!SenderFinish)
    /\ WF_handoffVars(AsyncSteps /\ A!PollStep)
    /\ WF_handoffVars(SyncSteps /\ S!SenderFinish)
    /\ WF_handoffVars(SyncSteps /\ S!ReceiverFinish)
    /\ WF_handoffVars(SocketSteps /\ F!PollStep)
    /\ SF_handoffVars(SocketSteps /\ F!PollRegister)
    /\ WF_handoffVars(SocketSteps /\ F!DropFree)
    /\ WF_handoffVars(SocketSteps /\ F!CallbackStep)
    /\ WF_handoffVars(ConnectionServer)
    /\ WF_handoffVars(ExchangeClient)
    /\ WF_handoffVars(ExchangeServer)

-----------------------------------------------------------------------------
\* block_on: the done flag is never ahead of the value, so Ok carries it, the
\* EINVAL of an empty cell is never returned, and a caller that takes the value
\* after a timeout meets no task that is still writing it.
NoEmptyResult == B!NoEmptyResult /\ B!ValueExclusive

\* Both one-shot channels free the heap cell with the half dropped last.
FreedByLast == A!FreedByLast /\ S!FreedByLast

\* Both channels implement the abstract one-shot channel: what is received is
\* what was sent, None only when the sender is gone; the async receiver gets it
\* in the end, the sync receiver may give up.
ImplementsChannel == A!ImplementsChannel /\ S!ImplementsChannel

\* Every wait ends: block_on returns whatever happens to the future, a sync
\* receiver is answered once the sender has acted, and a call of the HTTP client
\* returns whatever becomes of the server.
WaitersReturn == B!CallReturns /\ S!ReceiverAnswered /\ CallsReturn

\* The wait-queue callback of a socket future finds its CallbackState alive, the
\* waker in it is touched under the NoWaitLock only, and although either side skips
\* the waker when the lock is taken, a pending future on a ready socket is scheduled
\* or about to be.
SocketFutureSound == F!CallbackStateAlive /\ F!WakerLocked /\ F!NoLostReadiness

\* A socket that stays ready completes the future.
ReadyLeadsToResult == F!ReadyLeadsToResult

\* However reads split the stream, a parse begins at the first byte of a request,
\* a body has exactly its bytes, and fill always has room.
Framing == C!Framing /\ C!RoomToFill

\* The i-th response answers the i-th request; a refusal is the last.
InOrder == C!InOrder

\* A request that has arrived in full is answered, or the connection closed.
CompleteIsAnswered == C!CompleteIsAnswered
=============================================================================
