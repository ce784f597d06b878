----------------------------- MODULE HttpUring -----------------------------
(***************************************************************************)
(* The io_uring HTTP bridge (rko-util/src/http/uring.rs): userspace        *)
(* threads issue commands on /dev/rko_http while connection tasks of the   *)
(* HTTP server hand requests over and wait for their answers.  Each        *)
(* critical section of a SimpleMutex is a step.  Commands that only return *)
(* an error and change nothing (EAGAIN, ENOENT, EINVAL) are left out.      *)
(*                                                                         *)
(* The answer travels through the channel of kasync/oneshot.rs, which is   *)
(* used as Oneshot.tla specifies it.                                       *)
(***************************************************************************)
EXTENDS Naturals, Sequences, SequencesExt

CONSTANTS Requests,         \* HTTP requests; a request stands for its req_id too
          Urls,             \* URL prefixes userspace may register
          CatchAll,         \* the prefix "/*"
          PrefixLen,        \* the length of each
          StartsWith,       \* the prefixes a request's path starts with
          Threads,          \* userspace threads that register URLs
          MaxQueues,        \* bound on CREATE_QUEUE
          MaxStarts,        \* bound on SERVER_START
          MaxPendings       \* max_pending values userspace asks for

QueueIds == 1 .. MaxQueues
Executors == 1 .. MaxStarts

ASSUME BridgeAssumption ==
    /\ CatchAll \in Urls
    /\ PrefixLen \in [Urls -> Nat]
    /\ StartsWith \in [Requests -> SUBSET Urls]
    /\ MaxQueues \in Nat /\ MaxStarts \in Nat
    /\ MaxPendings \subseteq Nat

VARIABLES live,             \* ids in HttpUringHandler.queues
          max,              \* RequestQueue.max_pending
          buffered,         \* RequestQueue.buffered
          next_queue_id,
          routes,           \* HttpUringHandler.routes: [prefix, queue] pairs
          adding,           \* ADD_URL between its two critical sections
          pending,          \* HttpUringHandler.pending
          responding,       \* SEND_RESPONSE has the sender of these requests
          delivered,        \* userspace has these requests
          req,              \* where handle() of each request is, or its status
          target,           \* the queue it was routed to
          chan,             \* its response channel: "none", "open", "sent", "closed"
          server_of,        \* the executor that runs its connection, or 0
          starting,         \* executors of SERVER_START commands under way
          running,          \* executors that have not been stopped
          executor_handle,  \* HttpUringHandler.executor_handle, or 0
          starts            \* number of SERVER_STARTs so far

queueVars == <<live, max, buffered, next_queue_id>>
routeVars == <<routes, adding>>
reqVars == <<pending, responding, delivered, req, target, chan, server_of>>
serverVars == <<starting, running, executor_handle, starts>>
vars == <<queueVars, routeVars, reqVars, serverVars>>

Init ==
    /\ live = {}
    /\ max = [q \in QueueIds |-> 0]
    /\ buffered = [q \in QueueIds |-> <<>>]
    /\ next_queue_id = 1
    /\ routes = <<>>
    /\ adding = [t \in Threads |-> <<>>]
    /\ pending = {} /\ responding = {} /\ delivered = {}
    /\ req = [r \in Requests |-> "new"]
    /\ target = [r \in Requests |-> 0]
    /\ chan = [r \in Requests |-> "none"]
    /\ server_of = [r \in Requests |-> 0]
    /\ starting = {} /\ running = {} /\ executor_handle = 0 /\ starts = 0

-----------------------------------------------------------------------------
\* Dropping an AutoStopHandle stops its executor: a handle() that is waiting is
\* dropped with its receiver, one that is being polled when that poll ends.
StopExecutor(e) ==
    /\ running' = running \ {e}
    /\ req' = [r \in Requests |->
                  IF e # 0 /\ server_of[r] = e /\ req[r] = "waiting"
                  THEN "cancelled" ELSE req[r]]

\* SERVER_START: a new executor runs the accept loop; its handle is held by the
\* command ...
ServerStart ==
    /\ starts < MaxStarts
    /\ starts' = starts + 1
    /\ running' = running \cup {starts + 1}
    /\ starting' = starting \cup {starts + 1}
    /\ UNCHANGED <<queueVars, routeVars, reqVars, executor_handle>>

\* Mutant of ServerStarted: the executor that is replaced is not stopped.
ServerStartedKeeps(e) ==
    /\ e \in starting
    /\ starting' = starting \ {e}
    /\ executor_handle' = e
    /\ UNCHANGED <<queueVars, routeVars, reqVars, running, starts>>

\* ... and then stored, which drops, and so stops, the one that was there.
ServerStarted(e) ==
    /\ e \in starting
    /\ starting' = starting \ {e}
    /\ executor_handle' = e
    /\ StopExecutor(executor_handle)
    /\ UNCHANGED <<queueVars, routeVars, pending, responding, delivered, target, chan,
                   server_of, starts>>

\* SERVER_STOP.
ServerStop ==
    /\ executor_handle # 0
    /\ executor_handle' = 0
    /\ StopExecutor(executor_handle)
    /\ UNCHANGED <<queueVars, routeVars, pending, responding, delivered, target, chan,
                   server_of, starting, starts>>

-----------------------------------------------------------------------------
\* CREATE_QUEUE; the id is used up even when the push fails.
CreateQueue(m, pushed) ==
    /\ next_queue_id <= MaxQueues
    /\ next_queue_id' = next_queue_id + 1
    /\ live' = IF pushed THEN live \cup {next_queue_id} ELSE live
    /\ max' = [max EXCEPT ![next_queue_id] = IF m = 0 THEN 256 ELSE m]
    /\ UNCHANGED <<buffered, routeVars, reqVars, serverVars>>

\* DESTROY_QUEUE: the queue goes with what it buffers; routes to it and the
\* pending entries of its requests stay.
DestroyQueue(q) ==
    /\ q \in live
    /\ live' = live \ {q}
    /\ buffered' = [buffered EXCEPT ![q] = <<>>]
    /\ UNCHANGED <<max, next_queue_id, routeVars, reqVars, serverVars>>

\* ADD_URL, under the lock of the queues: the queue exists.
AddUrlCheck(t, p, q) ==
    /\ adding[t] = <<>>
    /\ q \in live
    /\ adding' = [adding EXCEPT ![t] = <<[prefix |-> p, queue |-> q]>>]
    /\ UNCHANGED <<queueVars, routes, reqVars, serverVars>>

\* One round of the insertion sort: entry i moves left past shorter prefixes.
Sink(s, i) ==
    LET Shorter(k) == PrefixLen[s[k].prefix] < PrefixLen[s[i].prefix]
        j == CHOOSE k \in 1 .. i :
                /\ \A n \in k .. i - 1 : Shorter(n)
                /\ k > 1 => ~Shorter(k - 1)
    IN  SubSeq(s, 1, j - 1) \o <<s[i]>> \o SubSeq(s, j, i - 1) \o SubSeq(s, i + 1, Len(s))

\* The rounds: Rounds[i] is the list after entry i has moved.
Sorted(s) ==
    LET Rounds[i \in 0 .. Len(s)] == IF i <= 1 THEN s ELSE Sink(Rounds[i - 1], i)
    IN  Rounds[Len(s)]

\* ADD_URL, under the lock of the routes: EEXIST, ENOMEM, or pushed and sorted.
AddUrl(t) ==
    /\ adding[t] # <<>>
    /\ adding' = [adding EXCEPT ![t] = <<>>]
    /\ \/ /\ \A i \in DOMAIN routes : routes[i].prefix # adding[t][1].prefix
          /\ routes' = Sorted(routes \o adding[t])
       \/ UNCHANGED routes
    /\ UNCHANGED <<queueVars, reqVars, serverVars>>

\* REMOVE_URL.
RemoveUrl(i) ==
    /\ i \in DOMAIN routes
    /\ routes' = RemoveAt(routes, i)
    /\ UNCHANGED <<queueVars, adding, reqVars, serverVars>>

-----------------------------------------------------------------------------
Matches(r, p) == p = CatchAll \/ p \in StartsWith[r]

\* Mutant of RouteIndex: the last entry that matches.
RouteLast(r) == SelectLastInSeq(routes, LAMBDA e : Matches(r, e.prefix))

\* route: the first entry that matches, or 0 for None ...
RouteIndex(r) == SelectInSeq(routes, LAMBDA e : Matches(r, e.prefix))

\* ... and its queue.
Route(r) == IF RouteIndex(r) = 0 THEN 0 ELSE routes[RouteIndex(r)].queue

\* handle: the request gets its id and its route; 404 without a route, 500 when
\* it cannot be serialized or the channel cannot be had.
Handle(r, e) ==
    /\ req[r] = "new" /\ e \in running
    /\ server_of' = [server_of EXCEPT ![r] = e]
    /\ target' = [target EXCEPT ![r] = Route(r)]
    /\ \/ Route(r) = 0 /\ req' = [req EXCEPT ![r] = "404"] /\ UNCHANGED chan
       \/ Route(r) # 0 /\ req' = [req EXCEPT ![r] = "500"] /\ UNCHANGED chan
       \/ /\ Route(r) # 0
          /\ req' = [req EXCEPT ![r] = "routed"]
          /\ chan' = [chan EXCEPT ![r] = "open"]
    /\ UNCHANGED <<queueVars, routeVars, pending, responding, delivered, serverVars>>

\* Mutant of EnqueuePending: the sender of an entry that is not stored is leaked.
EnqueuePendingLeaks(r, pushed) ==
    /\ req[r] = "routed"
    /\ req' = [req EXCEPT ![r] = "pushed"]
    /\ pending' = IF pushed THEN pending \cup {r} ELSE pending
    /\ UNCHANGED <<queueVars, routeVars, responding, delivered, target, chan, server_of,
                   serverVars>>

\* enqueue_serialized: the pending entry; a failed push drops the sender ...
EnqueuePending(r, pushed) ==
    /\ req[r] = "routed"
    /\ req' = [req EXCEPT ![r] = "pushed"]
    /\ IF pushed THEN pending' = pending \cup {r} /\ UNCHANGED chan
                 ELSE chan' = [chan EXCEPT ![r] = "closed"] /\ UNCHANGED pending
    /\ UNCHANGED <<queueVars, routeVars, responding, delivered, target, server_of,
                   serverVars>>

\* ... and the queue's buffer: not when the queue is gone or full, or the push
\* fails, which nobody is told.  Then the receiver is polled.
EnqueueBuffered(r, pushed) ==
    LET q == target[r] IN
    /\ req[r] = "pushed"
    /\ req' = [req EXCEPT ![r] = IF server_of[r] \in running THEN "waiting" ELSE "cancelled"]
    /\ buffered' = IF pushed /\ q \in live /\ Len(buffered[q]) < max[q]
                   THEN [buffered EXCEPT ![q] = Append(@, r)] ELSE buffered
    /\ UNCHANGED <<live, max, next_queue_id, routeVars, pending, responding, delivered,
                   target, chan, server_of, serverVars>>

\* The receiver has its answer, or None: 504.
Answer(r) ==
    /\ req[r] = "waiting" /\ chan[r] \in {"sent", "closed"}
    /\ req' = [req EXCEPT ![r] = IF chan[r] = "sent" THEN "answered" ELSE "504"]
    /\ UNCHANGED <<queueVars, routeVars, pending, responding, delivered, target, chan,
                   server_of, serverVars>>

-----------------------------------------------------------------------------
\* Mutant of RecvRequest: the request is copied out and not removed.
RecvRequestPeeks(q, copied) ==
    /\ q \in live /\ buffered[q] # <<>>
    /\ delivered' = IF copied THEN delivered \cup {Head(buffered[q])} ELSE delivered
    /\ UNCHANGED <<live, max, buffered, next_queue_id, routeVars, pending, responding, req,
                   target, chan, server_of, serverVars>>

\* RECV_REQUEST: the oldest request is removed and copied out; EFAULT loses it.
RecvRequest(q, copied) ==
    /\ q \in live /\ buffered[q] # <<>>
    /\ buffered' = [buffered EXCEPT ![q] = Tail(@)]
    /\ delivered' = IF copied THEN delivered \cup {Head(buffered[q])} ELSE delivered
    /\ UNCHANGED <<live, max, next_queue_id, routeVars, pending, responding, req, target,
                   chan, server_of, serverVars>>

\* SEND_RESPONSE takes the pending entry, with the sender; ENOENT without one ...
SendResponseTake(r) ==
    /\ r \in pending
    /\ pending' = pending \ {r}
    /\ responding' = responding \cup {r}
    /\ UNCHANGED <<queueVars, routeVars, delivered, req, target, chan, server_of, serverVars>>

\* ... then sends the response; EFAULT or ENOMEM drops the sender.
SendResponse(r, copied) ==
    /\ r \in responding
    /\ responding' = responding \ {r}
    /\ chan' = [chan EXCEPT ![r] = IF copied THEN "sent" ELSE "closed"]
    /\ UNCHANGED <<queueVars, routeVars, pending, delivered, req, target, server_of,
                   serverVars>>

-----------------------------------------------------------------------------
HandleStep(r) ==
    \/ \E pushed \in BOOLEAN : EnqueuePending(r, pushed) \/ EnqueueBuffered(r, pushed)
    \/ Answer(r)

Next ==
    \/ ServerStart \/ ServerStop
    \/ \E e \in Executors : ServerStarted(e)
    \/ \E m \in MaxPendings, pushed \in BOOLEAN : CreateQueue(m, pushed)
    \/ \E q \in QueueIds : DestroyQueue(q)
    \/ \E t \in Threads, p \in Urls, q \in QueueIds : AddUrlCheck(t, p, q)
    \/ \E t \in Threads : AddUrl(t)
    \/ \E i \in DOMAIN routes : RemoveUrl(i)
    \/ \E r \in Requests, e \in Executors : Handle(r, e)
    \/ \E r \in Requests : HandleStep(r)
    \/ \E q \in QueueIds, copied \in BOOLEAN : RecvRequest(q, copied)
    \/ \E r \in Requests : SendResponseTake(r)
    \/ \E r \in Requests, copied \in BOOLEAN : SendResponse(r, copied)

Spec == Init /\ [][Next]_vars

-----------------------------------------------------------------------------
Statuses == {"404", "500", "504", "answered", "cancelled"}
Entries == [prefix : Urls, queue : QueueIds]

TypeOK ==
    /\ live \subseteq QueueIds /\ next_queue_id \in 1 .. MaxQueues + 1
    /\ max \in [QueueIds -> Nat]
    /\ buffered \in [QueueIds -> Seq(Requests)]
    /\ routes \in Seq(Entries)
    /\ adding \in [Threads -> {<<>>} \cup {<<e>> : e \in Entries}]
    /\ pending \subseteq Requests /\ responding \subseteq Requests /\ delivered \subseteq Requests
    /\ req \in [Requests -> {"new", "routed", "pushed", "waiting"} \cup Statuses]
    /\ target \in [Requests -> {0} \cup QueueIds]
    /\ chan \in [Requests -> {"none", "open", "sent", "closed"}]
    /\ server_of \in [Requests -> {0} \cup Executors]
    /\ starting \subseteq running /\ running \subseteq Executors
    /\ executor_handle \in {0} \cup Executors /\ starts \in 0 .. MaxStarts

\* RECV_REQUEST hands each request to userspace once: it is in one place of one
\* buffer, that of the queue it was routed to, or delivered, or neither; and a queue
\* holds no more than its max_pending, and nothing once it is destroyed.
DeliveredOnce ==
    /\ \A q1, q2 \in QueueIds : \A i \in DOMAIN buffered[q1], j \in DOMAIN buffered[q2] :
          /\ buffered[q1][i] \notin delivered
          /\ target[buffered[q1][i]] = q1
          /\ buffered[q1][i] = buffered[q2][j] => q1 = q2 /\ i = j
    /\ \A q \in QueueIds : /\ Len(buffered[q]) <= max[q]
                           /\ q \notin live => buffered[q] = <<>>

\* The sender of an open channel is in exactly one place: handle(), the pending
\* list, or a SEND_RESPONSE.  No request waits for a sender nobody has, whatever
\* fails on the way, and two SEND_RESPONSEs never answer one request.
OneSender ==
    \A r \in Requests :
        /\ chan[r] = "open" <=> req[r] = "routed" \/ r \in pending \/ r \in responding
        /\ ~(r \in pending /\ r \in responding)
        /\ req[r] = "routed" => r \notin pending \cup responding

\* Every executor that runs is the one SERVER_STOP will stop, or belongs to a
\* SERVER_START under way: no interleaving of the two leaves a server behind.
NoOrphanServer == running \ starting \subseteq {executor_handle}

\* The longest registered prefix of a path wins, over shorter ones and over the
\* catch-all, in whatever order they were registered and removed, if it is longer
\* than the two bytes of the catch-all pattern, by which that is sorted.
LongestPrefixWins ==
    \A r \in Requests : \A i \in DOMAIN routes :
        routes[i].prefix \in StartsWith[r]
                /\ PrefixLen[routes[i].prefix] > PrefixLen[CatchAll] =>
            LET k == RouteIndex(r) IN
            /\ k # 0 /\ routes[k].prefix \in StartsWith[r]
            /\ PrefixLen[routes[k].prefix] >= PrefixLen[routes[i].prefix]
=============================================================================
