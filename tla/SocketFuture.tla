---------------------------- MODULE SocketFuture ----------------------------
(***************************************************************************)
(* SocketFuture of rko-core/src/kasync/net/mod.rs: a future that retries a *)
(* non-blocking socket operation, woken by a callback on the socket's wait *)
(* queue.  Poll (in a workqueue worker) and wake_callback (in softirq, on  *)
(* any CPU) share the waker behind a NoWaitLock.  The socket and its wait  *)
(* queue are external: an event is recorded in the socket first and the    *)
(* queue walked afterwards; the queue's spinlock is held during the walk,  *)
(* and add_wait_queue and remove_wait_queue take it.                       *)
(***************************************************************************)
EXTENDS Naturals

VARIABLES lstate, lpc,  \* the NoWaitLock of CallbackState
          waker,        \* its content is Some
          cb_state,     \* CallbackState: "null", "live" or "freed"
          is_queued,    \* the entry is on the wait queue
          future,       \* "live", "ready", "error" or "dropped"
          scheduled,    \* the task will be polled
          ppc,          \* where poll, or the future's drop, is
          cpc,          \* where the walk of the wait queue and the callback are
          ready         \* the operation would succeed

vars == <<lstate, lpc, waker, cb_state, is_queued, future, scheduled, ppc, cpc, ready>>

lockVars == <<lstate, lpc>>

Lock == INSTANCE NoWaitLock WITH
            Users <- {"poll", "callback"}, state <- lstate, pc <- lpc

\* SocketFuture::new, whose KBox may not be had.
Init ==
    /\ Lock!Init
    /\ waker = FALSE
    /\ cb_state \in {"null", "live"}
    /\ is_queued = FALSE
    /\ future = "live"
    /\ scheduled = TRUE
    /\ ppc = "idle"
    /\ cpc = "idle"
    /\ ready \in BOOLEAN

-----------------------------------------------------------------------------
\* The executor polls the task; ENOMEM without a CallbackState.
Poll ==
    /\ future = "live" /\ ppc = "idle" /\ scheduled
    /\ scheduled' = FALSE
    /\ IF cb_state = "null"
       THEN future' = "error" /\ UNCHANGED ppc
       ELSE ppc' = "lock" /\ UNCHANGED future
    /\ UNCHANGED <<lockVars, waker, cb_state, is_queued, cpc, ready>>

PollTryLock ==
    /\ ppc = "lock"
    /\ Lock!TryLock("poll")
    /\ ppc' = IF lpc'["poll"] = "locked" THEN "store" ELSE "skip"
    /\ UNCHANGED <<waker, cb_state, is_queued, future, scheduled, cpc, ready>>

\* The waker is stored and the guard dropped.
PollStore ==
    /\ ppc = "store"
    /\ waker' = TRUE
    /\ Lock!Unlock("poll")
    /\ ppc' = "register"
    /\ UNCHANGED <<cb_state, is_queued, future, scheduled, cpc, ready>>

\* The lock is taken: the waker stored before is left in place.
PollSkip ==
    /\ ppc = "skip"
    /\ Lock!MarkContended("poll")
    /\ ppc' = "register"
    /\ UNCHANGED <<waker, cb_state, is_queued, future, scheduled, cpc, ready>>

\* add_wait_queue on the first poll.
PollRegister ==
    /\ ppc = "register"
    /\ is_queued \/ cpc \in {"idle", "event"}
    /\ is_queued' = TRUE
    /\ ppc' = "operate"
    /\ UNCHANGED <<lockVars, waker, cb_state, future, scheduled, cpc, ready>>

\* The operation: its result, or EAGAIN and Pending.
PollOperate ==
    /\ ppc = "operate"
    /\ ppc' = "idle"
    /\ \/ ready /\ ready' = FALSE /\ future' = "ready"
       \/ ~ready /\ UNCHANGED <<ready, future>>
       \/ future' = "error" /\ UNCHANGED ready
    /\ UNCHANGED <<lockVars, waker, cb_state, is_queued, scheduled, cpc>>

\* Mutant of Drop: the CallbackState is freed before the entry is removed.
DropFreeFirst ==
    /\ future \in {"live", "ready", "error"} /\ ppc = "idle"
    /\ future' = "dropped"
    /\ cb_state' = IF cb_state = "live" THEN "freed" ELSE cb_state
    /\ ppc' = "free"
    /\ UNCHANGED <<lockVars, waker, is_queued, scheduled, cpc, ready>>

\* Drop, whether finished or cancelled: remove_wait_queue, which waits for a walk
\* under way ...
Drop ==
    /\ future \in {"live", "ready", "error"} /\ ppc = "idle"
    /\ is_queued => cpc \in {"idle", "event"}
    /\ future' = "dropped"
    /\ is_queued' = FALSE
    /\ ppc' = "free"
    /\ UNCHANGED <<lockVars, waker, cb_state, scheduled, cpc, ready>>

\* ... and the CallbackState is freed, with the waker in it.
DropFree ==
    /\ ppc = "free"
    /\ cb_state' = IF cb_state = "live" THEN "freed" ELSE cb_state
    /\ waker' = FALSE
    /\ ppc' = "done"
    /\ UNCHANGED <<lockVars, is_queued, future, scheduled, cpc, ready>>

-----------------------------------------------------------------------------
\* Something happens on the socket: it becomes ready, or an event the mask of
\* this future does not name; then the wait queue is to be walked.
Event(matching) ==
    /\ cpc = "idle"
    /\ ready' = (ready \/ matching)
    /\ cpc' = IF matching THEN "event" ELSE "other"
    /\ UNCHANGED <<lockVars, waker, cb_state, is_queued, future, scheduled, ppc>>

\* Another user of the socket gets there first.
Steal ==
    /\ ready
    /\ ready' = FALSE
    /\ UNCHANGED <<lockVars, waker, cb_state, is_queued, future, scheduled, ppc, cpc>>

\* wake_callback returns 0 for an event outside its mask.
CallbackMasked ==
    /\ cpc = "other"
    /\ cpc' = "idle"
    /\ UNCHANGED <<lockVars, waker, cb_state, is_queued, future, scheduled, ppc, ready>>

\* The walk takes the queue's lock and calls wake_callback for our entry, if any.
Walk ==
    /\ cpc = "event"
    /\ cpc' = IF is_queued THEN "lock" ELSE "idle"
    /\ UNCHANGED <<lockVars, waker, cb_state, is_queued, future, scheduled, ppc, ready>>

CallbackTryLock ==
    /\ cpc = "lock"
    /\ Lock!TryLock("callback")
    /\ cpc' = IF lpc'["callback"] = "locked" THEN "clone" ELSE "skip"
    /\ UNCHANGED <<waker, cb_state, is_queued, future, scheduled, ppc, ready>>

\* poll has the lock: the event is dropped.
CallbackSkip ==
    /\ cpc = "skip"
    /\ Lock!MarkContended("callback")
    /\ cpc' = "idle"
    /\ UNCHANGED <<waker, cb_state, is_queued, future, scheduled, ppc, ready>>

\* Mutant of CallbackClone: the waker is taken, not cloned.
CallbackTake ==
    /\ cpc = "clone"
    /\ Lock!Unlock("callback")
    /\ cpc' = IF waker THEN "wake" ELSE "idle"
    /\ waker' = FALSE
    /\ UNCHANGED <<cb_state, is_queued, future, scheduled, ppc, ready>>

\* The waker, if any, is cloned and the guard dropped.
CallbackClone ==
    /\ cpc = "clone"
    /\ Lock!Unlock("callback")
    /\ cpc' = IF waker THEN "wake" ELSE "idle"
    /\ UNCHANGED <<waker, cb_state, is_queued, future, scheduled, ppc, ready>>

CallbackWake ==
    /\ cpc = "wake"
    /\ scheduled' = TRUE
    /\ cpc' = "idle"
    /\ UNCHANGED <<lockVars, waker, cb_state, is_queued, future, ppc, ready>>

-----------------------------------------------------------------------------
PollStep ==
    Poll \/ PollTryLock \/ PollStore \/ PollSkip \/ PollRegister \/ PollOperate

CallbackStep ==
    CallbackMasked \/ Walk \/ CallbackTryLock \/ CallbackSkip \/ CallbackClone \/ CallbackWake

Next ==
    \/ PollStep
    \/ Drop \/ DropFree
    \/ (\E matching \in BOOLEAN : Event(matching))
    \/ Steal
    \/ CallbackStep

\* The executor polls a scheduled task and a softirq runs to its end; the wait
\* queue's spinlock is a fair queue lock, so poll gets it even in a storm of events.
Fairness ==
    /\ WF_vars(PollStep)
    /\ SF_vars(PollRegister)
    /\ WF_vars(DropFree)
    /\ WF_vars(CallbackStep)

Spec == Init /\ [][Next]_vars /\ Fairness

-----------------------------------------------------------------------------
\* wake_callback never runs on a freed CallbackState, however the drop of the
\* future races an event: an entry on the queue, or a walk that has reached it,
\* means that the state is alive.
CallbackStateAlive ==
    is_queued \/ cpc \in {"lock", "skip", "clone", "wake"} => cb_state = "live"

\* No lost wake-up: a future that returned Pending on a socket that has become
\* ready is scheduled, or the callback that will schedule it is under way.  It
\* holds although both sides ignore a failed try_lock, and poll never looks at the
\* contention mark, because the operation comes after the registration.
NoLostReadiness ==
    future = "live" /\ cb_state = "live" /\ ppc = "idle" /\ ready /\ ~scheduled =>
        waker /\ is_queued /\ cpc \in {"event", "lock", "clone", "wake"}

\* A socket that stays ready completes the future, unless it is dropped.
ReadyLeadsToResult == ready /\ future = "live" ~> future # "live" \/ ~ready

\* The lock keeps its promise here: poll and the callback never both have the
\* waker, and a step that touches the waker holds the lock.
WakerLocked ==
    /\ Lock!MutualExclusion
    /\ ppc = "store" <=> lpc["poll"] = "locked"
    /\ cpc = "clone" <=> lpc["callback"] = "locked"
=============================================================================
