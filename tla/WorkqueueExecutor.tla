-------------------------- MODULE WorkqueueExecutor --------------------------
(***************************************************************************)
(* The workqueue-backed executor (rko-core/src/kasync/executor/): spawn,   *)
(* the work item that polls a task's future, its wakers, revocation, and   *)
(* stop.  The kernel's workqueue (queue_work_on, the worker that runs an   *)
(* item, cancel_work_sync) is external and modelled by what the code uses  *)
(* of it: an item is queued at most once, runs in at most one worker, and  *)
(* cannot be queued while it is being cancelled.                           *)
(*                                                                         *)
(* A task's future sits in an AsyncRevocable, whose operations are those   *)
(* of RevocableCell.tla: AsyncRevocable.tla shows that it implements them. *)
(***************************************************************************)
EXTENDS Integers, Sequences, FiniteSets

CONSTANTS Tasks,            \* the futures that may be spawned, each once
          Parent,           \* the task whose poll spawns it, or NoParent
          NoParent,         \* ... when a thread outside the executor does
          Stoppers,         \* threads that call stop
          HandleHolders,    \* threads that revoke and flush a handle
          MaxWakers,        \* bound on the live clones of a task's waker
          Outliving         \* tasks whose wakers may outlive their futures

ASSUME ExecutorAssumption ==
    /\ IsFiniteSet(Tasks) /\ IsFiniteSet(Stoppers) /\ IsFiniteSet(HandleHolders)
    /\ NoParent \notin Tasks
    /\ Parent \in [Tasks -> Tasks \cup {NoParent}]
    /\ Stoppers \cap HandleHolders = {}
    /\ MaxWakers \in Nat
    /\ Outliving \subseteq Tasks

VARIABLES stopped,      \* ExecutorInner.stopped
          tasks,        \* ExecutorInner.tasks
          spawn,        \* where the spawn call of each task is
          handle,       \* the caller of spawn still holds the handle
          pending,      \* the task's work item is queued
          run,          \* where the worker running the item is
          revoked,      \* the future's AsyncRevocable: revoked ...
          dropped,      \* ... and destroyed
          wakers,       \* live clones of the task's waker
          notified,     \* woken, and not polled since
          rc,           \* the strong count of Arc<Task>
          cpc,          \* where each canceller is
          clist,        \* the tasks it still has to revoke and flush
          leaked,       \* references the workqueue took and never gave back
          racing        \* tasks that were being spawned when stop took the list

Cancellers == Stoppers \cup HandleHolders

vars == <<stopped, tasks, spawn, handle, pending, run, revoked, dropped,
          wakers, notified, rc, cpc, clist, leaked, racing>>

spawnVars  == <<stopped, tasks, spawn, handle>>
workVars   == <<pending, run>>
futureVars == <<revoked, dropped, wakers>>
cancelVars == <<cpc, clist, leaked, racing>>

Init ==
    /\ stopped = FALSE
    /\ tasks = <<>>
    /\ spawn = [t \in Tasks |-> "none"]
    /\ handle = [t \in Tasks |-> FALSE]
    /\ pending = [t \in Tasks |-> FALSE]
    /\ run = [t \in Tasks |-> "idle"]
    /\ revoked = [t \in Tasks |-> FALSE]
    /\ dropped = [t \in Tasks |-> FALSE]
    /\ wakers = [t \in Tasks |-> 0]
    /\ notified = [t \in Tasks |-> FALSE]
    /\ rc = [t \in Tasks |-> 0]
    /\ cpc = [c \in Cancellers |-> "idle"]
    /\ clist = [c \in Cancellers |-> <<>>]
    /\ leaked = [t \in Tasks |-> 0]
    /\ racing = {}

Spawning(t) == spawn[t] \in {"checked", "registered"}

\* cancel_work_sync has disabled the item until the running instance is done.
Disabled(t) == \E c \in Cancellers : cpc[c] = "wait" /\ Head(clist[c]) = t

\* Arc<Task> drops n of its references.  The one that reaches zero drops the
\* AsyncRevocable too, but by then every such future has been revoked.
Release(t, n) == rc' = [rc EXCEPT ![t] = @ - n]

\* queue.enqueue(arc), arc being one of `owned` references the caller gives
\* up: the queue keeps it, or hands it back and it is dropped.
Enqueue(t, owned) ==
    IF pending[t] \/ Disabled(t)
    THEN rc' = [rc EXCEPT ![t] = @ - owned] /\ UNCHANGED pending
    ELSE /\ pending' = [pending EXCEPT ![t] = TRUE]
         /\ rc' = [rc EXCEPT ![t] = @ + 1 - owned]

\* The future's destructor.  The clones a SocketFuture keeps go with it; the
\* one a oneshot channel keeps does not.
Destroy(t) ==
    /\ dropped' = [dropped EXCEPT ![t] = TRUE]
    /\ IF t \in Outliving
       THEN UNCHANGED <<wakers, rc>>
       ELSE /\ wakers' = [wakers EXCEPT ![t] = 0]
            /\ rc' = [rc EXCEPT ![t] = @ - wakers[t]]

-----------------------------------------------------------------------------
\* spawn_inner, first look at the flag under the lock.
SpawnCheck(t) ==
    /\ spawn[t] = "none"
    /\ Parent[t] # NoParent => run[Parent[t]] = "polling"
    /\ spawn' = [spawn EXCEPT ![t] = IF stopped THEN "failed" ELSE "checked"]
    /\ UNCHANGED <<stopped, tasks, handle, workVars, futureVars, notified, rc, cancelVars>>

\* The task or its slot in the list cannot be allocated: the future is dropped.
SpawnNoMemory(t) ==
    /\ spawn[t] = "checked"
    /\ spawn' = [spawn EXCEPT ![t] = "failed"]
    /\ revoked' = [revoked EXCEPT ![t] = TRUE]
    /\ dropped' = [dropped EXCEPT ![t] = TRUE]
    /\ UNCHANGED <<stopped, tasks, handle, workVars, wakers, notified, rc, cancelVars>>

\* Mutant of SpawnRegister: the flag is not looked at again.
SpawnRegisterBlind(t) ==
    /\ spawn[t] = "checked"
    /\ spawn' = [spawn EXCEPT ![t] = "registered"]
    /\ tasks' = Append(tasks, t)
    /\ rc' = [rc EXCEPT ![t] = 3]
    /\ UNCHANGED <<stopped, handle, workVars, futureVars, notified, cancelVars>>

\* The second look, under the lock that also covers the push: task_arc, the
\* handle and the list's clone are three references.
SpawnRegister(t) ==
    /\ spawn[t] = "checked"
    /\ IF stopped
       THEN /\ spawn' = [spawn EXCEPT ![t] = "failed"]
            /\ revoked' = [revoked EXCEPT ![t] = TRUE]
            /\ dropped' = [dropped EXCEPT ![t] = TRUE]
            /\ UNCHANGED <<tasks, rc>>
       ELSE /\ spawn' = [spawn EXCEPT ![t] = "registered"]
            /\ tasks' = Append(tasks, t)
            /\ rc' = [rc EXCEPT ![t] = 3]
            /\ UNCHANGED <<revoked, dropped>>
    /\ UNCHANGED <<stopped, handle, workVars, wakers, notified, cancelVars>>

\* The first enqueue, after the lock is released, and the return of the handle.
SpawnEnqueue(t) ==
    /\ spawn[t] = "registered"
    /\ spawn' = [spawn EXCEPT ![t] = "done"]
    /\ handle' = [handle EXCEPT ![t] = TRUE]
    /\ Enqueue(t, 1)
    /\ notified' = [notified EXCEPT ![t] = TRUE]
    /\ UNCHANGED <<stopped, tasks, run, futureVars, cancelVars>>

DropHandle(t) ==
    /\ handle[t]
    /\ handle' = [handle EXCEPT ![t] = FALSE]
    /\ Release(t, 1)
    /\ UNCHANGED <<stopped, tasks, spawn, workVars, futureVars, notified, cancelVars>>

-----------------------------------------------------------------------------
\* A worker takes the item off the queue and calls Arc::run, which reclaims the
\* queue's reference.  One worker at a time runs an item.
Dispatch(t) ==
    /\ pending[t]
    /\ run[t] = "idle"
    /\ pending' = [pending EXCEPT ![t] = FALSE]
    /\ run' = [run EXCEPT ![t] = "entered"]
    /\ UNCHANGED <<spawnVars, futureVars, notified, rc, cancelVars>>

\* Mutant of TryAccess: polls without asking the AsyncRevocable.
TryAccessAlways(t) ==
    /\ run[t] = "entered"
    /\ run' = [run EXCEPT ![t] = "polling"]
    /\ rc' = [rc EXCEPT ![t] = @ + 1]
    /\ notified' = [notified EXCEPT ![t] = FALSE]
    /\ UNCHANGED <<spawnVars, pending, futureVars, cancelVars>>

\* Task::run: try_access, or return when revoked; then ref_waker and poll.
TryAccess(t) ==
    /\ run[t] = "entered"
    /\ IF revoked[t]
       THEN /\ run' = [run EXCEPT ![t] = "idle"]
            /\ Release(t, 1)
            /\ UNCHANGED notified
       ELSE /\ run' = [run EXCEPT ![t] = "polling"]
            /\ rc' = [rc EXCEPT ![t] = @ + 1]
            /\ notified' = [notified EXCEPT ![t] = FALSE]
    /\ UNCHANGED <<spawnVars, pending, futureVars, cancelVars>>

\* The future keeps a clone of the waker.
CloneWaker(t) ==
    /\ run[t] = "polling"
    /\ wakers[t] < MaxWakers
    /\ wakers' = [wakers EXCEPT ![t] = @ + 1]
    /\ rc' = [rc EXCEPT ![t] = @ + 1]
    /\ UNCHANGED <<spawnVars, workVars, revoked, dropped, notified, cancelVars>>

\* The poll returns Pending or Ready; a poll that is spawning a child is not
\* over.  The guard is dropped; after Ready the task revokes itself.
PollReturns(t, result) ==
    /\ run[t] = "polling"
    /\ \A s \in Tasks : Parent[s] = t => ~Spawning(s)
    /\ run' = [run EXCEPT ![t] = IF revoked[t] THEN "destroy"
                                 ELSE IF result = "ready" THEN "revoke" ELSE "exit"]
    /\ UNCHANGED <<spawnVars, pending, futureVars, notified, rc, cancelVars>>

RunRevoke(t) ==
    /\ run[t] = "revoke"
    /\ run' = [run EXCEPT ![t] = IF revoked[t] THEN "exit" ELSE "destroy"]
    /\ revoked' = [revoked EXCEPT ![t] = TRUE]
    /\ UNCHANGED <<spawnVars, pending, dropped, wakers, notified, rc, cancelVars>>

RunDestroy(t) ==
    /\ run[t] = "destroy"
    /\ run' = [run EXCEPT ![t] = "exit"]
    /\ Destroy(t)
    /\ UNCHANGED <<spawnVars, pending, revoked, notified, cancelVars>>

\* Mutant of RunExit: the poll's waker is not dropped.
RunExitKeepsWaker(t) ==
    /\ run[t] = "exit"
    /\ run' = [run EXCEPT ![t] = "idle"]
    /\ Release(t, 1)
    /\ UNCHANGED <<spawnVars, pending, futureVars, notified, cancelVars>>

\* The poll's waker and the work item's own reference are dropped.
RunExit(t) ==
    /\ run[t] = "exit"
    /\ run' = [run EXCEPT ![t] = "idle"]
    /\ Release(t, 2)
    /\ UNCHANGED <<spawnVars, pending, futureVars, notified, cancelVars>>

-----------------------------------------------------------------------------
\* A clone is consumed by wake (the oneshot channel takes it out and wakes it).
Wake(t) ==
    /\ wakers[t] > 0
    /\ wakers' = [wakers EXCEPT ![t] = @ - 1]
    /\ Enqueue(t, 1)
    /\ notified' = [notified EXCEPT ![t] = TRUE]
    /\ UNCHANGED <<spawnVars, run, revoked, dropped, cancelVars>>

\* Mutant of WakeByRef: no need to queue a task that is running.
WakeByRefIfIdle(t) ==
    /\ wakers[t] > 0 \/ run[t] = "polling"
    /\ IF run[t] = "idle" THEN Enqueue(t, 0) ELSE UNCHANGED <<pending, rc>>
    /\ notified' = [notified EXCEPT ![t] = TRUE]
    /\ UNCHANGED <<spawnVars, run, futureVars, cancelVars>>

\* A clone is woken and kept (a socket's wake_callback), or the poll wakes
\* itself (yield_now).
WakeByRef(t) ==
    /\ wakers[t] > 0 \/ run[t] = "polling"
    /\ Enqueue(t, 0)
    /\ notified' = [notified EXCEPT ![t] = TRUE]
    /\ UNCHANGED <<spawnVars, run, futureVars, cancelVars>>

DropWaker(t) ==
    /\ wakers[t] > 0
    /\ wakers' = [wakers EXCEPT ![t] = @ - 1]
    /\ Release(t, 1)
    /\ UNCHANGED <<spawnVars, workVars, revoked, dropped, notified, cancelVars>>

-----------------------------------------------------------------------------
\* stop: under the lock, set the flag and take the list.
Stop(c) ==
    /\ cpc[c] = "idle"
    /\ stopped' = TRUE
    /\ clist' = [clist EXCEPT ![c] = tasks]
    /\ tasks' = <<>>
    /\ cpc' = [cpc EXCEPT ![c] = IF tasks = <<>> THEN "returned" ELSE "revoke"]
    /\ racing' = racing \cup {t \in Tasks : Spawning(t)}
    /\ UNCHANGED <<spawn, handle, workVars, futureVars, notified, rc, leaked>>

\* The holder of a handle revokes, flushes and drops it.
CancelHandle(c, t) ==
    /\ cpc[c] = "idle"
    /\ handle[t]
    /\ handle' = [handle EXCEPT ![t] = FALSE]
    /\ clist' = [clist EXCEPT ![c] = <<t>>]
    /\ cpc' = [cpc EXCEPT ![c] = "revoke"]
    /\ UNCHANGED <<stopped, tasks, spawn, workVars, futureVars, notified, rc, leaked, racing>>

\* task.revoke(): the caller destroys the future unless a guard is held (the
\* guard's drop then does) or it was revoked before.
CancelRevoke(c) ==
    LET t == Head(clist[c]) IN
    /\ cpc[c] = "revoke"
    /\ revoked' = [revoked EXCEPT ![t] = TRUE]
    /\ cpc' = [cpc EXCEPT ![c] = IF revoked[t] \/ run[t] = "polling" THEN "cancel"
                                 ELSE "destroy"]
    /\ UNCHANGED <<spawnVars, workVars, dropped, wakers, notified, rc, clist, leaked,
                   racing>>

CancelDestroy(c) ==
    /\ cpc[c] = "destroy"
    /\ cpc' = [cpc EXCEPT ![c] = "cancel"]
    /\ Destroy(Head(clist[c]))
    /\ UNCHANGED <<spawnVars, workVars, revoked, notified, clist, leaked, racing>>

\* task.flush(), cancel_work_sync: a queued item is taken off the queue without
\* running, so the reference it owns is not reclaimed; the item is disabled.
CancelGrab(c) ==
    LET t == Head(clist[c]) IN
    /\ cpc[c] = "cancel"
    /\ pending' = [pending EXCEPT ![t] = FALSE]
    /\ leaked' = [leaked EXCEPT ![t] = IF pending[t] THEN @ + 1 ELSE @]
    /\ cpc' = [cpc EXCEPT ![c] = "wait"]
    /\ UNCHANGED <<spawnVars, run, futureVars, notified, rc, clist, racing>>

\* Mutant of CancelWait: cancel_work in place of cancel_work_sync.
CancelNoWait(c) ==
    LET t == Head(clist[c]) IN
    /\ cpc[c] = "wait"
    /\ Release(t, 1)
    /\ clist' = [clist EXCEPT ![c] = Tail(@)]
    /\ cpc' = [cpc EXCEPT ![c] = IF Len(clist[c]) = 1 THEN "returned" ELSE "revoke"]
    /\ UNCHANGED <<spawnVars, workVars, futureVars, notified, leaked, racing>>

\* Mutant of CancelWait: waits for the last reference, not for the worker.
CancelWaitLastRef(c) ==
    LET t == Head(clist[c]) IN
    /\ cpc[c] = "wait"
    /\ rc[t] = 1
    /\ Release(t, 1)
    /\ clist' = [clist EXCEPT ![c] = Tail(@)]
    /\ cpc' = [cpc EXCEPT ![c] = IF Len(clist[c]) = 1 THEN "returned" ELSE "revoke"]
    /\ UNCHANGED <<spawnVars, workVars, futureVars, notified, leaked, racing>>

\* ... and the instance that is running, if any, has finished.  The loop goes
\* on with the next task of the list; this one's reference is dropped.
CancelWait(c) ==
    LET t == Head(clist[c]) IN
    /\ cpc[c] = "wait"
    /\ run[t] = "idle"
    /\ Release(t, 1)
    /\ clist' = [clist EXCEPT ![c] = Tail(@)]
    /\ cpc' = [cpc EXCEPT ![c] = IF Len(clist[c]) = 1 THEN "returned" ELSE "revoke"]
    /\ UNCHANGED <<spawnVars, workVars, futureVars, notified, leaked, racing>>

-----------------------------------------------------------------------------
SpawnStep(t) ==
    SpawnCheck(t) \/ SpawnNoMemory(t) \/ SpawnRegister(t) \/ SpawnEnqueue(t)

WorkStep(t) ==
    \/ Dispatch(t)
    \/ TryAccess(t)
    \/ PollReturns(t, "pending")
    \/ PollReturns(t, "ready")
    \/ RunRevoke(t)
    \/ RunDestroy(t)
    \/ RunExit(t)

WakerStep(t) == CloneWaker(t) \/ Wake(t) \/ WakeByRef(t) \/ DropWaker(t)

CancelStep(c) ==
    CancelRevoke(c) \/ CancelDestroy(c) \/ CancelGrab(c) \/ CancelWait(c)

Next ==
    \/ \E t \in Tasks : SpawnStep(t) \/ DropHandle(t) \/ WorkStep(t) \/ WakerStep(t)
    \/ \E c \in Stoppers : Stop(c)
    \/ \E c \in HandleHolders, t \in Tasks : CancelHandle(c, t)
    \/ \E c \in Cancellers : CancelStep(c)

\* Threads inside spawn, stop or flush keep running; the workqueue runs what is
\* queued; a poll returns (the executor cannot preempt it either).
Fairness ==
    /\ \A t \in Tasks : /\ WF_vars(SpawnNoMemory(t) \/ SpawnRegister(t) \/ SpawnEnqueue(t))
                        /\ WF_vars(WorkStep(t))
    /\ \A c \in Cancellers : WF_vars(CancelStep(c))

Spec == Init /\ [][Next]_vars /\ Fairness

-----------------------------------------------------------------------------
InSeq(t, seq) == \E i \in 1 .. Len(seq) : seq[i] = t

OneIf(condition) == IF condition THEN 1 ELSE 0

TypeOK ==
    /\ stopped \in BOOLEAN
    /\ tasks \in Seq(Tasks)
    /\ spawn \in [Tasks -> {"none", "checked", "registered", "done", "failed"}]
    /\ run \in [Tasks -> {"idle", "entered", "polling", "revoke", "destroy", "exit"}]
    /\ handle \in [Tasks -> BOOLEAN] /\ pending \in [Tasks -> BOOLEAN]
    /\ revoked \in [Tasks -> BOOLEAN] /\ dropped \in [Tasks -> BOOLEAN]
    /\ notified \in [Tasks -> BOOLEAN]
    /\ wakers \in [Tasks -> 0 .. MaxWakers]
    /\ rc \in [Tasks -> Nat] /\ leaked \in [Tasks -> Nat]
    /\ cpc \in [Cancellers -> {"idle", "revoke", "destroy", "cancel", "wait", "returned"}]
    /\ clist \in [Cancellers -> Seq(Tasks)]
    /\ racing \subseteq Tasks

\* The cancellers that still have t to revoke and flush.
Cancelling(t) == {c \in Cancellers : InSeq(t, clist[c])}

\* The references of the spawn call, the handle, the queue, the worker and the wakers.
OwnReferences(t) ==
      (IF spawn[t] = "registered" THEN 2 ELSE 0)
    + OneIf(handle[t])
    + OneIf(pending[t])
    + (IF run[t] = "idle" THEN 0 ELSE IF run[t] = "entered" THEN 1 ELSE 2)
    + wakers[t]

\* All that something can still use: those, and the lists'.
References(t) ==
    OwnReferences(t) + OneIf(InSeq(t, tasks)) + Cardinality(Cancelling(t))

\* The strong count of a task is the number of its live references plus those
\* a cancelled work item left behind: a task is never freed under the list, the
\* queue, a worker, a waker or a canceller, and no other reference is lost.
RcExact == \A t \in Tasks : rc[t] = References(t) + leaked[t]

\* No task escapes stop: a spawn that got past the flag is in the list stop takes,
\* in the list stop is working through, or revoked.
NoEscape ==
    /\ stopped => tasks = <<>>
    /\ \A t \in Tasks : spawn[t] \in {"registered", "done"} =>
          \/ revoked[t]
          \/ InSeq(t, tasks)
          \/ \E c \in Stoppers : InSeq(t, clist[c])

\* A wake-up is never lost: a task woken since its last poll began, from outside
\* or by that very poll, is queued or about to be polled.
NoLostWake ==
    \A t \in Tasks : notified[t] /\ ~revoked[t] => pending[t] \/ run[t] = "entered"

Cell(t) == INSTANCE RevocableCell WITH
               Users   <- {t},
               guards  <- IF run[t] = "polling" THEN {t} ELSE {},
               revoked <- revoked[t],
               dropped <- dropped[t]

\* Each future, whoever of spawn, stop, a handle's holder and its own worker
\* revokes it, is polled only before it is revoked, and destroyed at most once
\* afterwards, never during a poll.
FuturesAreCells ==
    [][\A t \in Tasks : [Cell(t)!CellNext]_(Cell(t)!cellVars)]_vars

\* stop and flush return, however the tasks wake one another meanwhile; and a
\* revoked future is destroyed in the end: when revoke races a poll, somebody is
\* left to do it.
CancelReturns ==
    /\ \A c \in Cancellers : cpc[c] # "idle" ~> cpc[c] = "returned"
    /\ \A t \in Tasks : revoked[t] ~> dropped[t]

\* Nobody but c has called stop, or revoked a task through its handle.
Alone(c) == \A d \in Cancellers \ {c} : cpc[d] = "idle"

\* No work item of t is queued or running after stop; t's spawn had returned by then,
\* or is the work of another task.
Quiet(c, t) ==
    cpc[c] = "returned" /\ Alone(c) /\ ~(t \in racing /\ Parent[t] = NoParent) =>
        ~pending[t] /\ run[t] = "idle"

\* Executor::stop's contract: after the call all existing tasks have been fully
\* cancelled.  No future is left, none is being polled, and no work item is queued or
\* running if the task's wakers died with its future.  It takes a stop without rivals:
\* one that finds the list taken, or a task revoked, does not wait.
StopCancels ==
    \A c \in Stoppers, t \in Tasks :
        /\ cpc[c] = "returned" /\ Alone(c) /\ spawn[t] \in {"registered", "done"} =>
              dropped[t] /\ run[t] # "polling"
        /\ t \notin Outliving => Quiet(c, t)

\* stop is the shutdown barrier, as its documentation says it.
StopIsBarrier == \A c \in Stoppers, t \in Tasks : Quiet(c, t)

\* What __enqueue says of the reference it leaks into the queue: it is reclaimed
\* when the item runs.
QueueGivesBack == \A t \in Tasks : leaked[t] = 0
=============================================================================
