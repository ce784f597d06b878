------------------------------ MODULE BlockOn ------------------------------
(***************************************************************************)
(* WorkqueueExecutor::block_on (kasync/executor/workqueue.rs): a thread    *)
(* spawns a task around its future and sleeps on a completion in its own   *)
(* stack frame, for at most 30000 jiffies; the task stores the value and   *)
(* the done flag in a shared cell and signals the completion.  Of the      *)
(* executor only what block_on meets is kept: spawn may fail, a task is    *)
(* polled in a worker, and stop revokes it, at once or after the poll.     *)
(***************************************************************************)
EXTENDS Naturals

CONSTANT Callers        \* threads, each with one call of block_on and its task

VARIABLES stopped,      \* stop has been called on the executor
          revoked,      \* the caller's task has been revoked
          caller,       \* where each call is, or what it returned
          task,         \* where its task is
          value,        \* ResultCell.value is Some
          done,         \* ResultCell.done
          tokens        \* the done count of the completion

vars == <<stopped, revoked, caller, task, value, done, tokens>>

Returned == {"Ok", "EBUSY", "ENOMEM", "EINVAL"}

\* The stack frame that holds the completion.
FrameAlive(c) == caller[c] \in {"waiting", "woken", "taking"}

Init ==
    /\ stopped = FALSE
    /\ revoked = [c \in Callers |-> FALSE]
    /\ caller = [c \in Callers |-> "idle"]
    /\ task = [c \in Callers |-> "none"]
    /\ value = [c \in Callers |-> FALSE]
    /\ done = [c \in Callers |-> FALSE]
    /\ tokens = [c \in Callers |-> 0]

-----------------------------------------------------------------------------
\* The cell is not to be had, or spawn_inner fails: the error is passed on and the
\* future dropped.
SpawnFails(c) ==
    /\ caller[c] = "idle"
    /\ \/ caller' = [caller EXCEPT ![c] = "ENOMEM"]
       \/ stopped /\ caller' = [caller EXCEPT ![c] = "EBUSY"]
    /\ UNCHANGED <<stopped, revoked, task, value, done, tokens>>

Spawn(c) ==
    /\ caller[c] = "idle" /\ ~stopped
    /\ caller' = [caller EXCEPT ![c] = "waiting"]
    /\ task' = [task EXCEPT ![c] = "pending"]
    /\ UNCHANGED <<stopped, revoked, value, done, tokens>>

\* wait_timeout ends with a token ...
Wake(c) ==
    /\ caller[c] = "waiting" /\ tokens[c] > 0
    /\ tokens' = [tokens EXCEPT ![c] = @ - 1]
    /\ caller' = [caller EXCEPT ![c] = "woken"]
    /\ UNCHANGED <<stopped, revoked, task, value, done>>

\* Mutant of TimeOut: the wait of a stopped executor's caller has no limit.
TimeOutRunning(c) ==
    /\ caller[c] = "waiting" /\ tokens[c] = 0 /\ ~stopped
    /\ caller' = [caller EXCEPT ![c] = "woken"]
    /\ UNCHANGED <<stopped, revoked, task, value, done, tokens>>

\* ... or without one; what it returns is not looked at.
TimeOut(c) ==
    /\ caller[c] = "waiting" /\ tokens[c] = 0
    /\ caller' = [caller EXCEPT ![c] = "woken"]
    /\ UNCHANGED <<stopped, revoked, task, value, done, tokens>>

LoadDone(c) ==
    /\ caller[c] = "woken"
    /\ caller' = [caller EXCEPT ![c] = IF done[c] THEN "taking" ELSE "EBUSY"]
    /\ UNCHANGED <<stopped, revoked, task, value, done, tokens>>

TakeValue(c) ==
    /\ caller[c] = "taking"
    /\ caller' = [caller EXCEPT ![c] = IF value[c] THEN "Ok" ELSE "EINVAL"]
    /\ value' = [value EXCEPT ![c] = FALSE]
    /\ UNCHANGED <<stopped, revoked, task, done, tokens>>

-----------------------------------------------------------------------------
\* A worker polls the task, unless it has been revoked.
PollBegin(c) ==
    /\ task[c] = "pending" /\ ~revoked[c]
    /\ task' = [task EXCEPT ![c] = "polling"]
    /\ UNCHANGED <<stopped, revoked, caller, value, done, tokens>>

\* The future is pending; it is dropped here if it was revoked meanwhile.
PollPending(c) ==
    /\ task[c] = "polling"
    /\ task' = [task EXCEPT ![c] = IF revoked[c] THEN "cancelled" ELSE "pending"]
    /\ UNCHANGED <<stopped, revoked, caller, value, done, tokens>>

\* Mutant of StoreValue: the flag is raised before the value is there.
StoreValueLate(c) ==
    /\ task[c] = "polling"
    /\ \/ ~done[c] /\ done' = [done EXCEPT ![c] = TRUE] /\ UNCHANGED <<value, task>>
       \/ done[c] /\ value' = [value EXCEPT ![c] = TRUE]
                  /\ task' = [task EXCEPT ![c] = "stored"] /\ UNCHANGED done
    /\ UNCHANGED <<stopped, revoked, caller, tokens>>

\* The future is ready and its value is stored ...
StoreValue(c) ==
    /\ task[c] = "polling"
    /\ value' = [value EXCEPT ![c] = TRUE]
    /\ task' = [task EXCEPT ![c] = "stored"]
    /\ UNCHANGED <<stopped, revoked, caller, done, tokens>>

\* ... the flag raised ...
StoreDone(c) ==
    /\ task[c] = "stored"
    /\ done' = [done EXCEPT ![c] = TRUE]
    /\ task' = [task EXCEPT ![c] = "done"]
    /\ UNCHANGED <<stopped, revoked, caller, value, tokens>>

\* ... and the completion signalled, through a pointer into the caller's frame.
Complete(c) ==
    /\ task[c] = "done"
    /\ tokens' = [tokens EXCEPT ![c] = IF FrameAlive(c) THEN @ + 1 ELSE @]
    /\ task' = [task EXCEPT ![c] = "complete"]
    /\ UNCHANGED <<stopped, revoked, caller, value, done>>

-----------------------------------------------------------------------------
\* stop, from some other thread: no more spawns ...
Stop ==
    /\ ~stopped
    /\ stopped' = TRUE
    /\ UNCHANGED <<revoked, caller, task, value, done, tokens>>

\* ... and each task is revoked, which drops a future that is not being polled.
StopRevokes(c) ==
    /\ stopped /\ task[c] # "none" /\ ~revoked[c]
    /\ revoked' = [revoked EXCEPT ![c] = TRUE]
    /\ task' = [task EXCEPT ![c] = IF @ = "pending" THEN "cancelled" ELSE @]
    /\ UNCHANGED <<stopped, caller, value, done, tokens>>

-----------------------------------------------------------------------------
CallerStep(c) == Wake(c) \/ TimeOut(c) \/ LoadDone(c) \/ TakeValue(c)
PollRuns(c) == StoreDone(c) \/ Complete(c)

Next ==
    \/ Stop
    \/ \E c \in Callers :
          \/ SpawnFails(c) \/ Spawn(c) \/ CallerStep(c)
          \/ PollBegin(c) \/ PollPending(c) \/ StoreValue(c) \/ PollRuns(c)
          \/ StopRevokes(c)

\* Timeouts expire, a thread that is not waiting runs on, and the end of a poll
\* that has found its future ready contains no wait.
Fairness == \A c \in Callers : WF_vars(CallerStep(c)) /\ WF_vars(PollRuns(c))

Spec == Init /\ [][Next]_vars /\ Fairness

-----------------------------------------------------------------------------
TypeOK ==
    /\ stopped \in BOOLEAN
    /\ {revoked, value, done} \subseteq [Callers -> BOOLEAN]
    /\ caller \in [Callers -> {"idle", "waiting", "woken", "taking"} \cup Returned]
    /\ task \in [Callers -> {"none", "pending", "polling", "stored", "done", "complete",
                             "cancelled"}]
    /\ tokens \in [Callers -> 0 .. 1]

\* Ok carries the future's value and EINVAL is never returned: the flag, read
\* after a timeout or after the signal, is never ahead of the value.
NoEmptyResult ==
    \A c \in Callers : /\ caller[c] # "EINVAL"
                       /\ caller[c] = "taking" => value[c]

\* The value cell has no two users at a time: even a caller that timed out while
\* the future was completing leaves it alone until the task is through with it.
ValueExclusive ==
    \A c \in Callers : caller[c] = "taking" => task[c] \in {"done", "complete"}

\* block_on returns whatever happens to the future; when stop cancels it nobody
\* signals the completion, and only the timeout ends the wait.
CallReturns ==
    \A c \in Callers : caller[c] = "waiting" ~> caller[c] \in Returned

\* The SAFETY comment at complete(): the completion is in the caller's stack, which
\* is alive because the caller is blocked on it.
CompletesLiveFrame ==
    \A c \in Callers : task[c] = "done" => FrameAlive(c)
=============================================================================
