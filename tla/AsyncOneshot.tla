---------------------------- MODULE AsyncOneshot ----------------------------
(***************************************************************************)
(* The async one-shot channel (rko-core/src/kasync/oneshot.rs): a sender   *)
(* thread and the task that polls the receiver share a heap cell.  Each    *)
(* atomic access is a step; the accesses to the waker cell, which are not  *)
(* atomic, take two steps, so that they may overlap.                       *)
(***************************************************************************)
EXTENDS Naturals

CONSTANT Values         \* what may be sent

VARIABLES state,        \* STATE_EMPTY, STATE_SENT, STATE_CLOSED
          value,        \* the value cell: a member of Values or "uninit"
          received,     \* what the receiver has read out of it, or "nothing"
          waker,        \* the waker cell holds Some
          taken,        \* what the sender's take has read out of it
          refcount,
          freed,        \* the heap cell has been freed
          spc,          \* the sender: where it is in send or drop
          rpc,          \* the receiver: where it is in poll or drop
          scheduled     \* the receiver's task will be polled (again)

vars == <<state, value, received, waker, taken, refcount, freed, spc, rpc, scheduled>>

Init ==
    /\ state = "EMPTY"
    /\ value = "uninit"
    /\ received = "nothing"
    /\ waker = FALSE
    /\ taken = FALSE
    /\ refcount = 2
    /\ freed = FALSE
    /\ spc = "open"
    /\ rpc = "pending"
    /\ scheduled = TRUE

-----------------------------------------------------------------------------
\* send: the value is written, then the state.
WriteValue(v) ==
    /\ spc = "open"
    /\ value' = v
    /\ spc' = "written"
    /\ UNCHANGED <<state, received, waker, taken, refcount, freed, rpc, scheduled>>

StoreSent ==
    /\ spc = "written"
    /\ state' = "SENT"
    /\ spc' = "wake"
    /\ UNCHANGED <<value, received, waker, taken, refcount, freed, rpc, scheduled>>

\* Drop of a sender that has not sent.
StoreClosed ==
    /\ spc = "open"
    /\ state' = "CLOSED"
    /\ spc' = "wake"
    /\ UNCHANGED <<value, received, waker, taken, refcount, freed, rpc, scheduled>>

\* wake: take reads the waker cell.  A read that overlaps the receiver's write
\* may see the old content or the new ...
TakeBegin ==
    /\ spc = "wake"
    /\ taken' \in {waker} \cup (IF rpc = "storing" THEN {TRUE} ELSE {})
    /\ spc' = "taking"
    /\ UNCHANGED <<state, value, received, waker, refcount, freed, rpc, scheduled>>

\* ... and leaves None in it, over whatever was stored since; what it took is woken.
TakeEnd ==
    /\ spc = "taking"
    /\ waker' = FALSE
    /\ scheduled' = (scheduled \/ taken)
    /\ spc' = "woken"
    /\ UNCHANGED <<state, value, received, taken, refcount, freed, rpc>>

\* Mutant of SenderDecRef: the cell is freed by the sender whoever else uses it.
SenderFrees ==
    /\ spc = "woken"
    /\ spc' = "gone"
    /\ refcount' = refcount - 1
    /\ freed' = TRUE
    /\ UNCHANGED <<state, value, received, waker, taken, rpc, scheduled>>

SenderDecRef ==
    /\ spc = "woken"
    /\ spc' = "gone"
    /\ refcount' = refcount - 1
    /\ freed' = (refcount = 1)
    /\ UNCHANGED <<state, value, received, waker, taken, rpc, scheduled>>

-----------------------------------------------------------------------------
\* What a load of the state decides in poll; `empty` is where EMPTY leads.
Branch(empty) == CASE state = "SENT"   -> "read"
                   [] state = "CLOSED" -> "none"
                   [] OTHER            -> empty

\* The task is polled: the first load of the state.
PollLoad ==
    /\ rpc = "pending"
    /\ scheduled
    /\ scheduled' = FALSE
    /\ rpc' = Branch("store")
    /\ UNCHANGED <<state, value, received, waker, taken, refcount, freed, spc>>

\* The store of the waker begins ...
StoreBegin ==
    /\ rpc = "store"
    /\ rpc' = "storing"
    /\ UNCHANGED <<state, value, received, waker, taken, refcount, freed, spc, scheduled>>

\* ... and ends.
StoreEnd ==
    /\ rpc = "storing"
    /\ waker' = TRUE
    /\ rpc' = "recheck"
    /\ UNCHANGED <<state, value, received, taken, refcount, freed, spc, scheduled>>

\* Mutant of PollRecheck: Pending without looking at the state again.
PollNoRecheck ==
    /\ rpc = "recheck"
    /\ rpc' = "pending"
    /\ UNCHANGED <<state, value, received, waker, taken, refcount, freed, spc, scheduled>>

\* The second load.
PollRecheck ==
    /\ rpc = "recheck"
    /\ rpc' = Branch("pending")
    /\ UNCHANGED <<state, value, received, waker, taken, refcount, freed, spc, scheduled>>

\* assume_init_read: the value is copied out, Ready(Some).
ReadValue ==
    /\ rpc = "read"
    /\ received' = value
    /\ rpc' = "some"
    /\ UNCHANGED <<state, value, waker, taken, refcount, freed, spc, scheduled>>

\* The receiver is dropped: after Ready, or while pending, with its task.
ReceiverDecRef ==
    /\ rpc \in {"pending", "some", "none"}
    /\ rpc' = CASE rpc = "pending" -> "cancelled"
                [] rpc = "some"    -> "gone_some"
                [] rpc = "none"    -> "gone_none"
    /\ refcount' = refcount - 1
    /\ freed' = (refcount = 1)
    /\ UNCHANGED <<state, value, received, waker, taken, spc, scheduled>>

\* The task is woken by something else it waits for.
OtherWake ==
    /\ rpc = "pending"
    /\ scheduled' = TRUE
    /\ UNCHANGED <<state, value, received, waker, taken, refcount, freed, spc, rpc>>

-----------------------------------------------------------------------------
SenderStep ==
    \/ \E v \in Values : WriteValue(v)
    \/ StoreSent \/ StoreClosed \/ TakeBegin \/ TakeEnd \/ SenderDecRef

SenderFinish == StoreSent \/ TakeBegin \/ TakeEnd \/ SenderDecRef

PollStep == PollLoad \/ StoreBegin \/ StoreEnd \/ PollRecheck \/ ReadValue

Next == SenderStep \/ PollStep \/ ReceiverDecRef \/ OtherWake

\* A sender that has begun to send or drop finishes; the executor polls a task
\* that is scheduled (WakeLeadsToPoll of WorkqueueExecutor), and a poll goes on
\* to its end.
Fairness ==
    /\ WF_vars(SenderFinish)
    /\ WF_vars(PollStep)

Spec == Init /\ [][Next]_vars /\ Fairness

-----------------------------------------------------------------------------
ReceiverGone == rpc \in {"cancelled", "gone_some", "gone_none"}

TypeOK ==
    /\ state \in {"EMPTY", "SENT", "CLOSED"}
    /\ value \in Values \cup {"uninit"}
    /\ received \in Values \cup {"nothing"}
    /\ {waker, taken} \subseteq BOOLEAN
    /\ refcount \in 0 .. 2
    /\ freed \in BOOLEAN
    /\ spc \in {"open", "written", "wake", "taking", "woken", "gone"}
    /\ rpc \in {"pending", "store", "storing", "recheck", "read", "some", "none",
                "cancelled", "gone_some", "gone_none"}
    /\ scheduled \in BOOLEAN

\* The heap cell is freed by whichever half is dropped last, and not before: no
\* half touches a freed cell, and none is forgotten.
FreedByLast == freed <=> (spc = "gone" /\ ReceiverGone)

Channel == INSTANCE Oneshot WITH
    MayTimeOut <- FALSE,
    sender <- CASE state = "EMPTY" -> "open" [] state = "SENT" -> value [] OTHER -> "closed",
    receiver <- CASE rpc \in {"some", "gone_some"} -> received
                  [] rpc \in {"none", "gone_none"} -> "none"
                  [] rpc = "cancelled"            -> "dropped"
                  [] OTHER                        -> "waiting"

\* The channel delivers: Some(v) exactly when v was sent, None exactly when the
\* sender was dropped, and one of them once the sender has acted.
ImplementsChannel == Channel!ChanSpec

\* The SAFETY comments of poll and wake: the sender takes the waker only when the
\* receiver cannot be writing it.
WakerExclusive == ~(spc = "taking" /\ rpc = "storing")
=============================================================================
