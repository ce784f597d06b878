----------------------------- MODULE SyncOneshot -----------------------------
(***************************************************************************)
(* The blocking one-shot channel (rko-core/src/sync/oneshot.rs): a sender  *)
(* thread and a receiver thread, a kernel completion between them.  The    *)
(* value and the sent flag are plain memory that only the completion       *)
(* orders.  The completion is external: complete() adds a token, a wait    *)
(* takes one or, with a timeout, may give up while there is none.          *)
(***************************************************************************)
EXTENDS Naturals

CONSTANT Values         \* what may be sent

VARIABLES value,        \* the value cell: a member of Values or "uninit"
          received,     \* what the receiver has read out of it, or "nothing"
          sent,         \* the sent flag
          tokens,       \* the completion's done count
          refcount,
          freed,
          spc,          \* the sender, in send or drop
          rpc,          \* the receiver, in recv, recv_timeout or drop
          timed         \* the receiver called recv_timeout

vars == <<value, received, sent, tokens, refcount, freed, spc, rpc, timed>>

Init ==
    /\ value = "uninit"
    /\ received = "nothing"
    /\ sent = FALSE
    /\ tokens = 0
    /\ refcount = 2
    /\ freed = FALSE
    /\ spc = "open"
    /\ rpc = "held"
    /\ timed = FALSE

-----------------------------------------------------------------------------
\* send: the value, the flag, the completion, the reference.
WriteValue(v) ==
    /\ spc = "open"
    /\ value' = v
    /\ spc' = "written"
    /\ UNCHANGED <<received, sent, tokens, refcount, freed, rpc, timed>>

SetSent ==
    /\ spc = "written"
    /\ sent' = TRUE
    /\ spc' = "complete"
    /\ UNCHANGED <<value, received, tokens, refcount, freed, rpc, timed>>

\* Drop of a sender that has not sent goes straight to complete().
SenderDrop ==
    /\ spc = "open"
    /\ spc' = "complete"
    /\ UNCHANGED <<value, received, sent, tokens, refcount, freed, rpc, timed>>

Complete ==
    /\ spc = "complete"
    /\ tokens' = tokens + 1
    /\ spc' = "completed"
    /\ UNCHANGED <<value, received, sent, refcount, freed, rpc, timed>>

SenderDecRef ==
    /\ spc = "completed"
    /\ spc' = "gone"
    /\ refcount' = refcount - 1
    /\ freed' = (refcount = 1)
    /\ UNCHANGED <<value, received, sent, tokens, rpc, timed>>

-----------------------------------------------------------------------------
Recv(withTimeout) ==
    /\ rpc = "held"
    /\ rpc' = "waiting"
    /\ timed' = withTimeout
    /\ UNCHANGED <<value, received, sent, tokens, refcount, freed, spc>>

\* wait and wait_timeout take the token (remaining > 0).
TakeToken ==
    /\ rpc = "waiting"
    /\ tokens > 0
    /\ tokens' = tokens - 1
    /\ rpc' = "signalled"
    /\ UNCHANGED <<value, received, sent, refcount, freed, spc, timed>>

\* wait_timeout gives up with no token there (remaining = 0): None, unread.
TimeOut ==
    /\ rpc = "waiting"
    /\ timed
    /\ tokens = 0
    /\ rpc' = "timeout"
    /\ UNCHANGED <<value, received, sent, tokens, refcount, freed, spc, timed>>

\* read_value.
ReadValue ==
    /\ rpc = "signalled"
    /\ IF sent
       THEN received' = value /\ rpc' = "some"
       ELSE rpc' = "none" /\ UNCHANGED received
    /\ UNCHANGED <<value, sent, tokens, refcount, freed, spc, timed>>

\* The receiver's reference goes last, whether it has received or not.
Gone(r) == CASE r = "some"    -> "gone_some"
             [] r = "none"    -> "gone_none"
             [] r = "timeout" -> "gone_timeout"
             [] OTHER         -> "gone_unused"

ReceiverDecRef ==
    /\ rpc \in {"held", "some", "none", "timeout"}
    /\ rpc' = Gone(rpc)
    /\ refcount' = refcount - 1
    /\ freed' = (refcount = 1)
    /\ UNCHANGED <<value, received, sent, tokens, spc, timed>>

-----------------------------------------------------------------------------
SenderFinish == SetSent \/ Complete \/ SenderDecRef
ReceiverFinish == TakeToken \/ ReadValue

Next ==
    \/ \E v \in Values : WriteValue(v)
    \/ SenderDrop \/ SenderFinish
    \/ \E withTimeout \in BOOLEAN : Recv(withTimeout)
    \/ ReceiverFinish \/ TimeOut \/ ReceiverDecRef

\* Threads inside send, drop or recv run on; a waiter with a token wakes up.
Spec == Init /\ [][Next]_vars /\ WF_vars(SenderFinish) /\ WF_vars(ReceiverFinish)

-----------------------------------------------------------------------------
\* The heap cell, with the completion inside it, is freed by the half that is
\* dropped last: complete() never touches freed memory after a timeout.
FreedByLast ==
    freed <=> spc = "gone" /\ rpc \in {"gone_some", "gone_none", "gone_timeout", "gone_unused"}

Channel == INSTANCE Oneshot WITH
    MayTimeOut <- TRUE,
    sender <- IF tokens = 0 /\ spc \in {"open", "written", "complete"} THEN "open"
              ELSE IF sent THEN value ELSE "closed",
    receiver <- CASE rpc \in {"some", "gone_some"}       -> received
                  [] rpc \in {"none", "gone_none"}       -> "none"
                  [] rpc \in {"timeout", "gone_timeout"} -> "timeout"
                  [] rpc = "gone_unused"                 -> "dropped"
                  [] OTHER                               -> "waiting"

\* The channel delivers: Some(v) if v was sent, None if the sender was dropped
\* or the timeout came first.
ImplementsChannel == Channel!ChanSafeSpec

\* A receiver that is waiting when the sender acts, or comes to wait later, is
\* answered or times out; the plain recv is always answered.
ReceiverAnswered ==
    rpc = "waiting" /\ spc # "open" ~> rpc \in {"some", "none", "timeout"}
=============================================================================
