------------------------------- MODULE Oneshot -------------------------------
(***************************************************************************)
(* What a one-shot channel promises: the receiver gets the one value that  *)
(* was sent, or learns that none will come because the sender is gone; a   *)
(* receiver that waits with a timeout may give up first.  Both channels of *)
(* rko-core (kasync/oneshot.rs and sync/oneshot.rs) are shown to implement *)
(* it.                                                                     *)
(***************************************************************************)
CONSTANTS Values,       \* what may be sent
          MayTimeOut    \* the receiver may give up

VARIABLES sender,       \* "open", "closed", or the value sent
          receiver      \* "waiting", "none", "timeout", "dropped", or the value

chanVars == <<sender, receiver>>

ChanInit == sender = "open" /\ receiver = "waiting"

Send(v) ==
    /\ sender = "open"
    /\ sender' = v
    /\ UNCHANGED receiver

Close ==
    /\ sender = "open"
    /\ sender' = "closed"
    /\ UNCHANGED receiver

Deliver ==
    /\ receiver = "waiting"
    /\ sender # "open"
    /\ receiver' = IF sender = "closed" THEN "none" ELSE sender
    /\ UNCHANGED sender

GiveUp ==
    /\ receiver = "waiting"
    /\ \/ receiver' = "dropped"
       \/ MayTimeOut /\ receiver' = "timeout"
    /\ UNCHANGED sender

ChanNext == (\E v \in Values : Send(v)) \/ Close \/ Deliver \/ GiveUp

ChanSafeSpec == ChanInit /\ [][ChanNext]_chanVars

\* A receiver that keeps waiting is answered once the sender has acted.
ChanSpec == ChanSafeSpec /\ WF_chanVars(Deliver)
=============================================================================
