---------------------------- MODULE RevocableCell ----------------------------
(***************************************************************************)
(* What a revocable value promises its users, as the header of            *)
(* rko-core/src/revocable.rs puts it: once revoked, no new guard can be    *)
(* created, and the value is dropped once, when the last outstanding guard *)
(* is released.  AsyncRevocable.tla shows that the atomic-counter protocol *)
(* implements this, and WorkqueueExecutor.tla builds on it.                *)
(***************************************************************************)
CONSTANT Users          \* callers that may hold a guard

VARIABLES guards,       \* the users that hold a guard now
          revoked,      \* no guard is handed out any more
          dropped       \* the value's destructor has run

cellVars == <<guards, revoked, dropped>>

CellInit ==
    /\ guards = {}
    /\ revoked = FALSE
    /\ dropped = FALSE

\* A guard is handed out, only before the revocation.
Acquire(u) ==
    /\ ~revoked
    /\ u \notin guards
    /\ guards' = guards \cup {u}
    /\ UNCHANGED <<revoked, dropped>>

Release(u) ==
    /\ u \in guards
    /\ guards' = guards \ {u}
    /\ UNCHANGED <<revoked, dropped>>

Revoke ==
    /\ ~revoked
    /\ revoked' = TRUE
    /\ UNCHANGED <<guards, dropped>>

\* The destructor runs on a revoked value that nobody is looking at.
Destroy ==
    /\ revoked
    /\ guards = {}
    /\ ~dropped
    /\ dropped' = TRUE
    /\ UNCHANGED <<guards, revoked>>

\* The owner drops a value that was never revoked.
OwnerDrop ==
    /\ ~revoked
    /\ guards = {}
    /\ revoked' = TRUE
    /\ dropped' = TRUE
    /\ UNCHANGED guards

CellNext ==
    \/ \E u \in Users : Acquire(u) \/ Release(u)
    \/ Revoke
    \/ Destroy
    \/ OwnerDrop

CellSafeSpec == CellInit /\ [][CellNext]_cellVars

\* A revoked value without guards is destroyed without anybody's help.
CellSpec == CellSafeSpec /\ WF_cellVars(Destroy)
=============================================================================
