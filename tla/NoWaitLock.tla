----------------------------- MODULE NoWaitLock -----------------------------
(***************************************************************************)
(* The try-only lock of rko-core/src/sync/nowaitlock.rs: one atomic byte,  *)
(* a compare_exchange to take it, a second one to leave a contention mark  *)
(* behind when the first fails, a swap to release it.                      *)
(***************************************************************************)
CONSTANT Users          \* the contexts that may call try_lock

VARIABLES state,        \* UNLOCKED, LOCKED or LOCKED_CONTENDED
          pc            \* "idle", "slow" (first exchange failed) or "locked"

lockVars == <<state, pc>>

Init ==
    /\ state = "UNLOCKED"
    /\ pc = [u \in Users |-> "idle"]

\* try_lock, fast path: compare_exchange(UNLOCKED, LOCKED).
TryLock(u) ==
    /\ pc[u] = "idle"
    /\ IF state = "UNLOCKED"
       THEN state' = "LOCKED" /\ pc' = [pc EXCEPT ![u] = "locked"]
       ELSE pc' = [pc EXCEPT ![u] = "slow"] /\ UNCHANGED state

\* try_lock, slow path: compare_exchange(LOCKED, LOCKED_CONTENDED), and None.
MarkContended(u) ==
    /\ pc[u] = "slow"
    /\ state' = IF state = "LOCKED" THEN "LOCKED_CONTENDED" ELSE state
    /\ pc' = [pc EXCEPT ![u] = "idle"]

\* unlock and the guard's Drop: swap(UNLOCKED).
Unlock(u) ==
    /\ pc[u] = "locked"
    /\ state' = "UNLOCKED"
    /\ pc' = [pc EXCEPT ![u] = "idle"]

Next == \E u \in Users : TryLock(u) \/ MarkContended(u) \/ Unlock(u)

Spec == Init /\ [][Next]_lockVars

-----------------------------------------------------------------------------
LockTypeOK ==
    /\ state \in {"UNLOCKED", "LOCKED", "LOCKED_CONTENDED"}
    /\ pc \in [Users -> {"idle", "slow", "locked"}]

\* At most one context has the data, and the byte says whether one does: a late
\* contention mark never lands on a free lock or unlocks a taken one.
MutualExclusion ==
    /\ state = "UNLOCKED" <=> \A u \in Users : pc[u] # "locked"
    /\ \A u, w \in Users : pc[u] = "locked" /\ pc[w] = "locked" => u = w
=============================================================================
