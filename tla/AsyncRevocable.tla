--------------------------- MODULE AsyncRevocable ---------------------------
(***************************************************************************)
(* AsyncRevocable<T> of rko-core/src/revocable.rs: a value behind one      *)
(* atomic word, whose top bit is "revoked" and whose other bits count the  *)
(* guards.  Every atomic access of the code is a step of its own, and so   *)
(* is the run of the value's destructor, which the code starts after the   *)
(* access that made it responsible for it.                                 *)
(***************************************************************************)
EXTENDS Integers, FiniteSets

CONSTANTS Users,        \* callers of try_access and revoke; one guard each
          RevokedBit    \* REVOKED_BIT, 2^31 in the code

\* A guard is a live borrow, so there are never 2^31 of them (the code's
\* debug_assert).
ASSUME UsersAssumption ==
    /\ IsFiniteSet(Users)
    /\ RevokedBit \in Nat
    /\ Cardinality(Users) < RevokedBit

VARIABLES usage_count,  \* the atomic word
          pc,           \* where each user is
          val,          \* the word a user in try_access loaded last
          drops,        \* how many times the value's destructor has run
          alive         \* the wrapper itself has not been dropped

vars == <<usage_count, pc, val, drops, alive>>

IsRevoked(word) == word >= RevokedBit       \* word & REVOKED_BIT != 0

Guards == {u \in Users : pc[u] = "guard"}

Init ==
    /\ usage_count = 0
    /\ pc = [u \in Users |-> "idle"]
    /\ val = [u \in Users |-> 0]
    /\ drops = 0
    /\ alive = TRUE

-----------------------------------------------------------------------------
\* try_access: the load that starts each turn of the loop, and the early return
\* of None.
Load(u) ==
    /\ alive
    /\ pc[u] \in {"idle", "retry"}
    /\ IF IsRevoked(usage_count)
       THEN /\ pc' = [pc EXCEPT ![u] = "idle"]
            /\ UNCHANGED val
       ELSE /\ pc' = [pc EXCEPT ![u] = "loaded"]
            /\ val' = [val EXCEPT ![u] = usage_count]
    /\ UNCHANGED <<usage_count, drops, alive>>

\* Mutant of CompareExchangeOk: a plain store, which loses concurrent updates.
CompareExchangeBlind(u) ==
    /\ pc[u] = "loaded"
    /\ usage_count' = val[u] + 1
    /\ pc' = [pc EXCEPT ![u] = "guard"]
    /\ UNCHANGED <<val, drops, alive>>

\* Mutant of CompareExchangeOk: the comparison masks the revoked bit out.
CompareExchangeMasked(u) ==
    /\ pc[u] = "loaded"
    /\ usage_count % RevokedBit = val[u]
    /\ usage_count' = usage_count + 1
    /\ pc' = [pc EXCEPT ![u] = "guard"]
    /\ UNCHANGED <<val, drops, alive>>

\* try_access: compare_exchange_weak(val, val + 1) succeeds.
CompareExchangeOk(u) ==
    /\ pc[u] = "loaded"
    /\ usage_count = val[u]
    /\ usage_count' = val[u] + 1
    /\ pc' = [pc EXCEPT ![u] = "guard"]
    /\ UNCHANGED <<val, drops, alive>>

\* It fails, which the weak form may do on an unchanged word too: continue.
CompareExchangeErr(u) ==
    /\ pc[u] = "loaded"
    /\ pc' = [pc EXCEPT ![u] = "retry"]
    /\ UNCHANGED <<usage_count, val, drops, alive>>

\* revoke: fetch_or(REVOKED_BIT); only the call that finds the word zero goes on
\* to drop the value.
Revoke(u) ==
    /\ alive
    /\ pc[u] = "idle"
    /\ usage_count' = IF IsRevoked(usage_count) THEN usage_count
                      ELSE usage_count + RevokedBit
    /\ pc' = [pc EXCEPT ![u] = IF usage_count = 0 THEN "drop_data" ELSE "idle"]
    /\ UNCHANGED <<val, drops, alive>>

\* Mutant of GuardDrop: the last guard forgets the value.
GuardDropForgets(u) ==
    /\ pc[u] = "guard"
    /\ usage_count' = usage_count - 1
    /\ pc' = [pc EXCEPT ![u] = "idle"]
    /\ UNCHANGED <<val, drops, alive>>

\* Mutant of GuardDrop: tests the revoked bit, not that it is the last guard.
GuardDropAny(u) ==
    /\ pc[u] = "guard"
    /\ usage_count' = usage_count - 1
    /\ pc' = [pc EXCEPT ![u] = IF IsRevoked(usage_count) THEN "drop_data" ELSE "idle"]
    /\ UNCHANGED <<val, drops, alive>>

\* Drop of a guard: fetch_sub(1); the last guard of a revoked value goes on to
\* drop it.
GuardDrop(u) ==
    /\ pc[u] = "guard"
    /\ usage_count' = usage_count - 1
    /\ pc' = [pc EXCEPT ![u] =
                 IF usage_count = RevokedBit + 1 THEN "drop_data" ELSE "idle"]
    /\ UNCHANGED <<val, drops, alive>>

\* drop_in_place, at the end of revoke and of the last guard's drop.
DropData(u) ==
    /\ pc[u] = "drop_data"
    /\ drops' = drops + 1
    /\ pc' = [pc EXCEPT ![u] = "idle"]
    /\ UNCHANGED <<usage_count, val, alive>>

\* Drop of the wrapper: &mut self, so no call is under way and no guard lives.
DropWrapper ==
    /\ alive
    /\ \A u \in Users : pc[u] = "idle"
    /\ alive' = FALSE
    /\ drops' = IF IsRevoked(usage_count) THEN drops ELSE drops + 1
    /\ UNCHANGED <<usage_count, pc, val>>

Next ==
    \/ \E u \in Users :
          \/ Load(u)
          \/ CompareExchangeOk(u)
          \/ CompareExchangeErr(u)
          \/ Revoke(u)
          \/ GuardDrop(u)
          \/ DropData(u)
    \/ DropWrapper

\* A guard is !Send and lives for one poll, which returns; a destructor that
\* has been started is run to its end.
Fairness == \A u \in Users : WF_vars(GuardDrop(u)) /\ WF_vars(DropData(u))

Spec == Init /\ [][Next]_vars /\ Fairness

-----------------------------------------------------------------------------
TypeOK ==
    /\ usage_count \in 0 .. 2 * RevokedBit - 1
    /\ pc \in [Users -> {"idle", "loaded", "retry", "guard", "drop_data"}]
    /\ val \in [Users -> 0 .. RevokedBit - 1]
    /\ drops \in Nat
    /\ alive \in BOOLEAN

\* The low 31 bits of usage_count are the number of live guards (the struct's
\* first documented invariant): no lost update, no carry into the revoked bit.
CountIsGuards ==
    usage_count = Cardinality(Guards) + (IF IsRevoked(usage_count) THEN RevokedBit ELSE 0)

\* The value is initialised while any guard can dereference it, and while its
\* destructor runs nobody holds a guard and nobody else runs it
\* (the SAFETY comments of deref, revoke and the guard's Drop).
NoUseAfterDrop ==
    /\ Guards # {} => drops = 0
    /\ \A u \in Users : pc[u] = "drop_data" =>
          /\ Guards = {}
          /\ drops = 0
          /\ \A w \in Users \ {u} : pc[w] # "drop_data"

\* The destructor never runs twice, whichever of revoke, the last guard and
\* the wrapper's own Drop comes to run it.
DroppedOnce == drops <= 1

\* Once the revoked bit is set it stays set and no user gains a guard, even one
\* whose compare_exchange was prepared from a word loaded before.
NoAccessAfterRevoke ==
    [][IsRevoked(usage_count) => IsRevoked(usage_count') /\ Guards' \subseteq Guards]_vars

\* Whose job it is to run the destructor, at every point of the value's life:
\* nobody's before the revocation; then the guards', then exactly one caller's,
\* until it has run.  In particular the wrapper's Drop, which skips the
\* destructor when the bit is set, leaks nothing.
DropDuty ==
    /\ ~IsRevoked(usage_count) =>
          /\ \A u \in Users : pc[u] # "drop_data"
          /\ alive => drops = 0
    /\ (IsRevoked(usage_count) /\ Guards = {}) =>
          (drops = 1 \/ \E u \in Users : pc[u] = "drop_data")
    /\ ~alive => /\ drops = 1
                 /\ \A u \in Users : pc[u] = "idle"

\* The inductive invariant.
IInv == TypeOK /\ CountIsGuards /\ NoUseAfterDrop /\ DroppedOnce /\ DropDuty

-----------------------------------------------------------------------------
\* The abstract cell, seen through the protocol.
Cell == INSTANCE RevocableCell WITH
            guards <- Guards,
            revoked <- IsRevoked(usage_count) \/ ~alive,
            dropped <- drops > 0

\* The protocol implements the promise of the module header, with its liveness.
ImplementsCell == Cell!CellSpec

\* The promise without its liveness, which is what is proved for every Users.
ImplementsCellSafety == Cell!CellSafeSpec
=============================================================================
