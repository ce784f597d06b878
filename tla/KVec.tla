-------------------------------- MODULE KVec --------------------------------
(***************************************************************************)
(* Vec<T, A> and its consuming iterator (rko-core/src/alloc/kvec.rs,       *)
(* layout.rs): a buffer of `cap` slots whose first `len` are initialised.  *)
(* Reading a slot leaves its bits behind, and krealloc copies them, so a   *)
(* stale copy is one wrong length away from being used again.  Every       *)
(* allocation may fail.                                                    *)
(*                                                                         *)
(*   buf     slot -> element or Uninit     len, cap   the fields           *)
(*   pos     IntoIter::pos                 mode       "vec", "iter", "end" *)
(*   made    elements created so far       gone       element -> number of *)
(*   freed   times the buffer was freed               moves out and drops  *)
(*   op      the last operation on the elements, as the abstract sequence  *)
(*           names it                                                      *)
(***************************************************************************)
EXTENDS Naturals, FiniteSets

CONSTANTS MaxMade,      \* bound on the elements created
          MaxCap,       \* elements for which array_layout does not overflow
          Uninit        \* what a slot holds before it is written

ASSUME KVecAssumption == MaxMade \in Nat /\ MaxCap \in Nat /\ Uninit \notin Nat

VARIABLES buf, len, cap, pos, mode, made, gone, freed, op

kvars == <<buf, len, cap, pos, mode, made, gone, freed, op>>

\* Vec::new.
KInit ==
  /\ buf = <<>> /\ len = 0 /\ cap = 0 /\ pos = 0
  /\ mode = "vec" /\ made = 0 /\ gone = <<>> /\ freed = 0
  /\ op = <<"new", 0>>

\* The slots S are read out or dropped; m elements exist from now on.
Leave(S, m) ==
  /\ made' = m
  /\ gone' = [e \in 0..(m - 1) |->
                (IF e < made THEN gone[e] ELSE 0)
                  + Cardinality({s \in S : buf[s] = e})]

Keep == made' = made /\ gone' = gone /\ op' = op

\* Vec::realloc_to: krealloc copies the old buffer.
Grown(newCap) ==
  [s \in 0..(newCap - 1) |-> IF s < cap THEN buf[s] ELSE Uninit]

\* Vec::grow.
GrowCap == IF cap = 0 THEN 1 ELSE 2 * cap

\* array_layout does not overflow (krealloc may still fail).
CanAlloc(newCap) == newCap <= MaxCap

\* The state after `k` new elements are written from slot len on.
Write(b, c, k) ==
  /\ buf' = [s \in 0..(c - 1) |-> IF len <= s /\ s < len + k THEN made + (s - len) ELSE b[s]]
  /\ cap' = c
  /\ len' = len + k

\* Vec::push.
Push ==
  /\ op' = <<"append", 1>>
  /\ mode = "vec" /\ made < MaxMade
  /\ \/ len < cap /\ Write(buf, cap, 1)
     \/ len = cap /\ CanAlloc(GrowCap) /\ Write(Grown(GrowCap), GrowCap, 1)
  /\ made' = made + 1
  /\ gone' = [e \in 0..made |-> IF e < made THEN gone[e] ELSE 0]
  /\ UNCHANGED <<pos, mode, freed>>

\* Vec::push, grow fails: `val` is dropped with the frame, the Vec is intact.
PushFails ==
  /\ op' = <<"refuse", 1>>
  /\ mode = "vec" /\ made < MaxMade /\ len = cap
  /\ made' = made + 1
  /\ gone' = [e \in 0..made |-> IF e < made THEN gone[e] ELSE 1]
  /\ UNCHANGED <<buf, len, cap, pos, mode, freed>>

\* Vec::pop.
Pop ==
  /\ op' = <<"take", len>>
  /\ mode = "vec" /\ len > 0
  /\ len' = len - 1
  /\ Leave({len - 1}, made)
  /\ UNCHANGED <<buf, cap, pos, mode, freed>>

\* Mutant of VecRemove: one element is moved into the gap, not the tail.
VecRemoveMovesOne(index) ==
  /\ op' = <<"take", index + 1>>
  /\ mode = "vec" /\ index < len
  /\ buf' = [buf EXCEPT ![index] = buf[len - 1]]
  /\ len' = len - 1
  /\ Leave({index}, made)
  /\ UNCHANGED <<cap, pos, mode, freed>>

\* Vec::remove: read the slot, shift the tail left by one.
VecRemove(index) ==
  /\ op' = <<"take", index + 1>>
  /\ mode = "vec" /\ index < len
  /\ buf' = [s \in 0..(cap - 1) |->
               IF index <= s /\ s < len - 1 THEN buf[s + 1] ELSE buf[s]]
  /\ len' = len - 1
  /\ Leave({index}, made)
  /\ UNCHANGED <<cap, pos, mode, freed>>

\* Vec::swap_remove: swap with the last slot, then read the last slot.
SwapRemove(index) ==
  /\ op' = <<"swap", index + 1>>
  /\ mode = "vec" /\ index < len
  /\ buf' = [buf EXCEPT ![index] = buf[len - 1], ![len - 1] = buf[index]]
  /\ len' = len - 1
  /\ Leave({index}, made)
  /\ UNCHANGED <<cap, pos, mode, freed>>

\* Vec::truncate and Vec::clear: the length first, then the tail is dropped.
Truncate(newLen) ==
  /\ op' = <<"cut", newLen>>
  /\ mode = "vec" /\ newLen < len
  /\ len' = newLen
  /\ Leave(newLen..(len - 1), made)
  /\ UNCHANGED <<buf, cap, pos, mode, freed>>

\* Vec::reserve: exactly len + additional slots, if they are needed.
Reserve(additional) ==
  /\ mode = "vec" /\ len + additional > cap /\ CanAlloc(len + additional)
  /\ buf' = Grown(len + additional)
  /\ cap' = len + additional
  /\ Keep
  /\ UNCHANGED <<len, pos, mode, freed>>

\* Vec::resize_with, resize and extend_from_slice past the current length:
\* reserve, then write one element after the other.
Extend(k) ==
  LET c == IF len + k <= cap THEN cap ELSE len + k
  IN /\ op' = <<"append", k>>
     /\ mode = "vec" /\ made + k <= MaxMade /\ CanAlloc(c)
     /\ Write(IF c = cap THEN buf ELSE Grown(c), c, k)
     /\ made' = made + k
     /\ gone' = [e \in 0..(made + k - 1) |-> IF e < made THEN gone[e] ELSE 0]
     /\ UNCHANGED <<pos, mode, freed>>

\* IntoIterator::into_iter: the Vec is read into the iterator and forgotten.
IntoIter ==
  /\ mode = "vec"
  /\ mode' = "iter" /\ pos' = 0
  /\ Keep
  /\ UNCHANGED <<buf, len, cap, freed>>

\* IntoIter::next.
IterNext ==
  /\ op' = <<"take", 1>>
  /\ mode = "iter" /\ pos < len
  /\ pos' = pos + 1
  /\ Leave({pos}, made)
  /\ UNCHANGED <<buf, len, cap, mode, freed>>

FreeBuffer == freed' = freed + (IF cap > 0 THEN 1 ELSE 0)

\* Drop for Vec: clear, then free the buffer if there is one.
DropVec ==
  /\ op' = <<"cut", 0>>
  /\ mode = "vec"
  /\ Leave(0..(len - 1), made)
  /\ len' = 0 /\ mode' = "end"
  /\ FreeBuffer
  /\ UNCHANGED <<buf, cap, pos>>

\* Mutant of DropIter: `vec.len = 0` is missing, so Vec::drop drops all.
DropIterTwice ==
  /\ op' = <<"cut", 0>>
  /\ mode = "iter"
  /\ made' = made
  /\ gone' = [e \in 0..(made - 1) |->
                gone[e] + Cardinality({s \in pos..(len - 1) : buf[s] = e})
                        + Cardinality({s \in 0..(len - 1) : buf[s] = e})]
  /\ pos' = len /\ len' = 0 /\ mode' = "end"
  /\ FreeBuffer
  /\ UNCHANGED <<buf, cap>>

\* Drop for IntoIter: the rest is dropped, len is zeroed, Vec::drop frees.
DropIter ==
  /\ op' = <<"cut", 0>>
  /\ mode = "iter"
  /\ Leave(pos..(len - 1), made)
  /\ pos' = len /\ len' = 0 /\ mode' = "end"
  /\ FreeBuffer
  /\ UNCHANGED <<buf, cap>>

KNext ==
  \/ Push \/ PushFails \/ Pop
  \/ \E i \in 0..(len - 1) : VecRemove(i) \/ SwapRemove(i) \/ Truncate(i)
  \/ \E k \in 1..MaxCap : Reserve(k) \/ Extend(k)
  \/ IntoIter \/ IterNext \/ DropVec \/ DropIter

KSpec == KInit /\ [][KNext]_kvars

-----------------------------------------------------------------------------
\* The slots the Vec, or the iterator, still owns.
Owned == CASE mode = "vec" -> 0..(len - 1)
           [] mode = "iter" -> pos..(len - 1)
           [] mode = "end" -> {}

\* The elements in order.
Items == [i \in 1..Cardinality(Owned) |-> buf[(IF mode = "iter" THEN pos ELSE 0) + i - 1]]

Sequence == INSTANCE VecSpec WITH items <- Items, live <- mode # "end"

\* Whatever sequence of pushes, removals, truncations, reallocations and
\* failed allocations, and however far a consuming iterator got, the Vec
\* behaves like a sequence whose elements leave once.
ImplementsVec == Sequence!VSpec

\* Every element ever created is in exactly one owned slot and has not been
\* moved out or dropped, or is in none and has been, exactly once; the slots
\* below `len` are initialised and inside the buffer, and a buffer that was
\* allocated is freed once, at the end.
OwnedOnce ==
  /\ \A e \in 0..(made - 1) : gone[e] + Cardinality({s \in Owned : buf[s] = e}) = 1
  /\ len <= cap
  /\ \A s \in Owned : buf[s] # Uninit
  /\ freed = IF mode = "end" /\ cap > 0 THEN 1 ELSE 0
=============================================================================
