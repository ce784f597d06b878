---------------------------- MODULE Ownership_proofs ----------------------------
(***************************************************************************)
(* Proofs about the owners of values: the Vec and its iterator (KVec) for  *)
(* every capacity and number of elements, the Arc with a work item inside  *)
(* (ArcWork) for every finite set of threads, and AsyncRevocable for every *)
(* finite set of users and every width of the word that can count them.    *)
(***************************************************************************)
EXTENDS KVec, ArcWork, AsyncRevocable, Sequences, FiniteSetTheorems, TLAPS

-----------------------------------------------------------------------------
(***************************************************************************)
(* The Vec: who holds an element.                                          *)
(***************************************************************************)

\* The slots S of b hold, without repetition, exactly those of the m elements made so
\* far that are not gone by g.
Held(S, b, m, g) ==
  /\ g \in [0..(m - 1) -> {0, 1}]
  /\ \A s \in S : b[s] \in 0..(m - 1) /\ g[b[s]] = 0
  /\ \A s, r \in S : b[s] = b[r] => s = r
  /\ \A e \in 0..(m - 1) : g[e] = 0 => \E s \in S : b[s] = e

\* The inductive invariant of the Vec and its iterator.
VecInv ==
  /\ mode \in {"vec", "iter", "end"}
  /\ len \in Nat /\ cap \in Nat /\ pos \in Nat /\ made \in Nat
  /\ len <= cap
  /\ mode = "iter" => pos <= len
  /\ buf = [s \in 0..(cap - 1) |-> buf[s]]
  /\ Held(Owned, buf, made, gone)
  /\ freed = IF mode = "end" /\ cap > 0 THEN 1 ELSE 0

\* The slots in L with element e, and how many there can be.
Slots(L, b, e) == {s \in L : b[s] = e}
OneIfIn(L, b, e) == IF \E s \in L : b[s] = e THEN 1 ELSE 0

\* What is gone after the slots L left, and after k elements were made.
GoneWith(L, b, m, g) == [e \in 0..(m - 1) |-> g[e] + Cardinality(Slots(L, b, e))]
GoneMore(m, k, g) == [e \in 0..(m + k - 1) |-> IF e < m THEN g[e] ELSE 0]

\* No element is in two of the slots that are read out or dropped.
LEMMA LeftOnce ==
    ASSUME NEW S, NEW b, NEW m, NEW g, Held(S, b, m, g), NEW L \in SUBSET S, NEW e
    PROVE  Cardinality(Slots(L, b, e)) = OneIfIn(L, b, e)
  <1>1. CASE \E s \in L : b[s] = e
    <2>1. PICK s \in L : b[s] = e
      BY <1>1
    <2>2. Slots(L, b, e) = {s}
      BY <2>1 DEF Held, Slots
    <2>. QED
      BY <1>1, <2>2, FS_Singleton, Zenon DEF OneIfIn
  <1>2. CASE ~\E s \in L : b[s] = e
    <2>1. Slots(L, b, e) = {}
      BY <1>2 DEF Slots
    <2>. QED
      BY <1>2, <2>1, FS_EmptySet, Zenon DEF OneIfIn
  <1>. QED
    BY <1>1, <1>2

\* Slots that are read out or dropped take their elements with them.
LEMMA HeldLess ==
    ASSUME NEW S, NEW b, NEW m \in Nat, NEW g, Held(S, b, m, g), NEW L \in SUBSET S
    PROVE  /\ Held(S \ L, b, m, GoneWith(L, b, m, g))
           /\ \A e : Cardinality(Slots(L, b, e)) = OneIfIn(L, b, e)
  <1>. DEFINE h == GoneWith(L, b, m, g)
  <1>0. ASSUME NEW e PROVE Cardinality(Slots(L, b, e)) = OneIfIn(L, b, e)
    BY LeftOnce
  <1>1. h = [e \in 0..(m - 1) |-> g[e] + OneIfIn(L, b, e)]
    BY <1>0, Zenon DEF GoneWith
  <1>. HIDE DEF h
  <1>2. \A e \in 0..(m - 1) : g[e] \in {0, 1} /\ (g[e] = 1 => ~\E s \in S : b[s] = e)
    BY DEF Held
  <1>3. h \in [0..(m - 1) -> {0, 1}]
    BY <1>1, <1>2 DEF OneIfIn
  <1>4. ASSUME NEW s \in S \ L PROVE b[s] \in 0..(m - 1) /\ h[b[s]] = 0
    <2>1. b[s] \in 0..(m - 1) /\ g[b[s]] = 0 /\ \A r \in L : b[r] # b[s]
      BY DEF Held
    <2>2. OneIfIn(L, b, b[s]) = 0
      BY <2>1 DEF OneIfIn
    <2>. QED
      BY <1>1, <2>1, <2>2
  <1>5. \A e \in 0..(m - 1) : h[e] = 0 => \E s \in S \ L : b[s] = e
    BY <1>1, <1>2 DEF Held, OneIfIn
  <1>6. Held(S \ L, b, m, h)
    BY <1>1, <1>3, <1>4, <1>5 DEF Held
  <1>. QED
    BY <1>0, <1>6, Zenon DEF h

\* Elements may change their slots.
LEMMA HeldMoved ==
    ASSUME NEW S, NEW b, NEW m \in Nat, NEW g, Held(S, b, m, g),
           NEW T, NEW c, NEW f \in [T -> S], \A t \in T : c[t] = b[f[t]],
           \A t, u \in T : f[t] = f[u] => t = u,
           \A s \in S : \E t \in T : f[t] = s
    PROVE  Held(T, c, m, g)
  BY DEF Held

\* A buffer that agrees on the owned slots holds the same elements.
LEMMA HeldSame ==
    ASSUME NEW S, NEW b, NEW m, NEW g, Held(S, b, m, g), NEW c, \A s \in S : c[s] = b[s]
    PROVE  Held(S, c, m, g)
  BY DEF Held

\* k new elements are written behind the others.
LEMMA HeldMore ==
    ASSUME NEW S, NEW b, NEW m \in Nat, NEW g, Held(S, b, m, g),
           NEW k \in Nat, NEW n \in Nat, \A s \in S : s < n, S \subseteq Nat,
           NEW c, \A s \in S : c[s] = b[s], \A s \in n..(n + k - 1) : c[s] = m + (s - n)
    PROVE  Held(S \cup n..(n + k - 1), c, m + k, GoneMore(m, k, g))
  <1>. DEFINE h == GoneMore(m, k, g)
  <1>h. h = [e \in 0..(m + k - 1) |-> IF e < m THEN g[e] ELSE 0]
    BY Zenon DEF GoneMore
  <1>. HIDE DEF h
  <1>1. h \in [0..(m + k - 1) -> {0, 1}]
    BY <1>h DEF Held
  <1>2. ASSUME NEW s \in S PROVE c[s] \in 0..(m - 1) /\ c[s] \in 0..(m + k - 1) /\ h[c[s]] = 0
    BY <1>2, <1>h DEF Held
  <1>3. ASSUME NEW s \in n..(n + k - 1)
        PROVE  c[s] = m + (s - n) /\ c[s] \in 0..(m + k - 1) /\ h[c[s]] = 0
    BY <1>3, <1>h
  <1>4. ASSUME NEW s \in S \cup n..(n + k - 1), NEW r \in S \cup n..(n + k - 1), c[s] = c[r]
        PROVE  s = r
    <2>1. CASE s \in S /\ r \in S
      BY <2>1, <1>4 DEF Held
    <2>2. CASE s \in n..(n + k - 1) /\ r \in n..(n + k - 1)
      BY <2>2, <1>3, <1>4
    <2>3. CASE s \in S /\ r \in n..(n + k - 1)
      BY <2>3, <1>2, <1>3, <1>4
    <2>4. CASE r \in S /\ s \in n..(n + k - 1)
      BY <2>4, <1>2, <1>3, <1>4
    <2>. QED
      BY <2>1, <2>2, <2>3, <2>4
  <1>5. ASSUME NEW e \in 0..(m + k - 1), h[e] = 0
        PROVE  \E s \in S \cup n..(n + k - 1) : c[s] = e
    <2>1. CASE e < m
      <3>1. PICK s \in S : b[s] = e
        BY <2>1, <1>5, <1>h DEF Held
      <3>. QED
        BY <3>1
    <2>2. CASE ~(e < m)
      <3>1. n + (e - m) \in n..(n + k - 1) /\ c[n + (e - m)] = e
        BY <2>2
      <3>. QED
        BY <3>1
    <2>. QED
      BY <2>1, <2>2
  <1>. QED
    BY <1>1, <1>2, <1>3, <1>4, <1>5 DEF Held, h

\* The new element is dropped at once.
LEMMA HeldRefused ==
    ASSUME NEW S, NEW b, NEW m \in Nat, NEW g, Held(S, b, m, g)
    PROVE  Held(S, b, m + 1, [e \in 0..m |-> IF e < m THEN g[e] ELSE 1])
  <1>. DEFINE h == [e \in 0..m |-> IF e < m THEN g[e] ELSE 1]
  <1>1. (m + 1) - 1 = m /\ 0..(m - 1) \subseteq 0..m /\ \A e \in 0..m : e < m <=> e \in 0..(m - 1)
    OBVIOUS
  <1>2. h \in [0..m -> {0, 1}]
    BY <1>1 DEF Held
  <1>3. \A s \in S : b[s] \in 0..m /\ h[b[s]] = 0
    BY <1>1 DEF Held
  <1>4. \A e \in 0..m : h[e] = 0 => \E s \in S : b[s] = e
    BY <1>1 DEF Held
  <1>. QED
    BY <1>1, <1>2, <1>3, <1>4 DEF Held

-----------------------------------------------------------------------------
\* Vec::new owns nothing.
LEMMA KInitInv == KInit => VecInv
  <1>. SUFFICES ASSUME KInit PROVE VecInv
    OBVIOUS
  <1>1. Owned = {} /\ 0..(0 - 1) = {}
    BY DEF KInit, Owned
  <1>2. Held(Owned, buf, made, gone)
    BY <1>1 DEF Held, KInit
  <1>. QED
    BY <1>1, <1>2 DEF VecInv, KInit

\* push, resize and extend_from_slice write behind the last element; the buffer they
\* write to agrees with the old one below len, grown or not.
LEMMA WriteStep ==
    ASSUME VecInv, mode = "vec", NEW k \in Nat, NEW c \in Nat, NEW b, len + k <= c,
           \A s \in 0..(len - 1) : b[s] = buf[s], Write(b, c, k), made' = made + k,
           gone' = GoneMore(made, k, gone),
           UNCHANGED <<pos, mode, freed>>
    PROVE  VecInv' /\ len' = len + k /\ \A s \in 0..(len - 1) : buf'[s] = buf[s]
  <1>inv. /\ len \in Nat /\ cap \in Nat /\ pos \in Nat /\ made \in Nat /\ len <= cap
          /\ Held(Owned, buf, made, gone) /\ freed = 0
    BY DEF VecInv
  <1>1. Owned = 0..(len - 1) /\ Owned' = 0..(len - 1) \cup len..(len + k - 1)
    BY <1>inv DEF Owned, Write
  <1>2. /\ \A s \in 0..(len - 1) : buf'[s] = buf[s]
        /\ \A s \in len..(len + k - 1) : buf'[s] = made + (s - len)
        /\ buf' = [s \in 0..(c - 1) |-> buf'[s]]
    BY <1>inv DEF Write
  <1>3. 0..(len - 1) \subseteq Nat /\ \A s \in 0..(len - 1) : s < len
    BY <1>inv
  <1>4. Held(0..(len - 1), buf, made, gone)
    BY <1>1, <1>inv, Zenon
  <1>5. Held(0..(len - 1) \cup len..(len + k - 1), buf', made + k, GoneMore(made, k, gone))
    BY <1>2, <1>3, <1>4, <1>inv, HeldMore, Zenon
  <1>6. len' = len + k /\ cap' = c
    BY DEF Write
  <1>7. /\ len' \in Nat /\ cap' \in Nat /\ pos' \in Nat /\ made' \in Nat /\ len' <= cap'
        /\ mode' = "vec" /\ freed' = 0
    BY <1>6, <1>inv
  <1>8. Held(Owned', buf', made', gone')
    BY <1>1, <1>5, Zenon
  <1>. QED
    BY <1>2, <1>6, <1>7, <1>8, Zenon DEF VecInv

\* Each element in the slots L is gone once more.
LeftBy(L) == [e \in 0..(made - 1) |-> gone[e] + OneIfIn(L, buf, e)]

\* What HeldLess says of the Vec.
LEMMA HeldLessHere ==
    ASSUME made \in Nat, Held(Owned, buf, made, gone), NEW L \in SUBSET Owned
    PROVE  /\ Held(Owned \ L, buf, made, GoneWith(L, buf, made, gone))
           /\ \A e : Cardinality(Slots(L, buf, e)) = OneIfIn(L, buf, e)
  <1>1. Held(Owned \ L, buf, made, GoneWith(L, buf, made, gone))
    BY HeldLess, Zenon
  <1>2. ASSUME NEW e PROVE Cardinality(Slots(L, buf, e)) = OneIfIn(L, buf, e)
    BY LeftOnce
  <1>. QED
    BY <1>1, <1>2, Zenon

\* Every operation that reads or drops slots: those of L leave, and what stays is
\* still there, in the slots it was moved to by f.
LEMMA LeaveStep ==
    ASSUME VecInv, NEW L \in SUBSET Owned, Leave(L, made),
           NEW f \in [Owned' -> Owned \ L], \A s \in Owned' : buf'[s] = buf[f[s]],
           \A s, r \in Owned' : f[s] = f[r] => s = r,
           \A s \in Owned \ L : \E r \in Owned' : f[r] = s
    PROVE  /\ Held(Owned', buf', made', gone')
           /\ made' = made
           /\ gone' = LeftBy(L)
  <1>inv. made \in Nat /\ Held(Owned, buf, made, gone)
    BY DEF VecInv
  <1>1. made' = made
    BY DEF Leave
  <1>2. gone' = [e \in 0..(made - 1) |->
                   (IF e < made THEN gone[e] ELSE 0) + Cardinality(Slots(L, buf, e))]
    BY Zenon DEF Leave, Slots
  <1>3. gone' = GoneWith(L, buf, made, gone)
    BY <1>2, <1>inv DEF GoneWith
  <1>4. /\ Held(Owned \ L, buf, made, GoneWith(L, buf, made, gone))
        /\ \A e : Cardinality(Slots(L, buf, e)) = OneIfIn(L, buf, e)
    BY <1>inv, HeldLessHere
  <1>5. Held(Owned', buf', made, gone')
    BY <1>3, <1>4, <1>inv, HeldMoved
  <1>6. gone' = LeftBy(L)
    BY <1>3, <1>4, Zenon DEF GoneWith, LeftBy
  <1>. QED
    BY <1>1, <1>5, <1>6

\* The same when nothing is moved.
LEMMA LeaveInPlace ==
    ASSUME VecInv, NEW L \in SUBSET Owned, Leave(L, made), Owned' = Owned \ L, buf' = buf
    PROVE  Held(Owned', buf', made', gone') /\ made' = made /\ gone' = LeftBy(L)
  <1>. DEFINE f == [s \in Owned' |-> s]
  <1>1. /\ f \in [Owned' -> Owned \ L] /\ \A s \in Owned' : f[s] = s
    OBVIOUS
  <1>. HIDE DEF f
  <1>2. /\ \A s \in Owned' : buf'[s] = buf[f[s]]
        /\ \A s, r \in Owned' : f[s] = f[r] => s = r
        /\ \A s \in Owned \ L : \E r \in Owned' : f[r] = s
    BY <1>1
  <1>. QED
    BY <1>1, <1>2, LeaveStep

\* pop reads the last slot and leaves its bits behind, above len.
LEMMA PopStep ==
    ASSUME VecInv, Pop PROVE VecInv' /\ made' = made /\ gone' = LeftBy({len - 1})
  <1>1. /\ {len - 1} \in SUBSET Owned /\ Owned' = Owned \ {len - 1}
    BY DEF VecInv, Pop, Owned
  <1>2. Held(Owned', buf', made', gone') /\ made' = made /\ gone' = LeftBy({len - 1})
    BY <1>1, LeaveInPlace DEF Pop
  <1>. QED
    BY <1>2 DEF VecInv, Pop

\* truncate and clear drop the tail, which is above the new len.
LEMMA TruncateStep ==
    ASSUME VecInv, NEW n \in 0..(len - 1), Truncate(n)
    PROVE  VecInv' /\ made' = made /\ gone' = LeftBy(n..(len - 1))
  <1>1. /\ n..(len - 1) \in SUBSET Owned /\ Owned' = Owned \ n..(len - 1)
    BY DEF VecInv, Truncate, Owned
  <1>2. Held(Owned', buf', made', gone') /\ made' = made /\ gone' = LeftBy(n..(len - 1))
    BY <1>1, LeaveInPlace, Zenon DEF Truncate
  <1>. QED
    BY <1>2 DEF VecInv, Truncate

\* next of the iterator reads the slot at pos, which pos then passes.
LEMMA IterNextStep ==
    ASSUME VecInv, IterNext PROVE VecInv' /\ made' = made /\ gone' = LeftBy({pos})
  <1>1. /\ {pos} \in SUBSET Owned /\ Owned' = Owned \ {pos}
    BY DEF VecInv, IterNext, Owned
  <1>2. Held(Owned', buf', made', gone') /\ made' = made /\ gone' = LeftBy({pos})
    BY <1>1, LeaveInPlace DEF IterNext
  <1>. QED
    BY <1>2 DEF VecInv, IterNext

\* The drops of the Vec and of the iterator let all that is owned leave, and free the
\* buffer if there is one.
LEMMA DropStep ==
    ASSUME VecInv, DropVec \/ DropIter PROVE VecInv' /\ made' = made /\ gone' = LeftBy(Owned)
  <1>1. /\ Owned \in SUBSET Owned /\ Owned' = Owned \ Owned /\ Leave(Owned, made) /\ buf' = buf
    <2>1. Leave(Owned, made) /\ buf' = buf
      BY DEF DropVec, DropIter, Owned
    <2>2. Owned' = {}
      BY DEF DropVec, DropIter, Owned
    <2>. QED
      BY <2>1, <2>2
  <1>2. Held(Owned', buf', made', gone') /\ made' = made /\ gone' = LeftBy(Owned)
    BY <1>1, LeaveInPlace
  <1>. QED
    BY <1>2 DEF VecInv, DropVec, DropIter, FreeBuffer

\* remove closes the gap: what was behind it is one slot further down.
LEMMA VecRemoveStep ==
    ASSUME VecInv, NEW i \in 0..(len - 1), VecRemove(i)
    PROVE  VecInv' /\ made' = made /\ gone' = LeftBy({i})
  <1>inv. len \in Nat /\ cap \in Nat /\ len <= cap
    BY DEF VecInv
  <1>. DEFINE f == [s \in Owned' |-> IF s < i THEN s ELSE s + 1]
  <1>1. Owned = 0..(len - 1) /\ Owned' = 0..(len - 2) /\ {i} \in SUBSET Owned
    BY <1>inv DEF VecRemove, Owned
  <1>2. f \in [Owned' -> Owned \ {i}] /\ \A s \in Owned' : f[s] = IF s < i THEN s ELSE s + 1
    BY <1>1, <1>inv
  <1>. HIDE DEF f
  <1>3. \A s \in Owned' : buf'[s] = buf[f[s]]
    BY <1>1, <1>2, <1>inv DEF VecRemove
  <1>4. \A s, r \in Owned' : f[s] = f[r] => s = r
    BY <1>1, <1>2, <1>inv
  <1>5. ASSUME NEW s \in Owned \ {i} PROVE \E r \in Owned' : f[r] = s
    <2>1. CASE s < i
      BY <2>1, <1>1, <1>2, <1>inv
    <2>2. CASE s > i
      <3>1. s - 1 \in Owned' /\ f[s - 1] = s
        BY <2>2, <1>1, <1>2, <1>inv
      <3>. QED
        BY <3>1
    <2>. QED
      BY <2>1, <2>2, <1>1
  <1>6. Held(Owned', buf', made', gone') /\ made' = made /\ gone' = LeftBy({i})
    <2>1. Leave({i}, made) /\ {i} \in SUBSET Owned /\ f \in [Owned' -> Owned \ {i}]
      BY <1>1, <1>2 DEF VecRemove
    <2>. QED
      BY <2>1, <1>3, <1>4, <1>5, LeaveStep, Zenon
  <1>7. buf' = [s \in 0..(cap' - 1) |-> buf'[s]]
    BY DEF VecRemove
  <1>. QED
    BY <1>6, <1>7 DEF VecInv, VecRemove

\* swap_remove fills the gap with the last element.
LEMMA SwapRemoveStep ==
    ASSUME VecInv, NEW i \in 0..(len - 1), SwapRemove(i)
    PROVE  VecInv' /\ made' = made /\ gone' = LeftBy({i})
  <1>inv. len \in Nat /\ cap \in Nat /\ len <= cap /\ buf = [s \in 0..(cap - 1) |-> buf[s]]
    BY DEF VecInv
  <1>. DEFINE f == [s \in Owned' |-> IF s = i THEN len - 1 ELSE s]
  <1>1. Owned = 0..(len - 1) /\ Owned' = 0..(len - 2) /\ {i} \in SUBSET Owned
    BY <1>inv DEF SwapRemove, Owned
  <1>2. f \in [Owned' -> Owned \ {i}] /\ \A s \in Owned' : f[s] = IF s = i THEN len - 1 ELSE s
    BY <1>1, <1>inv
  <1>. HIDE DEF f
  <1>3. /\ buf' = [s \in 0..(cap - 1) |-> buf'[s]]
        /\ \A s \in 0..(len - 2) : buf'[s] = IF s = i THEN buf[len - 1] ELSE buf[s]
    <2>1. i \in 0..(cap - 1) /\ len - 1 \in 0..(cap - 1) /\ 0..(len - 2) \subseteq 0..(cap - 1)
      BY <1>inv
    <2>2. buf' = [s \in 0..(cap - 1) |->
                    IF s = len - 1 THEN buf[i] ELSE IF s = i THEN buf[len - 1] ELSE buf[s]]
      BY <2>1, <1>inv, Zenon DEF SwapRemove
    <2>3. \A s \in 0..(len - 2) : s # len - 1
      BY <1>inv
    <2>. QED
      BY <2>1, <2>2, <2>3
  <1>4. /\ \A s \in Owned' : buf'[s] = buf[f[s]]
        /\ \A s, r \in Owned' : f[s] = f[r] => s = r
    <2>1. \A s \in Owned' : s # len - 1
      BY <1>1, <1>inv
    <2>2. \A s \in Owned' : buf'[s] = buf[f[s]]
      BY <1>1, <1>2, <1>3, Zenon
    <2>. QED
      BY <2>1, <2>2, <1>2
  <1>5. ASSUME NEW s \in Owned \ {i} PROVE \E r \in Owned' : f[r] = s
    <2>1. CASE s = len - 1
      <3>1. i \in Owned' /\ f[i] = s
        BY <2>1, <1>1, <1>2, <1>inv
      <3>. QED
        BY <3>1
    <2>2. CASE s # len - 1
      <3>1. s \in Owned' /\ f[s] = s
        BY <2>2, <1>1, <1>2, <1>inv
      <3>. QED
        BY <3>1
    <2>. QED
      BY <2>1, <2>2
  <1>6. Held(Owned', buf', made', gone') /\ made' = made /\ gone' = LeftBy({i})
    <2>1. Leave({i}, made) /\ {i} \in SUBSET Owned /\ f \in [Owned' -> Owned \ {i}]
      BY <1>1, <1>2 DEF SwapRemove
    <2>. QED
      BY <2>1, <1>4, <1>5, LeaveStep, Zenon
  <1>. QED
    BY <1>3, <1>6 DEF VecInv, SwapRemove

\* The buffer that grow and reserve make has the elements of the old one.
LEMMA GrownKeeps ==
    ASSUME VecInv, NEW c \in Nat, cap <= c
    PROVE  /\ \A s \in 0..(len - 1) : Grown(c)[s] = buf[s]
           /\ Grown(c) = [s \in 0..(c - 1) |-> Grown(c)[s]]
  BY DEF VecInv, Grown

\* push writes one slot, of the old buffer or of the one that grow made.
LEMMA PushStep ==
    ASSUME VecInv, Push
    PROVE  /\ VecInv' /\ len' = len + 1 /\ \A s \in 0..(len - 1) : buf'[s] = buf[s]
           /\ made' = made + 1 /\ gone' = GoneMore(made, 1, gone) /\ buf'[len] = made
  <1>inv. len \in Nat /\ cap \in Nat /\ made \in Nat /\ len <= cap
    BY DEF VecInv
  <1>1. made' = made + 1 /\ mode = "vec" /\ UNCHANGED <<pos, mode, freed>>
    BY DEF Push
  <1>2. gone' = GoneMore(made, 1, gone)
    <2>1. made + 1 - 1 = made
      BY <1>inv
    <2>. QED
      BY <2>1, Zenon DEF Push, GoneMore
  <1>3. PICK c, b : /\ c \in Nat /\ len + 1 <= c /\ Write(b, c, 1)
                    /\ \A s \in 0..(len - 1) : b[s] = buf[s]
    <2>1. CASE len < cap /\ Write(buf, cap, 1)
      BY <2>1, <1>inv
    <2>2. CASE len = cap /\ Write(Grown(GrowCap), GrowCap, 1)
      <3>1. GrowCap \in Nat /\ cap <= GrowCap /\ len + 1 <= GrowCap
        BY <1>inv, <2>2 DEF GrowCap
      <3>2. \A s \in 0..(len - 1) : Grown(GrowCap)[s] = buf[s]
        BY <3>1, GrownKeeps
      <3>. QED
        BY <3>1, <3>2, <2>2, Zenon
    <2>. QED
      BY <2>1, <2>2 DEF Push
  <1>4. VecInv' /\ len' = len + 1 /\ \A s \in 0..(len - 1) : buf'[s] = buf[s]
    BY <1>1, <1>2, <1>3, WriteStep
  <1>5. buf'[len] = made
    BY <1>3, <1>inv DEF Write
  <1>. QED
    BY <1>1, <1>2, <1>4, <1>5, Zenon

\* resize and extend_from_slice write k slots, after reserve if there is no room.
LEMMA ExtendStep ==
    ASSUME VecInv, NEW k \in 1..MaxCap, Extend(k)
    PROVE  /\ VecInv' /\ len' = len + k /\ \A s \in 0..(len - 1) : buf'[s] = buf[s]
           /\ made' = made + k /\ gone' = GoneMore(made, k, gone)
           /\ \A s \in len..(len + k - 1) : buf'[s] = made + (s - len)
  <1>inv. len \in Nat /\ cap \in Nat /\ made \in Nat /\ len <= cap
    BY DEF VecInv
  <1>1. /\ made' = made + k /\ mode = "vec" /\ UNCHANGED <<pos, mode, freed>>
        /\ gone' = GoneMore(made, k, gone)
    BY Zenon DEF Extend, GoneMore
  <1>3. PICK c, b : /\ c \in Nat /\ len + k <= c /\ Write(b, c, k)
                    /\ \A s \in 0..(len - 1) : b[s] = buf[s]
    <2>1. CASE len + k <= cap
      <3>1. Write(buf, cap, k)
        BY <2>1 DEF Extend
      <3>. QED
        BY <3>1, <2>1, <1>inv, Zenon
    <2>2. CASE ~(len + k <= cap)
      <3>1. len + k \in Nat /\ cap <= len + k /\ len + k # cap /\ len + k <= len + k
        BY <1>inv, <2>2
      <3>2. Write(Grown(len + k), len + k, k)
        BY <3>1, <2>2, Zenon DEF Extend
      <3>3. \A s \in 0..(len - 1) : Grown(len + k)[s] = buf[s]
        BY <3>1, GrownKeeps
      <3>. QED
        BY <3>1, <3>2, <3>3, Zenon
    <2>. QED
      BY <2>1, <2>2
  <1>4. VecInv' /\ len' = len + k /\ \A s \in 0..(len - 1) : buf'[s] = buf[s]
    BY <1>1, <1>3, WriteStep
  <1>5. \A s \in len..(len + k - 1) : buf'[s] = made + (s - len)
    BY <1>3, <1>inv DEF Write
  <1>. QED
    BY <1>1, <1>4, <1>5, Zenon

\* A push without memory leaves the Vec as it was.
LEMMA PushFailsStep ==
    ASSUME VecInv, PushFails PROVE VecInv'
  <1>inv. made \in Nat /\ Held(Owned, buf, made, gone)
    BY DEF VecInv
  <1>1. Held(Owned, buf, made + 1, [e \in 0..made |-> IF e < made THEN gone[e] ELSE 1])
    BY <1>inv, HeldRefused
  <1>2. Held(Owned', buf', made', gone')
    BY <1>1 DEF PushFails, Owned
  <1>. QED
    BY <1>2 DEF VecInv, PushFails

\* A longer buffer, and the iterator made of a Vec, own what the Vec owned.
LEMMA KeepStep ==
    ASSUME VecInv, (\E k \in 1..MaxCap : Reserve(k)) \/ IntoIter \/ UNCHANGED kvars
    PROVE  /\ VecInv' /\ Owned' = Owned /\ \A s \in Owned : buf'[s] = buf[s]
           /\ UNCHANGED <<made, gone, op>>
  <1>inv. /\ len \in Nat /\ cap \in Nat /\ made \in Nat /\ len <= cap
          /\ Held(Owned, buf, made, gone)
    BY DEF VecInv
  <1>1. ASSUME NEW k \in 1..MaxCap, Reserve(k)
        PROVE  /\ VecInv' /\ Owned' = Owned /\ \A s \in Owned : buf'[s] = buf[s]
               /\ UNCHANGED <<made, gone, op>>
    <2>1. /\ mode = "vec" /\ Owned' = Owned /\ Owned = 0..(len - 1)
          /\ buf' = Grown(len + k) /\ cap' = len + k /\ UNCHANGED <<made, gone, op>>
      BY <1>1 DEF Reserve, Keep, Owned
    <2>2. len + k \in Nat /\ cap <= len + k
      BY <1>1, <1>inv DEF Reserve
    <2>3. (\A s \in Owned : buf'[s] = buf[s]) /\ buf' = [s \in 0..(cap' - 1) |-> buf'[s]]
      BY <2>1, <2>2, GrownKeeps
    <2>4. Held(Owned', buf', made', gone')
      <3>1. Held(Owned, buf', made, gone)
        BY <2>3, <1>inv, HeldSame, Zenon
      <3>. QED
        BY <3>1, <2>1, Zenon
    <2>5. /\ len' = len /\ pos' = pos /\ mode' = mode /\ freed' = freed
          /\ cap' \in Nat /\ len <= cap'
      BY <1>1, <1>inv, <2>1, <2>2 DEF Reserve
    <2>6. VecInv'
      BY <2>1, <2>3, <2>4, <2>5 DEF VecInv
    <2>. QED
      BY <2>1, <2>3, <2>6, Zenon
  <1>2. CASE IntoIter
    <2>1. Owned' = Owned /\ buf' = buf
      BY <1>2 DEF IntoIter, Owned
    <2>. QED
      BY <2>1, <1>2 DEF IntoIter, Keep, VecInv
  <1>3. CASE UNCHANGED kvars
    <2>1. Owned' = Owned
      BY <1>3 DEF kvars, Owned
    <2>. QED
      BY <2>1, <1>3 DEF kvars, VecInv
  <1>. QED
    BY <1>1, <1>2, <1>3

\* Every operation keeps the slots and the elements in agreement.
LEMMA KNextInv == VecInv /\ [KNext]_kvars => VecInv'
  <1>. SUFFICES ASSUME VecInv, [KNext]_kvars PROVE VecInv'
    OBVIOUS
  <1>1. ASSUME NEW i \in 0..(len - 1), VecRemove(i) \/ SwapRemove(i) \/ Truncate(i)
        PROVE  VecInv'
    BY <1>1, VecRemoveStep, SwapRemoveStep, TruncateStep, Zenon
  <1>2. ASSUME NEW k \in 1..MaxCap, Extend(k) PROVE VecInv'
    BY <1>2, ExtendStep
  <1>. QED
    BY <1>1, <1>2, PushStep, PushFailsStep, PopStep, IterNextStep, DropStep, KeepStep DEF KNext

\* Every element that was ever made is in one owned slot or was moved out or dropped
\* once, and the buffer is freed once, whatever is pushed, removed, truncated,
\* reallocated or refused memory, and however far a consuming iterator gets.
THEOREM AlwaysOwnedOnce == KSpec => []OwnedOnce
  <1>1. VecInv => OwnedOnce
    <2>. SUFFICES ASSUME VecInv PROVE OwnedOnce
      OBVIOUS
    <2>inv. made \in Nat /\ Held(Owned, buf, made, gone)
      BY DEF VecInv
    <2>1. ASSUME NEW e \in 0..(made - 1)
          PROVE  gone[e] + Cardinality({s \in Owned : buf[s] = e}) = 1
      <3>1. Cardinality(Slots(Owned, buf, e)) = OneIfIn(Owned, buf, e)
        BY <2>inv, LeftOnce
      <3>2. gone[e] + OneIfIn(Owned, buf, e) = 1
        BY <2>inv DEF Held, OneIfIn
      <3>. QED
        BY <3>1, <3>2, Zenon DEF Slots
    <2>2. \A s \in Owned : buf[s] # Uninit
      BY <2>inv, KVecAssumption DEF Held
    <2>. QED
      BY <2>1, <2>2, Zenon DEF VecInv, OwnedOnce
  <1>2. KSpec => []VecInv
    BY KInitInv, KNextInv, PTL DEF KSpec
  <1>. QED
    BY <1>1, <1>2, PTL

-----------------------------------------------------------------------------
(***************************************************************************)
(* The Vec: it implements the sequence of VecSpec.                         *)
(***************************************************************************)

\* The first slot with an element, and how many there are.
First == IF mode = "iter" THEN pos ELSE 0
Count == IF mode = "vec" THEN len ELSE IF mode = "iter" THEN len - pos ELSE 0

\* The elements in order are those of the owned slots.
ItemsKnown ==
  /\ Items = [i \in 1..Count |-> buf[First + i - 1]]
  /\ Items \in Seq(Nat) /\ Count \in Nat /\ First \in Nat /\ Len(Items) = Count
  /\ \A i \in 1..Count : First + i - 1 \in Owned /\ Items[i] = buf[First + i - 1]
  /\ \A s \in Owned : (s - First) + 1 \in 1..Count /\ First + ((s - First) + 1) - 1 = s

\* So they are whenever the invariant holds.
LEMMA ItemsAre == VecInv => ItemsKnown
  <1>. SUFFICES ASSUME VecInv PROVE ItemsKnown
    BY Zenon
  <1>inv. /\ mode \in {"vec", "iter", "end"} /\ len \in Nat /\ pos \in Nat /\ made \in Nat
          /\ mode = "iter" => pos <= len
          /\ \A s \in Owned : buf[s] \in 0..(made - 1)
    BY Zenon DEF VecInv, Held
  <1>0. First \in Nat /\ Count \in Nat
    BY <1>inv DEF First, Count
  <1>1. Owned = First..(First + Count - 1)
    BY <1>inv DEF Owned, First, Count
  <1>2. Cardinality(Owned) = Count
    <2>1. First \in Int /\ First + Count - 1 \in Int
      BY <1>0
    <2>2. Cardinality(First..(First + Count - 1)) =
             IF First > First + Count - 1 THEN 0 ELSE (First + Count - 1) - First + 1
      BY <2>1, FS_Interval
    <2>. QED
      BY <2>2, <1>0, <1>1
  <1>3. Items = [i \in 1..Count |-> buf[First + i - 1]]
    BY <1>2, Zenon DEF Items, First
  <1>4. /\ \A i \in 1..Count : First + i - 1 \in Owned
        /\ \A s \in Owned : (s - First) + 1 \in 1..Count /\ First + ((s - First) + 1) - 1 = s
    BY <1>0, <1>1
  <1>5. \A i \in 1..Count : buf[First + i - 1] \in Nat
    BY <1>4, <1>inv
  <1>6. Items \in [1..Count -> Nat]
    BY <1>3, <1>5
  <1>7. Items \in Seq(Nat) /\ Len(Items) = Count
    BY <1>0, <1>6
  <1>. QED
    BY <1>0, <1>3, <1>4, <1>7 DEF ItemsKnown

\* And so they are after a step.
LEMMA ItemsAreNext == VecInv' => ItemsKnown'
  BY ItemsAre, PTL

\* The operators of the abstract sequence, index by index: a sequence itself.
LEMMA SequenceIs ==
    ASSUME NEW q \in Seq(Nat)
    PROVE  q = [n \in 1..Len(q) |-> q[n]]
  OBVIOUS

\* A concatenation.
LEMMA SequenceJoined ==
    ASSUME NEW p \in Seq(Nat), NEW r \in Seq(Nat)
    PROVE  p \o r = [n \in 1..(Len(p) + Len(r)) |-> IF n <= Len(p) THEN p[n] ELSE r[n - Len(p)]]
  <1>1. p \o r \in Seq(Nat) /\ Len(p \o r) = Len(p) + Len(r)
    OBVIOUS
  <1>2. p \o r = [n \in 1..Len(p \o r) |-> (p \o r)[n]]
    BY <1>1, SequenceIs, Zenon
  <1>3. \A n \in 1..(Len(p) + Len(r)) : (p \o r)[n] = IF n <= Len(p) THEN p[n] ELSE r[n - Len(p)]
    OBVIOUS
  <1>. QED
    BY <1>1, <1>2, <1>3, Zenon

\* A sequence without its element i.
LEMMA SequenceWithout ==
    ASSUME NEW q \in Seq(Nat), NEW i \in 1..Len(q)
    PROVE  SubSeq(q, 1, i - 1) \o SubSeq(q, i + 1, Len(q)) =
              [n \in 1..(Len(q) - 1) |-> IF n < i THEN q[n] ELSE q[n + 1]]
  <1>. DEFINE A == SubSeq(q, 1, i - 1)
              B == SubSeq(q, i + 1, Len(q))
  <1>0. Len(q) \in Nat
    OBVIOUS
  <1>1. A \in Seq(Nat) /\ Len(A) = i - 1 /\ \A n \in 1..(i - 1) : A[n] = q[n]
    OBVIOUS
  <1>2. B \in Seq(Nat) /\ Len(B) = Len(q) - i /\ \A n \in 1..(Len(q) - i) : B[n] = q[n + i]
    OBVIOUS
  <1>. HIDE DEF A, B
  <1>4. A \o B = [n \in 1..(Len(A) + Len(B)) |-> IF n <= Len(A) THEN A[n] ELSE B[n - Len(A)]]
    BY <1>1, <1>2, SequenceJoined, Zenon
  <1>5. ASSUME NEW n \in 1..(Len(q) - 1)
        PROVE  (IF n <= Len(A) THEN A[n] ELSE B[n - Len(A)]) = IF n < i THEN q[n] ELSE q[n + 1]
    <2>0. Len(A) = i - 1
      BY <1>1
    <2>1. CASE n < i
      <3>1. n \in 1..(i - 1) /\ n <= i - 1
        BY <2>1, <1>0
      <3>. QED
        BY <2>1, <3>1, <2>0, <1>1, Zenon
    <2>2. CASE ~(n < i)
      <3>1. n - Len(A) \in 1..(Len(q) - i) /\ (n - Len(A)) + i = n + 1 /\ ~(n <= Len(A))
        BY <2>2, <1>0, <2>0
      <3>. QED
        BY <2>2, <3>1, <1>2, Zenon
    <2>. QED
      BY <2>1, <2>2
  <1>6. Len(A) + Len(B) = Len(q) - 1
    BY <1>0, <1>1, <1>2
  <1>. QED
    BY <1>4, <1>5, <1>6, Zenon DEF A, B

\* A sequence whose last element took the place of element i.
LEMMA SequenceSwapped ==
    ASSUME NEW q \in Seq(Nat), NEW i \in 1..Len(q)
    PROVE  SubSeq([q EXCEPT ![i] = q[Len(q)]], 1, Len(q) - 1) =
              [n \in 1..(Len(q) - 1) |-> IF n = i THEN q[Len(q)] ELSE q[n]]
  OBVIOUS

\* A prefix.
LEMMA SequenceCut ==
    ASSUME NEW q \in Seq(Nat), NEW k \in 0..Len(q)
    PROVE  SubSeq(q, 1, k) = [n \in 1..k |-> q[n]]
  OBVIOUS

\* A sequence with k new elements behind it.
LEMMA SequenceLonger ==
    ASSUME NEW q \in Seq(Nat), NEW k \in Nat, NEW m \in Nat
    PROVE  q \o [i \in 1..k |-> m + i - 1] =
              [n \in 1..(Len(q) + k) |-> IF n <= Len(q) THEN q[n] ELSE m + (n - Len(q)) - 1]
  <1>. DEFINE r == [i \in 1..k |-> m + i - 1]
  <1>1. r \in Seq(Nat) /\ Len(r) = k /\ \A i \in 1..k : r[i] = m + i - 1
    OBVIOUS
  <1>. HIDE DEF r
  <1>2. Len(q) \in Nat
    OBVIOUS
  <1>3. q \o r = [n \in 1..(Len(q) + k) |-> IF n <= Len(q) THEN q[n] ELSE r[n - Len(q)]]
    BY <1>1, SequenceJoined, Zenon
  <1>4. \A n \in 1..(Len(q) + k) : ~(n <= Len(q)) => r[n - Len(q)] = m + (n - Len(q)) - 1
    BY <1>1, <1>2
  <1>5. q \o r = [n \in 1..(Len(q) + k) |-> IF n <= Len(q) THEN q[n] ELSE m + (n - Len(q)) - 1]
    BY <1>3, <1>4
  <1>. QED
    BY <1>5 DEF r

\* The elements that leave are those of the slots that are read out or dropped.
LEMMA LeavesAs ==
    ASSUME VecInv, made' = made, NEW L \in SUBSET Owned, gone' = LeftBy(L),
           NEW S, S = {buf[s] : s \in L}
    PROVE  Sequence!Leave(S)
  <1>1. made \in Nat /\ \A e \in 0..(made - 1) : e < made
    BY DEF VecInv
  <1>2. \A e : OneIfIn(L, buf, e) = IF e \in S THEN 1 ELSE 0
    BY DEF OneIfIn
  <1>3. gone' = [e \in 0..(made' - 1) |->
                   (IF e < made THEN gone[e] ELSE 0) + (IF e \in S THEN 1 ELSE 0)]
    BY <1>1, <1>2 DEF LeftBy
  <1>. QED
    BY <1>3, Zenon DEF Sequence!Leave

\* An element leaves and the others keep their order: pop, remove and next of the
\* iterator.
LEMMA TakesOne ==
    ASSUME VecInv, VecInv', made' = made, NEW j \in 1..Count,
           gone' = LeftBy({First + j - 1}), Count' = Count - 1, op' = <<"take", j>>,
           \A n \in 1..(Count - 1) :
              buf'[First' + n - 1] = IF n < j THEN buf[First + n - 1] ELSE buf[First + n]
    PROVE  Sequence!Take(j) /\ j \in 1..Len(Items)
  <1>1. ItemsKnown /\ ItemsKnown'
    BY ItemsAre, ItemsAreNext, Zenon
  <1>k. /\ Items \in Seq(Nat) /\ Count \in Nat /\ First \in Nat /\ Len(Items) = Count
        /\ \A i \in 1..Count : First + i - 1 \in Owned /\ Items[i] = buf[First + i - 1]
    BY <1>1, Zenon DEF ItemsKnown
  <1>2. Items' = [n \in 1..(Count - 1) |-> buf'[First' + n - 1]]
    BY <1>1, Zenon DEF ItemsKnown
  <1>3. ASSUME NEW n \in 1..(Count - 1)
        PROVE  buf'[First' + n - 1] = IF n < j THEN Items[n] ELSE Items[n + 1]
    <2>1. n \in 1..Count /\ n + 1 \in 1..Count /\ First + (n + 1) - 1 = First + n
      BY <1>k
    <2>2. Items[n] = buf[First + n - 1] /\ Items[n + 1] = buf[First + n]
      BY <2>1, <1>k, Zenon
    <2>. QED
      BY <2>2, Zenon
  <1>4. Items' = [n \in 1..(Len(Items) - 1) |-> IF n < j THEN Items[n] ELSE Items[n + 1]]
    BY <1>2, <1>3, <1>k, Zenon
  <1>5. Items' = SubSeq(Items, 1, j - 1) \o SubSeq(Items, j + 1, Len(Items))
    BY <1>4, <1>k, SequenceWithout, Zenon
  <1>6. {Items[j]} = {buf[s] : s \in {First + j - 1}}
    BY <1>k
  <1>7. Sequence!Leave({Items[j]})
    BY <1>6, <1>k, LeavesAs, Zenon
  <1>. QED
    BY <1>5, <1>7, <1>k, Zenon DEF Sequence!Take

\* pop takes the last element.
LEMMA PopTakes ==
    ASSUME VecInv, Pop PROVE Sequence!Take(len) /\ len \in 1..Len(Items)
  <1>0. len \in Nat /\ len > 0 /\ mode = "vec" /\ mode' = "vec" /\ buf' = buf /\ len' = len - 1
        /\ op' = <<"take", len>>
    BY DEF VecInv, Pop
  <1>1. VecInv' /\ made' = made /\ gone' = LeftBy({len - 1})
    BY PopStep, Zenon
  <1>2. First = 0 /\ First' = 0 /\ Count = len /\ Count' = Count - 1
    BY <1>0 DEF First, Count
  <1>3. len \in 1..Count /\ First + len - 1 = len - 1
    BY <1>0, <1>2
  <1>4. \A n \in 1..(Count - 1) :
           buf'[First' + n - 1] = IF n < len THEN buf[First + n - 1] ELSE buf[First + n]
    BY <1>0, <1>2
  <1>. QED
    BY <1>0, <1>1, <1>2, <1>3, <1>4, TakesOne, Zenon

\* remove(i) takes element i.
LEMMA VecRemoveTakes ==
    ASSUME VecInv, NEW i \in 0..(len - 1), VecRemove(i)
    PROVE  Sequence!Take(i + 1) /\ i + 1 \in 1..Len(Items)
  <1>0. /\ len \in Nat /\ cap \in Nat /\ len <= cap
        /\ mode = "vec" /\ mode' = "vec" /\ len' = len - 1 /\ op' = <<"take", i + 1>>
    BY DEF VecInv, VecRemove
  <1>1. VecInv' /\ made' = made /\ gone' = LeftBy({i})
    BY VecRemoveStep, Zenon
  <1>2. First = 0 /\ First' = 0 /\ Count = len /\ Count' = Count - 1
    BY <1>0 DEF First, Count
  <1>3. i + 1 \in 1..Count /\ First + (i + 1) - 1 = i
    BY <1>0, <1>2
  <1>4. ASSUME NEW n \in 1..(Count - 1)
        PROVE  buf'[First' + n - 1] = IF n < i + 1 THEN buf[First + n - 1] ELSE buf[First + n]
    <2>1. First' + n - 1 = n - 1 /\ First + n - 1 = n - 1 /\ First + n = (n - 1) + 1
      BY <1>0, <1>2
    <2>2. n - 1 \in 0..(cap - 1) /\ n - 1 < len - 1 /\ (n < i + 1 <=> ~(i <= n - 1))
      BY <1>0, <1>2
    <2>3. buf'[n - 1] = IF i <= n - 1 THEN buf[(n - 1) + 1] ELSE buf[n - 1]
      BY <2>2, Zenon DEF VecRemove
    <2>. QED
      BY <2>1, <2>2, <2>3, Zenon
  <1>. QED
    BY <1>0, <1>1, <1>2, <1>3, <1>4, TakesOne, Zenon

\* The iterator takes the first element that is left.
LEMMA IterNextTakes ==
    ASSUME VecInv, IterNext PROVE Sequence!Take(1) /\ 1 \in 1..Len(Items)
  <1>0. /\ len \in Nat /\ pos \in Nat /\ pos < len /\ mode = "iter" /\ mode' = "iter"
        /\ buf' = buf /\ len' = len /\ pos' = pos + 1 /\ op' = <<"take", 1>>
    BY DEF VecInv, IterNext
  <1>1. VecInv' /\ made' = made /\ gone' = LeftBy({pos})
    BY IterNextStep, Zenon
  <1>2. First = pos /\ First' = pos + 1 /\ Count = len - pos /\ Count' = Count - 1
    BY <1>0 DEF First, Count
  <1>3. 1 \in 1..Count /\ First + 1 - 1 = pos
    BY <1>0, <1>2
  <1>4. ASSUME NEW n \in 1..(Count - 1)
        PROVE  buf'[First' + n - 1] = IF n < 1 THEN buf[First + n - 1] ELSE buf[First + n]
    <2>1. First' + n - 1 = First + n /\ ~(n < 1)
      BY <1>0, <1>2
    <2>. QED
      BY <2>1, <1>0, Zenon
  <1>. QED
    BY <1>0, <1>1, <1>2, <1>3, <1>4, TakesOne, Zenon

\* swap_remove(i) takes element i and moves the last one to its place.
LEMMA SwapRemoveTakes ==
    ASSUME VecInv, NEW i \in 0..(len - 1), SwapRemove(i)
    PROVE  Sequence!SwapTake(i + 1) /\ i + 1 \in 1..Len(Items)
  <1>0. /\ len \in Nat /\ cap \in Nat /\ len <= cap /\ buf = [s \in 0..(cap - 1) |-> buf[s]]
        /\ mode = "vec" /\ mode' = "vec" /\ len' = len - 1 /\ op' = <<"swap", i + 1>>
    BY DEF VecInv, SwapRemove
  <1>1. VecInv' /\ made' = made /\ gone' = LeftBy({i})
    BY SwapRemoveStep, Zenon
  <1>2. First = 0 /\ First' = 0 /\ Count = len /\ Count' = len - 1
    BY <1>0 DEF First, Count
  <1>3. ItemsKnown /\ ItemsKnown'
    BY <1>1, ItemsAre, ItemsAreNext, Zenon
  <1>k. /\ Items \in Seq(Nat) /\ Len(Items) = len
        /\ \A n \in 1..len : First + n - 1 \in Owned /\ Items[n] = buf[First + n - 1]
    BY <1>2, <1>3, Zenon DEF ItemsKnown
  <1>4. i + 1 \in 1..len /\ len \in 1..len /\ First + (i + 1) - 1 = i /\ First + len - 1 = len - 1
    BY <1>0, <1>2
  <1>5. Items[i + 1] = buf[i] /\ Items[len] = buf[len - 1] /\ i \in Owned
    BY <1>4, <1>k, Zenon
  <1>6. Items' = [n \in 1..(len - 1) |-> buf'[First' + n - 1]]
    BY <1>2, <1>3, Zenon DEF ItemsKnown
  <1>7. buf' = [s \in 0..(cap - 1) |->
                  IF s = len - 1 THEN buf[i] ELSE IF s = i THEN buf[len - 1] ELSE buf[s]]
    <2>1. i \in 0..(cap - 1) /\ len - 1 \in 0..(cap - 1)
      BY <1>0
    <2>. QED
      BY <2>1, <1>0 DEF SwapRemove
  <1>8. ASSUME NEW n \in 1..(len - 1)
        PROVE  buf'[First' + n - 1] = IF n = i + 1 THEN Items[len] ELSE Items[n]
    <2>1. /\ First' + n - 1 = n - 1 /\ First + n - 1 = n - 1 /\ n \in 1..len
          /\ n - 1 \in 0..(cap - 1) /\ n - 1 # len - 1 /\ (n = i + 1 <=> n - 1 = i)
      BY <1>0, <1>2
    <2>2. buf'[n - 1] = IF n - 1 = i THEN buf[len - 1] ELSE buf[n - 1]
      BY <2>1, <1>7, Zenon
    <2>3. Items[n] = buf[n - 1]
      BY <2>1, <1>k, Zenon
    <2>. QED
      BY <2>1, <2>2, <2>3, <1>5, Zenon
  <1>9. Items' = [n \in 1..(Len(Items) - 1) |-> IF n = i + 1 THEN Items[Len(Items)] ELSE Items[n]]
    BY <1>6, <1>8, <1>k, Zenon
  <1>10. Items' = SubSeq([Items EXCEPT ![i + 1] = Items[Len(Items)]], 1, Len(Items) - 1)
    BY <1>9, <1>4, <1>k, SequenceSwapped, Zenon
  <1>11. {Items[i + 1]} = {buf[s] : s \in {i}} /\ {i} \in SUBSET Owned
    BY <1>5
  <1>12. Sequence!Leave({Items[i + 1]})
    BY <1>11, <1>1, LeavesAs, Zenon
  <1>. QED
    BY <1>0, <1>1, <1>4, <1>k, <1>10, <1>12, Zenon DEF Sequence!SwapTake

\* All elements from slot First + n on leave: truncate, clear and both drops.
LEMMA CutsTo ==
    ASSUME VecInv, VecInv', made' = made, NEW n \in 0..Count, NEW L \in SUBSET Owned,
           \A s \in Owned : s \in L <=> First + n <= s,
           gone' = LeftBy(L), Count' = n, op' = <<"cut", n>>,
           \A i \in 1..n : buf'[First' + i - 1] = buf[First + i - 1]
    PROVE  Sequence!Cut(n) /\ n \in 0..Len(Items)
  <1>1. ItemsKnown /\ ItemsKnown'
    BY ItemsAre, ItemsAreNext, Zenon
  <1>k. /\ Items \in Seq(Nat) /\ Count \in Nat /\ First \in Nat /\ Len(Items) = Count
        /\ \A i \in 1..Count : First + i - 1 \in Owned /\ Items[i] = buf[First + i - 1]
        /\ \A s \in Owned : (s - First) + 1 \in 1..Count /\ First + ((s - First) + 1) - 1 = s
    BY <1>1, Zenon DEF ItemsKnown
  <1>o. Owned \subseteq Int
    BY DEF VecInv, Owned
  <1>2. Items' = [i \in 1..n |-> buf'[First' + i - 1]]
    BY <1>1, Zenon DEF ItemsKnown
  <1>3. \A i \in 1..n : i \in 1..Count
    BY <1>k
  <1>4. Items' = [i \in 1..n |-> Items[i]]
    BY <1>2, <1>3, <1>k, Zenon
  <1>5. Items' = SubSeq(Items, 1, n)
    BY <1>4, <1>k, SequenceCut, Zenon
  <1>6. ASSUME NEW i \in (n + 1)..Len(Items) PROVE Items[i] \in {buf[s] : s \in L}
    <2>1. i \in 1..Count /\ First + n <= First + i - 1
      BY <1>k
    <2>2. First + i - 1 \in L /\ Items[i] = buf[First + i - 1]
      BY <2>1, <1>k, Zenon
    <2>. QED
      BY <2>2, Zenon
  <1>7. ASSUME NEW s \in L PROVE buf[s] \in {Items[i] : i \in (n + 1)..Len(Items)}
    <2>1. s \in Owned /\ First + n <= s /\ s \in Int
      BY <1>o
    <2>2. /\ (s - First) + 1 \in 1..Count /\ First + ((s - First) + 1) - 1 = s
          /\ Items[(s - First) + 1] = buf[s]
      BY <2>1, <1>k, Zenon
    <2>3. (s - First) + 1 \in (n + 1)..Len(Items)
      BY <2>1, <2>2, <1>k
    <2>. QED
      BY <2>2, <2>3, Zenon
  <1>8. {Items[i] : i \in (n + 1)..Len(Items)} = {buf[s] : s \in L}
    BY <1>6, <1>7, Zenon
  <1>9. Sequence!Leave({Items[i] : i \in (n + 1)..Len(Items)})
    BY <1>8, LeavesAs, Zenon
  <1>. QED
    BY <1>5, <1>9, <1>k, Zenon DEF Sequence!Cut

\* truncate(n) keeps the first n elements.
LEMMA TruncateCuts ==
    ASSUME VecInv, NEW n \in 0..(len - 1), Truncate(n)
    PROVE  Sequence!Cut(n) /\ n \in 0..Len(Items)
  <1>0. /\ len \in Nat /\ mode = "vec" /\ mode' = "vec" /\ len' = n /\ buf' = buf
        /\ op' = <<"cut", n>>
    BY DEF VecInv, Truncate
  <1>1. VecInv' /\ made' = made /\ gone' = LeftBy(n..(len - 1))
    BY TruncateStep, Zenon
  <1>2. First = 0 /\ First' = 0 /\ Count = len /\ Count' = n /\ Owned = 0..(len - 1)
    BY <1>0 DEF First, Count, Owned
  <1>3. /\ n \in 0..Count /\ n..(len - 1) \in SUBSET Owned
        /\ \A s \in Owned : s \in n..(len - 1) <=> First + n <= s
    BY <1>0, <1>2
  <1>. QED
    BY <1>0, <1>1, <1>2, <1>3, CutsTo, Zenon

\* Both drops let everything leave.
LEMMA DropCuts ==
    ASSUME VecInv, DropVec \/ DropIter
    PROVE  Sequence!Cut(0) /\ mode # "end" /\ mode' = "end"
  <1>0. len \in Nat /\ mode # "end" /\ mode' = "end" /\ buf' = buf /\ op' = <<"cut", 0>>
    BY DEF VecInv, DropVec, DropIter
  <1>1. VecInv' /\ made' = made /\ gone' = LeftBy(Owned)
    BY DropStep, Zenon
  <1>2. Count' = 0
    BY <1>0 DEF Count
  <1>3. ItemsKnown
    BY ItemsAre, Zenon
  <1>4. 0 \in 0..Count /\ First \in Nat
    BY <1>3 DEF ItemsKnown
  <1>5. \A s \in Owned : First + 0 <= s
    BY <1>4 DEF VecInv, Owned, First
  <1>6. \A i \in 1..0 : FALSE
    OBVIOUS
  <1>. QED
    BY <1>0, <1>1, <1>2, <1>4, <1>5, <1>6, CutsTo, Zenon

\* k new elements behind the others.
LEMMA Appends ==
    ASSUME VecInv, VecInv', NEW k \in Nat, mode = "vec", mode' = "vec",
           len' = len + k, made' = made + k, gone' = GoneMore(made, k, gone),
           op' = <<"append", k>>, \A s \in 0..(len - 1) : buf'[s] = buf[s],
           \A s \in len..(len + k - 1) : buf'[s] = made + (s - len)
    PROVE  Sequence!AppendNew(k)
  <1>0. len \in Nat /\ made \in Nat /\ \A e \in 0..(made - 1) : gone[e] \in Nat
    BY DEF VecInv, Held
  <1>1. ItemsKnown /\ ItemsKnown'
    BY ItemsAre, ItemsAreNext, Zenon
  <1>2. First = 0 /\ First' = 0 /\ Count = len /\ Count' = len + k
    BY DEF First, Count
  <1>k. /\ Items \in Seq(Nat) /\ Len(Items) = len
        /\ \A n \in 1..len : Items[n] = buf[First + n - 1]
    BY <1>1, <1>2, Zenon DEF ItemsKnown
  <1>3. Items' = [n \in 1..(len + k) |-> buf'[First' + n - 1]]
    BY <1>1, <1>2, Zenon DEF ItemsKnown
  <1>4. ASSUME NEW n \in 1..(len + k)
        PROVE  buf'[First' + n - 1] = IF n <= len THEN Items[n] ELSE made + (n - len) - 1
    <2>0. First' + n - 1 = n - 1 /\ First + n - 1 = n - 1
      BY <1>2
    <2>1. CASE n <= len
      <3>1. n \in 1..len /\ n - 1 \in 0..(len - 1)
        BY <2>1, <1>0
      <3>. QED
        BY <3>1, <2>0, <2>1, <1>k, Zenon
    <2>2. CASE ~(n <= len)
      <3>1. n - 1 \in len..(len + k - 1) /\ made + ((n - 1) - len) = made + (n - len) - 1
        BY <2>2, <1>0
      <3>. QED
        BY <3>1, <2>0, <2>2, Zenon
    <2>. QED
      BY <2>1, <2>2
  <1>5. Items' = [n \in 1..(Len(Items) + k) |->
                    IF n <= Len(Items) THEN Items[n] ELSE made + (n - Len(Items)) - 1]
    BY <1>3, <1>4, <1>k, Zenon
  <1>6. Items' = Items \o [j \in 1..k |-> made + j - 1]
    BY <1>5, <1>0, <1>k, SequenceLonger, Zenon
  <1>7. Sequence!Leave({})
    <2>1. \A e \in 0..(made' - 1) : (IF e < made THEN gone[e] ELSE 0)
             = (IF e < made THEN gone[e] ELSE 0) + (IF e \in {} THEN 1 ELSE 0)
      BY <1>0
    <2>2. gone' = [e \in 0..(made + k - 1) |-> IF e < made THEN gone[e] ELSE 0]
      BY Zenon DEF GoneMore
    <2>3. 0..(made' - 1) = 0..(made + k - 1)
      BY <1>0
    <2>4. gone' = [e \in 0..(made + k - 1) |->
                     (IF e < made THEN gone[e] ELSE 0) + (IF e \in {} THEN 1 ELSE 0)]
      BY <2>1, <2>2, <2>3, Zenon
    <2>. QED
      BY <2>3, <2>4, Zenon DEF Sequence!Leave
  <1>. QED
    BY <1>6, <1>7, Zenon DEF Sequence!AppendNew

\* The elements are the same when the slots that hold them are.
LEMMA SameItems ==
    ASSUME VecInv, VecInv', Count' = Count,
           \A i \in 1..Count : buf'[First' + i - 1] = buf[First + i - 1]
    PROVE  Items' = Items
  <1>1. ItemsKnown /\ ItemsKnown'
    BY ItemsAre, ItemsAreNext, Zenon
  <1>2. /\ Items = [i \in 1..Count |-> buf[First + i - 1]]
        /\ Items' = [i \in 1..Count |-> buf'[First' + i - 1]]
    BY <1>1, Zenon DEF ItemsKnown
  <1>. QED
    BY <1>2, Zenon

\* A push that gets no memory drops its argument and nothing else.
LEMMA PushFailsRefuses ==
    ASSUME VecInv, PushFails PROVE Sequence!Refuse /\ mode' = mode
  <1>0. made \in Nat /\ \A e \in 0..(made - 1) : gone[e] \in Nat
    BY DEF VecInv, Held
  <1>1. VecInv'
    BY PushFailsStep, Zenon
  <1>2. /\ UNCHANGED <<buf, len, cap, pos, mode, freed>> /\ made' = made + 1
        /\ op' = <<"refuse", 1>>
        /\ gone' = [e \in 0..made |-> IF e < made THEN gone[e] ELSE 1]
    BY Zenon DEF PushFails
  <1>3. Count' = Count /\ First' = First /\ buf' = buf
    BY <1>2 DEF Count, First
  <1>4. Items' = Items
    BY <1>1, <1>3, SameItems, Zenon
  <1>5. Sequence!Leave({made})
    <2>1. made' - 1 = made
      BY <1>0, <1>2
    <2>2. ASSUME NEW e \in 0..made
          PROVE  (IF e < made THEN gone[e] ELSE 1) =
                    (IF e < made THEN gone[e] ELSE 0) + (IF e \in {made} THEN 1 ELSE 0)
      BY <1>0
    <2>3. gone' = [e \in 0..made |->
                     (IF e < made THEN gone[e] ELSE 0) + (IF e \in {made} THEN 1 ELSE 0)]
      BY <1>2, <2>2, Zenon
    <2>. QED
      BY <2>1, <2>3, Zenon DEF Sequence!Leave
  <1>. QED
    BY <1>2, <1>4, <1>5, Zenon DEF Sequence!Refuse

\* A longer buffer and the conversion into an iterator change no element.
LEMMA KeepStutters ==
    ASSUME VecInv, (\E k \in 1..MaxCap : Reserve(k)) \/ IntoIter \/ UNCHANGED kvars
    PROVE  UNCHANGED Sequence!vvars
  <1>1. /\ VecInv' /\ \A s \in Owned : buf'[s] = buf[s]
        /\ UNCHANGED <<made, gone, op>>
    BY KeepStep, Zenon
  <1>2. Count' = Count /\ First' = First /\ (mode' # "end" <=> mode # "end")
    BY DEF VecInv, Count, First, Reserve, IntoIter, kvars
  <1>3. ItemsKnown
    BY ItemsAre, Zenon
  <1>4. \A i \in 1..Count : buf'[First' + i - 1] = buf[First + i - 1]
    BY <1>1, <1>2, <1>3, Zenon DEF ItemsKnown
  <1>5. Items' = Items
    BY <1>1, <1>2, <1>4, SameItems, Zenon
  <1>. QED
    BY <1>1, <1>2, <1>5 DEF Sequence!vvars

\* Every operation is one of the sequence's, or changes nothing of it.
LEMMA KNextImplements == VecInv /\ [KNext]_kvars => [Sequence!VNext]_(Sequence!vvars)
  <1>. SUFFICES ASSUME VecInv, [KNext]_kvars PROVE Sequence!VNext \/ UNCHANGED Sequence!vvars
    BY Zenon
  <1>1. CASE Push
    <2>1. /\ VecInv' /\ len' = len + 1 /\ (\A s \in 0..(len - 1) : buf'[s] = buf[s])
          /\ made' = made + 1 /\ gone' = GoneMore(made, 1, gone) /\ buf'[len] = made
      BY <1>1, PushStep, Zenon
    <2>2. mode = "vec" /\ mode' = "vec" /\ op' = <<"append", 1>>
      BY <1>1 DEF Push
    <2>n. len \in Nat /\ made \in Nat
      BY DEF VecInv
    <2>3. 1 \in Nat /\ 1 \in 1..(made' - made) /\ \A s \in len..(len + 1 - 1) : s = len
      BY <2>1, <2>n
    <2>5. \A s \in len..(len + 1 - 1) : buf'[s] = made + (s - len)
      <3>1. made + (len - len) = made
        BY <2>n
      <3>. QED
        BY <3>1, <2>1, <2>3, Zenon
    <2>4. Sequence!AppendNew(1)
      BY <2>1, <2>2, <2>3, <2>5, Appends, Zenon
    <2>. QED
      BY <2>2, <2>3, <2>4, Zenon DEF Sequence!VNext
  <1>2. ASSUME NEW k \in 1..MaxCap, Extend(k) PROVE Sequence!VNext
    <2>1. /\ VecInv' /\ len' = len + k /\ (\A s \in 0..(len - 1) : buf'[s] = buf[s])
          /\ made' = made + k /\ gone' = GoneMore(made, k, gone)
          /\ \A s \in len..(len + k - 1) : buf'[s] = made + (s - len)
      BY <1>2, ExtendStep, Zenon
    <2>2. mode = "vec" /\ mode' = "vec" /\ op' = <<"append", k>>
      BY <1>2, Zenon DEF Extend
    <2>n. made \in Nat
      BY DEF VecInv
    <2>3. k \in Nat /\ k \in 1..(made' - made)
      BY <2>1, <2>n
    <2>4. Sequence!AppendNew(k)
      BY <2>1, <2>2, <2>3, Appends, Zenon
    <2>. QED
      BY <2>2, <2>3, <2>4, Zenon DEF Sequence!VNext
  <1>3. CASE PushFails
    BY <1>3, PushFailsRefuses, Zenon DEF Sequence!VNext
  <1>4. CASE Pop
    <2>1. Sequence!Take(len) /\ len \in 1..Len(Items) /\ mode' = mode
      BY <1>4, PopTakes, Zenon DEF Pop
    <2>. QED
      BY <2>1, Zenon DEF Sequence!VNext
  <1>5. ASSUME NEW i \in 0..(len - 1), VecRemove(i) \/ SwapRemove(i) \/ Truncate(i)
        PROVE  Sequence!VNext
    <2>0. mode' = mode
      BY <1>5 DEF VecRemove, SwapRemove, Truncate
    <2>1. CASE VecRemove(i)
      BY <2>0, <2>1, VecRemoveTakes, Zenon DEF Sequence!VNext
    <2>2. CASE SwapRemove(i)
      BY <2>0, <2>2, SwapRemoveTakes, Zenon DEF Sequence!VNext
    <2>3. CASE Truncate(i)
      BY <2>0, <2>3, TruncateCuts, Zenon DEF Sequence!VNext
    <2>. QED
      BY <1>5, <2>1, <2>2, <2>3, Zenon
  <1>6. CASE IterNext
    <2>1. Sequence!Take(1) /\ 1 \in 1..Len(Items) /\ mode' = mode
      BY <1>6, IterNextTakes, Zenon DEF IterNext
    <2>. QED
      BY <2>1, Zenon DEF Sequence!VNext
  <1>7. CASE DropVec \/ DropIter
    <2>1. Sequence!Cut(0) /\ mode # "end" /\ mode' = "end"
      BY <1>7, DropCuts, Zenon
    <2>2. (mode' # "end") = FALSE
      BY <2>1
    <2>. QED
      BY <2>1, <2>2, Zenon DEF Sequence!VNext
  <1>8. CASE (\E k \in 1..MaxCap : Reserve(k)) \/ IntoIter \/ UNCHANGED kvars
    BY <1>8, KeepStutters, Zenon
  <1>. QED
    BY <1>1, <1>2, <1>3, <1>4, <1>5, <1>6, <1>7, <1>8, Zenon DEF KNext

\* An empty Vec is an empty sequence.
LEMMA KInitImplements == KInit => Sequence!VInit
  <1>. SUFFICES ASSUME KInit PROVE Sequence!VInit
    BY Zenon
  <1>1. ItemsKnown
    BY KInitInv, ItemsAre, Zenon
  <1>2. Count = 0 /\ (mode # "end") = TRUE
    BY DEF KInit, Count
  <1>3. Items = <<>>
    BY <1>1, <1>2 DEF ItemsKnown
  <1>. QED
    BY <1>2, <1>3, Zenon DEF KInit, Sequence!VInit

\* The Vec and its consuming iterator implement a sequence whose elements leave once,
\* at the moment they are handed out or dropped, through every reallocation, shift and
\* failed allocation.
THEOREM VecIsSequence == KSpec => ImplementsVec
  <1>1. KSpec => []VecInv
    BY KInitInv, KNextInv, PTL DEF KSpec
  <1>. QED
    BY <1>1, KInitImplements, KNextImplements, PTL DEF KSpec, ImplementsVec, Sequence!VSpec

-----------------------------------------------------------------------------
(***************************************************************************)
(* The Arc: the count of its references.                                   *)
(***************************************************************************)

\* What the variables of the Arc can be.  The worker owns an Arc just while it runs the
\* item, or has got it back from a queue that was taken.
ArcTypes ==
  /\ mem \in {"none", "uninit", "live", "freed"}
  /\ arcs \in [All -> Nat] /\ foreign \in Nat /\ pending \in BOOLEAN
  /\ unique \in Threads \cup {None}
  /\ apc \in [All -> {"idle", "queue", "free", "run", "last"}]
  /\ \A t \in Threads : apc[t] \in {"idle", "queue", "free"}
  /\ arcs[Worker] = IF apc[Worker] \in {"run", "last"} THEN 1 ELSE 0

\* Who frees and who is unique: one thread at most frees, and only when nothing refers to
\* the object; a UniqueArc is the only reference, and an uninitialised object has one.
ArcRoles ==
  /\ rc > 0 => mem \in {"uninit", "live"} /\ \A t \in All : apc[t] # "free"
  /\ mem = "none" => \A t \in All : apc[t] # "free"
  /\ \A t, u \in All : apc[t] = "free" /\ apc[u] = "free" => t = u
  /\ unique # None => rc = 1 /\ arcs[unique] = 1
  /\ mem = "uninit" => unique # None \/ rc = 0

\* The inductive invariant: the counter is exact at every step, also before the
\* allocation and after the free, and below the width of the counter.
ArcInv ==
  /\ ArcTypes /\ ArcRoles
  /\ IsFiniteSet(ArcsOf(arcs))
  /\ rc = Refs /\ rc <= MaxRefs

\* The owners are finitely many, and the counter has room for the references.
LEMMA ArcConstants == IsFiniteSet(All) /\ 2^Width \in Nat /\ MaxRefs < 2^Width /\ Worker \notin Threads
  <1>1. IsFiniteSet(All)
    BY ArcAssumption, FS_AddElement DEF All
  <1>2. 2^Width \in Nat
    BY ArcAssumption
  <1>. QED
    BY <1>1, <1>2, ArcAssumption

\* A count that fits is what the wrapping arithmetic returns.
LEMMA NoWrap ==
    ASSUME NEW x \in Nat, NEW m \in Nat, x < m
    PROVE  x % m = x
  OBVIOUS

\* An Arc is numbered and belongs to its owner.
LEMMA ArcMember ==
    ASSUME NEW a, NEW x
    PROVE  x \in ArcsOf(a) <=> \E t \in All : \E i \in 1..a[t] : x = <<t, i>>
  BY DEF ArcsOf

\* One Arc more in the hands of t.
LEMMA ArcMore ==
    ASSUME NEW a \in [All -> Nat], NEW b \in [All -> Nat], NEW t \in All,
           b[t] = a[t] + 1, \A u \in All : u # t => b[u] = a[u], IsFiniteSet(ArcsOf(a))
    PROVE  IsFiniteSet(ArcsOf(b)) /\ Cardinality(ArcsOf(b)) = Cardinality(ArcsOf(a)) + 1
  <1>1. <<t, a[t] + 1>> \notin ArcsOf(a)
    <2>1. a[t] + 1 \notin 1..a[t]
      OBVIOUS
    <2>. QED
      BY <2>1, ArcMember
  <1>2. ArcsOf(b) = ArcsOf(a) \cup {<<t, a[t] + 1>>}
    <2>1. ASSUME NEW u \in All PROVE 1..b[u] = IF u = t THEN 1..a[u] \cup {a[u] + 1} ELSE 1..a[u]
      <3>1. CASE u = t
        BY <3>1
      <3>2. CASE u # t
        BY <3>2
      <3>. QED
        BY <3>1, <3>2
    <2>2. \A x : x \in ArcsOf(b) <=> x \in ArcsOf(a) \/ x = <<t, a[t] + 1>>
      BY <2>1, ArcMember
    <2>. QED
      BY <2>2, Zenon
  <1>. QED
    BY <1>1, <1>2, FS_AddElement

\* One Arc less.
LEMMA ArcLess ==
    ASSUME NEW a \in [All -> Nat], NEW b \in [All -> Nat], NEW t \in All,
           a[t] = b[t] + 1, \A u \in All : u # t => b[u] = a[u], IsFiniteSet(ArcsOf(a))
    PROVE  IsFiniteSet(ArcsOf(b)) /\ Cardinality(ArcsOf(b)) = Cardinality(ArcsOf(a)) - 1
  <1>1. ArcsOf(b) \in SUBSET ArcsOf(a)
    <2>1. ASSUME NEW u \in All PROVE 1..b[u] \subseteq 1..a[u]
      OBVIOUS
    <2>. QED
      BY <2>1, ArcMember
  <1>2. IsFiniteSet(ArcsOf(b))
    BY <1>1, FS_Subset
  <1>3. Cardinality(ArcsOf(a)) = Cardinality(ArcsOf(b)) + 1
    BY <1>2, ArcMore
  <1>4. Cardinality(ArcsOf(b)) \in Nat
    BY <1>2, FS_CardinalityType
  <1>. QED
    BY <1>2, <1>3, <1>4

\* An Arc that is owned is counted, and two threads' Arcs are counted twice.
LEMMA ArcCounted ==
    ASSUME NEW a \in [All -> Nat], IsFiniteSet(ArcsOf(a)), NEW t \in All, a[t] > 0
    PROVE  /\ Cardinality(ArcsOf(a)) >= 1
           /\ \A u \in All : u # t /\ a[u] > 0 => Cardinality(ArcsOf(a)) >= 2
  <1>0. Cardinality(ArcsOf(a)) \in Nat
    BY FS_CardinalityType
  <1>1. \A u \in All : a[u] > 0 => <<u, 1>> \in ArcsOf(a)
    <2>1. \A u \in All : a[u] > 0 => 1 \in 1..a[u]
      OBVIOUS
    <2>. QED
      BY <2>1, ArcMember
  <1>2. <<t, 1>> \in ArcsOf(a)
    BY <1>1
  <1>3. Cardinality(ArcsOf(a)) # 0
    BY <1>2, FS_EmptySet
  <1>4. ASSUME NEW u \in All, u # t, a[u] > 0 PROVE Cardinality(ArcsOf(a)) # 1
    <2>1. <<u, 1>> \in ArcsOf(a) /\ <<u, 1>> # <<t, 1>>
      BY <1>1, <1>4
    <2>. QED
      BY <2>1, <1>2, FS_Singleton
  <1>. QED
    BY <1>0, <1>3, <1>4

\* The raw pointers in hand: one more, one less.
LEMMA HandMore ==
    ASSUME NEW p, NEW q, NEW t \in All, p[t] # "queue", q[t] = "queue",
           \A u \in All : u # t => q[u] = p[u]
    PROVE  Cardinality(InHand(q)) = Cardinality(InHand(p)) + 1
  <1>1. IsFiniteSet(InHand(p))
    BY ArcConstants, FS_Subset DEF InHand
  <1>2. InHand(q) = InHand(p) \cup {t} /\ t \notin InHand(p)
    BY DEF InHand
  <1>. QED
    BY <1>1, <1>2, FS_AddElement

\* A raw pointer in hand is counted.
LEMMA HandCounted ==
    ASSUME NEW p
    PROVE  /\ Cardinality(InHand(p)) \in Nat
           /\ \A t \in All : p[t] = "queue" => Cardinality(InHand(p)) >= 1
  <1>1. IsFiniteSet(InHand(p))
    BY ArcConstants, FS_Subset DEF InHand
  <1>2. Cardinality(InHand(p)) \in Nat
    BY <1>1, FS_CardinalityType
  <1>3. ASSUME NEW t \in All, p[t] = "queue" PROVE Cardinality(InHand(p)) # 0
    <2>1. t \in InHand(p)
      BY <1>3 DEF InHand
    <2>. QED
      BY <2>1, <1>1, FS_EmptySet
  <1>. QED
    BY <1>2, <1>3

\* What the counter is made of, and that a UniqueArc excludes everything else.
LEMMA RefsParts ==
    ASSUME ArcInv
    PROVE  /\ Cardinality(ArcsOf(arcs)) \in Nat /\ Cardinality(InHand(apc)) \in Nat
           /\ rc = Cardinality(ArcsOf(arcs)) + foreign + (IF pending THEN 1 ELSE 0)
                     + Cardinality(InHand(apc))
           /\ rc \in Nat
           /\ \A t \in All : arcs[t] > 0 => rc >= 1
           /\ \A t \in All : apc[t] = "queue" => Cardinality(InHand(apc)) >= 1
           /\ unique # None =>
                 /\ Cardinality(ArcsOf(arcs)) = 1 /\ foreign = 0 /\ pending = FALSE
                 /\ \A t \in All : apc[t] # "queue" /\ (t # unique => arcs[t] = 0)
  <1>t. /\ arcs \in [All -> Nat] /\ foreign \in Nat /\ pending \in BOOLEAN
        /\ unique \in Threads \cup {None} /\ IsFiniteSet(ArcsOf(arcs))
        /\ unique # None => rc = 1 /\ arcs[unique] = 1
    BY DEF ArcInv, ArcTypes, ArcRoles
  <1>1. /\ Cardinality(ArcsOf(arcs)) \in Nat
        /\ Cardinality(InHand(apc)) \in Nat
        /\ \A t \in All : apc[t] = "queue" => Cardinality(InHand(apc)) >= 1
    BY <1>t, FS_CardinalityType, HandCounted
  <1>2. rc = Cardinality(ArcsOf(arcs)) + foreign + (IF pending THEN 1 ELSE 0)
               + Cardinality(InHand(apc))
    BY DEF ArcInv, Refs
  <1>3. rc \in Nat
    BY <1>t, <1>1, <1>2
  <1>4. \A t \in All : arcs[t] > 0 => Cardinality(ArcsOf(arcs)) >= 1
    BY <1>t, ArcCounted
  <1>5. ASSUME unique # None
        PROVE  /\ Cardinality(ArcsOf(arcs)) = 1 /\ foreign = 0 /\ pending = FALSE
               /\ \A t \in All : apc[t] # "queue" /\ (t # unique => arcs[t] = 0)
    <2>1. unique \in All /\ arcs[unique] = 1 /\ rc = 1
      BY <1>5, <1>t DEF All
    <2>2. /\ Cardinality(ArcsOf(arcs)) >= 1
          /\ \A u \in All : u # unique /\ arcs[u] > 0 => Cardinality(ArcsOf(arcs)) >= 2
      BY <2>1, <1>t, ArcCounted
    <2>3. /\ Cardinality(ArcsOf(arcs)) = 1 /\ foreign = 0 /\ Cardinality(InHand(apc)) = 0
          /\ pending = FALSE
      BY <2>1, <2>2, <1>t, <1>1, <1>2
    <2>. QED
      BY <2>2, <2>3, <1>1, <1>t
  <1>6. \A t \in All : arcs[t] > 0 => rc >= 1
    BY <1>t, <1>1, <1>2, <1>4
  <1>. QED
    BY <1>1, <1>2, <1>3, <1>5, <1>6, Zenon

\* Nothing refers to an object that is not there.
LEMMA NoneBefore ==
    ASSUME ArcInv, mem \in {"none", "freed"} \/ \E t \in All : apc[t] = "free"
    PROVE  /\ rc = 0 /\ foreign = 0 /\ pending = FALSE /\ unique = None
           /\ \A t \in All : apc[t] # "queue" /\ arcs[t] = 0
  <1>p. /\ Cardinality(ArcsOf(arcs)) \in Nat /\ Cardinality(InHand(apc)) \in Nat
        /\ rc = Cardinality(ArcsOf(arcs)) + foreign + (IF pending THEN 1 ELSE 0)
                  + Cardinality(InHand(apc))
        /\ rc \in Nat
    BY RefsParts, Zenon
  <1>t. /\ foreign \in Nat /\ pending \in BOOLEAN
        /\ rc > 0 => mem \in {"uninit", "live"} /\ \A t \in All : apc[t] # "free"
    BY Zenon DEF ArcInv, ArcTypes, ArcRoles
  <1>1. rc = 0
    <2>1. ~(rc > 0)
      BY <1>t
    <2>. QED
      BY <2>1, <1>p
  <1>2. foreign = 0 /\ pending = FALSE /\ Cardinality(InHand(apc)) = 0
    BY <1>1, <1>p, <1>t
  <1>3. unique = None
    BY <1>1 DEF ArcInv, ArcRoles
  <1>4. \A t \in All : ~(arcs[t] > 0) /\ apc[t] # "queue"
    BY <1>1, <1>2, RefsParts
  <1>5. arcs \in [All -> Nat]
    BY DEF ArcInv, ArcTypes
  <1>. QED
    BY <1>1, <1>2, <1>3, <1>4, <1>5

\* The Arcs after t gets one, or gives one up.
Gain(a, t) == [a EXCEPT ![t] = a[t] + 1]
Loss(a, t) == [a EXCEPT ![t] = a[t] - 1]

\* One Arc more is one reference more.
LEMMA ArcGained ==
    ASSUME ArcInv, NEW t \in All, arcs' = Gain(arcs, t)
    PROVE  /\ arcs' \in [All -> Nat] /\ arcs'[t] = arcs[t] + 1
           /\ \A u \in All : u # t => arcs'[u] = arcs[u]
           /\ IsFiniteSet(ArcsOf(arcs'))
           /\ Cardinality(ArcsOf(arcs')) = Cardinality(ArcsOf(arcs)) + 1
  <1>1. arcs \in [All -> Nat] /\ IsFiniteSet(ArcsOf(arcs))
    BY DEF ArcInv, ArcTypes
  <1>2. /\ arcs' \in [All -> Nat] /\ arcs'[t] = arcs[t] + 1
        /\ \A u \in All : u # t => arcs'[u] = arcs[u]
    BY <1>1 DEF Gain
  <1>. QED
    BY <1>1, <1>2, ArcMore

\* One Arc less is one reference less.
LEMMA ArcLost ==
    ASSUME ArcInv, NEW t \in All, arcs[t] > 0, arcs' = Loss(arcs, t)
    PROVE  /\ arcs' \in [All -> Nat] /\ arcs'[t] = arcs[t] - 1
           /\ \A u \in All : u # t => arcs'[u] = arcs[u]
           /\ IsFiniteSet(ArcsOf(arcs'))
           /\ Cardinality(ArcsOf(arcs')) = Cardinality(ArcsOf(arcs)) - 1
  <1>1. arcs \in [All -> Nat] /\ IsFiniteSet(ArcsOf(arcs))
    BY DEF ArcInv, ArcTypes
  <1>2. /\ arcs' \in [All -> Nat] /\ arcs'[t] = arcs[t] - 1 /\ arcs[t] = arcs'[t] + 1
        /\ \A u \in All : u # t => arcs'[u] = arcs[u]
    BY <1>1 DEF Loss
  <1>. QED
    BY <1>1, <1>2, ArcLess

\* The steps of the threads' programs with respect to raw pointers in hand.
LEMMA HandSame ==
    ASSUME NEW p, NEW q, \A u \in All : q[u] = "queue" <=> p[u] = "queue"
    PROVE  InHand(q) = InHand(p)
  BY DEF InHand

\* UniqueArc::new_uninit makes the first reference.
LEMMA NewUninitStep ==
    ASSUME ArcInv, NEW t \in Threads, NewUninit(t) PROVE ArcInv'
  <1>0. t \in All /\ t # Worker /\ t # None
    BY ArcAssumption DEF All
  <1>a. /\ mem = "none" /\ rc' = 1 /\ mem' = "uninit" /\ arcs' = [arcs EXCEPT ![t] = 1]
        /\ unique' = t /\ UNCHANGED <<foreign, pending, apc>>
    BY DEF NewUninit
  <1>n. /\ rc = 0 /\ foreign = 0 /\ pending = FALSE /\ unique = None
        /\ \A u \in All : apc[u] # "queue" /\ arcs[u] = 0
    BY <1>a, NoneBefore, Zenon
  <1>1. arcs' = Gain(arcs, t)
    <2>1. arcs[t] + 1 = 1
      BY <1>0, <1>n
    <2>. QED
      BY <2>1, <1>a, Zenon DEF Gain
  <1>2. /\ arcs' \in [All -> Nat] /\ arcs'[t] = arcs[t] + 1
        /\ \A u \in All : u # t => arcs'[u] = arcs[u]
        /\ IsFiniteSet(ArcsOf(arcs'))
        /\ Cardinality(ArcsOf(arcs')) = Cardinality(ArcsOf(arcs)) + 1
    BY <1>0, <1>1, ArcGained, Zenon
  <1>p. /\ Cardinality(ArcsOf(arcs)) \in Nat /\ Cardinality(InHand(apc)) \in Nat
        /\ rc = Cardinality(ArcsOf(arcs)) + foreign + (IF pending THEN 1 ELSE 0)
                  + Cardinality(InHand(apc))
    BY RefsParts, Zenon
  <1>3. rc' = Refs' /\ rc' <= MaxRefs
    BY <1>2, <1>p, <1>a, <1>n, ArcAssumption DEF Refs
  <1>4. ArcTypes'
    BY <1>0, <1>2, <1>a DEF ArcInv, ArcTypes, All
  <1>5. ArcRoles'
    BY <1>0, <1>2, <1>a, <1>n DEF ArcInv, ArcRoles
  <1>. QED
    BY <1>2, <1>3, <1>4, <1>5 DEF ArcInv

\* assume_init and the conversion into an Arc move no reference.
LEMMA InitShareStep ==
    ASSUME ArcInv, NEW t \in Threads, AssumeInit(t) \/ Share(t) PROVE ArcInv'
  <1>a. UNCHANGED <<rc, arcs, foreign, pending, apc>> /\ unique = t /\ t # None
    BY ArcAssumption DEF AssumeInit, Share
  <1>1. rc' = Refs' /\ rc' <= MaxRefs /\ IsFiniteSet(ArcsOf(arcs'))
    BY <1>a DEF ArcInv, Refs
  <1>2. ArcTypes'
    BY <1>a DEF ArcInv, ArcTypes, AssumeInit, Share
  <1>3. ArcRoles'
    BY <1>a DEF ArcInv, ArcRoles, AssumeInit, Share
  <1>. QED
    BY <1>1, <1>2, <1>3 DEF ArcInv

\* inc and dec_and_test count without wrapping.
LEMMA Counting ==
    ASSUME ArcInv
    PROVE  /\ Inc /\ Refs < MaxRefs => rc' = rc + 1
           /\ Dec /\ rc > 0 => rc' = rc - 1
  <1>1. rc \in Nat /\ rc = Refs /\ rc <= MaxRefs
    BY RefsParts DEF ArcInv
  <1>2. 2^Width \in Nat /\ MaxRefs < 2^Width /\ MaxRefs \in Nat
    BY ArcConstants, ArcAssumption
  <1>3. ASSUME Inc, Refs < MaxRefs PROVE rc' = rc + 1
    <2>1. rc + 1 \in Nat /\ rc + 1 < 2^Width
      BY <1>1, <1>2, <1>3
    <2>. QED
      BY <2>1, <1>2, <1>3, NoWrap, Zenon DEF Inc
  <1>4. ASSUME Dec, rc > 0 PROVE rc' = rc - 1
    <2>1. rc - 1 \in Nat /\ rc - 1 < 2^Width
      BY <1>1, <1>2, <1>4
    <2>. QED
      BY <2>1, <1>2, <1>4, NoWrap, Zenon DEF Dec
  <1>. QED
    BY <1>3, <1>4

\* clone, and an Arc made of a borrowed foreign pointer, add one Arc and count it.
LEMMA CloneStep ==
    ASSUME ArcInv, NEW t \in Threads, Clone(t) \/ Borrow(t) PROVE ArcInv'
  <1>0. t \in All /\ t # Worker /\ Worker \in All
    BY ArcAssumption DEF All
  <1>a. /\ Refs < MaxRefs /\ Inc /\ arcs' = Gain(arcs, t)
        /\ UNCHANGED <<mem, unique, foreign, pending, apc>>
    BY DEF Clone, Borrow, Gain
  <1>p. /\ Cardinality(ArcsOf(arcs)) \in Nat /\ Cardinality(InHand(apc)) \in Nat
        /\ rc = Cardinality(ArcsOf(arcs)) + foreign + (IF pending THEN 1 ELSE 0)
                  + Cardinality(InHand(apc))
        /\ rc \in Nat
        /\ \A u \in All : arcs[u] > 0 => rc >= 1
        /\ unique # None => foreign = 0
    BY RefsParts, Zenon
  <1>b. rc' = rc + 1 /\ rc = Refs
    BY <1>a, Counting, Zenon DEF ArcInv
  <1>2. /\ arcs' \in [All -> Nat] /\ arcs'[t] = arcs[t] + 1
        /\ \A u \in All : u # t => arcs'[u] = arcs[u]
        /\ IsFiniteSet(ArcsOf(arcs'))
        /\ Cardinality(ArcsOf(arcs')) = Cardinality(ArcsOf(arcs)) + 1
    BY <1>0, <1>a, ArcGained, Zenon
  <1>c. foreign \in Nat /\ MaxRefs \in Nat
    BY ArcAssumption DEF ArcInv, ArcTypes
  <1>r. rc >= 1 /\ rc > 0 /\ unique = None
    <2>1. (arcs[t] > 0 /\ unique = None) \/ foreign > 0
      BY DEF Clone, Borrow, Shares
    <2>. QED
      BY <2>1, <1>0, <1>p, <1>c
  <1>3. rc' = Refs' /\ rc' <= MaxRefs
    BY <1>2, <1>p, <1>a, <1>b, <1>c DEF Refs
  <1>4. ArcTypes'
    <2>1. arcs'[Worker] = arcs[Worker]
      BY <1>0, <1>2, Zenon
    <2>. QED
      BY <2>1, <1>2, <1>a, Zenon DEF ArcInv, ArcTypes
  <1>5. ArcRoles'
    BY <1>a, <1>b, <1>r, <1>p DEF ArcInv, ArcRoles
  <1>. QED
    BY <1>2, <1>3, <1>4, <1>5 DEF ArcInv

\* into_foreign turns an Arc into a pointer that C holds.
LEMMA IntoForeignStep ==
    ASSUME ArcInv, NEW t \in Threads, IntoForeign(t) PROVE ArcInv'
  <1>0. t \in All /\ t # Worker /\ Worker \in All
    BY ArcAssumption DEF All
  <1>a. /\ arcs[t] > 0 /\ unique = None /\ arcs' = Loss(arcs, t) /\ foreign' = foreign + 1
        /\ UNCHANGED <<rc, mem, unique, pending, apc>>
    BY DEF IntoForeign, Shares, Loss
  <1>p. /\ Cardinality(ArcsOf(arcs)) \in Nat /\ Cardinality(InHand(apc)) \in Nat
        /\ rc = Cardinality(ArcsOf(arcs)) + foreign + (IF pending THEN 1 ELSE 0)
                  + Cardinality(InHand(apc))
        /\ rc \in Nat
    BY RefsParts, Zenon
  <1>2. /\ arcs' \in [All -> Nat] /\ arcs'[t] = arcs[t] - 1
        /\ \A u \in All : u # t => arcs'[u] = arcs[u]
        /\ IsFiniteSet(ArcsOf(arcs'))
        /\ Cardinality(ArcsOf(arcs')) = Cardinality(ArcsOf(arcs)) - 1
    BY <1>0, <1>a, ArcLost, Zenon
  <1>c. foreign \in Nat
    BY DEF ArcInv, ArcTypes
  <1>3. rc' = Refs' /\ rc' <= MaxRefs
    BY <1>2, <1>p, <1>a, <1>c DEF Refs, ArcInv
  <1>4. ArcTypes'
    BY <1>0, <1>2, <1>a DEF ArcInv, ArcTypes
  <1>5. ArcRoles'
    BY <1>a DEF ArcInv, ArcRoles
  <1>. QED
    BY <1>2, <1>3, <1>4, <1>5 DEF ArcInv

\* from_foreign takes it back.
LEMMA FromForeignStep ==
    ASSUME ArcInv, NEW t \in Threads, FromForeign(t) PROVE ArcInv'
  <1>0. t \in All /\ t # Worker /\ Worker \in All
    BY ArcAssumption DEF All
  <1>a. /\ foreign > 0 /\ arcs' = Gain(arcs, t) /\ foreign' = foreign - 1
        /\ UNCHANGED <<rc, mem, unique, pending, apc>>
    BY DEF FromForeign, Gain
  <1>p. /\ Cardinality(ArcsOf(arcs)) \in Nat /\ Cardinality(InHand(apc)) \in Nat
        /\ rc = Cardinality(ArcsOf(arcs)) + foreign + (IF pending THEN 1 ELSE 0)
                  + Cardinality(InHand(apc))
        /\ rc \in Nat
        /\ unique # None => foreign = 0
    BY RefsParts, Zenon
  <1>2. /\ arcs' \in [All -> Nat] /\ arcs'[t] = arcs[t] + 1
        /\ \A u \in All : u # t => arcs'[u] = arcs[u]
        /\ IsFiniteSet(ArcsOf(arcs'))
        /\ Cardinality(ArcsOf(arcs')) = Cardinality(ArcsOf(arcs)) + 1
    BY <1>0, <1>a, ArcGained, Zenon
  <1>c. foreign \in Nat /\ foreign' \in Nat /\ unique = None
    BY <1>a, <1>p DEF ArcInv, ArcTypes
  <1>3. rc' = Refs' /\ rc' <= MaxRefs
    BY <1>2, <1>p, <1>a, <1>c DEF Refs, ArcInv
  <1>4. ArcTypes'
    BY <1>0, <1>2, <1>a, <1>c DEF ArcInv, ArcTypes
  <1>5. ArcRoles'
    BY <1>a, <1>c DEF ArcInv, ArcRoles
  <1>. QED
    BY <1>2, <1>3, <1>4, <1>5 DEF ArcInv

\* An Arc that is sent changes its owner.
LEMMA GiveStep ==
    ASSUME ArcInv, NEW t \in Threads, NEW u \in Threads, Give(t, u) PROVE ArcInv'
  <1>0. t \in All /\ t # Worker /\ u \in All /\ u # Worker /\ Worker \in All
    BY ArcAssumption DEF All
  <1>t. arcs \in [All -> Nat] /\ IsFiniteSet(ArcsOf(arcs))
    BY DEF ArcInv, ArcTypes
  <1>a. /\ arcs[t] > 0 /\ unique = None /\ t # u
        /\ arcs' = [arcs EXCEPT ![t] = arcs[t] - 1, ![u] = arcs[u] + 1]
        /\ UNCHANGED <<rc, mem, unique, foreign, pending, apc>>
    BY DEF Give, Shares
  <1>. DEFINE m == [arcs EXCEPT ![t] = arcs[t] - 1]
  <1>1. /\ m \in [All -> Nat] /\ arcs[t] = m[t] + 1 /\ \A v \in All : v # t => m[v] = arcs[v]
        /\ arcs' \in [All -> Nat] /\ arcs'[u] = m[u] + 1
        /\ \A v \in All : v # u => arcs'[v] = m[v]
    BY <1>0, <1>t, <1>a
  <1>p. Cardinality(ArcsOf(arcs)) \in Nat
    BY RefsParts, Zenon
  <1>. HIDE DEF m
  <1>2. IsFiniteSet(ArcsOf(m)) /\ Cardinality(ArcsOf(m)) = Cardinality(ArcsOf(arcs)) - 1
    BY <1>0, <1>1, <1>t, ArcLess, Zenon
  <1>3. IsFiniteSet(ArcsOf(arcs')) /\ Cardinality(ArcsOf(arcs')) = Cardinality(ArcsOf(m)) + 1
    BY <1>0, <1>1, <1>2, ArcMore, Zenon
  <1>4. rc' = Refs' /\ rc' <= MaxRefs
    BY <1>2, <1>3, <1>p, <1>a DEF Refs, ArcInv
  <1>5. ArcTypes'
    BY <1>0, <1>1, <1>a DEF ArcInv, ArcTypes
  <1>6. ArcRoles'
    BY <1>a DEF ArcInv, ArcRoles
  <1>. QED
    BY <1>3, <1>4, <1>5, <1>6 DEF ArcInv

\* dec_and_test: the one that takes the count to zero finds nothing left and nobody
\* freeing.
LEMMA DropArcStep ==
    ASSUME ArcInv, NEW t \in All, DropArc(t) PROVE ArcInv'
  <1>0. Worker \in All /\ Worker \notin Threads /\ None \notin Threads
    BY ArcAssumption DEF All
  <1>t. /\ arcs \in [All -> Nat] /\ foreign \in Nat /\ unique \in Threads \cup {None}
        /\ apc \in [All -> {"idle", "queue", "free", "run", "last"}]
        /\ arcs[Worker] = IF apc[Worker] \in {"run", "last"} THEN 1 ELSE 0
        /\ \A u \in Threads : apc[u] \in {"idle", "queue", "free"}
        /\ mem \in {"none", "uninit", "live", "freed"} /\ pending \in BOOLEAN
    BY Zenon DEF ArcInv, ArcTypes
  <1>a. /\ arcs[t] > 0 /\ Dec /\ arcs' = Loss(arcs, t) /\ apc[t] # "queue"
        /\ unique' = IF unique = t THEN None ELSE unique
        /\ apc' = [apc EXCEPT ![t] = IF rc = 1 THEN "free" ELSE "idle"]
        /\ UNCHANGED <<mem, foreign, pending>>
    BY DEF DropArc, Loss, Idle
  <1>p. /\ Cardinality(ArcsOf(arcs)) \in Nat /\ Cardinality(InHand(apc)) \in Nat
        /\ rc = Cardinality(ArcsOf(arcs)) + foreign + (IF pending THEN 1 ELSE 0)
                  + Cardinality(InHand(apc))
        /\ rc \in Nat
        /\ \A u \in All : arcs[u] > 0 => rc >= 1
        /\ unique # None => \A u \in All : u # unique => arcs[u] = 0
    BY RefsParts, Zenon
  <1>b. rc >= 1 /\ rc > 0 /\ (unique # None => unique = t)
    BY <1>a, <1>p
  <1>c. rc' = rc - 1
    BY <1>a, <1>b, Counting, Zenon
  <1>2. /\ arcs' \in [All -> Nat] /\ arcs'[t] = arcs[t] - 1
        /\ \A u \in All : u # t => arcs'[u] = arcs[u]
        /\ IsFiniteSet(ArcsOf(arcs'))
        /\ Cardinality(ArcsOf(arcs')) = Cardinality(ArcsOf(arcs)) - 1
    BY <1>a, ArcLost, Zenon
  <1>q. /\ apc' \in [All -> {"idle", "queue", "free", "run", "last"}]
        /\ apc'[t] = IF rc = 1 THEN "free" ELSE "idle"
        /\ \A u \in All : u # t => apc'[u] = apc[u]
    BY <1>t, <1>a
  <1>h. InHand(apc') = InHand(apc)
    BY <1>q, <1>a, HandSame, Zenon
  <1>3. rc' = Refs' /\ rc' <= MaxRefs
    BY <1>2, <1>p, <1>a, <1>c, <1>h, <1>t, ArcAssumption DEF Refs, ArcInv
  <1>4. ArcTypes'
    <2>1. arcs'[Worker] = IF apc'[Worker] \in {"run", "last"} THEN 1 ELSE 0
      BY <1>0, <1>t, <1>a, <1>q, <1>2
    <2>2. \A u \in Threads : apc'[u] \in {"idle", "queue", "free"}
      BY <1>t, <1>q DEF All
    <2>3. unique' \in Threads \cup {None}
      BY <1>a, <1>t
    <2>. QED
      BY <2>1, <2>2, <2>3, <1>2, <1>a, <1>q, <1>t, Zenon DEF ArcTypes
  <1>5. ArcRoles'
    <2>1. mem' \in {"uninit", "live"} /\ \A u \in All : apc[u] # "free"
      BY <1>a, <1>b DEF ArcInv, ArcRoles
    <2>2. unique' = None
      BY <1>a, <1>b
    <2>3. rc = 1 \/ (rc' > 0 /\ \A u \in All : apc'[u] # "free")
      <3>1. rc # 1 => rc' > 0
        BY <1>p, <1>b, <1>c
      <3>2. rc # 1 => \A u \in All : apc'[u] # "free"
        BY <2>1, <1>q
      <3>. QED
        BY <3>1, <3>2, Zenon
    <2>4. rc = 1 => rc' = 0 /\ \A u \in All : apc'[u] = "free" => u = t
      BY <2>1, <1>q, <1>c
    <2>5. mem' = "uninit" => rc' = 0
      BY <1>a, <1>b, <1>c DEF ArcInv, ArcRoles
    <2>. QED
      BY <2>1, <2>2, <2>3, <2>4, <2>5 DEF ArcRoles
  <1>. QED
    BY <1>2, <1>3, <1>4, <1>5 DEF ArcInv

\* The last owner frees the object.
LEMMA FreeStep ==
    ASSUME ArcInv, NEW t \in All, Free(t) PROVE ArcInv'
  <1>a. /\ apc[t] = "free" /\ mem' = "freed" /\ apc' = [apc EXCEPT ![t] = "idle"]
        /\ UNCHANGED <<rc, arcs, unique, foreign, pending>>
    BY DEF Free
  <1>n. rc = 0 /\ unique = None
    BY <1>a, NoneBefore, Zenon
  <1>t. apc \in [All -> {"idle", "queue", "free", "run", "last"}]
    BY DEF ArcInv, ArcTypes
  <1>q. /\ apc' \in [All -> {"idle", "queue", "free", "run", "last"}]
        /\ apc'[t] = "idle" /\ \A u \in All : u # t => apc'[u] = apc[u]
    BY <1>t, <1>a
  <1>h. InHand(apc') = InHand(apc)
    BY <1>q, <1>a, HandSame, Zenon
  <1>3. rc' = Refs' /\ rc' <= MaxRefs /\ IsFiniteSet(ArcsOf(arcs'))
    BY <1>a, <1>h DEF Refs, ArcInv
  <1>4. ArcTypes'
    BY <1>a, <1>q DEF ArcInv, ArcTypes, All
  <1>5. ArcRoles'
    BY <1>a, <1>n, <1>q DEF ArcInv, ArcRoles
  <1>. QED
    BY <1>3, <1>4, <1>5 DEF ArcInv

\* __enqueue turns the caller's Arc into the raw pointer that it holds.
LEMMA EnqueueStep ==
    ASSUME ArcInv, NEW t \in All, Enqueue(t) PROVE ArcInv'
  <1>0. Worker \in All /\ Worker \notin Threads /\ Threads \subseteq All
    BY ArcAssumption DEF All
  <1>t. /\ arcs \in [All -> Nat] /\ foreign \in Nat /\ unique \in Threads \cup {None}
        /\ apc \in [All -> {"idle", "queue", "free", "run", "last"}]
        /\ arcs[Worker] = IF apc[Worker] \in {"run", "last"} THEN 1 ELSE 0
        /\ \A u \in Threads : apc[u] \in {"idle", "queue", "free"}
        /\ mem \in {"none", "uninit", "live", "freed"} /\ pending \in BOOLEAN
    BY Zenon DEF ArcInv, ArcTypes
  <1>a. /\ arcs' = Loss(arcs, t) /\ apc' = [apc EXCEPT ![t] = "queue"]
        /\ UNCHANGED <<rc, mem, unique, foreign, pending>>
    BY DEF Enqueue, Loss
  <1>p. /\ Cardinality(ArcsOf(arcs)) \in Nat /\ Cardinality(InHand(apc)) \in Nat
        /\ rc = Cardinality(ArcsOf(arcs)) + foreign + (IF pending THEN 1 ELSE 0)
                  + Cardinality(InHand(apc))
        /\ rc \in Nat
        /\ \A u \in All : arcs[u] > 0 => rc >= 1
        /\ unique # None => \A u \in All : u # unique => arcs[u] = 0
    BY RefsParts, Zenon
  <1>b. arcs[t] > 0 /\ unique = None /\ apc[t] # "queue"
    <2>1. CASE Shares(t)
      BY <2>1 DEF Shares, Idle
    <2>2. CASE apc[t] = "run"
      <3>1. t = Worker
        BY <2>2, <1>t DEF All
      <3>. QED
        BY <2>2, <3>1, <1>0, <1>t, <1>p
    <2>. QED
      BY <2>1, <2>2 DEF Enqueue
  <1>2. /\ arcs' \in [All -> Nat] /\ arcs'[t] = arcs[t] - 1
        /\ \A u \in All : u # t => arcs'[u] = arcs[u]
        /\ IsFiniteSet(ArcsOf(arcs'))
        /\ Cardinality(ArcsOf(arcs')) = Cardinality(ArcsOf(arcs)) - 1
    BY <1>a, <1>b, ArcLost, Zenon
  <1>q. /\ apc' \in [All -> {"idle", "queue", "free", "run", "last"}]
        /\ apc'[t] = "queue" /\ \A u \in All : u # t => apc'[u] = apc[u]
    BY <1>t, <1>a
  <1>h. Cardinality(InHand(apc')) = Cardinality(InHand(apc)) + 1
    BY <1>q, <1>b, HandMore, Zenon
  <1>3. rc' = Refs' /\ rc' <= MaxRefs
    BY <1>2, <1>p, <1>a, <1>h, <1>t DEF Refs, ArcInv
  <1>4. ArcTypes'
    <2>1. arcs'[Worker] = IF apc'[Worker] \in {"run", "last"} THEN 1 ELSE 0
      BY <1>0, <1>t, <1>b, <1>q, <1>2
    <2>2. \A u \in Threads : apc'[u] \in {"idle", "queue", "free"}
      BY <1>0, <1>t, <1>q
    <2>. QED
      BY <2>1, <2>2, <1>2, <1>a, <1>q, <1>t, Zenon DEF ArcTypes
  <1>5. ArcRoles'
    <2>1. \A u \in All : apc'[u] = "free" => apc[u] = "free"
      BY <1>q
    <2>. QED
      BY <2>1, <1>a, <1>b DEF ArcInv, ArcRoles
  <1>. QED
    BY <1>2, <1>3, <1>4, <1>5 DEF ArcInv

\* queue_work_on takes the reference, or from_raw gives it back: it is never lost.
LEMMA QueueWorkStep ==
    ASSUME ArcInv, NEW t \in All, QueueWork(t) PROVE ArcInv'
  <1>0. Worker \in All /\ Worker \notin Threads /\ Threads \subseteq All
    BY ArcAssumption DEF All
  <1>t. /\ arcs \in [All -> Nat] /\ foreign \in Nat /\ unique \in Threads \cup {None}
        /\ apc \in [All -> {"idle", "queue", "free", "run", "last"}]
        /\ arcs[Worker] = IF apc[Worker] \in {"run", "last"} THEN 1 ELSE 0
        /\ \A u \in Threads : apc[u] \in {"idle", "queue", "free"}
        /\ mem \in {"none", "uninit", "live", "freed"} /\ pending \in BOOLEAN
    BY Zenon DEF ArcInv, ArcTypes
  <1>a. /\ apc[t] = "queue" /\ pending' = TRUE
        /\ arcs' = [arcs EXCEPT ![t] = IF pending THEN arcs[t] + 1 ELSE arcs[t]]
        /\ apc' = [apc EXCEPT ![t] = IF pending /\ t = Worker THEN "last" ELSE "idle"]
        /\ UNCHANGED <<rc, mem, unique, foreign>>
    BY DEF QueueWork
  <1>p. /\ Cardinality(ArcsOf(arcs)) \in Nat /\ Cardinality(InHand(apc)) \in Nat
        /\ rc = Cardinality(ArcsOf(arcs)) + foreign + (IF pending THEN 1 ELSE 0)
                  + Cardinality(InHand(apc))
        /\ rc \in Nat
        /\ unique # None => \A u \in All : apc[u] # "queue"
    BY RefsParts, Zenon
  <1>b. unique = None
    BY <1>a, <1>p
  <1>q. /\ apc' \in [All -> {"idle", "queue", "free", "run", "last"}]
        /\ apc'[t] = IF pending /\ t = Worker THEN "last" ELSE "idle"
        /\ \A u \in All : u # t => apc'[u] = apc[u]
    BY <1>t, <1>a
  <1>h. Cardinality(InHand(apc)) = Cardinality(InHand(apc')) + 1
    <2>1. apc'[t] # "queue" /\ apc[t] = "queue" /\ \A u \in All : u # t => apc[u] = apc'[u]
      BY <1>q, <1>a
    <2>. QED
      BY <2>1, HandMore, Zenon
  <1>i. Cardinality(InHand(apc')) \in Nat
    BY HandCounted
  <1>2. /\ arcs' \in [All -> Nat] /\ arcs'[t] = IF pending THEN arcs[t] + 1 ELSE arcs[t]
        /\ \A u \in All : u # t => arcs'[u] = arcs[u]
    BY <1>t, <1>a
  <1>c. /\ IsFiniteSet(ArcsOf(arcs'))
        /\ Cardinality(ArcsOf(arcs'))
             = IF pending THEN Cardinality(ArcsOf(arcs)) + 1 ELSE Cardinality(ArcsOf(arcs))
    <2>1. CASE pending
      <3>1. arcs' = Gain(arcs, t)
        BY <2>1, <1>a DEF Gain
      <3>. QED
        BY <3>1, <2>1, ArcGained, Zenon
    <2>2. CASE ~pending
      <3>1. arcs' = arcs
        BY <2>2, <1>a, <1>t
      <3>2. IsFiniteSet(ArcsOf(arcs))
        BY DEF ArcInv
      <3>. QED
        BY <3>1, <3>2, <2>2, Zenon
    <2>. QED
      BY <2>1, <2>2
  <1>3. rc' = Refs' /\ rc' <= MaxRefs
    BY <1>c, <1>p, <1>a, <1>h, <1>i, <1>t DEF Refs, ArcInv
  <1>4. ArcTypes'
    <2>1. arcs'[Worker] = IF apc'[Worker] \in {"run", "last"} THEN 1 ELSE 0
      BY <1>0, <1>t, <1>a, <1>q, <1>2
    <2>2. \A u \in Threads : apc'[u] \in {"idle", "queue", "free"}
      BY <1>0, <1>t, <1>q
    <2>. QED
      BY <2>1, <2>2, <1>2, <1>a, <1>q, <1>t, Zenon DEF ArcTypes
  <1>5. ArcRoles'
    <2>1. \A u \in All : apc'[u] = "free" => apc[u] = "free"
      BY <1>q
    <2>. QED
      BY <2>1, <1>a, <1>b DEF ArcInv, ArcRoles
  <1>. QED
    BY <1>2, <1>c, <1>3, <1>4, <1>5 DEF ArcInv

\* The worker takes the queue's reference back with from_raw.
LEMMA RunStep ==
    ASSUME ArcInv, Run PROVE ArcInv'
  <1>0. Worker \in All /\ Worker \notin Threads /\ Threads \subseteq All
    BY ArcAssumption DEF All
  <1>t. /\ arcs \in [All -> Nat] /\ foreign \in Nat /\ unique \in Threads \cup {None}
        /\ apc \in [All -> {"idle", "queue", "free", "run", "last"}]
        /\ arcs[Worker] = IF apc[Worker] \in {"run", "last"} THEN 1 ELSE 0
        /\ \A u \in Threads : apc[u] \in {"idle", "queue", "free"}
        /\ mem \in {"none", "uninit", "live", "freed"} /\ pending \in BOOLEAN
    BY Zenon DEF ArcInv, ArcTypes
  <1>a. /\ pending = TRUE /\ apc[Worker] = "idle" /\ pending' = FALSE
        /\ arcs' = [arcs EXCEPT ![Worker] = 1] /\ apc' = [apc EXCEPT ![Worker] = "run"]
        /\ UNCHANGED <<rc, mem, unique, foreign>>
    BY <1>t DEF Run
  <1>p. /\ Cardinality(ArcsOf(arcs)) \in Nat /\ Cardinality(InHand(apc)) \in Nat
        /\ rc = Cardinality(ArcsOf(arcs)) + foreign + (IF pending THEN 1 ELSE 0)
                  + Cardinality(InHand(apc))
        /\ rc \in Nat
        /\ unique # None => pending = FALSE
    BY RefsParts, Zenon
  <1>b. unique = None /\ arcs[Worker] = 0 /\ arcs[Worker] + 1 = 1
    BY <1>a, <1>p, <1>t
  <1>1. arcs' = Gain(arcs, Worker)
    BY <1>a, <1>b, Zenon DEF Gain
  <1>2. /\ arcs' \in [All -> Nat] /\ arcs'[Worker] = arcs[Worker] + 1
        /\ \A u \in All : u # Worker => arcs'[u] = arcs[u]
        /\ IsFiniteSet(ArcsOf(arcs'))
        /\ Cardinality(ArcsOf(arcs')) = Cardinality(ArcsOf(arcs)) + 1
    BY <1>0, <1>1, ArcGained, Zenon
  <1>q. /\ apc' \in [All -> {"idle", "queue", "free", "run", "last"}]
        /\ apc'[Worker] = "run" /\ \A u \in All : u # Worker => apc'[u] = apc[u]
    BY <1>0, <1>t, <1>a
  <1>h. InHand(apc') = InHand(apc)
    <2>1. \A u \in All : apc'[u] = "queue" <=> apc[u] = "queue"
      BY <1>q, <1>a
    <2>. QED
      BY <2>1, HandSame, Zenon
  <1>3. rc' = Refs' /\ rc' <= MaxRefs
    BY <1>2, <1>p, <1>a, <1>h, <1>t DEF Refs, ArcInv
  <1>4. ArcTypes'
    <2>1. arcs'[Worker] = IF apc'[Worker] \in {"run", "last"} THEN 1 ELSE 0
      BY <1>b, <1>q, <1>2
    <2>2. \A u \in Threads : apc'[u] \in {"idle", "queue", "free"}
      BY <1>0, <1>t, <1>q
    <2>. QED
      BY <2>1, <2>2, <1>2, <1>a, <1>q, <1>t, Zenon DEF ArcTypes
  <1>5. ArcRoles'
    <2>1. \A u \in All : apc'[u] = "free" => apc[u] = "free"
      BY <1>q
    <2>. QED
      BY <2>1, <1>a, <1>b DEF ArcInv, ArcRoles
  <1>. QED
    BY <1>2, <1>3, <1>4, <1>5 DEF ArcInv

\* Before the allocation nothing refers to the object.
LEMMA AInitInv == AInit => ArcInv
  <1>. SUFFICES ASSUME AInit PROVE ArcInv
    OBVIOUS
  <1>0. Worker \in All
    BY DEF All
  <1>1. ArcsOf(arcs) = {}
    <2>1. \A t \in All : 1..arcs[t] = {}
      BY DEF AInit
    <2>. QED
      BY <2>1, ArcMember
  <1>2. InHand(apc) = {}
    BY DEF AInit, InHand
  <1>3. IsFiniteSet(ArcsOf(arcs)) /\ rc = Refs /\ rc <= MaxRefs
    BY <1>1, <1>2, FS_EmptySet, ArcAssumption DEF AInit, Refs
  <1>4. ArcTypes
    BY <1>0, Zenon DEF AInit, ArcTypes, All
  <1>5. ArcRoles
    BY DEF AInit, ArcRoles
  <1>. QED
    BY <1>3, <1>4, <1>5 DEF ArcInv

\* Every step of a thread or of the worker keeps the count exact.
LEMMA ANextInv == ArcInv /\ [ANext]_avars => ArcInv'
  <1>. SUFFICES ASSUME ArcInv, [ANext]_avars PROVE ArcInv'
    BY Zenon
  <1>0. Worker \in All /\ \A t \in Threads : t \in All
    BY DEF All
  <1>1. CASE WorkerStep
    BY <1>0, <1>1, RunStep, DropArcStep, FreeStep, EnqueueStep, QueueWorkStep, Zenon
       DEF WorkerStep
  <1>2. ASSUME NEW t \in Threads, ThreadStep(t) PROVE ArcInv'
    <2>1. CASE NewUninit(t) \/ AssumeInit(t) \/ Share(t) \/ Clone(t) \/ Borrow(t)
      BY <2>1, NewUninitStep, InitShareStep, CloneStep, Zenon
    <2>2. CASE DropArc(t) \/ Free(t) \/ Enqueue(t) \/ QueueWork(t)
      BY <1>0, <2>2, DropArcStep, FreeStep, EnqueueStep, QueueWorkStep, Zenon
    <2>3. CASE IntoForeign(t) \/ FromForeign(t) \/ \E u \in Threads : Give(t, u)
      BY <2>3, IntoForeignStep, FromForeignStep, GiveStep, Zenon
    <2>. QED
      BY <1>2, <2>1, <2>2, <2>3, Zenon DEF ThreadStep
  <1>3. CASE UNCHANGED avars
    BY <1>3 DEF avars, ArcInv, ArcTypes, ArcRoles, Refs
  <1>. QED
    BY <1>1, <1>2, <1>3, Zenon DEF ANext

\* The counter is the number of Arcs, foreign pointers, raw pointers on their way to the
\* queue and the queue's own, for every number of threads; while any of them exists the
\* object is allocated and nobody frees it, it is freed by one owner, and a UniqueArc is
\* alone.
THEOREM CountAlwaysExact == ASpec => []CountExact
  <1>1. ArcInv => CountExact
    <2>. SUFFICES ASSUME ArcInv PROVE CountExact
      BY Zenon
    <2>1. /\ rc = Refs /\ ArcRoles
      BY DEF ArcInv
    <2>2. Cardinality({t \in All : apc[t] = "free"}) <= 1
      <3>1. CASE \E t \in All : apc[t] = "free"
        <4>1. PICK t \in All : apc[t] = "free"
          BY <3>1
        <4>2. {u \in All : apc[u] = "free"} = {t}
          BY <4>1, <2>1 DEF ArcRoles
        <4>3. Cardinality({t}) = 1
          BY FS_Singleton
        <4>. QED
          BY <4>2, <4>3
      <3>2. CASE ~\E t \in All : apc[t] = "free"
        <4>1. {u \in All : apc[u] = "free"} = {}
          BY <3>2
        <4>. QED
          BY <4>1, FS_EmptySet
      <3>. QED
        BY <3>1, <3>2
    <2>. QED
      BY <2>1, <2>2 DEF CountExact, ArcRoles
  <1>2. ASpec => []ArcInv
    BY AInitInv, ANextInv, PTL DEF ASpec
  <1>. QED
    BY <1>1, <1>2, PTL

-----------------------------------------------------------------------------
(***************************************************************************)
(* The revocable: users, the count of guards and the revoked bit.          *)
(***************************************************************************)

\* The guards are finitely many, and too few to carry into the revoked bit.
LEMMA GuardsBounded ==
    /\ IsFiniteSet(Guards)
    /\ Cardinality(Guards) \in Nat
    /\ Cardinality(Guards) < RevokedBit
  <1>1. Guards \subseteq Users
    BY DEF Guards
  <1>2. /\ IsFiniteSet(Guards)
        /\ Cardinality(Guards) <= Cardinality(Users)
    BY <1>1, UsersAssumption, FS_Subset
  <1>3. Cardinality(Guards) \in Nat /\ Cardinality(Users) \in Nat
    BY <1>2, UsersAssumption, FS_CardinalityType
  <1>. QED
    BY <1>2, <1>3, UsersAssumption

\* The count is zero exactly when there is no guard.
LEMMA NoGuardsNoCount == (Cardinality(Guards) = 0) <=> (Guards = {})
  BY GuardsBounded, FS_EmptySet

\* The same two facts one step later.
LEMMA GuardsBoundedNext ==
    /\ IsFiniteSet(Guards')
    /\ Cardinality(Guards') \in Nat
    /\ Cardinality(Guards') < RevokedBit
    /\ (Cardinality(Guards') = 0) <=> (Guards' = {})
  <1>1. Guards' \subseteq Users
    BY DEF Guards
  <1>2. /\ IsFiniteSet(Guards')
        /\ Cardinality(Guards') <= Cardinality(Users)
    BY <1>1, UsersAssumption, FS_Subset
  <1>3. Cardinality(Guards') \in Nat /\ Cardinality(Users) \in Nat
    BY <1>2, UsersAssumption, FS_CardinalityType
  <1>4. (Cardinality(Guards') = 0) <=> (Guards' = {})
    BY <1>2, FS_EmptySet
  <1>. QED
    BY <1>2, <1>3, <1>4, UsersAssumption

\* A user entering the set of guards makes the count one larger.
LEMMA GuardGained ==
    ASSUME NEW u \in Users, u \notin Guards, Guards' = Guards \cup {u}
    PROVE  Cardinality(Guards') = Cardinality(Guards) + 1
  BY GuardsBounded, FS_AddElement

\* A guard leaving it makes the count one smaller.
LEMMA GuardLost ==
    ASSUME NEW u \in Users, u \in Guards, Guards' = Guards \ {u}
    PROVE  Cardinality(Guards') = Cardinality(Guards) - 1
  BY GuardsBounded, FS_RemoveElement

\* The initial state satisfies the inductive invariant.
LEMMA InitIInv == Init => IInv
  <1>. SUFFICES ASSUME Init PROVE IInv
    OBVIOUS
  <1>1. Guards = {}
    BY DEF Init, Guards
  <1>2. Cardinality(Guards) = 0
    BY <1>1, NoGuardsNoCount
  <1>3. RevokedBit \in Nat /\ RevokedBit > 0
    BY GuardsBounded, UsersAssumption
  <1>4. TypeOK
    BY <1>3 DEF Init, TypeOK
  <1>5. CountIsGuards
    BY <1>2, <1>3 DEF Init, CountIsGuards, IsRevoked
  <1>6. NoUseAfterDrop /\ DroppedOnce /\ DropDuty
    BY <1>1, <1>3 DEF Init, NoUseAfterDrop, DroppedOnce, DropDuty, IsRevoked
  <1>. QED
    BY <1>4, <1>5, <1>6 DEF IInv

\* Every step, and every stuttering step, preserves the inductive invariant.
LEMMA NextIInv == IInv /\ [Next]_vars => IInv'
  <1>. SUFFICES ASSUME IInv, [Next]_vars PROVE IInv'
    OBVIOUS
  <1>. USE DEF IsRevoked
  <1>bit. RevokedBit \in Nat /\ RevokedBit > 0
    BY GuardsBounded, UsersAssumption
  <1>inv. /\ TypeOK /\ CountIsGuards /\ NoUseAfterDrop /\ DroppedOnce /\ DropDuty
          /\ Cardinality(Guards) \in Nat
          /\ Cardinality(Guards) < RevokedBit
          /\ (Cardinality(Guards) = 0) <=> (Guards = {})
    BY GuardsBounded, NoGuardsNoCount DEF IInv
  <1>1. ASSUME NEW u \in Users, Load(u) PROVE IInv'
    <2>1. Guards' = Guards /\ Cardinality(Guards') = Cardinality(Guards)
      BY <1>1, <1>inv DEF Load, Guards, TypeOK
    <2>2. TypeOK'
      BY <1>1, <1>inv, <1>bit DEF Load, TypeOK
    <2>3. CountIsGuards'
      BY <1>1, <1>inv, <2>1 DEF Load, CountIsGuards
    <2>4. NoUseAfterDrop' /\ DroppedOnce'
      BY <1>1, <1>inv, <2>1 DEF Load, NoUseAfterDrop, DroppedOnce, TypeOK
    <2>5. DropDuty'
      BY <1>1, <1>inv, <2>1 DEF Load, DropDuty, TypeOK
    <2>. QED
      BY <2>2, <2>3, <2>4, <2>5 DEF IInv
  <1>2. ASSUME NEW u \in Users, CompareExchangeOk(u) PROVE IInv'
    <2>1. u \notin Guards /\ Guards' = Guards \cup {u}
      BY <1>2, <1>inv DEF CompareExchangeOk, Guards, TypeOK
    <2>2. Cardinality(Guards') = Cardinality(Guards) + 1
      BY <2>1, GuardGained, Zenon
    <2>3. ~IsRevoked(usage_count) /\ usage_count' = Cardinality(Guards')
      BY <1>2, <1>inv, <1>bit, <2>2 DEF CompareExchangeOk, CountIsGuards, TypeOK
    <2>4. usage_count' \in Nat /\ ~IsRevoked(usage_count')
      BY <2>3, GuardsBoundedNext, <1>bit
    <2>5. TypeOK'
      BY <1>2, <1>inv, <1>bit, <2>4 DEF CompareExchangeOk, TypeOK
    <2>6. CountIsGuards'
      BY <2>3, <2>4, GuardsBoundedNext DEF CountIsGuards
    <2>7. alive
      BY <1>2, <1>inv DEF CompareExchangeOk, DropDuty
    <2>8. NoUseAfterDrop' /\ DroppedOnce' /\ DropDuty'
      BY <1>2, <1>inv, <2>1, <2>3, <2>4, <2>7
      DEF CompareExchangeOk, NoUseAfterDrop, DroppedOnce, DropDuty, TypeOK
    <2>. QED
      BY <2>5, <2>6, <2>8 DEF IInv
  <1>3. ASSUME NEW u \in Users, CompareExchangeErr(u) PROVE IInv'
    <2>1. Guards' = Guards /\ Cardinality(Guards') = Cardinality(Guards)
      BY <1>3, <1>inv DEF CompareExchangeErr, Guards, TypeOK
    <2>2. TypeOK' /\ CountIsGuards'
      BY <1>3, <1>inv, <2>1 DEF CompareExchangeErr, TypeOK, CountIsGuards
    <2>3. NoUseAfterDrop' /\ DroppedOnce' /\ DropDuty'
      BY <1>3, <1>inv, <2>1
      DEF CompareExchangeErr, NoUseAfterDrop, DroppedOnce, DropDuty, TypeOK
    <2>. QED
      BY <2>2, <2>3 DEF IInv
  <1>4. ASSUME NEW u \in Users, Revoke(u) PROVE IInv'
    <2>1. Guards' = Guards /\ Cardinality(Guards') = Cardinality(Guards)
      BY <1>4, <1>inv DEF Revoke, Guards, TypeOK
    <2>2. IsRevoked(usage_count')
      BY <1>4, <1>inv, <1>bit DEF Revoke, TypeOK
    <2>3. TypeOK'
      BY <1>4, <1>inv, <1>bit DEF Revoke, TypeOK
    <2>4. CountIsGuards'
      BY <1>4, <1>inv, <1>bit, <2>1, <2>2 DEF Revoke, CountIsGuards, TypeOK
    <2>5. usage_count = 0 <=> (~IsRevoked(usage_count) /\ Guards = {})
      BY <1>inv, <1>bit DEF CountIsGuards
    <2>6. NoUseAfterDrop' /\ DroppedOnce'
      BY <1>4, <1>inv, <2>1, <2>5
      DEF Revoke, NoUseAfterDrop, DroppedOnce, DropDuty, TypeOK
    <2>7. DropDuty'
      BY <1>4, <1>inv, <2>1, <2>2, <2>5 DEF Revoke, DropDuty, TypeOK
    <2>. QED
      BY <2>3, <2>4, <2>6, <2>7 DEF IInv
  <1>5. ASSUME NEW u \in Users, GuardDrop(u) PROVE IInv'
    <2>1. u \in Guards /\ Guards' = Guards \ {u}
      BY <1>5, <1>inv DEF GuardDrop, Guards, TypeOK
    <2>2. Cardinality(Guards') = Cardinality(Guards) - 1
      BY <2>1, GuardLost, Zenon
    <2>3. IsRevoked(usage_count') <=> IsRevoked(usage_count)
      BY <1>5, <1>inv, <1>bit, <2>2, GuardsBoundedNext
      DEF GuardDrop, CountIsGuards, TypeOK
    <2>4. TypeOK'
      BY <1>5, <1>inv, <1>bit, <2>2, GuardsBoundedNext
      DEF GuardDrop, TypeOK, CountIsGuards
    <2>5. CountIsGuards'
      BY <1>5, <1>inv, <1>bit, <2>2, <2>3 DEF GuardDrop, CountIsGuards, TypeOK
    <2>6. usage_count = RevokedBit + 1 <=> (IsRevoked(usage_count) /\ Guards' = {})
      BY <1>inv, <1>bit, <2>2, GuardsBoundedNext DEF CountIsGuards
    <2>7. alive /\ drops = 0 /\ \A w \in Users : pc[w] # "drop_data"
      BY <1>5, <1>inv, <2>1 DEF GuardDrop, NoUseAfterDrop, DropDuty
    <2>8. NoUseAfterDrop' /\ DroppedOnce'
      BY <1>5, <1>inv, <2>6, <2>7 DEF GuardDrop, NoUseAfterDrop, DroppedOnce, TypeOK
    <2>9. DropDuty'
      BY <1>5, <1>inv, <2>3, <2>6, <2>7 DEF GuardDrop, DropDuty, TypeOK
    <2>. QED
      BY <2>4, <2>5, <2>8, <2>9 DEF IInv
  <1>6. ASSUME NEW u \in Users, DropData(u) PROVE IInv'
    <2>1. Guards' = Guards /\ Cardinality(Guards') = Cardinality(Guards)
      BY <1>6, <1>inv, Zenon DEF DropData, Guards, TypeOK
    <2>2. /\ Guards = {} /\ drops = 0 /\ IsRevoked(usage_count) /\ alive
          /\ \A w \in Users \ {u} : pc[w] # "drop_data"
      BY <1>6, <1>inv DEF DropData, NoUseAfterDrop, DropDuty
    <2>3. TypeOK' /\ CountIsGuards'
      BY <1>6, <1>inv, <2>1 DEF DropData, TypeOK, CountIsGuards
    <2>4. NoUseAfterDrop' /\ DroppedOnce' /\ DropDuty'
      BY <1>6, <1>inv, <2>1, <2>2
      DEF DropData, NoUseAfterDrop, DroppedOnce, DropDuty, TypeOK
    <2>. QED
      BY <2>3, <2>4 DEF IInv
  <1>7. ASSUME DropWrapper PROVE IInv'
    <2>1. Guards = {} /\ Guards' = Guards /\ Cardinality(Guards') = Cardinality(Guards)
      BY <1>7, <1>inv DEF DropWrapper, Guards, TypeOK
    <2>2. alive' \in BOOLEAN /\ UNCHANGED <<usage_count, pc, val>>
      BY <1>7, Zenon DEF DropWrapper
    <2>3. drops' = 1
      BY <1>7, <1>inv, <2>1 DEF DropWrapper, DropDuty
    <2>4. TypeOK'
      BY <1>inv, <2>2, <2>3 DEF TypeOK
    <2>5. CountIsGuards'
      BY <1>inv, <2>1, <2>2 DEF CountIsGuards
    <2>6. NoUseAfterDrop' /\ DroppedOnce' /\ DropDuty'
      BY <1>7, <1>inv, <2>1, <2>3
      DEF DropWrapper, NoUseAfterDrop, DroppedOnce, DropDuty, TypeOK
    <2>. QED
      BY <2>4, <2>5, <2>6 DEF IInv
  <1>8. CASE UNCHANGED vars
    BY <1>8 DEF IInv, vars, TypeOK, CountIsGuards, NoUseAfterDrop, DroppedOnce,
                DropDuty, Guards
  <1>. QED
    BY <1>1, <1>2, <1>3, <1>4, <1>5, <1>6, <1>7, <1>8 DEF Next

-----------------------------------------------------------------------------
\* The inductive invariant holds throughout.
THEOREM Invariance == Spec => []IInv
  BY InitIInv, NextIInv, PTL DEF Spec

\* The word, the users' places and the counters keep their types: the guard
\* count of usage_count never overflows its 31 bits.
THEOREM TypeCorrect == Spec => []TypeOK
  <1>1. IInv => TypeOK
    BY DEF IInv
  <1>. QED
    BY <1>1, Invariance, PTL

\* The low bits of usage_count count the live guards.
THEOREM CountCorrect == Spec => []CountIsGuards
  <1>1. IInv => CountIsGuards
    BY DEF IInv
  <1>. QED
    BY <1>1, Invariance, PTL

\* No guard can reach a value whose destructor has started or finished.
THEOREM NeverUsedAfterDrop == Spec => []NoUseAfterDrop
  <1>1. IInv => NoUseAfterDrop
    BY DEF IInv
  <1>. QED
    BY <1>1, Invariance, PTL

\* The destructor runs at most once, and somebody is always left to run it.
THEOREM DropAccounted == Spec => [](DroppedOnce /\ DropDuty)
  <1>1. IInv => DroppedOnce /\ DropDuty
    BY DEF IInv
  <1>. QED
    BY <1>1, Invariance, PTL

\* One step cannot clear the bit, nor hand out a guard once it is set.
LEMMA RevokeIsFinal ==
    IInv /\ [Next]_vars =>
        [IsRevoked(usage_count) =>
            IsRevoked(usage_count') /\ Guards' \subseteq Guards]_vars
  <1>. SUFFICES ASSUME IInv, Next, IsRevoked(usage_count)
                PROVE  IsRevoked(usage_count') /\ Guards' \subseteq Guards
    BY DEF vars
  <1>. USE DEF IsRevoked
  <1>inv. /\ TypeOK /\ CountIsGuards /\ DropDuty
          /\ RevokedBit \in Nat /\ RevokedBit > 0
          /\ Cardinality(Guards) \in Nat
          /\ (Cardinality(Guards) = 0) <=> (Guards = {})
    BY GuardsBounded, NoGuardsNoCount, UsersAssumption DEF IInv
  <1>1. ASSUME NEW u \in Users, CompareExchangeOk(u) PROVE FALSE
    BY <1>1, <1>inv DEF CompareExchangeOk, TypeOK
  <1>2. ASSUME NEW u \in Users, GuardDrop(u)
        PROVE  IsRevoked(usage_count') /\ Guards' \subseteq Guards
    <2>1. u \in Guards
      BY <1>2 DEF GuardDrop, Guards
    <2>2. usage_count >= RevokedBit + 1
      BY <2>1, <1>inv DEF CountIsGuards
    <2>. QED
      BY <1>2, <1>inv, <2>2 DEF GuardDrop, Guards, TypeOK
  <1>3. ASSUME NEW u \in Users,
               Load(u) \/ CompareExchangeErr(u) \/ Revoke(u) \/ DropData(u)
        PROVE  IsRevoked(usage_count') /\ Guards' \subseteq Guards
    BY <1>3, <1>inv
    DEF Load, CompareExchangeErr, Revoke, DropData, Guards, TypeOK
  <1>4. ASSUME DropWrapper
        PROVE  IsRevoked(usage_count') /\ Guards' \subseteq Guards
    BY <1>4 DEF DropWrapper, Guards
  <1>. QED
    BY <1>1, <1>2, <1>3, <1>4 DEF Next

\* Once revoked, always revoked, and no new guard.
THEOREM NeverAccessedAfterRevoke == Spec => NoAccessAfterRevoke
  BY Invariance, RevokeIsFinal, PTL DEF Spec, NoAccessAfterRevoke

-----------------------------------------------------------------------------
\* The initial state is an initial state of the abstract cell.
LEMMA InitRefines == Init => Cell!CellInit
  <1>. SUFFICES ASSUME Init PROVE Cell!CellInit
    OBVIOUS
  <1>1. RevokedBit \in Nat /\ RevokedBit > 0
    BY GuardsBounded, UsersAssumption
  <1>2. Guards = {} /\ ~IsRevoked(usage_count) /\ alive /\ ~(drops > 0)
    BY <1>1 DEF Init, Guards, IsRevoked
  <1>. QED
    BY <1>2 DEF Cell!CellInit

\* Every step is a step of the abstract cell or leaves it unchanged.
LEMMA NextRefines == IInv /\ [Next]_vars => [Cell!CellNext]_(Cell!cellVars)
  <1>. SUFFICES ASSUME IInv, [Next]_vars PROVE [Cell!CellNext]_(Cell!cellVars)
    OBVIOUS
  <1>inv. /\ TypeOK /\ CountIsGuards /\ NoUseAfterDrop /\ DropDuty
          /\ RevokedBit \in Nat /\ RevokedBit > 0
          /\ Cardinality(Guards) \in Nat
          /\ (Cardinality(Guards) = 0) <=> (Guards = {})
    BY GuardsBounded, NoGuardsNoCount, UsersAssumption DEF IInv
  <1>1. ASSUME NEW u \in Users, Load(u) \/ CompareExchangeErr(u)
        PROVE  UNCHANGED Cell!cellVars
    <2>1. UNCHANGED <<Guards, usage_count, drops, alive>>
      BY <1>1, <1>inv DEF Load, CompareExchangeErr, Guards, TypeOK
    <2>. QED
      BY <2>1 DEF Cell!cellVars, IsRevoked
  <1>2. ASSUME NEW u \in Users, CompareExchangeOk(u) PROVE Cell!Acquire(u)
    <2>1. u \notin Guards /\ Guards' = Guards \cup {u}
      BY <1>2, <1>inv DEF CompareExchangeOk, Guards, TypeOK
    <2>2. alive /\ UNCHANGED <<drops, alive>>
      BY <1>2, <1>inv DEF CompareExchangeOk, DropDuty
    <2>3. ~IsRevoked(usage_count)
      BY <1>2, <1>inv DEF CompareExchangeOk, TypeOK, IsRevoked
    <2>4. ~IsRevoked(usage_count')
      <3>1. Cardinality(Guards') = Cardinality(Guards) + 1
        BY <2>1, GuardGained
      <3>. QED
        BY <1>2, <1>inv, <2>3, <3>1, GuardsBoundedNext
        DEF CompareExchangeOk, CountIsGuards, IsRevoked
    <2>. QED
      BY <2>1, <2>2, <2>3, <2>4 DEF Cell!Acquire
  <1>3. ASSUME NEW u \in Users, Revoke(u)
        PROVE  Cell!Revoke \/ UNCHANGED Cell!cellVars
    <2>1. alive /\ UNCHANGED <<Guards, drops, alive>>
      BY <1>3, <1>inv DEF Revoke, Guards, TypeOK
    <2>2. IsRevoked(usage_count')
      BY <1>3, <1>inv DEF Revoke, TypeOK, IsRevoked
    <2>3. CASE IsRevoked(usage_count)
      BY <2>1, <2>2, <2>3 DEF Cell!cellVars
    <2>4. CASE ~IsRevoked(usage_count)
      BY <2>1, <2>2, <2>4 DEF Cell!Revoke
    <2>. QED
      BY <2>3, <2>4
  <1>4. ASSUME NEW u \in Users, GuardDrop(u) PROVE Cell!Release(u)
    <2>1. u \in Guards /\ Guards' = Guards \ {u} /\ UNCHANGED <<drops, alive>>
      BY <1>4, <1>inv DEF GuardDrop, Guards, TypeOK
    <2>2. Cardinality(Guards') = Cardinality(Guards) - 1
      BY <2>1, GuardLost, Zenon
    <2>3. IsRevoked(usage_count') <=> IsRevoked(usage_count)
      BY <1>4, <1>inv, <2>2, GuardsBounded, GuardsBoundedNext
      DEF GuardDrop, CountIsGuards, IsRevoked
    <2>. QED
      BY <2>1, <2>3 DEF Cell!Release
  <1>5. ASSUME NEW u \in Users, DropData(u) PROVE Cell!Destroy
    <2>1. Guards = {} /\ drops = 0 /\ IsRevoked(usage_count)
      BY <1>5, <1>inv DEF DropData, NoUseAfterDrop, DropDuty
    <2>2. UNCHANGED <<Guards, usage_count, alive>> /\ drops' = drops + 1
      BY <1>5, <1>inv DEF DropData, Guards, TypeOK
    <2>3. ~(drops > 0) /\ (drops' > 0)
      BY <2>1, <2>2
    <2>. QED
      BY <2>1, <2>2, <2>3 DEF Cell!Destroy, IsRevoked
  <1>6. ASSUME DropWrapper PROVE Cell!OwnerDrop \/ UNCHANGED Cell!cellVars
    <2>1. Guards = {} /\ UNCHANGED <<Guards, usage_count>> /\ alive /\ ~alive'
      BY <1>6 DEF DropWrapper, Guards
    <2>2. CASE IsRevoked(usage_count)
      <3>1. drops' = drops
        BY <1>6, <2>2 DEF DropWrapper
      <3>. QED
        BY <2>1, <2>2, <3>1 DEF Cell!cellVars, IsRevoked
    <2>3. CASE ~IsRevoked(usage_count)
      <3>1. drops' > 0
        BY <1>6, <1>inv, <2>3 DEF DropWrapper, TypeOK
      <3>. QED
        BY <2>1, <2>3, <3>1 DEF Cell!OwnerDrop
    <2>. QED
      BY <2>2, <2>3
  <1>7. CASE UNCHANGED vars
    BY <1>7 DEF vars, Cell!cellVars, Guards, IsRevoked
  <1>. QED
    BY <1>1, <1>2, <1>3, <1>4, <1>5, <1>6, <1>7 DEF Next, Cell!CellNext

\* The counter protocol implements the promise of the module header.
THEOREM Refinement == Spec => ImplementsCellSafety
  BY Invariance, InitRefines, NextRefines, PTL
  DEF Spec, ImplementsCellSafety, Cell!CellSafeSpec
=================================================================================
