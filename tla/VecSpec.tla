------------------------------- MODULE VecSpec -------------------------------
(***************************************************************************)
(* What a growable array that owns its elements promises: a sequence.      *)
(* Every element that leaves the sequence is handed to the caller or       *)
(* dropped, once, at that moment.  An operation that cannot allocate       *)
(* leaves the sequence as it is and consumes at most its argument.         *)
(***************************************************************************)
EXTENDS Naturals, Sequences

VARIABLES items,        \* the sequence
          made,         \* elements created so far: 0 .. made - 1
          gone,         \* element -> how often it was handed out or dropped
          live,         \* the array has not been dropped
          op            \* the last operation and its argument

vvars == <<items, made, gone, live, op>>

\* Each element of S leaves, once.
Leave(S) == gone' = [e \in 0..(made' - 1) |->
                       (IF e < made THEN gone[e] ELSE 0) + (IF e \in S THEN 1 ELSE 0)]

VInit == items = <<>> /\ made = 0 /\ gone = <<>> /\ live = TRUE /\ op = <<"new", 0>>

\* Append k new elements.
AppendNew(k) ==
  /\ op' = <<"append", k>>
  /\ made' = made + k
  /\ items' = items \o [i \in 1..k |-> made + i - 1]
  /\ Leave({})

\* The new element is dropped: there is no memory for it.
Refuse ==
  /\ op' = <<"refuse", 1>>
  /\ made' = made + 1
  /\ items' = items
  /\ Leave({made})

\* Element i leaves; the others keep their order.
Take(i) ==
  /\ op' = <<"take", i>>
  /\ made' = made
  /\ items' = SubSeq(items, 1, i - 1) \o SubSeq(items, i + 1, Len(items))
  /\ Leave({items[i]})

\* Element i leaves, the last one takes its place.
SwapTake(i) ==
  /\ op' = <<"swap", i>>
  /\ made' = made
  /\ items' = SubSeq([items EXCEPT ![i] = items[Len(items)]], 1, Len(items) - 1)
  /\ Leave({items[i]})

\* All but the first n elements leave.
Cut(n) ==
  /\ op' = <<"cut", n>>
  /\ made' = made
  /\ items' = SubSeq(items, 1, n)
  /\ Leave({items[i] : i \in (n + 1)..Len(items)})

VNext ==
  \/ /\ live' = live
     /\ \/ \E k \in 1..(made' - made) : AppendNew(k)
        \/ Refuse
        \/ \E i \in 1..Len(items) : Take(i) \/ SwapTake(i)
        \/ \E n \in 0..Len(items) : Cut(n)
  \/ live /\ live' = FALSE /\ Cut(0)

VSpec == VInit /\ [][VNext]_vvars
=============================================================================
