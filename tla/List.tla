-------------------------------- MODULE List --------------------------------
(***************************************************************************)
(* The intrusive circular list (rko-core/src/unsafe_list.rs): two lists    *)
(* over one set of entries, whose links are embedded in them.  A list's    *)
(* head is a sentinel node, and stays where List::new made it.  `items` is *)
(* what the callers have put in and not taken out; callers keep the safety *)
(* conditions of push_back and remove.                                     *)
(***************************************************************************)
EXTENDS Naturals, Sequences, SequencesExt

CONSTANTS Entries, Lists, Null

ASSUME ListAssumption == Entries \cap Lists = {} /\ Null \notin Entries \cup Lists

VARIABLES next, prev,       \* the links of every entry and sentinel
          items,            \* per list
          got, due          \* what the last pop_front or front returned, and should

lvars == <<next, prev, items, got, due>>

LInit ==
    /\ next = [n \in Entries \cup Lists |-> IF n \in Lists THEN n ELSE Null]
    /\ prev = next
    /\ items = [l \in Lists |-> <<>>]
    /\ got = Null /\ due = Null

IsLinked(e) == next[e] # Null
IsEmpty(l) == next[l] = l

-----------------------------------------------------------------------------
PushBack(l, e) ==
    LET tail == prev[l] IN
    /\ ~IsLinked(e)
    /\ prev' = [prev EXCEPT ![e] = tail, ![l] = e]
    /\ next' = [next EXCEPT ![e] = l, ![tail] = e]
    /\ items' = [items EXCEPT ![l] = Append(@, e)]
    /\ UNCHANGED <<got, due>>

PopFront(l) ==
    LET first == next[l]
        second == next[first]
    IN
    /\ ~IsEmpty(l)
    /\ next' = [next EXCEPT ![l] = second, ![first] = Null]
    /\ prev' = [prev EXCEPT ![second] = l, ![first] = Null]
    /\ got' = first
    /\ due' = Head(items[l])
    /\ items' = [items EXCEPT ![l] = Tail(@)]

\* front, and pop_front of an empty list, change nothing.
FrontOf(l) ==
    /\ got' = IF IsEmpty(l) THEN Null ELSE next[l]
    /\ due' = IF items[l] = <<>> THEN Null ELSE Head(items[l])
    /\ UNCHANGED <<next, prev, items>>

\* Mutant of RemoveEntry: the successor keeps its link to the removed entry.
RemoveForward(l, i) ==
    LET e == items[l][i] IN
    /\ next' = [next EXCEPT ![prev[e]] = next[e], ![e] = Null]
    /\ prev' = [prev EXCEPT ![e] = Null]
    /\ items' = [items EXCEPT ![l] = RemoveAt(@, i)]
    /\ UNCHANGED <<got, due>>

\* The caller names an entry of the list, here by its place.
RemoveEntry(l, i) ==
    LET e == items[l][i] IN
    /\ next' = [next EXCEPT ![prev[e]] = next[e], ![e] = Null]
    /\ prev' = [prev EXCEPT ![next[e]] = prev[e], ![e] = Null]
    /\ items' = [items EXCEPT ![l] = RemoveAt(@, i)]
    /\ UNCHANGED <<got, due>>

LNext ==
    \E l \in Lists :
        \/ PopFront(l) \/ FrontOf(l)
        \/ \E e \in Entries : PushBack(l, e)
        \/ \E i \in DOMAIN items[l] : RemoveEntry(l, i)

LSpec == LInit /\ [][LNext]_lvars

-----------------------------------------------------------------------------
\* Every list is a ring through its sentinel that holds, forwards and backwards,
\* what its callers put in, in that order; an entry in no list has null links, so
\* is_linked is right; and pop_front and front return the oldest entry.
ListExact ==
    /\ \A l \in Lists :
          LET ring == <<l>> \o items[l] \o <<l>> IN
          \A i \in 1 .. Len(ring) - 1 :
              next[ring[i]] = ring[i + 1] /\ prev[ring[i + 1]] = ring[i]
    /\ \A e \in Entries :
          (\A l \in Lists : ~Contains(items[l], e)) => next[e] = Null /\ prev[e] = Null
    /\ got = due
=============================================================================
