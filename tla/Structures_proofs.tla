-------------------------- MODULE Structures_proofs --------------------------
(***************************************************************************)
(* Proofs about three small parts, for any size of them: the intrusive     *)
(* lists are rings that hold what the callers put in, the try-only lock    *)
(* excludes, and the bounded mapper hands out ranges and pages that tile.  *)
(* None needs the others; the names of the modules do not meet.            *)
(***************************************************************************)
EXTENDS List, NoWaitLock, BoundedMapper, NaturalsInduction, WellFoundedInduction, TLAPS


-----------------------------------------------------------------------------
\* The nodes of the ring of list l that holds s: 0 and Len(s) + 1 are the sentinel.
Node(l, s, i) == IF i \in 1 .. Len(s) THEN s[i] ELSE l

LinkTypes ==
    /\ items \in [Lists -> Seq(Entries)]
    /\ next \in [Entries \cup Lists -> Entries \cup Lists \cup {Null}]
    /\ prev \in [Entries \cup Lists -> Entries \cup Lists \cup {Null}]

\* No entry is in two places.
Placed ==
    \A l, m \in Lists : \A i \in 1 .. Len(items[l]), j \in 1 .. Len(items[m]) :
        items[l][i] = items[m][j] => l = m /\ i = j

Rings ==
    \A l \in Lists : \A i \in 0 .. Len(items[l]) :
        /\ next[Node(l, items[l], i)] = Node(l, items[l], i + 1)
        /\ prev[Node(l, items[l], i + 1)] = Node(l, items[l], i)

Listed(e) == \E l \in Lists : \E i \in 1 .. Len(items[l]) : items[l][i] = e

Loose == \A e \in Entries : ~Listed(e) => next[e] = Null /\ prev[e] = Null

\* The inductive invariant of the lists.
ListInv == LinkTypes /\ Placed /\ Rings /\ Loose /\ got = due

\* The nodes of all rings are distinct.
LEMMA NodesDistinct ==
    ASSUME LinkTypes, Placed
    PROVE  /\ \A l \in Lists : items[l] \in Seq(Entries) /\ Len(items[l]) \in Nat
           /\ \A l \in Lists : \A i \in Nat : Node(l, items[l], i) \in Entries \cup Lists
           /\ \A l \in Lists : \A i \in 1 .. Len(items[l]) :
                 Node(l, items[l], i) = items[l][i] /\ items[l][i] \in Entries
           /\ \A l \in Lists : Node(l, items[l], 0) = l /\ Node(l, items[l], Len(items[l]) + 1) = l
           /\ \A l, m \in Lists : \A i \in 0 .. Len(items[l]), j \in 0 .. Len(items[m]) :
                 Node(l, items[l], i) = Node(m, items[m], j) => l = m /\ i = j
  <1>1. \A l \in Lists : items[l] \in Seq(Entries) /\ Len(items[l]) \in Nat
    BY DEF LinkTypes
  <1>2. \A l \in Lists : \A i \in 1 .. Len(items[l]) :
           Node(l, items[l], i) = items[l][i] /\ items[l][i] \in Entries
    BY <1>1 DEF Node
  <1>3. \A l \in Lists : Node(l, items[l], 0) = l /\ Node(l, items[l], Len(items[l]) + 1) = l
    BY <1>1 DEF Node
  <1>4. \A l \in Lists : \A i \in Nat : Node(l, items[l], i) \in Entries \cup Lists
    BY <1>1, <1>2 DEF Node
  <1>5. ASSUME NEW l \in Lists, NEW m \in Lists, NEW i \in 0 .. Len(items[l]),
               NEW j \in 0 .. Len(items[m]), Node(l, items[l], i) = Node(m, items[m], j)
        PROVE  l = m /\ i = j
    <2>1. CASE i = 0
      BY <2>1, <1>1, <1>2, <1>3, <1>5, ListAssumption
    <2>2. CASE j = 0
      BY <2>2, <1>1, <1>2, <1>3, <1>5, ListAssumption
    <2>3. CASE i # 0 /\ j # 0
      <3>1. i \in 1 .. Len(items[l]) /\ j \in 1 .. Len(items[m])
        BY <2>3, <1>1
      <3>. QED
        BY <3>1, <1>2, <1>5 DEF Placed
    <2>. QED
      BY <2>1, <2>2, <2>3
  <1>. QED
    BY <1>1, <1>2, <1>3, <1>4, <1>5

\* The ring of a new list is its sentinel.
LEMMA LInitInv == LInit => ListInv
  <1>. SUFFICES ASSUME LInit PROVE ListInv
    OBVIOUS
  <1>1. /\ <<>> \in Seq(Entries) /\ Len(<<>>) = 0
        /\ \A l \in Lists : items[l] = <<>> /\ next[l] = l /\ prev[l] = l
        /\ \A e \in Entries : next[e] = Null /\ prev[e] = Null
    BY ListAssumption DEF LInit
  <1>2. LinkTypes
    BY <1>1 DEF LInit, LinkTypes
  <1>3. Placed /\ Loose
    BY <1>1 DEF Placed, Loose
  <1>4. Rings
    BY <1>1 DEF Rings, Node
  <1>. QED
    BY <1>2, <1>3, <1>4 DEF ListInv, LInit

\* Taking entry k out of the ring of list l.
LEMMA Unlink ==
    ASSUME ListInv, NEW l \in Lists, NEW s, s = items[l], NEW k \in 1 .. Len(s),
           NEW t \in Seq(Entries), Len(t) = Len(s) - 1,
           \A m \in 1 .. Len(t) : t[m] = IF m < k THEN s[m] ELSE s[m + 1],
           items' = [items EXCEPT ![l] = t],
           next' = [next EXCEPT ![Node(l, s, k - 1)] = Node(l, s, k + 1), ![s[k]] = Null],
           prev' = [prev EXCEPT ![Node(l, s, k + 1)] = Node(l, s, k - 1), ![s[k]] = Null]
    PROVE  LinkTypes' /\ Placed' /\ Rings' /\ Loose'
  <1>. DEFINE n == Len(s)
              N(i) == Node(l, s, i)
  <1>inv. LinkTypes /\ Placed /\ Rings /\ Loose
    BY DEF ListInv
  <1>s. s \in Seq(Entries) /\ n \in Nat /\ k \in 1 .. n /\ n >= 1
    BY <1>inv DEF LinkTypes
  <1>d. /\ \A m \in Lists : items[m] \in Seq(Entries) /\ Len(items[m]) \in Nat
        /\ \A m \in Lists : \A i \in Nat : Node(m, items[m], i) \in Entries \cup Lists
        /\ \A m \in Lists : \A i \in 1 .. Len(items[m]) :
              Node(m, items[m], i) = items[m][i] /\ items[m][i] \in Entries
        /\ \A m \in Lists : Node(m, items[m], 0) = m /\ Node(m, items[m], Len(items[m]) + 1) = m
        /\ \A m, o \in Lists : \A i \in 0 .. Len(items[m]), j \in 0 .. Len(items[o]) :
              Node(m, items[m], i) = Node(o, items[o], j) => m = o /\ i = j
    BY <1>inv, NodesDistinct
  <1>n. /\ \A i \in Nat : N(i) \in Entries \cup Lists
        /\ \A i \in 1 .. n : N(i) = s[i] /\ s[i] \in Entries
        /\ N(0) = l /\ N(n + 1) = l
        /\ \A i, j \in 0 .. n : N(i) = N(j) => i = j
        /\ \A i \in 0 .. n : next[N(i)] = N(i + 1) /\ prev[N(i + 1)] = N(i)
    BY <1>d, <1>inv DEF Rings
  <1>t. /\ Len(t) = n - 1
        /\ \A i \in 0 .. n : Node(l, t, i) = IF i < k THEN N(i) ELSE N(i + 1)
    <2>1. ASSUME NEW i \in 0 .. n PROVE Node(l, t, i) = IF i < k THEN N(i) ELSE N(i + 1)
      <3>1. CASE i = 0 \/ i = n
        <4>1. Node(l, t, i) = l
          BY <3>1, <1>s DEF Node
        <4>. QED
          BY <4>1, <3>1, <1>s, <1>n
      <3>2. CASE i \in 1 .. n - 1
        <4>1. Node(l, t, i) = t[i]
          BY <3>2, <1>s DEF Node
        <4>2. i \in 1 .. Len(t) /\ i \in 1 .. n /\ i + 1 \in 1 .. n
          BY <3>2, <1>s
        <4>. QED
          BY <4>1, <4>2, <1>n
      <3>. QED
        BY <3>1, <3>2, <1>s
    <2>. QED
      BY <2>1
  <1>i. items'[l] = t /\ \A m \in Lists \ {l} : items'[m] = items[m]
    BY <1>inv DEF LinkTypes
  <1>k. /\ k - 1 \in 0 .. n /\ k + 1 \in 1 .. n + 1 /\ N(k) = s[k] /\ s[k] \in Entries
        /\ N(k - 1) \in Entries \cup Lists /\ N(k + 1) \in Entries \cup Lists
        /\ N(k - 1) # s[k] /\ N(k + 1) # s[k]
    <2>1. k - 1 \in 0 .. n /\ k + 1 \in 1 .. n + 1 /\ k \in 1 .. n /\ k - 1 \in Nat /\ k + 1 \in Nat
      BY <1>s
    <2>2. N(k) = s[k] /\ s[k] \in Entries /\ N(k - 1) # N(k)
      BY <2>1, <1>n
    <2>3. N(k + 1) # N(k)
      <3>1. CASE k = n
        BY <3>1, <2>2, <1>n, ListAssumption
      <3>2. CASE k # n
        <4>1. k + 1 \in 0 .. n
          BY <3>2, <1>s
        <4>. QED
          BY <4>1, <2>1, <1>n
      <3>. QED
        BY <3>1, <3>2
    <2>. QED
      BY <2>1, <2>2, <2>3, <1>n
  <1>. HIDE DEF N, n
  <1>a. /\ next'[N(k - 1)] = N(k + 1) /\ next'[s[k]] = Null
        /\ prev'[N(k + 1)] = N(k - 1) /\ prev'[s[k]] = Null
        /\ \A x \in Entries \cup Lists : x # N(k - 1) /\ x # s[k] => next'[x] = next[x]
        /\ \A x \in Entries \cup Lists : x # N(k + 1) /\ x # s[k] => prev'[x] = prev[x]
    BY <1>inv, <1>k DEF LinkTypes, N
  <1>1. LinkTypes'
    BY <1>inv, <1>k, Zenon DEF LinkTypes, N
  <1>2. Placed'
    <2>1. \A m \in Lists : \A i \in 1 .. Len(items'[m]) : \E j \in 1 .. Len(items[m]) :
             /\ items'[m][i] = items[m][j]
             /\ j = IF m = l /\ i >= k THEN i + 1 ELSE i
      <3>1. ASSUME NEW i \in 1 .. Len(t)
            PROVE  \E j \in 1 .. Len(s) : t[i] = s[j] /\ j = IF i >= k THEN i + 1 ELSE i
        BY <1>s DEF n
      <3>. QED
        BY <3>1, <1>i
    <2>2. ASSUME NEW m \in Lists, NEW o \in Lists, NEW i \in 1 .. Len(items'[m]),
                 NEW j \in 1 .. Len(items'[o]), items'[m][i] = items'[o][j]
          PROVE  m = o /\ i = j
      <3>1. PICK a \in 1 .. Len(items[m]) : /\ items'[m][i] = items[m][a]
                                            /\ a = IF m = l /\ i >= k THEN i + 1 ELSE i
        BY <2>1
      <3>2. PICK b \in 1 .. Len(items[o]) : /\ items'[o][j] = items[o][b]
                                            /\ b = IF o = l /\ j >= k THEN j + 1 ELSE j
        BY <2>1
      <3>3. m = o /\ a = b
        BY <3>1, <3>2, <2>2, <1>inv DEF Placed
      <3>4. i \in Nat /\ j \in Nat
        BY <1>i, <1>d
      <3>. QED
        BY <3>1, <3>2, <3>3, <3>4
    <2>. QED
      BY <2>2 DEF Placed
  <1>3. Rings'
    <2>1. ASSUME NEW m \in Lists, m # l, NEW i \in 0 .. Len(items[m])
          PROVE  /\ next'[Node(m, items[m], i)] = Node(m, items[m], i + 1)
                 /\ prev'[Node(m, items[m], i + 1)] = Node(m, items[m], i)
      <3>1. \A j \in 0 .. Len(items[m]) : \A h \in 0 .. n : Node(m, items[m], j) # N(h)
        BY <2>1, <1>d, Zenon DEF N, n
      <3>2. \A j \in 0 .. Len(items[m]) + 1 :
               /\ Node(m, items[m], j) \in Entries \cup Lists
               /\ Node(m, items[m], j) # s[k] /\ Node(m, items[m], j) # N(k - 1)
               /\ Node(m, items[m], j) # N(k + 1)
        <4>1. \A j \in 0 .. Len(items[m]) :
                 /\ Node(m, items[m], j) \in Entries \cup Lists
                 /\ Node(m, items[m], j) # s[k] /\ Node(m, items[m], j) # N(k - 1)
                 /\ Node(m, items[m], j) # N(k + 1)
          <5>1. CASE k = n
            <6>1. N(k + 1) = N(0) /\ 0 \in 0 .. n /\ k - 1 \in 0 .. n /\ k \in 0 .. n
              BY <5>1, <1>n, <1>s
            <6>. QED
              BY <6>1, <3>1, <1>d, <1>k
          <5>2. CASE k # n
            <6>1. k + 1 \in 0 .. n /\ k - 1 \in 0 .. n /\ k \in 0 .. n
              BY <5>2, <1>s
            <6>. QED
              BY <6>1, <3>1, <1>d, <1>k
          <5>. QED
            BY <5>1, <5>2
        <4>2. Node(m, items[m], Len(items[m]) + 1) = Node(m, items[m], 0) /\ 0 \in 0 .. Len(items[m])
          BY <1>d
        <4>3. \A j \in 0 .. Len(items[m]) + 1 : j \in 0 .. Len(items[m]) \/ j = Len(items[m]) + 1
          <5>1. Len(items[m]) \in Nat
            BY <1>d
          <5>2. \A p \in Nat : \A j \in 0 .. p + 1 : j \in 0 .. p \/ j = p + 1
            OBVIOUS
          <5>. QED
            BY <5>1, <5>2, Zenon
        <4>. QED
          BY <4>1, <4>2, <4>3
      <3>3. i \in 0 .. Len(items[m]) + 1 /\ i + 1 \in 0 .. Len(items[m]) + 1
        BY <1>d
      <3>4. /\ next[Node(m, items[m], i)] = Node(m, items[m], i + 1)
            /\ prev[Node(m, items[m], i + 1)] = Node(m, items[m], i)
        BY <1>inv DEF Rings
      <3>. QED
        BY <3>2, <3>3, <3>4, <1>a, Zenon
    <2>2. ASSUME NEW i \in 0 .. Len(t)
          PROVE  /\ next'[Node(l, t, i)] = Node(l, t, i + 1)
                 /\ prev'[Node(l, t, i + 1)] = Node(l, t, i)
      <3>1. /\ i \in 0 .. n - 1 /\ i \in 0 .. n /\ i + 1 \in 0 .. n /\ i \in Nat /\ k \in Nat
            /\ n \in Nat
        BY <1>t, <1>s
      <3>2. /\ Node(l, t, i) = IF i < k THEN N(i) ELSE N(i + 1)
            /\ Node(l, t, i + 1) = IF i + 1 < k THEN N(i + 1) ELSE N((i + 1) + 1)
        BY <3>1, <1>t
      <3>3. CASE i + 1 = k
        BY <3>1, <3>2, <3>3, <1>a
      <3>4. CASE i + 1 < k
        <4>1. /\ Node(l, t, i) = N(i) /\ Node(l, t, i + 1) = N(i + 1)
              /\ i \in 0 .. n /\ i + 1 \in 0 .. n /\ i + 1 \in 1 .. n /\ i # k - 1 /\ i # k
              /\ i + 1 # k /\ k \in 0 .. n
          BY <3>1, <3>2, <3>4, <1>s
        <4>2. N(i) # N(k - 1) /\ N(i) # N(k) /\ N(i + 1) # N(k)
          BY <4>1, <1>n, <1>k
        <4>3. N(i + 1) # N(k + 1)
          <5>1. CASE k = n
            BY <5>1, <4>1, <1>n, ListAssumption
          <5>2. CASE k # n
            <6>1. k + 1 \in 0 .. n /\ i + 1 # k + 1
              BY <5>2, <3>4, <3>1, <1>s
            <6>. QED
              BY <6>1, <4>1, <1>n
          <5>. QED
            BY <5>1, <5>2
        <4>4. N(i) \in Entries \cup Lists /\ N(i + 1) \in Entries \cup Lists
          BY <3>1, <1>n
        <4>. QED
          BY <4>1, <4>2, <4>3, <4>4, <1>a, <1>k, <1>n, Zenon
      <3>5. CASE i >= k
        <4>1. /\ Node(l, t, i) = N(i + 1) /\ Node(l, t, i + 1) = N((i + 1) + 1)
              /\ i + 1 \in 0 .. n /\ i + 1 \in 1 .. n /\ (i + 1) + 1 \in Nat /\ i + 1 \in Nat
              /\ i + 1 # k - 1 /\ i + 1 # k /\ k \in 0 .. n
          BY <3>1, <3>2, <3>5, <1>s
        <4>2. N(i + 1) # N(k - 1) /\ N(i + 1) # N(k)
          BY <4>1, <1>n, <1>k
        <4>3. N((i + 1) + 1) # N(k + 1) /\ N((i + 1) + 1) # N(k)
          <5>0. k + 1 \in 1 .. n /\ k + 1 \in 0 .. n
            BY <3>1, <3>5, <1>s
          <5>1. CASE i + 1 = n
            <6>1. N((i + 1) + 1) = l
              BY <5>1, <1>n
            <6>2. N(k + 1) \in Entries /\ N(k) \in Entries
              BY <5>0, <1>n, <1>k
            <6>. QED
              BY <6>1, <6>2, ListAssumption
          <5>2. CASE i + 1 # n
            <6>1. (i + 1) + 1 \in 0 .. n /\ (i + 1) + 1 # k + 1 /\ (i + 1) + 1 # k
              BY <5>2, <3>5, <3>1, <1>s
            <6>. QED
              BY <6>1, <5>0, <4>1, <1>n
          <5>. QED
            BY <5>1, <5>2
        <4>4. N(i + 1) \in Entries \cup Lists /\ N((i + 1) + 1) \in Entries \cup Lists
          BY <4>1, <1>n
        <4>5. next[N(i + 1)] = N((i + 1) + 1) /\ prev[N((i + 1) + 1)] = N(i + 1)
          BY <4>1, <1>n
        <4>. QED
          BY <4>1, <4>2, <4>3, <4>4, <4>5, <1>a, <1>k, Zenon
      <3>. QED
        BY <3>1, <3>3, <3>4, <3>5
    <2>. SUFFICES ASSUME NEW m \in Lists, NEW i \in 0 .. Len(items'[m])
                  PROVE  /\ next'[Node(m, items'[m], i)] = Node(m, items'[m], i + 1)
                         /\ prev'[Node(m, items'[m], i + 1)] = Node(m, items'[m], i)
      BY Zenon DEF Rings, Node
    <2>3. CASE m = l
      BY <2>3, <2>2, <1>i, Zenon
    <2>4. CASE m # l
      <3>1. items'[m] = items[m]
        BY <2>4, <1>i, Zenon
      <3>. QED
        BY <3>1, <2>4, <2>1, Zenon
    <2>. QED
      BY <2>3, <2>4
  <1>4. Loose'
    <2>. SUFFICES ASSUME NEW e \in Entries, ~Listed(e)' PROVE next'[e] = Null /\ prev'[e] = Null
      BY Zenon DEF Loose
    <2>1. CASE e = s[k]
      BY <2>1, <1>a
    <2>2. CASE e # s[k]
      <3>1. \A m \in Lists : \A i \in 1 .. Len(items[m]) : items[m][i] # e
        <4>1. ASSUME NEW i \in 1 .. n, s[i] = e PROVE FALSE
          <5>1. CASE i < k
            <6>1. i \in 1 .. Len(t) /\ t[i] = s[i]
              BY <5>1, <1>s, <1>t
            <6>. QED
              BY <6>1, <4>1, <1>i DEF Listed
          <5>2. CASE i > k
            <6>1. i - 1 \in 1 .. Len(t) /\ ~(i - 1 < k) /\ (i - 1) + 1 = i
              BY <5>2, <1>s, <1>t
            <6>2. t[i - 1] = s[i]
              BY <6>1
            <6>. QED
              BY <6>1, <6>2, <4>1, <1>i DEF Listed
          <5>. QED
            BY <5>1, <5>2, <4>1, <2>2, <1>s
        <4>. QED
          BY <4>1, <1>i DEF Listed, n
      <3>2. next[e] = Null /\ prev[e] = Null
        BY <3>1, <1>inv DEF Loose, Listed
      <3>3. \A i \in 0 .. n + 1 : N(i) # e
        BY <3>1, ListAssumption DEF N, Node, n
      <3>4. N(k - 1) # e /\ N(k + 1) # e
        <4>1. k - 1 \in 0 .. n + 1 /\ k + 1 \in 0 .. n + 1
          BY <1>s
        <4>. QED
          BY <4>1, <3>3
      <3>. QED
        BY <3>2, <3>4, <2>2, <1>a, Zenon
    <2>. QED
      BY <2>1, <2>2
  <1>. QED
    BY <1>1, <1>2, <1>3, <1>4

\* push_back puts a new node between the last one and the sentinel.
LEMMA PushBackStep ==
    ASSUME ListInv, NEW l \in Lists, NEW e \in Entries, PushBack(l, e)
    PROVE  ListInv'
  <1>inv. LinkTypes /\ Placed /\ Rings /\ Loose /\ got = due
    BY DEF ListInv
  <1>d. /\ \A m \in Lists : items[m] \in Seq(Entries) /\ Len(items[m]) \in Nat
        /\ \A m \in Lists : \A i \in Nat : Node(m, items[m], i) \in Entries \cup Lists
        /\ \A m \in Lists : \A i \in 1 .. Len(items[m]) :
              Node(m, items[m], i) = items[m][i] /\ items[m][i] \in Entries
        /\ \A m \in Lists : Node(m, items[m], 0) = m /\ Node(m, items[m], Len(items[m]) + 1) = m
        /\ \A m, o \in Lists : \A i \in 0 .. Len(items[m]), j \in 0 .. Len(items[o]) :
              Node(m, items[m], i) = Node(o, items[o], j) => m = o /\ i = j
    BY <1>inv, NodesDistinct
  <1>e. \A m \in Lists : \A i \in 1 .. Len(items[m]) : items[m][i] # e
    <2>. SUFFICES ASSUME NEW m \in Lists, NEW i \in 1 .. Len(items[m]), items[m][i] = e PROVE FALSE
      OBVIOUS
    <2>1. i \in 0 .. Len(items[m]) /\ i + 1 \in Nat
      BY <1>d
    <2>2. next[e] = Node(m, items[m], i + 1)
      BY <2>1, <1>d, <1>inv DEF Rings
    <2>3. next[e] \in Entries \cup Lists
      BY <2>1, <2>2, <1>d
    <2>. QED
      BY <2>3, ListAssumption DEF PushBack, IsLinked
  <1>. PICK s, n, tail, t : s = items[l] /\ n = Len(s) /\ tail = Node(l, s, n) /\ t = Append(s, e)
    BY Zenon
  <1>n. /\ s \in Seq(Entries) /\ n \in Nat
        /\ tail \in Entries \cup Lists /\ tail # e /\ tail = prev[l] /\ l # e /\ l \in Entries \cup Lists
    <2>1. s \in Seq(Entries) /\ n \in Nat /\ n \in 0 .. n
      BY <1>d
    <2>2. tail \in Entries \cup Lists /\ tail = prev[l]
      BY <2>1, <1>d, <1>inv DEF Rings
    <2>3. tail # e
      BY <2>1, <1>e, ListAssumption DEF Node
    <2>. QED
      BY <2>1, <2>2, <2>3, ListAssumption
  <1>t. /\ t \in Seq(Entries) /\ Len(t) = n + 1 /\ t[n + 1] = e
        /\ \A i \in 1 .. n : t[i] = s[i]
    BY <1>n
  <1>i. items'[l] = t /\ \A m \in Lists \ {l} : items'[m] = items[m]
    BY <1>inv DEF LinkTypes, PushBack
  <1>a. /\ next'[e] = l /\ next'[tail] = e /\ prev'[e] = tail /\ prev'[l] = e
        /\ \A x \in Entries \cup Lists : x # tail /\ x # e => next'[x] = next[x]
        /\ \A x \in Entries \cup Lists : x # l /\ x # e => prev'[x] = prev[x]
    BY <1>inv, <1>n DEF LinkTypes, PushBack
  <1>1. LinkTypes'
    BY <1>inv, <1>n, <1>t, Zenon DEF LinkTypes, PushBack
  <1>2. Placed'
    <2>0. SUFFICES ASSUME NEW m \in Lists, NEW o \in Lists, NEW i \in 1 .. Len(items'[m]),
                          NEW j \in 1 .. Len(items'[o]), items'[m][i] = items'[o][j]
                   PROVE  m = o /\ i = j
      BY DEF Placed
    <2>1. \A h \in Lists : \A k \in 1 .. Len(items'[h]) :
             IF h = l /\ k = n + 1 THEN items'[h][k] = e
             ELSE k \in 1 .. Len(items[h]) /\ items'[h][k] = items[h][k]
      <3>1. \A k \in 1 .. Len(t) : IF k = n + 1 THEN t[k] = e ELSE k \in 1 .. n /\ t[k] = s[k]
        BY <1>t, <1>n
      <3>2. \A h \in Lists \ {l} : \A k \in 1 .. Len(items'[h]) :
               k \in 1 .. Len(items[h]) /\ items'[h][k] = items[h][k]
        BY <1>i
      <3>. QED
        BY <3>1, <3>2, <1>i, Zenon
    <2>2. CASE (m = l /\ i = n + 1) \/ (o = l /\ j = n + 1)
      <3>1. (m = l /\ i = n + 1) /\ ~(o = l /\ j = n + 1) => FALSE
        <4>1. SUFFICES ASSUME m = l /\ i = n + 1, ~(o = l /\ j = n + 1) PROVE FALSE
          OBVIOUS
        <4>2. items'[m][i] = e
          BY <4>1, <2>1, Zenon
        <4>3. j \in 1 .. Len(items[o]) /\ items'[o][j] = items[o][j]
          BY <4>1, <2>1, Zenon
        <4>. QED
          BY <4>2, <4>3, <2>0, <1>e, Zenon
      <3>2. (o = l /\ j = n + 1) /\ ~(m = l /\ i = n + 1) => FALSE
        <4>1. SUFFICES ASSUME o = l /\ j = n + 1, ~(m = l /\ i = n + 1) PROVE FALSE
          OBVIOUS
        <4>2. items'[o][j] = e
          BY <4>1, <2>1, Zenon
        <4>3. i \in 1 .. Len(items[m]) /\ items'[m][i] = items[m][i]
          BY <4>1, <2>1, Zenon
        <4>. QED
          BY <4>2, <4>3, <2>0, <1>e, Zenon
      <3>. QED
        BY <3>1, <3>2, <2>2, Zenon
    <2>3. CASE ~(m = l /\ i = n + 1) /\ ~(o = l /\ j = n + 1)
      <3>1. /\ i \in 1 .. Len(items[m]) /\ items'[m][i] = items[m][i]
            /\ j \in 1 .. Len(items[o]) /\ items'[o][j] = items[o][j]
        BY <2>1, <2>3, Zenon
      <3>2. items[m][i] = items[o][j]
        BY <3>1, <2>0, Zenon
      <3>3. Placed
        BY <1>inv
      <3>. QED
        BY <3>1, <3>2, <3>3 DEF Placed
    <2>. QED
      BY <2>2, <2>3
  <1>3. Rings'
    <2>1. ASSUME NEW m \in Lists, m # l, NEW i \in 0 .. Len(items[m])
          PROVE  /\ next'[Node(m, items[m], i)] = Node(m, items[m], i + 1)
                 /\ prev'[Node(m, items[m], i + 1)] = Node(m, items[m], i)
      <3>0. n \in 0 .. n /\ 0 \in 0 .. n /\ 0 \in 0 .. Len(items[m]) /\ Len(items[m]) \in Nat
        BY <1>n, <1>d
      <3>1. \A j \in 0 .. Len(items[m]) :
               /\ Node(m, items[m], j) \in Entries \cup Lists
               /\ Node(m, items[m], j) # tail /\ Node(m, items[m], j) # l
               /\ Node(m, items[m], j) # e
        <4>1. ASSUME NEW j \in 0 .. Len(items[m])
              PROVE  Node(m, items[m], j) # tail /\ Node(m, items[m], j) # l
          <5>1. Len(items[l]) \in 0 .. Len(items[l]) /\ 0 \in 0 .. Len(items[l])
            BY <3>0
          <5>2. /\ Node(m, items[m], j) # Node(l, items[l], Len(items[l]))
                /\ Node(m, items[m], j) # Node(l, items[l], 0)
            BY <5>1, <2>1, <1>d, Zenon
          <5>. QED
            BY <5>2, <1>d, Zenon
        <4>2. \A j \in 0 .. Len(items[m]) : Node(m, items[m], j) # e
          BY <1>e, ListAssumption DEF Node
        <4>. QED
          BY <4>1, <4>2, <1>d
      <3>2. i + 1 \in 0 .. Len(items[m]) \/ Node(m, items[m], i + 1) = Node(m, items[m], 0)
        <4>1. i + 1 \in 0 .. Len(items[m]) \/ i + 1 = Len(items[m]) + 1
          BY <3>0
        <4>. QED
          BY <4>1, <1>d
      <3>3. /\ next[Node(m, items[m], i)] = Node(m, items[m], i + 1)
            /\ prev[Node(m, items[m], i + 1)] = Node(m, items[m], i)
        BY <1>inv DEF Rings
      <3>. QED
        BY <3>0, <3>1, <3>2, <3>3, <1>a
    <2>2. ASSUME NEW i \in 0 .. Len(t)
          PROVE  /\ next'[Node(l, t, i)] = Node(l, t, i + 1)
                 /\ prev'[Node(l, t, i + 1)] = Node(l, t, i)
      <3>0. i \in 0 .. n + 1 /\ i \in Nat
        BY <1>t, <1>n
      <3>1. \A j \in 0 .. n : Node(l, t, j) = Node(l, s, j)
        BY <1>t, <1>n DEF Node
      <3>2. Node(l, t, n + 1) = e /\ Node(l, t, (n + 1) + 1) = l
        BY <1>t, <1>n DEF Node
      <3>3. CASE i < n
        <4>1. i \in 0 .. n /\ i + 1 \in 0 .. n /\ i # n /\ n \in 0 .. n /\ 0 \in 0 .. n /\ i + 1 # 0
          BY <3>3, <3>0, <1>n
        <4>2. Node(l, t, i) = Node(l, s, i) /\ Node(l, t, i + 1) = Node(l, s, i + 1)
          BY <4>1, <3>1
        <4>3. /\ Node(l, s, i) # tail /\ Node(l, s, i) # e
              /\ Node(l, s, i + 1) # l /\ Node(l, s, i + 1) # e
          <5>1. Node(l, s, i) # tail /\ Node(l, s, i + 1) # l
            BY <4>1, <1>d
          <5>2. \A j \in Nat : Node(l, s, j) # e
            BY <1>e, ListAssumption DEF Node
          <5>. QED
            BY <5>1, <5>2, <3>0
        <4>4. /\ Node(l, s, i) \in Entries \cup Lists /\ Node(l, s, i + 1) \in Entries \cup Lists
          BY <3>0, <1>d
        <4>5. next[Node(l, s, i)] = Node(l, s, i + 1) /\ prev[Node(l, s, i + 1)] = Node(l, s, i)
          BY <4>1, <1>inv DEF Rings
        <4>. QED
          BY <4>2, <4>3, <4>4, <4>5, <1>a
      <3>4. CASE i = n
        <4>0. n \in 0 .. n
          BY <1>n
        <4>1. Node(l, t, i) = tail /\ Node(l, t, i + 1) = e
          BY <4>0, <3>4, <3>1, <3>2
        <4>. QED
          BY <4>1, <1>a
      <3>5. CASE i = n + 1
        BY <3>5, <3>2, <1>a
      <3>. QED
        BY <3>0, <3>3, <3>4, <3>5, <1>n
    <2>. SUFFICES ASSUME NEW m \in Lists, NEW i \in 0 .. Len(items'[m])
                  PROVE  /\ next'[Node(m, items'[m], i)] = Node(m, items'[m], i + 1)
                         /\ prev'[Node(m, items'[m], i + 1)] = Node(m, items'[m], i)
      BY DEF Rings, Node
    <2>3. CASE m = l
      BY <2>3, <2>2, <1>i
    <2>4. CASE m # l
      BY <2>4, <2>1, <1>i
    <2>. QED
      BY <2>3, <2>4
  <1>4. Loose'
    <2>. SUFFICES ASSUME NEW x \in Entries, ~Listed(x)' PROVE next'[x] = Null /\ prev'[x] = Null
      BY DEF Loose
    <2>1. x # e
      <3>1. n + 1 \in 1 .. Len(t)
        BY <1>n, <1>t
      <3>. QED
        BY <3>1, <1>t, <1>i DEF Listed
    <2>2. \A m \in Lists : \A i \in 1 .. Len(items[m]) : items[m][i] # x
      <3>1. \A i \in 1 .. n : i \in 1 .. Len(t) /\ t[i] = s[i]
        BY <1>n, <1>t
      <3>. QED
        BY <3>1, <1>i DEF Listed
    <2>3. next[x] = Null /\ prev[x] = Null
      BY <2>2, <1>inv DEF Loose, Listed
    <2>4. x # tail /\ x # l
      BY <2>2, <1>n, ListAssumption DEF Node
    <2>. QED
      BY <2>1, <2>3, <2>4, <1>a
  <1>. QED
    BY <1>1, <1>2, <1>3, <1>4, <1>inv DEF ListInv, PushBack

\* pop_front takes out the first entry, and returns it.
LEMMA PopFrontStep ==
    ASSUME ListInv, NEW l \in Lists, PopFront(l)
    PROVE  ListInv'
  <1>inv. LinkTypes /\ Placed /\ Rings /\ Loose /\ got = due
    BY DEF ListInv
  <1>. PICK s : s = items[l]
    OBVIOUS
  <1>1. s \in Seq(Entries) /\ Len(s) \in Nat
    BY <1>inv DEF LinkTypes
  <1>2. next[l] = Node(l, s, 1) /\ Node(l, s, 0) = l
    <2>1. 0 \in 0 .. Len(s) /\ 0 + 1 = 1
      BY <1>1
    <2>2. Node(l, s, 0) = l
      BY DEF Node
    <2>3. next[Node(l, s, 0)] = Node(l, s, 0 + 1)
      BY <2>1, <1>inv DEF Rings
    <2>. QED
      BY <2>1, <2>2, <2>3
  <1>3. 1 \in 1 .. Len(s) /\ next[l] = s[1]
    <2>1. Node(l, s, 1) # l
      BY <1>2 DEF PopFront, IsEmpty
    <2>. QED
      BY <2>1, <1>2 DEF Node
  <1>4. next[s[1]] = Node(l, s, 2)
    <2>1. 1 \in 0 .. Len(s) /\ 1 + 1 = 2
      BY <1>1, <1>3
    <2>2. next[Node(l, s, 1)] = Node(l, s, 1 + 1)
      BY <2>1, <1>inv DEF Rings
    <2>. QED
      BY <2>1, <2>2, <1>2, <1>3
  <1>5. /\ Tail(s) \in Seq(Entries) /\ Len(Tail(s)) = Len(s) - 1 /\ Head(s) = s[1]
        /\ \A m \in 1 .. Len(Tail(s)) : Tail(s)[m] = IF m < 1 THEN s[m] ELSE s[m + 1]
    BY <1>1, <1>3
  <1>6. /\ items' = [items EXCEPT ![l] = Tail(s)]
        /\ next' = [next EXCEPT ![Node(l, s, 1 - 1)] = Node(l, s, 1 + 1), ![s[1]] = Null]
        /\ prev' = [prev EXCEPT ![Node(l, s, 1 + 1)] = Node(l, s, 1 - 1), ![s[1]] = Null]
    <2>1. 1 - 1 = 0 /\ 1 + 1 = 2
      OBVIOUS
    <2>. QED
      BY <2>1, <1>2, <1>3, <1>4, Zenon DEF PopFront
  <1>7. LinkTypes' /\ Placed' /\ Rings' /\ Loose'
    BY <1>3, <1>5, <1>6, Unlink, Zenon
  <1>8. got' = due'
    BY <1>3, <1>5 DEF PopFront
  <1>. QED
    BY <1>7, <1>8 DEF ListInv

\* What is left of a sequence without its k-th element.
LEMMA RemovedAt ==
    ASSUME NEW S, NEW s \in Seq(S), NEW k \in 1 .. Len(s)
    PROVE  /\ RemoveAt(s, k) \in Seq(S) /\ Len(RemoveAt(s, k)) = Len(s) - 1
           /\ \A m \in 1 .. Len(RemoveAt(s, k)) :
                 RemoveAt(s, k)[m] = IF m < k THEN s[m] ELSE s[m + 1]
  <1>. DEFINE A == SubSeq(s, 1, k - 1)
              B == SubSeq(s, k + 1, Len(s))
  <1>1. A \in Seq(S) /\ Len(A) = k - 1 /\ \A m \in 1 .. k - 1 : A[m] = s[m]
    OBVIOUS
  <1>2. B \in Seq(S) /\ Len(B) = Len(s) - k /\ \A m \in 1 .. Len(s) - k : B[m] = s[m + k]
    OBVIOUS
  <1>3. RemoveAt(s, k) = A \o B
    BY DEF RemoveAt
  <1>. HIDE DEF A, B
  <1>4. A \in Seq(S) /\ B \in Seq(S) /\ Len(s) \in Nat
    BY <1>1, <1>2
  <1>5. /\ A \o B \in Seq(S) /\ Len(A \o B) = Len(A) + Len(B)
        /\ \A m \in 1 .. Len(A) + Len(B) : (A \o B)[m] = IF m <= Len(A) THEN A[m] ELSE B[m - Len(A)]
    BY <1>4
  <1>6. ASSUME NEW m \in 1 .. Len(A) + Len(B)
        PROVE  (A \o B)[m] = IF m < k THEN s[m] ELSE s[m + 1]
    <2>1. m < k <=> m <= Len(A)
      BY <1>1
    <2>2. CASE m < k
      BY <2>1, <2>2, <1>1, <1>5
    <2>3. CASE ~(m < k)
      <3>1. m - Len(A) \in 1 .. Len(s) - k /\ (m - Len(A)) + k = m + 1
        BY <2>3, <1>1, <1>2
      <3>. QED
        BY <2>1, <2>3, <3>1, <1>2, <1>5
    <2>. QED
      BY <2>2, <2>3
  <1>. QED
    BY <1>1, <1>2, <1>3, <1>5, <1>6

\* remove takes out an entry of the list, wherever it is in it.
LEMMA RemoveEntryStep ==
    ASSUME ListInv, NEW l \in Lists, NEW k \in DOMAIN items[l], RemoveEntry(l, k)
    PROVE  ListInv'
  <1>inv. LinkTypes /\ Placed /\ Rings /\ Loose /\ got = due
    BY DEF ListInv
  <1>. PICK s : s = items[l]
    OBVIOUS
  <1>1. s \in Seq(Entries) /\ Len(s) \in Nat /\ k \in 1 .. Len(s)
    BY <1>inv DEF LinkTypes
  <1>2. k - 1 \in 0 .. Len(s) /\ k \in 0 .. Len(s) /\ (k - 1) + 1 = k
    BY <1>1
  <1>3. Node(l, s, k) = s[k]
    BY <1>1 DEF Node
  <1>4. next[s[k]] = Node(l, s, k + 1) /\ prev[s[k]] = Node(l, s, k - 1)
    <2>1. next[Node(l, s, k)] = Node(l, s, k + 1)
      BY <1>2, <1>inv DEF Rings
    <2>2. prev[Node(l, s, (k - 1) + 1)] = Node(l, s, k - 1)
      BY <1>2, <1>inv DEF Rings
    <2>. QED
      BY <2>1, <2>2, <1>2, <1>3
  <1>5. /\ items' = [items EXCEPT ![l] = RemoveAt(s, k)]
        /\ next' = [next EXCEPT ![Node(l, s, k - 1)] = Node(l, s, k + 1), ![s[k]] = Null]
        /\ prev' = [prev EXCEPT ![Node(l, s, k + 1)] = Node(l, s, k - 1), ![s[k]] = Null]
    BY <1>4 DEF RemoveEntry
  <1>6. /\ RemoveAt(s, k) \in Seq(Entries) /\ Len(RemoveAt(s, k)) = Len(s) - 1
        /\ \A m \in 1 .. Len(RemoveAt(s, k)) :
              RemoveAt(s, k)[m] = IF m < k THEN s[m] ELSE s[m + 1]
    BY <1>1, RemovedAt, Zenon
  <1>7. LinkTypes' /\ Placed' /\ Rings' /\ Loose'
    BY <1>1, <1>5, <1>6, Unlink, Zenon
  <1>. QED
    BY <1>7, <1>inv DEF ListInv, RemoveEntry

\* front, and pop_front of an empty list.
LEMMA FrontOfStep ==
    ASSUME ListInv, NEW l \in Lists, FrontOf(l)
    PROVE  ListInv'
  <1>inv. LinkTypes /\ Placed /\ Rings /\ Loose /\ got = due
    BY DEF ListInv
  <1>. PICK s : s = items[l]
    OBVIOUS
  <1>1. s \in Seq(Entries) /\ Len(s) \in Nat
    BY <1>inv DEF LinkTypes
  <1>2. next[l] = Node(l, s, 1)
    <2>1. 0 \in 0 .. Len(s) /\ 0 + 1 = 1
      BY <1>1
    <2>2. Node(l, s, 0) = l
      BY DEF Node
    <2>3. next[Node(l, s, 0)] = Node(l, s, 0 + 1)
      BY <2>1, <1>inv DEF Rings
    <2>. QED
      BY <2>1, <2>2, <2>3
  <1>3. got' = due'
    <2>1. CASE s = <<>>
      <3>1. next[l] = l
        BY <2>1, <1>2 DEF Node
      <3>. QED
        BY <3>1, <2>1 DEF FrontOf, IsEmpty
    <2>2. CASE s # <<>>
      <3>1. 1 \in 1 .. Len(s) /\ Head(s) = s[1] /\ s[1] \in Entries
        BY <2>2, <1>1
      <3>2. next[l] = s[1] /\ s[1] # l
        BY <3>1, <1>2, ListAssumption DEF Node
      <3>. QED
        BY <3>1, <3>2, <2>2 DEF FrontOf, IsEmpty
    <2>. QED
      BY <2>1, <2>2
  <1>4. LinkTypes' /\ Placed' /\ Rings' /\ Loose'
    BY <1>inv DEF FrontOf, LinkTypes, Placed, Rings, Loose, Listed
  <1>. QED
    BY <1>3, <1>4 DEF ListInv

\* Every operation on any of the lists keeps all of them rings.
LEMMA LNextInv == ListInv /\ [LNext]_lvars => ListInv'
  <1>. SUFFICES ASSUME ListInv, [LNext]_lvars PROVE ListInv'
    OBVIOUS
  <1>1. CASE LNext
    BY <1>1, PopFrontStep, FrontOfStep, PushBackStep, RemoveEntryStep DEF LNext
  <1>2. CASE UNCHANGED lvars
    BY <1>2 DEF lvars, ListInv, LinkTypes, Placed, Rings, Loose, Listed
  <1>. QED
    BY <1>1, <1>2

\* Every list is, forwards and backwards, what its callers put in, in that order; an
\* entry in no list has null links; pop_front and front return the oldest entry.
THEOREM ListAlwaysExact == LSpec => []ListExact
  <1>1. ListInv => ListExact
    <2>. SUFFICES ASSUME ListInv PROVE ListExact
      OBVIOUS
    <2>inv. LinkTypes /\ Placed /\ Rings /\ Loose /\ got = due
      BY DEF ListInv
    <2>1. ASSUME NEW l \in Lists
          PROVE  \A i \in 1 .. Len(<<l>> \o items[l] \o <<l>>) - 1 :
                    /\ next[(<<l>> \o items[l] \o <<l>>)[i]] = (<<l>> \o items[l] \o <<l>>)[i + 1]
                    /\ prev[(<<l>> \o items[l] \o <<l>>)[i + 1]] = (<<l>> \o items[l] \o <<l>>)[i]
      <3>r. PICK ring : ring = <<l>> \o items[l] \o <<l>>
        BY Zenon
      <3>1. ASSUME NEW i \in 1 .. Len(ring) - 1
            PROVE  next[ring[i]] = ring[i + 1] /\ prev[ring[i + 1]] = ring[i]
        <4>. PICK s : s = items[l]
          OBVIOUS
        <4>1. s \in Seq(Entries \cup Lists) /\ Len(s) \in Nat
          BY <2>inv DEF LinkTypes
        <4>2. /\ Len(ring) = Len(s) + 2
              /\ \A j \in 1 .. Len(ring) : ring[j] = Node(l, s, j - 1)
          BY <4>1, <3>r DEF Node
        <4>3. /\ i - 1 \in 0 .. Len(s) /\ (i - 1) + 1 = i /\ (i + 1) - 1 = i
              /\ i \in 1 .. Len(ring) /\ i + 1 \in 1 .. Len(ring)
          BY <4>1, <4>2
        <4>4. /\ next[Node(l, s, i - 1)] = Node(l, s, (i - 1) + 1)
              /\ prev[Node(l, s, (i - 1) + 1)] = Node(l, s, i - 1)
          BY <4>3, <2>inv DEF Rings
        <4>5. ring[i] = Node(l, s, i - 1) /\ ring[i + 1] = Node(l, s, (i + 1) - 1)
          BY <4>2, <4>3
        <4>. QED
          BY <4>3, <4>4, <4>5
      <3>. QED
        BY <3>1, <3>r, Zenon
    <2>2. ASSUME NEW e \in Entries, \A l \in Lists : ~Contains(items[l], e)
          PROVE  next[e] = Null /\ prev[e] = Null
      <3>1. ~Listed(e)
        BY <2>2, <2>inv DEF Listed, Contains, LinkTypes
      <3>. QED
        BY <3>1, <2>inv DEF Loose
    <2>. QED
      BY <2>1, <2>2, <2>inv, Zenon DEF ListExact
  <1>2. LSpec => []ListInv
    BY LInitInv, LNextInv, PTL DEF LSpec
  <1>. QED
    BY <1>1, <1>2, PTL

-----------------------------------------------------------------------------
\* What holds of the lock after every step.
LockInv == LockTypeOK /\ MutualExclusion

\* A new lock is free.
LEMMA InitLockInv == Init => LockInv
BY DEF Init, LockInv, LockTypeOK, MutualExclusion

\* Each exchange on the byte preserves the relation between byte and holders.
LEMMA NextLockInv == LockInv /\ [Next]_lockVars => LockInv'
<1> SUFFICES ASSUME LockInv, [Next]_lockVars
             PROVE  LockInv'
  OBVIOUS
<1> USE DEF LockInv, LockTypeOK, MutualExclusion
<1>1. ASSUME NEW u \in Users, TryLock(u)
      PROVE  LockInv'
  <2>1. CASE state = "UNLOCKED"
    BY <1>1, <2>1 DEF TryLock
  <2>2. CASE state # "UNLOCKED"
    BY <1>1, <2>2 DEF TryLock
  <2> QED
    BY <2>1, <2>2
<1>2. ASSUME NEW u \in Users, MarkContended(u)
      PROVE  LockInv'
  BY <1>2 DEF MarkContended
<1>3. ASSUME NEW u \in Users, Unlock(u)
      PROVE  LockInv'
  BY <1>3 DEF Unlock
<1>4. CASE UNCHANGED lockVars
  BY <1>4 DEF lockVars
<1> QED
  BY <1>1, <1>2, <1>3, <1>4 DEF Next

\* try_lock hands the data to one context at a time, and the byte is UNLOCKED
\* exactly when no guard is live, for any number of contexts that call try_lock
\* and drop their guards in any order.
THEOREM LockExcludes == Spec => []MutualExclusion
<1>1. LockInv => MutualExclusion
  BY DEF LockInv
<1> QED
  BY InitLockInv, NextLockInv, <1>1, PTL DEF Spec

-----------------------------------------------------------------------------
\* The bounded mapper.  A view and a prefix are ranges of bytes.
Chunks == [off : Nat, len : Nat]

\* The bytes for_each_page hands out at once, r bytes before the end e.
Avail(e, r) == Less(MappedFolio(e - r).len, r)

\* A chunk that is not empty and does not leave its page.
OnOnePage(c) ==
    c.len > 0 /\ c.off \div PageSize = (c.off + c.len - 1) \div PageSize

\* The chunks for_each_page may visit from one offset to another.
Walks(cs, from, to) ==
    cs \in Seq(Chunks) /\ Tile(cs, from, to) /\ \A i \in 1 .. Len(cs) : OnOnePage(cs[i])

\* Induction: a set of naturals with 0 and every successor has them all.
LEMMA NaturalInduction ==
    ASSUME NEW S, 0 \in S, \A n \in Nat : n \in S => n + 1 \in S
    PROVE  Nat \subseteq S
  <1>. DEFINE T == Nat \ S
  <1>1. SUFFICES ASSUME T # {} PROVE FALSE
    OBVIOUS
  <1>2. PICK m \in T : \A n \in T : <<n, m>> \notin OpToRel(<, Nat)
    BY <1>1, NatLessThanWellFounded, WFMin
  <1>3. \A n \in T : ~(n < m)
    BY <1>2, Zenon DEF OpToRel
  <1>4. m # 0 /\ m - 1 \in Nat /\ m - 1 \notin T
    BY <1>3
  <1>5. (m - 1) + 1 \in S
    BY <1>4
  <1>. QED
    BY <1>5

\* The quotient of two offsets between the same multiples is the same.
LEMMA SamePage ==
    ASSUME NEW P \in Nat \ {0}, NEW q \in Nat, NEW m \in Nat, m < P
    PROVE  (P * q + m) \div P = q
  OBVIOUS

\* What is handed out is not empty, fits, and ends in its page.
LEMMA AvailFits ==
    ASSUME NEW e \in Nat, NEW r \in 1 .. e
    PROVE  /\ Avail(e, r) \in 1 .. r
           /\ Chunk(e - r, Avail(e, r)) \in Chunks
           /\ OnOnePage(Chunk(e - r, Avail(e, r)))
  <1>. DEFINE o == e - r
              m == o % PageSize
              q == o \div PageSize
              a == Avail(e, r)
  <1>1. o \in Nat /\ PageSize \in Nat \ {0}
    BY PageAssumption
  <1>2. m \in Nat /\ m < PageSize /\ q \in Nat /\ o = PageSize * q + m
    BY <1>1
  <1>3. a = IF PageSize - m < r THEN PageSize - m ELSE r
    BY DEF Avail, Less, MappedFolio, Chunk
  <1>. HIDE DEF m, q, a
  <1>4. a \in 1 .. r /\ m + (a - 1) \in Nat /\ m + (a - 1) < PageSize
    BY <1>1, <1>2, <1>3
  <1>5. (PageSize * q + (m + (a - 1))) \div PageSize = q
    BY <1>1, <1>2, <1>4, SamePage
  <1>6. PageSize * q \in Nat
    BY <1>1, <1>2
  <1>7. o + a - 1 = PageSize * q + (m + (a - 1))
    BY <1>1, <1>2, <1>4, <1>6
  <1>8. o \div PageSize = (o + a - 1) \div PageSize
    BY <1>5, <1>7 DEF q
  <1>. HIDE DEF o
  <1>9. Chunk(o, a).off = o /\ Chunk(o, a).len = a /\ Chunk(o, a) \in Chunks
    BY <1>1, <1>4 DEF Chunk, Chunks
  <1>. QED
    BY <1>4, <1>8, <1>9 DEF OnOnePage, o, a

\* One more chunk in front.
LEMMA WalksCons ==
    ASSUME NEW cs, NEW from \in Nat, NEW to \in Nat, NEW c \in Chunks,
           c.off = from, OnOnePage(c), Walks(cs, from + c.len, to)
    PROVE  Walks(<<c>> \o cs, from, to)
  <1>. DEFINE ds == <<c>> \o cs
  <1>1. cs \in Seq(Chunks) /\ Len(cs) \in Nat
    BY DEF Walks
  <1>2. ds \in Seq(Chunks) /\ Len(ds) = Len(cs) + 1 /\ ds[1] = c
        /\ \A i \in 1 .. Len(cs) : ds[i + 1] = cs[i]
    BY <1>1
  <1>. HIDE DEF ds
  <1>3. ASSUME NEW i \in 1 .. Len(ds)
        PROVE  /\ OnOnePage(ds[i]) /\ ds[i].len >= 0
               /\ ds[i].off = IF i = 1 THEN from ELSE ds[i - 1].off + ds[i - 1].len
    <2>1. CASE i = 1
      BY <2>1, <1>2 DEF Chunks
    <2>2. CASE i # 1
      <3>1. PICK j \in 1 .. Len(cs) : i = j + 1 /\ i - 1 = j
        BY <2>2, <1>1, <1>2
      <3>2. OnOnePage(cs[j]) /\ cs[j].len >= 0
            /\ cs[j].off = IF j = 1 THEN from + c.len ELSE cs[j - 1].off + cs[j - 1].len
        BY DEF Walks, Tile
      <3>3. ds[i] = cs[j]
        BY <3>1, <1>2
      <3>4. CASE j = 1
        BY <3>1, <3>2, <3>3, <3>4, <2>2, <1>2
      <3>5. CASE j # 1
        <4>1. PICK k \in 1 .. Len(cs) : j = k + 1 /\ j - 1 = k
          BY <3>5, <1>1
        <4>2. ds[i - 1] = cs[j - 1]
          BY <4>1, <3>1, <1>2
        <4>. QED
          BY <4>2, <3>2, <3>3, <3>5, <2>2
      <3>. QED
        BY <3>4, <3>5
    <2>. QED
      BY <2>1, <2>2
  <1>4. ds # <<>>
    BY <1>1, <1>2
  <1>5. to = ds[Len(ds)].off + ds[Len(ds)].len
    <2>0. to = IF cs = <<>> THEN from + c.len ELSE cs[Len(cs)].off + cs[Len(cs)].len
      BY DEF Walks, Tile
    <2>1. CASE cs = <<>>
      BY <2>0, <2>1, <1>2
    <2>2. CASE cs # <<>>
      <3>1. Len(cs) \in 1 .. Len(cs)
        BY <2>2, <1>1
      <3>2. ds[Len(ds)] = cs[Len(cs)]
        BY <3>1, <1>2
      <3>. QED
        BY <3>2, <2>0, <2>2
    <2>. QED
      BY <2>1, <2>2
  <1>6. Tile(ds, from, to)
    BY <1>3, <1>4, <1>5 DEF Tile
  <1>. QED
    BY <1>2, <1>3, <1>6 DEF Walks, ds

\* The recursion that ForEachPage uses has a solution.
LEMMA WalkExists ==
    ASSUME NEW e \in Nat, NEW N \in Nat, N <= e
    PROVE  \E f : f = [r \in 0 .. N |-> IF r = 0 THEN <<>>
                        ELSE <<Chunk(e - r, Avail(e, r))>> \o f[r - Avail(e, r)]]
  <1>. DEFINE S == {n \in Nat : n <= e => \E f : f = [r \in 0 .. n |-> IF r = 0 THEN <<>>
                        ELSE <<Chunk(e - r, Avail(e, r))>> \o f[r - Avail(e, r)]]}
  <1>1. 0 \in S
    <2>. DEFINE f == [r \in 0 .. 0 |-> <<>>]
    <2>1. f = [r \in 0 .. 0 |-> IF r = 0 THEN <<>>
                        ELSE <<Chunk(e - r, Avail(e, r))>> \o f[r - Avail(e, r)]]
      OBVIOUS
    <2>. QED
      BY <2>1, Zenon
  <1>2. ASSUME NEW n \in Nat, n \in S PROVE n + 1 \in S
    <2>. SUFFICES ASSUME n + 1 <= e
                  PROVE  \E g : g = [r \in 0 .. n + 1 |-> IF r = 0 THEN <<>>
                        ELSE <<Chunk(e - r, Avail(e, r))>> \o g[r - Avail(e, r)]]
      OBVIOUS
    <2>1. PICK f : f = [r \in 0 .. n |-> IF r = 0 THEN <<>>
                        ELSE <<Chunk(e - r, Avail(e, r))>> \o f[r - Avail(e, r)]]
      BY <1>2
    <2>. DEFINE g == [r \in 0 .. n + 1 |-> IF r = 0 THEN <<>>
                        ELSE <<Chunk(e - r, Avail(e, r))>> \o f[r - Avail(e, r)]]
                h == [r \in 0 .. n + 1 |-> IF r = 0 THEN <<>>
                        ELSE <<Chunk(e - r, Avail(e, r))>> \o g[r - Avail(e, r)]]
    <2>2. ASSUME NEW r \in 0 .. n PROVE g[r] = f[r]
      <3>1. f[r] = IF r = 0 THEN <<>>
                        ELSE <<Chunk(e - r, Avail(e, r))>> \o f[r - Avail(e, r)]
        BY <2>1, Zenon
      <3>2. r \in 0 .. n + 1
        OBVIOUS
      <3>. QED
        BY <3>1, <3>2
    <2>. HIDE DEF g
    <2>3. ASSUME NEW r \in 0 .. n + 1 PROVE g[r] = h[r]
      <3>1. g[r] = IF r = 0 THEN <<>>
                        ELSE <<Chunk(e - r, Avail(e, r))>> \o f[r - Avail(e, r)]
        BY DEF g
      <3>2. r # 0 => r \in 1 .. e
        OBVIOUS
      <3>3. r # 0 => Avail(e, r) \in 1 .. r
        BY <3>2, AvailFits
      <3>4. r # 0 => r - Avail(e, r) \in 0 .. n
        BY <3>3
      <3>5. r # 0 => g[r - Avail(e, r)] = f[r - Avail(e, r)]
        BY <3>4, <2>2
      <3>. QED
        BY <3>1, <3>5
    <2>4. g = h
      <3>1. g = [r \in 0 .. n + 1 |-> g[r]]
        BY DEF g
      <3>2. h = [r \in 0 .. n + 1 |-> h[r]]
        OBVIOUS
      <3>. HIDE DEF h
      <3>. QED
        BY <3>1, <3>2, <2>3
    <2>. QED
      BY <2>4
  <1>3. Nat \subseteq S
    <2>. HIDE DEF S
    <2>. QED
      BY <1>1, <1>2, NaturalInduction
  <1>. QED
    BY <1>3, Zenon

\* BoundedMapper::for_each_page and Mapper::for_each_page: whatever the range, the
\* chunks are not empty, keep to a page each, follow one another and cover the range.
THEOREM PagesTileTheRange ==
    ASSUME NEW from \in Nat, NEW count \in Nat
    PROVE  Walks(ForEachPage(from, count), from, from + count)
  <1>. DEFINE e == from + count
  <1>0. e \in Nat /\ count <= e /\ e - count = from
    OBVIOUS
  <1>. DEFINE R == CHOOSE f : f = [r \in 0 .. count |-> IF r = 0 THEN <<>>
                        ELSE <<Chunk(e - r, Avail(e, r))>> \o f[r - Avail(e, r)]]
  <1>1. R = [r \in 0 .. count |-> IF r = 0 THEN <<>>
                        ELSE <<Chunk(e - r, Avail(e, r))>> \o R[r - Avail(e, r)]]
    <2>. HIDE DEF e
    <2>. QED
      BY <1>0, WalkExists, Zenon
  <1>2. ForEachPage(from, count) = IF count <= 0 THEN <<>> ELSE R[count]
    BY DEF ForEachPage, Avail
  <1>. HIDE DEF R, e
  <1>3. R[0] = <<>>
    BY <1>1
  <1>4. \A r \in 1 .. count : R[r] = <<Chunk(e - r, Avail(e, r))>> \o R[r - Avail(e, r)]
    <2>1. ASSUME NEW r \in 0 .. count, r # 0
          PROVE  R[r] = <<Chunk(e - r, Avail(e, r))>> \o R[r - Avail(e, r)]
      BY <1>1, <2>1, Zenon
    <2>2. \A r \in 1 .. count : r \in 0 .. count /\ r # 0
      OBVIOUS
    <2>. QED
      BY <2>1, <2>2, Zenon
  <1>. DEFINE S == {n \in Nat : \A r \in 0 .. n : r <= count => Walks(R[r], e - r, e)}
  <1>5. 0 \in S
    <2>1. Walks(<<>>, e, e)
      BY DEF Walks, Tile
    <2>2. e - 0 = e
      BY <1>0
    <2>. QED
      BY <2>1, <2>2, <1>3
  <1>6. ASSUME NEW n \in Nat, n \in S PROVE n + 1 \in S
    <2>. SUFFICES ASSUME n + 1 <= count PROVE Walks(R[n + 1], e - (n + 1), e)
      BY <1>6
    <2>. DEFINE r == n + 1
                a == Avail(e, r)
                c == Chunk(e - r, a)
    <2>1. r \in 1 .. e /\ r \in 1 .. count /\ e - r \in Nat
      BY <1>0
    <2>. HIDE DEF r
    <2>2. a \in 1 .. r /\ c \in Chunks /\ OnOnePage(c)
      BY <2>1, <1>0, AvailFits
    <2>3. c.off = e - r /\ c.len = a
      BY DEF Chunk
    <2>. HIDE DEF a, c
    <2>4. r - a \in 0 .. n /\ r - a <= count /\ e - (r - a) = (e - r) + a
      BY <2>1, <2>2, <1>0 DEF r
    <2>5. Walks(R[r - a], (e - r) + a, e)
      BY <2>4, <1>6
    <2>6. Walks(<<c>> \o R[r - a], e - r, e)
      BY <2>1, <2>2, <2>3, <2>5, <1>0, WalksCons
    <2>7. R[r] = <<c>> \o R[r - a]
      BY <2>1, <1>4 DEF a, c
    <2>. QED
      BY <2>6, <2>7 DEF r
  <1>7. Nat \subseteq S
    <2>. HIDE DEF S
    <2>. QED
      BY <1>5, <1>6, NaturalInduction
  <1>8. Walks(R[count], from, e)
    <2>1. count \in S
      BY <1>7
    <2>. QED
      BY <2>1, <1>0
  <1>9. CASE count = 0
    BY <1>9, <1>2, <1>3, <1>8 DEF e
  <1>10. CASE count # 0
    BY <1>10, <1>2, <1>8 DEF e
  <1>. QED
    BY <1>9, <1>10

-----------------------------------------------------------------------------
\* One more prefix at the end.
LEMMA TileAppend ==
    ASSUME NEW cs \in Seq(Chunks), NEW from \in Nat, NEW to \in Nat, NEW m \in Nat,
           Tile(cs, from, to)
    PROVE  Append(cs, Chunk(to, m)) \in Seq(Chunks)
           /\ Tile(Append(cs, Chunk(to, m)), from, to + m)
  <1>. DEFINE c == Chunk(to, m)
              ds == Append(cs, c)
  <1>1. c \in Chunks /\ c.off = to /\ c.len = m
    BY DEF c, Chunk, Chunks
  <1>. HIDE DEF c
  <1>2. ds \in Seq(Chunks) /\ Len(ds) = Len(cs) + 1 /\ ds[Len(cs) + 1] = c /\ Len(cs) \in Nat
        /\ \A i \in 1 .. Len(cs) : ds[i] = cs[i]
    BY <1>1
  <1>. HIDE DEF ds
  <1>3. ASSUME NEW i \in 1 .. Len(ds)
        PROVE  /\ ds[i].len >= 0
               /\ ds[i].off = IF i = 1 THEN from ELSE ds[i - 1].off + ds[i - 1].len
    <2>1. CASE i \in 1 .. Len(cs)
      <3>1. cs[i].len >= 0
            /\ cs[i].off = IF i = 1 THEN from ELSE cs[i - 1].off + cs[i - 1].len
        BY <2>1 DEF Tile
      <3>2. i # 1 => i - 1 \in 1 .. Len(cs)
        BY <2>1, <1>2
      <3>3. ds[i] = cs[i] /\ (i # 1 => ds[i - 1] = cs[i - 1])
        BY <3>2, <2>1, <1>2
      <3>. QED
        BY <3>1, <3>3
    <2>2. CASE i = Len(cs) + 1
      <3>1. to = IF cs = <<>> THEN from ELSE cs[Len(cs)].off + cs[Len(cs)].len
        BY DEF Tile
      <3>2. i = 1 <=> cs = <<>>
        BY <2>2, <1>2
      <3>3. i # 1 => Len(cs) \in 1 .. Len(cs) /\ i - 1 = Len(cs)
        BY <2>2, <1>2
      <3>4. i # 1 => ds[i - 1] = cs[Len(cs)]
        BY <3>3, <1>2
      <3>. QED
        BY <3>1, <3>2, <3>4, <2>2, <1>1, <1>2
    <2>. QED
      BY <2>1, <2>2, <1>2
  <1>4. ds # <<>> /\ ds[Len(ds)] = c
    BY <1>2
  <1>. QED
    BY <1>1, <1>2, <1>3, <1>4 DEF Tile, ds, c

\* The inductive invariant of the bounded mapper.
BInv ==
  /\ view \in Chunks /\ taken \in Seq(Chunks) /\ mapped \in Chunks
  /\ Tile(taken, Bound.off, view.off)
  /\ view.off + view.len <= Bound.off + Bound.len
  /\ mapped # NoChunk =>
       view.off <= mapped.off /\ mapped.off + mapped.len <= view.off + view.len

\* The initial states have it, ...
LEMMA BInvInit == BInit => BInv
  <1>. SUFFICES ASSUME BInit PROVE BInv
    OBVIOUS
  <1>1. view \in Chunks /\ mapped \in Chunks /\ mapped = NoChunk /\ taken = <<>> /\ view = Bound
    BY BoundAssumption DEF BInit, Chunks, NoChunk, Chunk
  <1>2. Tile(<<>>, Bound.off, Bound.off)
    BY DEF Tile
  <1>. QED
    BY <1>1, <1>2, BoundAssumption DEF BInv, Chunks

\* ... and every step keeps it.
LEMMA BInvNext == BInv /\ [BNext]_bvars => BInv'
  <1>. SUFFICES ASSUME BInv, [BNext]_bvars PROVE BInv'
    OBVIOUS
  <1>0. view \in Chunks /\ view.off \in Nat /\ view.len \in Nat /\ NoChunk \in Chunks
        /\ Bound.off \in Nat /\ Bound.len \in Nat /\ taken \in Seq(Chunks)
        /\ Tile(taken, Bound.off, view.off) /\ view.off + view.len <= Bound.off + Bound.len
    BY BoundAssumption DEF BInv, Chunks, NoChunk, Chunk
  <1>1. ASSUME NEW a \in Arguments, SplitAt(a) PROVE BInv'
    <2>. DEFINE m == IF a > view.len THEN view.len ELSE IF a < 0 THEN 0 ELSE a
    <2>1. m \in Nat /\ m <= view.len
      BY <1>0, BoundAssumption
    <2>2. taken' = Append(taken, Chunk(view.off, m)) /\ mapped' = NoChunk
          /\ view' = Chunk(view.off + m, view.len - m)
      BY <1>1 DEF SplitAt
    <2>. HIDE DEF m
    <2>3. view' \in Chunks /\ view'.off = view.off + m /\ view'.len = view.len - m
      BY <2>1, <2>2, <1>0 DEF Chunk, Chunks
    <2>4. taken' \in Seq(Chunks) /\ Tile(taken', Bound.off, view'.off)
      BY <2>1, <2>2, <2>3, <1>0, TileAppend
    <2>5. view'.off + view'.len <= Bound.off + Bound.len
      BY <2>1, <2>3, <1>0
    <2>. QED
      BY <2>2, <2>3, <2>4, <2>5, <1>0 DEF BInv, NoChunk
  <1>2. ASSUME NEW a \in Arguments, CapLen(a) PROVE BInv'
    <2>. DEFINE m == IF a < 0 THEN 0 ELSE a
    <2>1. m \in Nat /\ m <= view.len
      BY <1>0, <1>2, BoundAssumption DEF CapLen
    <2>2. taken' = taken /\ mapped' = NoChunk /\ view' = [view EXCEPT !.len = m]
      BY <1>2 DEF CapLen
    <2>. HIDE DEF m
    <2>3. view' \in Chunks /\ view'.off = view.off /\ view'.len = m
      BY <2>1, <2>2, <1>0, Zenon DEF Chunks
    <2>4. view'.off + view'.len <= Bound.off + Bound.len
      BY <2>1, <2>3, <1>0
    <2>. QED
      BY <2>2, <2>3, <2>4, <1>0 DEF BInv, NoChunk
  <1>3. ASSUME NEW a \in Arguments, BMappedFolio(a) PROVE BInv'
    <2>. DEFINE o == view.off + a
                p == MappedFolio(o).len
                k == Less(p, view.len - a)
    <2>1. a \in Nat /\ a < view.len /\ view' = view /\ taken' = taken /\ o \in Nat
      BY <1>0, <1>3, BoundAssumption DEF BMappedFolio
    <2>. HIDE DEF o
    <2>2. o % PageSize \in Nat /\ o % PageSize < PageSize
      BY <2>1, PageAssumption
    <2>3. p = PageSize - (o % PageSize) /\ MappedFolio(o) = Chunk(o, p)
      BY DEF MappedFolio, Chunk
    <2>. HIDE DEF p
    <2>4. p \in Nat
      BY <2>2, <2>3, PageAssumption
    <2>5. k \in Nat /\ k <= view.len - a
      BY <2>1, <2>4, <1>0 DEF Less
    <2>6. mapped' = Chunk(o, k)
      <3>1. mapped' = [MappedFolio(o) EXCEPT !.len = Less(@, view.len - a)]
        BY <1>3 DEF BMappedFolio, o
      <3>. QED
        BY <3>1, <2>3 DEF Chunk
    <2>. HIDE DEF k
    <2>7. mapped' \in Chunks /\ mapped'.off = o /\ mapped'.len = k
      BY <2>1, <2>5, <2>6 DEF Chunk, Chunks
    <2>8. view.off <= o /\ o + k <= view.off + view.len
      BY <2>1, <2>5, <1>0 DEF o
    <2>. QED
      BY <2>1, <2>7, <2>8, <1>0 DEF BInv, NoChunk
  <1>4. CASE UNCHANGED bvars
    BY <1>4 DEF BInv, bvars, NoChunk
  <1>. QED
    BY <1>1, <1>2, <1>3, <1>4 DEF BNext

\* The invariant and the walk give what the run checks.
LEMMA BInvTiles == BInv => BoundedTiles
  <1>. SUFFICES ASSUME BInv PROVE BoundedTiles
    OBVIOUS
  <1>1. view.off \in Nat /\ view.len \in Nat
    BY DEF BInv, Chunks
  <1>2. Walks(ForEachPage(view.off, view.len), view.off, view.off + view.len)
    BY <1>1, PagesTileTheRange
  <1>. QED
    BY <1>1, <1>2 DEF BInv, BoundedTiles, Walks, OnOnePage

\* BoundedMapper (split_at, cap_len, mapped_folio, for_each_page): for every page size,
\* every range and every sequence of calls, the prefixes tile what was split off and
\* the pages visited tile the view.
THEOREM AlwaysTiled == BSpec => []BoundedTiles
  <1>1. BSpec => []BInv
    BY BInvInit, BInvNext, PTL DEF BSpec
  <1>. QED
    BY <1>1, BInvTiles, PTL
=============================================================================
