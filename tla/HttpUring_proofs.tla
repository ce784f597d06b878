-------------------------- MODULE HttpUring_proofs --------------------------
(***************************************************************************)
(* Proofs about HttpUring for every set of requests, of URLs and of        *)
(* userspace threads, and any number of queues and servers.                *)
(***************************************************************************)
EXTENDS HttpUring, NaturalsInduction, WellFoundedInduction, TLAPS

\* A set of naturals that is not empty has a least member.
LEMMA LeastMember ==
    ASSUME NEW S \in SUBSET Nat, S # {}
    PROVE  \E m \in S : \A n \in S : m <= n
  <1>1. PICK m \in S : \A n \in S : <<n, m>> \notin OpToRel(<, Nat)
    BY NatLessThanWellFounded, WFMin, Zenon
  <1>2. \A n \in S : ~(n < m)
    BY <1>1, Zenon DEF OpToRel
  <1>. QED
    BY <1>2

\* Induction: a set of naturals with 0 and every successor has them all.
LEMMA NatSetInduction ==
    ASSUME NEW S, 0 \in S, \A n \in Nat : n \in S => n + 1 \in S
    PROVE  Nat \subseteq S
  <1>. DEFINE T == Nat \ S
  <1>1. SUFFICES ASSUME T # {} PROVE FALSE
    OBVIOUS
  <1>2. PICK m \in T : \A n \in T : m <= n
    BY <1>1, LeastMember, Zenon
  <1>3. m # 0 /\ m - 1 \in Nat /\ m - 1 \notin T
    BY <1>2
  <1>4. (m - 1) + 1 \in S
    BY <1>3
  <1>. QED
    BY <1>2, <1>4


-----------------------------------------------------------------------------
\* The first n entries are in the order of their prefixes' lengths, longest first.
SortedTo(s, n) ==
    \A a, b \in 1 .. Len(s) :
        a < b /\ b <= n => PrefixLen[s[a].prefix] >= PrefixLen[s[b].prefix]

\* What concatenation does.
LEMMA Concatenated ==
    ASSUME NEW E, NEW u \in Seq(E), NEW v \in Seq(E)
    PROVE  /\ u \o v \in Seq(E) /\ Len(u \o v) = Len(u) + Len(v)
           /\ \A m \in 1 .. Len(u) + Len(v) :
                 (u \o v)[m] = IF m <= Len(u) THEN u[m] ELSE v[m - Len(u)]
  OBVIOUS

\* One round of the insertion sort: where the entry ends up, and that the others keep
\* their order.
LEMMA SinkMoves ==
    ASSUME NEW s \in Seq(Entries), NEW i \in 1 .. Len(s)
    PROVE  \E j \in 1 .. i :
              /\ Sink(s, i) \in Seq(Entries) /\ Len(Sink(s, i)) = Len(s)
              /\ \A m \in 1 .. Len(s) :
                    Sink(s, i)[m] = IF m < j THEN s[m] ELSE IF m = j THEN s[i]
                                    ELSE IF m <= i THEN s[m - 1] ELSE s[m]
              /\ \A n \in j .. i - 1 : PrefixLen[s[n].prefix] < PrefixLen[s[i].prefix]
              /\ j > 1 => ~(PrefixLen[s[j - 1].prefix] < PrefixLen[s[i].prefix])
  <1>. DEFINE Shorter(k) == PrefixLen[s[k].prefix] < PrefixLen[s[i].prefix]
              Place(k) == /\ \A n \in k .. i - 1 : Shorter(n)
                          /\ k > 1 => ~Shorter(k - 1)
              j == CHOOSE k \in 1 .. i : Place(k)
              Moved == SubSeq(s, 1, j - 1) \o <<s[i]>> \o SubSeq(s, j, i - 1)
                          \o SubSeq(s, i + 1, Len(s))
  <1>0. i \in Nat /\ Len(s) \in Nat
    OBVIOUS
  <1>1. \E k \in 1 .. i : Place(k)
    <2>. DEFINE K == {k \in 1 .. i : \A n \in k .. i - 1 : Shorter(n)}
    <2>1. i \in K /\ K \in SUBSET Nat
      BY <1>0
    <2>2. PICK k \in K : \A n \in K : k <= n
      BY <2>1, LeastMember, Zenon
    <2>3. k > 1 => ~Shorter(k - 1)
      <3>1. SUFFICES ASSUME k > 1, Shorter(k - 1) PROVE FALSE
        OBVIOUS
      <3>2. k - 1 \in 1 .. i
        BY <3>1, <2>2, <1>0
      <3>3. \A n \in (k - 1) .. i - 1 : n = k - 1 \/ n \in k .. i - 1
        BY <2>2, <1>0
      <3>4. \A n \in (k - 1) .. i - 1 : Shorter(n)
        BY <3>1, <3>3, <2>2, Zenon
      <3>5. k - 1 \in K
        BY <3>2, <3>4, Zenon
      <3>. QED
        BY <3>5, <3>2, <2>2, <1>0
    <2>. QED
      BY <2>2, <2>3
  <1>2. j \in 1 .. i /\ Place(j)
    BY <1>1, Zenon
  <1>3. Sink(s, i) = Moved
    BY DEF Sink
  <1>. HIDE DEF j
  <1>4. /\ SubSeq(s, 1, j - 1) \in Seq(Entries) /\ Len(SubSeq(s, 1, j - 1)) = j - 1
        /\ \A m \in 1 .. j - 1 : SubSeq(s, 1, j - 1)[m] = s[m]
    BY <1>0, <1>2
  <1>5. /\ SubSeq(s, j, i - 1) \in Seq(Entries) /\ Len(SubSeq(s, j, i - 1)) = i - j
        /\ \A m \in 1 .. i - j : SubSeq(s, j, i - 1)[m] = s[m + j - 1]
    BY <1>0, <1>2
  <1>6. /\ SubSeq(s, i + 1, Len(s)) \in Seq(Entries)
        /\ Len(SubSeq(s, i + 1, Len(s))) = Len(s) - i
        /\ \A m \in 1 .. Len(s) - i : SubSeq(s, i + 1, Len(s))[m] = s[m + i]
    BY <1>0, <1>2
  <1>7. s[i] \in Entries
    OBVIOUS
  <1>8. /\ Moved \in Seq(Entries) /\ Len(Moved) = Len(s)
        /\ \A m \in 1 .. Len(s) :
              Moved[m] = IF m < j THEN s[m] ELSE IF m = j THEN s[i]
                         ELSE IF m <= i THEN s[m - 1] ELSE s[m]
    <2>. DEFINE A == SubSeq(s, 1, j - 1)
                B == SubSeq(s, j, i - 1)
                C == SubSeq(s, i + 1, Len(s))
                e == s[i]
    <2>1. /\ A \in Seq(Entries) /\ Len(A) = j - 1 /\ B \in Seq(Entries) /\ Len(B) = i - j
          /\ C \in Seq(Entries) /\ Len(C) = Len(s) - i /\ e \in Entries
          /\ \A m \in 1 .. j - 1 : A[m] = s[m]
          /\ \A m \in 1 .. i - j : B[m] = s[m + j - 1]
          /\ \A m \in 1 .. Len(s) - i : C[m] = s[m + i]
      BY <1>4, <1>5, <1>6, <1>7
    <2>. HIDE DEF A, B, C, e
    <2>2. /\ A \o <<e>> \in Seq(Entries) /\ Len(A \o <<e>>) = j
          /\ \A m \in 1 .. j : (A \o <<e>>)[m] = IF m < j THEN A[m] ELSE e
      BY <2>1, <1>2, <1>0
    <2>. DEFINE X == A \o <<e>>
                Y == X \o B
                Z == Y \o C
    <2>. HIDE DEF X
    <2>3. /\ Y \in Seq(Entries) /\ Len(Y) = i
          /\ \A m \in 1 .. i : Y[m] = IF m <= j THEN X[m] ELSE B[m - j]
      <3>1. X \in Seq(Entries) /\ Len(X) = j
        BY <2>2 DEF X
      <3>2. /\ Y \in Seq(Entries) /\ Len(Y) = Len(X) + Len(B)
            /\ \A m \in 1 .. Len(X) + Len(B) : Y[m] = IF m <= Len(X) THEN X[m] ELSE B[m - Len(X)]
        <4>1. X \in Seq(Entries) /\ B \in Seq(Entries)
          BY <3>1, <2>1
        <4>. QED
          BY <4>1, Concatenated
      <3>3. Len(X) + Len(B) = i
        BY <3>1, <2>1, <1>2, <1>0
      <3>. QED
        BY <3>1, <3>2, <3>3
    <2>. HIDE DEF Y
    <2>4. /\ Z \in Seq(Entries) /\ Len(Z) = Len(s)
          /\ \A m \in 1 .. Len(s) : Z[m] = IF m <= i THEN Y[m] ELSE C[m - i]
      <3>1. /\ Z \in Seq(Entries) /\ Len(Z) = Len(Y) + Len(C)
            /\ \A m \in 1 .. Len(Y) + Len(C) : Z[m] = IF m <= Len(Y) THEN Y[m] ELSE C[m - Len(Y)]
        <4>1. Y \in Seq(Entries) /\ C \in Seq(Entries)
          BY <2>3, <2>1
        <4>. QED
          BY <4>1, Concatenated
      <3>2. Len(Y) + Len(C) = Len(s) /\ Len(Y) = i
        BY <2>1, <2>3, <1>2, <1>0
      <3>. QED
        BY <3>1, <3>2
    <2>. HIDE DEF Z
    <2>5. \A m \in 1 .. j : X[m] = IF m < j THEN A[m] ELSE e
      BY <2>2 DEF X
    <2>6. ASSUME NEW m \in 1 .. Len(s)
          PROVE  Z[m] = IF m < j THEN s[m] ELSE IF m = j THEN e
                        ELSE IF m <= i THEN s[m - 1] ELSE s[m]
      <3>1. CASE m < j
        <4>1. m \in 1 .. j - 1 /\ m \in 1 .. j /\ m \in 1 .. i /\ m <= j /\ m <= i
          BY <3>1, <1>2, <1>0
        <4>2. Z[m] = Y[m] /\ Y[m] = X[m] /\ X[m] = A[m] /\ A[m] = s[m]
          BY <4>1, <3>1, <2>1, <2>3, <2>4, <2>5
        <4>. QED
          BY <4>2, <3>1
      <3>2. CASE m = j
        <4>1. m \in 1 .. j /\ m \in 1 .. i /\ m <= j /\ m <= i /\ ~(m < j)
          BY <3>2, <1>2, <1>0
        <4>2. Z[m] = Y[m] /\ Y[m] = X[m] /\ X[m] = e
          BY <4>1, <2>3, <2>4, <2>5
        <4>. QED
          BY <4>1, <4>2, <3>2
      <3>3. CASE j < m /\ m <= i
        <4>1. m - j \in 1 .. i - j /\ (m - j) + j - 1 = m - 1
          BY <3>3, <1>2, <1>0
        <4>2. m \in 1 .. i /\ ~(m <= j) /\ ~(m < j) /\ m # j
          BY <3>3, <1>2, <1>0
        <4>3. Z[m] = B[m - j] /\ B[m - j] = s[m - 1]
          BY <4>1, <4>2, <3>3, <2>1, <2>3, <2>4, Zenon
        <4>. QED
          BY <4>2, <4>3, <3>3
      <3>4. CASE i < m
        <4>1. m - i \in 1 .. Len(s) - i /\ (m - i) + i = m
          BY <3>4, <1>2, <1>0
        <4>2. Z[m] = C[m - i]
          BY <3>4, <2>4, <1>2, <1>0
        <4>3. C[m - i] = s[(m - i) + i]
          BY <4>1, <2>1, Zenon
        <4>4. ~(m < j) /\ m # j /\ ~(m <= i)
          BY <3>4, <1>2, <1>0
        <4>. QED
          BY <4>1, <4>2, <4>3, <4>4
      <3>. QED
        BY <3>1, <3>2, <3>3, <3>4, <1>2, <1>0
    <2>. QED
      BY <2>4, <2>6, Zenon DEF Z, Y, X, A, B, C, e
  <1>. QED
    BY <1>2, <1>3, <1>8, Zenon

\* ... so that one more entry is in order.
LEMMA SinkSorts ==
    ASSUME NEW s \in Seq(Entries), NEW i \in 1 .. Len(s), SortedTo(s, i - 1)
    PROVE  SortedTo(Sink(s, i), i)
  <1>. DEFINE t == Sink(s, i)
              L(x) == PrefixLen[x.prefix]
  <1>1. PICK j \in 1 .. i :
           /\ t \in Seq(Entries) /\ Len(t) = Len(s)
           /\ \A m \in 1 .. Len(s) : t[m] = IF m < j THEN s[m] ELSE IF m = j THEN s[i]
                                            ELSE IF m <= i THEN s[m - 1] ELSE s[m]
           /\ \A n \in j .. i - 1 : L(s[n]) < L(s[i])
           /\ j > 1 => ~(L(s[j - 1]) < L(s[i]))
    BY SinkMoves, Zenon
  <1>. HIDE DEF t
  <1>2. \A m \in 1 .. Len(s) : L(s[m]) \in Nat
    <2>1. \A x \in Entries : x.prefix \in Urls
      BY DEF Entries
    <2>2. \A m \in 1 .. Len(s) : s[m] \in Entries
      OBVIOUS
    <2>. QED
      BY <2>1, <2>2, BridgeAssumption
  <1>3. \A a, b \in 1 .. Len(s) : a < b /\ b <= i - 1 => L(s[a]) >= L(s[b])
    BY DEF SortedTo
  <1>. HIDE DEF L
  <1>4. ASSUME NEW a \in 1 .. Len(s), NEW b \in 1 .. Len(s), a < b, b <= i
        PROVE  L(t[a]) >= L(t[b])
    <2>1. CASE b < j
      BY <2>1, <1>1, <1>3, <1>4
    <2>2. CASE b = j
      <3>1. t[b] = s[i] /\ t[a] = s[a] /\ j > 1 /\ j - 1 \in 1 .. Len(s)
        BY <2>2, <1>1, <1>4
      <3>2. L(s[j - 1]) >= L(s[i])
        <4>1. ~(L(s[j - 1]) < L(s[i])) /\ L(s[j - 1]) \in Nat /\ L(s[i]) \in Nat
          BY <3>1, <1>1, <1>2, Zenon
        <4>2. \A x, y \in Nat : ~(x < y) => x >= y
          OBVIOUS
        <4>. QED
          BY <4>1, <4>2, Zenon
      <3>3. a = j - 1 \/ L(s[a]) >= L(s[j - 1])
        BY <3>1, <2>2, <1>1, <1>3, <1>4
      <3>. QED
        BY <3>1, <3>2, <3>3, <1>2
    <2>3. CASE b > j
      <3>1. t[b] = s[b - 1] /\ b - 1 \in 1 .. Len(s) /\ b - 1 <= i - 1 /\ b - 1 \in j .. i - 1
        BY <2>3, <1>1, <1>4
      <3>2. CASE a < j
        BY <3>1, <3>2, <2>3, <1>1, <1>3, <1>4
      <3>3. CASE a = j
        <4>1. t[a] = s[i] /\ L(s[b - 1]) < L(s[i])
          BY <3>1, <3>3, <1>1
        <4>2. \A x, y \in Nat : x < y => y >= x
          OBVIOUS
        <4>. QED
          BY <4>1, <4>2, <3>1, <1>2, Zenon
      <3>4. CASE a > j
        <4>1. t[a] = s[a - 1] /\ a - 1 \in 1 .. Len(s) /\ a - 1 < b - 1
          BY <3>4, <1>1, <1>4
        <4>. QED
          BY <4>1, <3>1, <1>3
      <3>. QED
        BY <3>2, <3>3, <3>4, <1>1
    <2>. QED
      BY <2>1, <2>2, <2>3, <1>1
  <1>. QED
    BY <1>1, <1>4 DEF SortedTo, t, L


\* The rounds of the sort are well defined.
LEMMA RoundsExist ==
    ASSUME NEW s, NEW N \in Nat
    PROVE  \E f : f = [i \in 0 .. N |-> IF i <= 1 THEN s ELSE Sink(f[i - 1], i)]
  <1>. DEFINE S == {n \in Nat :
                      \E f : f = [i \in 0 .. n |-> IF i <= 1 THEN s ELSE Sink(f[i - 1], i)]}
  <1>1. 0 \in S
    <2>. DEFINE f == [i \in 0 .. 0 |-> s]
    <2>1. f = [i \in 0 .. 0 |-> IF i <= 1 THEN s ELSE Sink(f[i - 1], i)]
      OBVIOUS
    <2>. QED
      BY <2>1, Zenon
  <1>2. ASSUME NEW n \in Nat, n \in S PROVE n + 1 \in S
    <2>1. PICK f : f = [i \in 0 .. n |-> IF i <= 1 THEN s ELSE Sink(f[i - 1], i)]
      BY <1>2
    <2>. DEFINE g == [i \in 0 .. n + 1 |-> IF i <= 1 THEN s ELSE Sink(f[i - 1], i)]
                h == [i \in 0 .. n + 1 |-> IF i <= 1 THEN s ELSE Sink(g[i - 1], i)]
    <2>2. ASSUME NEW i \in 0 .. n PROVE g[i] = f[i]
      <3>1. f[i] = IF i <= 1 THEN s ELSE Sink(f[i - 1], i)
        BY <2>1
      <3>2. i \in 0 .. n + 1
        OBVIOUS
      <3>. QED
        BY <3>1, <3>2
    <2>. HIDE DEF g
    <2>3. ASSUME NEW i \in 0 .. n + 1 PROVE g[i] = h[i]
      <3>1. g[i] = IF i <= 1 THEN s ELSE Sink(f[i - 1], i)
        BY DEF g
      <3>2. ~(i <= 1) => i - 1 \in 0 .. n
        OBVIOUS
      <3>3. ~(i <= 1) => g[i - 1] = f[i - 1]
        BY <3>2, <2>2
      <3>. QED
        BY <3>1, <3>3
    <2>4. g = h
      <3>1. g = [i \in 0 .. n + 1 |-> g[i]]
        BY DEF g
      <3>2. h = [i \in 0 .. n + 1 |-> h[i]]
        OBVIOUS
      <3>. HIDE DEF h
      <3>. QED
        BY <3>1, <3>2, <2>3
    <2>. QED
      BY <2>4
  <1>3. Nat \subseteq S
    <2>. HIDE DEF S
    <2>. QED
      BY <1>1, <1>2, NatSetInduction
  <1>. QED
    BY <1>3, Zenon

\* The insertion sort sorts, and neither adds nor loses an entry's slot.
LEMMA SortSorts ==
    ASSUME NEW s \in Seq(Entries)
    PROVE  /\ Sorted(s) \in Seq(Entries) /\ Len(Sorted(s)) = Len(s)
           /\ SortedTo(Sorted(s), Len(s))
  <1>. DEFINE N == Len(s)
              R == CHOOSE f : f = [i \in 0 .. N |-> IF i <= 1 THEN s ELSE Sink(f[i - 1], i)]
              Good(n) == /\ R[n] \in Seq(Entries) /\ Len(R[n]) = N
                         /\ SortedTo(R[n], n)
              S == {n \in Nat : n <= N => Good(n)}
  <1>0. N \in Nat
    OBVIOUS
  <1>1. R = [i \in 0 .. N |-> IF i <= 1 THEN s ELSE Sink(R[i - 1], i)]
    BY <1>0, RoundsExist
  <1>2. Sorted(s) = R[N]
    BY DEF Sorted
  <1>. HIDE DEF R
  <1>3. 0 \in S
    BY <1>0, <1>1 DEF SortedTo
  <1>4. ASSUME NEW n \in Nat, n \in S PROVE n + 1 \in S
    <2>. SUFFICES ASSUME n + 1 <= N PROVE Good(n + 1)
      OBVIOUS
    <2>1. Good(n) /\ n + 1 \in 0 .. N
      BY <1>0, <1>4
    <2>2. CASE n = 0
      BY <2>1, <2>2, <1>0, <1>1 DEF SortedTo
    <2>3. CASE n # 0
      <3>1. R[n + 1] = Sink(R[n], n + 1)
        BY <2>1, <2>3, <1>1
      <3>2. n + 1 \in 1 .. Len(R[n]) /\ (n + 1) - 1 = n
        BY <2>1
      <3>. QED
        BY <2>1, <3>1, <3>2, SinkMoves, SinkSorts
    <2>. QED
      BY <2>2, <2>3
  <1>5. Nat \subseteq S
    <2>. HIDE DEF S
    <2>. QED
      BY <1>3, <1>4, NatSetInduction
  <1>. QED
    BY <1>0, <1>2, <1>5


-----------------------------------------------------------------------------
\* The executors: ids are used once, and the stored one is not being started.
ServersOK ==
    /\ running \subseteq 1 .. starts
    /\ executor_handle \in {0} \cup 1 .. starts
    /\ executor_handle \notin starting

\* Queue ids are used once.
QueuesOK == live \subseteq 1 .. next_queue_id - 1

Buffered(r) == \E q \in QueueIds : \E i \in 1 .. Len(buffered[q]) : buffered[q][i] = r

\* A request has no sender before handle() makes its channel, and nobody has seen it
\* before enqueue_serialized is through.
RequestsOK ==
    \A r \in Requests :
        /\ req[r] = "new" => r \notin pending /\ r \notin responding
        /\ req[r] \in {"new", "404", "500", "routed", "pushed"} =>
              ~Buffered(r) /\ r \notin delivered

\* The routes are in the order that makes the first match the longest.
RoutesSorted == SortedTo(routes, Len(routes))

\* The inductive invariant.
IInv ==
    /\ TypeOK /\ ServersOK /\ QueuesOK /\ RequestsOK
    /\ DeliveredOnce /\ OneSender /\ NoOrphanServer /\ RoutesSorted

\* What RECV_REQUEST, DESTROY_QUEUE and the bookkeeping of requests leave alone.
LEMMA BuffersFrame ==
    ASSUME UNCHANGED buffered
    PROVE  \A r : Buffered(r)' <=> Buffered(r)
  BY DEF Buffered

\* An invariant holds on while the state it is about stays the same.
LEMMA Unaffected ==
    ASSUME IInv
    PROVE  /\ UNCHANGED <<starting, running, executor_handle, starts>> =>
                 ServersOK' /\ NoOrphanServer'
           /\ UNCHANGED <<live, next_queue_id>> => QueuesOK'
           /\ UNCHANGED <<buffered, pending, responding, delivered, req>> => RequestsOK'
           /\ UNCHANGED <<live, max, buffered, delivered, target>> => DeliveredOnce'
           /\ UNCHANGED <<pending, responding, req, chan>> => OneSender'
           /\ UNCHANGED routes => RoutesSorted'
  <1>1. UNCHANGED <<starting, running, executor_handle, starts>> => ServersOK' /\ NoOrphanServer'
    BY Zenon DEF IInv, ServersOK, NoOrphanServer
  <1>2. UNCHANGED <<live, next_queue_id>> => QueuesOK'
    BY Zenon DEF IInv, QueuesOK
  <1>3. UNCHANGED <<buffered, pending, responding, delivered, req>> => RequestsOK'
    BY Zenon DEF IInv, RequestsOK, Buffered
  <1>4. UNCHANGED <<live, max, buffered, delivered, target>> => DeliveredOnce'
    <2>. DEFINE Once(b, d, t, m, l) ==
                  /\ \A q1, q2 \in QueueIds : \A i \in DOMAIN b[q1], j \in DOMAIN b[q2] :
                        /\ b[q1][i] \notin d
                        /\ t[b[q1][i]] = q1
                        /\ b[q1][i] = b[q2][j] => q1 = q2 /\ i = j
                  /\ \A q \in QueueIds : Len(b[q]) <= m[q] /\ (q \notin l => b[q] = <<>>)
    <2>1. Once(buffered, delivered, target, max, live)
      BY Zenon DEF IInv, DeliveredOnce
    <2>2. Once(buffered', delivered', target', max', live') => DeliveredOnce'
      BY Zenon DEF DeliveredOnce
    <2>. HIDE DEF Once
    <2>. QED
      BY <2>1, <2>2, Zenon
  <1>5. UNCHANGED <<pending, responding, req, chan>> => OneSender'
    BY Zenon DEF IInv, OneSender
  <1>6. UNCHANGED routes => RoutesSorted'
    BY Zenon DEF IInv, RoutesSorted
  <1>. QED
    BY <1>1, <1>2, <1>3, <1>4, <1>5, <1>6, Zenon

\* route(): the first entry that matches, if there is one.
LEMMA RouteFirst ==
    ASSUME NEW r \in Requests, routes \in Seq(Entries)
    PROVE  \/ /\ RouteIndex(r) = 0
              /\ \A i \in 1 .. Len(routes) : ~Matches(r, routes[i].prefix)
           \/ /\ RouteIndex(r) \in 1 .. Len(routes)
              /\ Matches(r, routes[RouteIndex(r)].prefix)
              /\ \A i \in 1 .. Len(routes) : Matches(r, routes[i].prefix) => RouteIndex(r) <= i
  <1>. DEFINE I == {i \in 1 .. Len(routes) : Matches(r, routes[i].prefix)}
  <1>1. RouteIndex(r) = IF I # {} THEN Min(I) ELSE 0
    BY DEF RouteIndex, SelectInSeq
  <1>2. I # {} => \E m \in I : \A n \in I : m <= n
    <2>1. I \in SUBSET Nat
      OBVIOUS
    <2>. QED
      BY <2>1, LeastMember, Zenon
  <1>3. I # {} => Min(I) \in I /\ \A n \in I : Min(I) <= n
    BY <1>2, Zenon DEF Min
  <1>. QED
    BY <1>1, <1>3

\* RemoveAt on the sorted routes.
LEMMA RemovedAt ==
    ASSUME NEW s \in Seq(Entries), NEW i \in 1 .. Len(s)
    PROVE  /\ RemoveAt(s, i) \in Seq(Entries) /\ Len(RemoveAt(s, i)) = Len(s) - 1
           /\ \A m \in 1 .. Len(s) - 1 : RemoveAt(s, i)[m] = IF m < i THEN s[m] ELSE s[m + 1]
  <1>. DEFINE A == SubSeq(s, 1, i - 1)
              B == SubSeq(s, i + 1, Len(s))
  <1>1. /\ A \in Seq(Entries) /\ Len(A) = i - 1 /\ \A m \in 1 .. i - 1 : A[m] = s[m]
    OBVIOUS
  <1>2. /\ B \in Seq(Entries) /\ Len(B) = Len(s) - i
        /\ \A m \in 1 .. Len(s) - i : B[m] = s[m + i]
    OBVIOUS
  <1>3. RemoveAt(s, i) = A \o B
    BY DEF RemoveAt
  <1>. HIDE DEF A, B
  <1>4. /\ A \o B \in Seq(Entries) /\ Len(A \o B) = Len(A) + Len(B)
        /\ \A m \in 1 .. Len(A) + Len(B) : (A \o B)[m] = IF m <= Len(A) THEN A[m] ELSE B[m - Len(A)]
    <2>1. A \in Seq(Entries) /\ B \in Seq(Entries)
      BY <1>1, <1>2
    <2>. QED
      BY <2>1, Concatenated
  <1>5. ASSUME NEW m \in 1 .. Len(s) - 1
        PROVE  (A \o B)[m] = IF m < i THEN s[m] ELSE s[m + 1]
    <2>1. m \in 1 .. Len(A) + Len(B) /\ (m < i <=> m <= Len(A))
      BY <1>1, <1>2
    <2>2. CASE m < i
      BY <2>1, <2>2, <1>1, <1>4
    <2>3. CASE ~(m < i)
      <3>1. m - Len(A) \in 1 .. Len(s) - i /\ (m - Len(A)) + i = m + 1
        BY <2>3, <1>1
      <3>. QED
        BY <2>1, <2>3, <3>1, <1>2, <1>4
    <2>. QED
      BY <2>2, <2>3, Zenon
  <1>. QED
    BY <1>1, <1>2, <1>3, <1>4, <1>5

\* A sorted table is sorted after any of its entries is removed.
LEMMA RemoveKeepsOrder ==
    ASSUME NEW s \in Seq(Entries), NEW i \in 1 .. Len(s), SortedTo(s, Len(s))
    PROVE  SortedTo(RemoveAt(s, i), Len(RemoveAt(s, i)))
  <1>1. /\ RemoveAt(s, i) \in Seq(Entries) /\ Len(RemoveAt(s, i)) = Len(s) - 1
        /\ \A m \in 1 .. Len(s) - 1 : RemoveAt(s, i)[m] = IF m < i THEN s[m] ELSE s[m + 1]
    BY RemovedAt
  <1>. DEFINE t == RemoveAt(s, i)
  <1>. HIDE DEF t
  <1>2. ASSUME NEW a \in 1 .. Len(s) - 1, NEW b \in 1 .. Len(s) - 1, a < b
        PROVE  PrefixLen[t[a].prefix] >= PrefixLen[t[b].prefix]
    <2>. DEFINE a1 == IF a < i THEN a ELSE a + 1
                b1 == IF b < i THEN b ELSE b + 1
    <2>1. a1 \in 1 .. Len(s) /\ b1 \in 1 .. Len(s) /\ a1 < b1 /\ b1 <= Len(s)
      BY <1>2
    <2>2. t[a] = s[a1] /\ t[b] = s[b1]
      BY <1>1 DEF t
    <2>. HIDE DEF a1, b1
    <2>. QED
      BY <2>1, <2>2 DEF SortedTo
  <1>. QED
    BY <1>1, <1>2 DEF SortedTo, t

\* The bridge of a file that was just opened.
LEMMA InitIInv == Init => IInv
  <1>. SUFFICES ASSUME Init PROVE IInv
    OBVIOUS
  <1>. USE BridgeAssumption DEF Init, QueueIds, Executors
  <1>1. TypeOK
    <2>1. <<>> \in Seq(Requests) /\ <<>> \in Seq(Entries)
      OBVIOUS
    <2>. QED
      BY <2>1 DEF TypeOK
  <1>2. ServersOK /\ QueuesOK /\ NoOrphanServer
    BY DEF ServersOK, QueuesOK, NoOrphanServer
  <1>3. RequestsOK /\ OneSender
    BY DEF RequestsOK, OneSender, Buffered
  <1>4. DeliveredOnce
    BY DEF DeliveredOnce
  <1>5. RoutesSorted
    BY DEF RoutesSorted, SortedTo
  <1>. QED
    BY <1>1, <1>2, <1>3, <1>4, <1>5 DEF IInv


-----------------------------------------------------------------------------
\* SERVER_START.
LEMMA ServerStartStep ==
    ASSUME IInv, ServerStart
    PROVE  IInv'
  <1>. USE BridgeAssumption DEF queueVars, routeVars, reqVars, serverVars
  <1>inv. /\ TypeOK /\ ServersOK /\ QueuesOK /\ RequestsOK
          /\ DeliveredOnce /\ OneSender /\ NoOrphanServer /\ RoutesSorted
    BY DEF IInv
  <1>same. UNCHANGED <<live, max, buffered, next_queue_id, routes, pending,
                      responding, delivered, req, target, chan>>
    BY Zenon DEF ServerStart, queueVars, routeVars, reqVars, serverVars
  <1>frame. QueuesOK' /\ RequestsOK' /\ DeliveredOnce' /\ OneSender' /\ RoutesSorted'
    BY <1>same, Unaffected, Zenon
  <1>1. TypeOK'
    BY <1>inv DEF ServerStart, TypeOK, ServersOK, Executors
  <1>2. ServersOK'
    BY <1>inv DEF ServerStart, ServersOK, TypeOK
  <1>7. NoOrphanServer'
    BY <1>inv DEF ServerStart, NoOrphanServer, TypeOK, ServersOK
  <1>. QED
    BY <1>frame, <1>1, <1>2, <1>7, Zenon DEF IInv

\* SERVER_START stores its handle.
LEMMA ServerStartedStep ==
    ASSUME IInv, NEW e \in Executors, ServerStarted(e)
    PROVE  IInv'
  <1>. USE BridgeAssumption DEF queueVars, routeVars, reqVars, serverVars
  <1>inv. /\ TypeOK /\ ServersOK /\ QueuesOK /\ RequestsOK
          /\ DeliveredOnce /\ OneSender /\ NoOrphanServer /\ RoutesSorted
    BY DEF IInv
  <1>same. UNCHANGED <<live, max, buffered, next_queue_id, routes, delivered, target>>
    BY Zenon DEF ServerStarted, StopExecutor, queueVars, routeVars, reqVars, serverVars
  <1>frame. QueuesOK' /\ DeliveredOnce' /\ RoutesSorted'
    BY <1>same, Unaffected, Zenon
  <1>1. TypeOK'
    BY <1>inv DEF ServerStarted, StopExecutor, TypeOK, ServersOK, Statuses
  <1>2. ServersOK'
    BY <1>inv DEF ServerStarted, StopExecutor, ServersOK, TypeOK
  <1>4. RequestsOK'
    BY <1>inv DEF ServerStarted, StopExecutor, RequestsOK, Buffered
  <1>6. OneSender'
    BY <1>inv DEF ServerStarted, StopExecutor, OneSender, TypeOK
  <1>7. NoOrphanServer'
    BY <1>inv DEF ServerStarted, StopExecutor, NoOrphanServer, TypeOK, ServersOK
  <1>. QED
    BY <1>frame, <1>1, <1>2, <1>4, <1>6, <1>7, Zenon DEF IInv

\* SERVER_STOP.
LEMMA ServerStopStep ==
    ASSUME IInv, ServerStop
    PROVE  IInv'
  <1>. USE BridgeAssumption DEF queueVars, routeVars, reqVars, serverVars
  <1>inv. /\ TypeOK /\ ServersOK /\ QueuesOK /\ RequestsOK
          /\ DeliveredOnce /\ OneSender /\ NoOrphanServer /\ RoutesSorted
    BY DEF IInv
  <1>same. UNCHANGED <<live, max, buffered, next_queue_id, routes, delivered, target>>
    BY Zenon DEF ServerStop, StopExecutor, queueVars, routeVars, reqVars, serverVars
  <1>frame. QueuesOK' /\ DeliveredOnce' /\ RoutesSorted'
    BY <1>same, Unaffected, Zenon
  <1>1. TypeOK'
    BY <1>inv DEF ServerStop, StopExecutor, TypeOK, ServersOK, Statuses
  <1>2. ServersOK'
    BY <1>inv DEF ServerStop, StopExecutor, ServersOK, TypeOK
  <1>4. RequestsOK'
    BY <1>inv DEF ServerStop, StopExecutor, RequestsOK, Buffered
  <1>6. OneSender'
    BY <1>inv DEF ServerStop, StopExecutor, OneSender, TypeOK
  <1>7. NoOrphanServer'
    BY <1>inv DEF ServerStop, StopExecutor, NoOrphanServer, TypeOK, ServersOK
  <1>. QED
    BY <1>frame, <1>1, <1>2, <1>4, <1>6, <1>7, Zenon DEF IInv

\* CREATE_QUEUE.
LEMMA CreateQueueStep ==
    ASSUME IInv, NEW m \in MaxPendings, NEW pushed \in BOOLEAN, CreateQueue(m, pushed)
    PROVE  IInv'
  <1>. USE BridgeAssumption DEF queueVars, routeVars, reqVars, serverVars
  <1>inv. /\ TypeOK /\ ServersOK /\ QueuesOK /\ RequestsOK
          /\ DeliveredOnce /\ OneSender /\ NoOrphanServer /\ RoutesSorted
    BY DEF IInv
  <1>same. UNCHANGED <<buffered, routes, pending, responding, delivered, req,
                      chan, starting, running, executor_handle, starts>>
    BY Zenon DEF CreateQueue, queueVars, routeVars, reqVars, serverVars
  <1>frame. ServersOK' /\ RequestsOK' /\ OneSender' /\ NoOrphanServer' /\ RoutesSorted'
    BY <1>same, Unaffected, Zenon
  <1>1. TypeOK'
    BY <1>inv DEF CreateQueue, TypeOK, QueueIds
  <1>3. QueuesOK'
    <2>1. live' \subseteq live \cup {next_queue_id} /\ next_queue_id' = next_queue_id + 1
      BY Zenon DEF CreateQueue
    <2>2. next_queue_id \in Nat \ {0}
      BY <1>inv DEF TypeOK
    <2>. QED
      BY <2>1, <2>2, <1>inv DEF QueuesOK
  <1>5. DeliveredOnce'
    <2>1. next_queue_id \in QueueIds /\ next_queue_id \notin live
      BY <1>inv DEF CreateQueue, QueuesOK, TypeOK, QueueIds
    <2>2. buffered[next_queue_id] = <<>> /\ Len(<<>>) = 0
      BY <2>1, <1>inv DEF DeliveredOnce
    <2>3. /\ max'[next_queue_id] \in Nat /\ UNCHANGED <<buffered, delivered, target>>
          /\ \A q \in QueueIds \ {next_queue_id} : max'[q] = max[q]
          /\ \A q \in QueueIds : q \notin live' => q \notin live
      BY <2>1, <1>inv DEF CreateQueue, TypeOK
    <2>4. \A q \in QueueIds : Len(buffered[q]) <= max'[q]
      BY <2>2, <2>3, <1>inv DEF DeliveredOnce
    <2>. QED
      BY <2>3, <2>4, <1>inv DEF DeliveredOnce
  <1>. QED
    BY <1>frame, <1>1, <1>3, <1>5, Zenon DEF IInv

\* DESTROY_QUEUE.
LEMMA DestroyQueueStep ==
    ASSUME IInv, NEW q \in QueueIds, DestroyQueue(q)
    PROVE  IInv'
  <1>. USE BridgeAssumption DEF queueVars, routeVars, reqVars, serverVars
  <1>inv. /\ TypeOK /\ ServersOK /\ QueuesOK /\ RequestsOK
          /\ DeliveredOnce /\ OneSender /\ NoOrphanServer /\ RoutesSorted
    BY DEF IInv
  <1>same. UNCHANGED <<routes, pending, responding, req, chan,
                      starting, running, executor_handle, starts>>
    BY Zenon DEF DestroyQueue, queueVars, routeVars, reqVars, serverVars
  <1>frame. ServersOK' /\ OneSender' /\ NoOrphanServer' /\ RoutesSorted'
    BY <1>same, Unaffected, Zenon
  <1>buf. /\ buffered'[q] = <<>> /\ \A p \in QueueIds \ {q} : buffered'[p] = buffered[p]
          /\ Len(<<>>) = 0 /\ DOMAIN <<>> = {}
    BY <1>inv DEF DestroyQueue, TypeOK
  <1>1. TypeOK'
    <2>1. <<>> \in Seq(Requests)
      OBVIOUS
    <2>. QED
      BY <2>1, <1>inv DEF DestroyQueue, TypeOK
  <1>3. QueuesOK'
    BY <1>inv DEF DestroyQueue, QueuesOK
  <1>4. RequestsOK'
    <2>1. \A r : Buffered(r)' => Buffered(r)
      BY <1>buf DEF Buffered
    <2>. QED
      BY <2>1, <1>inv DEF DestroyQueue, RequestsOK
  <1>5. DeliveredOnce'
    <2>1. \A p \in QueueIds : max[p] \in Nat
      BY <1>inv DEF TypeOK
    <2>. QED
      BY <2>1, <1>buf, <1>inv DEF DestroyQueue, DeliveredOnce
  <1>. QED
    BY <1>frame, <1>1, <1>3, <1>4, <1>5, Zenon DEF IInv

\* ADD_URL looks for the queue.
LEMMA AddUrlCheckStep ==
    ASSUME IInv, NEW t \in Threads, NEW p \in Urls, NEW q \in QueueIds, AddUrlCheck(t, p, q)
    PROVE  IInv'
  <1>. USE BridgeAssumption DEF queueVars, routeVars, reqVars, serverVars
  <1>inv. /\ TypeOK /\ ServersOK /\ QueuesOK /\ RequestsOK
          /\ DeliveredOnce /\ OneSender /\ NoOrphanServer /\ RoutesSorted
    BY DEF IInv
  <1>same. UNCHANGED <<live, max, buffered, next_queue_id, routes, pending, responding, delivered,
                      req, target, chan, starting, running, executor_handle, starts>>
    BY Zenon DEF AddUrlCheck, queueVars, routeVars, reqVars, serverVars
  <1>frame. /\ ServersOK' /\ QueuesOK' /\ RequestsOK'
            /\ DeliveredOnce' /\ OneSender' /\ NoOrphanServer' /\ RoutesSorted'
    BY <1>same, Unaffected, Zenon
  <1>1. TypeOK'
    BY <1>inv DEF AddUrlCheck, TypeOK, Entries
  <1>. QED
    BY <1>frame, <1>1, Zenon DEF IInv

\* ADD_URL pushes the entry and sorts.
LEMMA AddUrlStep ==
    ASSUME IInv, NEW t \in Threads, AddUrl(t)
    PROVE  IInv'
  <1>. USE BridgeAssumption DEF queueVars, routeVars, reqVars, serverVars
  <1>inv. /\ TypeOK /\ ServersOK /\ QueuesOK /\ RequestsOK
          /\ DeliveredOnce /\ OneSender /\ NoOrphanServer /\ RoutesSorted
    BY DEF IInv
  <1>same. UNCHANGED <<live, max, buffered, next_queue_id, pending, responding, delivered, req,
                      target, chan, starting, running, executor_handle, starts>>
    BY Zenon DEF AddUrl, queueVars, routeVars, reqVars, serverVars
  <1>frame. /\ ServersOK' /\ QueuesOK' /\ RequestsOK'
            /\ DeliveredOnce' /\ OneSender' /\ NoOrphanServer'
    BY <1>same, Unaffected, Zenon
  <1>sorted. /\ routes' \in Seq(Entries)
             /\ routes' = routes \/ SortedTo(routes', Len(routes'))
    <2>1. adding[t] \in Seq(Entries)
      <3>1. PICK e \in Entries : adding[t] = <<e>>
        BY <1>inv DEF TypeOK, AddUrl
      <3>. QED
        BY <3>1
    <2>2. routes \o adding[t] \in Seq(Entries)
      BY <2>1, <1>inv DEF TypeOK
    <2>3. CASE routes' = Sorted(routes \o adding[t])
      <3>. DEFINE u == routes \o adding[t]
      <3>1. u \in Seq(Entries)
        BY <2>2
      <3>2. routes' = Sorted(u)
        BY <2>3
      <3>. HIDE DEF u
      <3>. QED
        BY <3>1, <3>2, SortSorts
    <2>4. CASE UNCHANGED routes
      BY <2>4, <1>inv DEF TypeOK
    <2>. QED
      BY <2>3, <2>4 DEF AddUrl
  <1>1. TypeOK'
    BY <1>inv, <1>sorted DEF AddUrl, TypeOK
  <1>8. RoutesSorted'
    BY <1>sorted, <1>inv DEF RoutesSorted
  <1>. QED
    BY <1>frame, <1>1, <1>8, Zenon DEF IInv

\* REMOVE_URL.
LEMMA RemoveUrlStep ==
    ASSUME IInv, NEW i \in DOMAIN routes, RemoveUrl(i)
    PROVE  IInv'
  <1>. USE BridgeAssumption DEF queueVars, routeVars, reqVars, serverVars
  <1>inv. /\ TypeOK /\ ServersOK /\ QueuesOK /\ RequestsOK
          /\ DeliveredOnce /\ OneSender /\ NoOrphanServer /\ RoutesSorted
    BY DEF IInv
  <1>same. UNCHANGED <<live, max, buffered, next_queue_id, pending, responding, delivered, req,
                      target, chan, starting, running, executor_handle, starts>>
    BY Zenon DEF RemoveUrl, queueVars, routeVars, reqVars, serverVars
  <1>frame. /\ ServersOK' /\ QueuesOK' /\ RequestsOK'
            /\ DeliveredOnce' /\ OneSender' /\ NoOrphanServer'
    BY <1>same, Unaffected, Zenon
  <1>removed. routes \in Seq(Entries) /\ i \in 1 .. Len(routes) /\ routes' = RemoveAt(routes, i)
    BY <1>inv DEF TypeOK, RemoveUrl
  <1>1. TypeOK'
    BY <1>inv, <1>removed, RemovedAt DEF RemoveUrl, TypeOK
  <1>8. RoutesSorted'
    BY <1>removed, <1>inv, RemoveKeepsOrder DEF RoutesSorted
  <1>. QED
    BY <1>frame, <1>1, <1>8, Zenon DEF IInv


\* handle() up to the channel.
LEMMA HandleRouteStep ==
    ASSUME IInv, NEW r \in Requests, NEW e \in Executors, Handle(r, e)
    PROVE  IInv'
  <1>. USE BridgeAssumption DEF queueVars, routeVars, reqVars, serverVars
  <1>inv. /\ TypeOK /\ ServersOK /\ QueuesOK /\ RequestsOK
          /\ DeliveredOnce /\ OneSender /\ NoOrphanServer /\ RoutesSorted
    BY DEF IInv
  <1>same. UNCHANGED <<live, buffered, next_queue_id, routes, starting,
                      running, executor_handle, starts>>
    BY Zenon DEF Handle, queueVars, routeVars, reqVars, serverVars
  <1>frame. ServersOK' /\ QueuesOK' /\ NoOrphanServer' /\ RoutesSorted'
    BY <1>same, Unaffected, Zenon
  <1>new. /\ Route(r) \in {0} \cup QueueIds
          /\ ~Buffered(r) /\ r \notin pending /\ r \notin responding
          /\ \A q \in QueueIds : DOMAIN buffered[q] = 1 .. Len(buffered[q])
    <2>1. routes \in Seq(Entries)
      BY <1>inv DEF TypeOK
    <2>2. Route(r) \in {0} \cup QueueIds
      <3>0. \A k \in 1 .. Len(routes) : routes[k] \in Entries
        BY <2>1
      <3>1. \A k \in 1 .. Len(routes) : routes[k].queue \in QueueIds
        BY <3>0 DEF Entries
      <3>2. RouteIndex(r) = 0 \/ RouteIndex(r) \in 1 .. Len(routes)
        BY <2>1, RouteFirst
      <3>. QED
        BY <3>1, <3>2 DEF Route
    <2>. QED
      BY <2>2, <1>inv DEF Handle, RequestsOK, TypeOK
  <1>1. TypeOK'
    BY <1>inv, <1>new, Zenon DEF Handle, TypeOK, Statuses
  <1>4. RequestsOK'
    <2>1. \A x : Buffered(x)' => Buffered(x)
      BY <1>same, BuffersFrame
    <2>. QED
      BY <2>1, <1>inv DEF Handle, RequestsOK, TypeOK, Statuses
  <1>5. DeliveredOnce'
    <2>1. \A q \in QueueIds : \A i \in DOMAIN buffered[q] : buffered[q][i] # r
      BY <1>new DEF Buffered
    <2>2. \A q \in QueueIds : \A i \in DOMAIN buffered[q] :
             target'[buffered[q][i]] = target[buffered[q][i]]
      BY <2>1, <1>inv DEF Handle, TypeOK
    <2>3. UNCHANGED <<buffered, delivered, max, live>>
      BY DEF Handle
    <2>. QED
      BY <2>2, <2>3, <1>inv DEF DeliveredOnce
  <1>6. OneSender'
    BY <1>inv, <1>new DEF Handle, OneSender, TypeOK
  <1>. QED
    BY <1>frame, <1>1, <1>4, <1>5, <1>6, Zenon DEF IInv

\* enqueue_serialized, the pending entry.
LEMMA EnqueuePendingStep ==
    ASSUME IInv, NEW r \in Requests, NEW pushed \in BOOLEAN, EnqueuePending(r, pushed)
    PROVE  IInv'
  <1>. USE BridgeAssumption DEF queueVars, routeVars, reqVars, serverVars
  <1>inv. /\ TypeOK /\ ServersOK /\ QueuesOK /\ RequestsOK
          /\ DeliveredOnce /\ OneSender /\ NoOrphanServer /\ RoutesSorted
    BY DEF IInv
  <1>same. UNCHANGED <<live, max, buffered, next_queue_id, routes, delivered,
                      target, starting, running, executor_handle, starts>>
    BY Zenon DEF EnqueuePending, queueVars, routeVars, reqVars, serverVars
  <1>frame. ServersOK' /\ QueuesOK' /\ DeliveredOnce' /\ NoOrphanServer' /\ RoutesSorted'
    BY <1>same, Unaffected, Zenon
  <1>1. TypeOK'
    BY <1>inv, Zenon DEF EnqueuePending, TypeOK, Statuses
  <1>4. RequestsOK'
    <2>1. \A x : Buffered(x)' => Buffered(x)
      BY <1>same, BuffersFrame
    <2>. QED
      BY <2>1, <1>inv DEF EnqueuePending, RequestsOK, TypeOK, Statuses
  <1>6. OneSender'
    BY <1>inv DEF EnqueuePending, OneSender, TypeOK
  <1>. QED
    BY <1>frame, <1>1, <1>4, <1>6, Zenon DEF IInv

\* enqueue_serialized, the buffer.
LEMMA EnqueueBufferedStep ==
    ASSUME IInv, NEW r \in Requests, NEW pushed \in BOOLEAN, EnqueueBuffered(r, pushed)
    PROVE  IInv'
  <1>. USE BridgeAssumption DEF queueVars, routeVars, reqVars, serverVars
  <1>inv. /\ TypeOK /\ ServersOK /\ QueuesOK /\ RequestsOK
          /\ DeliveredOnce /\ OneSender /\ NoOrphanServer /\ RoutesSorted
    BY DEF IInv
  <1>same. UNCHANGED <<live, next_queue_id, routes, starting,
                      running, executor_handle, starts>>
    BY Zenon DEF EnqueueBuffered, queueVars, routeVars, reqVars, serverVars
  <1>frame. ServersOK' /\ QueuesOK' /\ NoOrphanServer' /\ RoutesSorted'
    BY <1>same, Unaffected, Zenon
  <1>buf. \/ UNCHANGED buffered
          \/ \E q \in QueueIds :
                /\ q = target[r] /\ q \in live /\ Len(buffered[q]) < max[q]
                /\ buffered' = [buffered EXCEPT ![q] = Append(buffered[q], r)]
                /\ buffered'[q] = Append(buffered[q], r)
                /\ \A p \in QueueIds \ {q} : buffered'[p] = buffered[p]
    BY <1>inv, Zenon DEF EnqueueBuffered, TypeOK
  <1>1. TypeOK'
    <2>1. buffered' \in [QueueIds -> Seq(Requests)]
      <3>1. \A q \in QueueIds : Append(buffered[q], r) \in Seq(Requests)
        BY <1>inv DEF TypeOK
      <3>2. buffered \in [QueueIds -> Seq(Requests)]
        BY <1>inv DEF TypeOK
      <3>3. CASE UNCHANGED buffered
        BY <3>2, <3>3
      <3>4. CASE ~UNCHANGED buffered
        <4>1. PICK q \in QueueIds : buffered' = [buffered EXCEPT ![q] = Append(buffered[q], r)]
          BY <3>4, <1>buf
        <4>2. PICK b \in Seq(Requests) : b = Append(buffered[q], r)
          BY <3>1, Zenon
        <4>. QED
          BY <3>2, <4>1, <4>2
      <3>. QED
        BY <3>3, <3>4
    <2>. QED
      BY <2>1, <1>inv DEF EnqueueBuffered, TypeOK, Statuses
  <1>4. RequestsOK'
    <2>1. \A x : Buffered(x)' => Buffered(x) \/ x = r
      <3>1. CASE UNCHANGED buffered
        BY <3>1 DEF Buffered
      <3>2. CASE ~UNCHANGED buffered
        <4>1. PICK q \in QueueIds :
                /\ buffered'[q] = Append(buffered[q], r) /\ buffered[q] \in Seq(Requests)
                /\ \A p \in QueueIds \ {q} : buffered'[p] = buffered[p]
          BY <3>2, <1>buf, <1>inv, Zenon DEF TypeOK
        <4>2. \A i \in 1 .. Len(buffered'[q]) :
                 \/ buffered'[q][i] = r
                 \/ (i \in 1 .. Len(buffered[q]) /\ buffered'[q][i] = buffered[q][i])
          BY <4>1
        <4>. QED
          BY <4>1, <4>2, Zenon DEF Buffered
      <3>. QED
        BY <3>1, <3>2
    <2>. QED
      BY <2>1, <1>inv DEF EnqueueBuffered, RequestsOK, TypeOK, Statuses
  <1>5. DeliveredOnce'
    <2>1. CASE UNCHANGED buffered
      <3>1. UNCHANGED <<live, max, delivered, target>>
        BY Zenon DEF EnqueueBuffered
      <3>. QED
        BY <2>1, <3>1, Unaffected, Zenon
    <2>2. CASE ~UNCHANGED buffered
      <3>1. /\ r \notin delivered /\ ~Buffered(r)
            /\ \A q \in QueueIds : DOMAIN buffered[q] = 1 .. Len(buffered[q])
            /\ \A q \in QueueIds : buffered[q] \in Seq(Requests) /\ max[q] \in Nat
            /\ \A q \in QueueIds : Len(buffered[q]) \in Nat
            /\ UNCHANGED <<target, delivered, max, live>>
        BY <1>inv DEF EnqueueBuffered, RequestsOK, TypeOK
      <3>2. PICK q \in QueueIds :
              /\ q = target[r] /\ q \in live /\ Len(buffered[q]) < max[q]
              /\ buffered'[q] = Append(buffered[q], r)
              /\ \A p \in QueueIds \ {q} : buffered'[p] = buffered[p]
        BY <1>buf, <2>2
      <3>3. /\ DOMAIN buffered'[q] = 1 .. Len(buffered[q]) + 1
            /\ Len(buffered'[q]) = Len(buffered[q]) + 1
            /\ \A i \in 1 .. Len(buffered[q]) : buffered'[q][i] = buffered[q][i]
            /\ buffered'[q][Len(buffered[q]) + 1] = r
        BY <3>1, <3>2
      <3>4. \A p \in QueueIds : \A i \in DOMAIN buffered'[p] :
              \/ i \in DOMAIN buffered[p] /\ buffered'[p][i] = buffered[p][i] /\ buffered[p][i] # r
              \/ p = q /\ i = Len(buffered[q]) + 1 /\ buffered'[p][i] = r
        <4>1. \A p \in QueueIds : \A i \in DOMAIN buffered[p] : buffered[p][i] # r
          BY <3>1 DEF Buffered
        <4>2. \A i \in 1 .. Len(buffered[q]) + 1 :
                 i \in 1 .. Len(buffered[q]) \/ i = Len(buffered[q]) + 1
          BY <3>1
        <4>3. \A i \in DOMAIN buffered'[q] :
              \/ i \in DOMAIN buffered[q] /\ buffered'[q][i] = buffered[q][i] /\ buffered[q][i] # r
              \/ i = Len(buffered[q]) + 1 /\ buffered'[q][i] = r
          BY <4>1, <4>2, <3>1, <3>3, Zenon
        <4>. QED
          BY <4>1, <4>3, <3>2, Zenon
      <3>5. \A q1, q2 \in QueueIds : \A i \in DOMAIN buffered'[q1], j \in DOMAIN buffered'[q2] :
              /\ buffered'[q1][i] \notin delivered
              /\ target[buffered'[q1][i]] = q1
              /\ buffered'[q1][i] = buffered'[q2][j] => q1 = q2 /\ i = j
        <4>1. \A q1, q2 \in QueueIds : \A i \in DOMAIN buffered[q1], j \in DOMAIN buffered[q2] :
                /\ buffered[q1][i] \notin delivered
                /\ target[buffered[q1][i]] = q1
                /\ buffered[q1][i] = buffered[q2][j] => q1 = q2 /\ i = j
          BY <1>inv, Zenon DEF DeliveredOnce
        <4>2. r \notin delivered /\ target[r] = q
          BY <3>1, <3>2, Zenon
        <4>. QED
          BY <4>1, <4>2, <3>4
      <3>6. \A p \in QueueIds : /\ Len(buffered'[p]) <= max[p]
                                /\ p \notin live => buffered'[p] = <<>>
        BY <3>1, <3>2, <3>3, <1>inv DEF DeliveredOnce
      <3>. QED
        BY <3>1, <3>5, <3>6 DEF DeliveredOnce
    <2>. QED
      BY <2>1, <2>2
  <1>6. OneSender'
    BY <1>inv DEF EnqueueBuffered, OneSender, TypeOK
  <1>. QED
    BY <1>frame, <1>1, <1>4, <1>5, <1>6, Zenon DEF IInv

\* The receiver is answered.
LEMMA AnswerStep ==
    ASSUME IInv, NEW r \in Requests, Answer(r)
    PROVE  IInv'
  <1>. USE BridgeAssumption DEF queueVars, routeVars, reqVars, serverVars
  <1>inv. /\ TypeOK /\ ServersOK /\ QueuesOK /\ RequestsOK
          /\ DeliveredOnce /\ OneSender /\ NoOrphanServer /\ RoutesSorted
    BY DEF IInv
  <1>same. UNCHANGED <<live, max, buffered, next_queue_id, routes, delivered,
                      target, starting, running, executor_handle, starts>>
    BY Zenon DEF Answer, queueVars, routeVars, reqVars, serverVars
  <1>frame. ServersOK' /\ QueuesOK' /\ DeliveredOnce' /\ NoOrphanServer' /\ RoutesSorted'
    BY <1>same, Unaffected, Zenon
  <1>1. TypeOK'
    BY <1>inv DEF Answer, TypeOK, Statuses
  <1>4. RequestsOK'
    <2>1. \A x : Buffered(x)' => Buffered(x)
      BY <1>same, BuffersFrame
    <2>. QED
      BY <2>1, <1>inv DEF Answer, RequestsOK, TypeOK, Statuses
  <1>6. OneSender'
    BY <1>inv DEF Answer, OneSender, TypeOK
  <1>. QED
    BY <1>frame, <1>1, <1>4, <1>6, Zenon DEF IInv

\* RECV_REQUEST.
LEMMA RecvRequestStep ==
    ASSUME IInv, NEW q \in QueueIds, NEW copied \in BOOLEAN, RecvRequest(q, copied)
    PROVE  IInv'
  <1>. USE BridgeAssumption DEF queueVars, routeVars, reqVars, serverVars
  <1>inv. /\ TypeOK /\ ServersOK /\ QueuesOK /\ RequestsOK
          /\ DeliveredOnce /\ OneSender /\ NoOrphanServer /\ RoutesSorted
    BY DEF IInv
  <1>same. UNCHANGED <<live, next_queue_id, routes, pending, responding, req, chan,
                      starting, running, executor_handle, starts>>
    BY Zenon DEF RecvRequest, queueVars, routeVars, reqVars, serverVars
  <1>frame. ServersOK' /\ QueuesOK' /\ OneSender' /\ NoOrphanServer' /\ RoutesSorted'
    BY <1>same, Unaffected, Zenon
  <1>buf. /\ buffered' = [buffered EXCEPT ![q] = Tail(buffered[q])]
          /\ buffered[q] \in Seq(Requests) /\ Len(buffered[q]) \in Nat /\ Len(buffered[q]) > 0
          /\ buffered'[q] = Tail(buffered[q]) /\ Len(buffered'[q]) = Len(buffered[q]) - 1
          /\ Tail(buffered[q]) \in Seq(Requests)
          /\ Head(buffered[q]) = buffered[q][1] /\ Head(buffered[q]) \in Requests
          /\ \A i \in 1 .. Len(buffered[q]) - 1 : buffered'[q][i] = buffered[q][i + 1]
          /\ \A p \in QueueIds \ {q} : buffered'[p] = buffered[p]
    BY <1>inv DEF RecvRequest, TypeOK
  <1>at. /\ \A p \in QueueIds : DOMAIN buffered[p] = 1 .. Len(buffered[p])
         /\ \A p \in QueueIds : DOMAIN buffered'[p] = 1 .. Len(buffered'[p])
         /\ \A p \in QueueIds : \A i \in 1 .. Len(buffered'[p]) :
               /\ i \in Nat
               /\ p # q => i \in 1 .. Len(buffered[p]) /\ buffered'[p][i] = buffered[p][i]
               /\ p = q => i + 1 \in 1 .. Len(buffered[p]) /\ buffered'[p][i] = buffered[p][i + 1]
    BY <1>buf, <1>inv DEF TypeOK
  <1>1. TypeOK'
    <2>1. buffered' \in [QueueIds -> Seq(Requests)] /\ delivered' \in SUBSET Requests
      BY <1>inv, <1>buf DEF TypeOK, RecvRequest
    <2>. QED
      BY <2>1, <1>inv DEF RecvRequest, TypeOK
  <1>4. RequestsOK'
    <2>1. \A x : Buffered(x)' => Buffered(x)
      BY <1>at, Zenon DEF Buffered
    <2>2. Buffered(Head(buffered[q])) /\ delivered' \subseteq delivered \cup {Head(buffered[q])}
      BY <1>buf DEF Buffered, RecvRequest
    <2>. QED
      BY <2>1, <2>2, <1>inv DEF RecvRequest, RequestsOK
  <1>5. DeliveredOnce'
    <2>1. /\ delivered' \subseteq delivered \cup {buffered[q][1]}
          /\ 1 \in DOMAIN buffered[q]
          /\ UNCHANGED <<target, max, live>>
      BY <1>buf DEF RecvRequest
    <2>2. \A p \in QueueIds : \A i \in DOMAIN buffered'[p] : \E j \in DOMAIN buffered[p] :
            /\ buffered'[p][i] = buffered[p][j]
            /\ j = (IF p = q THEN i + 1 ELSE i)
            /\ i \in Nat /\ (p = q => j # 1)
      BY <1>at, <1>buf
    <2>3. \A q1, q2 \in QueueIds : \A i \in DOMAIN buffered'[q1], j \in DOMAIN buffered'[q2] :
            /\ buffered'[q1][i] \notin delivered'
            /\ target[buffered'[q1][i]] = q1
            /\ buffered'[q1][i] = buffered'[q2][j] => q1 = q2 /\ i = j
      BY <2>1, <2>2, <1>inv DEF DeliveredOnce
    <2>4. \A p \in QueueIds : /\ Len(buffered'[p]) <= max[p]
                              /\ p \notin live => buffered'[p] = <<>>
      <3>1. \A p \in QueueIds : max[p] \in Nat /\ Len(buffered[p]) \in Nat
        BY <1>inv DEF TypeOK
      <3>2. q \in live
        BY DEF RecvRequest
      <3>. QED
        BY <3>1, <3>2, <1>buf, <1>inv DEF DeliveredOnce
    <2>. QED
      BY <2>1, <2>3, <2>4 DEF DeliveredOnce
  <1>. QED
    BY <1>frame, <1>1, <1>4, <1>5, Zenon DEF IInv

\* SEND_RESPONSE takes the pending entry.
LEMMA SendResponseTakeStep ==
    ASSUME IInv, NEW r \in Requests, SendResponseTake(r)
    PROVE  IInv'
  <1>. USE BridgeAssumption DEF queueVars, routeVars, reqVars, serverVars
  <1>inv. /\ TypeOK /\ ServersOK /\ QueuesOK /\ RequestsOK
          /\ DeliveredOnce /\ OneSender /\ NoOrphanServer /\ RoutesSorted
    BY DEF IInv
  <1>same. UNCHANGED <<live, max, buffered, next_queue_id, routes, delivered,
                      target, starting, running, executor_handle, starts>>
    BY Zenon DEF SendResponseTake, queueVars, routeVars, reqVars, serverVars
  <1>frame. ServersOK' /\ QueuesOK' /\ DeliveredOnce' /\ NoOrphanServer' /\ RoutesSorted'
    BY <1>same, Unaffected, Zenon
  <1>1. TypeOK'
    BY <1>inv DEF SendResponseTake, TypeOK
  <1>4. RequestsOK'
    <2>1. \A x : Buffered(x)' => Buffered(x)
      BY <1>same, BuffersFrame
    <2>. QED
      BY <2>1, <1>inv DEF SendResponseTake, RequestsOK, TypeOK, Statuses
  <1>6. OneSender'
    BY <1>inv DEF SendResponseTake, OneSender, TypeOK
  <1>. QED
    BY <1>frame, <1>1, <1>4, <1>6, Zenon DEF IInv

\* SEND_RESPONSE uses the sender up.
LEMMA SendResponseStep ==
    ASSUME IInv, NEW r \in Requests, NEW copied \in BOOLEAN, SendResponse(r, copied)
    PROVE  IInv'
  <1>. USE BridgeAssumption DEF queueVars, routeVars, reqVars, serverVars
  <1>inv. /\ TypeOK /\ ServersOK /\ QueuesOK /\ RequestsOK
          /\ DeliveredOnce /\ OneSender /\ NoOrphanServer /\ RoutesSorted
    BY DEF IInv
  <1>same. UNCHANGED <<live, max, buffered, next_queue_id, routes, delivered,
                      target, starting, running, executor_handle, starts>>
    BY Zenon DEF SendResponse, queueVars, routeVars, reqVars, serverVars
  <1>frame. ServersOK' /\ QueuesOK' /\ DeliveredOnce' /\ NoOrphanServer' /\ RoutesSorted'
    BY <1>same, Unaffected, Zenon
  <1>1. TypeOK'
    BY <1>inv DEF SendResponse, TypeOK
  <1>4. RequestsOK'
    <2>1. \A x : Buffered(x)' => Buffered(x)
      BY <1>same, BuffersFrame
    <2>. QED
      BY <2>1, <1>inv DEF SendResponse, RequestsOK, TypeOK, Statuses
  <1>6. OneSender'
    BY <1>inv DEF SendResponse, OneSender, TypeOK
  <1>. QED
    BY <1>frame, <1>1, <1>4, <1>6, Zenon DEF IInv

-----------------------------------------------------------------------------
\* Every command and every step of the handler preserves the invariant.
LEMMA NextIInv == IInv /\ [Next]_vars => IInv'
  <1>. SUFFICES ASSUME IInv, [Next]_vars PROVE IInv'
    OBVIOUS
  <1>1. CASE ServerStart \/ ServerStop \/ \E e \in Executors : ServerStarted(e)
    BY <1>1, ServerStartStep, ServerStopStep, ServerStartedStep
  <1>2. CASE \E m \in MaxPendings, pushed \in BOOLEAN : CreateQueue(m, pushed)
    BY <1>2, CreateQueueStep
  <1>3. CASE \E q \in QueueIds : DestroyQueue(q)
    BY <1>3, DestroyQueueStep
  <1>4. CASE \E t \in Threads, p \in Urls, q \in QueueIds : AddUrlCheck(t, p, q)
    BY <1>4, AddUrlCheckStep
  <1>5. CASE \E t \in Threads : AddUrl(t)
    BY <1>5, AddUrlStep
  <1>6. CASE \E i \in DOMAIN routes : RemoveUrl(i)
    BY <1>6, RemoveUrlStep
  <1>7. CASE \E r \in Requests, e \in Executors : Handle(r, e)
    BY <1>7, HandleRouteStep
  <1>8. CASE \E r \in Requests : HandleStep(r)
    BY <1>8, EnqueuePendingStep, EnqueueBufferedStep, AnswerStep DEF HandleStep
  <1>9. CASE \E q \in QueueIds, copied \in BOOLEAN : RecvRequest(q, copied)
    BY <1>9, RecvRequestStep
  <1>10. CASE \E r \in Requests : SendResponseTake(r)
    BY <1>10, SendResponseTakeStep
  <1>11. CASE \E r \in Requests, copied \in BOOLEAN : SendResponse(r, copied)
    BY <1>11, SendResponseStep
  <1>12. CASE UNCHANGED vars
    <2>1. UNCHANGED <<live, max, buffered, next_queue_id, routes, pending, responding, delivered,
                      req, target, chan, starting, running, executor_handle, starts>>
      BY <1>12, Zenon DEF vars, queueVars, routeVars, reqVars, serverVars
    <2>2. TypeOK'
      BY <1>12, Zenon DEF vars, queueVars, routeVars, reqVars, serverVars, IInv, TypeOK
    <2>. QED
      BY <2>1, <2>2, Unaffected, Zenon DEF IInv
  <1>. QED
    BY <1>1, <1>2, <1>3, <1>4, <1>5, <1>6, <1>7, <1>8, <1>9, <1>10, <1>11, <1>12 DEF Next

\* The invariant of the bridge holds in every reachable state.
LEMMA InductiveInvariant == Spec => []IInv
  BY InitIInv, NextIInv, PTL DEF Spec

-----------------------------------------------------------------------------
\* Every variable of the bridge, its queues, routes, requests and executors, has its
\* type in every reachable state.
THEOREM TypeCorrect == Spec => []TypeOK
  <1>1. IInv => TypeOK
    BY DEF IInv
  <1>. QED
    BY <1>1, InductiveInvariant, PTL

\* RECV_REQUEST hands each request to userspace at most once, from the queue it was
\* routed to, and no queue exceeds its max_pending or outlives DESTROY_QUEUE with
\* requests in it, for any number of queues, requests and threads.
THEOREM EachDeliveredOnce == Spec => []DeliveredOnce
  <1>1. IInv => DeliveredOnce
    BY DEF IInv
  <1>. QED
    BY <1>1, InductiveInvariant, PTL

\* The sender of every open response channel is in exactly one place, whatever push,
\* allocation or copy fails between handle() and SEND_RESPONSE.
THEOREM SenderInOnePlace == Spec => []OneSender
  <1>1. IInv => OneSender
    BY DEF IInv
  <1>. QED
    BY <1>1, InductiveInvariant, PTL

\* No interleaving of any number of SERVER_START and SERVER_STOP commands leaves an
\* executor that nothing will stop.
THEOREM NoServerOrphaned == Spec => []NoOrphanServer
  <1>1. IInv => NoOrphanServer
    BY DEF IInv
  <1>. QED
    BY <1>1, InductiveInvariant, PTL

\* The first match route() finds is the longest registered prefix: ADD_URL's insertion
\* sort sorts a table of any length, REMOVE_URL keeps the order, and the first match of
\* a sorted table is the longest.
THEOREM LongestAlwaysWins == Spec => []LongestPrefixWins
  <1>1. IInv => LongestPrefixWins
    <2>. SUFFICES ASSUME IInv, NEW r \in Requests, NEW i \in DOMAIN routes,
                         routes[i].prefix \in StartsWith[r],
                         PrefixLen[routes[i].prefix] > PrefixLen[CatchAll]
                  PROVE  /\ RouteIndex(r) # 0 /\ routes[RouteIndex(r)].prefix \in StartsWith[r]
                         /\ PrefixLen[routes[RouteIndex(r)].prefix] >= PrefixLen[routes[i].prefix]
      BY DEF LongestPrefixWins
    <2>1. routes \in Seq(Entries) /\ SortedTo(routes, Len(routes))
      BY DEF IInv, TypeOK, RoutesSorted
    <2>2. i \in 1 .. Len(routes) /\ Matches(r, routes[i].prefix)
      BY <2>1 DEF Matches
    <2>3. PICK k \in 1 .. Len(routes) : k = RouteIndex(r) /\ Matches(r, routes[k].prefix) /\ k <= i
      BY <2>1, <2>2, RouteFirst
    <2>4. /\ routes[k].prefix \in Urls /\ routes[i].prefix \in Urls /\ CatchAll \in Urls
          /\ \A u \in Urls : PrefixLen[u] \in Nat
      <3>0. \A m \in 1 .. Len(routes) : routes[m] \in Entries
        BY <2>1
      <3>1. \A m \in 1 .. Len(routes) : routes[m].prefix \in Urls
        BY <3>0 DEF Entries
      <3>. QED
        BY <3>1, <2>2, BridgeAssumption
    <2>5. PrefixLen[routes[k].prefix] >= PrefixLen[routes[i].prefix]
      BY <2>1, <2>2, <2>3, <2>4 DEF SortedTo
    <2>6. routes[k].prefix # CatchAll
      BY <2>4, <2>5
    <2>. QED
      BY <2>3, <2>5, <2>6 DEF Matches
  <1>. QED
    BY <1>1, InductiveInvariant, PTL
=============================================================================
