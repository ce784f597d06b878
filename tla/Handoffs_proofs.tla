--------------------------- MODULE Handoffs_proofs ---------------------------
(***************************************************************************)
(* The hand-offs between threads, proved for any number of callers and any *)
(* set of values: the HTTP connection, block_on, the two one-shot channels *)
(* and the socket future, each as the specification of its own module.     *)
(***************************************************************************)
EXTENDS MCHandoffs, NaturalsInduction, WellFoundedInduction, TLAPS

-----------------------------------------------------------------------------
\* The connection, for every stream of requests, every split of it into reads, every
\* size of the buffer and every limit on the body.  The sum Boundary is a recursive
\* function; that it exists, and what it is, is shown by induction on the number of
\* requests.
ScriptRequest == [head : Nat \ {0}, body : Nat, ok : BOOLEAN, keepalive : BOOLEAN]

\* What the proofs assume of the constants: a request has a head, and the buffer is
\* not empty.
ConnectionSizes == Scripts \subseteq Seq(ScriptRequest) /\ Capacity \in Nat \ {0} /\ MaxBody \in Nat

-----------------------------------------------------------------------------
\* Induction: a set of naturals with 0 and every successor has them all.
LEMMA NaturalInduction ==
    ASSUME NEW Ns, 0 \in Ns, \A n \in Nat : n \in Ns => n + 1 \in Ns
    PROVE  Nat \subseteq Ns
  <1>. DEFINE T == Nat \ Ns
  <1>1. SUFFICES ASSUME T # {} PROVE FALSE
    OBVIOUS
  <1>2. PICK m \in T : \A n \in T : <<n, m>> \notin OpToRel(<, Nat)
    BY <1>1, NatLessThanWellFounded, WFMin
  <1>3. \A n \in T : ~(n < m)
    BY <1>2, Zenon DEF OpToRel
  <1>4. m # 0 /\ m - 1 \in Nat /\ m - 1 \notin T
    BY <1>3
  <1>5. (m - 1) + 1 \in Ns
    BY <1>4
  <1>. QED
    BY <1>5

\* The recursion that Boundary uses has a solution ...
LEMMA EndsExist ==
    ASSUME NEW s, NEW N \in Nat
    PROVE  \E f : f = [i \in 0 .. N |-> IF i = 0 THEN 0 ELSE f[i - 1] + s[i].head + s[i].body]
  <1>. DEFINE Ns == {n \in Nat : \E f : f = [i \in 0 .. n |->
                      IF i = 0 THEN 0 ELSE f[i - 1] + s[i].head + s[i].body]}
  <1>1. 0 \in Ns
    <2>. DEFINE f == [i \in 0 .. 0 |-> 0]
    <2>1. f = [i \in 0 .. 0 |-> IF i = 0 THEN 0 ELSE f[i - 1] + s[i].head + s[i].body]
      OBVIOUS
    <2>. QED
      BY <2>1, Zenon
  <1>2. ASSUME NEW n \in Nat, n \in Ns PROVE n + 1 \in Ns
    <2>1. PICK f : f = [i \in 0 .. n |-> IF i = 0 THEN 0 ELSE f[i - 1] + s[i].head + s[i].body]
      BY <1>2
    <2>. DEFINE g == [i \in 0 .. n + 1 |->
                        IF i = 0 THEN 0 ELSE f[i - 1] + s[i].head + s[i].body]
                h == [i \in 0 .. n + 1 |->
                        IF i = 0 THEN 0 ELSE g[i - 1] + s[i].head + s[i].body]
    <2>2. ASSUME NEW i \in 0 .. n PROVE g[i] = f[i]
      <3>1. f[i] = IF i = 0 THEN 0 ELSE f[i - 1] + s[i].head + s[i].body
        BY <2>1
      <3>2. i \in 0 .. n + 1
        OBVIOUS
      <3>. QED
        BY <3>1, <3>2
    <2>. HIDE DEF g
    <2>3. ASSUME NEW i \in 0 .. n + 1 PROVE g[i] = h[i]
      <3>1. g[i] = IF i = 0 THEN 0 ELSE f[i - 1] + s[i].head + s[i].body
        BY DEF g
      <3>2. i # 0 => i - 1 \in 0 .. n
        OBVIOUS
      <3>3. i # 0 => g[i - 1] = f[i - 1]
        BY <3>2, <2>2
      <3>. QED
        BY <3>1, <3>3
    <2>4. g = h
      <3>1. g = [i \in 0 .. n + 1 |-> g[i]]
        BY DEF g
      <3>2. h = [i \in 0 .. n + 1 |-> h[i]]
        OBVIOUS
      <3>. HIDE DEF h
      <3>. QED
        BY <3>1, <3>2, <2>3
    <2>. QED
      BY <2>4
  <1>3. Nat \subseteq Ns
    <2>. HIDE DEF Ns
    <2>. QED
      BY <1>1, <1>2, NaturalInduction
  <1>. QED
    BY <1>3, Zenon

\* ... so the end of each request is the end of the one before and its own length,
\* and ends grow.
LEMMA Boundaries ==
    ASSUME script \in Seq(ScriptRequest)
    PROVE  /\ C!Boundary(0) = 0
           /\ \A k \in 0 .. Len(script) : C!Boundary(k) \in Nat
           /\ \A k \in 1 .. Len(script) :
                 C!Boundary(k) = C!Boundary(k - 1) + script[k].head + script[k].body
           /\ \A k \in 0 .. Len(script) : C!Boundary(k) <= C!Boundary(Len(script))
           /\ \A k \in 0 .. Len(script) : C!Boundary(k) >= C!Boundary(Len(script)) => k = Len(script)
  <1>. DEFINE N == Len(script)
              R == CHOOSE f : f = [i \in 0 .. N |->
                      IF i = 0 THEN 0 ELSE f[i - 1] + script[i].head + script[i].body]
  <1>0. N \in Nat /\ \A k \in 1 .. N : script[k].head \in Nat \ {0} /\ script[k].body \in Nat
    <2>1. \A k \in 1 .. N : script[k] \in ScriptRequest
      OBVIOUS
    <2>. QED
      BY <2>1 DEF ScriptRequest
  <1>1. R = [i \in 0 .. N |-> IF i = 0 THEN 0 ELSE R[i - 1] + script[i].head + script[i].body]
    BY <1>0, EndsExist, Zenon
  <1>2. \A k : C!Boundary(k) = R[k]
    BY DEF C!Boundary
  <1>. HIDE DEF R, N
  <1>3. R[0] = 0 /\ \A k \in 1 .. N : R[k] = R[k - 1] + script[k].head + script[k].body
    BY <1>0, <1>1
  <1>4. \A k \in 0 .. N : R[k] \in Nat
    <2>. DEFINE Ns == {n \in Nat : n <= N => R[n] \in Nat}
    <2>1. 0 \in Ns
      BY <1>3
    <2>2. ASSUME NEW n \in Nat, n \in Ns PROVE n + 1 \in Ns
      <3>. SUFFICES ASSUME n + 1 <= N PROVE R[n + 1] \in Nat
        OBVIOUS
      <3>0. n + 1 \in 1 .. N /\ (n + 1) - 1 = n
        BY <1>0
      <3>1. PICK k \in 1 .. N : k = n + 1 /\ k - 1 = n
        BY <3>0
      <3>2. R[k] = R[n] + script[k].head + script[k].body /\ R[n] \in Nat
        BY <3>1, <2>2, <1>0, <1>3
      <3>. QED
        BY <3>1, <3>2, <1>0
    <2>3. Nat \subseteq Ns
      <3>. HIDE DEF Ns
      <3>. QED
        BY <2>1, <2>2, NaturalInduction
    <2>. QED
      BY <2>3, <1>0
  <1>5. \A k \in 0 .. N : R[k] + (N - k) <= R[N]
    <2>. DEFINE Ns == {n \in Nat : n <= N => R[N - n] + n <= R[N]}
    <2>1. 0 \in Ns
      BY <1>0, <1>4
    <2>2. ASSUME NEW n \in Nat, n \in Ns PROVE n + 1 \in Ns
      <3>. SUFFICES ASSUME n + 1 <= N PROVE R[N - (n + 1)] + (n + 1) <= R[N]
        OBVIOUS
      <3>1. PICK k \in 1 .. N : k = N - n /\ k - 1 = N - (n + 1) /\ k - 1 \in 0 .. N
        BY <1>0
      <3>2. R[k] = R[k - 1] + script[k].head + script[k].body /\ R[k] + n <= R[N]
        BY <3>1, <2>2, <1>3, <1>0
      <3>3. R[k - 1] \in Nat /\ R[N] \in Nat /\ script[k].head \in Nat \ {0} /\ script[k].body \in Nat
        BY <3>1, <1>0, <1>4
      <3>4. R[k - 1] + (n + 1) <= R[N]
        <4>1. \A a, b, c, d \in Nat : a + b + c + n <= d /\ b # 0 => a + (n + 1) <= d
          OBVIOUS
        <4>. QED
          BY <3>2, <3>3, <4>1, Zenon
      <3>. QED
        BY <3>1, <3>4
    <2>3. Nat \subseteq Ns
      <3>. HIDE DEF Ns
      <3>. QED
        BY <2>1, <2>2, NaturalInduction
    <2>4. ASSUME NEW k \in 0 .. N PROVE R[k] + (N - k) <= R[N]
      <3>1. N - k \in Ns /\ N - (N - k) = k /\ N - k <= N
        BY <2>3, <1>0
      <3>. QED
        BY <3>1
    <2>. QED
      BY <2>4
  <1>6. \A k \in 0 .. N : R[k] <= R[N] /\ (R[k] >= R[N] => k = N)
    BY <1>0, <1>4, <1>5
  <1>. QED
    BY <1>2, <1>3, <1>4, <1>6 DEF N

-----------------------------------------------------------------------------
\* The buffer and the stream.  The offset is a natural; what is parsed was just read,
\* so it is not empty; and once a head has been consumed the buffer is not full.
BytesOK ==
    /\ script \in Seq(ScriptRequest)
    /\ arrived \in Nat /\ read \in Nat /\ pos \in Nat /\ len \in Nat /\ remaining \in Nat
    /\ read <= arrived /\ arrived <= C!Boundary(Len(script))
    /\ pos <= len /\ len - pos <= read /\ len <= Capacity
    /\ parsed \in 0 .. Len(script)
    /\ pc \in {"fill", "parse", "body", "handle", "closed"}
    /\ pc = "parse" => len - pos > 0
    /\ pc \in {"fill", "body", "handle"} => len - pos < Capacity
    /\ pc \in {"body", "handle"} => parsed > 0

Codes == {"200", "400", "413", "431", "500"}

\* A response is due for the request that was parsed last until it is written.
ResponsesOK ==
    /\ responses \in Seq(Codes)
    /\ pc \in {"fill", "parse"} => Len(responses) = parsed
    /\ pc \in {"body", "handle"} => Len(responses) = parsed - 1
    /\ Len(responses) <= Len(script)

ConnectionInv == BytesOK /\ C!Framing /\ ResponsesOK /\ C!InOrder

\* An accepted connection has read and answered nothing.
LEMMA ConnectionInit == ConnectionSizes /\ C!Init => ConnectionInv
  <1>. SUFFICES ASSUME ConnectionSizes, C!Init PROVE ConnectionInv
    OBVIOUS
  <1>1. script \in Seq(ScriptRequest) /\ Len(script) \in Nat
    BY DEF ConnectionSizes, C!Init
  <1>2. C!Boundary(0) = 0 /\ C!Boundary(Len(script)) \in Nat
    BY <1>1, Boundaries
  <1>3. responses = <<>> /\ Len(responses) = 0 /\ responses \in Seq(Codes)
    BY DEF C!Init
  <1>4. BytesOK
    BY <1>1, <1>2 DEF BytesOK, C!Init, ConnectionSizes
  <1>5. C!Framing
    BY <1>2 DEF C!Framing, C!Offset, C!Init
  <1>6. ResponsesOK /\ C!InOrder
    BY <1>1, <1>3 DEF ResponsesOK, C!InOrder, C!Init
  <1>. QED
    BY <1>4, <1>5, <1>6 DEF ConnectionInv

\* Bytes arrive.
LEMMA ArriveStep ==
    ASSUME ConnectionSizes, ConnectionInv, NEW n \in 1 .. 2, C!Arrive(n)
    PROVE  ConnectionInv'
  <1>inv. BytesOK /\ C!Framing /\ ResponsesOK /\ C!InOrder
    BY DEF ConnectionInv
  <1>b. /\ \A k \in 0 .. Len(script) : C!Boundary(k) \in Nat
        /\ \A k \in 1 .. Len(script) :
              C!Boundary(k) = C!Boundary(k - 1) + script[k].head + script[k].body
        /\ \A k \in 0 .. Len(script) : C!Boundary(k) <= C!Boundary(Len(script))
        /\ \A k \in 0 .. Len(script) : C!Boundary(k) >= C!Boundary(Len(script)) => k = Len(script)
        /\ Len(script) \in Nat /\ Len(responses) \in Nat
        /\ Capacity \in Nat \ {0} /\ MaxBody \in Nat
    BY <1>inv, Boundaries DEF BytesOK, ResponsesOK, ConnectionSizes
  <1>s. script' = script /\ \A k : C!Boundary(k)' = C!Boundary(k)
    BY DEF C!Arrive, C!clientVars, C!Boundary
  <1>x. arrived' = arrived + n /\ arrived + n <= C!Boundary(Len(script))
    <2>1. PICK k \in 0 .. Len(script) : arrived + n <= C!Boundary(k)
      BY <1>inv, <1>b DEF C!Arrive, ResponsesOK
    <2>2. arrived' = arrived + n /\ n \in Nat /\ arrived \in Nat
      BY <1>inv DEF C!Arrive, BytesOK
    <2>3. C!Boundary(k) \in Nat /\ C!Boundary(Len(script)) \in Nat
          /\ C!Boundary(k) <= C!Boundary(Len(script))
      BY <1>b
    <2>. QED
      BY <2>1, <2>2, <2>3
  <1>1. BytesOK'
    BY <1>inv, <1>b, <1>s, <1>x DEF C!Arrive, C!clientVars, BytesOK
  <1>2. C!Framing'
    BY <1>inv, <1>b, <1>s, <1>x DEF C!Arrive, C!clientVars, C!Framing, C!Offset, BytesOK
  <1>3. ResponsesOK'
    BY <1>inv, <1>b, <1>s, <1>x DEF C!Arrive, C!clientVars, ResponsesOK, BytesOK
  <1>4. C!InOrder'
    BY <1>inv, <1>b, <1>s, <1>x DEF C!Arrive, C!clientVars, C!InOrder, ResponsesOK, BytesOK
  <1>. QED
    BY <1>1, <1>2, <1>3, <1>4 DEF ConnectionInv

\* The client closes its end.
LEMMA ClientClosesStep ==
    ASSUME ConnectionSizes, ConnectionInv, C!ClientCloses
    PROVE  ConnectionInv'
  <1>inv. BytesOK /\ C!Framing /\ ResponsesOK /\ C!InOrder
    BY DEF ConnectionInv
  <1>b. /\ \A k \in 0 .. Len(script) : C!Boundary(k) \in Nat
        /\ \A k \in 1 .. Len(script) :
              C!Boundary(k) = C!Boundary(k - 1) + script[k].head + script[k].body
        /\ \A k \in 0 .. Len(script) : C!Boundary(k) <= C!Boundary(Len(script))
        /\ \A k \in 0 .. Len(script) : C!Boundary(k) >= C!Boundary(Len(script)) => k = Len(script)
        /\ Len(script) \in Nat /\ Len(responses) \in Nat
        /\ Capacity \in Nat \ {0} /\ MaxBody \in Nat
    BY <1>inv, Boundaries DEF BytesOK, ResponsesOK, ConnectionSizes
  <1>s. script' = script /\ \A k : C!Boundary(k)' = C!Boundary(k)
    BY DEF C!ClientCloses, C!clientVars, C!Boundary
  <1>1. BytesOK'
    BY <1>inv, <1>b, <1>s DEF C!ClientCloses, C!clientVars, BytesOK
  <1>2. C!Framing'
    BY <1>inv, <1>b, <1>s DEF C!ClientCloses, C!clientVars, C!Framing, C!Offset, BytesOK
  <1>3. ResponsesOK'
    BY <1>inv, <1>b, <1>s DEF C!ClientCloses, C!clientVars, ResponsesOK, BytesOK
  <1>4. C!InOrder'
    BY <1>inv, <1>b, <1>s DEF C!ClientCloses, C!clientVars, C!InOrder, ResponsesOK, BytesOK
  <1>. QED
    BY <1>1, <1>2, <1>3, <1>4 DEF ConnectionInv

\* fill.
LEMMA FillStep ==
    ASSUME ConnectionSizes, ConnectionInv, NEW n \in 1 .. Capacity, C!Fill(n)
    PROVE  ConnectionInv'
  <1>inv. BytesOK /\ C!Framing /\ ResponsesOK /\ C!InOrder
    BY DEF ConnectionInv
  <1>b. /\ \A k \in 0 .. Len(script) : C!Boundary(k) \in Nat
        /\ \A k \in 1 .. Len(script) :
              C!Boundary(k) = C!Boundary(k - 1) + script[k].head + script[k].body
        /\ \A k \in 0 .. Len(script) : C!Boundary(k) <= C!Boundary(Len(script))
        /\ \A k \in 0 .. Len(script) : C!Boundary(k) >= C!Boundary(Len(script)) => k = Len(script)
        /\ Len(script) \in Nat /\ Len(responses) \in Nat
        /\ Capacity \in Nat \ {0} /\ MaxBody \in Nat
    BY <1>inv, Boundaries DEF BytesOK, ResponsesOK, ConnectionSizes
  <1>s. script' = script /\ \A k : C!Boundary(k)' = C!Boundary(k)
    BY DEF C!Fill, C!Read, C!clientVars, C!Boundary
  <1>1. BytesOK'
    BY <1>inv, <1>b, <1>s DEF C!Fill, C!Read, C!clientVars, BytesOK
  <1>2. C!Framing'
    BY <1>inv, <1>b, <1>s DEF C!Fill, C!Read, C!clientVars, C!Framing, C!Offset, BytesOK
  <1>3. ResponsesOK'
    BY <1>inv, <1>b, <1>s DEF C!Fill, C!Read, C!clientVars, ResponsesOK, BytesOK
  <1>4. C!InOrder'
    BY <1>inv, <1>b, <1>s DEF C!Fill, C!Read, C!clientVars, C!InOrder, ResponsesOK, BytesOK
  <1>. QED
    BY <1>1, <1>2, <1>3, <1>4 DEF ConnectionInv

\* fill or read_body fails.
LEMMA ReadFailsStep ==
    ASSUME ConnectionSizes, ConnectionInv, C!ReadFails
    PROVE  ConnectionInv'
  <1>inv. BytesOK /\ C!Framing /\ ResponsesOK /\ C!InOrder
    BY DEF ConnectionInv
  <1>b. /\ \A k \in 0 .. Len(script) : C!Boundary(k) \in Nat
        /\ \A k \in 1 .. Len(script) :
              C!Boundary(k) = C!Boundary(k - 1) + script[k].head + script[k].body
        /\ \A k \in 0 .. Len(script) : C!Boundary(k) <= C!Boundary(Len(script))
        /\ \A k \in 0 .. Len(script) : C!Boundary(k) >= C!Boundary(Len(script)) => k = Len(script)
        /\ Len(script) \in Nat /\ Len(responses) \in Nat
        /\ Capacity \in Nat \ {0} /\ MaxBody \in Nat
    BY <1>inv, Boundaries DEF BytesOK, ResponsesOK, ConnectionSizes
  <1>s. script' = script /\ \A k : C!Boundary(k)' = C!Boundary(k)
    BY DEF C!ReadFails, C!clientVars, C!Boundary
  <1>1. BytesOK'
    BY <1>inv, <1>b, <1>s DEF C!ReadFails, C!clientVars, BytesOK
  <1>2. C!Framing'
    BY <1>inv, <1>b, <1>s DEF C!ReadFails, C!clientVars, C!Framing, C!Offset, BytesOK
  <1>3. ResponsesOK'
    BY <1>inv, <1>b, <1>s DEF C!ReadFails, C!clientVars, ResponsesOK, BytesOK
  <1>4. C!InOrder'
    BY <1>inv, <1>b, <1>s DEF C!ReadFails, C!clientVars, C!InOrder, ResponsesOK, BytesOK
  <1>. QED
    BY <1>1, <1>2, <1>3, <1>4 DEF ConnectionInv

\* A head is parsed and consumed, with what is buffered of the body.
LEMMA ParseCompleteStep ==
    ASSUME ConnectionSizes, ConnectionInv, C!ParseComplete
    PROVE  ConnectionInv'
  <1>inv. BytesOK /\ C!Framing /\ ResponsesOK /\ C!InOrder
    BY DEF ConnectionInv
  <1>b. /\ \A k \in 0 .. Len(script) : C!Boundary(k) \in Nat
        /\ \A k \in 1 .. Len(script) :
              C!Boundary(k) = C!Boundary(k - 1) + script[k].head + script[k].body
        /\ \A k \in 0 .. Len(script) : C!Boundary(k) <= C!Boundary(Len(script))
        /\ \A k \in 0 .. Len(script) : C!Boundary(k) >= C!Boundary(Len(script)) => k = Len(script)
        /\ Len(script) \in Nat /\ Len(responses) \in Nat
        /\ Capacity \in Nat \ {0} /\ MaxBody \in Nat
    BY <1>inv, Boundaries DEF BytesOK, ResponsesOK, ConnectionSizes
  <1>s. script' = script /\ \A k : C!Boundary(k)' = C!Boundary(k)
    BY DEF C!ParseComplete, C!clientVars, C!Boundary
  <1>v. /\ pc = "parse" /\ parsed \in Nat /\ parsed + 1 \in 1 .. Len(script)
        /\ C!Offset = C!Boundary(parsed) /\ ~(len - pos < script[parsed + 1].head)
    <2>1. pc = "parse" /\ C!Verdict = "complete" /\ parsed \in Nat /\ parsed <= Len(script)
      BY <1>inv, <1>b DEF C!ParseComplete, BytesOK
    <2>2. ~(parsed + 1 > Len(script)) /\ C!Offset = C!Boundary(parsed)
          /\ ~(len - pos < script[parsed + 1].head)
      BY <2>1 DEF C!Verdict
    <2>3. parsed + 1 \in 1 .. Len(script)
      BY <2>1, <2>2, <1>b
    <2>. QED
      BY <2>1, <2>2, <2>3
  <1>h. PICK h \in Nat \ {0}, d \in Nat : h = script[parsed + 1].head /\ d = script[parsed + 1].body
    <2>1. script[parsed + 1] \in ScriptRequest
      BY <1>v, <1>inv DEF BytesOK
    <2>. QED
      BY <2>1 DEF ScriptRequest
  <1>e. PICK o \in Nat : o = C!Boundary(parsed) /\ C!Boundary(parsed + 1) = o + h + d
    <2>1. parsed \in 0 .. Len(script) /\ (parsed + 1) - 1 = parsed
      BY <1>v, <1>b
    <2>2. C!Boundary(parsed) \in Nat /\ C!Boundary(parsed + 1) = C!Boundary(parsed) + h + d
      BY <2>1, <1>v, <1>b, <1>h
    <2>. QED
      BY <2>2
  <1>m. PICK from \in Nat : /\ from = IF len - pos - h <= d THEN len - pos - h ELSE d
                            /\ from <= d /\ from <= len - pos - h
                            /\ from = d \/ from = len - pos - h
    <2>1. PICK a \in Nat : a = len - pos - h
      BY <1>v, <1>h, <1>inv DEF BytesOK
    <2>2. PICK from : from = IF a <= d THEN a ELSE d
      BY Zenon
    <2>3. from \in Nat /\ from <= d /\ from <= a /\ (from = d \/ from = a)
      BY <2>1, <2>2, <1>h
    <2>. QED
      BY <2>1, <2>2, <2>3
  <1>n. /\ pos \in Nat /\ len \in Nat /\ read \in Nat
        /\ pos <= len /\ len - pos <= read /\ len <= Capacity
    BY <1>inv DEF BytesOK
  <1>x. /\ parsed' = parsed + 1 /\ pos' = pos + h + from /\ remaining' = d - from
        /\ pc' = IF remaining' = 0 THEN "handle" ELSE "body"
        /\ UNCHANGED <<arrived, read, len, responses>>
    BY <1>h, <1>m DEF C!ParseComplete, C!clientVars
  <1>1. BytesOK'
    <2>1. parsed' \in 0 .. Len(script)' /\ parsed' > 0
      BY <1>v, <1>x, <1>s, <1>b
    <2>2. /\ pos' \in Nat /\ remaining' \in Nat /\ pos' <= len' /\ len' - pos' <= read'
          /\ len' - pos' < Capacity
      <3>1. pos' = pos + h + from /\ len' = len /\ read' = read /\ remaining' = d - from
        BY <1>x
      <3>2. from <= d /\ from <= len - pos - h /\ Capacity \in Nat
        BY <1>m, <1>b
      <3>. QED
        BY <3>1, <3>2, <1>n
    <2>. QED
      BY <2>1, <2>2, <1>x, <1>s, <1>inv DEF BytesOK
  <1>2. C!Framing'
    <2>1. C!Boundary(parsed)' = o + h + d
      BY <1>e, <1>x, <1>s
    <2>2. o = read - (len - pos)
      BY <1>v, <1>e DEF C!Offset
    <2>3. (remaining' = 0 => read - (len - pos') = o + h + d)
          /\ (remaining' # 0 => read - (len - pos') + remaining' = o + h + d /\ pos' = len)
      <3>1. pos' = pos + h + from /\ remaining' = d - from
        BY <1>x
      <3>2. from = d \/ from = len - pos - h
        BY <1>m
      <3>. QED
        BY <3>1, <3>2, <2>2, <1>n
    <2>. QED
      BY <2>1, <2>3, <1>x DEF C!Framing, C!Offset
  <1>3. ResponsesOK'
    <2>1. Len(responses) = parsed /\ (parsed + 1) - 1 = parsed
      BY <1>v, <1>inv DEF ResponsesOK
    <2>. QED
      BY <2>1, <1>v, <1>x, <1>s, <1>inv DEF ResponsesOK
  <1>4. C!InOrder'
    <2>1. Len(responses) = parsed /\ (parsed + 1) - 1 = parsed /\ parsed + 1 # 0
      BY <1>v, <1>inv DEF ResponsesOK
    <2>. QED
      BY <2>1, <1>v, <1>x, <1>inv DEF C!InOrder
  <1>. QED
    BY <1>1, <1>2, <1>3, <1>4 DEF ConnectionInv

\* What writing one more response does to the list of them.
LEMMA OneMoreResponse ==
    ASSUME NEW Ns, NEW s \in Seq(Ns), NEW e \in Ns
    PROVE  /\ Append(s, e) \in Seq(Ns) /\ Len(Append(s, e)) = Len(s) + 1
           /\ \A i \in 1 .. Len(s) : Append(s, e)[i] = s[i]
           /\ Append(s, e)[Len(s) + 1] = e
           /\ DOMAIN Append(s, e) = 1 .. Len(s) + 1 /\ DOMAIN s = 1 .. Len(s) /\ Len(s) \in Nat
  OBVIOUS

\* An incomplete head: 431, or more is read.
LEMMA ParsePartialStep ==
    ASSUME ConnectionSizes, ConnectionInv, C!ParsePartial
    PROVE  ConnectionInv'
  <1>inv. BytesOK /\ C!Framing /\ ResponsesOK /\ C!InOrder
    BY DEF ConnectionInv
  <1>b. /\ \A k \in 0 .. Len(script) : C!Boundary(k) \in Nat
        /\ \A k \in 1 .. Len(script) :
              C!Boundary(k) = C!Boundary(k - 1) + script[k].head + script[k].body
        /\ \A k \in 0 .. Len(script) : C!Boundary(k) <= C!Boundary(Len(script))
        /\ \A k \in 0 .. Len(script) : C!Boundary(k) >= C!Boundary(Len(script)) => k = Len(script)
        /\ Len(script) \in Nat /\ Len(responses) \in Nat
        /\ Capacity \in Nat \ {0} /\ MaxBody \in Nat
    BY <1>inv, Boundaries DEF BytesOK, ResponsesOK, ConnectionSizes
  <1>s. script' = script /\ \A k : C!Boundary(k)' = C!Boundary(k)
    BY DEF C!ParsePartial, C!clientVars, C!Boundary
  <1>x. /\ parsed < Len(script) /\ Len(responses) = parsed /\ pc = "parse"
        /\ \/ pc' = "closed" /\ responses' = responses
           \/ pc' = "closed" /\ \E status \in Codes : responses' = Append(responses, status)
           \/ pc' = "fill" /\ responses' = responses /\ len - pos < Capacity
        /\ UNCHANGED <<arrived, read, pos, len, remaining, parsed>>
    <2>1. parsed < Len(script)
      BY <1>inv, <1>b DEF BytesOK, C!Framing, C!Offset, C!ParsePartial
    <2>2. Len(responses) = parsed /\ pc = "parse" /\ UNCHANGED <<arrived, read, pos, len, remaining, parsed>>
      BY <1>inv DEF C!ParsePartial, C!clientVars, ResponsesOK
    <2>3. ~(len - pos >= Capacity) <=> len - pos < Capacity
      BY <1>inv, <1>b DEF BytesOK
    <2>. QED
      BY <2>1, <2>2, <2>3 DEF C!ParsePartial, C!Refuse, Codes
  <1>y. \A i \in DOMAIN responses : responses[i] = "200"
    BY <1>x, <1>inv DEF C!InOrder
  <1>1. BytesOK'
    BY <1>inv, <1>b, <1>s, <1>x DEF BytesOK
  <1>2. C!Framing'
    BY <1>inv, <1>b, <1>s, <1>x DEF C!Framing, C!Offset
  <1>3. ResponsesOK'
    <2>1. CASE responses' = responses
      BY <2>1, <1>inv, <1>b, <1>s, <1>x DEF ResponsesOK, BytesOK
    <2>2. CASE responses' # responses
      <3>1. PICK status \in Codes : responses' = Append(responses, status) /\ pc' = "closed"
        BY <2>2, <1>x
      <3>. QED
        BY <3>1, <1>inv, <1>b, <1>s, <1>x, OneMoreResponse DEF ResponsesOK, BytesOK
    <2>. QED
      BY <2>1, <2>2
  <1>4. C!InOrder'
    <2>1. CASE responses' = responses
      BY <2>1, <1>inv, <1>b, <1>x, <1>y DEF C!InOrder, BytesOK
    <2>2. CASE responses' # responses
      <3>1. PICK status \in Codes : responses' = Append(responses, status) /\ pc' = "closed"
        BY <2>2, <1>x
      <3>2. responses \in Seq(Codes)
        BY <1>inv DEF ResponsesOK
      <3>3. Len(responses') = parsed + 1 /\ \A i \in DOMAIN responses' :
              responses'[i] # "200" => i = Len(responses')
        BY <3>1, <3>2, <1>x, <1>y, OneMoreResponse
      <3>. QED
        BY <3>1, <3>3, <1>x DEF C!InOrder
    <2>. QED
      BY <2>1, <2>2
  <1>. QED
    BY <1>1, <1>2, <1>3, <1>4 DEF ConnectionInv

\* A request is refused.
LEMMA ParseRefusesStep ==
    ASSUME ConnectionSizes, ConnectionInv, C!ParseRefuses
    PROVE  ConnectionInv'
  <1>inv. BytesOK /\ C!Framing /\ ResponsesOK /\ C!InOrder
    BY DEF ConnectionInv
  <1>b. /\ \A k \in 0 .. Len(script) : C!Boundary(k) \in Nat
        /\ \A k \in 1 .. Len(script) :
              C!Boundary(k) = C!Boundary(k - 1) + script[k].head + script[k].body
        /\ \A k \in 0 .. Len(script) : C!Boundary(k) <= C!Boundary(Len(script))
        /\ \A k \in 0 .. Len(script) : C!Boundary(k) >= C!Boundary(Len(script)) => k = Len(script)
        /\ Len(script) \in Nat /\ Len(responses) \in Nat
        /\ Capacity \in Nat \ {0} /\ MaxBody \in Nat
    BY <1>inv, Boundaries DEF BytesOK, ResponsesOK, ConnectionSizes
  <1>s. script' = script /\ \A k : C!Boundary(k)' = C!Boundary(k)
    BY DEF C!ParseRefuses, C!clientVars, C!Boundary
  <1>x. /\ parsed < Len(script) /\ Len(responses) = parsed /\ pc = "parse"
        /\ \/ pc' = "closed" /\ responses' = responses
           \/ pc' = "closed" /\ \E status \in Codes : responses' = Append(responses, status)
        /\ UNCHANGED <<arrived, read, pos, len, remaining, parsed>>
    <2>1. parsed < Len(script)
      BY <1>inv, <1>b DEF BytesOK, C!Framing, C!Offset, C!ParseRefuses
    <2>2. Len(responses) = parsed /\ pc = "parse" /\ UNCHANGED <<arrived, read, pos, len, remaining, parsed>>
      BY <1>inv DEF C!ParseRefuses, C!clientVars, ResponsesOK
    <2>3. ~(len - pos >= Capacity) <=> len - pos < Capacity
      BY <1>inv, <1>b DEF BytesOK
    <2>. QED
      BY <2>1, <2>2, <2>3 DEF C!ParseRefuses, C!Refuse, Codes
  <1>y. \A i \in DOMAIN responses : responses[i] = "200"
    BY <1>x, <1>inv DEF C!InOrder
  <1>1. BytesOK'
    BY <1>inv, <1>b, <1>s, <1>x DEF BytesOK
  <1>2. C!Framing'
    BY <1>inv, <1>b, <1>s, <1>x DEF C!Framing, C!Offset
  <1>3. ResponsesOK'
    <2>1. CASE responses' = responses
      BY <2>1, <1>inv, <1>b, <1>s, <1>x DEF ResponsesOK, BytesOK
    <2>2. CASE responses' # responses
      <3>1. PICK status \in Codes : responses' = Append(responses, status) /\ pc' = "closed"
        BY <2>2, <1>x
      <3>. QED
        BY <3>1, <1>inv, <1>b, <1>s, <1>x, OneMoreResponse DEF ResponsesOK, BytesOK
    <2>. QED
      BY <2>1, <2>2
  <1>4. C!InOrder'
    <2>1. CASE responses' = responses
      BY <2>1, <1>inv, <1>b, <1>x, <1>y DEF C!InOrder, BytesOK
    <2>2. CASE responses' # responses
      <3>1. PICK status \in Codes : responses' = Append(responses, status) /\ pc' = "closed"
        BY <2>2, <1>x
      <3>2. responses \in Seq(Codes)
        BY <1>inv DEF ResponsesOK
      <3>3. Len(responses') = parsed + 1 /\ \A i \in DOMAIN responses' :
              responses'[i] # "200" => i = Len(responses')
        BY <3>1, <3>2, <1>x, <1>y, OneMoreResponse
      <3>. QED
        BY <3>1, <3>3, <1>x DEF C!InOrder
    <2>. QED
      BY <2>1, <2>2
  <1>. QED
    BY <1>1, <1>2, <1>3, <1>4 DEF ConnectionInv

\* read_body.
LEMMA ReadBodyStep ==
    ASSUME ConnectionSizes, ConnectionInv, NEW n \in 1 .. MaxBody, C!ReadBody(n)
    PROVE  ConnectionInv'
  <1>inv. BytesOK /\ C!Framing /\ ResponsesOK /\ C!InOrder
    BY DEF ConnectionInv
  <1>b. /\ \A k \in 0 .. Len(script) : C!Boundary(k) \in Nat
        /\ \A k \in 1 .. Len(script) :
              C!Boundary(k) = C!Boundary(k - 1) + script[k].head + script[k].body
        /\ \A k \in 0 .. Len(script) : C!Boundary(k) <= C!Boundary(Len(script))
        /\ \A k \in 0 .. Len(script) : C!Boundary(k) >= C!Boundary(Len(script)) => k = Len(script)
        /\ Len(script) \in Nat /\ Len(responses) \in Nat
        /\ Capacity \in Nat \ {0} /\ MaxBody \in Nat
    BY <1>inv, Boundaries DEF BytesOK, ResponsesOK, ConnectionSizes
  <1>s. script' = script /\ \A k : C!Boundary(k)' = C!Boundary(k)
    BY DEF C!ReadBody, C!Read, C!clientVars, C!Boundary
  <1>1. BytesOK'
    BY <1>inv, <1>b, <1>s DEF C!ReadBody, C!Read, C!clientVars, BytesOK
  <1>2. C!Framing'
    BY <1>inv, <1>b, <1>s DEF C!ReadBody, C!Read, C!clientVars, C!Framing, C!Offset, BytesOK
  <1>3. ResponsesOK'
    BY <1>inv, <1>b, <1>s DEF C!ReadBody, C!Read, C!clientVars, ResponsesOK, BytesOK
  <1>4. C!InOrder'
    BY <1>inv, <1>b, <1>s DEF C!ReadBody, C!Read, C!clientVars, C!InOrder, ResponsesOK, BytesOK
  <1>. QED
    BY <1>1, <1>2, <1>3, <1>4 DEF ConnectionInv

\* The response is written.
LEMMA RespondStep ==
    ASSUME ConnectionSizes, ConnectionInv, C!Respond
    PROVE  ConnectionInv'
  <1>inv. BytesOK /\ C!Framing /\ ResponsesOK /\ C!InOrder
    BY DEF ConnectionInv
  <1>b. /\ \A k \in 0 .. Len(script) : C!Boundary(k) \in Nat
        /\ \A k \in 1 .. Len(script) :
              C!Boundary(k) = C!Boundary(k - 1) + script[k].head + script[k].body
        /\ \A k \in 0 .. Len(script) : C!Boundary(k) <= C!Boundary(Len(script))
        /\ \A k \in 0 .. Len(script) : C!Boundary(k) >= C!Boundary(Len(script)) => k = Len(script)
        /\ Len(script) \in Nat /\ Len(responses) \in Nat
        /\ Capacity \in Nat \ {0} /\ MaxBody \in Nat
    BY <1>inv, Boundaries DEF BytesOK, ResponsesOK, ConnectionSizes
  <1>s. script' = script /\ \A k : C!Boundary(k)' = C!Boundary(k)
    BY DEF C!Respond, C!clientVars, C!Boundary
  <1>x. /\ pc = "handle" /\ responses' = Append(responses, "200") /\ parsed > 0
        /\ Len(responses) = parsed - 1 /\ parsed \in Nat
        /\ \/ pc' = "fill" /\ pos' = 0 /\ len' = len - pos
           \/ pc' = "closed" /\ pos' = pos /\ len' = len
        /\ UNCHANGED <<arrived, read, remaining, parsed>>
    BY <1>inv, <1>b DEF C!Respond, C!clientVars, BytesOK, ResponsesOK
  <1>y. /\ \A i \in DOMAIN responses : responses[i] = "200"
        /\ responses' \in Seq(Codes) /\ Len(responses') = parsed
        /\ \A i \in DOMAIN responses' : responses'[i] = "200"
    <2>1. responses \in Seq(Codes) /\ "200" \in Codes
      BY <1>inv DEF ResponsesOK, Codes
    <2>2. \A i \in DOMAIN responses : responses[i] = "200"
      BY <1>x, <1>inv DEF C!InOrder
    <2>. QED
      BY <2>1, <2>2, <1>x, OneMoreResponse
  <1>1. BytesOK'
    BY <1>inv, <1>b, <1>s, <1>x DEF BytesOK
  <1>2. C!Framing'
    BY <1>inv, <1>b, <1>s, <1>x DEF C!Framing, C!Offset, BytesOK
  <1>3. ResponsesOK'
    BY <1>inv, <1>b, <1>s, <1>x, <1>y DEF ResponsesOK, BytesOK
  <1>4. C!InOrder'
    BY <1>inv, <1>b, <1>s, <1>x, <1>y DEF C!InOrder, BytesOK
  <1>. QED
    BY <1>1, <1>2, <1>3, <1>4 DEF ConnectionInv

\* write_response fails.
LEMMA RespondFailsStep ==
    ASSUME ConnectionSizes, ConnectionInv, C!RespondFails
    PROVE  ConnectionInv'
  <1>inv. BytesOK /\ C!Framing /\ ResponsesOK /\ C!InOrder
    BY DEF ConnectionInv
  <1>b. /\ \A k \in 0 .. Len(script) : C!Boundary(k) \in Nat
        /\ \A k \in 1 .. Len(script) :
              C!Boundary(k) = C!Boundary(k - 1) + script[k].head + script[k].body
        /\ \A k \in 0 .. Len(script) : C!Boundary(k) <= C!Boundary(Len(script))
        /\ \A k \in 0 .. Len(script) : C!Boundary(k) >= C!Boundary(Len(script)) => k = Len(script)
        /\ Len(script) \in Nat /\ Len(responses) \in Nat
        /\ Capacity \in Nat \ {0} /\ MaxBody \in Nat
    BY <1>inv, Boundaries DEF BytesOK, ResponsesOK, ConnectionSizes
  <1>s. script' = script /\ \A k : C!Boundary(k)' = C!Boundary(k)
    BY DEF C!RespondFails, C!clientVars, C!Boundary
  <1>1. BytesOK'
    BY <1>inv, <1>b, <1>s DEF C!RespondFails, C!clientVars, BytesOK
  <1>2. C!Framing'
    BY <1>inv, <1>b, <1>s DEF C!RespondFails, C!clientVars, C!Framing, C!Offset, BytesOK
  <1>3. ResponsesOK'
    BY <1>inv, <1>b, <1>s DEF C!RespondFails, C!clientVars, ResponsesOK, BytesOK
  <1>4. C!InOrder'
    BY <1>inv, <1>b, <1>s DEF C!RespondFails, C!clientVars, C!InOrder, ResponsesOK, BytesOK
  <1>. QED
    BY <1>1, <1>2, <1>3, <1>4 DEF ConnectionInv

\* Every step of the connection and its client preserves the invariant.
LEMMA ConnectionNext == ConnectionSizes /\ ConnectionInv /\ [C!Next]_(C!vars) => ConnectionInv'
  <1>. SUFFICES ASSUME ConnectionSizes, ConnectionInv, [C!Next]_(C!vars) PROVE ConnectionInv'
    OBVIOUS
  <1>1. CASE C!ClientStep
    BY <1>1, ArriveStep, ClientClosesStep DEF C!ClientStep
  <1>2. CASE C!ServerStep
    BY <1>2, FillStep, ReadBodyStep, ReadFailsStep, ParseCompleteStep, ParsePartialStep,
       ParseRefusesStep, RespondStep, RespondFailsStep, Zenon DEF C!ServerStep
  <1>3. CASE UNCHANGED C!vars
    <2>1. \A k : C!Boundary(k)' = C!Boundary(k)
      BY <1>3 DEF C!vars, C!Boundary
    <2>. QED
      BY <1>3, <2>1 DEF C!vars, ConnectionInv, BytesOK, C!Framing, C!Offset, ResponsesOK, C!InOrder
  <1>. QED
    BY <1>1, <1>2, <1>3 DEF C!Next

\* The inductive invariant holds wherever the connection can be.
LEMMA ConnectionInvariant == C!Spec => []ConnectionInv
  <1>1. ConnectionSizes
    BY ConnectionAssumption, ExchangeAssumption DEF ConnectionSizes, ScriptRequest
  <1>. QED
    BY <1>1, ConnectionInit, ConnectionNext, PTL DEF C!Spec

\* parse_request, read_body, fill and reset: however the reads split a stream of any
\* requests, each parse begins at the first byte of one, each body is all of its bytes
\* and no more, and fill is never called with a full buffer.
THEOREM ConnectionFramed == C!Spec => []Framing
  <1>1. ConnectionInv => Framing
    BY DEF Framing, C!RoomToFill, ConnectionInv, BytesOK
  <1>. QED
    BY <1>1, ConnectionInvariant, PTL

\* handle_connection: the i-th response answers the i-th request, and a refusal is the
\* last thing written.
THEOREM ConnectionInOrder == C!Spec => []InOrder
  <1>1. ConnectionInv => InOrder
    BY DEF InOrder, ConnectionInv
  <1>. QED
    BY <1>1, ConnectionInvariant, PTL

-----------------------------------------------------------------------------
\* block_on.  The flag is raised after the value is stored and the value leaves with
\* the caller's return, so whoever sees the flag finds the value; the completion has
\* a token only once the task is through with the cell.
CellOK(c) ==
    /\ caller[c] = "idle" => task[c] = "none"
    /\ done[c] => task[c] \in {"done", "complete"}
    /\ task[c] \in {"stored", "done", "complete"} => cell[c] \/ caller[c] \in B!Returned
    /\ caller[c] = "taking" => done[c]
    /\ caller[c] # "EINVAL"
    /\ signals[c] # 0 => task[c] = "complete"

BlockOnTypes ==
    /\ revoked \in [Callers -> BOOLEAN] /\ cell \in [Callers -> BOOLEAN]
    /\ done \in [Callers -> BOOLEAN] /\ signals \in [Callers -> {0, 1}]
    /\ caller \in [Callers -> {"idle", "waiting", "woken", "taking"} \cup B!Returned]
    /\ task \in [Callers -> {"none", "pending", "polling", "stored", "done", "complete",
                             "cancelled"}]

BlockOnInv == BlockOnTypes /\ \A c \in Callers : CellOK(c)

\* No call of block_on has begun: every cell is empty.
LEMMA BlockOnInit == B!Init => BlockOnInv
  <1>. SUFFICES ASSUME B!Init PROVE BlockOnInv
    OBVIOUS
  <1>1. BlockOnTypes
    BY DEF B!Init, BlockOnTypes, B!Returned
  <1>2. \A c \in Callers : CellOK(c)
    BY DEF B!Init, CellOK
  <1>. QED
    BY <1>1, <1>2 DEF BlockOnInv

\* Every step of a caller, a task and stop keeps cells and callers in agreement.
LEMMA BlockOnNext == BlockOnInv /\ [B!Next]_bVars => BlockOnInv'
  <1>. SUFFICES ASSUME BlockOnInv, [B!Next]_bVars PROVE BlockOnInv'
    OBVIOUS
  <1>inv. BlockOnTypes /\ \A c \in Callers : CellOK(c)
    BY DEF BlockOnInv
  <1>0. CASE UNCHANGED bVars
    BY <1>0 DEF bVars, BlockOnInv, BlockOnTypes, CellOK
  <1>1. ASSUME B!Stop PROVE BlockOnInv'
    <2>1. BlockOnTypes'
      BY <1>inv, <1>1 DEF B!Stop, BlockOnTypes, B!Returned
    <2>2. \A x \in Callers : CellOK(x)'
      BY <1>inv, <1>1 DEF B!Stop, BlockOnTypes, B!Returned, CellOK
    <2>. QED
      BY <2>1, <2>2 DEF BlockOnInv
  <1>2. ASSUME NEW c \in Callers, B!SpawnFails(c) PROVE BlockOnInv'
    <2>1. BlockOnTypes'
      BY <1>inv, <1>2 DEF B!SpawnFails, BlockOnTypes, B!Returned
    <2>0. /\ \A x \in Callers \ {c} : caller'[x] = caller[x]
          /\ caller'[c] \in {"ENOMEM", "EBUSY"} /\ caller[c] = "idle"
      BY <1>inv, <1>2 DEF B!SpawnFails, BlockOnTypes
    <2>2. \A x \in Callers : CellOK(x)'
      BY <2>0, <1>inv, <1>2 DEF B!SpawnFails, B!Returned, CellOK
    <2>. QED
      BY <2>1, <2>2 DEF BlockOnInv
  <1>3. ASSUME NEW c \in Callers, B!Spawn(c) PROVE BlockOnInv'
    <2>1. BlockOnTypes'
      BY <1>inv, <1>3 DEF B!Spawn, BlockOnTypes, B!Returned
    <2>2. \A x \in Callers : CellOK(x)'
      BY <1>inv, <1>3 DEF B!Spawn, BlockOnTypes, B!Returned, CellOK
    <2>. QED
      BY <2>1, <2>2 DEF BlockOnInv
  <1>4. ASSUME NEW c \in Callers, B!Wake(c) PROVE BlockOnInv'
    <2>1. BlockOnTypes'
      BY <1>inv, <1>4 DEF B!Wake, BlockOnTypes, B!Returned
    <2>2. \A x \in Callers : CellOK(x)'
      BY <1>inv, <1>4 DEF B!Wake, BlockOnTypes, B!Returned, CellOK
    <2>. QED
      BY <2>1, <2>2 DEF BlockOnInv
  <1>5. ASSUME NEW c \in Callers, B!TimeOut(c) PROVE BlockOnInv'
    <2>1. BlockOnTypes'
      BY <1>inv, <1>5 DEF B!TimeOut, BlockOnTypes, B!Returned
    <2>2. \A x \in Callers : CellOK(x)'
      BY <1>inv, <1>5 DEF B!TimeOut, BlockOnTypes, B!Returned, CellOK
    <2>. QED
      BY <2>1, <2>2 DEF BlockOnInv
  <1>6. ASSUME NEW c \in Callers, B!LoadDone(c) PROVE BlockOnInv'
    <2>1. BlockOnTypes'
      BY <1>inv, <1>6 DEF B!LoadDone, BlockOnTypes, B!Returned
    <2>2. \A x \in Callers : CellOK(x)'
      BY <1>inv, <1>6 DEF B!LoadDone, BlockOnTypes, B!Returned, CellOK
    <2>. QED
      BY <2>1, <2>2 DEF BlockOnInv
  <1>7. ASSUME NEW c \in Callers, B!TakeValue(c) PROVE BlockOnInv'
    <2>1. BlockOnTypes'
      BY <1>inv, <1>7 DEF B!TakeValue, BlockOnTypes, B!Returned
    <2>2. \A x \in Callers : CellOK(x)'
      BY <1>inv, <1>7 DEF B!TakeValue, BlockOnTypes, B!Returned, CellOK
    <2>. QED
      BY <2>1, <2>2 DEF BlockOnInv
  <1>8. ASSUME NEW c \in Callers, B!PollBegin(c) PROVE BlockOnInv'
    <2>1. BlockOnTypes'
      BY <1>inv, <1>8 DEF B!PollBegin, BlockOnTypes, B!Returned
    <2>2. \A x \in Callers : CellOK(x)'
      BY <1>inv, <1>8 DEF B!PollBegin, BlockOnTypes, B!Returned, CellOK
    <2>. QED
      BY <2>1, <2>2 DEF BlockOnInv
  <1>9. ASSUME NEW c \in Callers, B!PollPending(c) PROVE BlockOnInv'
    <2>1. BlockOnTypes'
      BY <1>inv, <1>9 DEF B!PollPending, BlockOnTypes, B!Returned
    <2>2. \A x \in Callers : CellOK(x)'
      BY <1>inv, <1>9 DEF B!PollPending, BlockOnTypes, B!Returned, CellOK
    <2>. QED
      BY <2>1, <2>2 DEF BlockOnInv
  <1>10. ASSUME NEW c \in Callers, B!StoreValue(c) PROVE BlockOnInv'
    <2>1. BlockOnTypes'
      BY <1>inv, <1>10 DEF B!StoreValue, BlockOnTypes, B!Returned
    <2>2. \A x \in Callers : CellOK(x)'
      BY <1>inv, <1>10 DEF B!StoreValue, BlockOnTypes, B!Returned, CellOK
    <2>. QED
      BY <2>1, <2>2 DEF BlockOnInv
  <1>11. ASSUME NEW c \in Callers, B!StoreDone(c) PROVE BlockOnInv'
    <2>1. BlockOnTypes'
      BY <1>inv, <1>11 DEF B!StoreDone, BlockOnTypes, B!Returned
    <2>2. \A x \in Callers : CellOK(x)'
      BY <1>inv, <1>11 DEF B!StoreDone, BlockOnTypes, B!Returned, CellOK
    <2>. QED
      BY <2>1, <2>2 DEF BlockOnInv
  <1>12. ASSUME NEW c \in Callers, B!Complete(c) PROVE BlockOnInv'
    <2>0. signals[c] = 0
      BY <1>inv, <1>12 DEF B!Complete, CellOK
    <2>1. BlockOnTypes'
      BY <2>0, <1>inv, <1>12 DEF B!Complete, BlockOnTypes, B!Returned
    <2>2. \A x \in Callers : CellOK(x)'
      BY <1>inv, <1>12 DEF B!Complete, BlockOnTypes, B!Returned, CellOK
    <2>. QED
      BY <2>1, <2>2 DEF BlockOnInv
  <1>13. ASSUME NEW c \in Callers, B!StopRevokes(c) PROVE BlockOnInv'
    <2>1. BlockOnTypes'
      BY <1>inv, <1>13 DEF B!StopRevokes, BlockOnTypes, B!Returned
    <2>2. \A x \in Callers : CellOK(x)'
      BY <1>inv, <1>13 DEF B!StopRevokes, BlockOnTypes, B!Returned, CellOK
    <2>. QED
      BY <2>1, <2>2 DEF BlockOnInv
  <1>. QED
    BY <1>0, <1>1, <1>2, <1>3, <1>4, <1>5, <1>6, <1>7, <1>8, <1>9, <1>10, <1>11, <1>12, <1>13, Zenon
    DEF B!Next, B!CallerStep, B!PollRuns

\* Ok carries the value the task stored, and the two never meet in the cell, however
\* the timeout of any number of calls of block_on races the tasks and stop.
THEOREM ResultNeverEmpty == B!Spec => []NoEmptyResult
  <1>1. BlockOnInv => NoEmptyResult
    BY DEF BlockOnInv, BlockOnTypes, CellOK, B!Returned, NoEmptyResult, B!NoEmptyResult,
           B!ValueExclusive
  <1>2. B!Spec => []BlockOnInv
    BY BlockOnInit, BlockOnNext, PTL DEF B!Spec, B!vars, bVars
  <1>. QED
    BY <1>1, <1>2, PTL

-----------------------------------------------------------------------------
\* The async channel.  Each half holds one reference until it is gone; the state is
\* set once, by a sender that has written the value or never will, and what the
\* receiver has seen of it stays true.
AsyncInv ==
    /\ aspc \in {"open", "written", "wake", "taking", "woken", "gone"}
    /\ arpc \in {"pending", "store", "storing", "recheck", "read", "some", "none",
                 "cancelled", "gone_some", "gone_none"}
    /\ state \in {"EMPTY", "SENT", "CLOSED"}
    /\ arefs = (IF aspc = "gone" THEN 0 ELSE 1) + (IF A!ReceiverGone THEN 0 ELSE 1)
    /\ A!FreedByLast
    /\ state = "EMPTY" <=> aspc \in {"open", "written"}
    /\ aspc = "written" \/ state = "SENT" => avalue \in Values
    /\ arpc \in {"read", "some", "gone_some"} => state = "SENT"
    /\ arpc \in {"some", "gone_some"} => areceived = avalue
    /\ arpc \in {"none", "gone_none"} => state = "CLOSED"

\* Both halves of a new async channel are there and nothing was sent.
LEMMA AsyncInit == A!Init => AsyncInv
  BY DEF A!Init, AsyncInv, A!ReceiverGone, A!FreedByLast

\* Every step of either half keeps the invariant of the async channel.
LEMMA AsyncNext == AsyncInv /\ [A!Next]_aVars => AsyncInv'
  <1>. SUFFICES ASSUME AsyncInv, [A!Next]_aVars PROVE AsyncInv'
    OBVIOUS
  <1>. USE DEF AsyncInv, A!ReceiverGone, A!FreedByLast
  <1>1. CASE UNCHANGED aVars
    BY <1>1 DEF aVars
  <1>2. ASSUME NEW v \in Values, A!WriteValue(v) PROVE AsyncInv'
    BY <1>2 DEF A!WriteValue
  <1>3. CASE A!StoreSent
    BY <1>3 DEF A!StoreSent
  <1>4. CASE A!StoreClosed
    BY <1>4 DEF A!StoreClosed
  <1>5. CASE A!TakeBegin
    BY <1>5 DEF A!TakeBegin
  <1>6. CASE A!TakeEnd
    BY <1>6 DEF A!TakeEnd
  <1>7. CASE A!SenderDecRef
    <2>1. /\ aspc = "woken" /\ aspc' = "gone" /\ arefs' = arefs - 1
          /\ UNCHANGED <<state, avalue, areceived, arpc>>
      BY <1>7 DEF A!SenderDecRef
    <2>2. afreed' <=> arefs = 1
      BY <1>7, Zenon DEF A!SenderDecRef
    <2>. QED
      BY <2>1, <2>2
  <1>8. CASE A!PollLoad
    BY <1>8 DEF A!PollLoad, A!Branch
  <1>9. CASE A!StoreBegin
    BY <1>9 DEF A!StoreBegin
  <1>10. CASE A!StoreEnd
    BY <1>10 DEF A!StoreEnd
  <1>11. CASE A!PollRecheck
    BY <1>11 DEF A!PollRecheck, A!Branch
  <1>12. CASE A!ReadValue
    BY <1>12 DEF A!ReadValue
  <1>13. CASE A!ReceiverDecRef
    <2>1. /\ arpc \in {"pending", "some", "none"} /\ arefs' = arefs - 1
          /\ arpc = "pending" => arpc' = "cancelled"
          /\ arpc = "some" => arpc' = "gone_some"
          /\ arpc = "none" => arpc' = "gone_none"
          /\ UNCHANGED <<state, avalue, areceived, aspc>>
      BY <1>13 DEF A!ReceiverDecRef
    <2>2. afreed' <=> arefs = 1
      BY <1>13, Zenon DEF A!ReceiverDecRef
    <2>. QED
      BY <2>1, <2>2
  <1>14. CASE A!OtherWake
    BY <1>14 DEF A!OtherWake
  <1>. QED
    BY <1>1, <1>2, <1>3, <1>4, <1>5, <1>6, <1>7, <1>8, <1>9, <1>10, <1>11, <1>12, <1>13, <1>14, Zenon
    DEF A!Next, A!SenderStep, A!PollStep

\* The invariant of the async channel holds in every reachable state.
LEMMA AsyncInvariant == A!Spec => []AsyncInv
  BY AsyncInit, AsyncNext, PTL DEF A!Spec, A!vars, aVars

-----------------------------------------------------------------------------
\* The sync channel.  The token, and the receiver's way past the wait, exist only once
\* the sender has signalled; by then the flag and the value are what they will be.
Signalled == sspc \in {"completed", "gone"}

SyncReceiverGone == srpc \in {"gone_some", "gone_none", "gone_timeout", "gone_unused"}

SyncInv ==
    /\ sspc \in {"open", "written", "complete", "completed", "gone"}
    /\ srpc \in {"held", "waiting", "signalled", "some", "none", "timeout"} \/ SyncReceiverGone
    /\ sent \in BOOLEAN /\ tokens \in {0, 1}
    /\ srefs = (IF sspc = "gone" THEN 0 ELSE 1) + (IF SyncReceiverGone THEN 0 ELSE 1)
    /\ S!FreedByLast
    /\ tokens = 1 => Signalled
    /\ srpc \in {"signalled", "some", "none", "gone_some", "gone_none"} => Signalled /\ tokens = 0
    /\ sspc \in {"open", "written"} => ~sent
    /\ sspc = "written" \/ sent => svalue \in Values
    /\ srpc \in {"some", "gone_some"} => sent /\ sreceived = svalue
    /\ srpc \in {"none", "gone_none"} => ~sent

\* Both halves of a new sync channel are there and nothing was sent.
LEMMA SyncInit == S!Init => SyncInv
  <1>. SUFFICES ASSUME S!Init PROVE SyncInv
    OBVIOUS
  <1>1. ~SyncReceiverGone /\ ~Signalled /\ S!FreedByLast
    BY DEF S!Init, SyncReceiverGone, Signalled, S!FreedByLast
  <1>2. sent = FALSE /\ sent \in BOOLEAN /\ ~sent
    BY Zenon DEF S!Init
  <1>3. tokens = 0 /\ srefs = 2 /\ sspc = "open" /\ srpc = "held"
    BY Zenon DEF S!Init
  <1>. QED
    BY <1>1, <1>2, <1>3 DEF SyncInv

\* Every step of either half keeps the invariant of the sync channel.
LEMMA SyncNext == SyncInv /\ [S!Next]_sVars => SyncInv'
  <1>. SUFFICES ASSUME SyncInv, [S!Next]_sVars PROVE SyncInv'
    OBVIOUS
  <1>. USE DEF SyncInv, SyncReceiverGone, Signalled, S!FreedByLast
  <1>1. CASE UNCHANGED sVars
    BY <1>1 DEF sVars
  <1>2. ASSUME NEW v \in Values, S!WriteValue(v) PROVE SyncInv'
    BY <1>2 DEF S!WriteValue
  <1>3. CASE S!SetSent
    BY <1>3 DEF S!SetSent
  <1>4. CASE S!SenderDrop
    BY <1>4 DEF S!SenderDrop
  <1>5. CASE S!Complete
    BY <1>5 DEF S!Complete
  <1>6. CASE S!SenderDecRef
    <2>1. /\ sspc = "completed" /\ sspc' = "gone" /\ srefs' = srefs - 1
          /\ UNCHANGED <<svalue, sreceived, sent, tokens, srpc>>
      BY <1>6 DEF S!SenderDecRef
    <2>2. sfreed' <=> srefs = 1
      BY <1>6, Zenon DEF S!SenderDecRef
    <2>. QED
      BY <2>1, <2>2
  <1>7. ASSUME NEW v \in BOOLEAN, S!Recv(v) PROVE SyncInv'
    BY <1>7 DEF S!Recv
  <1>8. CASE S!TakeToken
    BY <1>8 DEF S!TakeToken
  <1>9. CASE S!TimeOut
    BY <1>9 DEF S!TimeOut
  <1>10. CASE S!ReadValue
    BY <1>10 DEF S!ReadValue
  <1>11. CASE S!ReceiverDecRef
    <2>1. /\ srpc \in {"held", "some", "none", "timeout"} /\ srefs' = srefs - 1
          /\ srpc = "held" => srpc' = "gone_unused"
          /\ srpc = "some" => srpc' = "gone_some"
          /\ srpc = "none" => srpc' = "gone_none"
          /\ srpc = "timeout" => srpc' = "gone_timeout"
          /\ UNCHANGED <<svalue, sreceived, sent, tokens, sspc>>
      BY <1>11 DEF S!ReceiverDecRef, S!Gone
    <2>2. sfreed' <=> srefs = 1
      BY <1>11, Zenon DEF S!ReceiverDecRef
    <2>. QED
      BY <2>1, <2>2
  <1>. QED
    BY <1>1, <1>2, <1>3, <1>4, <1>5, <1>6, <1>7, <1>8, <1>9, <1>10, <1>11, Zenon
    DEF S!Next, S!SenderFinish, S!ReceiverFinish

\* The invariant of the sync channel holds in every reachable state.
LEMMA SyncInvariant == S!Spec => []SyncInv
  BY SyncInit, SyncNext, PTL DEF S!Spec, S!vars, sVars

\* Of both channels the heap cell is freed by the half that is dropped last, and not
\* before: no send, poll or wait, in any order, touches a freed cell or leaks one.
THEOREM CellFreedByLast == A!Spec /\ S!Spec => []FreedByLast
  <1>1. AsyncInv /\ SyncInv => FreedByLast
    BY DEF AsyncInv, SyncInv, FreedByLast
  <1>. QED
    BY <1>1, AsyncInvariant, SyncInvariant, PTL

-----------------------------------------------------------------------------
\* The async channel takes only steps of the abstract channel: Some(v) exactly when v
\* was sent, None exactly when the sender was dropped, for any set of values.  (That
\* the receiver is answered in the end is left to the model checker.)
THEOREM AsyncImplementsChannel == A!Spec => A!Channel!ChanSafeSpec
  <1>. USE DEF A!Channel!ChanNext, A!Channel!Send, A!Channel!Close, A!Channel!Deliver,
               A!Channel!GiveUp, A!Channel!chanVars
  <1>1. A!Init => A!Channel!ChanInit
    BY DEF A!Init, A!Channel!ChanInit
  <1>2. ASSUME AsyncInv, AsyncInv', [A!Next]_aVars
        PROVE  [A!Channel!ChanNext]_(A!Channel!chanVars)
    <2>. USE <1>2, ValuesAssumption DEF AsyncInv
    <2>1. CASE UNCHANGED aVars
      BY <2>1 DEF aVars
    <2>2. CASE A!SenderStep
      BY <2>2, Zenon DEF A!SenderStep, A!WriteValue, A!StoreSent, A!StoreClosed, A!TakeBegin,
                  A!TakeEnd, A!SenderDecRef
    <2>3. CASE A!PollStep
      BY <2>3 DEF A!PollStep, A!PollLoad, A!StoreBegin, A!StoreEnd, A!PollRecheck,
                  A!ReadValue, A!Branch
    <2>4. CASE A!ReceiverDecRef \/ A!OtherWake
      BY <2>4 DEF A!ReceiverDecRef, A!OtherWake
    <2>. QED
      BY <2>1, <2>2, <2>3, <2>4 DEF A!Next
  <1>. QED
    BY <1>1, <1>2, AsyncInvariant, PTL DEF A!Spec, A!vars, aVars, A!Channel!ChanSafeSpec

\* The sync channel implements the abstract channel: Some(v) if v was sent, None if the
\* sender was dropped, and a timeout only ever instead of an answer.
THEOREM SyncImplementsChannel == S!Spec => S!ImplementsChannel
  <1>. USE DEF S!Channel!ChanNext, S!Channel!Send, S!Channel!Close, S!Channel!Deliver,
               S!Channel!GiveUp, S!Channel!chanVars
  <1>1. S!Init => S!Channel!ChanInit
    BY Zenon DEF S!Init, S!Channel!ChanInit
  <1>2. ASSUME SyncInv, SyncInv', [S!Next]_sVars
        PROVE  [S!Channel!ChanNext]_(S!Channel!chanVars)
    <2>. USE <1>2, ValuesAssumption DEF SyncInv, SyncReceiverGone, Signalled
    <2>1. CASE UNCHANGED sVars
      BY <2>1 DEF sVars
    <2>2. CASE (\E v \in Values : S!WriteValue(v)) \/ S!SenderDrop \/ S!SenderFinish
      BY <2>2 DEF S!WriteValue, S!SenderDrop, S!SenderFinish, S!SetSent, S!Complete,
                  S!SenderDecRef
    <2>3. CASE (\E w \in BOOLEAN : S!Recv(w)) \/ S!ReceiverFinish \/ S!TimeOut
      BY <2>3 DEF S!Recv, S!ReceiverFinish, S!TakeToken, S!ReadValue, S!TimeOut
    <2>4. CASE S!ReceiverDecRef
      BY <2>4 DEF S!ReceiverDecRef, S!Gone
    <2>. QED
      BY <2>1, <2>2, <2>3, <2>4 DEF S!Next
  <1>. QED
    BY <1>1, <1>2, SyncInvariant, PTL
    DEF S!Spec, S!vars, sVars, S!ImplementsChannel, S!Channel!ChanSafeSpec

-----------------------------------------------------------------------------
\* The socket future.  Where poll and the callback are says who holds the lock; an
\* entry on the wait queue has a CallbackState and, since the first poll stores it
\* before it registers, a waker; a callback that was turned away by the lock leaves
\* the event to the poll that held it, whose operation comes later.
SocketTypes ==
    /\ lstate \in {"UNLOCKED", "LOCKED", "LOCKED_CONTENDED"}
    /\ lpc \in [{"poll", "callback"} -> {"idle", "slow", "locked"}]
    /\ waker \in BOOLEAN /\ is_queued \in BOOLEAN /\ scheduled \in BOOLEAN /\ ready \in BOOLEAN
    /\ cb_state \in {"null", "live", "freed"}
    /\ future \in {"live", "ready", "error", "dropped"}
    /\ ppc \in {"idle", "lock", "store", "skip", "register", "operate", "free", "done"}
    /\ callbackpc \in {"idle", "event", "other", "lock", "skip", "clone", "wake"}

LockOK ==
    /\ lpc["poll"] = CASE ppc = "store" -> "locked" [] ppc = "skip" -> "slow" [] OTHER -> "idle"
    /\ lpc["callback"] = CASE callbackpc = "clone" -> "locked"
                           [] callbackpc = "skip"  -> "slow"
                           [] OTHER                -> "idle"
    /\ F!Lock!MutualExclusion

InPoll == ppc \in {"lock", "store", "skip", "register", "operate"}

QueueOK ==
    /\ InPoll => future = "live" /\ cb_state = "live"
    /\ future = "dropped" <=> ppc \in {"free", "done"}
    /\ is_queued => waker /\ cb_state = "live" /\ future # "dropped"
    /\ callbackpc \in {"lock", "skip", "clone", "wake"} => is_queued
    /\ ppc \in {"skip", "register"} => waker
    /\ ppc = "operate" => is_queued
    /\ cb_state = "freed" => ppc = "done"

WakeOK ==
    /\ future = "live" /\ cb_state = "live" /\ ppc = "idle" /\ ~scheduled => is_queued
    /\ callbackpc = "skip" /\ ready /\ future = "live" =>
          ppc \in {"store", "register", "operate"}

SocketInv == SocketTypes /\ LockOK /\ QueueOK /\ WakeOK /\ F!NoLostReadiness

\* A future that was not polled is not in the wait queue.
LEMMA SocketInit == F!Init => SocketInv
  <1>. SUFFICES ASSUME F!Init PROVE SocketInv
    OBVIOUS
  <1>1. SocketTypes
    BY Zenon DEF F!Init, F!Lock!Init, SocketTypes
  <1>2. LockOK
    BY DEF F!Init, F!Lock!Init, LockOK, F!Lock!MutualExclusion
  <1>3. QueueOK /\ WakeOK /\ F!NoLostReadiness
    BY DEF F!Init, QueueOK, WakeOK, InPoll, F!NoLostReadiness
  <1>. QED
    BY <1>1, <1>2, <1>3 DEF SocketInv

\* Every step of poll, drop and the callback keeps the invariant of the future.
LEMMA SocketNext == SocketInv /\ [F!Next]_fVars => SocketInv'
  <1>. SUFFICES ASSUME SocketInv, [F!Next]_fVars PROVE SocketInv'
    OBVIOUS
  <1>inv. SocketTypes /\ LockOK /\ QueueOK /\ WakeOK /\ F!NoLostReadiness
    BY DEF SocketInv
  <1>. USE DEF F!lockVars, F!Lock!TryLock, F!Lock!MarkContended, F!Lock!Unlock
  <1>0. CASE UNCHANGED fVars
    BY <1>inv, <1>0 DEF fVars, SocketInv, SocketTypes, LockOK, F!Lock!MutualExclusion, QueueOK,
                        InPoll, WakeOK, F!NoLostReadiness
  <1>1. CASE F!Poll
    <2>1. SocketTypes'
      BY <1>inv, <1>1, Zenon DEF F!Poll, SocketTypes
    <2>2. LockOK'
      BY <1>inv, <1>1 DEF F!Poll, SocketTypes, LockOK, F!Lock!MutualExclusion
    <2>3. QueueOK'
      BY <1>inv, <1>1 DEF F!Poll, SocketTypes, LockOK, F!Lock!MutualExclusion, QueueOK, InPoll
    <2>4. WakeOK'
      BY <1>inv, <1>1 DEF F!Poll, SocketTypes, LockOK, F!Lock!MutualExclusion, QueueOK, InPoll, WakeOK
    <2>5. F!NoLostReadiness'
      BY <1>inv, <1>1 DEF F!Poll, SocketTypes, LockOK, F!Lock!MutualExclusion, QueueOK, InPoll, WakeOK,
                           F!NoLostReadiness
    <2>. QED
      BY <2>1, <2>2, <2>3, <2>4, <2>5 DEF SocketInv
  <1>2. CASE F!PollTryLock
    <2>1. SocketTypes'
      BY <1>inv, <1>2 DEF F!PollTryLock, SocketTypes
    <2>2. LockOK'
      BY <1>inv, <1>2 DEF F!PollTryLock, SocketTypes, LockOK, F!Lock!MutualExclusion
    <2>3. QueueOK'
      BY <1>inv, <1>2 DEF F!PollTryLock, SocketTypes, LockOK, F!Lock!MutualExclusion, QueueOK, InPoll
    <2>4. WakeOK'
      BY <1>inv, <1>2 DEF F!PollTryLock, SocketTypes, LockOK, F!Lock!MutualExclusion, QueueOK, InPoll, WakeOK
    <2>5. F!NoLostReadiness'
      BY <1>inv, <1>2 DEF F!PollTryLock, SocketTypes, LockOK, F!Lock!MutualExclusion, QueueOK, InPoll, WakeOK,
                           F!NoLostReadiness
    <2>. QED
      BY <2>1, <2>2, <2>3, <2>4, <2>5 DEF SocketInv
  <1>3. CASE F!PollStore
    <2>1. SocketTypes'
      BY <1>inv, <1>3 DEF F!PollStore, SocketTypes
    <2>2. LockOK'
      BY <1>inv, <1>3 DEF F!PollStore, SocketTypes, LockOK, F!Lock!MutualExclusion
    <2>3. QueueOK'
      BY <1>inv, <1>3 DEF F!PollStore, SocketTypes, LockOK, F!Lock!MutualExclusion, QueueOK, InPoll
    <2>4. WakeOK'
      BY <1>inv, <1>3 DEF F!PollStore, SocketTypes, LockOK, F!Lock!MutualExclusion, QueueOK, InPoll, WakeOK
    <2>5. F!NoLostReadiness'
      BY <1>inv, <1>3 DEF F!PollStore, SocketTypes, LockOK, F!Lock!MutualExclusion, QueueOK, InPoll, WakeOK,
                           F!NoLostReadiness
    <2>. QED
      BY <2>1, <2>2, <2>3, <2>4, <2>5 DEF SocketInv
  <1>4. CASE F!PollSkip
    <2>1. SocketTypes'
      BY <1>inv, <1>4 DEF F!PollSkip, SocketTypes
    <2>2. LockOK'
      BY <1>inv, <1>4 DEF F!PollSkip, SocketTypes, LockOK, F!Lock!MutualExclusion
    <2>3. QueueOK'
      BY <1>inv, <1>4 DEF F!PollSkip, SocketTypes, LockOK, F!Lock!MutualExclusion, QueueOK, InPoll
    <2>4. WakeOK'
      BY <1>inv, <1>4 DEF F!PollSkip, SocketTypes, LockOK, F!Lock!MutualExclusion, QueueOK, InPoll, WakeOK
    <2>5. F!NoLostReadiness'
      BY <1>inv, <1>4 DEF F!PollSkip, SocketTypes, LockOK, F!Lock!MutualExclusion, QueueOK, InPoll, WakeOK,
                           F!NoLostReadiness
    <2>. QED
      BY <2>1, <2>2, <2>3, <2>4, <2>5 DEF SocketInv
  <1>5. CASE F!PollRegister
    <2>1. SocketTypes'
      BY <1>inv, <1>5 DEF F!PollRegister, SocketTypes
    <2>2. LockOK'
      BY <1>inv, <1>5 DEF F!PollRegister, SocketTypes, LockOK, F!Lock!MutualExclusion
    <2>3. QueueOK'
      BY <1>inv, <1>5 DEF F!PollRegister, SocketTypes, LockOK, F!Lock!MutualExclusion, QueueOK, InPoll
    <2>4. WakeOK'
      BY <1>inv, <1>5 DEF F!PollRegister, SocketTypes, LockOK, F!Lock!MutualExclusion, QueueOK, InPoll, WakeOK
    <2>5. F!NoLostReadiness'
      BY <1>inv, <1>5 DEF F!PollRegister, SocketTypes, LockOK, F!Lock!MutualExclusion, QueueOK, InPoll, WakeOK,
                           F!NoLostReadiness
    <2>. QED
      BY <2>1, <2>2, <2>3, <2>4, <2>5 DEF SocketInv
  <1>6. CASE F!PollOperate
    <2>1. SocketTypes'
      BY <1>inv, <1>6, Zenon DEF F!PollOperate, SocketTypes
    <2>2. LockOK'
      BY <1>inv, <1>6 DEF F!PollOperate, SocketTypes, LockOK, F!Lock!MutualExclusion
    <2>3. QueueOK'
      BY <1>inv, <1>6 DEF F!PollOperate, SocketTypes, LockOK, F!Lock!MutualExclusion, QueueOK, InPoll
    <2>4. WakeOK'
      BY <1>inv, <1>6 DEF F!PollOperate, SocketTypes, LockOK, F!Lock!MutualExclusion, QueueOK, InPoll, WakeOK
    <2>5. F!NoLostReadiness'
      BY <1>inv, <1>6, Zenon DEF F!PollOperate, SocketTypes, LockOK, F!Lock!MutualExclusion, QueueOK, InPoll, WakeOK,
                           F!NoLostReadiness
    <2>. QED
      BY <2>1, <2>2, <2>3, <2>4, <2>5 DEF SocketInv
  <1>7. CASE F!Drop
    <2>1. SocketTypes'
      BY <1>inv, <1>7, Zenon DEF F!Drop, SocketTypes
    <2>2. LockOK'
      BY <1>inv, <1>7 DEF F!Drop, SocketTypes, LockOK, F!Lock!MutualExclusion
    <2>3. QueueOK'
      BY <1>inv, <1>7 DEF F!Drop, SocketTypes, LockOK, F!Lock!MutualExclusion, QueueOK, InPoll
    <2>4. WakeOK'
      BY <1>inv, <1>7 DEF F!Drop, SocketTypes, LockOK, F!Lock!MutualExclusion, QueueOK, InPoll, WakeOK
    <2>5. F!NoLostReadiness'
      BY <1>inv, <1>7 DEF F!Drop, SocketTypes, LockOK, F!Lock!MutualExclusion, QueueOK, InPoll, WakeOK,
                           F!NoLostReadiness
    <2>. QED
      BY <2>1, <2>2, <2>3, <2>4, <2>5 DEF SocketInv
  <1>8. CASE F!DropFree
    <2>1. SocketTypes'
      BY <1>inv, <1>8, Zenon DEF F!DropFree, SocketTypes
    <2>2. LockOK'
      BY <1>inv, <1>8 DEF F!DropFree, SocketTypes, LockOK, F!Lock!MutualExclusion
    <2>3. QueueOK'
      BY <1>inv, <1>8 DEF F!DropFree, SocketTypes, LockOK, F!Lock!MutualExclusion, QueueOK, InPoll
    <2>4. WakeOK'
      BY <1>inv, <1>8 DEF F!DropFree, SocketTypes, LockOK, F!Lock!MutualExclusion, QueueOK, InPoll, WakeOK
    <2>5. F!NoLostReadiness'
      BY <1>inv, <1>8 DEF F!DropFree, SocketTypes, LockOK, F!Lock!MutualExclusion, QueueOK, InPoll, WakeOK,
                           F!NoLostReadiness
    <2>. QED
      BY <2>1, <2>2, <2>3, <2>4, <2>5 DEF SocketInv
  <1>9. ASSUME NEW matching \in BOOLEAN, F!Event(matching) PROVE SocketInv'
    <2>1. SocketTypes'
      BY <1>inv, <1>9 DEF F!Event, SocketTypes
    <2>2. LockOK'
      BY <1>inv, <1>9 DEF F!Event, SocketTypes, LockOK, F!Lock!MutualExclusion
    <2>3. QueueOK'
      BY <1>inv, <1>9 DEF F!Event, SocketTypes, LockOK, F!Lock!MutualExclusion, QueueOK, InPoll
    <2>4. WakeOK'
      BY <1>inv, <1>9 DEF F!Event, SocketTypes, LockOK, F!Lock!MutualExclusion, QueueOK, InPoll, WakeOK
    <2>5. F!NoLostReadiness'
      BY <1>inv, <1>9 DEF F!Event, SocketTypes, LockOK, F!Lock!MutualExclusion, QueueOK, InPoll, WakeOK,
                           F!NoLostReadiness
    <2>. QED
      BY <2>1, <2>2, <2>3, <2>4, <2>5 DEF SocketInv
  <1>10. CASE F!Steal
    <2>0. /\ ready' \in BOOLEAN
          /\ UNCHANGED <<lstate, lpc, waker, cb_state, is_queued, future, scheduled, ppc, callbackpc>>
      BY <1>10, Zenon DEF F!Steal
    <2>1. SocketTypes'
      BY <2>0, <1>inv DEF SocketTypes
    <2>2. LockOK'
      BY <1>inv, <1>10 DEF F!Steal, SocketTypes, LockOK, F!Lock!MutualExclusion
    <2>3. QueueOK'
      BY <1>inv, <1>10 DEF F!Steal, SocketTypes, LockOK, F!Lock!MutualExclusion, QueueOK, InPoll
    <2>4. WakeOK'
      BY <1>inv, <1>10 DEF F!Steal, SocketTypes, LockOK, F!Lock!MutualExclusion, QueueOK, InPoll, WakeOK
    <2>5. F!NoLostReadiness'
      BY <1>inv, <1>10 DEF F!Steal, SocketTypes, LockOK, F!Lock!MutualExclusion, QueueOK, InPoll, WakeOK,
                           F!NoLostReadiness
    <2>. QED
      BY <2>1, <2>2, <2>3, <2>4, <2>5 DEF SocketInv
  <1>11. CASE F!CallbackMasked
    <2>1. SocketTypes'
      BY <1>inv, <1>11 DEF F!CallbackMasked, SocketTypes
    <2>2. LockOK'
      BY <1>inv, <1>11 DEF F!CallbackMasked, SocketTypes, LockOK, F!Lock!MutualExclusion
    <2>3. QueueOK'
      BY <1>inv, <1>11 DEF F!CallbackMasked, SocketTypes, LockOK, F!Lock!MutualExclusion, QueueOK, InPoll
    <2>4. WakeOK'
      BY <1>inv, <1>11 DEF F!CallbackMasked, SocketTypes, LockOK, F!Lock!MutualExclusion, QueueOK, InPoll, WakeOK
    <2>5. F!NoLostReadiness'
      BY <1>inv, <1>11 DEF F!CallbackMasked, SocketTypes, LockOK, F!Lock!MutualExclusion, QueueOK, InPoll, WakeOK,
                           F!NoLostReadiness
    <2>. QED
      BY <2>1, <2>2, <2>3, <2>4, <2>5 DEF SocketInv
  <1>12. CASE F!Walk
    <2>1. SocketTypes'
      BY <1>inv, <1>12 DEF F!Walk, SocketTypes
    <2>2. LockOK'
      BY <1>inv, <1>12 DEF F!Walk, SocketTypes, LockOK, F!Lock!MutualExclusion
    <2>3. QueueOK'
      BY <1>inv, <1>12 DEF F!Walk, SocketTypes, LockOK, F!Lock!MutualExclusion, QueueOK, InPoll
    <2>4. WakeOK'
      BY <1>inv, <1>12 DEF F!Walk, SocketTypes, LockOK, F!Lock!MutualExclusion, QueueOK, InPoll, WakeOK
    <2>5. F!NoLostReadiness'
      BY <1>inv, <1>12 DEF F!Walk, SocketTypes, LockOK, F!Lock!MutualExclusion, QueueOK, InPoll, WakeOK,
                           F!NoLostReadiness
    <2>. QED
      BY <2>1, <2>2, <2>3, <2>4, <2>5 DEF SocketInv
  <1>13. CASE F!CallbackTryLock
    <2>1. SocketTypes'
      BY <1>inv, <1>13 DEF F!CallbackTryLock, SocketTypes
    <2>2. LockOK'
      BY <1>inv, <1>13 DEF F!CallbackTryLock, SocketTypes, LockOK, F!Lock!MutualExclusion
    <2>3. QueueOK'
      BY <1>inv, <1>13 DEF F!CallbackTryLock, SocketTypes, LockOK, F!Lock!MutualExclusion, QueueOK, InPoll
    <2>4. WakeOK'
      BY <1>inv, <1>13 DEF F!CallbackTryLock, SocketTypes, LockOK, F!Lock!MutualExclusion, QueueOK, InPoll, WakeOK
    <2>5. F!NoLostReadiness'
      BY <1>inv, <1>13 DEF F!CallbackTryLock, SocketTypes, LockOK, F!Lock!MutualExclusion, QueueOK, InPoll, WakeOK,
                           F!NoLostReadiness
    <2>. QED
      BY <2>1, <2>2, <2>3, <2>4, <2>5 DEF SocketInv
  <1>14. CASE F!CallbackSkip
    <2>1. SocketTypes'
      BY <1>inv, <1>14 DEF F!CallbackSkip, SocketTypes
    <2>2. LockOK'
      BY <1>inv, <1>14 DEF F!CallbackSkip, SocketTypes, LockOK, F!Lock!MutualExclusion
    <2>3. QueueOK'
      BY <1>inv, <1>14 DEF F!CallbackSkip, SocketTypes, LockOK, F!Lock!MutualExclusion, QueueOK, InPoll
    <2>4. WakeOK'
      BY <1>inv, <1>14 DEF F!CallbackSkip, SocketTypes, LockOK, F!Lock!MutualExclusion, QueueOK, InPoll, WakeOK
    <2>5. F!NoLostReadiness'
      BY <1>inv, <1>14 DEF F!CallbackSkip, SocketTypes, LockOK, F!Lock!MutualExclusion, QueueOK, InPoll, WakeOK,
                           F!NoLostReadiness
    <2>. QED
      BY <2>1, <2>2, <2>3, <2>4, <2>5 DEF SocketInv
  <1>15. CASE F!CallbackClone
    <2>1. SocketTypes'
      BY <1>inv, <1>15 DEF F!CallbackClone, SocketTypes
    <2>2. LockOK'
      BY <1>inv, <1>15 DEF F!CallbackClone, SocketTypes, LockOK, F!Lock!MutualExclusion
    <2>3. QueueOK'
      BY <1>inv, <1>15 DEF F!CallbackClone, SocketTypes, LockOK, F!Lock!MutualExclusion, QueueOK, InPoll
    <2>4. WakeOK'
      BY <1>inv, <1>15 DEF F!CallbackClone, SocketTypes, LockOK, F!Lock!MutualExclusion, QueueOK, InPoll, WakeOK
    <2>5. F!NoLostReadiness'
      BY <1>inv, <1>15 DEF F!CallbackClone, SocketTypes, LockOK, F!Lock!MutualExclusion, QueueOK, InPoll, WakeOK,
                           F!NoLostReadiness
    <2>. QED
      BY <2>1, <2>2, <2>3, <2>4, <2>5 DEF SocketInv
  <1>16. CASE F!CallbackWake
    <2>1. SocketTypes'
      BY <1>inv, <1>16 DEF F!CallbackWake, SocketTypes
    <2>2. LockOK'
      BY <1>inv, <1>16 DEF F!CallbackWake, SocketTypes, LockOK, F!Lock!MutualExclusion
    <2>3. QueueOK'
      BY <1>inv, <1>16 DEF F!CallbackWake, SocketTypes, LockOK, F!Lock!MutualExclusion, QueueOK, InPoll
    <2>4. WakeOK'
      BY <1>inv, <1>16 DEF F!CallbackWake, SocketTypes, LockOK, F!Lock!MutualExclusion, QueueOK, InPoll, WakeOK
    <2>5. F!NoLostReadiness'
      BY <1>inv, <1>16 DEF F!CallbackWake, SocketTypes, LockOK, F!Lock!MutualExclusion, QueueOK, InPoll, WakeOK,
                           F!NoLostReadiness
    <2>. QED
      BY <2>1, <2>2, <2>3, <2>4, <2>5 DEF SocketInv
  <1>. QED
    BY <1>0, <1>1, <1>2, <1>3, <1>4, <1>5, <1>6, <1>7, <1>8, <1>9, <1>10, <1>11, <1>12, <1>13, <1>14,
       <1>15, <1>16, Zenon
    DEF F!Next, F!PollStep, F!CallbackStep

\* The wait-queue callback never meets a freed CallbackState, poll and the callback
\* have the waker under the NoWaitLock only, and no readiness is lost although each of
\* them skips the waker when the other has the lock.
THEOREM SocketFutureAlwaysSound == F!Spec => []SocketFutureSound
  <1>1. SocketInv => SocketFutureSound
    <2>. SUFFICES ASSUME SocketInv PROVE SocketFutureSound
      OBVIOUS
    <2>1. SocketTypes /\ LockOK /\ QueueOK /\ F!NoLostReadiness
      BY DEF SocketInv
    <2>2. F!CallbackStateAlive
      BY <2>1 DEF QueueOK, F!CallbackStateAlive
    <2>3. F!WakerLocked
      BY <2>1 DEF LockOK, F!WakerLocked
    <2>. QED
      BY <2>1, <2>2, <2>3 DEF SocketFutureSound
  <1>2. F!Spec => []SocketInv
    BY SocketInit, SocketNext, PTL DEF F!Spec, F!vars, fVars
  <1>. QED
    BY <1>1, <1>2, PTL
=============================================================================
