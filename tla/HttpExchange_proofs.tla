------------------------ MODULE HttpExchange_proofs ------------------------
(***************************************************************************)
(* Proof that the client and the server understand each other, for every   *)
(* plan of the caller, every handler, every size of the buffers and of     *)
(* the body, every base of the numbers and every split of the two streams. *)
(*                                                                         *)
(* A message is its line, its headers and its body; Wire lays it out as    *)
(* tokens and Cut(m, i, j) is the part of it from i to j.  The invariant   *)
(* ExchangeInv says where the two ends are in the message that is on its   *)
(* way: what is in flight is Cut(m, a, b), the reader has the first a      *)
(* tokens in its buffer or in the message it is making, and the writer     *)
(* still has to write the ones from b on.                                  *)
(***************************************************************************)
EXTENDS HttpExchange, SequenceTheorems, NaturalsInduction, WellFoundedInduction, TLAPS

\* Induction: a set of naturals with 0 and every successor has them all.
LEMMA NaturalInduction ==
    ASSUME NEW S, 0 \in S, \A n \in Nat : n \in S => n + 1 \in S
    PROVE  Nat \subseteq S
  <1>. DEFINE T == Nat \ S
  <1>1. SUFFICES ASSUME T # {} PROVE FALSE
    OBVIOUS
  <1>2. PICK m \in T : \A n \in T : <<n, m>> \notin OpToRel(<, Nat)
    BY <1>1, NatLessThanWellFounded, WFMin
  <1>3. \A n \in T : ~(n < m)
    BY <1>2, Zenon DEF OpToRel
  <1>4. m # 0 /\ m - 1 \in Nat /\ m - 1 \notin T
    BY <1>3
  <1>5. (m - 1) + 1 \in S
    BY <1>4
  <1>. QED
    BY <1>5

-----------------------------------------------------------------------------
\* Numbers.  The ten digits are different strings.
LEMMA Digits == \A x, y \in 1 .. 10 : Digit[x] = Digit[y] => x = y
  <1>1. Digit[1] = "0" /\ Digit[2] = "1" /\ Digit[3] = "2" /\ Digit[4] = "3" /\ Digit[5] = "4"
        /\ Digit[6] = "5" /\ Digit[7] = "6" /\ Digit[8] = "7" /\ Digit[9] = "8" /\ Digit[10] = "9"
    BY DEF Digit
  <1>2. \A x \in 1 .. 10 : x = 1 \/ x = 2 \/ x = 3 \/ x = 4 \/ x = 5 \/ x = 6 \/ x = 7
                            \/ x = 8 \/ x = 9 \/ x = 10
    OBVIOUS
  <1>3. ASSUME NEW x \in 1 .. 10, NEW y \in 1 .. 10, Digit[x] = Digit[y] PROVE x = y
    BY <1>1, <1>2, <1>3
  <1>. QED
    BY <1>3

\* A number is written in at least two digits, and at most ten.
LEMMA BaseFact == Base \in 2 .. 10
  BY ExchangeAssumption, Zenon

\* The powers of the base are defined, ...
LEMMA PowerExists ==
    ASSUME NEW N \in Nat
    PROVE  \E f : f = [k \in 0 .. N |-> IF k = 0 THEN 1 ELSE Base * f[k - 1]]
  <1>. DEFINE S == {n \in Nat : \E f : f = [k \in 0 .. n |-> IF k = 0 THEN 1 ELSE Base * f[k - 1]]}
  <1>1. 0 \in S
    <2>. DEFINE f == [k \in 0 .. 0 |-> 1]
    <2>1. f = [k \in 0 .. 0 |-> IF k = 0 THEN 1 ELSE Base * f[k - 1]]
      OBVIOUS
    <2>. QED
      BY <2>1, Zenon
  <1>2. ASSUME NEW n \in Nat, n \in S PROVE n + 1 \in S
    <2>1. PICK f : f = [k \in 0 .. n |-> IF k = 0 THEN 1 ELSE Base * f[k - 1]]
      BY <1>2
    <2>. DEFINE g == [k \in 0 .. n + 1 |-> IF k = 0 THEN 1 ELSE Base * f[k - 1]]
                h == [k \in 0 .. n + 1 |-> IF k = 0 THEN 1 ELSE Base * g[k - 1]]
    <2>2. ASSUME NEW k \in 0 .. n PROVE g[k] = f[k]
      <3>1. f[k] = IF k = 0 THEN 1 ELSE Base * f[k - 1]
        BY <2>1
      <3>2. k \in 0 .. n + 1
        OBVIOUS
      <3>. QED
        BY <3>1, <3>2
    <2>. HIDE DEF g
    <2>3. ASSUME NEW k \in 0 .. n + 1 PROVE g[k] = h[k]
      <3>1. g[k] = IF k = 0 THEN 1 ELSE Base * f[k - 1]
        BY DEF g
      <3>2. k # 0 => k - 1 \in 0 .. n
        OBVIOUS
      <3>3. k # 0 => g[k - 1] = f[k - 1]
        BY <3>2, <2>2
      <3>. QED
        BY <3>1, <3>3
    <2>4. g = h
      <3>1. g = [k \in 0 .. n + 1 |-> g[k]]
        BY DEF g
      <3>2. h = [k \in 0 .. n + 1 |-> h[k]]
        OBVIOUS
      <3>. HIDE DEF h
      <3>. QED
        BY <3>1, <3>2, <2>3
    <2>. QED
      BY <2>4
  <1>3. Nat \subseteq S
    <2>. HIDE DEF S
    <2>. QED
      BY <1>1, <1>2, NaturalInduction
  <1>. QED
    BY <1>3, Zenon

\* ... and naturals.
LEMMA Powers ==
    /\ Power[0] = 1
    /\ \A k \in 1 .. 20 : Power[k] = Base * Power[k - 1]
    /\ \A k \in 0 .. 20 : Power[k] \in Nat \ {0}
  <1>1. Power = [k \in 0 .. 20 |-> IF k = 0 THEN 1 ELSE Base * Power[k - 1]]
    BY PowerExists DEF Power
  <1>2. Power[0] = 1
    BY <1>1
  <1>3. \A k \in 1 .. 20 : Power[k] = Base * Power[k - 1]
    BY <1>1
  <1>. DEFINE S == {n \in Nat : n <= 20 => Power[n] \in Nat \ {0}}
  <1>4. 0 \in S
    BY <1>2
  <1>5. ASSUME NEW n \in Nat, n \in S PROVE n + 1 \in S
    <2>. SUFFICES ASSUME n + 1 <= 20 PROVE Power[n + 1] \in Nat \ {0}
      OBVIOUS
    <2>1. PICK k \in 1 .. 20 : k = n + 1 /\ k - 1 = n
      OBVIOUS
    <2>2. Power[k] = Base * Power[n] /\ Power[n] \in Nat \ {0} /\ Base \in Nat \ {0}
      BY <2>1, <1>3, <1>5, BaseFact
    <2>3. \A x, y \in Nat \ {0} : x * y \in Nat \ {0}
      OBVIOUS
    <2>. QED
      BY <2>1, <2>2, <2>3
  <1>6. Nat \subseteq S
    <2>. HIDE DEF S
    <2>. QED
      BY <1>4, <1>5, NaturalInduction
  <1>. QED
    BY <1>2, <1>3, <1>6

\* What str::parse is given: the digits of the base.
Numeral == {Digit[d] : d \in 1 .. Base}
DigitOf(x) == CHOOSE d \in 1 .. Base : Digit[d] = x

\* A digit is found again.
LEMMA DigitFound == \A d \in 1 .. Base : DigitOf(Digit[d]) = d
  <1>. SUFFICES ASSUME NEW d \in 1 .. Base PROVE DigitOf(Digit[d]) = d
    OBVIOUS
  <1>1. \A e \in 1 .. Base : e \in 1 .. 10
    BY BaseFact
  <1>2. \A e \in 1 .. Base : Digit[e] = Digit[d] => e = d
    BY <1>1, Digits
  <1>3. DigitOf(Digit[d]) \in 1 .. Base /\ Digit[DigitOf(Digit[d])] = Digit[d]
    BY DEF DigitOf
  <1>. QED
    BY <1>2, <1>3

\* The recursion of str::parse has a solution.
LEMMA ValueExists ==
    ASSUME NEW v, NEW N \in Nat
    PROVE  \E f : f = [n \in 0 .. N |-> IF n = 0 THEN 0 ELSE Base * f[n - 1] + DigitOf(v[n]) - 1]
  <1>. DEFINE S == {m \in Nat : \E f : f = [n \in 0 .. m |->
                      IF n = 0 THEN 0 ELSE Base * f[n - 1] + DigitOf(v[n]) - 1]}
  <1>1. 0 \in S
    <2>. DEFINE f == [n \in 0 .. 0 |-> 0]
    <2>1. f = [n \in 0 .. 0 |-> IF n = 0 THEN 0 ELSE Base * f[n - 1] + DigitOf(v[n]) - 1]
      OBVIOUS
    <2>. QED
      BY <2>1, Zenon
  <1>2. ASSUME NEW m \in Nat, m \in S PROVE m + 1 \in S
    <2>1. PICK f : f = [n \in 0 .. m |-> IF n = 0 THEN 0 ELSE Base * f[n - 1] + DigitOf(v[n]) - 1]
      BY <1>2
    <2>. DEFINE g == [n \in 0 .. m + 1 |->
                        IF n = 0 THEN 0 ELSE Base * f[n - 1] + DigitOf(v[n]) - 1]
                h == [n \in 0 .. m + 1 |->
                        IF n = 0 THEN 0 ELSE Base * g[n - 1] + DigitOf(v[n]) - 1]
    <2>2. ASSUME NEW n \in 0 .. m PROVE g[n] = f[n]
      <3>1. f[n] = IF n = 0 THEN 0 ELSE Base * f[n - 1] + DigitOf(v[n]) - 1
        BY <2>1
      <3>2. n \in 0 .. m + 1
        OBVIOUS
      <3>. QED
        BY <3>1, <3>2
    <2>. HIDE DEF g
    <2>3. ASSUME NEW n \in 0 .. m + 1 PROVE g[n] = h[n]
      <3>1. g[n] = IF n = 0 THEN 0 ELSE Base * f[n - 1] + DigitOf(v[n]) - 1
        BY DEF g
      <3>2. n # 0 => n - 1 \in 0 .. m
        OBVIOUS
      <3>3. n # 0 => g[n - 1] = f[n - 1]
        BY <3>2, <2>2
      <3>. QED
        BY <3>1, <3>3
    <2>4. g = h
      <3>1. g = [n \in 0 .. m + 1 |-> g[n]]
        BY DEF g
      <3>2. h = [n \in 0 .. m + 1 |-> h[n]]
        OBVIOUS
      <3>. HIDE DEF h
      <3>. QED
        BY <3>1, <3>2, <2>3
    <2>. QED
      BY <2>4
  <1>3. Nat \subseteq S
    <2>. HIDE DEF S
    <2>. QED
      BY <1>1, <1>2, NaturalInduction
  <1>. QED
    BY <1>3, Zenon

\* str::parse of one more digit.
LEMMA ParseAppend ==
    ASSUME NEW v \in Seq(Numeral), NEW d \in 1 .. Base
    PROVE  /\ Append(v, Digit[d]) \in Seq(Numeral)
           /\ ParseUsize(Append(v, Digit[d])) = Base * ParseUsize(v) + d - 1
           /\ ParseUsize(<<>>) = 0
           /\ ParseUsize(v) \in Nat
  <1>. DEFINE F(u) == CHOOSE f : f = [n \in 0 .. Len(u) |->
                         IF n = 0 THEN 0 ELSE Base * f[n - 1] + DigitOf(u[n]) - 1]
              w == Append(v, Digit[d])
  <1>1. ASSUME NEW u, Len(u) \in Nat
        PROVE  F(u) = [n \in 0 .. Len(u) |->
                         IF n = 0 THEN 0 ELSE Base * F(u)[n - 1] + DigitOf(u[n]) - 1]
    BY <1>1, ValueExists, Zenon
  <1>2. \A u : ParseUsize(u) = F(u)[Len(u)]
    BY Zenon DEF ParseUsize, DigitOf
  <1>3. w \in Seq(Numeral) /\ Len(v) \in Nat /\ Len(w) = Len(v) + 1 /\ w[Len(v) + 1] = Digit[d]
        /\ \A n \in 1 .. Len(v) : w[n] = v[n]
    BY DEF Numeral
  <1>4. Len(<<>>) = 0
    OBVIOUS
  <1>. HIDE DEF w, F
  <1>5. ASSUME NEW u, Len(u) \in Nat
        PROVE  F(u)[0] = 0
               /\ \A n \in 1 .. Len(u) : F(u)[n] = Base * F(u)[n - 1] + DigitOf(u[n]) - 1
    <2>1. F(u) = [n \in 0 .. Len(u) |->
                         IF n = 0 THEN 0 ELSE Base * F(u)[n - 1] + DigitOf(u[n]) - 1]
      BY <1>1, <1>5
    <2>. QED
      BY <2>1, <1>5
  <1>6. F(w)[0] = 0 /\ \A n \in 1 .. Len(v) + 1 : F(w)[n] = Base * F(w)[n - 1] + DigitOf(w[n]) - 1
    BY <1>3, <1>5
  <1>7. F(v)[0] = 0 /\ \A n \in 1 .. Len(v) : F(v)[n] = Base * F(v)[n - 1] + DigitOf(v[n]) - 1
    BY <1>3, <1>5
  <1>. DEFINE S == {m \in Nat : m <= Len(v) => F(w)[m] = F(v)[m] /\ F(v)[m] \in Nat}
  <1>8. 0 \in S
    BY <1>6, <1>7
  <1>9. ASSUME NEW m \in Nat, m \in S PROVE m + 1 \in S
    <2>. SUFFICES ASSUME m + 1 <= Len(v)
                  PROVE  F(w)[m + 1] = F(v)[m + 1] /\ F(v)[m + 1] \in Nat
      OBVIOUS
    <2>1. PICK n \in 1 .. Len(v) : n = m + 1 /\ n - 1 = m /\ n \in 1 .. Len(v) + 1
      BY <1>3
    <2>2. F(w)[m] = F(v)[m] /\ F(v)[m] \in Nat
      BY <1>9, <2>1, <1>3
    <2>3. F(v)[n] = Base * F(v)[m] + DigitOf(v[n]) - 1
          /\ F(w)[n] = Base * F(w)[m] + DigitOf(w[n]) - 1
      BY <2>1, <1>6, <1>7
    <2>4. w[n] = v[n]
      BY <1>3
    <2>5. DigitOf(v[n]) \in 1 .. Base
      <3>1. v[n] \in Numeral
        BY <1>3
      <3>2. PICK e \in 1 .. Base : v[n] = Digit[e]
        BY <3>1 DEF Numeral
      <3>. QED
        BY <3>2, DigitFound
    <2>6. Base * F(v)[m] \in Nat
      BY <2>2, BaseFact
    <2>7. Base * F(v)[m] + DigitOf(v[n]) - 1 \in Nat
      BY <2>5, <2>6, BaseFact
    <2>. QED
      BY <2>1, <2>2, <2>3, <2>4, <2>7
  <1>10. Nat \subseteq S
    <2>. HIDE DEF S
    <2>. QED
      BY <1>8, <1>9, NaturalInduction
  <1>11. F(w)[Len(v)] = F(v)[Len(v)] /\ F(v)[Len(v)] \in Nat
    BY <1>10, <1>3
  <1>12. F(w)[Len(v) + 1] = Base * F(w)[Len(v)] + DigitOf(Digit[d]) - 1
    <2>1. PICK n \in 1 .. Len(v) + 1 : n = Len(v) + 1 /\ n - 1 = Len(v)
      BY <1>3
    <2>2. F(w)[n] = Base * F(w)[n - 1] + DigitOf(w[n]) - 1
      BY <1>6
    <2>. QED
      BY <2>1, <2>2, <1>3
  <1>13. F(<<>>)[0] = 0
    BY <1>4, <1>5
  <1>. QED
    BY <1>2, <1>3, <1>4, <1>11, <1>12, <1>13, DigitFound, Zenon DEF w


\* The equation of the loop of format_usize, ...
DigitLoop(f, val, W) ==
    [pos \in 0 .. W |-> [v \in 0 .. val |->
        IF pos = 0 \/ v = 0 THEN <<>>
        ELSE Append(f[pos - 1][v \div Base], Digit[(v % Base) + 1])]]

\* ... which has a solution.
LEMMA DigitsExist ==
    ASSUME NEW val, NEW W \in Nat
    PROVE  \E f : f = DigitLoop(f, val, W)
  <1>. DEFINE S == {m \in Nat : \E f : f = [pos \in 0 .. m |-> [v \in 0 .. val |->
                      IF pos = 0 \/ v = 0 THEN <<>>
                      ELSE Append(f[pos - 1][v \div Base], Digit[(v % Base) + 1])]]}
  <1>1. 0 \in S
    <2>. DEFINE f == [pos \in 0 .. 0 |-> [v \in 0 .. val |-> <<>>]]
    <2>1. f = [pos \in 0 .. 0 |-> [v \in 0 .. val |->
                      IF pos = 0 \/ v = 0 THEN <<>>
                      ELSE Append(f[pos - 1][v \div Base], Digit[(v % Base) + 1])]]
      OBVIOUS
    <2>. QED
      BY <2>1, Zenon
  <1>2. ASSUME NEW m \in Nat, m \in S PROVE m + 1 \in S
    <2>1. PICK f : f = [pos \in 0 .. m |-> [v \in 0 .. val |->
                      IF pos = 0 \/ v = 0 THEN <<>>
                      ELSE Append(f[pos - 1][v \div Base], Digit[(v % Base) + 1])]]
      BY <1>2, Zenon
    <2>. DEFINE g == [pos \in 0 .. m + 1 |-> [v \in 0 .. val |->
                      IF pos = 0 \/ v = 0 THEN <<>>
                      ELSE Append(f[pos - 1][v \div Base], Digit[(v % Base) + 1])]]
                h == [pos \in 0 .. m + 1 |-> [v \in 0 .. val |->
                      IF pos = 0 \/ v = 0 THEN <<>>
                      ELSE Append(g[pos - 1][v \div Base], Digit[(v % Base) + 1])]]
    <2>2. ASSUME NEW pos \in 0 .. m PROVE g[pos] = f[pos]
      <3>1. f[pos] = [v \in 0 .. val |-> IF pos = 0 \/ v = 0 THEN <<>>
                      ELSE Append(f[pos - 1][v \div Base], Digit[(v % Base) + 1])]
        BY <2>1, Zenon
      <3>2. pos \in 0 .. m + 1
        OBVIOUS
      <3>. QED
        BY <3>1, <3>2
    <2>. HIDE DEF g
    <2>3. ASSUME NEW pos \in 0 .. m + 1 PROVE g[pos] = h[pos]
      <3>1. g[pos] = [v \in 0 .. val |-> IF pos = 0 \/ v = 0 THEN <<>>
                      ELSE Append(f[pos - 1][v \div Base], Digit[(v % Base) + 1])]
        BY DEF g
      <3>2. pos # 0 => pos - 1 \in 0 .. m
        OBVIOUS
      <3>3. pos # 0 => g[pos - 1] = f[pos - 1]
        BY <3>2, <2>2
      <3>4. h[pos] = [v \in 0 .. val |-> IF pos = 0 \/ v = 0 THEN <<>>
                      ELSE Append(g[pos - 1][v \div Base], Digit[(v % Base) + 1])]
        OBVIOUS
      <3>. HIDE DEF h
      <3>. QED
        BY <3>1, <3>3, <3>4
    <2>4. g = h
      <3>1. g = [pos \in 0 .. m + 1 |-> g[pos]]
        BY DEF g
      <3>2. h = [pos \in 0 .. m + 1 |-> h[pos]]
        OBVIOUS
      <3>. HIDE DEF h
      <3>. QED
        BY <3>1, <3>2, <2>3
    <2>5. g = [pos \in 0 .. m + 1 |-> [v \in 0 .. val |->
                  IF pos = 0 \/ v = 0 THEN <<>>
                  ELSE Append(g[pos - 1][v \div Base], Digit[(v % Base) + 1])]]
      BY <2>4, Zenon
    <2>6. m + 1 \in Nat
      OBVIOUS
    <2>. QED
      BY <2>5, <2>6, Zenon
  <1>3. Nat \subseteq S
    <2>. HIDE DEF S
    <2>. QED
      BY <1>1, <1>2, NaturalInduction
  <1>. QED
    BY <1>3, Zenon DEF DigitLoop

\* One step of the division.
LEMMA DivMod ==
    ASSUME NEW v \in Nat
    PROVE  /\ v \div Base \in Nat /\ v % Base \in 0 .. Base - 1
           /\ v = Base * (v \div Base) + (v % Base)
           /\ v # 0 => v \div Base < v
           /\ \A p \in Nat : v < Base * p => v \div Base < p
  <1>1. Base \in Nat /\ Base > 1
    BY BaseFact
  <1>. DEFINE q == v \div Base
              r == v % Base
  <1>2. q \in Nat /\ r \in 0 .. Base - 1 /\ v = Base * q + r
    BY <1>1
  <1>. HIDE DEF q, r
  <1>3. v # 0 => q < v
    BY <1>1, <1>2
  <1>4. ASSUME NEW p \in Nat, v < Base * p PROVE q < p
    <2>1. SUFFICES ASSUME q >= p PROVE FALSE
      BY <1>2
    <2>2. Base * q >= Base * p
      BY <2>1, <1>1, <1>2
    <2>3. Base * q \in Nat /\ Base * p \in Nat
      BY <1>1, <1>2
    <2>. QED
      BY <2>2, <2>3, <1>2, <1>4
  <1>. QED
    BY <1>2, <1>3, <1>4 DEF q, r

\* A length that fits is read back as it was written.
LEMMA FormatParse ==
    ASSUME NEW val \in Nat, val < Power[20]
    PROVE  /\ IsUsize(FormatUsize(val, 20))
           /\ ParseUsize(FormatUsize(val, 20)) = val
  <1>. DEFINE D == CHOOSE f : f = DigitLoop(f, val, 20)
  <1>1. D = [pos \in 0 .. 20 |-> [v \in 0 .. val |->
                IF pos = 0 \/ v = 0 THEN <<>>
                ELSE Append(D[pos - 1][v \div Base], Digit[(v % Base) + 1])]]
    <2>1. 20 \in Nat
      OBVIOUS
    <2>2. \E f : f = DigitLoop(f, val, 20)
      BY <2>1, DigitsExist, Zenon
    <2>3. D = DigitLoop(D, val, 20)
      BY <2>2, Zenon
    <2>. HIDE DEF D
    <2>. QED
      BY <2>3, Zenon DEF DigitLoop
  <1>2. FormatUsize(val, 20) = IF val = 0 THEN <<"0">> ELSE D[20][val]
    BY Zenon DEF FormatUsize, DigitLoop
  <1>. HIDE DEF D
  <1>3. \A v \in 0 .. val : D[0][v] = <<>>
    BY <1>1
  <1>4. ASSUME NEW k \in 1 .. 20, NEW v \in 0 .. val
        PROVE  D[k][v] = IF v = 0 THEN <<>>
                         ELSE Append(D[k - 1][v \div Base], Digit[(v % Base) + 1])
    <2>1. k \in 0 .. 20 /\ k # 0
      OBVIOUS
    <2>2. D[k] = [w \in 0 .. val |-> IF k = 0 \/ w = 0 THEN <<>>
                      ELSE Append(D[k - 1][w \div Base], Digit[(w % Base) + 1])]
      BY <1>1, <2>1, Zenon
    <2>. QED
      BY <2>1, <2>2, Zenon
  <1>. DEFINE OK(k, v) == /\ D[k][v] \in Seq(Numeral)
                          /\ v < Power[k] => ParseUsize(D[k][v]) = v
                          /\ k # 0 /\ v # 0 => D[k][v] # <<>>
              S == {k \in Nat : k <= 20 => \A v \in 0 .. val : OK(k, v)}
  <1>5. 1 \in 1 .. Base /\ <<>> \in Seq(Numeral) /\ ParseUsize(<<>>) = 0
    <2>1. 1 \in 1 .. Base /\ <<>> \in Seq(Numeral)
      BY BaseFact
    <2>. QED
      BY <2>1, ParseAppend, Zenon
  <1>6. 0 \in S
    <2>1. ASSUME NEW v \in 0 .. val PROVE OK(0, v)
      <3>1. D[0][v] = <<>>
        BY <1>3, Zenon
      <3>2. v < Power[0] => v = 0
        BY Powers
      <3>. QED
        BY <3>1, <3>2, <1>5, Zenon
    <2>2. 0 \in Nat
      OBVIOUS
    <2>. QED
      BY <2>1, <2>2, Zenon
  <1>7. ASSUME NEW m \in Nat, m \in S PROVE m + 1 \in S
    <2>. SUFFICES ASSUME m + 1 <= 20, NEW v \in 0 .. val PROVE OK(m + 1, v)
      OBVIOUS
    <2>1. PICK k \in 1 .. 20 : k = m + 1 /\ k - 1 = m
      OBVIOUS
    <2>2. CASE v = 0
      <3>1. D[k][v] = <<>>
        BY <1>4, <2>2, Zenon
      <3>. QED
        BY <3>1, <2>1, <2>2, <1>5, Zenon
    <2>3. CASE v # 0
      <3>. DEFINE q == v \div Base
                  d == (v % Base) + 1
                  u == D[m][q]
      <3>1. q \in Nat /\ v % Base \in 0 .. Base - 1 /\ v = Base * q + (v % Base) /\ q < v
            /\ \A p \in Nat : v < Base * p => q < p
        BY <2>3, DivMod
      <3>. HIDE DEF q
      <3>2. d \in 1 .. Base /\ q \in 0 .. val /\ v = Base * q + d - 1
        BY <3>1, BaseFact
      <3>3. D[k][v] = Append(u, Digit[d])
        BY <1>4, <2>1, <2>3, Zenon DEF q
      <3>. HIDE DEF d
      <3>4. OK(m, q)
        BY <1>7, <3>2, <2>1
      <3>5. u \in Seq(Numeral)
        BY <3>4
      <3>6. v < Power[k] => q < Power[m]
        <4>1. Power[k] = Base * Power[m] /\ Power[m] \in Nat
          BY <2>1, Powers
        <4>. QED
          BY <4>1, <3>1
      <3>. HIDE DEF u
      <3>7. Append(u, Digit[d]) \in Seq(Numeral)
            /\ ParseUsize(Append(u, Digit[d])) = Base * ParseUsize(u) + d - 1
        BY <3>2, <3>5, ParseAppend
      <3>8. v < Power[k] => ParseUsize(D[k][v]) = v
        BY <3>2, <3>3, <3>4, <3>6, <3>7 DEF u
      <3>9. Append(u, Digit[d]) # <<>>
        BY <3>5
      <3>. QED
        BY <3>3, <3>7, <3>8, <3>9, <2>1, Zenon
    <2>. QED
      BY <2>2, <2>3
  <1>8. Nat \subseteq S
    <2>. HIDE DEF S
    <2>. QED
      BY <1>6, <1>7, NaturalInduction
  <1>9. OK(20, val)
    BY <1>8
  <1>10. \A w \in Seq(Numeral) : w # <<>> => IsUsize(w)
    BY DEF IsUsize, Numeral
  <1>11. CASE val = 0
    <2>1. Digit[1] = "0"
      BY DEF Digit
    <2>2. Append(<<>>, Digit[1]) = <<"0">> /\ <<"0">> # <<>>
      BY <2>1
    <2>3. <<"0">> \in Seq(Numeral) /\ ParseUsize(<<"0">>) = Base * 0 + 1 - 1
      BY <2>2, <1>5, ParseAppend, Zenon
    <2>4. Base * 0 + 1 - 1 = 0
      BY BaseFact
    <2>. QED
      BY <2>2, <2>3, <2>4, <1>2, <1>10, <1>11, Zenon
  <1>12. CASE val # 0
    BY <1>2, <1>9, <1>10, <1>12
  <1>. QED
    BY <1>11, <1>12

-----------------------------------------------------------------------------
\* Sequences.  Part of a sequence, ...
LEMMA Part ==
    ASSUME NEW T, NEW s \in Seq(T), NEW i \in Nat, NEW j \in Nat, i <= j, j <= Len(s)
    PROVE  /\ SubSeq(s, i + 1, j) \in Seq(T) /\ Len(SubSeq(s, i + 1, j)) = j - i
           /\ \A k \in 1 .. j - i : SubSeq(s, i + 1, j)[k] = s[i + k]
           /\ SubSeq(s, i + 1, j) = <<>> <=> i = j
  OBVIOUS

\* ... when two sequences are equal, ...
LEMMA SameSequence ==
    ASSUME NEW T, NEW s \in Seq(T), NEW t \in Seq(T), Len(s) = Len(t),
           \A i \in 1 .. Len(s) : s[i] = t[i]
    PROVE  s = t
  OBVIOUS

\* ... a part of a part, ...
LEMMA PartOfPart ==
    ASSUME NEW T, NEW s \in Seq(T), NEW i \in Nat, NEW j \in Nat, i <= j, j <= Len(s),
           NEW p \in Nat, NEW q \in Nat, p <= q, q <= j - i
    PROVE  SubSeq(SubSeq(s, i + 1, j), p + 1, q) = SubSeq(s, (i + p) + 1, i + q)
  <1>. DEFINE u == SubSeq(s, i + 1, j)
              v == SubSeq(u, p + 1, q)
              w == SubSeq(s, (i + p) + 1, i + q)
  <1>1. u \in Seq(T) /\ Len(u) = j - i /\ \A k \in 1 .. j - i : u[k] = s[i + k]
    BY Part
  <1>. HIDE DEF u
  <1>2. v \in Seq(T) /\ Len(v) = q - p /\ \A k \in 1 .. q - p : v[k] = u[p + k]
    BY <1>1, Part
  <1>3. i + p \in Nat /\ i + q \in Nat /\ i + p <= i + q /\ i + q <= Len(s)
    OBVIOUS
  <1>4. w \in Seq(T) /\ Len(w) = (i + q) - (i + p)
        /\ \A k \in 1 .. (i + q) - (i + p) : w[k] = s[(i + p) + k]
    BY <1>3, Part
  <1>. HIDE DEF v, w
  <1>5. \A k \in 1 .. Len(v) : v[k] = w[k]
    <2>. SUFFICES ASSUME NEW k \in 1 .. Len(v) PROVE v[k] = w[k]
      OBVIOUS
    <2>1. p + k \in 1 .. j - i /\ i + (p + k) = (i + p) + k
      BY <1>2
    <2>2. u[p + k] = s[(i + p) + k]
      BY <1>1, <2>1
    <2>3. k \in 1 .. q - p /\ k \in 1 .. (i + q) - (i + p)
      BY <1>2
    <2>. QED
      BY <1>2, <1>4, <2>2, <2>3
  <1>6. Len(v) = Len(w)
    BY <1>2, <1>4
  <1>7. v = w
    BY <1>2, <1>4, <1>5, <1>6, SameSequence, Zenon
  <1>. QED
    BY <1>7 DEF u, v, w

\* ... two adjacent parts, ...
LEMMA Adjacent ==
    ASSUME NEW T, NEW s \in Seq(T), NEW i \in Nat, NEW j \in Nat, NEW k \in Nat,
           i <= j, j <= k, k <= Len(s)
    PROVE  SubSeq(s, i + 1, j) \o SubSeq(s, j + 1, k) = SubSeq(s, i + 1, k)
  <1>. DEFINE u == SubSeq(s, i + 1, j)
              v == SubSeq(s, j + 1, k)
              w == SubSeq(s, i + 1, k)
  <1>1. u \in Seq(T) /\ Len(u) = j - i /\ \A n \in 1 .. j - i : u[n] = s[i + n]
    BY Part
  <1>2. v \in Seq(T) /\ Len(v) = k - j /\ \A n \in 1 .. k - j : v[n] = s[j + n]
    BY Part
  <1>3. w \in Seq(T) /\ Len(w) = k - i /\ \A n \in 1 .. k - i : w[n] = s[i + n]
    BY Part
  <1>. HIDE DEF u, v, w
  <1>4. u \o v \in Seq(T) /\ Len(u \o v) = k - i
    <2>1. u \in Seq(T) /\ v \in Seq(T)
      BY <1>1, <1>2
    <2>2. u \o v \in Seq(T) /\ Len(u \o v) = Len(u) + Len(v)
      BY <2>1
    <2>. QED
      BY <1>1, <1>2, <2>2
  <1>5. ASSUME NEW n \in 1 .. Len(u \o v) PROVE (u \o v)[n] = w[n]
    <2>1. (u \o v)[n] = IF n <= Len(u) THEN u[n] ELSE v[n - Len(u)]
      BY <1>1, <1>2, <1>5
    <2>2. w[n] = s[i + n]
      BY <1>3, <1>4, <1>5
    <2>3. CASE n <= j - i
      BY <2>1, <2>2, <2>3, <1>1, <1>4
    <2>4. CASE n > j - i
      <3>1. n - Len(u) \in 1 .. k - j /\ j + (n - Len(u)) = i + n
        BY <2>4, <1>1, <1>4
      <3>2. v[n - Len(u)] = s[i + n]
        BY <3>1, <1>2, Zenon
      <3>. QED
        BY <3>2, <2>1, <2>2, <2>4, <1>1
    <2>. QED
      BY <2>3, <2>4, <1>4
  <1>6. u \o v = w
    <2>1. Len(u \o v) = Len(w)
      BY <1>3, <1>4
    <2>. QED
      BY <2>1, <1>3, <1>4, <1>5, SameSequence, Zenon
  <1>. QED
    BY <1>6 DEF u, v, w

\* ... and the two parts of a concatenation.
LEMMA Concatenation ==
    ASSUME NEW T, NEW s \in Seq(T), NEW t \in Seq(T)
    PROVE  /\ s \o t \in Seq(T) /\ Len(s \o t) = Len(s) + Len(t)
           /\ \A i \in 1 .. Len(s) : (s \o t)[i] = s[i]
           /\ \A i \in 1 .. Len(t) : (s \o t)[Len(s) + i] = t[i]
           /\ SubSeq(s \o t, 1, Len(s)) = s
           /\ SubSeq(s \o t, Len(s) + 1, Len(s) + Len(t)) = t
  <1>. DEFINE w == s \o t
  <1>1. w \in Seq(T) /\ Len(w) = Len(s) + Len(t) /\ Len(s) \in Nat /\ Len(t) \in Nat
    OBVIOUS
  <1>2. \A i \in 1 .. Len(s) : w[i] = s[i]
    OBVIOUS
  <1>3. \A i \in 1 .. Len(t) : w[Len(s) + i] = t[i]
    OBVIOUS
  <1>. HIDE DEF w
  <1>. DEFINE a == SubSeq(w, 0 + 1, Len(s))
              b == SubSeq(w, Len(s) + 1, Len(s) + Len(t))
  <1>4. a \in Seq(T) /\ Len(a) = Len(s) - 0 /\ \A k \in 1 .. Len(s) - 0 : a[k] = w[0 + k]
    BY <1>1, Part
  <1>5. b \in Seq(T) /\ Len(b) = (Len(s) + Len(t)) - Len(s)
        /\ \A k \in 1 .. (Len(s) + Len(t)) - Len(s) : b[k] = w[Len(s) + k]
    BY <1>1, Part
  <1>. HIDE DEF a, b
  <1>6. a = s
    BY <1>1, <1>2, <1>4, SameSequence
  <1>7. b = t
    BY <1>1, <1>3, <1>5, SameSequence
  <1>8. a = SubSeq(w, 1, Len(s))
    BY DEF a
  <1>. QED
    BY <1>1, <1>2, <1>3, <1>6, <1>7, <1>8, Zenon DEF w, b

\* The least number of a set.
LEMMA LeastIs ==
    ASSUME NEW S \in SUBSET Int, NEW x \in S, \A y \in S : x <= y
    PROVE  Min(S) = x
  <1>1. \E z \in S : \A y \in S : z <= y
    OBVIOUS
  <1>2. PICK z \in S : z = Min(S) /\ \A y \in S : z <= y
    BY <1>1, Zenon DEF Min
  <1>3. z <= x /\ x <= z /\ z \in Int /\ x \in Int
    BY <1>2
  <1>4. z = x
    BY <1>3
  <1>. QED
    BY <1>2, <1>4, Zenon

-----------------------------------------------------------------------------
\* Messages.  A message is its line, all of its headers and the bytes of its body.
Message(line, headers, body) == [line |-> line, headers |-> headers, body |-> Bytes(body)]

Wire(m) == <<m.line>> \o m.headers \o <<Empty>> \o m.body
HeadLen(m) == Len(m.headers) + 2
FullLen(m) == HeadLen(m) + Len(m.body)

\* The tokens of a message from one offset to another.
Cut(m, i, j) == SubSeq(Wire(m), i + 1, j)

\* The message of the k-th request, and that of a response.
Asked(k) ==
    LET r == Built(plan.requests[k])
    IN  Message([t |-> "line", method |-> r.method, path |-> r.path, version |-> r.version],
                <<Header("Host", HostFor(r))>>
                  \o (IF r.body # <<>> THEN <<LengthHeader(r.body)>> ELSE <<>>) \o r.headers,
                r.body)
Answer(r) ==
    Message([t |-> "line", status |-> r.status, version |-> r.version],
            <<LengthHeader(r.body)>> \o r.headers, r.body)

\* The buffers that are still to be written when b tokens have been.
ToWrite(m, b, out) ==
    \/ b = 0 /\ m.body = <<>> /\ out = <<Cut(m, 0, HeadLen(m))>>
    \/ b = 0 /\ m.body # <<>>
       /\ out = <<Cut(m, 0, HeadLen(m)), Cut(m, HeadLen(m), FullLen(m))>>
    \/ b = HeadLen(m) /\ m.body # <<>> /\ out = <<Cut(m, HeadLen(m), FullLen(m))>>
    \/ b = FullLen(m) /\ out = <<>>

\* What parse_request and parse_response have made of the first a tokens.
RequestSoFar(m, a) ==
    [method |-> m.line.method, path |-> m.line.path, version |-> m.line.version,
     headers |-> m.headers, body |-> Cut(m, HeadLen(m), a), remaining |-> FullLen(m) - a]
ResponseSoFar(m, a) ==
    [status |-> m.line.status, headers |-> m.headers, body |-> Cut(m, HeadLen(m), a),
     remaining |-> FullLen(m) - a]
Result(m) == [status |-> m.line.status, headers |-> m.headers, body |-> m.body]

\* The server has read a tokens of the request m, of which b were written.
ServerAt(m, a, b) ==
    /\ a <= b /\ b <= FullLen(m)
    /\ up = Cut(m, a, b)
    /\ \/ spc \in {"start", "accept", "fill"} /\ a < HeadLen(m) /\ sbuf = Cut(m, 0, a)
       \/ spc = "body" /\ HeadLen(m) <= a /\ a < FullLen(m)
          /\ sbuf = <<>> /\ sreq = RequestSoFar(m, a)
       \/ spc = "handle" /\ a = FullLen(m) /\ sbuf = <<>> /\ sreq = RequestSoFar(m, a)

\* The client has read c tokens of the response m, of which d were written.
ClientAt(m, c, d) ==
    /\ c <= d /\ d <= FullLen(m)
    /\ down = Cut(m, c, d)
    /\ \/ cpc = "write" /\ c = 0 /\ cbuf = <<>>
       \/ cpc = "fill" /\ c < HeadLen(m) /\ cbuf = Cut(m, 0, c)
       \/ cpc = "body" /\ HeadLen(m) <= c /\ c < FullLen(m) /\ cbody = ResponseSoFar(m, c)

\* The response m is being written, or has been.
Writing(m, d) ==
    \/ spc = "write" /\ sout # <<>> /\ ToWrite(m, d, sout)
    \/ spc \in {"fill", "closed"} /\ d = FullLen(m)

NothingUp == up = <<>> /\ sbuf = <<>>
NothingDown == down = <<>> /\ cbuf = <<>>
NextCall == Len(results) + 1

-----------------------------------------------------------------------------
\* Where an exchange may be while the caller has the stream.
Idle ==
    /\ cpc \in {"connect", "build"} /\ NothingDown
    /\ \/ spc = "closed"
       \/ spc \in {"start", "accept", "fill"} /\ Len(seen) = Len(results) /\ NothingUp

Asking ==
    /\ cpc \in {"write", "fill"} /\ NothingDown /\ Len(seen) = Len(results)
    /\ cpc = "write" <=> cout # <<>>
    /\ \E a, b \in Nat : ServerAt(Asked(NextCall), a, b) /\ ToWrite(Asked(NextCall), b, cout)

Answered ==
    /\ cpc \in {"fill", "body"} /\ NothingUp /\ Len(seen) = NextCall
    /\ \E c, d \in Nat : Writing(Answer(answers[NextCall]), d)
                         /\ ClientAt(Answer(answers[NextCall]), c, d)

Refused ==
    /\ cpc \in {"write", "fill", "body"}
    /\ spc = "closed" \/ (spc = "write" /\ sreq = NoMessage)
    /\ \E status \in {"413", "431", "500"} : \E c, d \in Nat :
          Writing(Answer(ErrorResponse(status)), d) /\ ClientAt(Answer(ErrorResponse(status)), c, d)

Dropped == cpc \in {"write", "fill"} /\ NothingDown /\ spc = "closed"

\* Where the server may be, whatever the client does.
ServerOK ==
    \/ spc = "closed"
    \/ spc = "write" /\ sout # <<>> /\ (sreq = NoMessage \/ NothingUp)
    \/ spc \in {"start", "accept", "fill"} /\ NothingUp
    \/ Len(seen) < Len(plan.requests)
       /\ \E a, b \in Nat : ServerAt(Asked(Len(seen) + 1), a, b)

SeenOK ==
    /\ Len(seen) <= Len(plan.requests)
    /\ \A i \in 1 .. Len(seen) : seen[i] = RequestSoFar(Asked(i), FullLen(Asked(i)))

ResultsOK ==
    \A i \in 1 .. Len(results) :
        \/ results[i].status \in {"error", "413", "431", "500"}
        \/ i <= Len(answers) /\ results[i] = Result(Answer(answers[i]))

\* The calls and the handler's rounds so far.
History ==
    /\ plan \in Plans /\ answers \in Seq(Answers) /\ Len(answers) = Len(seen)
    /\ \E S : seen \in Seq(S)
    /\ \E S : results \in Seq(S)
    /\ SeenOK /\ ResultsOK

ClientOK ==
    \/ cpc = "closed"
    \/ /\ Len(results) < Len(plan.requests)
       /\ Idle \/ Asking \/ Answered \/ Refused \/ Dropped

ExchangeInv == History /\ ServerOK /\ ClientOK

-----------------------------------------------------------------------------
\* A message whose Content-Length is the length of its body.
GoodMessage(m) ==
    /\ \E T : m.line \in T /\ Empty \in T /\ m.headers \in Seq(T) /\ m.body \in Seq(T)
    /\ m.line.t = "line"
    /\ \A i \in 1 .. Len(m.headers) : m.headers[i].t = "header"
    /\ \A i \in 1 .. Len(m.body) : m.body[i].t = "byte"
    /\ ContentLength(m.headers) = Len(m.body)

\* What is where in a message.
WireIs(m, T) ==
    /\ Wire(m) \in Seq(T) /\ Len(Wire(m)) = FullLen(m)
    /\ HeadLen(m) \in Nat /\ HeadLen(m) >= 2 /\ FullLen(m) \in Nat
    /\ FullLen(m) >= HeadLen(m) /\ Len(m.body) = FullLen(m) - HeadLen(m)
    /\ m.body = <<>> <=> FullLen(m) = HeadLen(m)
    /\ Wire(m)[1] = m.line /\ Wire(m)[HeadLen(m)] = Empty
    /\ \A i \in 2 .. HeadLen(m) - 1 : Wire(m)[i] = m.headers[i - 1]
    /\ \A i \in HeadLen(m) + 1 .. FullLen(m) : Wire(m)[i] = m.body[i - HeadLen(m)]
    /\ Cut(m, 0, HeadLen(m)) = <<m.line>> \o m.headers \o <<Empty>>
    /\ Cut(m, HeadLen(m), FullLen(m)) = m.body
    /\ Cut(m, 1, HeadLen(m) - 1) = m.headers

\* A good message has that shape on the wire.
LEMMA WireShape ==
    ASSUME NEW m, GoodMessage(m)
    PROVE  \E T : WireIs(m, T)
  <1>1. PICK T : m.line \in T /\ Empty \in T /\ m.headers \in Seq(T) /\ m.body \in Seq(T)
    BY Zenon DEF GoodMessage
  <1>. DEFINE l == m.line
              h == m.headers
              b == m.body
              e == Empty
  <1>0. l \in T /\ e \in T /\ h \in Seq(T) /\ b \in Seq(T)
    BY <1>1
  <1>w. Wire(m) = ((<<l>> \o h) \o <<e>>) \o b /\ HeadLen(m) = Len(h) + 2
        /\ FullLen(m) = HeadLen(m) + Len(b)
    BY Zenon DEF Wire, HeadLen, FullLen
  <1>. HIDE DEF l, h, b, e
  <1>. DEFINE x == <<l>> \o h
              y == x \o <<e>>
              z == y \o b
              H == Len(h) + 2
              F == H + Len(b)
  <1>2. <<l>> \in Seq(T) /\ Len(<<l>>) = 1 /\ <<l>>[1] = l
        /\ <<e>> \in Seq(T) /\ Len(<<e>>) = 1 /\ <<e>>[1] = e
        /\ Len(h) \in Nat /\ Len(b) \in Nat
    BY <1>0
  <1>3. /\ x \in Seq(T) /\ Len(x) = 1 + Len(h)
        /\ x[1] = l /\ \A i \in 1 .. Len(h) : x[1 + i] = h[i]
        /\ SubSeq(x, 1 + 1, 1 + Len(h)) = h
    BY <1>0, <1>2, Concatenation
  <1>. HIDE DEF x
  <1>4. /\ y \in Seq(T) /\ Len(y) = H
        /\ \A i \in 1 .. Len(h) + 1 : y[i] = x[i]
        /\ y[H] = e
        /\ SubSeq(y, 1, Len(h) + 1) = x
    <2>1. /\ y \in Seq(T) /\ Len(y) = Len(x) + Len(<<e>>)
          /\ \A i \in 1 .. Len(x) : y[i] = x[i]
          /\ \A i \in 1 .. Len(<<e>>) : y[Len(x) + i] = <<e>>[i]
          /\ SubSeq(y, 1, Len(x)) = x
      BY <1>2, <1>3, Concatenation
    <2>2. Len(x) = Len(h) + 1 /\ Len(x) + 1 = H /\ 1 \in 1 .. Len(<<e>>)
      BY <1>2, <1>3
    <2>. HIDE DEF y
    <2>. QED
      BY <2>1, <2>2, <1>2
  <1>. HIDE DEF y
  <1>5. /\ z \in Seq(T) /\ Len(z) = F
        /\ \A i \in 1 .. H : z[i] = y[i]
        /\ \A i \in 1 .. Len(b) : z[H + i] = b[i]
        /\ SubSeq(z, 1, H) = y /\ SubSeq(z, H + 1, F) = b
    <2>1. /\ z \in Seq(T) /\ Len(z) = Len(y) + Len(b)
          /\ \A i \in 1 .. Len(y) : z[i] = y[i]
          /\ \A i \in 1 .. Len(b) : z[Len(y) + i] = b[i]
          /\ SubSeq(z, 1, Len(y)) = y /\ SubSeq(z, Len(y) + 1, Len(y) + Len(b)) = b
      <3>1. y \in Seq(T) /\ b \in Seq(T)
        BY <1>0, <1>4, Zenon
      <3>. HIDE DEF H, F
      <3>. QED
        BY <3>1, Concatenation
    <2>. HIDE DEF z
    <2>. QED
      BY <2>1, <1>4, Zenon
  <1>. HIDE DEF z
  <1>6. H \in Nat /\ H >= 2 /\ F \in Nat /\ F >= H /\ Len(b) = F - H
    BY <1>2
  <1>7. b = <<>> <=> F = H
    BY <1>0, <1>6
  <1>8. z[1] = l /\ z[H] = e
    BY <1>3, <1>4, <1>5, <1>2
  <1>9. \A i \in 2 .. H - 1 : z[i] = h[i - 1]
    <2>. SUFFICES ASSUME NEW i \in 2 .. H - 1 PROVE z[i] = h[i - 1]
      OBVIOUS
    <2>1. i \in 1 .. H /\ i \in 1 .. Len(h) + 1 /\ i - 1 \in 1 .. Len(h) /\ 1 + (i - 1) = i
      BY <1>2
    <2>. QED
      BY <2>1, <1>3, <1>4, <1>5
  <1>10. \A i \in H + 1 .. F : z[i] = b[i - H]
    <2>. SUFFICES ASSUME NEW i \in H + 1 .. F PROVE z[i] = b[i - H]
      OBVIOUS
    <2>1. i - H \in 1 .. Len(b) /\ H + (i - H) = i
      BY <1>6
    <2>. QED
      BY <2>1, <1>5
  <1>11. SubSeq(z, 1 + 1, H - 1) = h
    <2>. DEFINE c == SubSeq(z, 1 + 1, H - 1)
    <2>1. c \in Seq(T) /\ Len(c) = (H - 1) - 1 /\ \A k \in 1 .. (H - 1) - 1 : c[k] = z[1 + k]
      <3>1. 1 \in Nat /\ H - 1 \in Nat /\ 1 <= H - 1 /\ H - 1 <= Len(z)
        BY <1>5, <1>6
      <3>. HIDE DEF H
      <3>. QED
        BY <1>5, <3>1, Part
    <2>. HIDE DEF c
    <2>2. Len(c) = Len(h)
      BY <2>1, <1>2
    <2>3. ASSUME NEW k \in 1 .. Len(c) PROVE c[k] = h[k]
      <3>1. k \in 1 .. (H - 1) - 1 /\ 1 + k \in 2 .. H - 1 /\ (1 + k) - 1 = k
        BY <2>2, <1>2
      <3>. QED
        BY <3>1, <2>1, <1>9
    <2>4. c = h
      BY <2>1, <2>2, <2>3, <1>0, SameSequence, Zenon
    <2>. QED
      BY <2>4 DEF c
  <1>. HIDE DEF H, F
  <1>12. /\ Cut(m, 0, H) = y /\ Cut(m, H, F) = b /\ Cut(m, 1, H - 1) = h
    <2>1. Wire(m) = z
      BY <1>w, Zenon DEF z, y, x
    <2>2. 0 + 1 = 1
      OBVIOUS
    <2>. QED
      BY <2>1, <2>2, <1>5, <1>11, Zenon DEF Cut
  <1>13. HeadLen(m) = H /\ FullLen(m) = F /\ Wire(m) = z /\ y = <<l>> \o h \o <<e>>
    BY <1>w, Zenon DEF z, y, x, H, F
  <1>14. WireIs(m, T)
    <2>1. l = m.line /\ h = m.headers /\ b = m.body /\ e = Empty
      BY Zenon DEF l, h, b, e
    <2>. QED
      BY <2>1, <1>5, <1>6, <1>7, <1>8, <1>9, <1>10, <1>12, <1>13, Zenon DEF WireIs
  <1>. QED
    BY <1>14, Zenon

\* Reading and writing move along a message.
Span(m, i, j) == GoodMessage(m) /\ i \in Nat /\ j \in Nat /\ i <= j /\ j <= FullLen(m)

\* A part of a message: its length, and what a read of n tokens takes and leaves.
LEMMA Cuts ==
    ASSUME NEW m, NEW i, NEW j, Span(m, i, j)
    PROVE  /\ Len(Cut(m, i, j)) = j - i
           /\ Cut(m, i, j) = <<>> <=> i = j
           /\ \A n \in 0 .. j - i :
                 /\ SubSeq(Cut(m, i, j), 1, n) = Cut(m, i, i + n)
                 /\ SubSeq(Cut(m, i, j), n + 1, Len(Cut(m, i, j))) = Cut(m, i + n, j)
           /\ \A k : Span(m, j, k) => Cut(m, i, j) \o Cut(m, j, k) = Cut(m, i, k)
  <1>0. GoodMessage(m) /\ i \in Nat /\ j \in Nat /\ i <= j /\ j <= FullLen(m)
    BY Zenon DEF Span
  <1>1. PICK T : Wire(m) \in Seq(T) /\ Len(Wire(m)) = FullLen(m)
    BY <1>0, WireShape, Zenon DEF WireIs
  <1>. DEFINE s == Wire(m)
  <1>2. s \in Seq(T) /\ j <= Len(s) /\ FullLen(m) = Len(s)
    BY <1>0, <1>1
  <1>. HIDE DEF s
  <1>3. Len(SubSeq(s, i + 1, j)) = j - i /\ (SubSeq(s, i + 1, j) = <<>> <=> i = j)
    BY <1>0, <1>2, Part
  <1>4. ASSUME NEW n \in 0 .. j - i
        PROVE  /\ SubSeq(SubSeq(s, i + 1, j), 1, n) = SubSeq(s, i + 1, i + n)
               /\ SubSeq(SubSeq(s, i + 1, j), n + 1, j - i) = SubSeq(s, (i + n) + 1, j)
    <2>1. 0 \in Nat /\ n \in Nat /\ 0 <= n /\ n <= j - i /\ j - i \in Nat /\ j - i <= j - i
      BY <1>0
    <2>2. SubSeq(SubSeq(s, i + 1, j), 0 + 1, n) = SubSeq(s, (i + 0) + 1, i + n)
      BY <2>1, <1>0, <1>2, PartOfPart
    <2>3. SubSeq(SubSeq(s, i + 1, j), n + 1, j - i) = SubSeq(s, (i + n) + 1, i + (j - i))
      BY <2>1, <1>0, <1>2, PartOfPart
    <2>4. 0 + 1 = 1 /\ i + 0 = i /\ i + (j - i) = j
      BY <1>0
    <2>. QED
      BY <2>2, <2>3, <2>4, Zenon
  <1>5. ASSUME NEW k, Span(m, j, k)
        PROVE  SubSeq(s, i + 1, j) \o SubSeq(s, j + 1, k) = SubSeq(s, i + 1, k)
    <2>1. k \in Nat /\ j <= k /\ k <= Len(s)
      BY <1>2, <1>5, Zenon DEF Span
    <2>. QED
      BY <1>0, <1>2, <2>1, Adjacent
  <1>. QED
    BY <1>2, <1>3, <1>4, <1>5, Zenon DEF Cut, s

\* Two adjacent parts of a message.
LEMMA CutJoin ==
    ASSUME NEW m, NEW i, NEW j, NEW k, Span(m, i, j), Span(m, j, k)
    PROVE  Cut(m, i, j) \o Cut(m, j, k) = Cut(m, i, k)
  BY Cuts, SMT

\* What parse_request and parse_response make of the part of a message that was read.
LEMMA ParsePart ==
    ASSUME NEW m, GoodMessage(m), NEW d \in Nat, 1 <= d, d <= FullLen(m)
    PROVE  /\ Cut(m, 0, d)[1] = m.line /\ Len(Cut(m, 0, d)) = d
           /\ d < HeadLen(m) => Parse(Cut(m, 0, d)).verdict = "partial"
           /\ d >= HeadLen(m) =>
                 /\ Parse(Cut(m, 0, d)).verdict = "complete"
                 /\ Parse(Cut(m, 0, d)).message =
                       [headers |-> m.headers, length |-> Len(m.body),
                        remaining |-> FullLen(m) - d,
                        body |-> Cut(m, HeadLen(m), d), left |-> <<>>]
  <1>1. PICK T : WireIs(m, T)
    BY WireShape, Zenon
  <1>. DEFINE s == Wire(m)
              H == HeadLen(m)
              F == FullLen(m)
              data == Cut(m, 0, d)
              ends == {i \in DOMAIN data : data[i].t = "empty"}
              head == IF ends = {} THEN Len(data) + 1 ELSE Min(ends)
  <1>2. /\ s \in Seq(T) /\ Len(s) = F /\ H \in Nat /\ H >= 2 /\ F \in Nat /\ F >= H
        /\ Len(m.body) = F - H
    BY <1>1, Zenon DEF WireIs
  <1>3. /\ s[1].t = "line" /\ s[H].t = "empty"
        /\ \A i \in 2 .. H - 1 : s[i].t = "header"
        /\ \A i \in H + 1 .. F : s[i].t = "byte"
    <2>1. s[1] = m.line /\ m.line.t = "line" /\ s[H] = Empty
      BY <1>1, Zenon DEF WireIs, GoodMessage
    <2>2. ASSUME NEW i \in 2 .. H - 1 PROVE s[i].t = "header"
      <3>1. i - 1 \in 1 .. Len(m.headers)
        BY <1>2 DEF HeadLen
      <3>2. s[i] = m.headers[i - 1]
        BY <1>1, Zenon DEF WireIs
      <3>. QED
        BY <3>1, <3>2, Zenon DEF GoodMessage
    <2>3. ASSUME NEW i \in H + 1 .. F PROVE s[i].t = "byte"
      <3>1. i - H \in 1 .. Len(m.body)
        BY <1>2
      <3>2. s[i] = m.body[i - H]
        BY <1>1, Zenon DEF WireIs
      <3>. QED
        BY <3>1, <3>2, Zenon DEF GoodMessage
    <2>4. Empty.t = "empty"
      BY DEF Empty
    <2>. QED
      BY <2>1, <2>2, <2>3, <2>4, Zenon
  <1>4. /\ data \in Seq(T) /\ Len(data) = d /\ DOMAIN data = 1 .. d
        /\ \A i \in 1 .. d : data[i] = s[i]
    <2>1. 0 \in Nat /\ 0 <= d /\ d <= Len(s)
      BY <1>2
    <2>. HIDE DEF s
    <2>2. /\ SubSeq(s, 0 + 1, d) \in Seq(T) /\ Len(SubSeq(s, 0 + 1, d)) = d - 0
          /\ \A k \in 1 .. d - 0 : SubSeq(s, 0 + 1, d)[k] = s[0 + k]
      BY <2>1, <1>2, Part
    <2>3. data = SubSeq(s, 0 + 1, d)
      BY Zenon DEF Cut, s
    <2>. HIDE DEF data
    <2>4. data \in Seq(T) /\ Len(data) = d - 0 /\ \A k \in 1 .. d - 0 : data[k] = s[0 + k]
      BY <2>2, <2>3, Zenon
    <2>. QED
      BY <2>4
  <1>5. data[1] = m.line
    <2>1. s[1] = m.line /\ 1 \in 1 .. d
      BY <1>1 DEF WireIs
    <2>. QED
      BY <2>1, <1>4, Zenon
  <1>p. Parse(data) = [verdict |-> Verdict(data),
                       message |-> IF Verdict(data) = "complete" THEN Parsed(data) ELSE <<>>]
    BY Zenon DEF Parse
  <1>v. Verdict(data) =
          IF data[1].t # "line" \/ \E i \in 2 .. head - 1 : data[i].t # "header" THEN "error"
          ELSE IF head > Len(data) THEN "partial" ELSE "complete"
    BY Zenon DEF Verdict
  <1>. HIDE DEF s, H, F, data
  <1>6. CASE d < H
    <2>1. ends = {}
      <3>1. ASSUME NEW i \in 1 .. d PROVE data[i].t # "empty"
        <4>1. i = 1 \/ i \in 2 .. H - 1
          BY <1>2, <1>6
        <4>2. data[i] = s[i]
          BY <1>4
        <4>. QED
          BY <4>1, <4>2, <1>3
      <3>. QED
        BY <3>1, <1>4, Zenon
    <2>2. head = d + 1
      BY <2>1, <1>4, Zenon
    <2>. HIDE DEF head
    <2>3. data[1].t = "line"
      BY <1>3, <1>4
    <2>4. ASSUME NEW i \in 2 .. head - 1 PROVE data[i].t = "header"
      <3>1. i \in 1 .. d /\ i \in 2 .. H - 1
        BY <2>2, <1>2, <1>6
      <3>. QED
        BY <3>1, <1>3, <1>4
    <2>5. head > Len(data)
      BY <2>2, <1>4
    <2>6. Verdict(data) = "partial"
      BY <1>v, <2>3, <2>4, <2>5, Zenon
    <2>7. Parse(data).verdict = "partial" /\ ~(d >= H)
      BY <2>6, <1>p, <1>2, <1>6
    <2>. QED
      BY <2>7, <1>4, <1>5, Zenon DEF data, H
  <1>7. CASE d >= H
    <2>1. ends = {H}
      <3>1. ASSUME NEW i \in 1 .. d PROVE data[i].t = "empty" <=> i = H
        <4>1. i = 1 \/ i \in 2 .. H - 1 \/ i = H \/ i \in H + 1 .. F
          BY <1>2 DEF F
        <4>2. data[i] = s[i]
          BY <1>4
        <4>. QED
          BY <4>1, <4>2, <1>2, <1>3
      <3>2. H \in 1 .. d
        BY <1>2, <1>7
      <3>. QED
        BY <3>1, <3>2, <1>4, Zenon
    <2>2. Min(ends) = H
      <3>1. {H} \in SUBSET Int /\ H \in {H} /\ \A y \in {H} : H <= y
        BY <1>2
      <3>2. Min({H}) = H
        BY <3>1, LeastIs
      <3>. QED
        BY <2>1, <3>2, Zenon
    <2>3. head = H
      BY <2>1, <2>2, Zenon
    <2>. HIDE DEF head
    <2>4. data[1].t = "line"
      BY <1>3, <1>4
    <2>5. ASSUME NEW i \in 2 .. head - 1 PROVE data[i].t = "header"
      <3>1. i \in 1 .. d /\ i \in 2 .. H - 1
        BY <2>3, <1>2, <1>7
      <3>. QED
        BY <3>1, <1>3, <1>4
    <2>6. ~(head > Len(data))
      BY <2>3, <1>2, <1>4, <1>7
    <2>7. Verdict(data) = "complete"
      BY <1>v, <2>4, <2>5, <2>6, Zenon
    <2>. DEFINE B == F - H
                from_buf == Min({Len(data) - H, B})
    <2>8. SubSeq(data, 2, H - 1) = m.headers
      <3>1. Cut(m, 1, H - 1) = m.headers
        BY <1>1, Zenon DEF WireIs, H
      <3>2. SubSeq(data, 1 + 1, H - 1) = SubSeq(s, (0 + 1) + 1, 0 + (H - 1))
        <4>1. 0 \in Nat /\ 1 \in Nat /\ H - 1 \in Nat /\ 0 <= d /\ d <= Len(s) /\ 1 <= H - 1
              /\ H - 1 <= d - 0
          BY <1>2, <1>7 DEF F
        <4>2. SubSeq(SubSeq(s, 0 + 1, d), 1 + 1, H - 1) = SubSeq(s, (0 + 1) + 1, 0 + (H - 1))
          BY <4>1, <1>2, PartOfPart
        <4>. QED
          BY <4>2, Zenon DEF data, Cut, s
      <3>3. (0 + 1) + 1 = 1 + 1 /\ 0 + (H - 1) = H - 1 /\ 1 + 1 = 2
        BY <1>2
      <3>. QED
        BY <3>1, <3>2, <3>3, Zenon DEF Cut, s
    <2>9. ContentLength(m.headers) = B
      BY <1>2, Zenon DEF GoodMessage
    <2>10. from_buf = d - H
      <3>1. {d - H, B} \in SUBSET Int /\ d - H \in {d - H, B} /\ \A y \in {d - H, B} : d - H <= y
        BY <1>2, <1>7 DEF F
      <3>2. Min({d - H, B}) = d - H
        BY <3>1, LeastIs
      <3>. QED
        BY <3>2, <1>4, Zenon
    <2>. HIDE DEF from_buf
    <2>11. B - from_buf = F - d
      BY <2>10, <1>2
    <2>12. SubSeq(data, H + 1, H + from_buf) = Cut(m, H, d)
      <3>1. 0 \in Nat /\ 0 <= d /\ d <= Len(s) /\ H <= d /\ d <= d - 0
        BY <1>2, <1>7 DEF F
      <3>2. SubSeq(SubSeq(s, 0 + 1, d), H + 1, d) = SubSeq(s, (0 + H) + 1, 0 + d)
        BY <3>1, <1>2, PartOfPart
      <3>3. 0 + H = H /\ 0 + d = d /\ H + from_buf = d
        BY <1>2, <2>10
      <3>. QED
        BY <3>2, <3>3, Zenon DEF data, Cut, s
    <2>13. SubSeq(data, H + from_buf + 1, Len(data)) = <<>>
      <3>1. H + from_buf + 1 = d + 1
        BY <1>2, <2>10
      <3>2. SubSeq(data, d + 1, d) = <<>>
        BY <1>4
      <3>. QED
        BY <3>1, <3>2, <1>4, Zenon
    <2>14. Parsed(data) =
             [headers |-> SubSeq(data, 2, H - 1), length |-> ContentLength(m.headers),
              remaining |-> ContentLength(m.headers) - from_buf,
              body |-> SubSeq(data, H + 1, H + from_buf),
              left |-> SubSeq(data, H + from_buf + 1, Len(data))]
      BY <2>2, <2>8, <2>9, Zenon DEF Parsed, from_buf
    <2>15. Parsed(data) = [headers |-> m.headers, length |-> Len(m.body), remaining |-> F - d,
                           body |-> Cut(m, H, d), left |-> <<>>]
      BY <2>8, <2>9, <2>11, <2>12, <2>13, <2>14, <1>2, Zenon
    <2>16. Parse(data).verdict = "complete" /\ Parse(data).message = Parsed(data) /\ ~(d < H)
      BY <2>7, <1>p, <1>2, <1>7
    <2>. QED
      BY <2>15, <2>16, <1>4, <1>5, Zenon DEF data, H, F
  <1>. QED
    BY <1>2, <1>6, <1>7

-----------------------------------------------------------------------------
\* Sequences of one and two elements.
LEMMA OneOrTwo ==
    ASSUME NEW x, NEW y
    PROVE  /\ <<x>> \o <<y>> = <<x, y>> /\ <<x>> \o <<>> = <<x>> /\ <<x, y>> # <<>> /\ <<x>> # <<>>
           /\ Head(<<x, y>>) = x /\ Tail(<<x, y>>) = <<y>>
           /\ Head(<<x>>) = x /\ Tail(<<x>>) = <<>>
  <1>. DEFINE T == {x, y}
  <1>1. x \in T /\ y \in T
    OBVIOUS
  <1>. HIDE DEF T
  <1>2. <<x>> \in Seq(T) /\ <<y>> \in Seq(T) /\ <<x, y>> \in Seq(T)
    BY <1>1
  <1>3. <<x>> \o <<y>> = <<x, y>>
    <2>. DEFINE w == <<x>> \o <<y>>
                v == <<x, y>>
    <2>1. w \in Seq(T) /\ Len(w) = 2 /\ w[1] = x /\ w[2] = y
      BY <1>2
    <2>2. v \in Seq(T) /\ Len(v) = 2 /\ v[1] = x /\ v[2] = y
      BY <1>2
    <2>. HIDE DEF w, v
    <2>3. \A i \in 1 .. 2 : w[i] = v[i]
      <3>1. \A i \in 1 .. 2 : i = 1 \/ i = 2
        OBVIOUS
      <3>. QED
        BY <3>1, <2>1, <2>2
    <2>4. w = v
      BY <2>1, <2>2, <2>3, SameSequence
    <2>. QED
      BY <2>4 DEF w, v
  <1>4. <<x>> \o <<>> = <<x>>
    BY <1>2
  <1>5. <<x, y>> # <<>> /\ <<x>> # <<>>
    OBVIOUS
  <1>6. Head(<<x, y>>) = x /\ Head(<<x>>) = x
    OBVIOUS
  <1>7. Tail(<<x, y>>) = <<y>>
    OBVIOUS
  <1>8. Tail(<<x>>) = <<>>
    OBVIOUS
  <1>. QED
    BY <1>3, <1>4, <1>5, <1>6, <1>7, <1>8, Zenon

\* Putting two elements in front.
LEMMA PushTwo ==
    ASSUME NEW T, NEW s \in Seq(T), NEW a \in T, NEW b \in T
    PROVE  <<a, b>> \o s = <<a>> \o (<<b>> \o s)
  <1>. DEFINE u == <<a, b>> \o s
              v == <<b>> \o s
              w == <<a>> \o v
  <1>1. u \in Seq(T) /\ Len(u) = 2 + Len(s) /\ u[1] = a /\ u[2] = b
        /\ \A i \in 3 .. 2 + Len(s) : u[i] = s[i - 2]
    OBVIOUS
  <1>2. v \in Seq(T) /\ Len(v) = 1 + Len(s) /\ v[1] = b
        /\ \A i \in 2 .. 1 + Len(s) : v[i] = s[i - 1]
    OBVIOUS
  <1>. HIDE DEF u, v
  <1>3. w \in Seq(T) /\ Len(w) = 1 + Len(v) /\ w[1] = a
        /\ \A i \in 2 .. 1 + Len(v) : w[i] = v[i - 1]
    BY <1>2
  <1>. HIDE DEF w
  <1>4. Len(s) \in Nat /\ Len(u) = Len(w)
    BY <1>1, <1>2, <1>3
  <1>5. ASSUME NEW i \in 1 .. Len(u) PROVE u[i] = w[i]
    <2>1. i = 1 \/ i = 2 \/ i \in 3 .. 2 + Len(s)
      BY <1>1, <1>4
    <2>2. CASE i = 1
      BY <2>2, <1>1, <1>3
    <2>3. CASE i = 2
      <3>1. 2 \in 2 .. 1 + Len(v) /\ 2 - 1 = 1
        BY <1>2, <1>4
      <3>. QED
        BY <2>3, <3>1, <1>1, <1>2, <1>3
    <2>4. CASE i \in 3 .. 2 + Len(s)
      <3>1. i \in 2 .. 1 + Len(v) /\ i - 1 \in 2 .. 1 + Len(s) /\ (i - 1) - 1 = i - 2
        BY <2>4, <1>2, <1>4
      <3>. QED
        BY <2>4, <3>1, <1>1, <1>2, <1>3, Zenon
    <2>. QED
      BY <2>1, <2>2, <2>3, <2>4
  <1>6. u = w
    BY <1>1, <1>3, <1>4, <1>5, SameSequence, Zenon
  <1>. QED
    BY <1>6 DEF u, v, w

\* The bytes of a body.
LEMMA BytesOf ==
    ASSUME NEW B, NEW body \in Seq(B)
    PROVE  /\ Bytes(body) \in Seq([t : {"byte"}, value : B]) /\ Len(Bytes(body)) = Len(body)
           /\ \A i \in 1 .. Len(body) : Bytes(body)[i].t = "byte"
           /\ Bytes(body) = <<>> <=> body = <<>>
  <1>1. DOMAIN body = 1 .. Len(body) /\ Len(body) \in Nat
    OBVIOUS
  <1>2. Bytes(body) = [i \in 1 .. Len(body) |-> [t |-> "byte", value |-> body[i]]]
    BY <1>1, Zenon DEF Bytes
  <1>3. \A i \in 1 .. Len(body) : [t |-> "byte", value |-> body[i]] \in [t : {"byte"}, value : B]
    OBVIOUS
  <1>4. Bytes(body) \in Seq([t : {"byte"}, value : B]) /\ Len(Bytes(body)) = Len(body)
    BY <1>1, <1>2, <1>3
  <1>5. ASSUME NEW i \in 1 .. Len(body) PROVE Bytes(body)[i].t = "byte"
    BY <1>2
  <1>. QED
    BY <1>4, <1>5

\* get finds the first header of the name, if there is one.
LEMMA GetFirst ==
    ASSUME NEW T, NEW hs \in Seq(T), NEW name, NEW i \in 1 .. Len(hs),
           Lower(hs[i].name) = Lower(name),
           \A j \in 1 .. i - 1 : Lower(hs[j].name) # Lower(name)
    PROVE  Get(hs, name) = <<hs[i].value>>
  <1>. DEFINE is == {j \in DOMAIN hs : Lower(hs[j].name) = Lower(name)}
  <1>1. DOMAIN hs = 1 .. Len(hs)
    OBVIOUS
  <1>2. is \in SUBSET Int /\ i \in is
    BY <1>1
  <1>3. ASSUME NEW y \in is PROVE i <= y
    <2>1. y \in 1 .. Len(hs) /\ y \notin 1 .. i - 1
      BY <1>1, Zenon
    <2>. QED
      BY <2>1
  <1>4. Min(is) = i
    <2>. HIDE DEF is
    <2>. QED
      BY <1>2, <1>3, LeastIs
  <1>. QED
    BY <1>2, <1>4, Zenon DEF Get

\* get finds nothing when no header has the name.
LEMMA GetNone ==
    ASSUME NEW T, NEW hs \in Seq(T), NEW name,
           \A j \in 1 .. Len(hs) : Lower(hs[j].name) # Lower(name)
    PROVE  Get(hs, name) = <<>>
  <1>1. DOMAIN hs = 1 .. Len(hs)
    OBVIOUS
  <1>2. {j \in DOMAIN hs : Lower(hs[j].name) = Lower(name)} = {}
    BY <1>1, Zenon
  <1>. QED
    BY <1>2, Zenon DEF Get

\* The Content-Length that is written first is the one that is read.
LEMMA LengthFirst ==
    ASSUME NEW T, NEW hs \in Seq(T), NEW i \in 1 .. Len(hs),
           NEW B, NEW body \in Seq(B), Len(body) < Power[20], hs[i] = LengthHeader(body),
           \A j \in 1 .. i - 1 : Lower(hs[j].name) # "content-length"
    PROVE  ContentLength(hs) = Len(body)
  <1>1. Lower("Content-Length") = "content-length"
    BY DEF Lower
  <1>2. hs[i].name = "Content-Length" /\ hs[i].value = FormatUsize(Len(body), 20)
    BY DEF LengthHeader, Header
  <1>3. Get(hs, "Content-Length") = <<FormatUsize(Len(body), 20)>>
    <2>1. Lower(hs[i].name) = Lower("Content-Length")
          /\ \A j \in 1 .. i - 1 : Lower(hs[j].name) # Lower("Content-Length")
      BY <1>1, <1>2, Zenon
    <2>2. Get(hs, "Content-Length") = <<hs[i].value>>
      BY <2>1, GetFirst, Zenon
    <2>. QED
      BY <2>2, <1>2, Zenon
  <1>. DEFINE f == FormatUsize(Len(body), 20)
  <1>4. IsUsize(f) /\ ParseUsize(f) = Len(body)
    BY FormatParse
  <1>. HIDE DEF f
  <1>5. <<f>> # <<>> /\ <<f>>[1] = f
    OBVIOUS
  <1>. QED
    BY <1>3, <1>4, <1>5, Zenon DEF ContentLength, f

\* The head, and then the body unless it is empty.
LEMMA Buffers ==
    ASSUME NEW m, GoodMessage(m), NEW T, NEW hs \in Seq(T), NEW a \in T, NEW b \in T, Empty \in T,
           m.line = a, m.headers = <<b>> \o hs
    PROVE  ToWrite(m, 0, <<<<a, b>> \o hs \o <<Empty>>>>
                            \o IF m.body # <<>> THEN <<m.body>> ELSE <<>>)
  <1>1. PICK U : WireIs(m, U)
    BY WireShape, Zenon
  <1>2. Cut(m, 0, HeadLen(m)) = <<m.line>> \o m.headers \o <<Empty>>
        /\ Cut(m, HeadLen(m), FullLen(m)) = m.body
    BY <1>1, Zenon DEF WireIs
  <1>3. <<a, b>> \o hs \o <<Empty>> = Cut(m, 0, HeadLen(m))
    <2>1. <<a, b>> \o hs = <<a>> \o (<<b>> \o hs)
      BY PushTwo
    <2>. QED
      BY <1>2, <2>1, Zenon
  <1>4. CASE m.body = <<>>
    BY <1>3, <1>4, OneOrTwo, Zenon DEF ToWrite
  <1>5. CASE m.body # <<>>
    <2>1. <<Cut(m, 0, HeadLen(m))>> \o <<m.body>> = <<Cut(m, 0, HeadLen(m)), m.body>>
      BY OneOrTwo, Zenon
    <2>. QED
      BY <2>1, <1>2, <1>3, <1>5, Zenon DEF ToWrite
  <1>. QED
    BY <1>4, <1>5, Zenon

\* The message of a response, of whatever type its parts are.
LEMMA AnswerMessage ==
    ASSUME NEW r, NEW B, NEW F, r.body \in Seq(B), Len(r.body) < Power[20], r.headers \in Seq(F),
           \A i \in 1 .. Len(r.headers) : r.headers[i].t = "header"
    PROVE  /\ GoodMessage(Answer(r)) /\ ToWrite(Answer(r), 0, WriteResponse(r))
           /\ Answer(r).line.status = r.status /\ Answer(r).body = Bytes(r.body)
           /\ EndWith(Answer(r).headers, r.headers)
  <1>. DEFINE m == Answer(r)
              line == [t |-> "line", status |-> r.status, version |-> r.version]
              lh == LengthHeader(r.body)
              hs == <<lh>> \o r.headers
              T == {line, Empty, lh} \cup F \cup [t : {"byte"}, value : B]
  <1>1. m.line = line /\ m.headers = hs /\ m.body = Bytes(r.body)
    BY DEF Answer, Message
  <1>2. line.t = "line" /\ line.status = r.status /\ lh.t = "header"
    BY DEF LengthHeader, Header
  <1>3. line \in T /\ Empty \in T /\ lh \in T /\ F \subseteq T /\ [t : {"byte"}, value : B] \subseteq T
    BY Zenon
  <1>. HIDE DEF m, line, lh, T
  <1>4. r.headers \in Seq(T) /\ <<lh>> \in Seq(T) /\ Len(<<lh>>) = 1 /\ <<lh>>[1] = lh
        /\ Len(r.headers) \in Nat
    BY <1>3
  <1>5. Bytes(r.body) \in Seq(T) /\ Len(Bytes(r.body)) = Len(r.body)
        /\ (\A i \in 1 .. Len(r.body) : Bytes(r.body)[i].t = "byte")
        /\ (Bytes(r.body) = <<>> <=> r.body = <<>>)
    <2>1. Bytes(r.body) \in Seq([t : {"byte"}, value : B]) /\ Len(Bytes(r.body)) = Len(r.body)
          /\ (\A i \in 1 .. Len(r.body) : Bytes(r.body)[i].t = "byte")
          /\ (Bytes(r.body) = <<>> <=> r.body = <<>>)
      BY BytesOf, Zenon
    <2>2. Bytes(r.body) \in Seq(T)
      BY <2>1, <1>3, SeqMonotonic, Zenon
    <2>. QED
      BY <2>1, <2>2, Zenon
  <1>6. /\ hs \in Seq(T) /\ Len(hs) = 1 + Len(r.headers) /\ hs[1] = lh
        /\ \A i \in 1 .. Len(r.headers) : hs[1 + i] = r.headers[i]
        /\ SubSeq(hs, 1 + 1, 1 + Len(r.headers)) = r.headers
    BY <1>4, Concatenation
  <1>. HIDE DEF hs
  <1>7. ASSUME NEW i \in 1 .. Len(hs) PROVE hs[i].t = "header"
    <2>1. i = 1 \/ (i - 1 \in 1 .. Len(r.headers) /\ 1 + (i - 1) = i)
      BY <1>4, <1>6
    <2>. QED
      BY <2>1, <1>2, <1>6, Zenon
  <1>8. ContentLength(hs) = Len(r.body)
    <2>1. 1 \in 1 .. Len(hs) /\ \A j \in 1 .. 1 - 1 : Lower(hs[j].name) # "content-length"
      BY <1>4, <1>6
    <2>2. hs \in Seq(T) /\ hs[1] = LengthHeader(r.body)
      BY <1>6, Zenon DEF lh
    <2>. QED
      BY <2>1, <2>2, LengthFirst
  <1>9. GoodMessage(m)
    <2>1. m.line \in T /\ Empty \in T /\ m.headers \in Seq(T) /\ m.body \in Seq(T)
      BY <1>1, <1>3, <1>5, <1>6, Zenon
    <2>. QED
      BY <2>1, <1>1, <1>2, <1>5, <1>7, <1>8, Zenon DEF GoodMessage
  <1>10. ToWrite(m, 0, WriteResponse(r))
    <2>1. ToWrite(m, 0, <<<<line, lh>> \o r.headers \o <<Empty>>>>
                           \o IF m.body # <<>> THEN <<m.body>> ELSE <<>>)
      BY <1>1, <1>3, <1>4, <1>9, Buffers, Zenon DEF hs
    <2>. QED
      BY <2>1, <1>1, <1>5, Zenon DEF WriteResponse, line, lh
  <1>11. EndWith(m.headers, r.headers)
    <2>1. 1 \in 0 .. Len(hs)
      BY <1>4, <1>6
    <2>. QED
      BY <2>1, <1>1, <1>6, Zenon DEF EndWith
  <1>. QED
    BY <1>1, <1>2, <1>9, <1>10, <1>11, Zenon DEF m

\* The handler's answers and the server's refusals are such responses.
LEMMA AnswerGood ==
    ASSUME NEW r \in Answers
    PROVE  /\ GoodMessage(Answer(r)) /\ ToWrite(Answer(r), 0, WriteResponse(r))
           /\ Answer(r).line.status = r.status /\ Answer(r).body = Bytes(r.body)
           /\ EndWith(Answer(r).headers, r.headers)
  <1>1. r \in [status : STRING, version : STRING, headers : Seq(Field), body : Seq(STRING)]
        /\ Len(r.body) < Power[20]
    BY ExchangeAssumption, Zenon
  <1>2. r.body \in Seq(STRING) /\ r.headers \in Seq(Field)
    BY <1>1
  <1>3. \A i \in 1 .. Len(r.headers) : r.headers[i].t = "header"
    <2>1. \A f \in Field : f.t = "header"
      BY DEF Field
    <2>2. \A i \in 1 .. Len(r.headers) : r.headers[i] \in Field
      BY <1>2
    <2>. QED
      BY <2>1, <2>2, Zenon
  <1>. QED
    BY <1>1, <1>2, <1>3, AnswerMessage, Zenon

\* HttpError::to_response makes a good message with the status it is given.
LEMMA ErrorGood ==
    ASSUME NEW status
    PROVE  /\ GoodMessage(Answer(ErrorResponse(status)))
           /\ ToWrite(Answer(ErrorResponse(status)), 0, WriteResponse(ErrorResponse(status)))
           /\ Answer(ErrorResponse(status)).line.status = status
  <1>. DEFINE r == ErrorResponse(status)
              x == Header("Content-Type", <<"text/plain">>)
              y == Header("Connection", <<"close">>)
  <1>1. r.status = status /\ r.headers = <<x, y>> /\ r.body = <<"text">>
    BY DEF ErrorResponse, Response
  <1>2. x.t = "header" /\ y.t = "header"
    BY DEF Header
  <1>. HIDE DEF r, x, y
  <1>3. r.headers \in Seq({x, y}) /\ \A i \in 1 .. Len(r.headers) : r.headers[i].t = "header"
    BY <1>1, <1>2
  <1>4. r.body \in Seq({"text"}) /\ Len(r.body) < Power[20]
    <2>1. r.body \in Seq({"text"}) /\ Len(r.body) = 1
      BY <1>1
    <2>2. 20 \in 1 .. 20 /\ 20 - 1 \in 0 .. 20
      OBVIOUS
    <2>3. Power[20] = Base * Power[20 - 1] /\ Power[20 - 1] \in Nat \ {0} /\ Base \in Nat /\ Base > 1
      BY <2>2, Powers, BaseFact
    <2>4. \A p \in Nat \ {0} : \A b \in Nat : b > 1 => 1 < b * p
      OBVIOUS
    <2>. QED
      BY <2>1, <2>3, <2>4, Zenon
  <1>5. GoodMessage(Answer(r)) /\ ToWrite(Answer(r), 0, WriteResponse(r))
        /\ Answer(r).line.status = r.status
    BY <1>3, <1>4, AnswerMessage, Zenon
  <1>. QED
    BY <1>1, <1>5, Zenon DEF r

\* What callers send.
LEMMA Requests ==
    ASSUME NEW p \in Plans, NEW k \in 1 .. Len(p.requests)
    PROVE  LET r == Built(p.requests[k]) IN
           /\ r.headers \in Seq(Field) /\ r.body \in Seq(STRING) /\ Len(r.body) < Power[20]
           /\ r.body = <<>> => \A j \in 1 .. Len(r.headers) : Lower(r.headers[j].name) # "content-length"
           /\ \A i \in 1 .. Len(r.headers) : r.headers[i].t = "header"
  <1>. DEFINE q == p.requests[k]
              Q == [method : STRING, path : STRING, version : {"1.0", "1.1"},
                    headers : Seq(Field), body : Seq(STRING)]
  <1>1. p \in [addr : [family : {"v4", "v6"}, ip : STRING, port : Nat], fresh : BOOLEAN,
               requests : Seq(Q) \ {<<>>}]
    BY ExchangeAssumption, Zenon
  <1>2. p.requests \in Seq(Q) /\ k \in DOMAIN p.requests
    BY <1>1
  <1>3. q \in Q
    <2>. HIDE DEF Q
    <2>. QED
      BY <1>2, ElementOfSeq, Zenon
  <1>4. /\ Len(q.body) < Power[20]
        /\ q.body = <<>> => \A j \in DOMAIN q.headers : Lower(q.headers[j].name) # "content-length"
    BY <1>2, ExchangeAssumption, Zenon
  <1>. HIDE DEF q
  <1>5. q.headers \in Seq(Field) /\ q.body \in Seq(STRING)
    BY <1>3
  <1>6. Built(q).headers = q.headers /\ Built(q).body = q.body
    BY <1>3 DEF Built
  <1>7. \A i \in 1 .. Len(q.headers) : q.headers[i].t = "header"
    <2>1. \A f \in Field : f.t = "header"
      BY DEF Field
    <2>2. \A i \in 1 .. Len(q.headers) : q.headers[i] \in Field
      BY <1>5
    <2>. QED
      BY <2>1, <2>2, Zenon
  <1>8. DOMAIN q.headers = 1 .. Len(q.headers)
    BY <1>5
  <1>. QED
    BY <1>4, <1>5, <1>6, <1>7, <1>8, Zenon DEF q

\* The message of a request.
LEMMA AskedGood ==
    ASSUME plan \in Plans, NEW k \in 1 .. Len(plan.requests)
    PROVE  LET r == Built(plan.requests[k]) IN
           /\ GoodMessage(Asked(k)) /\ ToWrite(Asked(k), 0, WriteRequest(r, HostFor(r)))
           /\ Asked(k).line.method = r.method /\ Asked(k).line.path = r.path
           /\ Asked(k).line.version = r.version /\ Asked(k).body = Bytes(r.body)
           /\ EndWith(Asked(k).headers, r.headers)
           /\ Get(Asked(k).headers, "Host") = <<HostFor(r)>>
  <1>. DEFINE r == Built(plan.requests[k])
              m == Asked(k)
              line == [t |-> "line", method |-> r.method, path |-> r.path, version |-> r.version]
              host == Header("Host", HostFor(r))
              lh == LengthHeader(r.body)
              own == r.headers
              x == IF r.body # <<>> THEN <<lh>> ELSE <<>>
              tl == x \o own
              hs == <<host>> \o tl
              T == {line, Empty, lh, host} \cup Field \cup [t : {"byte"}, value : STRING]
  <1>0. /\ r.headers \in Seq(Field) /\ r.body \in Seq(STRING) /\ Len(r.body) < Power[20]
        /\ r.body = <<>> => \A j \in 1 .. Len(r.headers) : Lower(r.headers[j].name) # "content-length"
        /\ \A i \in 1 .. Len(r.headers) : r.headers[i].t = "header"
    BY Requests, Zenon
  <1>. HIDE DEF r
  <1>1. m.line = line /\ m.headers = (<<host>> \o x) \o own /\ m.body = Bytes(r.body)
    BY Zenon DEF Asked, Message, r
  <1>2. /\ line.t = "line" /\ lh.t = "header" /\ host.t = "header"
        /\ line.method = r.method /\ line.path = r.path /\ line.version = r.version
        /\ host.name = "Host" /\ host.value = HostFor(r)
    BY DEF LengthHeader, Header
  <1>3. line \in T /\ Empty \in T /\ lh \in T /\ host \in T /\ Field \subseteq T
        /\ [t : {"byte"}, value : STRING] \subseteq T
    BY Zenon
  <1>w. WriteRequest(r, HostFor(r)) =
           <<((<<line, host>> \o x) \o own) \o <<Empty>>>>
           \o IF r.body # <<>> THEN <<Bytes(r.body)>> ELSE <<>>
    BY Zenon DEF WriteRequest
  <1>. HIDE DEF m, line, lh, host, T
  <1>4. own \in Seq(T) /\ Len(own) \in Nat
    BY <1>0, <1>3
  <1>. HIDE DEF own
  <1>5. x \in Seq(T) /\ <<host>> \in Seq(T) /\ <<line, host>> \in Seq(T)
        /\ Len(<<host>>) = 1 /\ <<host>>[1] = host
    BY <1>3
  <1>6. Bytes(r.body) \in Seq(T) /\ Len(Bytes(r.body)) = Len(r.body)
        /\ (\A i \in 1 .. Len(r.body) : Bytes(r.body)[i].t = "byte")
        /\ (Bytes(r.body) = <<>> <=> r.body = <<>>)
    <2>1. Bytes(r.body) \in Seq([t : {"byte"}, value : STRING]) /\ Len(Bytes(r.body)) = Len(r.body)
          /\ (\A i \in 1 .. Len(r.body) : Bytes(r.body)[i].t = "byte")
          /\ (Bytes(r.body) = <<>> <=> r.body = <<>>)
      BY <1>0, BytesOf, Zenon
    <2>2. Bytes(r.body) \in Seq(T)
      BY <2>1, <1>3, SeqMonotonic, Zenon
    <2>. QED
      BY <2>1, <2>2, Zenon
  <1>7. m.headers = hs /\ (<<line, host>> \o x) \o own = <<line, host>> \o tl
    <2>. HIDE DEF x
    <2>1. (<<host>> \o x) \o own = <<host>> \o (x \o own)
      BY <1>4, <1>5, ConcatAssociative
    <2>2. (<<line, host>> \o x) \o own = <<line, host>> \o (x \o own)
      BY <1>4, <1>5, ConcatAssociative
    <2>. QED
      BY <1>1, <2>1, <2>2, Zenon
  <1>8. tl \in Seq(T) /\ Len(tl) = Len(x) + Len(own)
        /\ (\A i \in 1 .. Len(x) : tl[i] = x[i])
        /\ (\A i \in 1 .. Len(own) : tl[Len(x) + i] = own[i])
    <2>. HIDE DEF x
    <2>. QED
      BY <1>4, <1>5, Concatenation
  <1>. HIDE DEF tl
  <1>9. hs \in Seq(T) /\ Len(hs) = 1 + Len(tl) /\ hs[1] = host
        /\ (\A i \in 1 .. Len(tl) : hs[1 + i] = tl[i])
    BY <1>5, <1>8, Concatenation
  <1>. HIDE DEF hs
  <1>10. ASSUME r.body # <<>> PROVE x = <<lh>> /\ Len(x) = 1 /\ x[1] = lh
    BY <1>10
  <1>11. ASSUME r.body = <<>> PROVE x = <<>> /\ Len(x) = 0
    BY <1>11
  <1>. HIDE DEF x
  <1>. DEFINE n == Len(own)
  <1>n. /\ n \in Nat
        /\ r.body = <<>> => /\ Len(hs) = 1 + n
                           /\ \A i \in 1 .. n : hs[1 + i] = own[i]
        /\ r.body # <<>> => /\ Len(hs) = 2 + n /\ hs[2] = lh
                           /\ \A i \in 1 .. n : hs[2 + i] = own[i]
    <2>0. n \in Nat
      BY <1>4
    <2>1. CASE r.body = <<>>
      <3>1. Len(x) = 0 /\ Len(tl) = 0 + n
        BY <2>1, <1>8, <1>11, Zenon
      <3>2. Len(tl) = n /\ Len(hs) = 1 + n
        BY <2>0, <3>1, <1>9
      <3>3. ASSUME NEW i \in 1 .. n PROVE hs[1 + i] = own[i]
        <4>1. 0 + i = i
          BY <2>0
        <4>2. tl[0 + i] = own[i]
          BY <3>1, <1>8, Zenon
        <4>3. hs[1 + i] = tl[i]
          BY <3>2, <1>9, Zenon
        <4>. QED
          BY <4>1, <4>2, <4>3, Zenon
      <3>. QED
        BY <2>0, <2>1, <3>2, <3>3, Zenon
    <2>2. CASE r.body # <<>>
      <3>1. Len(x) = 1 /\ x[1] = lh /\ Len(tl) = 1 + n
        BY <2>2, <1>8, <1>10, Zenon
      <3>2. Len(hs) = 1 + (1 + n) /\ tl[1] = lh
        <4>1. 1 \in 1 .. Len(x)
          BY <3>1
        <4>. QED
          BY <4>1, <3>1, <1>8, <1>9, Zenon
      <3>3. Len(hs) = 2 + n /\ 1 \in 1 .. Len(tl) /\ 1 + 1 = 2
        BY <2>0, <3>1, <3>2
      <3>4. hs[2] = lh
        BY <3>2, <3>3, <1>9, Zenon
      <3>5. ASSUME NEW i \in 1 .. n PROVE hs[2 + i] = own[i]
        <4>1. 1 + (1 + i) = 2 + i /\ 1 + i \in 1 .. Len(tl)
          BY <2>0, <3>1
        <4>2. tl[1 + i] = own[i]
          BY <3>1, <1>8, Zenon
        <4>3. hs[1 + (1 + i)] = tl[1 + i]
          BY <4>1, <1>9, Zenon
        <4>. QED
          BY <4>1, <4>2, <4>3, Zenon
      <3>. QED
        BY <2>0, <2>2, <3>3, <3>4, <3>5, Zenon
    <2>. QED
      BY <2>1, <2>2, Zenon
  <1>h. hs \in Seq(T) /\ hs[1] = host
    BY <1>9, Zenon
  <1>o. \A i \in 1 .. n : own[i].t = "header"
    BY <1>0, Zenon DEF own
  <1>. HIDE DEF n
  <1>12. ASSUME NEW i \in 1 .. Len(hs) PROVE hs[i].t = "header"
    <2>1. CASE i = 1
      BY <2>1, <1>2, <1>h, Zenon
    <2>2. CASE i # 1 /\ r.body = <<>>
      <3>1. i - 1 \in 1 .. n /\ 1 + (i - 1) = i
        BY <2>2, <1>n
      <3>. QED
        BY <3>1, <2>2, <1>n, <1>o, Zenon
    <2>3. CASE i # 1 /\ r.body # <<>>
      <3>1. i = 2 \/ (i - 2 \in 1 .. n /\ 2 + (i - 2) = i)
        BY <2>3, <1>n
      <3>. QED
        BY <3>1, <2>3, <1>n, <1>o, <1>2, Zenon
    <2>. QED
      BY <2>1, <2>2, <2>3, Zenon
  <1>13. Lower(host.name) = "host" /\ Lower("Host") = "host" /\ "host" # "content-length"
    BY <1>2 DEF Lower
  <1>14. ContentLength(hs) = Len(r.body)
    <2>1. CASE r.body # <<>>
      <3>1. 2 \in 1 .. Len(hs) /\ \A j \in 1 .. 2 - 1 : j = 1
        BY <2>1, <1>n
      <3>2. hs[2] = LengthHeader(r.body)
        BY <2>1, <1>n, Zenon DEF lh
      <3>3. \A j \in 1 .. 2 - 1 : Lower(hs[j].name) # "content-length"
        BY <3>1, <1>h, <1>13, Zenon
      <3>4. hs \in Seq(T) /\ 2 \in 1 .. Len(hs)
        BY <3>1, <1>h, Zenon
      <3>. QED
        BY <3>2, <3>3, <3>4, <1>0, LengthFirst
    <2>2. CASE r.body = <<>>
      <3>1. ASSUME NEW j \in 1 .. Len(hs) PROVE Lower(hs[j].name) # "content-length"
        <4>1. j = 1 \/ (j - 1 \in 1 .. n /\ 1 + (j - 1) = j)
          BY <2>2, <1>n
        <4>2. \A i \in 1 .. n : Lower(own[i].name) # "content-length"
          BY <2>2, <1>0, Zenon DEF own, n
        <4>. QED
          BY <4>1, <4>2, <2>2, <1>n, <1>h, <1>13, Zenon
      <3>2. Lower("Content-Length") = "content-length"
        BY DEF Lower
      <3>3. Get(hs, "Content-Length") = <<>>
        BY <3>1, <3>2, <1>h, GetNone, Zenon
      <3>4. Len(r.body) = 0
        BY <2>2
      <3>. QED
        BY <3>3, <3>4, Zenon DEF ContentLength
    <2>. QED
      BY <2>1, <2>2, Zenon
  <1>15. GoodMessage(m)
    <2>1. m.line \in T /\ Empty \in T /\ m.headers \in Seq(T) /\ m.body \in Seq(T)
      BY <1>1, <1>3, <1>6, <1>7, <1>9, Zenon
    <2>. QED
      BY <2>1, <1>1, <1>2, <1>6, <1>7, <1>12, <1>14, Zenon DEF GoodMessage
  <1>16. ToWrite(m, 0, WriteRequest(r, HostFor(r)))
    <2>1. ToWrite(m, 0, <<<<line, host>> \o tl \o <<Empty>>>>
                           \o IF m.body # <<>> THEN <<m.body>> ELSE <<>>)
      BY <1>1, <1>3, <1>7, <1>8, <1>15, Buffers, Zenon DEF hs
    <2>. QED
      BY <2>1, <1>1, <1>6, <1>7, <1>w, Zenon
  <1>17. EndWith(hs, own)
    <2>. DEFINE y == <<host>> \o x
    <2>1. y \in Seq(T) /\ SubSeq(y \o own, Len(y) + 1, Len(y) + Len(own)) = own
          /\ Len(y \o own) = Len(y) + Len(own)
      <3>1. y \in Seq(T)
        BY <1>5
      <3>. HIDE DEF y
      <3>. QED
        BY <1>4, <3>1, Concatenation
    <2>2. y \o own = hs
      BY <1>1, <1>7, Zenon
    <2>. HIDE DEF y
    <2>3. Len(y) \in 0 .. Len(hs)
      BY <2>1, <2>2, <1>4
    <2>. QED
      BY <2>1, <2>2, <2>3, Zenon DEF EndWith
  <1>18. Get(hs, "Host") = <<HostFor(r)>>
    <2>1. 1 \in 1 .. Len(hs) /\ \A j \in 1 .. 1 - 1 : Lower(hs[j].name) # Lower("Host")
      BY <1>8, <1>9
    <2>2. Lower(hs[1].name) = Lower("Host") /\ hs[1].value = HostFor(r)
      BY <1>2, <1>9, <1>13, Zenon
    <2>3. Get(hs, "Host") = <<hs[1].value>>
      BY <2>1, <2>2, <1>9, GetFirst
    <2>. QED
      BY <2>2, <2>3, Zenon
  <1>. QED
    BY <1>1, <1>2, <1>7, <1>15, <1>16, <1>17, <1>18, Zenon DEF m, r, own

\* A caller sends at least one request.
LEMMA Plan ==
    ASSUME NEW p \in Plans
    PROVE  Len(p.requests) \in Nat \ {0}
  <1>. DEFINE Q == [method : STRING, path : STRING, version : {"1.0", "1.1"},
                    headers : Seq(Field), body : Seq(STRING)]
  <1>1. p \in [addr : [family : {"v4", "v6"}, ip : STRING, port : Nat], fresh : BOOLEAN,
               requests : Seq(Q) \ {<<>>}]
    BY ExchangeAssumption, Zenon
  <1>. HIDE DEF Q
  <1>2. p.requests \in Seq(Q) /\ p.requests # <<>>
    BY <1>1
  <1>. QED
    BY <1>2, EmptySeq

\* The requests stay what they are.
LEMMA AskedSame ==
    ASSUME UNCHANGED plan
    PROVE  \A k : Asked(k)' = Asked(k)
  BY Zenon DEF Asked, HostFor

\* The lesser of two numbers.
LEMMA LeastOfTwo ==
    ASSUME NEW x \in Int, NEW y \in Int
    PROVE  Min({x, y}) \in Int /\ Min({x, y}) <= x /\ Min({x, y}) <= y
  <1>1. CASE x <= y
    <2>1. Min({x, y}) = x
      BY <1>1, LeastIs
    <2>. QED
      BY <1>1, <2>1
  <1>2. CASE y <= x
    <2>1. Min({x, y}) = y
      BY <1>2, LeastIs
    <2>. QED
      BY <1>2, <2>1
  <1>. QED
    BY <1>1, <1>2

\* A sequence grows by one.
LEMMA OneMore ==
    ASSUME NEW S, NEW s \in Seq(S), NEW x
    PROVE  /\ Append(s, x) \in Seq(S \cup {x}) /\ Len(Append(s, x)) = Len(s) + 1
           /\ Len(s) \in Nat
           /\ \A i \in 1 .. Len(s) : Append(s, x)[i] = s[i]
           /\ Append(s, x)[Len(s) + 1] = x
  <1>1. s \in Seq(S \cup {x}) /\ x \in S \cup {x}
    OBVIOUS
  <1>. QED
    BY <1>1, AppendProperties

\* write_all moves one buffer along the message.
LEMMA WriteOn ==
    ASSUME NEW m, GoodMessage(m), NEW b \in Nat, NEW out, ToWrite(m, b, out)
    PROVE  /\ b <= FullLen(m)
           /\ out = <<>> <=> b = FullLen(m)
           /\ out # <<>> => \E e \in Nat : /\ b < e /\ e <= FullLen(m) /\ Head(out) = Cut(m, b, e)
                                           /\ ToWrite(m, e, Tail(out))
  <1>1. PICK T : WireIs(m, T)
    BY WireShape, Zenon
  <1>. DEFINE H == HeadLen(m)
              F == FullLen(m)
              u == Cut(m, 0, H)
              v == Cut(m, H, F)
  <1>2. H \in Nat /\ H >= 2 /\ F \in Nat /\ F >= H /\ (m.body = <<>> <=> F = H)
    BY <1>1, Zenon DEF WireIs
  <1>3. \/ b = 0 /\ F = H /\ out = <<u>>
        \/ b = 0 /\ F # H /\ out = <<u, v>>
        \/ b = H /\ F # H /\ out = <<v>>
        \/ b = F /\ out = <<>>
    BY <1>2, Zenon DEF ToWrite
  <1>. DEFINE Goal == /\ b <= F
                      /\ out = <<>> <=> b = F
                      /\ out # <<>> => \E e \in Nat : /\ b < e /\ e <= F /\ Head(out) = Cut(m, b, e)
                                                      /\ ToWrite(m, e, Tail(out))
  <1>4. CASE b = 0 /\ F = H /\ out = <<u>>
    <2>1. out # <<>> /\ Head(out) = u /\ Tail(out) = <<>>
      BY <1>4, OneOrTwo, Zenon
    <2>2. ToWrite(m, F, Tail(out))
      BY <2>1, Zenon DEF ToWrite
    <2>3. b < F /\ F <= F /\ Head(out) = Cut(m, b, F) /\ b # F /\ b <= F
      BY <1>2, <1>4, <2>1
    <2>4. Goal
      BY <2>1, <2>2, <2>3, <1>2, Zenon
    <2>. QED
      BY <2>4
  <1>5. CASE b = 0 /\ F # H /\ out = <<u, v>>
    <2>1. out # <<>> /\ Head(out) = u /\ Tail(out) = <<v>>
      BY <1>5, OneOrTwo, Zenon
    <2>2. ToWrite(m, H, Tail(out))
      BY <2>1, <1>2, <1>5, Zenon DEF ToWrite
    <2>3. b < H /\ H <= F /\ Head(out) = Cut(m, b, H) /\ b # F /\ b <= F
      BY <1>2, <1>5, <2>1
    <2>4. Goal
      BY <2>1, <2>2, <2>3, <1>2, Zenon
    <2>. QED
      BY <2>4
  <1>6. CASE b = H /\ F # H /\ out = <<v>>
    <2>1. out # <<>> /\ Head(out) = v /\ Tail(out) = <<>>
      BY <1>6, OneOrTwo, Zenon
    <2>2. ToWrite(m, F, Tail(out))
      BY <2>1, Zenon DEF ToWrite
    <2>3. b < F /\ F <= F /\ Head(out) = Cut(m, b, F) /\ b # F /\ b <= F
      BY <1>2, <1>6, <2>1
    <2>4. Goal
      BY <2>1, <2>2, <2>3, <1>2, Zenon
    <2>. QED
      BY <2>4
  <1>7. CASE b = F /\ out = <<>>
    BY <1>2, <1>7
  <1>. QED
    BY <1>3, <1>4, <1>5, <1>6, <1>7, Zenon

\* A call returns.
LEMMA Returns ==
    ASSUME History, Len(results) < Len(plan.requests), UNCHANGED <<plan, seen, answers>>,
           NEW result, Return(result),
           \/ result.status \in {"error", "413", "431", "500"}
           \/ NextCall <= Len(answers) /\ result = Result(Answer(answers[NextCall]))
    PROVE  /\ History' /\ Len(results') = NextCall
           /\ cpc' = "closed" \/ (cpc' = "build" /\ Len(results') < Len(plan'.requests))
           /\ cbuf' = <<>>
           /\ result.status = "error" => cpc' = "closed"
  <1>1. PICK S : results \in Seq(S)
    BY Zenon DEF History
  <1>2. results' = Append(results, result) /\ cbuf' = <<>>
        /\ cpc' = IF result.status = "error" \/ Len(results') = Len(plan.requests)
                  THEN "closed" ELSE "build"
    BY Zenon DEF Return
  <1>3. /\ results' \in Seq(S \cup {result}) /\ Len(results') = Len(results) + 1 /\ Len(results) \in Nat
        /\ \A i \in 1 .. Len(results) : results'[i] = results[i]
        /\ results'[Len(results) + 1] = result
    BY <1>1, <1>2, OneMore
  <1>4. Len(plan.requests) \in Nat
    <2>1. plan \in Plans
      BY Zenon DEF History
    <2>. QED
      BY <2>1, Plan
  <1>5. ResultsOK'
    <2>1. SUFFICES ASSUME NEW i \in 1 .. Len(results')
                   PROVE  \/ results'[i].status \in {"error", "413", "431", "500"}
                          \/ i <= Len(answers') /\ results'[i] = Result(Answer(answers'[i]))
      BY Zenon DEF ResultsOK
    <2>2. i \in 1 .. Len(results) \/ i = Len(results) + 1
      BY <1>3
    <2>3. CASE i \in 1 .. Len(results)
      BY <2>3, <1>3, Zenon DEF History, ResultsOK
    <2>4. CASE i = Len(results) + 1
      BY <2>4, <1>3, Zenon DEF NextCall
    <2>. QED
      BY <2>2, <2>3, <2>4
  <1>6. SeenOK'
    BY AskedSame, Zenon DEF History, SeenOK
  <1>7. History'
    BY <1>3, <1>5, <1>6, Zenon DEF History
  <1>8. Len(results') # Len(plan.requests) => Len(results') < Len(plan.requests)
    BY <1>3, <1>4
  <1>. QED
    BY <1>2, <1>3, <1>7, <1>8, Zenon DEF NextCall

-----------------------------------------------------------------------------
\* The lengths of a message.
LEMMA Lengths ==
    ASSUME NEW m, GoodMessage(m)
    PROVE  /\ HeadLen(m) \in Nat /\ HeadLen(m) >= 2 /\ FullLen(m) \in Nat
           /\ FullLen(m) >= HeadLen(m) /\ Cut(m, HeadLen(m), FullLen(m)) = m.body
  BY WireShape, Zenon DEF WireIs

\* How many tokens a read may take.
LEMMA ReadSize ==
    ASSUME NEW x \in Int, NEW y \in Int, NEW n \in 1 .. Min({x, y})
    PROVE  n \in Nat /\ n <= x /\ n \in 1 .. y
  <1>. DEFINE z == Min({x, y})
  <1>1. z \in Int /\ z <= x /\ z <= y
    BY LeastOfTwo, Zenon
  <1>. HIDE DEF z
  <1>2. n \in 1 .. z
    BY DEF z
  <1>. QED
    BY <1>1, <1>2

\* A read of n tokens of a message of which a were read and b written.
LEMMA ReadOn ==
    ASSUME NEW m, NEW a, NEW b, Span(m, a, b), NEW n \in 1 .. Len(Cut(m, a, b))
    PROVE  /\ a + n \in Nat /\ 1 <= a + n /\ a + n <= b /\ a + n <= FullLen(m)
           /\ SubSeq(Cut(m, a, b), n + 1, Len(Cut(m, a, b))) = Cut(m, a + n, b)
           /\ Cut(m, 0, a) \o SubSeq(Cut(m, a, b), 1, n) = Cut(m, 0, a + n)
           /\ HeadLen(m) <= a =>
                 Cut(m, HeadLen(m), a) \o SubSeq(Cut(m, a, b), 1, n) = Cut(m, HeadLen(m), a + n)
  <1>0. GoodMessage(m) /\ a \in Nat /\ b \in Nat /\ a <= b /\ b <= FullLen(m)
    BY Zenon DEF Span
  <1>1. HeadLen(m) \in Nat /\ FullLen(m) \in Nat
    BY <1>0, Lengths, Zenon
  <1>2. Len(Cut(m, a, b)) = b - a
    BY Cuts
  <1>3. n \in 0 .. b - a /\ a + n \in Nat /\ 1 <= a + n /\ a + n <= b /\ a + n <= FullLen(m)
        /\ a <= a + n /\ a <= FullLen(m) /\ 0 \in Nat /\ 0 <= a
    <2>1. n \in 1 .. b - a
      BY <1>2, Zenon
    <2>. QED
      BY <1>0, <1>1, <2>1
  <1>4. SubSeq(Cut(m, a, b), 1, n) = Cut(m, a, a + n)
        /\ SubSeq(Cut(m, a, b), n + 1, Len(Cut(m, a, b))) = Cut(m, a + n, b)
    BY <1>3, Cuts
  <1>5. Span(m, 0, a) /\ Span(m, a, a + n) /\ (HeadLen(m) <= a => Span(m, HeadLen(m), a))
    BY <1>0, <1>1, <1>3, Zenon DEF Span
  <1>6. Cut(m, 0, a) \o Cut(m, a, a + n) = Cut(m, 0, a + n)
    BY <1>5, CutJoin, Zenon
  <1>7. HeadLen(m) <= a => Cut(m, HeadLen(m), a) \o Cut(m, a, a + n) = Cut(m, HeadLen(m), a + n)
    BY <1>5, CutJoin, Zenon
  <1>. QED
    BY <1>3, <1>4, <1>6, <1>7, Zenon

\* What the read leaves in flight, ...
LEMMA ReadRest ==
    ASSUME NEW m, NEW a, NEW b, Span(m, a, b), NEW n \in 1 .. Len(Cut(m, a, b))
    PROVE  SubSeq(Cut(m, a, b), n + 1, Len(Cut(m, a, b))) = Cut(m, a + n, b)
  BY ReadOn, SMT

\* ... what the buffer holds after it, ...
LEMMA ReadBuffer ==
    ASSUME NEW m, NEW a, NEW b, Span(m, a, b), NEW n \in 1 .. Len(Cut(m, a, b))
    PROVE  Cut(m, 0, a) \o SubSeq(Cut(m, a, b), 1, n) = Cut(m, 0, a + n)
  BY ReadOn, SMT

\* ... and what there is of the body after it.
LEMMA ReadBody ==
    ASSUME NEW m, NEW a, NEW b, Span(m, a, b), NEW n \in 1 .. Len(Cut(m, a, b)), HeadLen(m) <= a
    PROVE  Cut(m, HeadLen(m), a) \o SubSeq(Cut(m, a, b), 1, n) = Cut(m, HeadLen(m), a + n)
  BY ReadOn, SMT

\* parse_request gets one step further in the request, or refuses it.
LEMMA ParseRequestReads ==
    ASSUME NEW m, GoodMessage(m), NEW a \in Nat, NEW b \in Nat, ServerAt(m, a, b),
           NEW n, ParseRequest(n)
    PROVE  \/ \E e \in Nat : ServerAt(m, e, b)'
           \/ \E status \in {"413", "431", "500"} : Refuse(status)
  <1>. DEFINE H == HeadLen(m)
              F == FullLen(m)
              data == sbuf \o SubSeq(up, 1, n)
              d == a + n
  <1>1. H \in Nat /\ H >= 2 /\ F \in Nat /\ F >= H
    BY Lengths, Zenon
  <1>2. spc = "fill" /\ n \in 1 .. Min({MaxHead - Len(sbuf), Len(up)})
        /\ up' = SubSeq(up, n + 1, Len(up))
    BY Zenon DEF ParseRequest
  <1>3. a <= b /\ b <= F /\ up = Cut(m, a, b) /\ a < H /\ sbuf = Cut(m, 0, a)
    BY <1>2 DEF ServerAt
  <1>4. n \in Nat /\ n \in 1 .. Len(up)
    <2>1. MaxHead \in Nat
      BY ExchangeAssumption, Zenon
    <2>2. Len(up) = b - a /\ Len(sbuf) = a - 0
      <3>1. 0 \in Nat /\ 0 <= a /\ a <= F
        BY <1>1, <1>3
      <3>2. Span(m, 0, a) /\ Span(m, a, b)
        BY <1>3, <3>1, Zenon DEF Span
      <3>. QED
        BY <1>3, <3>2, Cuts
    <2>3. MaxHead - Len(sbuf) \in Int /\ Len(up) \in Int
      BY <2>1, <2>2
    <2>. QED
      BY <1>2, <2>3, ReadSize, Zenon
  <1>5. /\ d \in Nat /\ 1 <= d /\ d <= b /\ d <= F
        /\ up' = Cut(m, d, b) /\ data = Cut(m, 0, d)
    <2>0. Span(m, a, b)
      BY <1>3, Zenon DEF Span
    <2>1. n \in 1 .. Len(Cut(m, a, b))
      BY <1>3, <1>4
    <2>2. d \in Nat /\ 1 <= d /\ d <= b /\ d <= F
      BY <2>0, <2>1, ReadOn, Zenon
    <2>3. SubSeq(Cut(m, a, b), n + 1, Len(Cut(m, a, b))) = Cut(m, d, b)
      BY <2>0, <2>1, ReadRest
    <2>4. Cut(m, 0, a) \o SubSeq(Cut(m, a, b), 1, n) = Cut(m, 0, d)
      BY <2>0, <2>1, ReadBuffer
    <2>. QED
      BY <2>2, <2>3, <2>4, <1>2, <1>3, Zenon
  <1>6. /\ data[1] = m.line /\ Len(data) = d
        /\ d < H => Parse(data).verdict = "partial"
        /\ d >= H =>
              /\ Parse(data).verdict = "complete"
              /\ Parse(data).message =
                    [headers |-> m.headers, length |-> Len(m.body), remaining |-> F - d,
                     body |-> Cut(m, H, d), left |-> <<>>]
    BY <1>5, ParsePart, Zenon
  <1>7. \/ /\ Parse(data).verdict = "partial" /\ sbuf' = data /\ UNCHANGED <<spc, sout, sreq>>
        \/ \E status \in Refusals(data, Parse(data)) : Refuse(status)
        \/ /\ Parse(data).verdict = "complete"
           /\ sbuf' = Parse(data).message.left
           /\ sreq' = Request(data[1], Parse(data).message)
           /\ spc' = IF Parse(data).message.remaining = 0 THEN "handle" ELSE "body"
    BY Zenon DEF ParseRequest
  <1>. HIDE DEF H, F, data, d
  <1>v. Parse(data).verdict = "partial" \/ Parse(data).verdict = "complete"
    BY <1>1, <1>5, <1>6
  <1>8. CASE /\ Parse(data).verdict = "partial" /\ sbuf' = data /\ UNCHANGED <<spc, sout, sreq>>
    <2>1. d < H
      BY <1>1, <1>5, <1>6, <1>8
    <2>2. ServerAt(m, d, b)'
      BY <2>1, <1>2, <1>3, <1>5, <1>8, Zenon DEF ServerAt, H, F
    <2>. QED
      BY <2>2, <1>5, Zenon
  <1>9. CASE \E status \in Refusals(data, Parse(data)) : Refuse(status)
    <2>1. ASSUME NEW status \in Refusals(data, Parse(data)) PROVE status \in {"413", "431", "500"}
      BY <1>v DEF Refusals
    <2>. QED
      BY <2>1, <1>9, Zenon
  <1>10. CASE /\ Parse(data).verdict = "complete"
              /\ sbuf' = Parse(data).message.left
              /\ sreq' = Request(data[1], Parse(data).message)
              /\ spc' = IF Parse(data).message.remaining = 0 THEN "handle" ELSE "body"
    <2>1. d >= H
      BY <1>1, <1>5, <1>6, <1>10
    <2>. DEFINE msg == [headers |-> m.headers, length |-> Len(m.body), remaining |-> F - d,
                        body |-> Cut(m, H, d), left |-> <<>>]
    <2>2. Parse(data).message = msg
      BY <2>1, <1>6, Zenon
    <2>3. msg.headers = m.headers /\ msg.remaining = F - d /\ msg.body = Cut(m, H, d) /\ msg.left = <<>>
      OBVIOUS
    <2>. HIDE DEF msg
    <2>4. sbuf' = <<>> /\ sreq' = Request(m.line, msg) /\ spc' = IF F - d = 0 THEN "handle" ELSE "body"
      BY <2>2, <2>3, <1>6, <1>10, Zenon
    <2>5. Request(m.line, msg) = RequestSoFar(m, d)
      BY <2>3, Zenon DEF Request, RequestSoFar, H, F
    <2>6. F - d = 0 => d = F
      BY <1>1, <1>5
    <2>7. F - d # 0 => d < F
      BY <1>1, <1>5
    <2>8. ServerAt(m, d, b)'
      <3>1. d <= b /\ b <= FullLen(m) /\ up' = Cut(m, d, b)
        BY <1>3, <1>5, Zenon DEF F
      <3>2. CASE F - d = 0
        <4>1. spc' = "handle" /\ d = FullLen(m)
          BY <3>2, <2>4, <2>6, Zenon DEF F
        <4>. QED
          BY <4>1, <3>1, <2>4, <2>5, Zenon DEF ServerAt
      <3>3. CASE F - d # 0
        <4>1. spc' = "body" /\ d < FullLen(m)
          BY <3>3, <2>4, <2>7, Zenon DEF F
        <4>2. HeadLen(m) <= d
          BY <2>1, <1>1, <1>5 DEF H
        <4>. QED
          BY <4>1, <4>2, <3>1, <2>4, <2>5, Zenon DEF ServerAt
      <3>. QED
        BY <3>2, <3>3, Zenon
    <2>. QED
      BY <2>8, <1>5, Zenon
  <1>. QED
    BY <1>7, <1>8, <1>9, <1>10, Zenon

\* read_body gets further in the request.
LEMMA ReadRequestBodyReads ==
    ASSUME NEW m, GoodMessage(m), NEW a \in Nat, NEW b \in Nat, ServerAt(m, a, b),
           NEW n, ReadRequestBody(n)
    PROVE  \E e \in Nat : ServerAt(m, e, b)'
  <1>. DEFINE H == HeadLen(m)
              F == FullLen(m)
              d == a + n
  <1>1. H \in Nat /\ H >= 2 /\ F \in Nat /\ F >= H
    BY Lengths, Zenon
  <1>2. /\ spc = "body" /\ n \in 1 .. Min({sreq.remaining, Len(up)})
        /\ up' = SubSeq(up, n + 1, Len(up))
        /\ sreq' = [sreq EXCEPT !.body = @ \o SubSeq(up, 1, n), !.remaining = @ - n]
        /\ spc' = IF sreq'.remaining = 0 THEN "handle" ELSE "body"
        /\ sbuf' = sbuf
    BY Zenon DEF ReadRequestBody
  <1>3. /\ a <= b /\ b <= F /\ up = Cut(m, a, b) /\ H <= a /\ a < F
        /\ sbuf = <<>> /\ sreq = RequestSoFar(m, a)
    BY <1>2 DEF ServerAt
  <1>4. n \in Nat /\ n \in 1 .. Len(up)
    <2>1. sreq.remaining = F - a
      BY <1>3 DEF RequestSoFar
    <2>2. Len(up) = b - a
      <3>1. Span(m, a, b)
        BY <1>3, Zenon DEF Span
      <3>. QED
        BY <1>3, <3>1, Cuts
    <2>3. sreq.remaining \in Int /\ Len(up) \in Int
      BY <2>1, <2>2, <1>1
    <2>. QED
      BY <1>2, <2>3, ReadSize, Zenon
  <1>5. /\ d \in Nat /\ d <= b /\ d <= F
        /\ up' = Cut(m, d, b) /\ Cut(m, H, a) \o SubSeq(up, 1, n) = Cut(m, H, d)
    <2>0. Span(m, a, b)
      BY <1>3, Zenon DEF Span
    <2>1. n \in 1 .. Len(Cut(m, a, b))
      BY <1>3, <1>4
    <2>2. d \in Nat /\ d <= b /\ d <= F
      BY <2>0, <2>1, ReadOn, Zenon
    <2>3. SubSeq(Cut(m, a, b), n + 1, Len(Cut(m, a, b))) = Cut(m, d, b)
      BY <2>0, <2>1, ReadRest
    <2>4. Cut(m, H, a) \o SubSeq(Cut(m, a, b), 1, n) = Cut(m, H, d)
      BY <2>0, <2>1, <1>3, ReadBody
    <2>. QED
      BY <2>2, <2>3, <2>4, <1>2, <1>3, Zenon
  <1>6. sreq' = RequestSoFar(m, d) /\ sreq'.remaining = F - d
    <2>1. (F - a) - n = F - d
      BY <1>1, <1>4
    <2>2. sreq' = [RequestSoFar(m, a) EXCEPT !.body = Cut(m, H, d), !.remaining = F - d]
      <3>1. sreq.body = Cut(m, H, a) /\ sreq.remaining = F - a
        BY <1>3 DEF RequestSoFar
      <3>. QED
        BY <3>1, <2>1, <1>2, <1>3, <1>5, Zenon
    <2>3. sreq' = RequestSoFar(m, d)
      <3>. HIDE DEF d
      <3>. QED
        BY <2>2, Zenon DEF RequestSoFar
    <2>4. RequestSoFar(m, d).remaining = F - d
      BY DEF RequestSoFar
    <2>. QED
      BY <2>3, <2>4, Zenon
  <1>. HIDE DEF d, H, F
  <1>7. ServerAt(m, d, b)'
    <2>1. d <= b /\ b <= FullLen(m) /\ up' = Cut(m, d, b) /\ sbuf' = <<>>
      BY <1>2, <1>3, <1>5, Zenon DEF F
    <2>2. CASE F - d = 0
      <3>1. spc' = "handle" /\ d = FullLen(m)
        BY <2>2, <1>1, <1>2, <1>5, <1>6 DEF F
      <3>. QED
        BY <3>1, <2>1, <1>6, Zenon DEF ServerAt
    <2>3. CASE F - d # 0
      <3>1. spc' = "body" /\ d < FullLen(m)
        BY <2>3, <1>1, <1>2, <1>5, <1>6 DEF F
      <3>2. HeadLen(m) <= d
        BY <1>1, <1>3, <1>4, <1>5 DEF H, d
      <3>. QED
        BY <3>1, <3>2, <2>1, <1>6, Zenon DEF ServerAt
    <2>. QED
      BY <2>2, <2>3, Zenon
  <1>. QED
    BY <1>5, <1>7, Zenon

\* What a read of the client may come to, while the response m is on its way.
ClientReads(m, d) ==
    \/ cpc' \in {"fill", "body"} /\ UNCHANGED results /\ \E e \in Nat : ClientAt(m, e, d)'
    \/ Return(Failure)
    \/ Return(Result(m)) /\ d = FullLen(m) /\ down' = <<>>

\* Receive goes on reading the body, or returns the response.
LEMMA Receives ==
    ASSUME NEW m, GoodMessage(m), NEW e \in Nat, NEW d \in Nat, e <= d, d <= FullLen(m),
           HeadLen(m) <= e, down' = Cut(m, e, d), Receive(ResponseSoFar(m, e))
    PROVE  ClientReads(m, d)
  <1>. DEFINE F == FullLen(m)
              r == ResponseSoFar(m, e)
  <1>1. F \in Nat /\ Cut(m, HeadLen(m), F) = m.body
    BY Lengths, Zenon
  <1>2. /\ r.status = m.line.status /\ r.headers = m.headers /\ r.body = Cut(m, HeadLen(m), e)
        /\ r.remaining = F - e
    BY DEF ResponseSoFar
  <1>3. CASE F - e = 0
    <2>1. e = F /\ d = F
      BY <1>1, <1>3
    <2>2. Span(m, e, d)
      BY <2>1, <1>1, Zenon DEF Span
    <2>3. down' = <<>>
      BY <2>1, <2>2, Cuts
    <2>4. Return([status |-> r.status, headers |-> r.headers, body |-> r.body])
      BY <1>2, <1>3, Zenon DEF Receive
    <2>5. [status |-> r.status, headers |-> r.headers, body |-> r.body] = Result(m)
      BY <1>1, <1>2, <2>1, Zenon DEF Result
    <2>. QED
      BY <2>1, <2>3, <2>4, <2>5, Zenon DEF ClientReads
  <1>4. CASE F - e # 0
    <2>1. e < F
      BY <1>1, <1>4
    <2>2. cpc' = "body" /\ cbody' = r /\ results' = results
      BY <1>2, <1>4, Zenon DEF Receive
    <2>3. ClientAt(m, e, d)'
      BY <2>1, <2>2, Zenon DEF ClientAt
    <2>. QED
      BY <2>2, <2>3, Zenon DEF ClientReads
  <1>. QED
    BY <1>3, <1>4, Zenon

\* parse_response gets one step further in the response.
LEMMA ParseResponseReads ==
    ASSUME NEW m, GoodMessage(m), NEW c \in Nat, NEW d \in Nat, ClientAt(m, c, d),
           NEW n, ParseResponse(n)
    PROVE  ClientReads(m, d)
  <1>. DEFINE H == HeadLen(m)
              F == FullLen(m)
              data == cbuf \o SubSeq(down, 1, n)
              e == c + n
  <1>1. H \in Nat /\ H >= 2 /\ F \in Nat /\ F >= H
    BY Lengths, Zenon
  <1>2. cpc = "fill" /\ n \in 1 .. Min({MaxHead - Len(cbuf), Len(down)})
        /\ down' = SubSeq(down, n + 1, Len(down))
    BY Zenon DEF ParseResponse
  <1>3. c <= d /\ d <= F /\ down = Cut(m, c, d) /\ c < H /\ cbuf = Cut(m, 0, c)
    BY <1>2 DEF ClientAt
  <1>4. n \in Nat /\ n \in 1 .. Len(down)
    <2>1. MaxHead \in Nat
      BY ExchangeAssumption, Zenon
    <2>2. Len(down) = d - c /\ Len(cbuf) = c - 0
      <3>1. 0 \in Nat /\ 0 <= c /\ c <= F
        BY <1>1, <1>3
      <3>2. Span(m, 0, c) /\ Span(m, c, d)
        BY <1>3, <3>1, Zenon DEF Span
      <3>. QED
        BY <1>3, <3>2, Cuts
    <2>3. MaxHead - Len(cbuf) \in Int /\ Len(down) \in Int
      BY <2>1, <2>2
    <2>. QED
      BY <1>2, <2>3, ReadSize, Zenon
  <1>5. /\ e \in Nat /\ 1 <= e /\ e <= d /\ e <= F
        /\ down' = Cut(m, e, d) /\ data = Cut(m, 0, e)
    <2>0. Span(m, c, d)
      BY <1>3, Zenon DEF Span
    <2>1. n \in 1 .. Len(Cut(m, c, d))
      BY <1>3, <1>4
    <2>2. e \in Nat /\ 1 <= e /\ e <= d /\ e <= F
      BY <2>0, <2>1, ReadOn, Zenon
    <2>3. SubSeq(Cut(m, c, d), n + 1, Len(Cut(m, c, d))) = Cut(m, e, d)
      BY <2>0, <2>1, ReadRest
    <2>4. Cut(m, 0, c) \o SubSeq(Cut(m, c, d), 1, n) = Cut(m, 0, e)
      BY <2>0, <2>1, ReadBuffer
    <2>. QED
      BY <2>2, <2>3, <2>4, <1>2, <1>3, Zenon
  <1>6. /\ data[1] = m.line /\ Len(data) = e
        /\ e < H => Parse(data).verdict = "partial"
        /\ e >= H =>
              /\ Parse(data).verdict = "complete"
              /\ Parse(data).message =
                    [headers |-> m.headers, length |-> Len(m.body), remaining |-> F - e,
                     body |-> Cut(m, H, e), left |-> <<>>]
    BY <1>5, ParsePart, Zenon
  <1>7. \/ /\ Parse(data).verdict = "partial" /\ cbuf' = data
           /\ UNCHANGED <<cpc, cout, cbody, results>>
        \/ /\ Parse(data).verdict = "complete"
           /\ Receive([status |-> data[1].status, headers |-> Parse(data).message.headers,
                       body |-> Parse(data).message.body,
                       remaining |-> Parse(data).message.remaining])
        \/ Return(Failure)
    BY Zenon DEF ParseResponse
  <1>. HIDE DEF H, F, data, e
  <1>8. CASE /\ Parse(data).verdict = "partial" /\ cbuf' = data
             /\ UNCHANGED <<cpc, cout, cbody, results>>
    <2>1. e < H
      BY <1>1, <1>5, <1>6, <1>8
    <2>2. ClientAt(m, e, d)'
      BY <2>1, <1>2, <1>3, <1>5, <1>8, Zenon DEF ClientAt, H, F
    <2>. QED
      BY <2>2, <1>2, <1>5, <1>8, Zenon DEF ClientReads
  <1>9. CASE /\ Parse(data).verdict = "complete"
             /\ Receive([status |-> data[1].status, headers |-> Parse(data).message.headers,
                         body |-> Parse(data).message.body,
                         remaining |-> Parse(data).message.remaining])
    <2>1. e >= H /\ H <= e
      BY <1>1, <1>5, <1>6, <1>9
    <2>. DEFINE msg == [headers |-> m.headers, length |-> Len(m.body), remaining |-> F - e,
                        body |-> Cut(m, H, e), left |-> <<>>]
    <2>2. Parse(data).message = msg
      BY <2>1, <1>6, Zenon
    <2>3. msg.headers = m.headers /\ msg.remaining = F - e /\ msg.body = Cut(m, H, e)
      OBVIOUS
    <2>. HIDE DEF msg
    <2>4. Receive(ResponseSoFar(m, e))
      BY <2>2, <2>3, <1>6, <1>9, Zenon DEF ResponseSoFar, H, F
    <2>. QED
      BY <2>1, <2>4, <1>3, <1>5, Receives DEF H, F
  <1>. QED
    BY <1>7, <1>8, <1>9, Zenon DEF ClientReads

\* read_body gets further in the response.
LEMMA ReadResponseBodyReads ==
    ASSUME NEW m, GoodMessage(m), NEW c \in Nat, NEW d \in Nat, ClientAt(m, c, d),
           NEW n, ReadResponseBody(n)
    PROVE  ClientReads(m, d)
  <1>. DEFINE H == HeadLen(m)
              F == FullLen(m)
              e == c + n
  <1>1. H \in Nat /\ H >= 2 /\ F \in Nat /\ F >= H
    BY Lengths, Zenon
  <1>2. /\ cpc = "body" /\ n \in 1 .. Min({cbody.remaining, Len(down)})
        /\ down' = SubSeq(down, n + 1, Len(down))
        /\ Receive([cbody EXCEPT !.body = @ \o SubSeq(down, 1, n), !.remaining = @ - n])
    BY Zenon DEF ReadResponseBody
  <1>3. /\ c <= d /\ d <= F /\ down = Cut(m, c, d) /\ H <= c /\ c < F
        /\ cbody = ResponseSoFar(m, c)
    BY <1>2 DEF ClientAt
  <1>r. cbody.remaining = F - c /\ cbody.body = Cut(m, H, c)
    BY <1>3 DEF ResponseSoFar
  <1>0. Span(m, c, d)
    BY <1>3, Zenon DEF Span
  <1>4. n \in Nat /\ n \in 1 .. Len(down)
    <2>2. Len(down) = d - c
      BY <1>0, <1>3, Cuts
    <2>3. cbody.remaining \in Int /\ Len(down) \in Int
      BY <2>2, <1>1, <1>r
    <2>. QED
      BY <1>2, <2>3, ReadSize, Zenon
  <1>5. /\ e \in Nat /\ e <= d /\ e <= F
        /\ down' = Cut(m, e, d) /\ Cut(m, H, c) \o SubSeq(down, 1, n) = Cut(m, H, e)
    <2>1. n \in 1 .. Len(Cut(m, c, d))
      BY <1>3, <1>4
    <2>2. e \in Nat /\ e <= d /\ e <= F
      BY <1>0, <2>1, ReadOn, Zenon
    <2>3. SubSeq(Cut(m, c, d), n + 1, Len(Cut(m, c, d))) = Cut(m, e, d)
      BY <1>0, <2>1, ReadRest
    <2>4. Cut(m, H, c) \o SubSeq(Cut(m, c, d), 1, n) = Cut(m, H, e)
      BY <1>0, <2>1, <1>3, ReadBody
    <2>. QED
      BY <2>2, <2>3, <2>4, <1>2, <1>3, Zenon
  <1>6. (F - c) - n = F - e /\ H <= e
    BY <1>1, <1>3, <1>4, <1>5
  <1>. HIDE DEF e
  <1>7. PICK z : z = [cbody EXCEPT !.body = @ \o SubSeq(down, 1, n), !.remaining = @ - n]
    BY Zenon
  <1>8. z = [ResponseSoFar(m, c) EXCEPT !.body = Cut(m, H, e), !.remaining = F - e]
    BY <1>3, <1>5, <1>6, <1>7, <1>r, Zenon
  <1>9. z = ResponseSoFar(m, e)
    BY <1>8, Zenon DEF ResponseSoFar
  <1>10. Receive(ResponseSoFar(m, e))
    BY <1>2, <1>7, <1>9, Zenon
  <1>. QED
    BY <1>3, <1>5, <1>6, <1>10, Receives

-----------------------------------------------------------------------------
\* What stays as it is.
LEMMA HistorySame ==
    ASSUME History, UNCHANGED <<plan, answers, seen, results>>
    PROVE  History'
  <1>1. SeenOK'
    BY AskedSame, Zenon DEF History, SeenOK
  <1>2. ResultsOK'
    BY Zenon DEF History, ResultsOK
  <1>. QED
    BY <1>1, <1>2, Zenon DEF History

\* The server stays where it is when nothing it has or reads changes.
LEMMA ServerSame ==
    ASSUME ServerOK, UNCHANGED <<plan, up, spc, sout, sbuf, sreq, seen>>
    PROVE  ServerOK'
  BY AskedSame, Zenon DEF ServerOK, NothingUp, ServerAt

\* The request that is being sent is a good message.
LEMMA AskedNow ==
    ASSUME History
    PROVE  /\ Len(seen) \in Nat /\ Len(results) \in Nat /\ Len(plan.requests) \in Nat
           /\ Len(seen) < Len(plan.requests) => GoodMessage(Asked(Len(seen) + 1))
           /\ Len(results) < Len(plan.requests) =>
                 /\ NextCall \in 1 .. Len(plan.requests) /\ GoodMessage(Asked(NextCall))
  <1>1. plan \in Plans
    BY Zenon DEF History
  <1>2. Len(plan.requests) \in Nat
    BY <1>1, Plan
  <1>3. Len(seen) \in Nat
    <2>1. PICK S : seen \in Seq(S)
      BY Zenon DEF History
    <2>. QED
      BY <2>1
  <1>4. Len(results) \in Nat
    <2>1. PICK S : results \in Seq(S)
      BY Zenon DEF History
    <2>. QED
      BY <2>1
  <1>5. Len(seen) < Len(plan.requests) => Len(seen) + 1 \in 1 .. Len(plan.requests)
    BY <1>2, <1>3
  <1>6. Len(results) < Len(plan.requests) => Len(results) + 1 \in 1 .. Len(plan.requests)
    BY <1>2, <1>4
  <1>. QED
    BY <1>1, <1>2, <1>3, <1>4, <1>5, <1>6, AskedGood, Zenon DEF NextCall

\* Nothing has been read or written of a message.
LEMMA CutNone ==
    ASSUME NEW m, GoodMessage(m)
    PROVE  /\ Cut(m, 0, 0) = <<>> /\ 0 < HeadLen(m) /\ 0 <= FullLen(m)
           /\ Cut(m, FullLen(m), FullLen(m)) = <<>>
  <1>1. HeadLen(m) \in Nat /\ HeadLen(m) >= 2 /\ FullLen(m) \in Nat
    BY Lengths, Zenon
  <1>2. 0 \in Nat /\ 0 <= 0 /\ 0 <= FullLen(m) /\ FullLen(m) <= FullLen(m) /\ 0 < HeadLen(m)
    BY <1>1
  <1>3. Span(m, 0, 0) /\ Span(m, FullLen(m), FullLen(m))
    BY <1>1, <1>2, Zenon DEF Span
  <1>. QED
    BY <1>2, <1>3, Cuts

\* The client waits for a response none of which was written.
LEMMA ClientWaits ==
    ASSUME NEW m, GoodMessage(m), cpc \in {"write", "fill"}, NothingDown
    PROVE  ClientAt(m, 0, 0)
  <1>1. Cut(m, 0, 0) = <<>> /\ 0 < HeadLen(m) /\ 0 <= FullLen(m)
    BY CutNone, Zenon
  <1>2. 0 <= 0
    OBVIOUS
  <1>3. cpc = "write" \/ cpc = "fill"
    OBVIOUS
  <1>. QED
    BY <1>1, <1>2, <1>3, Zenon DEF ClientAt, NothingDown

\* A refusal begins.
LEMMA RefuseStep ==
    ASSUME NEW status \in {"413", "431", "500"}, Refuse(status)
    PROVE  /\ ServerOK'
           /\ cpc \in {"write", "fill"} /\ NothingDown /\ UNCHANGED <<cpc, down, cbuf>> => Refused'
  <1>. DEFINE m == Answer(ErrorResponse(status))
  <1>1. GoodMessage(m) /\ ToWrite(m, 0, WriteResponse(ErrorResponse(status)))
    BY ErrorGood, Zenon
  <1>2. spc' = "write" /\ sreq' = NoMessage /\ sout' = WriteResponse(ErrorResponse(status))
    BY Zenon DEF Refuse
  <1>. HIDE DEF m
  <1>3. sout' # <<>>
    <2>1. 0 \in Nat /\ 0 # FullLen(m)
      BY <1>1, Lengths
    <2>. QED
      BY <1>1, <1>2, <2>1, WriteOn, Zenon
  <1>4. ServerOK'
    BY <1>2, <1>3, Zenon DEF ServerOK
  <1>5. ASSUME cpc \in {"write", "fill"}, NothingDown, UNCHANGED <<cpc, down, cbuf>> PROVE Refused'
    <2>1. ClientAt(m, 0, 0)
      BY <1>1, <1>5, ClientWaits, Zenon
    <2>2. ClientAt(m, 0, 0)'
      <3>1. cpc # "body"
        BY <1>5
      <3>. QED
        BY <2>1, <3>1, <1>5, Zenon DEF ClientAt
    <2>3. Writing(m, 0)'
      BY <1>1, <1>2, <1>3, Zenon DEF Writing
    <2>4. cpc' \in {"write", "fill", "body"} /\ 0 \in Nat
      BY <1>5
    <2>. QED
      BY <2>2, <2>3, <2>4, <1>2, Zenon DEF Refused, m
  <1>. QED
    BY <1>4, <1>5, Zenon

\* The server reads: parse_request and read_body.
LEMMA ServerReadStep ==
    ASSUME ExchangeInv, NEW n, ParseRequest(n) \/ ReadRequestBody(n)
    PROVE  ExchangeInv'
  <1>0. spc \in {"fill", "body"} /\ UNCHANGED <<plan, clientVars, down, seen, answers>>
    BY Zenon DEF ParseRequest, ReadRequestBody
  <1>1. UNCHANGED <<plan, cpc, cout, cbuf, cbody, results, down, seen, answers>>
    BY <1>0, Zenon DEF clientVars
  <1>2. History' /\ History /\ ServerOK /\ ClientOK
    BY <1>1, HistorySame, Zenon DEF ExchangeInv
  <1>3. ASSUME spc = "fill", NothingUp PROVE FALSE
    <2>1. n \in 1 .. Min({MaxHead - Len(sbuf), Len(up)})
      BY <1>3 DEF ParseRequest, ReadRequestBody
    <2>2. MaxHead \in Nat
      BY ExchangeAssumption, Zenon
    <2>3. MaxHead - Len(sbuf) \in Int /\ Len(up) = 0 /\ 0 \in Int
      BY <2>2, <1>3 DEF NothingUp
    <2>4. n \in 1 .. 0
      BY <2>1, <2>3, ReadSize, Zenon
    <2>. QED
      BY <2>4
  <1>4. ASSUME NEW m, GoodMessage(m), NEW a \in Nat, NEW b \in Nat, ServerAt(m, a, b)
        PROVE  \/ \E e \in Nat : ServerAt(m, e, b)'
               \/ \E status \in {"413", "431", "500"} : Refuse(status)
    BY <1>4, ParseRequestReads, ReadRequestBodyReads, Zenon
  <1>5. ServerOK'
    <2>1. Len(seen) < Len(plan.requests) /\ \E a, b \in Nat : ServerAt(Asked(Len(seen) + 1), a, b)
      BY <1>0, <1>2, <1>3 DEF ServerOK
    <2>2. GoodMessage(Asked(Len(seen) + 1))
      BY <2>1, <1>2, AskedNow, Zenon
    <2>3. PICK m : m = Asked(Len(seen) + 1)
      BY Zenon
    <2>4. PICK a \in Nat, b \in Nat : ServerAt(m, a, b)
      BY <2>1, <2>3, Zenon
    <2>5. CASE \E e \in Nat : ServerAt(m, e, b)'
      <3>1. m = Asked(Len(seen) + 1)'
        BY <2>3, <1>1, AskedSame, Zenon
      <3>. QED
        BY <2>1, <2>5, <3>1, <1>1, Zenon DEF ServerOK
    <2>6. CASE \E status \in {"413", "431", "500"} : Refuse(status)
      BY <2>6, RefuseStep, Zenon
    <2>. QED
      BY <2>2, <2>3, <2>4, <2>5, <2>6, <1>4, Zenon
  <1>6. ClientOK'
    <2>1. CASE cpc = "closed"
      BY <2>1, <1>1, Zenon DEF ClientOK
    <2>2. CASE cpc # "closed"
      <3>1. Len(results) < Len(plan.requests) /\ Asking
        <4>1. ~Idle
          BY <1>0, <1>3 DEF Idle
        <4>2. ~Answered
          BY <1>0, <1>3 DEF Answered, Writing
        <4>3. ~Refused /\ ~Dropped
          BY <1>0 DEF Refused, Dropped
        <4>. QED
          BY <4>1, <4>2, <4>3, <2>2, <1>2, Zenon DEF ClientOK
      <3>2. PICK m : m = Asked(NextCall)
        BY Zenon
      <3>3. GoodMessage(m)
        BY <3>1, <3>2, <1>2, AskedNow, Zenon
      <3>4. PICK a \in Nat, b \in Nat : ServerAt(m, a, b) /\ ToWrite(m, b, cout)
        BY <3>1, <3>2, Zenon DEF Asking
      <3>5. CASE \E e \in Nat : ServerAt(m, e, b)'
        <4>1. PICK e \in Nat : ServerAt(m, e, b)'
          BY <3>5
        <4>2. m = Asked(NextCall)'
          BY <3>2, <1>1, AskedSame, Zenon DEF NextCall
        <4>3. Asking'
          BY <4>1, <4>2, <3>1, <3>4, <1>1, Zenon DEF Asking, NothingDown
        <4>. QED
          BY <4>3, <3>1, <1>1, Zenon DEF ClientOK
      <3>6. CASE \E status \in {"413", "431", "500"} : Refuse(status)
        <4>1. cpc \in {"write", "fill"} /\ NothingDown
          BY <3>1, Zenon DEF Asking
        <4>2. Refused'
          BY <4>1, <3>6, <1>1, RefuseStep, Zenon
        <4>. QED
          BY <4>2, <3>1, <1>1, Zenon DEF ClientOK
      <3>. QED
        BY <3>3, <3>4, <3>5, <3>6, <1>4, Zenon
    <2>. QED
      BY <2>1, <2>2, Zenon
  <1>. QED
    BY <1>2, <1>5, <1>6, Zenon DEF ExchangeInv

\* The server's stream is dropped.
LEMMA ServerDrops ==
    ASSUME ExchangeInv, spc' = "closed", UNCHANGED <<plan, clientVars, down, seen, answers>>,
           cpc = "closed" \/ Idle \/ Asking \/ Dropped
    PROVE  ExchangeInv'
  <1>1. UNCHANGED <<plan, cpc, cout, cbuf, cbody, results, down, seen, answers>>
    BY Zenon DEF clientVars
  <1>2. History' /\ ClientOK
    BY <1>1, HistorySame, Zenon DEF ExchangeInv
  <1>3. ServerOK'
    BY Zenon DEF ServerOK
  <1>4. Idle => Idle'
    BY <1>1, Zenon DEF Idle, NothingDown
  <1>5. Asking \/ Dropped => Dropped'
    BY <1>1, Zenon DEF Asking, Dropped, NothingDown
  <1>6. ClientOK'
    BY <1>1, <1>2, <1>4, <1>5, Zenon DEF ClientOK
  <1>. QED
    BY <1>2, <1>3, <1>6, Zenon DEF ExchangeInv

\* start_inner and accept_loop.
LEMMA StartStep ==
    ASSUME ExchangeInv, StartInner \/ AcceptLoop
    PROVE  ExchangeInv'
  <1>0. /\ spc \in {"start", "accept"} /\ spc' \in {"accept", "fill", "closed"}
        /\ UNCHANGED <<plan, clientVars, up, down, sout, sbuf, sreq, seen, answers>>
    BY DEF StartInner, AcceptLoop
  <1>1. UNCHANGED <<plan, cpc, cout, cbuf, cbody, results, up, down, sout, sbuf, sreq, seen, answers>>
    BY <1>0, Zenon DEF clientVars
  <1>2. History' /\ ServerOK /\ ClientOK
    BY <1>1, HistorySame, Zenon DEF ExchangeInv
  <1>3. cpc = "closed" \/ Idle \/ Asking
    <2>1. ~Answered /\ ~Refused /\ ~Dropped
      BY <1>0 DEF Answered, Writing, Refused, Dropped
    <2>. QED
      BY <2>1, <1>2, Zenon DEF ClientOK
  <1>4. CASE spc' = "closed"
    BY <1>0, <1>3, <1>4, ServerDrops, Zenon
  <1>5. CASE spc' # "closed"
    <2>1. spc' \in {"accept", "fill"}
      BY <1>0, <1>5
    <2>2. \A m : \A a, b \in Nat : ServerAt(m, a, b) => ServerAt(m, a, b)'
      <3>1. spc' \in {"start", "accept", "fill"} /\ spc # "body" /\ spc # "handle"
        BY <2>1, <1>0
      <3>. QED
        BY <3>1, <1>1, Zenon DEF ServerAt
    <2>3. ServerOK'
      <3>1. spc # "closed" /\ spc # "write" /\ spc' \in {"start", "accept", "fill"}
        BY <2>1, <1>0
      <3>. QED
        BY <3>1, <2>2, <1>1, <1>2, AskedSame, Zenon DEF ServerOK, NothingUp
    <2>4. Idle => Idle'
      <3>1. spc # "closed" /\ spc' \in {"start", "accept", "fill"}
        BY <2>1, <1>0
      <3>. QED
        BY <3>1, <1>1, Zenon DEF Idle, NothingUp, NothingDown
    <2>5. Asking => Asking'
      BY <2>2, <1>1, AskedSame, Zenon DEF Asking, NothingDown, NextCall
    <2>6. ClientOK'
      BY <2>4, <2>5, <1>1, <1>2, <1>3, Zenon DEF ClientOK
    <2>. QED
      BY <2>3, <2>6, <1>2, Zenon DEF ExchangeInv
  <1>. QED
    BY <1>4, <1>5, Zenon

\* A read, a write or an allocation of the server fails.
LEMMA ServerFailsStep ==
    ASSUME ExchangeInv, ServerFails
    PROVE  ExchangeInv'
  BY ServerDrops, Zenon DEF ServerFails

\* The handler's answer.
LEMMA HandleStep ==
    ASSUME ExchangeInv, NEW answer \in Answers, Handle(answer)
    PROVE  ExchangeInv'
  <1>0. /\ spc = "handle" /\ seen' = Append(seen, sreq) /\ answers' = Append(answers, answer)
        /\ sout' = WriteResponse(answer) /\ spc' = "write"
        /\ UNCHANGED <<plan, cpc, cout, cbuf, cbody, results, up, down, sbuf, sreq>>
    BY Zenon DEF Handle, clientVars
  <1>1. History /\ ServerOK /\ ClientOK
    BY Zenon DEF ExchangeInv
  <1>2. /\ Len(seen) < Len(plan.requests)
        /\ \E a, b \in Nat : ServerAt(Asked(Len(seen) + 1), a, b)
    BY <1>0, <1>1 DEF ServerOK
  <1>3. PICK m : m = Asked(Len(seen) + 1)
    BY Zenon
  <1>4. GoodMessage(m) /\ Len(seen) \in Nat /\ Len(results) \in Nat /\ Len(plan.requests) \in Nat
    BY <1>1, <1>2, <1>3, AskedNow, Zenon
  <1>5. PICK a \in Nat, b \in Nat : ServerAt(m, a, b)
    BY <1>2, <1>3, Zenon
  <1>6. /\ a = FullLen(m) /\ a <= b /\ b <= FullLen(m) /\ up = Cut(m, a, b)
        /\ sbuf = <<>> /\ sreq = RequestSoFar(m, a)
    BY <1>0, <1>5 DEF ServerAt
  <1>7. NothingUp
    <2>1. b = FullLen(m)
      BY <1>4, <1>6, Lengths
    <2>. QED
      BY <2>1, <1>4, <1>6, CutNone, Zenon DEF NothingUp
  <1>8. /\ (\E S : seen' \in Seq(S)) /\ Len(seen') = Len(seen) + 1
        /\ \A i \in 1 .. Len(seen) : seen'[i] = seen[i]
        /\ seen'[Len(seen) + 1] = sreq
    <2>1. PICK S : seen \in Seq(S)
      BY <1>1, Zenon DEF History
    <2>2. /\ seen' \in Seq(S \cup {sreq}) /\ Len(seen') = Len(seen) + 1
          /\ \A i \in 1 .. Len(seen) : seen'[i] = seen[i]
          /\ seen'[Len(seen) + 1] = sreq
      BY <2>1, <1>0, OneMore
    <2>. QED
      BY <2>2, Zenon
  <1>9. /\ answers' \in Seq(Answers) /\ Len(answers') = Len(answers) + 1
        /\ \A i \in 1 .. Len(answers) : answers'[i] = answers[i]
        /\ answers'[Len(answers) + 1] = answer /\ Len(answers) \in Nat
        /\ Len(answers) = Len(seen)
    <2>1. answers \in Seq(Answers) /\ Len(answers) = Len(seen)
      BY <1>1, Zenon DEF History
    <2>. QED
      BY <2>1, <1>0, AppendProperties
  <1>10. SeenOK'
    <2>1. Len(seen') <= Len(plan'.requests)
      BY <1>0, <1>2, <1>4, <1>8
    <2>2. ASSUME NEW i \in 1 .. Len(seen')
          PROVE  seen'[i] = RequestSoFar(Asked(i)', FullLen(Asked(i)'))
      <3>1. Asked(i)' = Asked(i)
        BY <1>0, AskedSame, Zenon
      <3>2. i \in 1 .. Len(seen) \/ i = Len(seen) + 1
        BY <1>4, <1>8
      <3>3. CASE i \in 1 .. Len(seen)
        BY <3>1, <3>3, <1>1, <1>8, Zenon DEF History, SeenOK
      <3>4. CASE i = Len(seen) + 1
        BY <3>1, <3>4, <1>3, <1>6, <1>8, Zenon
      <3>. QED
        BY <3>2, <3>3, <3>4, Zenon
    <2>. QED
      BY <2>1, <2>2, Zenon DEF SeenOK
  <1>11. ResultsOK'
    <2>. SUFFICES ASSUME NEW i \in 1 .. Len(results)
                  PROVE  \/ results[i].status \in {"error", "413", "431", "500"}
                         \/ i <= Len(answers') /\ results[i] = Result(Answer(answers'[i]))
      BY <1>0, Zenon DEF ResultsOK
    <2>1. CASE i <= Len(answers) /\ results[i] = Result(Answer(answers[i]))
      <3>1. i \in 1 .. Len(answers) /\ i <= Len(answers')
        BY <2>1, <1>4, <1>9
      <3>. QED
        BY <3>1, <2>1, <1>9, Zenon
    <2>. QED
      BY <2>1, <1>1, Zenon DEF History, ResultsOK
  <1>12. History'
    BY <1>0, <1>1, <1>8, <1>9, <1>10, <1>11, Zenon DEF History
  <1>13. GoodMessage(Answer(answer)) /\ ToWrite(Answer(answer), 0, sout') /\ sout' # <<>>
    <2>1. GoodMessage(Answer(answer)) /\ ToWrite(Answer(answer), 0, WriteResponse(answer))
      BY AnswerGood, Zenon
    <2>2. 0 \in Nat /\ 0 # FullLen(Answer(answer))
      BY <2>1, Lengths
    <2>. QED
      BY <2>1, <2>2, <1>0, WriteOn, Zenon
  <1>14. ServerOK'
    BY <1>0, <1>7, <1>13, Zenon DEF ServerOK, NothingUp
  <1>15. ClientOK'
    <2>1. CASE cpc = "closed"
      BY <2>1, <1>0, Zenon DEF ClientOK
    <2>2. CASE cpc # "closed"
      <3>1. Len(results) < Len(plan.requests) /\ Asking
        <4>1. ~Idle /\ ~Answered /\ ~Refused /\ ~Dropped
          BY <1>0 DEF Idle, Answered, Writing, Refused, Dropped
        <4>. QED
          BY <4>1, <2>2, <1>1, Zenon DEF ClientOK
      <3>2. m = Asked(NextCall) /\ Len(seen) = Len(results)
        BY <3>1, <1>3, Zenon DEF Asking, NextCall
      <3>3. PICK x \in Nat, y \in Nat : ServerAt(m, x, y) /\ ToWrite(m, y, cout)
        BY <3>1, <3>2, Zenon DEF Asking
      <3>4. y = FullLen(m)
        <4>1. x = FullLen(m) /\ x <= y /\ y <= FullLen(m)
          BY <3>3, <1>0 DEF ServerAt
        <4>. QED
          BY <4>1, <1>4, Lengths
      <3>5. cpc = "fill"
        <4>1. cout = <<>>
          BY <3>3, <3>4, <1>4, WriteOn
        <4>. QED
          BY <4>1, <3>1 DEF Asking
      <3>6. ClientAt(Answer(answer), 0, 0)
        <4>1. cpc \in {"write", "fill"} /\ NothingDown
          BY <3>1, Zenon DEF Asking
        <4>. QED
          BY <4>1, <1>13, ClientWaits, Zenon
      <3>7. ClientAt(Answer(answer), 0, 0)'
        BY <3>6, <1>0, Zenon DEF ClientAt
      <3>8. Writing(Answer(answer), 0)'
        BY <1>0, <1>13, Zenon DEF Writing
      <3>9. answers'[NextCall'] = answer /\ Len(seen') = NextCall' /\ 0 \in Nat
        BY <3>2, <1>0, <1>8, <1>9, Zenon DEF NextCall
      <3>10. Answered'
        BY <3>5, <3>7, <3>8, <3>9, <1>0, <1>7, Zenon DEF Answered, NothingUp
      <3>. QED
        BY <3>1, <3>10, <1>0, Zenon DEF ClientOK
    <2>. QED
      BY <2>1, <2>2, Zenon
  <1>. QED
    BY <1>12, <1>14, <1>15, Zenon DEF ExchangeInv

\* Writing one buffer adds the next part of the message to what is in flight.
LEMMA WriteMore ==
    ASSUME NEW m, GoodMessage(m), NEW a \in Nat, NEW b \in Nat, NEW e \in Nat,
           a <= b, b < e, e <= FullLen(m)
    PROVE  a <= e /\ Cut(m, a, b) \o Cut(m, b, e) = Cut(m, a, e)
  <1>1. FullLen(m) \in Nat
    BY Lengths, Zenon
  <1>2. a <= e /\ b <= e /\ b <= FullLen(m)
    BY <1>1
  <1>3. Span(m, a, b) /\ Span(m, b, e)
    BY <1>2, Zenon DEF Span
  <1>. QED
    BY <1>2, <1>3, CutJoin

\* write_response writes one buffer of the response.
LEMMA ServerWrites ==
    ASSUME NEW m, GoodMessage(m), NEW c \in Nat, NEW d \in Nat, ClientAt(m, c, d), Writing(m, d),
           ServerWrite
    PROVE  \E e \in Nat : Writing(m, e)' /\ ClientAt(m, c, e)'
  <1>1. /\ spc = "write" /\ down' = down \o Head(sout) /\ sout' = Tail(sout)
        /\ spc' = IF sout' # <<>> THEN "write"
                  ELSE IF sreq = NoMessage \/ ~KeepAlive(sreq) THEN "closed" ELSE "fill"
        /\ UNCHANGED <<cpc, cbuf, cbody>>
    BY Zenon DEF ServerWrite, clientVars
  <1>2. sout # <<>> /\ ToWrite(m, d, sout)
    BY <1>1 DEF Writing
  <1>3. PICK e \in Nat : d < e /\ e <= FullLen(m) /\ Head(sout) = Cut(m, d, e)
                         /\ ToWrite(m, e, Tail(sout))
    BY <1>2, WriteOn, Zenon
  <1>4. c <= d /\ down = Cut(m, c, d)
    BY Zenon DEF ClientAt
  <1>5. c <= e /\ down' = Cut(m, c, e)
    <2>1. c <= e /\ Cut(m, c, d) \o Cut(m, d, e) = Cut(m, c, e)
      BY <1>3, <1>4, WriteMore, Zenon
    <2>. QED
      BY <2>1, <1>1, <1>3, <1>4, Zenon
  <1>6. ClientAt(m, c, e)'
    BY <1>1, <1>3, <1>5, Zenon DEF ClientAt
  <1>7. Writing(m, e)'
    <2>1. CASE sout' # <<>>
      BY <2>1, <1>1, <1>3, Zenon DEF Writing
    <2>2. CASE sout' = <<>>
      <3>1. e = FullLen(m)
        BY <2>2, <1>1, <1>3, WriteOn, Zenon
      <3>2. spc' = "fill" \/ spc' = "closed"
        BY <2>2, <1>1, Zenon
      <3>. QED
        BY <3>1, <3>2, Zenon DEF Writing
    <2>. QED
      BY <2>1, <2>2, Zenon
  <1>. QED
    BY <1>6, <1>7, Zenon

\* The step of the server that writes keeps the invariant.
LEMMA ServerWriteStep ==
    ASSUME ExchangeInv, ServerWrite
    PROVE  ExchangeInv'
  <1>0. /\ spc = "write" /\ down' = down \o Head(sout) /\ sout' = Tail(sout)
        /\ spc' = IF sout' # <<>> THEN "write"
                  ELSE IF sreq = NoMessage \/ ~KeepAlive(sreq) THEN "closed" ELSE "fill"
        /\ UNCHANGED <<plan, cpc, cout, cbuf, cbody, results, up, sbuf, sreq, seen, answers>>
    BY Zenon DEF ServerWrite, clientVars
  <1>1. History' /\ History /\ ServerOK /\ ClientOK
    BY <1>0, HistorySame, Zenon DEF ExchangeInv
  <1>2. ServerOK'
    <2>1. sout # <<>> /\ (sreq = NoMessage \/ NothingUp)
      BY <1>0, <1>1 DEF ServerOK, ServerAt
    <2>2. CASE sout' # <<>>
      BY <2>1, <2>2, <1>0, Zenon DEF ServerOK, NothingUp
    <2>3. CASE sout' = <<>>
      BY <2>1, <2>3, <1>0, Zenon DEF ServerOK, NothingUp
    <2>. QED
      BY <2>2, <2>3, Zenon
  <1>3. ClientOK'
    <2>1. CASE cpc = "closed"
      BY <2>1, <1>0, Zenon DEF ClientOK
    <2>2. CASE cpc # "closed"
      <3>1. Len(results) < Len(plan.requests) /\ (Answered \/ Refused)
        <4>1. ~Idle /\ ~Dropped
          BY <1>0 DEF Idle, Dropped
        <4>2. ~Asking
          BY <1>0 DEF Asking, ServerAt
        <4>. QED
          BY <4>1, <4>2, <2>2, <1>1, Zenon DEF ClientOK
      <3>2. CASE Answered
        <4>1. NextCall \in 1 .. Len(answers) /\ answers \in Seq(Answers)
          <5>1. Len(seen) = NextCall /\ Len(answers) = Len(seen) /\ answers \in Seq(Answers)
            BY <3>2, <1>1, Zenon DEF Answered, History
          <5>2. Len(results) \in Nat
            BY <1>1, AskedNow, Zenon
          <5>. QED
            BY <5>1, <5>2 DEF NextCall
        <4>2. PICK m : m = Answer(answers[NextCall])
          BY Zenon
        <4>3. GoodMessage(m)
          <5>1. answers[NextCall] \in Answers
            BY <4>1, ElementOfSeq, Zenon
          <5>. QED
            BY <5>1, <4>2, AnswerGood, Zenon
        <4>4. PICK c \in Nat, d \in Nat : Writing(m, d) /\ ClientAt(m, c, d)
          BY <3>2, <4>2, Zenon DEF Answered
        <4>5. \E e \in Nat : Writing(m, e)' /\ ClientAt(m, c, e)'
          BY <4>3, <4>4, ServerWrites, Zenon
        <4>6. m = Answer(answers[NextCall])'
          BY <4>2, <1>0, Zenon DEF NextCall
        <4>7. Answered'
          BY <4>5, <4>6, <3>2, <1>0, Zenon DEF Answered, NothingUp, NextCall
        <4>. QED
          BY <4>7, <3>1, <1>0, Zenon DEF ClientOK
      <3>3. CASE Refused
        <4>1. PICK status \in {"413", "431", "500"} : \E c, d \in Nat :
                 /\ Writing(Answer(ErrorResponse(status)), d)
                 /\ ClientAt(Answer(ErrorResponse(status)), c, d)
          BY <3>3, Zenon DEF Refused
        <4>2. PICK m : m = Answer(ErrorResponse(status))
          BY Zenon
        <4>3. PICK c \in Nat, d \in Nat : Writing(m, d) /\ ClientAt(m, c, d)
          BY <4>1, <4>2, Zenon
        <4>4. GoodMessage(m)
          BY <4>2, ErrorGood, Zenon
        <4>5. \E e \in Nat : Writing(m, e)' /\ ClientAt(m, c, e)'
          BY <4>3, <4>4, ServerWrites, Zenon
        <4>6. sreq = NoMessage /\ cpc \in {"write", "fill", "body"}
          BY <3>3, <1>0 DEF Refused
        <4>7. spc' = "closed" \/ (spc' = "write" /\ sreq' = NoMessage)
          BY <4>6, <1>0, Zenon
        <4>8. Refused'
          BY <4>2, <4>5, <4>6, <4>7, <1>0, Zenon DEF Refused
        <4>. QED
          BY <4>8, <3>1, <1>0, Zenon DEF ClientOK
      <3>. QED
        BY <3>1, <3>2, <3>3, Zenon
    <2>. QED
      BY <2>1, <2>2, Zenon
  <1>. QED
    BY <1>1, <1>2, <1>3, Zenon DEF ExchangeInv

\* A call fails.
LEMMA FailStep ==
    ASSUME ExchangeInv, cpc # "closed", Return(Failure), UNCHANGED <<plan, up, serverVars>>
    PROVE  ExchangeInv'
  <1>0. UNCHANGED <<plan, up, spc, sout, sbuf, sreq, seen, answers>>
    BY Zenon DEF serverVars
  <1>1. History /\ ServerOK /\ Len(results) < Len(plan.requests)
    BY Zenon DEF ExchangeInv, ClientOK
  <1>2. Failure.status = "error"
    BY DEF Failure
  <1>3. History' /\ cpc' = "closed"
    <2>1. Failure.status \in {"error", "413", "431", "500"}
      BY <1>2
    <2>. QED
      BY <2>1, <1>0, <1>1, <1>2, Returns, Zenon
  <1>4. ServerOK'
    BY <1>0, <1>1, ServerSame, Zenon
  <1>. QED
    BY <1>3, <1>4, Zenon DEF ExchangeInv, ClientOK

\* The client connects, or fails to.
LEMMA ConnectStep ==
    ASSUME ExchangeInv, Connect
    PROVE  ExchangeInv'
  <1>0. cpc = "connect" /\ cpc # "closed" /\ UNCHANGED <<plan, up, down, serverVars>>
    BY DEF Connect
  <1>1. CASE cpc' = "build" /\ UNCHANGED <<cout, cbuf, cbody, results>>
    <2>1. UNCHANGED <<plan, up, down, spc, sout, sbuf, sreq, seen, answers, cbuf, results>>
      BY <1>0, <1>1, Zenon DEF serverVars
    <2>2. History' /\ ServerOK'
      BY <2>1, HistorySame, ServerSame, Zenon DEF ExchangeInv
    <2>3. Idle /\ Len(results) < Len(plan.requests)
      <3>1. ~Asking /\ ~Answered /\ ~Refused /\ ~Dropped
        BY <1>0 DEF Asking, Answered, Refused, Dropped
      <3>. QED
        BY <3>1, <1>0, Zenon DEF ExchangeInv, ClientOK
    <2>4. Idle'
      BY <2>1, <2>3, <1>1, Zenon DEF Idle, NothingUp, NothingDown
    <2>. QED
      BY <2>1, <2>2, <2>3, <2>4, Zenon DEF ExchangeInv, ClientOK
  <1>2. CASE Return(Failure)
    BY <1>0, <1>2, FailStep, Zenon
  <1>. QED
    BY <1>1, <1>2, Zenon DEF Connect

\* A read or an allocation of the client fails.
LEMMA ClientFailsStep ==
    ASSUME ExchangeInv, ClientFails
    PROVE  ExchangeInv'
  <1>1. cpc # "closed" /\ Return(Failure) /\ UNCHANGED <<plan, up, serverVars>>
    BY DEF ClientFails
  <1>. QED
    BY <1>1, FailStep, Zenon

\* A request is built.
LEMMA SendOnStep ==
    ASSUME ExchangeInv, SendOn
    PROVE  ExchangeInv'
  <1>. DEFINE r == Built(plan.requests[Len(results) + 1])
  <1>0. cpc = "build" /\ cpc # "closed" /\ UNCHANGED <<plan, up, down, serverVars>>
    BY DEF SendOn
  <1>1. CASE cout' = WriteRequest(r, HostFor(r)) /\ cpc' = "write"
             /\ UNCHANGED <<cbuf, cbody, results>>
    <2>1. UNCHANGED <<plan, up, down, spc, sout, sbuf, sreq, seen, answers, cbuf, results>>
      BY <1>0, <1>1, Zenon DEF serverVars
    <2>2. History' /\ ServerOK' /\ History
      BY <2>1, HistorySame, ServerSame, Zenon DEF ExchangeInv
    <2>3. Idle /\ Len(results) < Len(plan.requests)
      <3>1. ~Asking /\ ~Answered /\ ~Refused /\ ~Dropped
        BY <1>0 DEF Asking, Answered, Refused, Dropped
      <3>. QED
        BY <3>1, <1>0, Zenon DEF ExchangeInv, ClientOK
    <2>4. cpc' \in {"write", "fill"} /\ NothingDown'
      BY <2>1, <2>3, <1>1 DEF Idle, NothingDown
    <2>5. CASE spc = "closed"
      <3>1. Dropped'
        BY <2>1, <2>4, <2>5, Zenon DEF Dropped
      <3>. QED
        BY <3>1, <2>1, <2>2, <2>3, Zenon DEF ExchangeInv, ClientOK
    <2>6. CASE spc # "closed"
      <3>1. spc \in {"start", "accept", "fill"} /\ Len(seen) = Len(results) /\ NothingUp
        BY <2>3, <2>6, Zenon DEF Idle
      <3>2. PICK m : m = Asked(NextCall)
        BY Zenon
      <3>3. GoodMessage(m) /\ NextCall \in 1 .. Len(plan.requests)
        BY <2>2, <2>3, <3>2, AskedNow, Zenon
      <3>4. ToWrite(m, 0, cout')
        <4>1. plan \in Plans
          BY <2>2, Zenon DEF History
        <4>2. ToWrite(Asked(NextCall), 0, WriteRequest(Built(plan.requests[NextCall]),
                                                 HostFor(Built(plan.requests[NextCall]))))
          BY <3>3, <4>1, AskedGood, Zenon
        <4>. QED
          BY <4>2, <3>2, <1>1, Zenon DEF NextCall
      <3>5. cout' # <<>>
        <4>1. 0 \in Nat /\ 0 # FullLen(m)
          BY <3>3, Lengths
        <4>. QED
          BY <4>1, <3>3, <3>4, WriteOn, Zenon
      <3>6. ServerAt(m, 0, 0)'
        <4>1. Cut(m, 0, 0) = <<>> /\ 0 < HeadLen(m) /\ 0 <= FullLen(m)
          BY <3>3, CutNone, Zenon
        <4>2. 0 <= 0
          OBVIOUS
        <4>. QED
          BY <4>1, <4>2, <3>1, <2>1, Zenon DEF ServerAt, NothingUp
      <3>7. m = Asked(NextCall)' /\ 0 \in Nat
        BY <3>2, <2>1, AskedSame DEF NextCall
      <3>8. Asking'
        BY <3>1, <3>4, <3>5, <3>6, <3>7, <2>1, <2>4, <1>1, Zenon DEF Asking
      <3>. QED
        BY <3>8, <2>1, <2>2, <2>3, Zenon DEF ExchangeInv, ClientOK
    <2>. QED
      BY <2>5, <2>6, Zenon
  <1>2. CASE Return(Failure)
    BY <1>0, <1>2, FailStep, Zenon
  <1>. QED
    BY <1>1, <1>2, Zenon DEF SendOn

\* write_request writes one buffer of the request.
LEMMA ClientWriteStep ==
    ASSUME ExchangeInv, ClientWrite
    PROVE  ExchangeInv'
  <1>0. cpc = "write" /\ cpc # "closed" /\ UNCHANGED <<plan, down, serverVars>>
    BY DEF ClientWrite
  <1>1. CASE /\ up' = up \o Head(cout) /\ cout' = Tail(cout)
             /\ cpc' = IF cout' = <<>> THEN "fill" ELSE "write"
             /\ UNCHANGED <<cbuf, cbody, results>>
    <2>1. UNCHANGED <<plan, down, spc, sout, sbuf, sreq, seen, answers, cbuf, cbody, results>>
      BY <1>0, <1>1, Zenon DEF serverVars
    <2>2. History' /\ History /\ ServerOK
      BY <2>1, HistorySame, Zenon DEF ExchangeInv
    <2>3. Len(results) < Len(plan.requests) /\ (Asking \/ Refused \/ Dropped)
      <3>1. ~Idle /\ ~Answered
        BY <1>0 DEF Idle, Answered
      <3>. QED
        BY <3>1, <1>0, Zenon DEF ExchangeInv, ClientOK
    <2>4. cpc' \in {"write", "fill"}
      BY <1>1
    <2>5. CASE Asking
      <3>1. PICK m : m = Asked(NextCall)
        BY Zenon
      <3>2. GoodMessage(m)
        BY <3>1, <2>2, <2>3, AskedNow, Zenon
      <3>3. PICK a \in Nat, b \in Nat : ServerAt(m, a, b) /\ ToWrite(m, b, cout)
        BY <3>1, <2>5, Zenon DEF Asking
      <3>4. cout # <<>> /\ Len(seen) = Len(results) /\ NothingDown
        BY <2>5, <1>0, Zenon DEF Asking
      <3>5. PICK e \in Nat : b < e /\ e <= FullLen(m) /\ Head(cout) = Cut(m, b, e)
                             /\ ToWrite(m, e, Tail(cout))
        BY <3>2, <3>3, <3>4, WriteOn, Zenon
      <3>6. a <= b /\ up = Cut(m, a, b)
        BY <3>3, Zenon DEF ServerAt
      <3>7. a <= e /\ up' = Cut(m, a, e)
        <4>1. a <= e /\ Cut(m, a, b) \o Cut(m, b, e) = Cut(m, a, e)
          BY <3>2, <3>5, <3>6, WriteMore, Zenon
        <4>. QED
          BY <4>1, <3>5, <3>6, <1>1, Zenon
      <3>8. ServerAt(m, a, e)'
        BY <3>3, <3>5, <3>7, <2>1, Zenon DEF ServerAt
      <3>9. m = Asked(NextCall)' /\ ToWrite(m, e, cout')
        BY <3>1, <3>5, <1>1, <2>1, AskedSame, Zenon DEF NextCall
      <3>10. cpc' = "write" <=> cout' # <<>>
        BY <1>1
      <3>11. Asking'
        BY <3>4, <3>8, <3>9, <3>10, <2>1, <2>4, Zenon DEF Asking, NothingDown
      <3>12. ServerOK'
        <4>1. Asked(Len(seen) + 1)' = m
          BY <3>1, <3>4, <2>1, AskedSame, Zenon DEF NextCall
        <4>2. Len(seen') < Len(plan'.requests)
          BY <3>4, <2>1, <2>3, Zenon
        <4>. QED
          BY <4>1, <4>2, <3>8, Zenon DEF ServerOK
      <3>. QED
        BY <3>11, <3>12, <2>1, <2>2, <2>3, Zenon DEF ExchangeInv, ClientOK
    <2>6. CASE Dropped
      <3>1. Dropped' /\ ServerOK'
        BY <2>1, <2>4, <2>6, Zenon DEF Dropped, ServerOK, NothingDown
      <3>. QED
        BY <3>1, <2>1, <2>2, <2>3, Zenon DEF ExchangeInv, ClientOK
    <2>7. CASE Refused
      <3>1. PICK status \in {"413", "431", "500"} : \E c, d \in Nat :
               /\ Writing(Answer(ErrorResponse(status)), d)
               /\ ClientAt(Answer(ErrorResponse(status)), c, d)
        BY <2>7, Zenon DEF Refused
      <3>2. PICK m : m = Answer(ErrorResponse(status))
        BY Zenon
      <3>3. PICK c \in Nat, d \in Nat : Writing(m, d) /\ ClientAt(m, c, d)
        BY <3>1, <3>2, Zenon
      <3>4. GoodMessage(m)
        BY <3>2, ErrorGood, Zenon
      <3>5. c = 0 /\ cbuf = <<>> /\ c <= d /\ d <= FullLen(m) /\ down = Cut(m, c, d)
        BY <3>3, <1>0 DEF ClientAt
      <3>6. Cut(m, 0, 0) = <<>> /\ 0 < HeadLen(m)
        BY <3>4, CutNone, Zenon
      <3>7. ClientAt(m, c, d)'
        <4>1. cpc' = "write" \/ cpc' = "fill"
          BY <2>4
        <4>. QED
          BY <4>1, <3>5, <3>6, <2>1, Zenon DEF ClientAt
      <3>8. Writing(m, d)'
        BY <3>3, <2>1, Zenon DEF Writing
      <3>9. cpc' \in {"write", "fill", "body"}
        BY <2>4
      <3>10. Refused'
        BY <3>2, <3>7, <3>8, <3>9, <2>1, <2>7, Zenon DEF Refused
      <3>11. ServerOK'
        <4>1. spc = "closed" \/ (spc = "write" /\ sreq = NoMessage)
          BY <2>7, Zenon DEF Refused
        <4>2. spc = "write" => sout # <<>>
          BY <3>3 DEF Writing
        <4>. QED
          BY <4>1, <4>2, <2>1, Zenon DEF ServerOK
      <3>. QED
        BY <3>10, <3>11, <2>1, <2>2, <2>3, Zenon DEF ExchangeInv, ClientOK
    <2>. QED
      BY <2>3, <2>5, <2>6, <2>7, Zenon
  <1>2. CASE Return(Failure) /\ UNCHANGED up
    BY <1>0, <1>2, FailStep, Zenon
  <1>. QED
    BY <1>1, <1>2, Zenon DEF ClientWrite

\* When all of a response has been read all of it has been written.
LEMMA AllWritten ==
    ASSUME NEW m, GoodMessage(m), NEW d \in Nat, Writing(m, d), d = FullLen(m)
    PROVE  spc \in {"fill", "closed"}
  <1>1. CASE spc = "write" /\ sout # <<>> /\ ToWrite(m, d, sout)
    <2>1. sout = <<>> <=> d = FullLen(m)
      BY <1>1, WriteOn, SMTT(15)
    <2>. QED
      BY <2>1, <1>1
  <1>. QED
    BY <1>1, Zenon DEF Writing

\* The client reads: parse_response and read_body.
LEMMA ClientReadStep ==
    ASSUME ExchangeInv, NEW n, ParseResponse(n) \/ ReadResponseBody(n)
    PROVE  ExchangeInv'
  <1>0. cpc \in {"fill", "body"} /\ UNCHANGED <<plan, up, serverVars>>
    BY DEF ParseResponse, ReadResponseBody
  <1>1. UNCHANGED <<plan, up, spc, sout, sbuf, sreq, seen, answers>>
    BY <1>0, Zenon DEF serverVars
  <1>2. History /\ ServerOK /\ ClientOK /\ cpc # "closed"
    BY <1>0 DEF ExchangeInv
  <1>3. ServerOK'
    BY <1>1, <1>2, ServerSame, Zenon
  <1>4. ASSUME cpc = "fill", NothingDown PROVE FALSE
    <2>1. n \in 1 .. Min({MaxHead - Len(cbuf), Len(down)})
      BY <1>4 DEF ParseResponse, ReadResponseBody
    <2>2. MaxHead \in Nat
      BY ExchangeAssumption, Zenon
    <2>3. MaxHead - Len(cbuf) \in Int /\ Len(down) = 0 /\ 0 \in Int
      BY <2>2, <1>4 DEF NothingDown
    <2>4. n \in 1 .. 0
      BY <2>1, <2>3, ReadSize, Zenon
    <2>. QED
      BY <2>4
  <1>5. Len(results) < Len(plan.requests) /\ (Answered \/ Refused)
    <2>1. ~Idle
      BY <1>0 DEF Idle
    <2>2. ~Asking /\ ~Dropped
      BY <1>0, <1>4 DEF Asking, Dropped
    <2>. QED
      BY <2>1, <2>2, <1>2, Zenon DEF ClientOK
  <1>6. ASSUME NEW m, GoodMessage(m), NEW c \in Nat, NEW d \in Nat, ClientAt(m, c, d)
        PROVE  ClientReads(m, d)
    BY <1>6, ParseResponseReads, ReadResponseBodyReads, Zenon
  <1>7. CASE Return(Failure)
    BY <1>0, <1>2, <1>7, FailStep, Zenon
  <1>8. CASE Answered
    <2>1. NextCall \in 1 .. Len(answers) /\ answers \in Seq(Answers) /\ NextCall <= Len(answers)
      <3>1. Len(seen) = NextCall /\ Len(answers) = Len(seen) /\ answers \in Seq(Answers)
        BY <1>8, <1>2, Zenon DEF Answered, History
      <3>2. Len(results) \in Nat
        BY <1>2, AskedNow, Zenon
      <3>. QED
        BY <3>1, <3>2 DEF NextCall
    <2>2. PICK m : m = Answer(answers[NextCall])
      BY Zenon
    <2>3. GoodMessage(m)
      <3>1. answers[NextCall] \in Answers
        BY <2>1, ElementOfSeq, Zenon
      <3>. QED
        BY <3>1, <2>2, AnswerGood, Zenon
    <2>4. PICK c \in Nat, d \in Nat : Writing(m, d) /\ ClientAt(m, c, d)
      BY <1>8, <2>2, Zenon DEF Answered
    <2>5. CASE cpc' \in {"fill", "body"} /\ UNCHANGED results /\ \E e \in Nat : ClientAt(m, e, d)'
      <3>1. History' /\ Writing(m, d)' /\ m = Answer(answers[NextCall])'
        BY <2>2, <2>4, <2>5, <1>1, <1>2, HistorySame, Zenon DEF Writing, NextCall
      <3>2. Answered'
        BY <3>1, <2>5, <1>1, <1>8, Zenon DEF Answered, NothingUp, NextCall
      <3>. QED
        BY <3>1, <3>2, <2>5, <1>1, <1>3, <1>5, Zenon DEF ExchangeInv, ClientOK
    <2>6. CASE Return(Result(m)) /\ d = FullLen(m) /\ down' = <<>>
      <3>1. /\ History' /\ Len(results') = NextCall /\ cbuf' = <<>>
            /\ cpc' = "closed" \/ (cpc' = "build" /\ Len(results') < Len(plan'.requests))
        <4>1. UNCHANGED <<plan, seen, answers>>
          BY <1>1, Zenon
        <4>. QED
          BY <4>1, <2>1, <2>2, <2>6, <1>2, <1>5, Returns, Zenon
      <3>2. CASE cpc' = "closed"
        BY <3>1, <3>2, <1>3, Zenon DEF ExchangeInv, ClientOK
      <3>3. CASE cpc' = "build" /\ Len(results') < Len(plan'.requests)
        <4>1. spc \in {"fill", "closed"}
          BY <2>3, <2>4, <2>6, AllWritten, Zenon
        <4>2. spc' = "closed" \/ spc' \in {"start", "accept", "fill"}
          BY <4>1, <1>1
        <4>3. Len(seen') = Len(results') /\ NothingUp'
          BY <3>1, <1>1, <1>8, Zenon DEF Answered, NothingUp
        <4>4. Idle'
          BY <4>2, <4>3, <3>1, <3>3, <2>6, Zenon DEF Idle, NothingDown
        <4>. QED
          BY <4>4, <3>1, <3>3, <1>3, Zenon DEF ExchangeInv, ClientOK
      <3>. QED
        BY <3>1, <3>2, <3>3, Zenon
    <2>. QED
      BY <2>3, <2>4, <2>5, <2>6, <1>6, <1>7, Zenon DEF ClientReads
  <1>9. CASE Refused
    <2>1. PICK status \in {"413", "431", "500"} : \E c, d \in Nat :
             /\ Writing(Answer(ErrorResponse(status)), d)
             /\ ClientAt(Answer(ErrorResponse(status)), c, d)
      BY <1>9, Zenon DEF Refused
    <2>2. PICK m : m = Answer(ErrorResponse(status))
      BY Zenon
    <2>3. PICK c \in Nat, d \in Nat : Writing(m, d) /\ ClientAt(m, c, d)
      BY <2>1, <2>2, Zenon
    <2>4. GoodMessage(m) /\ m.line.status = status
      BY <2>2, ErrorGood, Zenon
    <2>5. CASE cpc' \in {"fill", "body"} /\ UNCHANGED results /\ \E e \in Nat : ClientAt(m, e, d)'
      <3>1. History' /\ Writing(m, d)'
        BY <2>3, <2>5, <1>1, <1>2, HistorySame, Zenon DEF Writing
      <3>2. cpc' \in {"write", "fill", "body"}
        BY <2>5
      <3>3. Refused'
        BY <3>1, <3>2, <2>2, <2>5, <1>1, <1>9, Zenon DEF Refused
      <3>. QED
        BY <3>1, <3>3, <2>5, <1>1, <1>3, <1>5, Zenon DEF ExchangeInv, ClientOK
    <2>6. CASE Return(Result(m)) /\ d = FullLen(m) /\ down' = <<>>
      <3>0. Result(m).status \in {"error", "413", "431", "500"}
        <4>1. Result(m).status = m.line.status
          BY DEF Result
        <4>. QED
          BY <4>1, <2>4
      <3>1. /\ History' /\ cbuf' = <<>>
            /\ cpc' = "closed" \/ (cpc' = "build" /\ Len(results') < Len(plan'.requests))
        <4>1. UNCHANGED <<plan, seen, answers>>
          BY <1>1, Zenon
        <4>. QED
          BY <4>1, <3>0, <2>6, <1>2, <1>5, Returns, Zenon
      <3>2. CASE cpc' = "closed"
        BY <3>1, <3>2, <1>3, Zenon DEF ExchangeInv, ClientOK
      <3>3. CASE cpc' = "build" /\ Len(results') < Len(plan'.requests)
        <4>1. spc \in {"fill", "closed"}
          BY <2>3, <2>4, <2>6, AllWritten, Zenon
        <4>2. spc' = "closed"
          BY <4>1, <1>1, <1>9 DEF Refused
        <4>3. Idle'
          BY <4>2, <3>1, <3>3, <2>6, Zenon DEF Idle, NothingDown
        <4>. QED
          BY <4>3, <3>1, <3>3, <1>3, Zenon DEF ExchangeInv, ClientOK
      <3>. QED
        BY <3>1, <3>2, <3>3, Zenon
    <2>. QED
      BY <2>3, <2>4, <2>5, <2>6, <1>6, <1>7, Zenon DEF ClientReads
  <1>. QED
    BY <1>5, <1>8, <1>9, Zenon

-----------------------------------------------------------------------------
\* No call has been made.
LEMMA InitExchange == Init => ExchangeInv
  <1>. SUFFICES ASSUME Init PROVE ExchangeInv
    OBVIOUS
  <1>1. /\ plan \in Plans /\ cpc = "connect" /\ cbuf = <<>> /\ results = <<>> /\ up = <<>>
        /\ down = <<>> /\ spc = "start" /\ sbuf = <<>> /\ seen = <<>> /\ answers = <<>>
    BY Zenon DEF Init
  <1>2. <<>> \in Seq(Answers) /\ Len(<<>>) = 0 /\ \A i \in 1 .. 0 : FALSE
    OBVIOUS
  <1>3. Len(plan.requests) \in Nat \ {0}
    BY <1>1, Plan, Zenon
  <1>4. 0 <= Len(plan.requests) /\ 0 < Len(plan.requests)
    BY <1>3
  <1>5. History
    BY <1>1, <1>2, <1>4, Zenon DEF History, SeenOK, ResultsOK
  <1>6. spc \in {"start", "accept", "fill"} /\ cpc \in {"connect", "build"}
    BY <1>1
  <1>7. NothingUp /\ NothingDown
    BY <1>1, Zenon DEF NothingUp, NothingDown
  <1>8. Idle
    BY <1>1, <1>6, <1>7, Zenon DEF Idle
  <1>. QED
    BY <1>1, <1>2, <1>4, <1>5, <1>6, <1>7, <1>8, Zenon DEF ExchangeInv, ServerOK, ClientOK

\* Every step of the client and of the server keeps the invariant.
LEMMA NextExchange == ExchangeInv /\ [Next]_vars => ExchangeInv'
  <1>. SUFFICES ASSUME ExchangeInv, [Next]_vars PROVE ExchangeInv'
    OBVIOUS
  <1>1. CASE ClientStep
    BY <1>1, ConnectStep, SendOnStep, ClientWriteStep, ClientFailsStep, ClientReadStep, Zenon
       DEF ClientStep
  <1>2. CASE ServerStep
    BY <1>2, StartStep, ServerWriteStep, ServerFailsStep, HandleStep, ServerReadStep, Zenon
       DEF ServerStep
  <1>3. CASE UNCHANGED vars
    <2>1. UNCHANGED <<plan, cpc, cout, cbuf, cbody, results, up, down, spc, sout, sbuf, sreq, seen,
                      answers>>
      BY <1>3, Zenon DEF vars, clientVars, serverVars
    <2>2. History' /\ ServerOK'
      BY <2>1, HistorySame, ServerSame, Zenon DEF ExchangeInv
    <2>3. \A k : Asked(k)' = Asked(k)
      BY <2>1, AskedSame, Zenon
    <2>4. (Idle => Idle') /\ (Dropped => Dropped')
      BY <2>1, Zenon DEF Idle, Dropped, NothingUp, NothingDown
    <2>5. Asking => Asking'
      BY <2>1, <2>3, Zenon DEF Asking, ServerAt, NothingDown, NextCall
    <2>6. \A m, d : Writing(m, d) => Writing(m, d)'
      BY <2>1, Zenon DEF Writing
    <2>7. \A m, c, d : ClientAt(m, c, d) => ClientAt(m, c, d)'
      BY <2>1, Zenon DEF ClientAt
    <2>8. Answered => Answered'
      BY <2>1, <2>6, <2>7, Zenon DEF Answered, NothingUp, NextCall
    <2>9. Refused => Refused'
      BY <2>1, <2>6, <2>7, Zenon DEF Refused
    <2>. QED
      BY <2>1, <2>2, <2>4, <2>5, <2>8, <2>9, Zenon DEF ExchangeInv, ClientOK
  <1>. QED
    BY <1>1, <1>2, <1>3, Zenon DEF Next

\* What the invariant says of the rounds that are over.
LEMMA ExactFromInv == ExchangeInv => ExchangeExact
  <1>. SUFFICES ASSUME ExchangeInv PROVE ExchangeExact
    OBVIOUS
  <1>1. /\ plan \in Plans /\ answers \in Seq(Answers) /\ Len(answers) = Len(seen)
        /\ SeenOK /\ ResultsOK
    BY Zenon DEF ExchangeInv, History
  <1>2. DOMAIN seen = 1 .. Len(seen) /\ Len(seen) \in Nat
    BY DEF ExchangeInv, History
  <1>3. DOMAIN results = 1 .. Len(results) /\ Len(results) \in Nat
    BY DEF ExchangeInv, History
  <1>4. ASSUME NEW i \in 1 .. Len(seen)
        PROVE  LET sent == Built(plan.requests[i]) IN
               /\ seen[i].method = sent.method /\ seen[i].path = sent.path
               /\ seen[i].version = sent.version
               /\ seen[i].body = Bytes(sent.body)
               /\ EndWith(seen[i].headers, sent.headers)
               /\ plan.fresh => Get(seen[i].headers, "Host") = <<FormatHost(plan.addr)>>
    <2>. DEFINE sent == Built(plan.requests[i])
    <2>1. Len(plan.requests) \in Nat \ {0} /\ Len(seen) <= Len(plan.requests)
      BY <1>1, Plan, Zenon DEF SeenOK
    <2>2. i \in 1 .. Len(plan.requests)
      BY <1>2, <2>1
    <2>3. PICK m : m = Asked(i)
      BY Zenon
    <2>4. /\ GoodMessage(m) /\ m.line.method = sent.method /\ m.line.path = sent.path
          /\ m.line.version = sent.version /\ m.body = Bytes(sent.body)
          /\ EndWith(m.headers, sent.headers)
          /\ Get(m.headers, "Host") = <<HostFor(sent)>>
      BY <1>1, <2>2, <2>3, AskedGood, Zenon
    <2>5. Cut(m, HeadLen(m), FullLen(m)) = m.body
      BY <2>4, Lengths, Zenon
    <2>6. seen[i] = RequestSoFar(m, FullLen(m))
      BY <1>1, <2>3, Zenon DEF SeenOK
    <2>7. /\ seen[i].method = m.line.method /\ seen[i].path = m.line.path
          /\ seen[i].version = m.line.version /\ seen[i].headers = m.headers
          /\ seen[i].body = Cut(m, HeadLen(m), FullLen(m))
      BY <2>6 DEF RequestSoFar
    <2>8. plan.fresh => HostFor(sent) = FormatHost(plan.addr)
      BY DEF HostFor
    <2>. HIDE DEF sent
    <2>9. /\ seen[i].method = sent.method /\ seen[i].path = sent.path
          /\ seen[i].version = sent.version /\ seen[i].body = Bytes(sent.body)
      BY <2>4, <2>5, <2>7, Zenon
    <2>10. EndWith(seen[i].headers, sent.headers)
      BY <2>4, <2>7, Zenon
    <2>11. plan.fresh => Get(seen[i].headers, "Host") = <<FormatHost(plan.addr)>>
      BY <2>4, <2>7, <2>8, Zenon
    <2>. QED
      BY <2>9, <2>10, <2>11, Zenon DEF sent
  <1>5. ASSUME NEW i \in 1 .. Len(results), results[i].status \notin {"error", "413", "431", "500"}
        PROVE  /\ i <= Len(answers)
               /\ results[i].status = answers[i].status
               /\ results[i].body = Bytes(answers[i].body)
               /\ EndWith(results[i].headers, answers[i].headers)
    <2>1. i <= Len(answers) /\ results[i] = Result(Answer(answers[i]))
      BY <1>1, <1>5, Zenon DEF ResultsOK
    <2>2. i \in 1 .. Len(answers)
      BY <1>1, <1>2, <1>3, <2>1
    <2>3. answers[i] \in Answers
      BY <1>1, <2>2, ElementOfSeq, Zenon
    <2>4. PICK m : m = Answer(answers[i])
      BY Zenon
    <2>5. /\ m.line.status = answers[i].status /\ m.body = Bytes(answers[i].body)
          /\ EndWith(m.headers, answers[i].headers)
      BY <2>3, <2>4, AnswerGood, Zenon
    <2>6. /\ results[i].status = m.line.status /\ results[i].headers = m.headers
          /\ results[i].body = m.body
      BY <2>1, <2>4 DEF Result
    <2>. QED
      BY <2>1, <2>5, <2>6, Zenon
  <1>. QED
    BY <1>2, <1>3, <1>4, <1>5, Zenon DEF ExchangeExact

\* The handler sees the requests that were sent, in the order of the calls, and
\* a call that does not fail returns the response the handler made for it or a
\* refusal of the server: HttpClient::send, write_request, parse_request,
\* read_body, write_response and parse_response, wherever a read or a write
\* cuts a message and whenever either end fails, and with every number that
\* Content-Length can hold formatted and parsed.
THEOREM ExchangeCorrect == Spec => []ExchangeExact
  <1>1. Init => ExchangeInv
    BY InitExchange
  <1>2. ExchangeInv /\ [Next]_vars => ExchangeInv'
    BY NextExchange
  <1>3. ExchangeInv => ExchangeExact
    BY ExactFromInv
  <1>. QED
    BY <1>1, <1>2, <1>3, PTL DEF Spec
=============================================================================
