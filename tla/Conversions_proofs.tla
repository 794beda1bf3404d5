------------------------- MODULE Conversions_proofs -------------------------
(***************************************************************************)
(* Proofs about the built-in conversions, for every width of the integers, *)
(* of the mantissa and of char: that the loops of significant_bit_count    *)
(* count what they say, that the judgement of the quality checks is that   *)
(* of the evaluations, that a chain of accepted conversions loses nothing, *)
(* and that a projection shows what was embedded.                          *)
(***************************************************************************)
EXTENDS Conversions, WellFoundedInduction, TLAPS

\* A set of numbers has a least one.
LEMMA LeastNumber ==
    ASSUME NEW S \in SUBSET Nat, S # {}
    PROVE  \E x \in S : \A y \in S : x <= y
  <1> DEFINE R == OpToRel(<, Nat)
  <1>1. IsWellFoundedOn(R, Nat)
    BY NatLessThanWellFounded
  <1>2. \A x, y \in Nat : y < x => <<y, x>> \in R
    BY DEF OpToRel
  <1>3. PICK x \in S : \A y \in S : ~ (<<y, x>> \in R)
    <2>1. S \subseteq Nat /\ S # {}
      OBVIOUS
    <2> HIDE DEF R
    <2>. QED
      BY <1>1, <2>1, WFMin
  <1> HIDE DEF R
  <1>4. ASSUME NEW y \in S PROVE x <= y
    <2>1. x \in Nat /\ y \in Nat /\ ~ (<<y, x>> \in R)
      BY <1>3
    <2>2. ~ (y < x)
      BY <1>2, <2>1
    <2>. QED
      BY <2>1, <2>2
  <1>. QED
    BY <1>4

-----------------------------------------------------------------------------
\* Powers of two.

\* The first m doublings of 1.
Doublings(m) ==
    {g \in [0 .. m -> Nat] : g[0] = 1 /\ \A n \in 1 .. m : g[n] = 2 * g[n - 1]}

\* 1 can be doubled as often as one likes.
LEMMA DoublingsExist ==
    \A m \in Nat : Doublings(m) # {}
  <1> DEFINE S == {m \in Nat : Doublings(m) = {}}
  <1>1. SUFFICES ASSUME S # {} PROVE FALSE
    OBVIOUS
  <1>2. PICK m \in S : \A k \in S : m <= k
    <2>1. S \in SUBSET Nat /\ S # {}
      BY <1>1
    <2> HIDE DEF S
    <2>. QED
      BY <2>1, LeastNumber
  <1>3. m \in Nat /\ Doublings(m) = {}
    OBVIOUS
  <1>4. CASE m = 0
    <2>1. [n \in 0 .. 0 |-> 1] \in Doublings(0)
      BY DEF Doublings
    <2>. QED
      BY <1>3, <1>4, <2>1
  <1>5. CASE m # 0
    <2>1. m - 1 \in Nat /\ m - 1 \notin S
      BY <1>2, <1>3, <1>5
    <2>2. PICK g : g \in Doublings(m - 1)
      BY <2>1
    <2> DEFINE h == [n \in 0 .. m |-> IF n = m THEN 2 * g[m - 1] ELSE g[n]]
    <2>3. g \in [0 .. m - 1 -> Nat] /\ g[0] = 1 /\ \A n \in 1 .. m - 1 : g[n] = 2 * g[n - 1]
      BY <2>2 DEF Doublings
    <2>4. h \in [0 .. m -> Nat]
      BY <1>3, <1>5, <2>3
    <2>5. h[0] = 1
      BY <1>3, <1>5, <2>3
    <2>6. ASSUME NEW n \in 1 .. m PROVE h[n] = 2 * h[n - 1]
      <3>1. n - 1 \in 0 .. m /\ n - 1 # m /\ h[n - 1] = g[n - 1]
        BY <1>3
      <3>2. h[n] = 2 * g[n - 1]
        BY <1>3, <2>3
      <3>. QED
        BY <3>1, <3>2
    <2>7. h \in Doublings(m)
      <3> HIDE DEF h
      <3>. QED
        BY <2>4, <2>5, <2>6 DEF Doublings
    <2>. QED
      BY <1>3, <2>7
  <1>. QED
    BY <1>4, <1>5

\* There is one way to do so.
LEMMA DoublingsAgree ==
    ASSUME NEW k \in Nat, NEW m \in Nat, NEW g \in Doublings(k), NEW h \in Doublings(m)
    PROVE  \A n \in Nat : n <= k /\ n <= m => g[n] = h[n]
  <1> DEFINE S == {n \in Nat : n <= k /\ n <= m /\ g[n] # h[n]}
  <1>1. SUFFICES ASSUME S # {} PROVE FALSE
    OBVIOUS
  <1>2. PICK n \in S : \A i \in S : n <= i
    <2>1. S \in SUBSET Nat /\ S # {}
      BY <1>1
    <2> HIDE DEF S
    <2>. QED
      BY <2>1, LeastNumber
  <1>3. n \in Nat /\ n <= k /\ n <= m /\ g[n] # h[n]
    OBVIOUS
  <1>4. n # 0
    BY <1>3 DEF Doublings
  <1>5. n - 1 \in Nat /\ n - 1 \notin S
    BY <1>2, <1>3, <1>4
  <1>6. g[n - 1] = h[n - 1]
    BY <1>3, <1>5
  <1>7. n \in 1 .. k /\ n \in 1 .. m
    BY <1>3, <1>4
  <1>8. g[n] = 2 * g[n - 1] /\ h[n] = 2 * h[n - 1]
    BY <1>7 DEF Doublings
  <1>. QED
    BY <1>3, <1>6, <1>8

\* The powers are the doublings of 1.
LEMMA Pow2Def ==
    Pow2 = [n \in Nat |-> IF n = 0 THEN 1 ELSE 2 * Pow2[n - 1]]
  <1> DEFINE Pick(m) == CHOOSE g : g \in Doublings(m)
             F == [n \in Nat |-> Pick(n)[n]]
  <1>1. \A m \in Nat : Pick(m) \in Doublings(m)
    BY DoublingsExist
  <1>2. ASSUME NEW n \in Nat PROVE F[n] = IF n = 0 THEN 1 ELSE 2 * F[n - 1]
    <2>1. Pick(n) \in Doublings(n)
      BY <1>1
    <2>2. CASE n = 0
      <3>1. Pick(n)[0] = 1
        BY <2>1 DEF Doublings
      <3>. QED
        BY <2>2, <3>1
    <2>3. CASE n # 0
      <3>1. n - 1 \in Nat /\ n \in 1 .. n
        BY <2>3
      <3>2. Pick(n - 1) \in Doublings(n - 1)
        BY <1>1, <3>1
      <3> DEFINE g == Pick(n)
                 h == Pick(n - 1)
      <3>3. g[n] = 2 * g[n - 1]
        <4> HIDE DEF Pick
        <4>. QED
          BY <2>1, <3>1 DEF Doublings
      <3>4. g[n - 1] = h[n - 1]
        <4>1. g \in Doublings(n) /\ h \in Doublings(n - 1)
          BY <2>1, <3>2
        <4> HIDE DEF g, h
        <4>2. \A i \in Nat : i <= n /\ i <= n - 1 => g[i] = h[i]
          BY <3>1, <4>1, DoublingsAgree
        <4>. QED
          BY <3>1, <4>2
      <3>5. F[n] = g[n] /\ F[n - 1] = h[n - 1]
        BY <3>1
      <3>. QED
        BY <2>3, <3>3, <3>4, <3>5
    <2>. QED
      BY <2>2, <2>3
  <1>3. F = [n \in Nat |-> IF n = 0 THEN 1 ELSE 2 * F[n - 1]]
    <2>1. F = [n \in Nat |-> F[n]]
      OBVIOUS
    <2> HIDE DEF F
    <2>. QED
      BY <1>2, <2>1
  <1> HIDE DEF F
  <1>4. \E f : f = [n \in Nat |-> IF n = 0 THEN 1 ELSE 2 * f[n - 1]]
    BY <1>3
  <1>. QED
    BY <1>4 DEF Pow2

\* The first power, and the next one.
LEMMA Pow2Step ==
    /\ Pow2[0] = 1
    /\ \A n \in Nat : Pow2[n + 1] = 2 * Pow2[n]
  <1>1. Pow2[0] = 1
    BY Pow2Def
  <1>2. ASSUME NEW n \in Nat PROVE Pow2[n + 1] = 2 * Pow2[n]
    <2>1. n + 1 \in Nat /\ n + 1 # 0 /\ (n + 1) - 1 = n
      OBVIOUS
    <2>2. Pow2[n + 1] = IF n + 1 = 0 THEN 1 ELSE 2 * Pow2[(n + 1) - 1]
      BY <2>1, Pow2Def
    <2>. QED
      BY <2>1, <2>2
  <1>. QED
    BY <1>1, <1>2

\* They are positive.
LEMMA Pow2Positive ==
    \A n \in Nat : Pow2[n] \in Nat /\ Pow2[n] >= 1
  <1> DEFINE S == {n \in Nat : ~ (Pow2[n] \in Nat /\ Pow2[n] >= 1)}
  <1>1. SUFFICES ASSUME S # {} PROVE FALSE
    OBVIOUS
  <1>2. PICK n \in S : \A k \in S : n <= k
    <2>1. S \in SUBSET Nat /\ S # {}
      BY <1>1
    <2> HIDE DEF S
    <2>. QED
      BY <2>1, LeastNumber
  <1>3. n \in Nat /\ ~ (Pow2[n] \in Nat /\ Pow2[n] >= 1)
    OBVIOUS
  <1>4. n # 0
    BY <1>3, Pow2Step
  <1>5. n - 1 \in Nat /\ n - 1 \notin S
    BY <1>2, <1>3, <1>4
  <1>6. Pow2[n - 1] \in Nat /\ Pow2[n - 1] >= 1
    BY <1>5
  <1>7. Pow2[(n - 1) + 1] = 2 * Pow2[n - 1]
    BY <1>5, Pow2Step
  <1>8. (n - 1) + 1 = n
    BY <1>3
  <1>. QED
    BY <1>3, <1>6, <1>7, <1>8

\* Exponents are added.
LEMMA Pow2Sum ==
    ASSUME NEW a \in Nat, NEW b \in Nat
    PROVE  Pow2[a + b] = Pow2[a] * Pow2[b]
  <1> DEFINE S == {n \in Nat : Pow2[a + n] # Pow2[a] * Pow2[n]}
  <1>1. SUFFICES ASSUME S # {} PROVE FALSE
    OBVIOUS
  <1>2. PICK n \in S : \A k \in S : n <= k
    <2>1. S \in SUBSET Nat /\ S # {}
      BY <1>1
    <2> HIDE DEF S
    <2>. QED
      BY <2>1, LeastNumber
  <1>3. n \in Nat /\ Pow2[a + n] # Pow2[a] * Pow2[n]
    OBVIOUS
  <1>4. Pow2[a] \in Nat
    BY Pow2Positive
  <1>5. n # 0
    <2>1. Pow2[a + 0] = Pow2[a] * Pow2[0]
      <3>1. a + 0 = a /\ Pow2[0] = 1
        BY Pow2Step
      <3>. QED
        BY <3>1, <1>4
    <2>. QED
      BY <1>3, <2>1
  <1>6. n - 1 \in Nat /\ n - 1 \notin S
    BY <1>2, <1>3, <1>5
  <1> DEFINE k == n - 1
  <1>7. k \in Nat /\ n = k + 1 /\ a + n = (a + k) + 1 /\ a + k \in Nat
    BY <1>3, <1>6
  <1>8. Pow2[a + k] = Pow2[a] * Pow2[k]
    BY <1>6
  <1>9. Pow2[k] \in Nat
    BY <1>7, Pow2Positive
  <1> HIDE DEF k
  <1>10. Pow2[k + 1] = 2 * Pow2[k] /\ Pow2[(a + k) + 1] = 2 * Pow2[a + k]
    BY <1>7, Pow2Step
  <1>11. 2 * (Pow2[a] * Pow2[k]) = Pow2[a] * (2 * Pow2[k])
    BY <1>4, <1>9
  <1>. QED
    BY <1>3, <1>7, <1>8, <1>10, <1>11

\* A greater exponent makes the power at least twice as great.
LEMMA Pow2Greater ==
    ASSUME NEW a \in Nat, NEW b \in Nat, a < b
    PROVE  2 * Pow2[a] <= Pow2[b]
  <1> DEFINE k == b - (a + 1)
  <1>1. k \in Nat /\ b = (a + 1) + k /\ a + 1 \in Nat
    OBVIOUS
  <1> HIDE DEF k
  <1>2. Pow2[b] = Pow2[a + 1] * Pow2[k]
    BY <1>1, Pow2Sum
  <1>3. Pow2[a + 1] = 2 * Pow2[a] /\ Pow2[a + 1] \in Nat
    BY <1>1, Pow2Step, Pow2Positive
  <1>4. Pow2[k] \in Nat /\ Pow2[k] >= 1
    BY <1>1, Pow2Positive
  <1> DEFINE x == Pow2[a + 1]
             y == Pow2[k]
  <1>5. x \in Nat /\ y \in Nat /\ y >= 1
    BY <1>3, <1>4
  <1> HIDE DEF x, y
  <1>6. x * y >= x
    <2>1. y = 1 + (y - 1) /\ y - 1 \in Nat
      BY <1>5
    <2>2. x * y = x + x * (y - 1)
      BY <1>5
    <2>3. x * (y - 1) \in Nat
      BY <1>5, <2>1
    <2>. QED
      BY <1>5, <2>2, <2>3
  <1>. QED
    BY <1>2, <1>3, <1>6 DEF x, y

\* They grow with the exponent.
LEMMA Pow2Monotone ==
    ASSUME NEW a \in Nat, NEW b \in Nat, a <= b
    PROVE  Pow2[a] <= Pow2[b]
  <1>1. Pow2[a] \in Nat /\ Pow2[b] \in Nat
    BY Pow2Positive
  <1>2. CASE a = b
    BY <1>1, <1>2
  <1>3. CASE a < b
    BY <1>1, <1>3, Pow2Greater
  <1>. QED
    BY <1>2, <1>3

-----------------------------------------------------------------------------
\* The loops over the bits.

\* What the widths are, and the least of them.
LEMMA Widths ==
    /\ W \in Nat /\ M \in Nat /\ C \in Nat
    /\ 1 <= M /\ M + 2 <= W /\ 2 <= C /\ C <= M + 1 /\ 3 <= W /\ C < W
    /\ Pow2[W] \in Nat /\ Pow2[W - 1] \in Nat /\ Pow2[W] = 2 * Pow2[W - 1]
    /\ Pow2[W - 1] >= 1
  <1>1. /\ W \in Nat /\ M \in Nat /\ C \in Nat
        /\ 2 <= C /\ C <= M + 1 /\ M < W - 1
    BY WidthsAssumption
  <1>2. /\ 1 <= M /\ M + 2 <= W /\ 3 <= W /\ C < W
        /\ W - 1 \in Nat /\ (W - 1) + 1 = W
    BY <1>1
  <1>3. Pow2[(W - 1) + 1] = 2 * Pow2[W - 1]
    BY <1>2, Pow2Step
  <1>4. Pow2[W] \in Nat /\ Pow2[W - 1] \in Nat /\ Pow2[W - 1] >= 1
    BY <1>1, <1>2, Pow2Positive
  <1>. QED
    BY <1>1, <1>2, <1>3, <1>4

\* The counts of zeros at the end of the numbers up to m.
Trailings(m) ==
    {g \in [0 .. m -> Nat] :
        \A n \in 0 .. m : g[n] = IF n = 0 THEN W
                                 ELSE IF n % 2 = 1 THEN 0
                                 ELSE 1 + g[n \div 2]}

\* The loop over the bits ends.
LEMMA TrailingsExist ==
    \A m \in Nat : Trailings(m) # {}
  <1> DEFINE S == {m \in Nat : Trailings(m) = {}}
  <1>1. SUFFICES ASSUME S # {} PROVE FALSE
    OBVIOUS
  <1>2. PICK m \in S : \A k \in S : m <= k
    <2>1. S \in SUBSET Nat /\ S # {}
      BY <1>1
    <2> HIDE DEF S
    <2>. QED
      BY <2>1, LeastNumber
  <1>3. m \in Nat /\ Trailings(m) = {} /\ W \in Nat
    BY Widths
  <1>4. CASE m = 0
    <2>1. [n \in 0 .. 0 |-> W] \in Trailings(0)
      BY <1>3 DEF Trailings
    <2>. QED
      BY <1>3, <1>4, <2>1
  <1>5. CASE m # 0
    <2>1. m - 1 \in Nat /\ m - 1 \notin S
      BY <1>2, <1>3, <1>5
    <2>2. PICK g : g \in Trailings(m - 1)
      BY <2>1
    <2>3. /\ g \in [0 .. m - 1 -> Nat]
          /\ \A n \in 0 .. m - 1 : g[n] = IF n = 0 THEN W
                                          ELSE IF n % 2 = 1 THEN 0
                                          ELSE 1 + g[n \div 2]
      BY <2>2 DEF Trailings
    <2> DEFINE last == IF m % 2 = 1 THEN 0 ELSE 1 + g[m \div 2]
               h == [n \in 0 .. m |-> IF n = m THEN last ELSE g[n]]
    <2>4. m \div 2 \in 0 .. m - 1
      BY <1>3, <1>5
    <2>5. last \in Nat
      BY <2>3, <2>4
    <2>6. h \in [0 .. m -> Nat]
      <3> HIDE DEF last
      <3>. QED
        BY <1>3, <2>3, <2>5
    <2>7. ASSUME NEW n \in 0 .. m
          PROVE  h[n] = IF n = 0 THEN W
                        ELSE IF n % 2 = 1 THEN 0
                        ELSE 1 + h[n \div 2]
      <3>1. n # 0 => n \div 2 \in 0 .. m /\ n \div 2 # m /\ n \div 2 \in 0 .. m - 1
        BY <1>3
      <3>2. n # 0 => h[n \div 2] = g[n \div 2]
        BY <3>1
      <3>3. CASE n = m
        BY <1>5, <3>2, <3>3
      <3>4. CASE n # m
        <4>1. n \in 0 .. m - 1 /\ h[n] = g[n]
          BY <1>3, <3>4
        <4>. QED
          BY <2>3, <3>2, <4>1
      <3>. QED
        BY <3>3, <3>4
    <2>8. h \in Trailings(m)
      <3> HIDE DEF h
      <3>. QED
        BY <2>6, <2>7 DEF Trailings
    <2>. QED
      BY <1>3, <2>8
  <1>. QED
    BY <1>4, <1>5

\* What the loop counts is one more than what it counts in the half.
LEMMA TrailingStep ==
    ASSUME NEW n \in 1 .. Pow2[W] - 1
    PROVE  /\ trailing_zero_bit_count[n] \in Nat
           /\ n % 2 = 1 => trailing_zero_bit_count[n] = 0
           /\ n % 2 # 1 => trailing_zero_bit_count[n]
                             = 1 + trailing_zero_bit_count[n \div 2]
  <1> DEFINE m == Pow2[W] - 1
             Is(f) == f = [i \in 0 .. m |-> IF i = 0 THEN W
                                            ELSE IF i % 2 = 1 THEN 0
                                            ELSE 1 + f[i \div 2]]
  <1>1. m \in Nat
    BY Widths
  <1>2. PICK g : g \in Trailings(m)
    <2> HIDE DEF m
    <2>. QED
      BY <1>1, TrailingsExist
  <1>3. Is(g)
    <2> HIDE DEF m
    <2>. QED
      BY <1>2 DEF Trailings
  <1>4. Is(trailing_zero_bit_count)
    <2>1. \E f : Is(f)
      <3> HIDE DEF Is
      <3>. QED
        BY <1>3
    <2>. QED
      BY <2>1 DEF trailing_zero_bit_count, size_t
  <1> DEFINE f == trailing_zero_bit_count
  <1>5. f \in [0 .. m -> Nat]
    <2> DEFINE S == {i \in Nat : i <= m /\ f[i] \notin Nat}
    <2>1. S = {}
      <3>1. SUFFICES ASSUME S # {} PROVE FALSE
        OBVIOUS
      <3>2. PICK i \in S : \A k \in S : i <= k
        <4>1. S \in SUBSET Nat /\ S # {}
          BY <3>1
        <4> HIDE DEF S
        <4>. QED
          BY <4>1, LeastNumber
      <3>3. i \in 0 .. m /\ f[i] \notin Nat
        BY <1>1
      <3> HIDE DEF m
      <3>4. f[i] = IF i = 0 THEN W ELSE IF i % 2 = 1 THEN 0 ELSE 1 + f[i \div 2]
        BY <1>4, <3>3
      <3>5. i # 0 /\ i % 2 # 1 /\ f[i] = 1 + f[i \div 2]
        BY <3>3, <3>4, Widths
      <3>6. i \div 2 \in Nat /\ i \div 2 < i /\ i \div 2 <= m
        BY <1>1, <3>3, <3>5
      <3>7. f[i \div 2] \in Nat
        <4>1. i \div 2 \notin S
          BY <3>2, <3>6
        <4>. QED
          BY <3>6, <4>1
      <3>. QED
        BY <3>3, <3>5, <3>7
    <2>2. \A i \in 0 .. m : f[i] \in Nat
      BY <2>1
    <2>3. f = [i \in 0 .. m |-> f[i]]
      <3> HIDE DEF m
      <3>. QED
        BY <1>4
    <2> HIDE DEF f
    <2>. QED
      BY <2>2, <2>3
  <1>6. n \in 0 .. m /\ n # 0
    OBVIOUS
  <1> HIDE DEF m
  <1>7. f[n] = IF n = 0 THEN W ELSE IF n % 2 = 1 THEN 0 ELSE 1 + f[n \div 2]
    BY <1>4, <1>6
  <1>8. f[n] \in Nat
    BY <1>5, <1>6
  <1>. QED
    BY <1>6, <1>7, <1>8

\* A number is odd but for the zeros that trailing_zero_bit_count finds at
\* its end.
LEMMA TrailingZeros ==
    \A n \in 1 .. Pow2[W] - 1 :
        \E k \in Nat : n = (2 * k + 1) * Pow2[trailing_zero_bit_count[n]]
  <1> DEFINE f == trailing_zero_bit_count
             S == {n \in Nat : /\ n \in 1 .. Pow2[W] - 1
                               /\ \A k \in Nat : n # (2 * k + 1) * Pow2[f[n]]}
  <1>1. SUFFICES ASSUME S # {} PROVE FALSE
    OBVIOUS
  <1>2. PICK n \in S : \A k \in S : n <= k
    <2>1. S \in SUBSET Nat /\ S # {}
      BY <1>1
    <2> HIDE DEF S
    <2>. QED
      BY <2>1, LeastNumber
  <1>3. n \in 1 .. Pow2[W] - 1 /\ \A k \in Nat : n # (2 * k + 1) * Pow2[f[n]]
    OBVIOUS
  <1>4. CASE n % 2 = 1
    <2>1. Pow2[f[n]] = 1
      BY <1>3, <1>4, TrailingStep, Pow2Step
    <2>2. n \div 2 \in Nat /\ n = (2 * (n \div 2) + 1) * 1
      BY <1>3, <1>4
    <2>. QED
      BY <1>3, <2>1, <2>2
  <1>5. CASE n % 2 # 1
    <2> DEFINE q == n \div 2
    <2>1. n = 2 * q /\ q \in 1 .. Pow2[W] - 1 /\ q < n
      BY <1>3, <1>5, Widths
    <2>2. f[n] = 1 + f[q]
      BY <1>3, <1>5, TrailingStep
    <2> HIDE DEF q
    <2>3. f[q] \in Nat
      BY <2>1, TrailingStep
    <2>4. PICK k \in Nat : q = (2 * k + 1) * Pow2[f[q]]
      <3>1. q \in Nat /\ ~ (n <= q) /\ q \notin S
        BY <1>2, <1>3, <2>1
      <3>. QED
        BY <2>1, <3>1
    <2>5. Pow2[f[q]] \in Nat /\ Pow2[f[q] + 1] = 2 * Pow2[f[q]]
      BY <2>3, Pow2Step, Pow2Positive
    <2>6. f[n] = f[q] + 1
      BY <2>2, <2>3
    <2> DEFINE p == Pow2[f[q]]
               o == 2 * k + 1
    <2>7. o \in Nat /\ p \in Nat
      BY <2>5
    <2> HIDE DEF p, o
    <2>8. 2 * (o * p) = o * (2 * p)
      BY <2>7
    <2>9. n = o * Pow2[f[n]]
      BY <2>1, <2>4, <2>5, <2>6, <2>8 DEF o, p
    <2>. QED
      BY <1>3, <2>9 DEF o
  <1>. QED
    BY <1>4, <1>5

\* The counts of zeros in front of the numbers from m.
Leadings(m) ==
    {g \in [{0} \cup (m .. Pow2[W] - 1) -> Nat] :
        /\ g[0] = W
        /\ \A n \in m .. Pow2[W] - 1 :
              g[n] = IF n >= Pow2[W - 1] THEN 0 ELSE 1 + g[2 * n]}

\* The loop over the bits ends.
LEMMA LeadingsExist ==
    \A m \in 1 .. Pow2[W] : Leadings(m) # {}
  <1> DEFINE S == {j \in Nat : j < Pow2[W] /\ Leadings(Pow2[W] - j) = {}}
  <1>1. SUFFICES S = {}
    <2>1. ASSUME NEW m \in 1 .. Pow2[W] PROVE Leadings(m) # {}
      <3>1. Pow2[W] - m \in Nat /\ Pow2[W] - m < Pow2[W] /\ Pow2[W] - (Pow2[W] - m) = m
        BY Widths
      <3>. QED
        BY <1>1, <3>1
    <2>. QED
      BY <2>1
  <1>2. SUFFICES ASSUME S # {} PROVE FALSE
    OBVIOUS
  <1>3. PICK j \in S : \A k \in S : j <= k
    <2>1. S \in SUBSET Nat /\ S # {}
      BY <1>2
    <2> HIDE DEF S
    <2>. QED
      BY <2>1, LeastNumber
  <1> DEFINE m == Pow2[W] - j
  <1>4. /\ j \in Nat /\ m \in Nat /\ m >= 1 /\ m <= Pow2[W] /\ Leadings(m) = {}
        /\ W \in Nat /\ Pow2[W] \in Nat /\ Pow2[W - 1] \in Nat
        /\ Pow2[W] = 2 * Pow2[W - 1]
    BY Widths
  <1>5. CASE j = 0
    <2>1. [n \in {0} |-> W] \in Leadings(m)
      BY <1>4, <1>5 DEF Leadings
    <2>. QED
      BY <1>4, <2>1
  <1>6. CASE j # 0
    <2>1. j - 1 \in Nat /\ j - 1 \notin S /\ j - 1 < Pow2[W] /\ Pow2[W] - (j - 1) = m + 1
      BY <1>3, <1>4, <1>6
    <2>2. PICK g : g \in Leadings(m + 1)
      BY <2>1
    <2>. HIDE DEF m
    <2>3. m < Pow2[W]
      BY <1>4, <1>6 DEF m
    <2>4. /\ g \in [{0} \cup (m + 1 .. Pow2[W] - 1) -> Nat]
          /\ g[0] = W
          /\ \A n \in m + 1 .. Pow2[W] - 1 :
                g[n] = IF n >= Pow2[W - 1] THEN 0 ELSE 1 + g[2 * n]
      BY <2>2 DEF Leadings
    <2> DEFINE first == IF m >= Pow2[W - 1] THEN 0 ELSE 1 + g[2 * m]
               h == [n \in {0} \cup (m .. Pow2[W] - 1) |-> IF n = m THEN first ELSE g[n]]
    <2>5. first \in Nat
      <3>1. m < Pow2[W - 1] => 2 * m \in m + 1 .. Pow2[W] - 1
        BY <1>4
      <3>. QED
        BY <1>4, <2>4, <3>1
    <2>6. h \in [{0} \cup (m .. Pow2[W] - 1) -> Nat]
      <3> HIDE DEF first
      <3>1. ASSUME NEW n \in {0} \cup (m .. Pow2[W] - 1)
            PROVE  (IF n = m THEN first ELSE g[n]) \in Nat
        <4>1. n = m \/ n \in {0} \cup (m + 1 .. Pow2[W] - 1)
          BY <1>4
        <4>. QED
          BY <2>4, <2>5, <4>1
      <3>. QED
        BY <3>1
    <2>7. h[0] = W
      BY <1>4, <2>4
    <2>8. ASSUME NEW n \in m .. Pow2[W] - 1
          PROVE  h[n] = IF n >= Pow2[W - 1] THEN 0 ELSE 1 + h[2 * n]
      <3>1. n < Pow2[W - 1] => 2 * n \in m .. Pow2[W] - 1 /\ 2 * n # m
        BY <1>4
      <3>2. n < Pow2[W - 1] => h[2 * n] = g[2 * n]
        BY <3>1
      <3>3. CASE n = m
        <4>1. h[n] = IF n >= Pow2[W - 1] THEN 0 ELSE 1 + g[2 * n]
          BY <3>3
        <4>. QED
          BY <1>4, <3>2, <4>1
      <3>4. CASE n # m
        <4>1. n \in m + 1 .. Pow2[W] - 1 /\ h[n] = g[n]
          BY <1>4, <3>4
        <4>. QED
          BY <1>4, <2>4, <3>2, <4>1
      <3>. QED
        BY <3>3, <3>4
    <2>9. h \in Leadings(m)
      <3> HIDE DEF h
      <3>. QED
        BY <2>6, <2>7, <2>8 DEF Leadings
    <2>. QED
      BY <1>4, <2>9
  <1>. QED
    BY <1>5, <1>6

\* What the loop counts is one more than what it counts in the double.
LEMMA LeadingStep ==
    ASSUME NEW n \in 1 .. Pow2[W] - 1
    PROVE  /\ n >= Pow2[W - 1] => leading_zero_bit_count[n] = 0
           /\ n < Pow2[W - 1] => leading_zero_bit_count[n]
                                   = 1 + leading_zero_bit_count[2 * n]
  <1> DEFINE m == Pow2[W] - 1
             Is(f) == f = [i \in 0 .. m |-> IF i = 0 THEN W
                                            ELSE IF i >= Pow2[W - 1] THEN 0
                                            ELSE 1 + f[2 * i]]
  <1>1. m \in Nat /\ 1 \in 1 .. Pow2[W]
    BY Widths
  <1>2. PICK g : g \in Leadings(1)
    BY <1>1, LeadingsExist
  <1>3. Is(g)
    <2>1. /\ g \in [{0} \cup (1 .. m) -> Nat]
          /\ g[0] = W
          /\ \A i \in 1 .. m : g[i] = IF i >= Pow2[W - 1] THEN 0 ELSE 1 + g[2 * i]
      BY <1>2 DEF Leadings
    <2>2. {0} \cup (1 .. m) = 0 .. m
      <3> HIDE DEF m
      <3>. QED
        BY <1>1
    <2> HIDE DEF m
    <2>3. g = [i \in 0 .. m |-> g[i]]
      BY <2>1, <2>2
    <2>4. \A i \in 0 .. m : g[i] = IF i = 0 THEN W
                                   ELSE IF i >= Pow2[W - 1] THEN 0
                                   ELSE 1 + g[2 * i]
      <3>1. \A i \in 0 .. m : i = 0 \/ (i \in 1 .. m /\ i # 0)
        BY <1>1
      <3>. QED
        BY <2>1, <3>1
    <2>. QED
      BY <2>3, <2>4
  <1>4. Is(leading_zero_bit_count)
    <2>1. \E f : Is(f)
      <3> HIDE DEF Is
      <3>. QED
        BY <1>3
    <2>. QED
      BY <2>1 DEF leading_zero_bit_count, size_t
  <1>5. n \in 0 .. m /\ n # 0
    OBVIOUS
  <1> HIDE DEF m
  <1> DEFINE f == leading_zero_bit_count
  <1>6. f[n] = IF n = 0 THEN W ELSE IF n >= Pow2[W - 1] THEN 0 ELSE 1 + f[2 * n]
    BY <1>4, <1>5
  <1>. QED
    BY <1>5, <1>6, Widths

\* Without the zeros that leading_zero_bit_count finds in front of it a number
\* fills the word.
LEMMA LeadingZeros ==
    \A n \in 1 .. Pow2[W] - 1 :
        /\ leading_zero_bit_count[n] \in Nat
        /\ Pow2[W - 1] <= n * Pow2[leading_zero_bit_count[n]]
        /\ n * Pow2[leading_zero_bit_count[n]] < Pow2[W]
  <1> DEFINE f == leading_zero_bit_count
             Fills(n) == /\ f[n] \in Nat
                         /\ Pow2[W - 1] <= n * Pow2[f[n]]
                         /\ n * Pow2[f[n]] < Pow2[W]
             S == {j \in Nat : 1 <= j /\ j < Pow2[W] /\ ~ Fills(Pow2[W] - j)}
  <1> HIDE DEF Fills
  <1>1. SUFFICES S = {}
    <2>1. ASSUME NEW n \in 1 .. Pow2[W] - 1 PROVE Fills(n)
      <3>1. /\ Pow2[W] - n \in Nat /\ 1 <= Pow2[W] - n /\ Pow2[W] - n < Pow2[W]
            /\ Pow2[W] - (Pow2[W] - n) = n
        BY Widths
      <3>. QED
        BY <1>1, <3>1
    <2>. QED
      BY <2>1 DEF Fills
  <1>2. SUFFICES ASSUME S # {} PROVE FALSE
    OBVIOUS
  <1>3. PICK j \in S : \A k \in S : j <= k
    <2>1. S \in SUBSET Nat /\ S # {}
      BY <1>2
    <2> HIDE DEF S
    <2>. QED
      BY <2>1, LeastNumber
  <1> DEFINE n == Pow2[W] - j
  <1>4. j \in Nat /\ 1 <= j /\ j < Pow2[W] /\ ~ Fills(n) /\ n \in 1 .. Pow2[W] - 1
    BY Widths
  <1>5. CASE n >= Pow2[W - 1]
    <2> HIDE DEF n
    <2>1. f[n] = 0 /\ Pow2[0] = 1
      BY <1>4, <1>5, LeadingStep, Pow2Step
    <2>2. n * 1 = n
      BY <1>4
    <2>3. Fills(n)
      BY <1>4, <1>5, <2>1, <2>2, Widths DEF Fills
    <2>. QED
      BY <1>4, <2>3
  <1>6. CASE n < Pow2[W - 1]
    <2>1. /\ j - n \in Nat /\ 1 <= j - n /\ j - n < j /\ j - n < Pow2[W]
          /\ Pow2[W] - (j - n) = 2 * n /\ 2 * n \in 1 .. Pow2[W] - 1
      BY <1>4, <1>6, Widths
    <2>2. Fills(2 * n)
      <3>1. j - n \notin S
        BY <1>3, <1>4, <2>1
      <3> HIDE DEF n
      <3>. QED
        BY <2>1, <3>1
    <2> HIDE DEF n
    <2>3. f[n] = 1 + f[2 * n]
      BY <1>4, <1>6, LeadingStep
    <2> DEFINE l == f[2 * n]
    <2>4. l \in Nat /\ f[n] = l + 1
      BY <2>2, <2>3 DEF Fills
    <2>5. Pow2[W - 1] <= (2 * n) * Pow2[l] /\ (2 * n) * Pow2[l] < Pow2[W]
      BY <2>2 DEF Fills
    <2> HIDE DEF l
    <2>6. Pow2[l + 1] = 2 * Pow2[l] /\ Pow2[l] \in Nat
      BY <2>4, Pow2Step, Pow2Positive
    <2>7. n * (2 * Pow2[l]) = (2 * n) * Pow2[l]
      BY <1>4, <2>6
    <2>8. Fills(n)
      BY <2>4, <2>5, <2>6, <2>7 DEF Fills
    <2>. QED
      BY <1>4, <2>8
  <1>7. n \in Nat /\ Pow2[W - 1] \in Nat
    BY <1>4, Widths
  <1>. QED
    BY <1>5, <1>6, <1>7

\* A product grows with its factor.
LEMMA ProductGrows ==
    ASSUME NEW a \in Nat, NEW b \in Nat, NEW x \in Nat, a <= b
    PROVE  a * x <= b * x
  <1> DEFINE d == b - a
  <1>1. d \in Nat /\ b = a + d
    OBVIOUS
  <1> HIDE DEF d
  <1>2. (a + d) * x = a * x + d * x
    BY <1>1
  <1>3. d * x \in Nat /\ a * x \in Nat
    BY <1>1
  <1>. QED
    BY <1>1, <1>2, <1>3

\* And only with it.
LEMMA ProductGrew ==
    ASSUME NEW a \in Nat, NEW b \in Nat, NEW x \in Nat, a * x < b * x
    PROVE  a < b
  <1>1. SUFFICES ASSUME b <= a PROVE FALSE
    OBVIOUS
  <1>2. b * x <= a * x
    BY <1>1, ProductGrows
  <1>3. a * x \in Nat /\ b * x \in Nat
    OBVIOUS
  <1>. QED
    BY <1>2, <1>3

\* Between the zeros in front of a number and those at its end there is an odd
\* number of significant_bit_count bits.
LEMMA SignificantBits ==
    ASSUME NEW n \in 1 .. Pow2[W] - 1
    PROVE  /\ significant_bit_count(n) \in 1 .. W
           /\ \E k \in Nat, t \in 0 .. W - 1 :
                 /\ n = (2 * k + 1) * Pow2[t]
                 /\ Pow2[significant_bit_count(n) - 1] <= 2 * k + 1
                 /\ 2 * k + 1 < Pow2[significant_bit_count(n)]
  <1> DEFINE t == trailing_zero_bit_count[n]
             l == leading_zero_bit_count[n]
             s == significant_bit_count(n)
  <1>1. PICK k \in Nat : n = (2 * k + 1) * Pow2[t]
    BY TrailingZeros
  <1>2. t \in Nat
    BY TrailingStep
  <1>3. l \in Nat /\ Pow2[W - 1] <= n * Pow2[l] /\ n * Pow2[l] < Pow2[W]
    BY LeadingZeros
  <1>4. s = W - l - t
    BY DEF significant_bit_count
  <1> DEFINE o == 2 * k + 1
  <1>5. o \in Nat /\ 1 <= o
    OBVIOUS
  <1> HIDE DEF t, l, s, o
  <1> DEFINE p == Pow2[t + l]
  <1>6. p \in Nat /\ p >= 1 /\ p = Pow2[t] * Pow2[l] /\ Pow2[t] \in Nat /\ Pow2[l] \in Nat
    <2>1. t \in Nat /\ l \in Nat /\ t + l \in Nat
      BY <1>2, <1>3
    <2>2. Pow2[t + l] = Pow2[t] * Pow2[l]
      BY ONLY <2>1, Pow2Sum
    <2>3. /\ Pow2[t + l] \in Nat /\ Pow2[t + l] >= 1
          /\ Pow2[t] \in Nat /\ Pow2[l] \in Nat
      BY <2>1, Pow2Positive
    <2>. QED
      BY <2>2, <2>3
  <1>7. n * Pow2[l] = o * p
    <2>1. n = o * Pow2[t]
      BY <1>1 DEF o
    <2>2. (o * Pow2[t]) * Pow2[l] = o * (Pow2[t] * Pow2[l])
      BY <1>5, <1>6
    <2>. QED
      BY <1>6, <2>1, <2>2
  <1>8. Pow2[W - 1] <= o * p /\ o * p < Pow2[W] /\ o * p \in Nat
    BY <1>3, <1>5, <1>6, <1>7
  <1>9. t + l < W
    <2>1. SUFFICES ASSUME W <= t + l PROVE FALSE
      BY <1>2, <1>3, Widths
    <2>2. Pow2[W] <= p
      BY <1>2, <1>3, <2>1, Widths, Pow2Monotone
    <2>3. 1 * p <= o * p
      BY <1>5, <1>6, ProductGrows
    <2>. QED
      BY <1>6, <1>8, <2>2, <2>3, Widths
  <1>10. s \in 1 .. W /\ W = s + (t + l) /\ W - 1 = (s - 1) + (t + l) /\ t \in 0 .. W - 1
    BY <1>2, <1>3, <1>4, <1>9, Widths
  <1> DEFINE y == Pow2[s]
             z == Pow2[s - 1]
  <1>11. Pow2[W] = y * p /\ Pow2[W - 1] = z * p /\ y = 2 * z /\ z \in Nat
    <2>1. s \in Nat /\ s - 1 \in Nat /\ t + l \in Nat /\ (s - 1) + 1 = s
      BY <1>2, <1>3, <1>10
    <2>2. Pow2[s + (t + l)] = Pow2[s] * Pow2[t + l]
      BY <2>1, Pow2Sum
    <2>3. Pow2[(s - 1) + (t + l)] = Pow2[s - 1] * Pow2[t + l]
      BY <2>1, Pow2Sum
    <2>4. Pow2[(s - 1) + 1] = 2 * Pow2[s - 1] /\ Pow2[s - 1] \in Nat
      BY <2>1, Pow2Step, Pow2Positive
    <2>. QED
      BY <1>10, <2>1, <2>2, <2>3, <2>4
  <1> HIDE DEF p, y, z
  <1>12. o < y
    <2>1. y \in Nat /\ o * p < y * p
      BY <1>8, <1>11
    <2>. QED
      BY <1>5, <1>6, <2>1, ProductGrew
  <1>13. z <= o
    <2>1. SUFFICES ASSUME o < z PROVE FALSE
      BY <1>5, <1>11
    <2>2. (o + 1) * p <= z * p
      BY <1>5, <1>6, <1>11, <2>1, ProductGrows
    <2>3. (o + 1) * p = o * p + p
      BY <1>5, <1>6
    <2>. QED
      BY <1>6, <1>8, <1>11, <2>2, <2>3
  <1>. QED
    BY <1>1, <1>10, <1>12, <1>13 DEF s, o, y, z

\* The zeros at the end of a product of an odd number.
LEMMA OddTimesPower ==
    ASSUME NEW k \in Nat, NEW t \in Nat, NEW m \in Nat, NEW u \in Nat,
           (2 * k + 1) * Pow2[t] = m * Pow2[u]
    PROVE  2 * k + 1 <= m
  <1> DEFINE o == 2 * k + 1
  <1>1. o \in Nat /\ o >= 1 /\ o % 2 = 1
    OBVIOUS
  <1>2. Pow2[t] \in Nat /\ Pow2[t] >= 1 /\ Pow2[u] \in Nat /\ Pow2[u] >= 1
    BY Pow2Positive
  <1>3. CASE u <= t
    <2> DEFINE d == t - u
               p == Pow2[u]
               q == Pow2[d]
    <2>1. d \in Nat /\ t = d + u
      BY <1>3
    <2>2. Pow2[t] = q * p /\ q \in Nat /\ q >= 1
      <3> HIDE DEF d
      <3>. QED
        BY <2>1, Pow2Sum, Pow2Positive
    <2>3. o * (q * p) = m * p
      BY <2>2
    <2> HIDE DEF o, p, q
    <2>4. SUFFICES ASSUME m < o PROVE FALSE
      BY <1>1 DEF o
    <2>5. p \in Nat /\ p >= 1
      BY <1>2 DEF p
    <2>6. (m + 1) * p <= o * p
      BY <1>1, <2>4, <2>5, ProductGrows
    <2>7. 1 * (o * p) <= q * (o * p)
      <3>1. o * p \in Nat
        BY <1>1, <2>5
      <3> DEFINE x == o * p
      <3> HIDE DEF x
      <3>. QED
        BY <2>2, <3>1, ProductGrows DEF x
    <2>8. q * (o * p) = o * (q * p) /\ (m + 1) * p = m * p + p
      BY <1>1, <2>2, <2>5
    <2>9. m * p \in Nat /\ o * p \in Nat
      BY <1>1, <2>5
    <2>. QED
      BY <2>3, <2>5, <2>6, <2>7, <2>8, <2>9
  <1>4. CASE t < u
    <2> DEFINE d == u - (t + 1)
               p == Pow2[t]
               q == Pow2[d]
    <2>1. d \in Nat /\ u = (d + 1) + t /\ d + 1 \in Nat
      BY <1>4
    <2>2. Pow2[u] = Pow2[d + 1] * p /\ Pow2[d + 1] = 2 * q /\ q \in Nat
      <3> HIDE DEF d
      <3>. QED
        BY <2>1, Pow2Sum, Pow2Step, Pow2Positive
    <2> HIDE DEF d
    <2>3. o * p = m * ((2 * q) * p)
      BY <2>2
    <2> HIDE DEF o, p, q
    <2>4. p \in Nat /\ p >= 1
      BY <1>2 DEF p
    <2> DEFINE e == m * q
    <2>5. m * ((2 * q) * p) = (2 * e) * p /\ e \in Nat
      BY <2>2, <2>4
    <2> HIDE DEF e
    <2>6. o = 2 * e
      <3>1. o * p = (2 * e) * p /\ 2 * e \in Nat
        BY <2>3, <2>5
      <3>2. CASE o < 2 * e
        <4>1. (o + 1) * p <= (2 * e) * p
          BY <1>1, <2>4, <3>1, <3>2, ProductGrows
        <4>2. (o + 1) * p = o * p + p /\ o * p \in Nat
          BY <1>1, <2>4
        <4>. QED
          BY <2>4, <3>1, <4>1, <4>2
      <3>3. CASE 2 * e < o
        <4>1. (2 * e + 1) * p <= o * p
          BY <1>1, <2>4, <3>1, <3>3, ProductGrows
        <4>2. (2 * e + 1) * p = (2 * e) * p + p /\ (2 * e) * p \in Nat
          BY <2>4, <2>5
        <4>. QED
          BY <2>4, <3>1, <4>1, <4>2
      <3>. QED
        BY <1>1, <3>1, <3>2, <3>3
    <2>. QED
      BY <1>1, <2>5, <2>6
  <1>. QED
    BY <1>3, <1>4

\* significant_bit_count counts the bits that a mantissa needs for the integer.
THEOREM SignificantFits ==
    ASSUME NEW n \in 1 .. Pow2[W] - 1, NEW b \in Nat
    PROVE  significant_bit_count(n) <= b <=> Fits(2 * n, b)
  <1> DEFINE s == significant_bit_count(n)
  <1>1. s \in 1 .. W
    BY SignificantBits
  <1>2. PICK k \in Nat, t \in 0 .. W - 1 :
            /\ n = (2 * k + 1) * Pow2[t]
            /\ Pow2[s - 1] <= 2 * k + 1
            /\ 2 * k + 1 < Pow2[s]
    BY SignificantBits
  <1> HIDE DEF s
  <1>3. Abs(2 * n) = 2 * n
    BY DEF Abs
  <1>4. 2 * n = (2 * k + 1) * Pow2[t + 1] /\ t + 1 \in 0 .. W + 1 /\ t + 1 \in Nat
    <2>1. Pow2[t + 1] = 2 * Pow2[t] /\ Pow2[t] \in Nat
      BY Pow2Step, Pow2Positive
    <2>2. 2 * ((2 * k + 1) * Pow2[t]) = (2 * k + 1) * (2 * Pow2[t])
      BY <2>1
    <2>. QED
      BY <1>2, <2>1, <2>2, Widths
  <1>5. Pow2[s] \in Nat /\ Pow2[s - 1] \in Nat /\ Pow2[b] \in Nat /\ s - 1 \in Nat
    BY <1>1, Pow2Positive
  <1>6. ASSUME s <= b PROVE Fits(2 * n, b)
    <2>1. Pow2[s] <= Pow2[b]
      BY <1>1, <1>6, Pow2Monotone
    <2>2. 2 * k + 1 \in 0 .. Pow2[b] - 1
      BY <1>2, <1>5, <2>1
    <2>. QED
      BY <1>3, <1>4, <2>2 DEF Fits
  <1>7. ASSUME Fits(2 * n, b) PROVE s <= b
    <2>1. PICK shift \in 0 .. W + 1, m \in 0 .. Pow2[b] - 1 : Abs(2 * n) = m * Pow2[shift]
      BY <1>7 DEF Fits
    <2>2. (2 * k + 1) * Pow2[t + 1] = m * Pow2[shift]
      BY <1>3, <1>4, <2>1
    <2>3. 2 * k + 1 <= m
      BY <1>4, <1>5, <2>2, OddTimesPower
    <2>4. Pow2[s - 1] < Pow2[b]
      BY <1>2, <1>5, <2>3
    <2>5. SUFFICES ASSUME b <= s - 1 PROVE FALSE
      BY <1>1
    <2>6. Pow2[b] <= Pow2[s - 1]
      BY <1>5, <2>5, Pow2Monotone
    <2>. QED
      BY <1>5, <2>4, <2>6
  <1>. QED
    BY <1>6, <1>7 DEF s

-----------------------------------------------------------------------------
\* The conversions of numbers.

\* A remainder is less than what is divided by, and what is less is its own.
LEMMA Remainder ==
    ASSUME NEW a \in Int, NEW m \in Nat, m >= 1
    PROVE  /\ a % m \in 0 .. m - 1
           /\ 0 <= a /\ a < m => a % m = a
  OBVIOUS

\* Cut to its size an integer is one of that size, and it stays what it is
\* if and only if it was one.
LEMMA WrapFits ==
    ASSUME NEW w \in Nat, w >= 1, NEW i \in Int
    PROVE  /\ Wrap(2 * i, w) \in Sint(w)
           /\ Wrap(2 * i, w) = 2 * i
                <=> -Pow2[w] <= 2 * i /\ 2 * i <= Pow2[w] - 2
  <1> DEFINE h == Pow2[w - 1]
             v == (i + h) % (2 * h)
  <1>1. h \in Nat /\ h >= 1 /\ Pow2[w] = 2 * h
    <2>1. w - 1 \in Nat /\ (w - 1) + 1 = w
      OBVIOUS
    <2>2. Pow2[(w - 1) + 1] = 2 * Pow2[w - 1]
      BY <2>1, Pow2Step
    <2>. QED
      BY <2>1, <2>2, Pow2Positive
  <1>2. Wrap(2 * i, w) = 2 * (v - h)
    <2>1. (2 * i) \div 2 = i
      OBVIOUS
    <2>. QED
      BY <1>1, <2>1 DEF Wrap
  <1> HIDE DEF h
  <1>3. /\ v \in 0 .. 2 * h - 1
        /\ 0 <= i + h /\ i + h < 2 * h => v = i + h
    <2>1. i + h \in Int /\ 2 * h \in Nat /\ 2 * h >= 1
      BY <1>1
    <2> DEFINE a == i + h
               m == 2 * h
    <2> HIDE DEF a, m
    <2>2. a % m \in 0 .. m - 1 /\ (0 <= a /\ a < m => a % m = a)
      BY <2>1, Remainder DEF a, m
    <2>. QED
      BY <2>2 DEF a, m
  <1> HIDE DEF v
  <1>4. Wrap(2 * i, w) \in Sint(w)
    <2>1. v - h \in -h .. h - 1
      BY <1>1, <1>3
    <2>. QED
      BY <1>2, <2>1 DEF Sint, h
  <1>5. Wrap(2 * i, w) = 2 * i <=> v = i + h
    BY <1>1, <1>2, <1>3
  <1>6. -Pow2[w] <= 2 * i /\ 2 * i <= Pow2[w] - 2 <=> 0 <= i + h /\ i + h < 2 * h
    BY <1>1
  <1>7. v = i + h <=> 0 <= i + h /\ i + h < 2 * h
    BY <1>1, <1>3
  <1>. QED
    BY <1>4, <1>5, <1>6, <1>7

\* The integers of a size are the even numbers of halves in its range.
LEMMA SintRange ==
    ASSUME NEW w \in Nat, w >= 1
    PROVE  /\ Sint(w) \subseteq Int
           /\ \A n \in Int : n \in Sint(w) <=>
                 /\ \E i \in Int : n = 2 * i
                 /\ -Pow2[w] <= n /\ n <= Pow2[w] - 2
           /\ 0 \in Sint(w) /\ -2 \in Sint(w)
  <1> DEFINE h == Pow2[w - 1]
  <1>1. h \in Nat /\ h >= 1 /\ Pow2[w] = 2 * h
    <2>1. w - 1 \in Nat /\ (w - 1) + 1 = w
      OBVIOUS
    <2>2. Pow2[(w - 1) + 1] = 2 * Pow2[w - 1]
      BY <2>1, Pow2Step
    <2>. QED
      BY <2>1, <2>2, Pow2Positive
  <1>2. Sint(w) = {2 * i : i \in -h .. h - 1}
    BY DEF Sint
  <1> HIDE DEF h
  <1>3. Sint(w) \subseteq Int
    BY <1>1, <1>2
  <1>4. ASSUME NEW n \in Int
        PROVE  n \in Sint(w) <=>
                 /\ \E i \in Int : n = 2 * i
                 /\ -Pow2[w] <= n /\ n <= Pow2[w] - 2
    <2>1. ASSUME n \in Sint(w)
          PROVE  /\ \E i \in Int : n = 2 * i
                 /\ -Pow2[w] <= n /\ n <= Pow2[w] - 2
      <3>1. PICK i \in -h .. h - 1 : n = 2 * i
        BY <1>2, <2>1
      <3>. QED
        BY <1>1, <3>1
    <2>2. ASSUME NEW i \in Int, n = 2 * i, -Pow2[w] <= n, n <= Pow2[w] - 2
          PROVE  n \in Sint(w)
      <3>1. i \in -h .. h - 1
        BY <1>1, <2>2
      <3>. QED
        BY <1>2, <2>2, <3>1
    <2>. QED
      BY <2>1, <2>2
  <1>5. 0 \in Sint(w)
    <2>1. 0 \in -h .. h - 1 /\ 0 = 2 * 0
      BY <1>1
    <2>. QED
      BY <1>2, <2>1
  <1>6. -2 \in Sint(w)
    <2>1. -1 \in -h .. h - 1 /\ -2 = 2 * (-1)
      BY <1>1
    <2>. QED
      BY <1>2, <2>1
  <1>. QED
    BY <1>3, <1>4, <1>5, <1>6

\* Without its fraction a number is an integer, the number itself if it has
\* none, and it stays in the range of an integer.
LEMMA Truncated ==
    ASSUME NEW x \in Int
    PROVE  /\ trunc(x) \in Int
           /\ \E i \in Int : trunc(x) = 2 * i
           /\ \A l, u \in Int : 2 * l <= x /\ x <= 2 * u
                                => 2 * l <= trunc(x) /\ trunc(x) <= 2 * u
  <1>1. CASE x < 0
    <2> DEFINE q == (-x) \div 2
    <2>1. trunc(x) = -(2 * q) /\ q \in Int /\ 2 * q <= -x /\ -x <= 2 * q + 1 /\ q >= 0
      BY <1>1 DEF trunc
    <2>2. trunc(x) = 2 * (-q) /\ -q \in Int
      BY <2>1
    <2> HIDE DEF q
    <2>. QED
      BY <2>1, <2>2, <1>1
  <1>2. CASE ~ (x < 0)
    <2> DEFINE q == x \div 2
    <2>1. trunc(x) = 2 * q /\ q \in Int /\ 2 * q <= x /\ x <= 2 * q + 1
      BY <1>2 DEF trunc
    <2> HIDE DEF q
    <2>. QED
      BY <2>1, <1>2
  <1>. QED
    BY <1>1, <1>2

\* Zero and one are numbers of double.
LEMMA SmallFinite ==
    0 \in Finite /\ 2 \in Finite
  <1>1. W + 1 \in Nat /\ 1 \in 0 .. W + 1 /\ 0 \in 0 .. W + 1 /\ M \in Nat
    BY Widths
  <1>2. Pow2[M] \in Nat /\ Pow2[M] >= 2
    <2>1. Pow2[0] = 1 /\ 2 * Pow2[0] <= Pow2[M]
      BY Widths, Pow2Step, Pow2Greater
    <2>. QED
      BY <2>1, Widths, Pow2Positive
  <1>3. Pow2[W + 1] \in Nat /\ Pow2[W + 1] >= 2
    <2>1. Pow2[0] = 1 /\ 2 * Pow2[0] <= Pow2[W + 1]
      BY Widths, Pow2Step, Pow2Greater
    <2>. QED
      BY <2>1, <1>1, Pow2Positive
  <1>4. Fits(0, M)
    <2>1. 0 \in 0 .. Pow2[M] - 1 /\ Abs(0) = 0 * Pow2[0]
      BY <1>2, Pow2Step DEF Abs
    <2>. QED
      BY <1>1, <2>1 DEF Fits
  <1>5. Fits(2, M)
    <2>1. Pow2[0 + 1] = 2 * Pow2[0] /\ Pow2[0] = 1
      BY Pow2Step
    <2>2. 1 \in 0 .. Pow2[M] - 1 /\ Abs(2) = 1 * Pow2[1]
      BY <1>2, <2>1 DEF Abs
    <2>. QED
      BY <1>1, <2>2 DEF Fits
  <1>. QED
    BY <1>3, <1>4, <1>5 DEF Finite

\* An integer becomes a finite double, and itself if it is one.
LEMMA Rounded ==
    ASSUME NEW n \in Int
    PROVE  RoundToDouble(n) \in Finite /\ (n \in Finite => RoundToDouble(n) = n)
  <1> DEFINE nearest == {x \in Finite : \A y \in Finite : Abs(n - x) <= Abs(n - y)}
             Even(x) == (\E y \in nearest : Fits(y, M - 1)) => Fits(x, M - 1)
  <1>1. Finite \subseteq Int
    <2>1. Pow2[W + 1] \in Nat
      BY Widths, Pow2Positive
    <2>. QED
      BY <2>1 DEF Finite
  <1>2. \A x \in Int : Abs(n - x) \in Nat /\ (Abs(n - x) = 0 <=> x = n)
    BY DEF Abs
  <1>3. nearest # {}
    <2> DEFINE S == {d \in Nat : \E x \in Finite : Abs(n - x) = d}
    <2>1. S \in SUBSET Nat /\ S # {}
      BY <1>1, <1>2, SmallFinite
    <2>2. PICK d \in S : \A e \in S : d <= e
      <3> HIDE DEF S
      <3>. QED
        BY <2>1, LeastNumber
    <2>3. PICK x \in Finite : Abs(n - x) = d
      BY <2>2
    <2>4. \A y \in Finite : Abs(n - y) \in S
      BY <1>1, <1>2
    <2>5. x \in nearest
      BY <2>2, <2>3, <2>4
    <2>. QED
      BY <2>5
  <1>4. \E x \in nearest : Even(x)
    <2> HIDE DEF nearest
    <2>. QED
      BY <1>3
  <1>5. RoundToDouble(n) = CHOOSE x \in nearest : Even(x)
    BY DEF RoundToDouble
  <1>6. RoundToDouble(n) \in nearest
    <2> HIDE DEF nearest, Even
    <2>. QED
      BY <1>4, <1>5
  <1>7. ASSUME n \in Finite PROVE RoundToDouble(n) = n
    <2> DEFINE r == RoundToDouble(n)
    <2>1. r \in Finite /\ Abs(n - r) <= Abs(n - n)
      BY <1>6, <1>7
    <2> HIDE DEF r
    <2>2. Abs(n - n) = 0 /\ Abs(n - r) \in Nat /\ (Abs(n - r) = 0 <=> r = n)
      BY <1>1, <1>2, <2>1
    <2>3. r = n
      BY <2>1, <2>2
    <2>. QED
      BY <2>3 DEF r
  <1>. QED
    BY <1>6, <1>7

\* An integer other than the least one has few enough significant bits if and
\* only if it is a number of double.
LEMMA SintFinite ==
    ASSUME NEW n \in Sint(W), n # -Pow2[W]
    PROVE  significant_bit_count(Abs(n) \div 2) <= M <=> n \in Finite
  <1> DEFINE a == Abs(n) \div 2
  <1>1. n \in Int /\ -Pow2[W] <= n /\ n <= Pow2[W] - 2
    BY Widths, SintRange
  <1>2. PICK i \in Int : n = 2 * i
    BY <1>1, Widths, SintRange
  <1>3. a \in Nat /\ Abs(n) = 2 * a /\ a < Pow2[W]
    BY <1>1, <1>2, Widths DEF Abs
  <1>4. n \in Finite <=> Fits(n, M)
    <2>1. Pow2[W + 1] = 2 * Pow2[W]
      BY Widths, Pow2Step
    <2>2. n \in -Pow2[W + 1] .. Pow2[W + 1]
      BY <1>1, <2>1, Widths
    <2>. QED
      BY <2>2 DEF Finite
  <1> HIDE DEF a
  <1>5. CASE a = 0
    <2>1. n = 0
      BY <1>1, <1>3, <1>5 DEF Abs
    <2>2. significant_bit_count(a) <= M
      BY <1>5, Widths DEF significant_bit_count
    <2>. QED
      BY <2>1, <2>2, SmallFinite DEF a
  <1>6. CASE a # 0
    <2>1. a \in 1 .. Pow2[W] - 1
      BY <1>3, <1>6, Widths
    <2>2. significant_bit_count(a) <= M <=> Fits(2 * a, M)
      BY <2>1, Widths, SignificantFits
    <2>3. Abs(2 * a) = 2 * a
      BY <1>3 DEF Abs
    <2>4. Fits(2 * a, M) <=> Fits(n, M)
      BY <1>3, <2>3 DEF Fits
    <2>. QED
      BY <1>4, <2>2, <2>4 DEF a
  <1>. QED
    BY <1>5, <1>6

\* A number in the range of an integer becomes it without its fraction; of one
\* out of range nothing certain becomes.
LEMMA DoubleToSintRange ==
    ASSUME NEW w \in Nat, w >= 1, NEW x \in Int
    PROVE  /\ DoubleToSint(x, w) \subseteq Sint(w)
           /\ -Pow2[w] <= x /\ x <= Pow2[w] - 2 => DoubleToSint(x, w) = {trunc(x)}
           /\ (\A n \in DoubleToSint(x, w) : n = x)
                <=> trunc(x) = x /\ -Pow2[w] <= x /\ x <= Pow2[w] - 2
  <1> DEFINE h == Pow2[w - 1]
  <1>1. h \in Nat /\ Pow2[w] = 2 * h
    <2>1. w - 1 \in Nat /\ (w - 1) + 1 = w
      OBVIOUS
    <2>2. Pow2[(w - 1) + 1] = 2 * Pow2[w - 1]
      BY <2>1, Pow2Step
    <2>. QED
      BY <2>1, <2>2, Pow2Positive
  <1> HIDE DEF h
  <1> DEFINE y == trunc(x)
  <1>2. y \in Int /\ \E i \in Int : y = 2 * i
    BY Truncated
  <1>3. y \in Sint(w) <=> -Pow2[w] <= y /\ y <= Pow2[w] - 2
    BY <1>2, SintRange
  <1>4. -Pow2[w] <= x /\ x <= Pow2[w] - 2 => y \in Sint(w)
    <2>1. \A l, u \in Int : 2 * l <= x /\ x <= 2 * u => 2 * l <= y /\ y <= 2 * u
      BY Truncated
    <2>2. -h \in Int /\ h - 1 \in Int /\ 2 * (-h) = -Pow2[w] /\ 2 * (h - 1) = Pow2[w] - 2
      BY <1>1
    <2>3. 2 * (-h) <= x /\ x <= 2 * (h - 1) => 2 * (-h) <= y /\ y <= 2 * (h - 1)
      BY <2>1, <2>2
    <2>. QED
      BY <1>3, <2>2, <2>3
  <1>5. DoubleToSint(x, w) = IF y \in Sint(w) THEN {y} ELSE Sint(w)
    BY DEF DoubleToSint
  <1> HIDE DEF y
  <1>6. DoubleToSint(x, w) \subseteq Sint(w)
    BY <1>5
  <1>7. -Pow2[w] <= x /\ x <= Pow2[w] - 2 => DoubleToSint(x, w) = {y}
    BY <1>4, <1>5
  <1>8. ASSUME \A n \in DoubleToSint(x, w) : n = x
        PROVE  y = x /\ -Pow2[w] <= x /\ x <= Pow2[w] - 2
    <2>1. y \in Sint(w)
      <3>1. SUFFICES ASSUME y \notin Sint(w) PROVE FALSE
        OBVIOUS
      <3>2. 0 = x /\ -2 = x
        BY <1>5, <1>8, <3>1, SintRange
      <3>. QED
        BY <3>2
    <2>. QED
      BY <1>3, <1>5, <1>8, <2>1
  <1>9. ASSUME y = x, -Pow2[w] <= x, x <= Pow2[w] - 2
        PROVE  \A n \in DoubleToSint(x, w) : n = x
    BY <1>7, <1>9
  <1>. QED
    BY <1>6, <1>7, <1>8, <1>9 DEF y

-----------------------------------------------------------------------------
\* The table of conversions and what they give.

\* What a Data is.
LEMMA ValueKinds ==
    ASSUME NEW d \in Values
    PROVE  /\ d = Value(d.cpp, d.num) /\ d.num \in Int
           /\ \/ d.cpp = "int64_t" /\ d.num \in Sint(W)
              \/ d.cpp = "int8_t" /\ d.num \in Sint(C)
              \/ d.cpp = "char" /\ d.num \in Sint(C)
              \/ d.cpp = "double" /\ d.num \in Double
              \/ d.cpp = "bool" /\ d.num \in {0, 2}
              \/ d.cpp = "Void_c" /\ d.num = 0
  <1>1. Sint(W) \subseteq Int /\ Sint(C) \subseteq Int
    BY Widths, SintRange
  <1>2. Double \subseteq Int
    <2>1. W + 1 \in Nat /\ W + 2 \in Nat
      BY Widths
    <2>2. Pow2[W + 1] \in Nat /\ Pow2[W + 2] \in Nat
      BY <2>1, Pow2Positive
    <2>3. Finite \subseteq Int
      BY <2>2 DEF Finite
    <2>4. Infinity \in Int /\ -Infinity \in Int /\ NaN \in Int
      BY <2>2 DEF Infinity, NaN
    <2>. QED
      BY <2>3, <2>4 DEF Double
  <1>3. \/ \E n \in Sint(W) : d = Value("int64_t", n)
        \/ \E n \in Sint(C) : d = Value("int8_t", n)
        \/ \E n \in Sint(C) : d = Value("char", n)
        \/ \E x \in Double : d = Value("double", x)
        \/ \E b \in {0, 2} : d = Value("bool", b)
        \/ d = Value("Void_c", 0)
    BY DEF Values
  <1>4. CASE \E n \in Sint(W) : d = Value("int64_t", n)
    BY <1>1, <1>4 DEF Value
  <1>5. CASE \E n \in Sint(C) : d = Value("int8_t", n)
    BY <1>1, <1>5 DEF Value
  <1>6. CASE \E n \in Sint(C) : d = Value("char", n)
    BY <1>1, <1>6 DEF Value
  <1>7. CASE \E x \in Double : d = Value("double", x)
    BY <1>2, <1>7 DEF Value
  <1>8. CASE \E b \in {0, 2} : d = Value("bool", b)
    BY <1>8 DEF Value
  <1>9. CASE d = Value("Void_c", 0)
    BY <1>9 DEF Value
  <1>. QED
    BY <1>3, <1>4, <1>5, <1>6, <1>7, <1>8, <1>9

\* What is a Data.
LEMMA ValuesAre ==
    /\ \A n \in Sint(W) : Value("int64_t", n) \in Values
    /\ \A n \in Sint(C) : Value("char", n) \in Values
    /\ \A x \in Finite : Value("double", x) \in Values
    /\ \A b \in {0, 2} : Value("bool", b) \in Values
    /\ Value("Void_c", 0) \in Values
  BY DEF Values, Double

\* The type of a Data.
LEMMA TypesOfValues ==
    \A d : /\ d.cpp = "int64_t" => abstract_type_of(d) = "Sint64"
           /\ d.cpp = "int8_t" => abstract_type_of(d) = "Sint8"
           /\ d.cpp = "char" => abstract_type_of(d) = "Term"
           /\ d.cpp = "double" => abstract_type_of(d) = "Float64"
           /\ d.cpp = "bool" => abstract_type_of(d) = "Bool"
           /\ d.cpp = "Void_c" => abstract_type_of(d) = "VoidType"
  BY DEF abstract_type_of, TypeOfCpp

\* The rows of the table are the identities and those between the four types
\* of numbers.
LEMMA Rows ==
    ASSUME NEW c \in Builtin
    PROVE  \/ c.source = c.target /\ c.flags = IDENTITY
           \/ /\ c.target = "Bool" /\ c.source \in {"Sint64", "Float64", "Sint8"}
              /\ c.flags = SURJECTIVE_LOSSY
           \/ c.target = "Float64" /\ c.source = "Sint64" /\ c.flags = CONDITIONALLY_LOSSY
           \/ c.target = "Sint64" /\ c.source = "Float64" /\ c.flags = CONDITIONALLY_LOSSY
           \/ /\ c.target = "Sint8" /\ c.source \in {"Sint64", "Float64"}
              /\ c.flags = SURJECTIVE_LOSSY
           \/ c.target \in {"Sint64", "Float64"} /\ c.source = "Sint8" /\ c.flags = INJECTIVE
           \/ /\ c.target \in {"Sint64", "Float64", "Sint8"} /\ c.source = "Bool"
              /\ c.flags = INJECTIVE
  <1>1. CASE \E t \in IdentityTypes : c = Row(t, t, IDENTITY)
    BY <1>1 DEF Row
  <1>2. CASE c \in {Row("Sint64", "Float64", CONDITIONALLY_LOSSY),
                    Row("Sint64", "Sint8", SURJECTIVE_LOSSY),
                    Row("Sint64", "Bool", SURJECTIVE_LOSSY)}
    BY <1>2 DEF Row
  <1>3. CASE c \in {Row("Float64", "Sint64", CONDITIONALLY_LOSSY),
                    Row("Float64", "Sint8", SURJECTIVE_LOSSY),
                    Row("Float64", "Bool", SURJECTIVE_LOSSY)}
    BY <1>3 DEF Row
  <1>4. CASE c \in {Row("Sint8", "Sint64", INJECTIVE),
                    Row("Sint8", "Float64", INJECTIVE),
                    Row("Sint8", "Bool", SURJECTIVE_LOSSY)}
    BY <1>4 DEF Row
  <1>5. CASE c \in {Row("Bool", "Sint64", INJECTIVE),
                    Row("Bool", "Float64", INJECTIVE),
                    Row("Bool", "Sint8", INJECTIVE)}
    BY <1>5 DEF Row
  <1>. QED
    BY <1>1, <1>2, <1>3, <1>4, <1>5 DEF Builtin

\* The flags of a row say whether its evaluation may be refused.
LEMMA Flags ==
    /\ \A c : c.flags = IDENTITY \/ c.flags = INJECTIVE =>
                 "CONDITIONALLY_LOSSY" \notin c.flags
    /\ \A c : c.flags = SURJECTIVE_LOSSY \/ c.flags = CONDITIONALLY_LOSSY =>
                 "CONDITIONALLY_LOSSY" \in c.flags
    /\ \A c, d : c.flags = SURJECTIVE_LOSSY \/ c.flags = CONDITIONALLY_LOSSY =>
                 (quality_check(c, d) <=> NotLossy(c.target, d))
  BY DEF IDENTITY, INJECTIVE, SURJECTIVE_LOSSY, CONDITIONALLY_LOSSY, quality_check

\* What the rows give for a Data of their source.
Unconverted(c, d) ==
    c.target = abstract_type_of(d) /\ c.flags = IDENTITY /\ Eval(c.target, d) = {d}
NotCast(c, d) ==
    d.cpp = "int8_t" /\ Eval(c.target, d) = {}
ToBool(c, d) ==
    /\ c.target = "Bool" /\ c.flags = SURJECTIVE_LOSSY
    /\ Eval(c.target, d) = {Value("bool", IF d.num = 0 THEN 0 ELSE 2)}
IntToDouble(c, d) ==
    /\ c.target = "Float64" /\ d.num \in Sint(W) /\ c.flags = CONDITIONALLY_LOSSY
    /\ Eval(c.target, d) = {Value("double", RoundToDouble(d.num))}
BoolToDouble(c, d) ==
    /\ c.target = "Float64" /\ d.num \in {0, 2} /\ c.flags = INJECTIVE
    /\ Eval(c.target, d) = {Value("double", RoundToDouble(d.num))}
IntToChar(c, d) ==
    /\ c.target = "Sint8" /\ d.num \in Sint(W) /\ c.flags = SURJECTIVE_LOSSY
    /\ Eval(c.target, d) = {Value("char", Wrap(d.num, C))}
BoolToChar(c, d) ==
    /\ c.target = "Sint8" /\ d.num \in {0, 2} /\ c.flags = INJECTIVE
    /\ Eval(c.target, d) = {Value("char", Wrap(d.num, C))}
BoolToInt(c, d) ==
    /\ c.target = "Sint64" /\ d.num \in {0, 2} /\ c.flags = INJECTIVE
    /\ Eval(c.target, d) = {Value("int64_t", d.num)}
DoubleToInt(c, d) ==
    /\ c.target = "Sint64" /\ c.flags = CONDITIONALLY_LOSSY
    /\ Eval(c.target, d) = {Value("int64_t", n) : n \in DoubleToSint(d.num, W)}
DoubleToChar(c, d) ==
    /\ c.target = "Sint8" /\ c.source = "Float64" /\ c.flags = SURJECTIVE_LOSSY
    /\ Eval(c.target, d) = {Value("char", n) : n \in DoubleToSint(d.num, C)}

\* Every conversion of the table is one of these, and only doubles, integers
\* and booleans become something else.
LEMMA Evaluations ==
    ASSUME NEW d \in Values, NEW c \in Builtin, c.source = abstract_type_of(d)
    PROVE  \/ Unconverted(c, d)
           \/ NotCast(c, d)
           \/ /\ d.cpp \in {"int64_t", "double", "bool"}
              /\ \/ ToBool(c, d)
                 \/ IntToDouble(c, d)
                 \/ BoolToDouble(c, d)
                 \/ IntToChar(c, d)
                 \/ BoolToChar(c, d)
                 \/ BoolToInt(c, d)
                 \/ DoubleToInt(c, d)
                 \/ DoubleToChar(c, d)
  <1> DEFINE s == abstract_type_of(d)
  <1>1. /\ d.cpp = "int64_t" => s = "Sint64"
        /\ d.cpp = "int8_t" => s = "Sint8"
        /\ d.cpp = "char" => s = "Term"
        /\ d.cpp = "double" => s = "Float64"
        /\ d.cpp = "bool" => s = "Bool"
        /\ d.cpp = "Void_c" => s = "VoidType"
    BY TypesOfValues
  <1>2. c.source = s
    OBVIOUS
  <1>3. /\ s = c.target => Eval(c.target, d) = {d}
        /\ s # c.target /\ d.cpp = "int8_t" => Eval(c.target, d) = {}
    <2>1. ASSUME s = c.target PROVE Eval(c.target, d) = {d}
      <3>1. CASE d.cpp = "bool"
        <4>1. d = Value("bool", d.num) /\ d.num \in {0, 2}
          BY <3>1, ValueKinds
        <4>2. d = Value("bool", IF d.num = 0 THEN 0 ELSE 2)
          BY <4>1
        <4>3. c.target = "Bool" /\ s = "Bool"
          BY <1>1, <2>1, <3>1
        <4>. QED
          BY <2>1, <3>1, <4>2, <4>3 DEF Eval
      <3>2. CASE d.cpp # "bool"
        <4>1. d.cpp \in {"int64_t", "int8_t", "char", "double", "bool", "Void_c"}
          BY ValueKinds
        <4>. QED
          BY <1>1, <2>1, <3>2, <4>1 DEF Eval
      <3>. QED
        BY <3>1, <3>2
    <2>2. ASSUME s # c.target, d.cpp = "int8_t" PROVE Eval(c.target, d) = {}
      BY <2>2 DEF Eval
    <2>. QED
      BY <2>1, <2>2
  <1>4. ASSUME s # c.target, d.cpp # "int8_t"
        PROVE  /\ c.target = "Bool" =>
                    Eval(c.target, d) = {Value("bool", IF d.num = 0 THEN 0 ELSE 2)}
               /\ c.target = "Float64" /\ d.cpp \in {"int64_t", "bool"} =>
                    Eval(c.target, d) = {Value("double", RoundToDouble(d.num))}
               /\ c.target = "Sint8" /\ d.cpp \in {"int64_t", "bool"} =>
                    Eval(c.target, d) = {Value("char", Wrap(d.num, C))}
               /\ c.target = "Sint64" /\ d.cpp = "bool" =>
                    Eval(c.target, d) = {Value("int64_t", d.num)}
               /\ c.target = "Sint64" /\ d.cpp = "double" =>
                    Eval(c.target, d) = {Value("int64_t", n) : n \in DoubleToSint(d.num, W)}
               /\ c.target = "Sint8" /\ d.cpp = "double" =>
                    Eval(c.target, d) = {Value("char", n) : n \in DoubleToSint(d.num, C)}
    <2>1. CASE c.target = "Bool"
      BY <1>4, <2>1 DEF Eval
    <2>2. CASE c.target = "Float64" /\ d.cpp \in {"int64_t", "bool"}
      BY <1>4, <2>2 DEF Eval
    <2>3. CASE c.target = "Sint8" /\ d.cpp \in {"int64_t", "bool"}
      BY <1>4, <2>3 DEF Eval
    <2>4. CASE c.target = "Sint64" /\ d.cpp = "bool"
      BY <1>4, <2>4 DEF Eval
    <2>5. CASE c.target = "Sint64" /\ d.cpp = "double"
      BY <1>4, <2>5 DEF Eval
    <2>6. CASE c.target = "Sint8" /\ d.cpp = "double"
      BY <1>4, <2>6 DEF Eval
    <2>. QED
      BY <2>1, <2>2, <2>3, <2>4, <2>5, <2>6
  <1> HIDE DEF s
  <1>5. CASE s = c.target
    <2>1. c.flags = IDENTITY
      BY <1>2, <1>5, Rows
    <2>. QED
      BY <1>3, <1>5, <2>1 DEF Unconverted, s
  <1>6. CASE s # c.target /\ d.cpp = "int8_t"
    BY <1>3, <1>6 DEF NotCast
  <1>7. CASE s # c.target /\ d.cpp = "int64_t"
    <2>1. s = "Sint64" /\ d.num \in Sint(W)
      BY <1>1, <1>7, ValueKinds
    <2>2. \/ c.target = "Bool" /\ c.flags = SURJECTIVE_LOSSY
          \/ c.target = "Float64" /\ c.flags = CONDITIONALLY_LOSSY
          \/ c.target = "Sint8" /\ c.flags = SURJECTIVE_LOSSY
      BY <1>2, <1>7, <2>1, Rows
    <2>. QED
      BY <1>4, <1>7, <2>1, <2>2 DEF ToBool, IntToDouble, IntToChar
  <1>8. CASE s # c.target /\ d.cpp = "double"
    <2>1. s = "Float64"
      BY <1>1, <1>8
    <2>2. \/ c.target = "Bool" /\ c.flags = SURJECTIVE_LOSSY
          \/ c.target = "Sint64" /\ c.flags = CONDITIONALLY_LOSSY
          \/ c.target = "Sint8" /\ c.flags = SURJECTIVE_LOSSY
      BY <1>2, <1>8, <2>1, Rows
    <2>. QED
      BY <1>2, <1>4, <1>8, <2>1, <2>2 DEF ToBool, DoubleToInt, DoubleToChar
  <1>9. CASE s # c.target /\ d.cpp = "bool"
    <2>1. s = "Bool" /\ d.num \in {0, 2}
      BY <1>1, <1>9, ValueKinds
    <2>2. c.target \in {"Sint64", "Float64", "Sint8"} /\ c.flags = INJECTIVE
      BY <1>2, <1>9, <2>1, Rows
    <2>. QED
      BY <1>4, <1>9, <2>1, <2>2 DEF BoolToInt, BoolToDouble, BoolToChar
  <1>10. CASE s # c.target /\ d.cpp \in {"char", "Void_c"}
    <2>1. s \in {"Term", "VoidType"}
      BY <1>1, <1>10
    <2>2. FALSE
      BY <1>2, <1>10, <2>1, Rows
    <2>. QED
      BY <2>2
  <1>. QED
    BY <1>5, <1>6, <1>7, <1>8, <1>9, <1>10, ValueKinds

\* What comes out of a conversion is a Data again, of the type asked for;
\* only for Sint8 it is a char, which has not that type.
LEMMA Converted ==
    ASSUME NEW d \in Values, NEW c \in Builtin, c.source = abstract_type_of(d),
           NEW r \in Eval(c.target, d)
    PROVE  r \in Values /\ (abstract_type_of(r) = c.target \/ c.target = "Sint8")
  <1>1. d.num \in Int /\ W \in Nat /\ W >= 1 /\ C \in Nat /\ C >= 1
    BY ValueKinds, Widths
  <1>2. CASE Unconverted(c, d)
    BY <1>2 DEF Unconverted
  <1>3. CASE NotCast(c, d)
    BY <1>3 DEF NotCast
  <1>4. CASE ToBool(c, d)
    <2>1. r.cpp = "bool" /\ c.target = "Bool" /\ r \in Values
      BY <1>4, ValuesAre DEF ToBool, Value
    <2>. QED
      BY <2>1, TypesOfValues
  <1>5. CASE IntToDouble(c, d) \/ BoolToDouble(c, d)
    <2>1. r = Value("double", RoundToDouble(d.num)) /\ c.target = "Float64"
      BY <1>5 DEF IntToDouble, BoolToDouble
    <2>2. r.cpp = "double" /\ r \in Values
      BY <1>1, <2>1, Rounded, ValuesAre DEF Value
    <2>. QED
      BY <2>1, <2>2, TypesOfValues
  <1>6. CASE IntToChar(c, d) \/ BoolToChar(c, d)
    <2>1. r = Value("char", Wrap(d.num, C)) /\ c.target = "Sint8"
      BY <1>6 DEF IntToChar, BoolToChar
    <2>2. PICK i \in Int : d.num = 2 * i
      <3>1. d.num \in Sint(W) \/ d.num \in {0, 2}
        BY <1>6 DEF IntToChar, BoolToChar
      <3>2. CASE d.num \in Sint(W)
        BY <1>1, <3>2, SintRange
      <3>3. CASE d.num \in {0, 2}
        <4>1. 0 = 2 * 0 /\ 2 = 2 * 1
          OBVIOUS
        <4>. QED
          BY <3>3, <4>1
      <3>. QED
        BY <3>1, <3>2, <3>3
    <2>3. Wrap(d.num, C) \in Sint(C)
      BY <1>1, <2>2, WrapFits
    <2>. QED
      BY <2>1, <2>3, ValuesAre
  <1>7. CASE BoolToInt(c, d)
    <2>1. r = Value("int64_t", d.num) /\ c.target = "Sint64" /\ d.num \in {0, 2}
      BY <1>7 DEF BoolToInt
    <2>2. 0 \in Sint(W) /\ 2 \in Sint(W)
      <3>1. Pow2[W - 1] >= 2
        <4>1. Pow2[0] = 1 /\ 2 * Pow2[0] <= Pow2[W - 1]
          BY Widths, Pow2Step, Pow2Greater
        <4>. QED
          BY <4>1, Widths
      <3>2. 0 = 2 * 0 /\ 2 = 2 * 1 /\ 2 <= Pow2[W] - 2 /\ -Pow2[W] <= 0
        BY <3>1, Widths
      <3>. QED
        BY <1>1, <3>2, Widths, SintRange
    <2>3. r.cpp = "int64_t" /\ r \in Values
      BY <2>1, <2>2, ValuesAre DEF Value
    <2>. QED
      BY <2>1, <2>3, TypesOfValues
  <1>8. CASE DoubleToInt(c, d)
    <2>1. PICK n \in DoubleToSint(d.num, W) : r = Value("int64_t", n)
      BY <1>8 DEF DoubleToInt
    <2>2. n \in Sint(W) /\ c.target = "Sint64"
      BY <1>1, <1>8, DoubleToSintRange DEF DoubleToInt
    <2>3. r.cpp = "int64_t" /\ r \in Values
      BY <2>1, <2>2, ValuesAre DEF Value
    <2>. QED
      BY <2>2, <2>3, TypesOfValues
  <1>9. CASE DoubleToChar(c, d)
    <2>1. PICK n \in DoubleToSint(d.num, C) : r = Value("char", n)
      BY <1>9 DEF DoubleToChar
    <2>2. n \in Sint(C) /\ c.target = "Sint8"
      BY <1>1, <1>9, DoubleToSintRange DEF DoubleToChar
    <2>. QED
      BY <2>1, <2>2, ValuesAre
  <1>. QED
    BY <1>2, <1>3, <1>4, <1>5, <1>6, <1>7, <1>8, <1>9, Evaluations

\* The QualityCheck of a row that may be lossy says whether its evaluation
\* keeps the number, with the two exceptions of the code.
LEMMA Judged ==
    ASSUME NEW d \in Values, NEW c \in Builtin, c.source = abstract_type_of(d),
           "CONDITIONALLY_LOSSY" \in c.flags
    PROVE  \/ quality_check(c, d) <=> \A r \in Eval(c.target, d) : r.num = d.num
           \/ c.target = "Float64" /\ d.num = -Pow2[W]
           \/ /\ c.source = "Float64" /\ c.target = "Sint8"
              /\ trunc(d.num) # d.num
           \/ Eval(c.target, d) = {}
  <1> DEFINE x == d.num
  <1>1. x \in Int /\ W \in Nat /\ W >= 1 /\ C \in Nat /\ C >= 1
    BY ValueKinds, Widths
  <1>2. /\ c.flags # IDENTITY /\ c.flags # INJECTIVE
        /\ c.flags = SURJECTIVE_LOSSY \/ c.flags = CONDITIONALLY_LOSSY =>
              (quality_check(c, d) <=> NotLossy(c.target, d))
    BY Flags
  <1>3. CASE NotCast(c, d)
    BY <1>3 DEF NotCast
  <1>4. CASE ToBool(c, d)
    <2>1. quality_check(c, d) <=> x \in {0, 2}
      BY <1>2, <1>4 DEF ToBool, NotLossy
    <2>2. Eval(c.target, d) = {Value("bool", IF x = 0 THEN 0 ELSE 2)}
      BY <1>4 DEF ToBool
    <2>3. (\A r \in Eval(c.target, d) : r.num = x) <=> (IF x = 0 THEN 0 ELSE 2) = x
      BY <2>2 DEF Value
    <2>. QED
      BY <2>1, <2>3
  <1>5. CASE IntToDouble(c, d)
    <2>1. Eval(c.target, d) = {Value("double", RoundToDouble(x))} /\ x \in Sint(W)
      BY <1>5 DEF IntToDouble
    <2>2. (\A r \in Eval(c.target, d) : r.num = x) <=> RoundToDouble(x) = x
      BY <2>1 DEF Value
    <2>3. quality_check(c, d)
            <=> x # -Pow2[W] /\ significant_bit_count(Abs(x) \div 2) <= M
      BY <1>2, <1>5 DEF IntToDouble, NotLossy
    <2>4. RoundToDouble(x) = x <=> x \in Finite
      BY <1>1, Rounded
    <2>5. CASE x = -Pow2[W]
      BY <1>5, <2>5 DEF IntToDouble
    <2>6. CASE x # -Pow2[W]
      <3>1. significant_bit_count(Abs(x) \div 2) <= M <=> x \in Finite
        BY <2>1, <2>6, SintFinite
      <3>. QED
        BY <2>2, <2>3, <2>4, <2>6, <3>1
    <2>. QED
      BY <2>5, <2>6
  <1>6. CASE IntToChar(c, d)
    <2>1. Eval(c.target, d) = {Value("char", Wrap(x, C))} /\ x \in Sint(W)
      BY <1>6 DEF IntToChar
    <2>2. (\A r \in Eval(c.target, d) : r.num = x) <=> Wrap(x, C) = x
      BY <2>1 DEF Value
    <2>3. quality_check(c, d) <=> -Pow2[C] <= x /\ x <= Pow2[C] - 2
      BY <1>2, <1>6 DEF IntToChar, NotLossy
    <2>4. PICK i \in Int : x = 2 * i
      BY <1>1, <2>1, SintRange
    <2>5. Wrap(x, C) = x <=> -Pow2[C] <= x /\ x <= Pow2[C] - 2
      <3> HIDE DEF x
      <3>. QED
        BY <1>1, <2>4, WrapFits
    <2>. QED
      BY <2>2, <2>3, <2>5
  <1>7. CASE DoubleToInt(c, d)
    <2>1. Eval(c.target, d) = {Value("int64_t", n) : n \in DoubleToSint(x, W)}
      BY <1>7 DEF DoubleToInt
    <2>2. (\A r \in Eval(c.target, d) : r.num = x) <=> \A n \in DoubleToSint(x, W) : n = x
      <3> DEFINE results == DoubleToSint(x, W)
      <3> HIDE DEF results
      <3>1. ASSUME NEW n \in results PROVE Value("int64_t", n) \in Eval(c.target, d)
        BY <2>1 DEF results
      <3>2. ASSUME NEW r \in Eval(c.target, d)
            PROVE  \E n \in results : r = Value("int64_t", n)
        BY <2>1 DEF results
      <3>3. \A n : Value("int64_t", n).num = n
        BY DEF Value
      <3>4. ASSUME \A r \in Eval(c.target, d) : r.num = x, NEW n \in results PROVE n = x
        BY <3>1, <3>3, <3>4
      <3>5. ASSUME \A n \in results : n = x, NEW r \in Eval(c.target, d) PROVE r.num = x
        BY <3>2, <3>3, <3>5
      <3>. QED
        BY <3>4, <3>5 DEF results
    <2>3. quality_check(c, d) <=> trunc(x) = x /\ -Pow2[W] <= x /\ x < Pow2[W]
      BY <1>2, <1>7 DEF DoubleToInt, NotLossy
    <2>4. (\A n \in DoubleToSint(x, W) : n = x)
            <=> trunc(x) = x /\ -Pow2[W] <= x /\ x <= Pow2[W] - 2
      BY <1>1, DoubleToSintRange
    <2>5. trunc(x) = x => (x < Pow2[W] <=> x <= Pow2[W] - 2)
      <3>1. PICK i \in Int : trunc(x) = 2 * i
        BY <1>1, Truncated
      <3>. QED
        BY <1>1, <3>1, Widths
    <2>. QED
      BY <2>2, <2>3, <2>4, <2>5
  <1>8. CASE DoubleToChar(c, d)
    <2>1. Eval(c.target, d) = {Value("char", n) : n \in DoubleToSint(x, C)}
      BY <1>8 DEF DoubleToChar
    <2>2. (\A r \in Eval(c.target, d) : r.num = x) <=> \A n \in DoubleToSint(x, C) : n = x
      <3> DEFINE results == DoubleToSint(x, C)
      <3> HIDE DEF results
      <3>1. ASSUME NEW n \in results PROVE Value("char", n) \in Eval(c.target, d)
        BY <2>1 DEF results
      <3>2. ASSUME NEW r \in Eval(c.target, d)
            PROVE  \E n \in results : r = Value("char", n)
        BY <2>1 DEF results
      <3>3. \A n : Value("char", n).num = n
        BY DEF Value
      <3>4. ASSUME \A r \in Eval(c.target, d) : r.num = x, NEW n \in results PROVE n = x
        BY <3>1, <3>3, <3>4
      <3>5. ASSUME \A n \in results : n = x, NEW r \in Eval(c.target, d) PROVE r.num = x
        BY <3>2, <3>3, <3>5
      <3>. QED
        BY <3>4, <3>5 DEF results
    <2>3. quality_check(c, d) <=> -Pow2[C] <= x /\ x <= Pow2[C] - 2
      BY <1>2, <1>8 DEF DoubleToChar, NotLossy
    <2>4. (\A n \in DoubleToSint(x, C) : n = x)
            <=> trunc(x) = x /\ -Pow2[C] <= x /\ x <= Pow2[C] - 2
      BY <1>1, DoubleToSintRange
    <2>5. c.source = "Float64" /\ c.target = "Sint8"
      BY <1>8 DEF DoubleToChar
    <2>. QED
      BY <2>2, <2>3, <2>4, <2>5
  <1>9. ~ Unconverted(c, d) /\ ~ BoolToDouble(c, d) /\ ~ BoolToChar(c, d) /\ ~ BoolToInt(c, d)
    BY <1>2 DEF Unconverted, BoolToDouble, BoolToChar, BoolToInt
  <1>. QED
    BY <1>3, <1>4, <1>5, <1>6, <1>7, <1>8, <1>9, Evaluations

\* A conversion that convert_to accepts keeps the number; only a double that
\* becomes a char may lose its fraction.
LEMMA Accepted ==
    ASSUME NEW d \in Values, NEW c \in Builtin, c.source = abstract_type_of(d),
           "CONDITIONALLY_LOSSY" \in c.flags => quality_check(c, d),
           NEW r \in Eval(c.target, d)
    PROVE  \/ r = d
           \/ /\ d.cpp \in {"int64_t", "double", "bool"}
              /\ r.num = d.num \/ (r.cpp = "char" /\ r.num = trunc(d.num))
  <1> DEFINE x == d.num
  <1>1. x \in Int /\ W \in Nat /\ W >= 1 /\ C \in Nat /\ C >= 1
    BY ValueKinds, Widths
  <1>2. c.flags = SURJECTIVE_LOSSY \/ c.flags = CONDITIONALLY_LOSSY => NotLossy(c.target, d)
    BY Flags
  <1>3. Unconverted(c, d) => r = d
    BY DEF Unconverted
  <1>4. ~ NotCast(c, d)
    BY DEF NotCast
  <1>5. ASSUME ToBool(c, d) PROVE r.num = x
    <2>1. x \in {0, 2}
      BY <1>2, <1>5 DEF ToBool, NotLossy
    <2>. QED
      BY <1>5, <2>1 DEF ToBool, Value
  <1>6. ASSUME IntToDouble(c, d) PROVE r.num = x
    <2>1. x # -Pow2[W] /\ significant_bit_count(Abs(x) \div 2) <= M
      BY <1>2, <1>6 DEF IntToDouble, NotLossy
    <2>2. x \in Sint(W) /\ r.num = RoundToDouble(x)
      BY <1>6 DEF IntToDouble, Value
    <2>3. x \in Finite
      BY <2>1, <2>2, SintFinite
    <2>. QED
      BY <1>1, <2>2, <2>3, Rounded
  <1>7. ASSUME BoolToDouble(c, d) PROVE r.num = x
    <2>1. x \in {0, 2} /\ r.num = RoundToDouble(x)
      BY <1>7 DEF BoolToDouble, Value
    <2>2. x \in Finite
      BY <2>1, SmallFinite
    <2>. QED
      BY <1>1, <2>1, <2>2, Rounded
  <1>8. ASSUME NEW i \in Int, x = 2 * i, -Pow2[C] <= x, x <= Pow2[C] - 2
        PROVE  Wrap(x, C) = x
    <2> HIDE DEF x
    <2>. QED
      BY <1>1, <1>8, WrapFits
  <1>9. ASSUME IntToChar(c, d) PROVE r.num = x
    <2>1. -Pow2[C] <= x /\ x <= Pow2[C] - 2
      BY <1>2, <1>9 DEF IntToChar, NotLossy
    <2>2. x \in Sint(W) /\ r.num = Wrap(x, C)
      BY <1>9 DEF IntToChar, Value
    <2>3. PICK i \in Int : x = 2 * i
      BY <1>1, <2>2, SintRange
    <2>. QED
      BY <1>8, <2>1, <2>2, <2>3
  <1>10. ASSUME BoolToChar(c, d) PROVE r.num = x
    <2>1. x \in {0, 2} /\ r.num = Wrap(x, C)
      BY <1>10 DEF BoolToChar, Value
    <2>2. Pow2[C] \in Nat /\ Pow2[C] >= 4
      <3>1. Pow2[1] = 2
        <4>1. Pow2[0 + 1] = 2 * Pow2[0] /\ Pow2[0] = 1
          BY Pow2Step
        <4>. QED
          BY <4>1
      <3>2. 2 * Pow2[1] <= Pow2[C]
        BY Widths, Pow2Greater
      <3>. QED
        BY <1>1, <3>1, <3>2, Pow2Positive
    <2>3. -Pow2[C] <= x /\ x <= Pow2[C] - 2 /\ \E i \in Int : x = 2 * i
      <3>1. 0 = 2 * 0 /\ 2 = 2 * 1
        OBVIOUS
      <3>. QED
        BY <2>1, <2>2, <3>1
    <2>. QED
      BY <1>8, <2>1, <2>3
  <1>11. ASSUME BoolToInt(c, d) PROVE r.num = x
    BY <1>11 DEF BoolToInt, Value
  <1>12. ASSUME DoubleToInt(c, d) PROVE r.num = x
    <2>1. trunc(x) = x /\ -Pow2[W] <= x /\ x < Pow2[W]
      BY <1>2, <1>12 DEF DoubleToInt, NotLossy
    <2>2. x <= Pow2[W] - 2
      <3>1. PICK i \in Int : trunc(x) = 2 * i
        BY <1>1, Truncated
      <3>. QED
        BY <1>1, <2>1, <3>1, Widths
    <2>3. PICK n \in DoubleToSint(x, W) : r = Value("int64_t", n)
      BY <1>12 DEF DoubleToInt
    <2>4. DoubleToSint(x, W) = {trunc(x)}
      BY <1>1, <2>1, <2>2, DoubleToSintRange
    <2>5. n = x
      BY <2>1, <2>3, <2>4
    <2>. QED
      BY <2>3, <2>5 DEF Value
  <1>13. ASSUME DoubleToChar(c, d) PROVE r.cpp = "char" /\ r.num = trunc(x)
    <2>1. -Pow2[C] <= x /\ x <= Pow2[C] - 2
      BY <1>2, <1>13 DEF DoubleToChar, NotLossy
    <2>2. PICK n \in DoubleToSint(x, C) : r = Value("char", n)
      BY <1>13 DEF DoubleToChar
    <2>3. DoubleToSint(x, C) = {trunc(x)}
      BY <1>1, <2>1, DoubleToSintRange
    <2>4. n = trunc(x)
      BY <2>2, <2>3
    <2>. QED
      BY <2>2, <2>4 DEF Value
  <1>. QED
    BY <1>3, <1>4, <1>5, <1>6, <1>7, <1>9, <1>10, <1>11, <1>12, <1>13, Evaluations

-----------------------------------------------------------------------------
\* The invariant: a Data is one of a C++ type that the library knows, in its
\* range; the table has no rows but the built-in ones; and what a chain of
\* accepted conversions has kept.
Inv == data \in Values /\ m_conversions \subseteq Builtin /\ LosslessChain

\* It holds when the library begins to load.
LEMMA InitInv ==
    Init => Inv
  <1>1. SUFFICES ASSUME Init PROVE Inv
    OBVIOUS
  <1>2. data = Value("Void_c", 0) /\ origin = 0 /\ m_conversions = {}
    BY <1>1 DEF Init
  <1>3. data.num = origin
    BY <1>2 DEF Value
  <1>. QED
    BY <1>2, <1>3, ValuesAre DEF Inv, LosslessChain

\* A row that is found is one of the table, from the type of the Data.
LEMMA FoundRows ==
    ASSUME Inv, NEW t, NEW c \in Found(abstract_type_of(data), t)
    PROVE  c \in Builtin /\ c.source = abstract_type_of(data) /\ c.target = t
  BY DEF Inv, Found

\* No step of the loader, of the callers of convert_to or of the projection
\* breaks it.
LEMMA NextInv ==
    Inv /\ [Next]_vars => Inv'
  <1>1. SUFFICES ASSUME Inv, [Next]_vars PROVE Inv'
    OBVIOUS
  <1>2. data \in Values /\ m_conversions \subseteq Builtin /\ LosslessChain
    BY <1>1 DEF Inv
  <1>3. ASSUME data' = data, origin' = origin, m_conversions' \subseteq Builtin
        PROVE  Inv'
    BY <1>2, <1>3 DEF Inv, LosslessChain
  <1>4. ASSUME data' \in Values, origin' = data'.num, m_conversions' = m_conversions
        PROVE  Inv'
    BY <1>2, <1>4 DEF Inv, LosslessChain
  <1>5. CASE Load
    <2>1. CASE Initialise
      <3>1. data' = data /\ origin' = origin
        BY <2>1 DEF Initialise
      <3>2. m_conversions' = m_conversions \/ m_conversions' = Builtin
        BY <2>1 DEF Initialise
      <3>. QED
        BY <1>2, <1>3, <3>1, <3>2
    <2>2. CASE EnterMain
      BY <1>2, <1>3, <2>2 DEF EnterMain
    <2>. QED
      BY <1>5, <2>1, <2>2 DEF Load
  <1>6. CASE \E d \in Values : Assign(d)
    <2>1. PICK d \in Values : Assign(d)
      BY <1>6
    <2>2. data' \in Values /\ origin' = data'.num /\ m_conversions' = m_conversions
      BY <2>1 DEF Assign
    <2>. QED
      BY <1>4, <2>2
  <1>7. ASSUME NEW t \in Targets, ConvertTo(t) PROVE Inv'
    <2>1. PICK c \in Found(abstract_type_of(data), t) :
              /\ "CONDITIONALLY_LOSSY" \in c.flags => quality_check(c, data)
              /\ data' \in Eval(t, data)
      BY <1>7 DEF ConvertTo
    <2>2. m_conversions' = m_conversions /\ origin' = origin
      BY <1>7 DEF ConvertTo
    <2>3. c \in Builtin /\ c.source = abstract_type_of(data) /\ c.target = t
      BY <1>1, <2>1, FoundRows
    <2> DEFINE r == data'
    <2>4. r \in Eval(c.target, data)
      BY <2>1, <2>3
    <2> HIDE DEF r
    <2>5. r \in Values
      BY <1>2, <2>3, <2>4, Converted
    <2>6. \/ r = data
          \/ /\ data.cpp \in {"int64_t", "double", "bool"}
             /\ r.num = data.num \/ (r.cpp = "char" /\ r.num = trunc(data.num))
      BY <1>2, <2>1, <2>3, <2>4, Accepted
    <2>7. r.num = origin \/ (r.cpp = "char" /\ r.num = trunc(origin))
      BY <1>2, <2>6 DEF LosslessChain
    <2>. QED
      BY <1>2, <2>2, <2>5, <2>7 DEF Inv, LosslessChain, r
  <1>8. ASSUME NEW t, can_convert(abstract_type_of(data), t), data' \in Eval(t, data)
        PROVE  data' \in Values
    <2>1. PICK c \in Found(abstract_type_of(data), t) : TRUE
      BY <1>8 DEF can_convert
    <2>2. c \in Builtin /\ c.source = abstract_type_of(data) /\ c.target = t
      BY <1>1, <2>1, FoundRows
    <2> DEFINE r == data'
    <2>3. r \in Eval(c.target, data)
      BY <1>8, <2>2
    <2> HIDE DEF r
    <2>4. r \in Values
      BY <1>2, <2>2, <2>3, Converted
    <2>. QED
      BY <2>4 DEF r
  <1>9. ASSUME NEW t \in Targets, ConvertLossy(t) PROVE Inv'
    <2>1. /\ can_convert(abstract_type_of(data), t) /\ data' \in Eval(t, data)
          /\ origin' = data'.num /\ m_conversions' = m_conversions
      BY <1>9 DEF ConvertLossy
    <2>. QED
      BY <1>4, <1>8, <2>1
  <1>10. CASE project_with_complement
    BY <1>2, <1>3, <1>10 DEF project_with_complement
  <1>11. ASSUME NEW t \in Targets, AlterView(t) PROVE Inv'
    BY <1>2, <1>3, <1>11 DEF AlterView
  <1>12. CASE embed
    <2>1. /\ can_convert(abstract_type_of(data), view) /\ data' \in Eval(view, data)
          /\ origin' = data'.num /\ m_conversions' = m_conversions
      BY <1>12 DEF embed, can_embed
    <2>. QED
      BY <1>4, <1>8, <2>1
  <1>13. CASE UNCHANGED vars
    BY <1>2, <1>3, <1>13 DEF vars
  <1>. QED
    BY <1>1, <1>5, <1>6, <1>7, <1>9, <1>10, <1>11, <1>12, <1>13 DEF Next

\* It always holds.
THEOREM Invariant ==
    Spec => []Inv
  <1>. QED
    BY InitInv, NextInv, PTL DEF Spec

\* However many conversions convert_to accepts one after the other, whatever
\* the widths of the numbers, the number is the one the chain began with.
THEOREM NothingIsLost ==
    Spec => []LosslessChain
  <1>1. Inv => LosslessChain
    BY DEF Inv
  <1>. QED
    BY <1>1, Invariant, PTL

\* The QualityChecks, the bit counting of which is proved to count the
\* significant bits, refuse exactly what the Evals would alter, with the two
\* exceptions that the property names.
THEOREM QualityIsJudged ==
    Spec => []QualityIsExact
  <1>1. Inv => QualityIsExact
    <2>1. SUFFICES ASSUME Inv, NEW c \in m_conversions, c.source = abstract_type_of(data),
                          "CONDITIONALLY_LOSSY" \in c.flags
                   PROVE  \/ quality_check(c, data)
                             <=> \A r \in Eval(c.target, data) : r.num = data.num
                          \/ c.target = "Float64" /\ data.num = -Pow2[W]
                          \/ /\ c.source = "Float64" /\ c.target = "Sint8"
                             /\ trunc(data.num) # data.num
                          \/ Eval(c.target, data) = {}
      BY DEF QualityIsExact
    <2>2. data \in Values /\ c \in Builtin
      BY <2>1 DEF Inv
    <2>. QED
      BY <2>1, <2>2, Judged
  <1>. QED
    BY <1>1, Invariant, PTL

\* What embed puts into the Data is of the type that the projection shows, but
\* for Sint8.
THEOREM EmbeddedIsProjected ==
    Spec => EmbedThenProject
  <1>1. Inv => (embed => abstract_type_of(data') = view \/ view = "Sint8")
    <2>1. SUFFICES ASSUME Inv, embed
                   PROVE  abstract_type_of(data') = view \/ view = "Sint8"
      OBVIOUS
    <2>2. can_convert(abstract_type_of(data), view) /\ data' \in Eval(view, data)
      BY <2>1 DEF embed, can_embed
    <2>3. PICK c \in Found(abstract_type_of(data), view) : TRUE
      BY <2>2 DEF can_convert
    <2>4. c \in Builtin /\ c.source = abstract_type_of(data) /\ c.target = view
      BY <2>1, <2>3, FoundRows
    <2> DEFINE r == data'
    <2>5. r \in Eval(c.target, data) /\ data \in Values
      BY <2>1, <2>2, <2>4 DEF Inv
    <2> HIDE DEF r
    <2>6. abstract_type_of(r) = c.target \/ c.target = "Sint8"
      BY <2>4, <2>5, Converted
    <2>. QED
      BY <2>4, <2>6 DEF r
  <1>. QED
    BY <1>1, Invariant, PTL DEF EmbedThenProject

-----------------------------------------------------------------------------
\* The loading of the library.

\* The table is there once all initialisers have run, and main begins no
\* earlier.
LoadedInv ==
    /\ phase \in {"loading", "main"}
    /\ loaded \in 0 .. 6
    /\ loaded = 6 => m_conversions = Builtin
    /\ phase = "main" => loaded = 6

\* When the table is filled the types are registered.
LEMMA TypesAreHashable ==
    ASSUME loaded = 5
    PROVE  \A c \in Builtin : {c.source, c.target} \subseteq Hashable
  <1>1. /\ LinkOrder[1] = "ArrayType.cpp" /\ LinkOrder[4] = "NPType.cpp"
        /\ LinkOrder[5] = "OrderedMapType.cpp"
    BY DEF LinkOrder
  <1>2. /\ HashedBy("ArrayType.cpp") = ArrayTypes
        /\ HashedBy("NPType.cpp") = NPTypes
        /\ HashedBy("OrderedMapType.cpp") = OrderedMapTypes
    BY DEF HashedBy
  <1>3. ASSUME NEW i \in 1 .. 5 PROVE HashedBy(LinkOrder[i]) \subseteq Hashable
    BY <1>3 DEF Hashable
  <1>4. IdentityTypes \subseteq Hashable
    <2>1. ArrayTypes \subseteq Hashable
      <3>1. 1 \in 1 .. 5
        OBVIOUS
      <3>. QED
        BY <1>1, <1>2, <1>3, <3>1
    <2>2. NPTypes \subseteq Hashable
      <3>1. 4 \in 1 .. 5
        OBVIOUS
      <3>. QED
        BY <1>1, <1>2, <1>3, <3>1
    <2>3. OrderedMapTypes \subseteq Hashable
      <3>1. 5 \in 1 .. 5
        OBVIOUS
      <3>. QED
        BY <1>1, <1>2, <1>3, <3>1
    <2>. QED
      BY <2>1, <2>2, <2>3 DEF IdentityTypes
  <1>5. {"Bool", "Sint8", "Sint64", "Float64"} \subseteq IdentityTypes
    BY DEF IdentityTypes, NPTypes
  <1>6. ASSUME NEW c \in Builtin PROVE c.source \in IdentityTypes /\ c.target \in IdentityTypes
    <2>1. CASE c.source = c.target /\ c.flags = IDENTITY
      <3>1. c \in {Row(t, t, IDENTITY) : t \in IdentityTypes}
        BY <2>1 DEF Builtin, Row
      <3>. QED
        BY <3>1 DEF Row
    <2>2. CASE {c.source, c.target} \subseteq {"Bool", "Sint8", "Sint64", "Float64"}
      BY <1>5, <2>2
    <2>. QED
      BY <2>1, <2>2, Rows
  <1>. QED
    BY <1>4, <1>6

\* The program reaches main or is still loading, never ends on an exception of
\* an initialiser, and main finds every conversion.
THEOREM TableIsComplete ==
    Spec => [](phase # "terminated" /\ (phase = "main" => m_conversions = Builtin))
  <1>1. Init => LoadedInv
    BY DEF Init, LoadedInv
  <1>2. LoadedInv /\ [Next]_vars => LoadedInv'
    <2>1. SUFFICES ASSUME LoadedInv, [Next]_vars PROVE LoadedInv'
      OBVIOUS
    <2>2. Len(LinkOrder) = 6
      BY DEF LinkOrder
    <2>3. CASE Initialise
      <3>1. /\ phase = "loading" /\ loaded \in 0 .. 5 /\ loaded' = loaded + 1
            /\ loaded = 6 => m_conversions = Builtin
        BY <2>1, <2>2, <2>3 DEF Initialise, LoadedInv
      <3>2. CASE loaded = 5
        <4>1. LinkOrder[loaded'] = "type/Conversions.cpp"
          BY <3>1, <3>2 DEF LinkOrder
        <4>2. \A c \in Builtin : {c.source, c.target} \subseteq Hashable
          BY <3>2, TypesAreHashable
        <4>3. m_conversions' = Builtin /\ phase' = phase
          BY <2>3, <4>1, <4>2 DEF Initialise
        <4>. QED
          BY <3>1, <3>2, <4>3 DEF LoadedInv
      <3>3. CASE loaded # 5
        <4>1. loaded' \in 1 .. 5
          BY <3>1, <3>3
        <4>2. LinkOrder[loaded'] # "type/Conversions.cpp"
          BY <4>1 DEF LinkOrder
        <4>3. phase' = phase
          BY <2>3, <4>2 DEF Initialise
        <4>. QED
          BY <3>1, <4>1, <4>3 DEF LoadedInv
      <3>. QED
        BY <3>2, <3>3
    <2>4. CASE EnterMain
      BY <2>1, <2>2, <2>4 DEF EnterMain, LoadedInv
    <2>5. CASE /\ phase' = phase /\ loaded' = loaded
               /\ m_conversions' = m_conversions
      BY <2>1, <2>5 DEF LoadedInv
    <2>6. CASE \/ \E d \in Values : Assign(d)
               \/ \E t \in Targets : ConvertTo(t)
               \/ \E t \in Targets : ConvertLossy(t)
      BY <2>5, <2>6 DEF Assign, ConvertTo, ConvertLossy
    <2>7. CASE \/ project_with_complement
               \/ \E t \in Targets : AlterView(t)
               \/ embed
      BY <2>5, <2>7 DEF project_with_complement, AlterView, embed
    <2>8. CASE UNCHANGED vars
      BY <2>5, <2>8 DEF vars
    <2>. QED
      BY <2>1, <2>3, <2>4, <2>6, <2>7, <2>8 DEF Next, Load
  <1>3. LoadedInv => phase # "terminated" /\ (phase = "main" => m_conversions = Builtin)
    BY DEF LoadedInv
  <1>. QED
    BY <1>1, <1>2, <1>3, PTL DEF Spec
=============================================================================
