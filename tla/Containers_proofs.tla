------------------------- MODULE Containers_proofs -------------------------
(***************************************************************************)
(* Proofs about Data and containers, for every placement of the type names *)
(* in memory and Data of every height.                                     *)
(*                                                                         *)
(* First the order of Data: that compare_data is the strict weak order     *)
(* std::map asks for, that it agrees with eq_data where both look at the   *)
(* same things, that it is no order once a BoolTerm_c is among the Data,   *)
(* and that an ordered map is sorted and keeps the first of several pairs  *)
(* with one key.  Then the program of Containers: its invariant, that a    *)
(* container satisfies its constraint unless it was changed by reference,  *)
(* that every element is found by its index or key, and that the terms in  *)
(* hand are ordered.  Last the stream: that deserialize_data finds the end *)
(* of every term written, and reads it back.                               *)
(***************************************************************************)
EXTENDS Containers, SequenceTheorems, WellFoundedInduction, FiniteSetTheorems, TLAPS

\* A set of numbers has a least one.
LEMMA LeastNumber ==
    ASSUME NEW S \in SUBSET Nat, S # {}
    PROVE  \E x \in S : \A y \in S : x <= y
  <1> DEFINE R == OpToRel(<, Nat)
  <1>1. IsWellFoundedOn(R, Nat)
    BY NatLessThanWellFounded
  <1>2. \A x, y \in Nat : y < x => <<y, x>> \in R
    BY DEF OpToRel
  <1>3. PICK x \in S : \A y \in S : ~ (<<y, x>> \in R)
    <2>1. S \subseteq Nat /\ S # {}
      OBVIOUS
    <2> HIDE DEF R
    <2>. QED
      BY <1>1, <2>1, WFMin
  <1> HIDE DEF R
  <1>4. ASSUME NEW y \in S PROVE x <= y
    <2>1. x \in Nat /\ y \in Nat /\ ~ (<<y, x>> \in R)
      BY <1>3
    <2>2. ~ (y < x)
      BY <1>2, <2>1
    <2>. QED
      BY <2>1, <2>2
  <1>. QED
    BY <1>4

-----------------------------------------------------------------------------
(***************************************************************************)
(* Data of bounded height.                                                 *)
(***************************************************************************)
IsTower(h, m) == h = [n \in 0 .. m |-> IF n = 0 THEN {} ELSE DataOf(h[n - 1])]

\* The sets of Data of each height can be built, however many are asked for.
LEMMA TowersExist ==
    \A m \in Nat : \E h : IsTower(h, m)
  <1> DEFINE S == {m \in Nat : ~ \E h : IsTower(h, m)}
  <1>1. SUFFICES ASSUME S # {} PROVE FALSE
    OBVIOUS
  <1>2. PICK m \in S : \A k \in S : m <= k
    <2>1. S \in SUBSET Nat /\ S # {}
      BY <1>1
    <2> HIDE DEF S
    <2>. QED
      BY <2>1, LeastNumber
  <1>3. m \in Nat /\ ~ \E h : IsTower(h, m)
    OBVIOUS
  <1>4. CASE m = 0
    <2>1. IsTower([n \in 0 .. 0 |-> {}], 0)
      BY DEF IsTower
    <2>. QED
      BY <1>3, <1>4, <2>1
  <1>5. CASE m # 0
    <2>1. m - 1 \in Nat /\ m - 1 \notin S
      BY <1>2, <1>3, <1>5
    <2>2. PICK g : IsTower(g, m - 1)
      BY <2>1
    <2> DEFINE h == [n \in 0 .. m |-> IF n = m THEN DataOf(g[m - 1]) ELSE g[n]]
    <2>3. ASSUME NEW n \in 0 .. m PROVE h[n] = IF n = 0 THEN {} ELSE DataOf(h[n - 1])
      <3>1. CASE n = m
        <4>1. m - 1 \in 0 .. m /\ m - 1 # m
          BY <1>3, <1>5
        <4>2. h[m - 1] = g[m - 1]
          BY <4>1
        <4>. QED
          BY <1>5, <3>1, <4>2
      <3>2. CASE n # m
        <4>1. n \in 0 .. m - 1
          BY <1>3, <3>2
        <4>2. g[n] = IF n = 0 THEN {} ELSE DataOf(g[n - 1])
          BY <2>2, <4>1 DEF IsTower
        <4>3. n # 0 => n - 1 \in 0 .. m /\ n - 1 # m
          BY <1>3, <4>1
        <4>4. n # 0 => h[n - 1] = g[n - 1]
          BY <4>3
        <4>. QED
          BY <3>2, <4>2, <4>4
      <3>. QED
        BY <3>1, <3>2
    <2>4. h = [n \in 0 .. m |-> h[n]]
      OBVIOUS
    <2> HIDE DEF h
    <2>5. IsTower(h, m)
      BY <2>3, <2>4 DEF IsTower
    <2>. QED
      BY <1>3, <2>5
  <1>. QED
    BY <1>4, <1>5

\* Data of a height are made of those of the height below.
LEMMA HeightDef ==
    /\ Height[0] = {}
    /\ \A n \in 1 .. MaxHeight : Height[n] = DataOf(Height[n - 1])
  <1>1. MaxHeight \in Nat
    BY HeightIsBounded
  <1>2. \E h : h = [n \in 0 .. MaxHeight |-> IF n = 0 THEN {} ELSE DataOf(h[n - 1])]
    BY <1>1, TowersExist DEF IsTower
  <1>3. Height = [n \in 0 .. MaxHeight |-> IF n = 0 THEN {} ELSE DataOf(Height[n - 1])]
    BY <1>2 DEF Height
  <1>4. Height[0] = {}
    BY <1>1, <1>3
  <1>5. ASSUME NEW n \in 1 .. MaxHeight PROVE Height[n] = DataOf(Height[n - 1])
    <2>1. n \in 0 .. MaxHeight /\ n # 0
      BY <1>1
    <2>. QED
      BY <1>3, <2>1
  <1>. QED
    BY <1>4, <1>5

\* What holds for the Data of a height holds for higher ones.
LEMMA HeightGrows ==
    \A n \in Nat : n < MaxHeight => Height[n] \subseteq Height[n + 1]
  <1> DEFINE S == {n \in Nat : n < MaxHeight /\ ~ (Height[n] \subseteq Height[n + 1])}
  <1>1. SUFFICES ASSUME S # {} PROVE FALSE
    OBVIOUS
  <1>2. PICK n \in S : \A k \in S : n <= k
    <2>1. S \in SUBSET Nat /\ S # {}
      BY <1>1
    <2> HIDE DEF S
    <2>. QED
      BY <2>1, LeastNumber
  <1>3. n \in Nat /\ n < MaxHeight /\ ~ (Height[n] \subseteq Height[n + 1])
    OBVIOUS
  <1>4. n # 0
    BY <1>3, HeightDef
  <1>5. n - 1 \in Nat /\ n - 1 < MaxHeight /\ n - 1 \notin S
    BY <1>2, <1>3, <1>4, HeightIsBounded
  <1>6. Height[n - 1] \subseteq Height[n]
    BY <1>3, <1>5
  <1>7. Height[n] = DataOf(Height[n - 1]) /\ Height[n + 1] = DataOf(Height[n])
    <2>1. n \in 1 .. MaxHeight /\ n + 1 \in 1 .. MaxHeight /\ (n + 1) - 1 = n
      BY <1>3, <1>4, HeightIsBounded
    <2>. QED
      BY <2>1, HeightDef
  <1>8. DataOf(Height[n - 1]) \subseteq DataOf(Height[n])
    <2>1. Seq(Height[n - 1]) \subseteq Seq(Height[n])
      BY <1>6, SeqMonotonic
    <2>. QED
      BY <2>1 DEF DataOf
  <1>. QED
    BY <1>3, <1>7, <1>8

\* Whatever is of some height is Data.
LEMMA HeightsAreData ==
    \A n \in 0 .. MaxHeight : Height[n] \subseteq Data
  <1> DEFINE S == {k \in Nat : k <= MaxHeight /\ ~ (Height[MaxHeight - k] \subseteq Data)}
  <1>1. S = {}
    <2>1. SUFFICES ASSUME S # {} PROVE FALSE
      OBVIOUS
    <2>2. PICK k \in S : \A l \in S : k <= l
      <3>1. S \in SUBSET Nat /\ S # {}
        BY <2>1
      <3> HIDE DEF S
      <3>. QED
        BY <3>1, LeastNumber
    <2>3. k \in Nat /\ k <= MaxHeight /\ ~ (Height[MaxHeight - k] \subseteq Data)
      OBVIOUS
    <2>4. k # 0
      BY <2>3, HeightIsBounded DEF Data
    <2>5. k - 1 \in Nat /\ k - 1 <= MaxHeight /\ k - 1 \notin S
      BY <2>2, <2>3, <2>4, HeightIsBounded
    <2>6. Height[MaxHeight - (k - 1)] \subseteq Data
      BY <2>5
    <2>7. Height[MaxHeight - k] \subseteq Height[MaxHeight - k + 1]
      <3>1. MaxHeight - k \in Nat /\ MaxHeight - k < MaxHeight
        BY <2>3, <2>4, HeightIsBounded
      <3>. QED
        BY <3>1, HeightGrows
    <2>8. MaxHeight - (k - 1) = MaxHeight - k + 1
      BY <2>3, HeightIsBounded
    <2>. QED
      BY <2>3, <2>6, <2>7, <2>8
  <1>2. ASSUME NEW n \in 0 .. MaxHeight PROVE Height[n] \subseteq Data
    <2>1. MaxHeight - n \in Nat /\ MaxHeight - n <= MaxHeight
      BY HeightIsBounded
    <2>2. MaxHeight - (MaxHeight - n) = n
      BY HeightIsBounded
    <2>3. Height[MaxHeight - (MaxHeight - n)] \subseteq Data
      <3>1. MaxHeight - n \notin S
        <4> HIDE DEF S
        <4>. QED
          BY <1>1
      <3>. QED
        BY <2>1, <3>1
    <2>. QED
      BY <2>2, <2>3
  <1>. QED
    BY <1>2

\* What a container holds is made of its args.
LEMMA ContentOf ==
    ASSUME NEW S, NEW x, x.args \in Seq(S)
    PROVE  /\ Content(x) \in Seq(S)
           /\ \A i \in DOMAIN Content(x) : Content(x)[i] = x.args[i + 1] /\ i + 1 \in DOMAIN x.args
  <1> DEFINE s == x.args
  <1>1. s \in Seq(S) /\ Len(s) \in Nat /\ DOMAIN s = 1 .. Len(s)
    OBVIOUS
  <1> HIDE DEF s
  <1>2. CASE Len(s) < 2
    <2>1. SubSeq(s, 2, Len(s)) = <<>>
      BY <1>1, <1>2, SubSeqEmpty
    <2>. QED
      BY <2>1 DEF Content, s
  <1>3. CASE Len(s) >= 2
    <2>1. \A i \in 2 .. Len(s) : i \in DOMAIN s
      BY <1>1
    <2>2. /\ SubSeq(s, 2, Len(s)) \in Seq(S)
          /\ Len(SubSeq(s, 2, Len(s))) = Len(s) - 1
          /\ \A i \in 1 .. Len(s) - 1 : SubSeq(s, 2, Len(s))[i] = s[i + 1]
      BY <1>1, <1>3, <2>1
    <2>3. DOMAIN SubSeq(s, 2, Len(s)) = 1 .. Len(s) - 1
      BY <2>2
    <2>4. \A i \in 1 .. Len(s) - 1 : i + 1 \in DOMAIN s
      BY <1>1, <1>3
    <2>. QED
      BY <2>2, <2>3, <2>4 DEF Content, s
  <1>. QED
    BY <1>1, <1>2, <1>3

\* What a Data of a height is.
LEMMA DataOfHeight ==
    ASSUME NEW n \in 0 .. MaxHeight, NEW x \in Height[n]
    PROVE  n \in 1 .. MaxHeight /\ n - 1 \in 0 .. MaxHeight /\ x \in DataOf(Height[n - 1])
  <1>1. n # 0
    BY HeightDef
  <1>2. n \in 1 .. MaxHeight
    BY <1>1, HeightIsBounded
  <1>. QED
    BY <1>2, HeightDef, HeightIsBounded

-----------------------------------------------------------------------------
(***************************************************************************)
(* The first difference of two sequences.                                  *)
(***************************************************************************)
LEMMA FirstIsLeast ==
    ASSUME NEW S \in SUBSET Nat, S # {}
    PROVE  First(S) \in S /\ \A j \in S : First(S) <= j
  <1>1. \E i \in S : \A j \in S : i <= j
    BY LeastNumber
  <1>. QED
    BY <1>1 DEF First

\* The places where two sequences differ.
LEMMA DifferingIn ==
    ASSUME NEW S, NEW s \in Seq(S), NEW t \in Seq(S), NEW f
    PROVE  /\ Differing(f, s, t) \in SUBSET Nat
           /\ \A i : i \in Differing(f, s, t) <=>
                 /\ i \in 1 .. Len(s) /\ i \in 1 .. Len(t)
                 /\ f[<<s[i], t[i]>>] # 0
  <1>1. DOMAIN s = 1 .. Len(s) /\ DOMAIN t = 1 .. Len(t) /\ Len(s) \in Nat /\ Len(t) \in Nat
    OBVIOUS
  <1>2. \A i : i \in Differing(f, s, t) <=>
                 /\ i \in 1 .. Len(s) /\ i \in 1 .. Len(t)
                 /\ f[<<s[i], t[i]>>] # 0
    BY <1>1 DEF Differing
  <1>3. 1 .. Len(s) \subseteq Nat
    BY <1>1
  <1>. QED
    BY <1>2, <1>3

\* The comparison of sequences uses that of their elements only.
LEMMA CompareSeqAgrees ==
    ASSUME NEW S, NEW s \in Seq(S), NEW t \in Seq(S), NEW f, NEW g,
           \A x, y \in S : f[<<x, y>>] = g[<<x, y>>]
    PROVE  CompareSeq(f, s, t) = CompareSeq(g, s, t)
  <1>0. DOMAIN s = 1 .. Len(s) /\ DOMAIN t = 1 .. Len(t)
    OBVIOUS
  <1>1. \A i \in 1 .. Len(s) : s[i] \in S
    BY ElementOfSeq
  <1>2. \A i \in 1 .. Len(t) : t[i] \in S
    BY ElementOfSeq
  <1>3. \A i : i \in 1 .. Len(s) /\ i \in 1 .. Len(t) =>
               f[<<s[i], t[i]>>] = g[<<s[i], t[i]>>]
    BY <1>1, <1>2
  <1>4. \A i : i \in Differing(f, s, t) <=>
              i \in 1 .. Len(s) /\ i \in 1 .. Len(t) /\ f[<<s[i], t[i]>>] # 0
    BY <1>0 DEF Differing
  <1>5. \A i : i \in Differing(g, s, t) <=>
              i \in 1 .. Len(s) /\ i \in 1 .. Len(t) /\ g[<<s[i], t[i]>>] # 0
    BY <1>0 DEF Differing
  <1>6. Differing(f, s, t) = Differing(g, s, t)
    <2>1. \A i : i \in Differing(f, s, t) <=> i \in Differing(g, s, t)
      BY <1>3, <1>4, <1>5
    <2> DEFINE D == Differing(f, s, t)
               E == Differing(g, s, t)
    <2>2. \A i : i \in D <=> i \in E
      BY <2>1
    <2> HIDE DEF D, E
    <2>3. D = E
      BY <2>2
    <2>. QED
      BY <2>3 DEF D, E
  <1> DEFINE D == Differing(f, s, t)
  <1>7. CASE D = {}
    BY <1>6, <1>7 DEF CompareSeq
  <1>8. CASE D # {}
    <2>1. D \in SUBSET Nat
      BY DifferingIn
    <2>2. First(D) \in D
      <3> HIDE DEF D
      <3>. QED
        BY <1>8, <2>1, FirstIsLeast
    <2>3. f[<<s[First(D)], t[First(D)]>>] = g[<<s[First(D)], t[First(D)]>>]
      BY <1>3, <1>4, <2>2
    <2>. QED
      BY <1>6, <1>8, <2>3 DEF CompareSeq
  <1>. QED
    BY <1>7, <1>8

-----------------------------------------------------------------------------
(***************************************************************************)
(* compare_data does what it says: the recursion is well founded.          *)
(***************************************************************************)
LEMMA ComparedAgrees ==
    ASSUME NEW S, NEW x \in DataOf(S), NEW y \in DataOf(S), NEW f, NEW g,
           \A v, w \in S : f[<<v, w>>] = g[<<v, w>>]
    PROVE  Compared(f, x, y) = Compared(g, x, y)
  <1>1. x.args \in Seq(S) /\ y.args \in Seq(S)
    BY DEF DataOf
  <1>2. Content(x) \in Seq(S) /\ Content(y) \in Seq(S)
    BY <1>1, ContentOf
  <1>3. CompareSeq(f, x.args, y.args) = CompareSeq(g, x.args, y.args)
    BY <1>1, CompareSeqAgrees
  <1>4. CompareSeq(f, Content(x), Content(y)) = CompareSeq(g, Content(x), Content(y))
    BY <1>2, CompareSeqAgrees
  <1>. QED
    BY <1>3, <1>4 DEF Compared

IsComparison(f, S) == f = [p \in S \X S |-> Compared(f, p[1], p[2])]

\* There is a comparison of the Data of each height.
LEMMA ComparisonsExist ==
    \A m \in 0 .. MaxHeight : \E f : IsComparison(f, Height[m])
  <1> DEFINE S == {m \in Nat : m <= MaxHeight /\ ~ \E f : IsComparison(f, Height[m])}
  <1>1. S = {}
    <2>1. SUFFICES ASSUME S # {} PROVE FALSE
      OBVIOUS
    <2>2. PICK m \in S : \A k \in S : m <= k
      <3>1. S \in SUBSET Nat /\ S # {}
        BY <2>1
      <3> HIDE DEF S
      <3>. QED
        BY <3>1, LeastNumber
    <2>3. m \in Nat /\ m <= MaxHeight /\ ~ \E f : IsComparison(f, Height[m])
      OBVIOUS
    <2>4. CASE m = 0
      <3> DEFINE f == [p \in {} \X {} |-> 0]
      <3>1. {} \X {} = {}
        OBVIOUS
      <3>2. f = [p \in {} \X {} |-> Compared(f, p[1], p[2])]
        BY <3>1
      <3> HIDE DEF f
      <3>3. IsComparison(f, Height[0])
        BY <3>2, HeightDef DEF IsComparison
      <3>. QED
        BY <2>3, <2>4, <3>3
    <2>5. CASE m # 0
      <3>1. m - 1 \in Nat /\ m - 1 < MaxHeight /\ m - 1 <= MaxHeight /\ m - 1 \notin S
        BY <2>2, <2>3, <2>5, HeightIsBounded
      <3>2. PICK g : IsComparison(g, Height[m - 1])
        BY <3>1
      <3> DEFINE f == [p \in Height[m] \X Height[m] |-> Compared(g, p[1], p[2])]
      <3>3. Height[m] = DataOf(Height[m - 1]) /\ Height[m - 1] \subseteq Height[m]
        <4>1. m \in 1 .. MaxHeight /\ (m - 1) + 1 = m
          BY <2>3, <2>5, HeightIsBounded
        <4>. QED
          BY <3>1, <4>1, HeightDef, HeightGrows
      <3>4. \A v, w \in Height[m] : f[<<v, w>>] = Compared(g, v, w)
        OBVIOUS
      <3>5. f = [p \in Height[m] \X Height[m] |-> f[p]]
        OBVIOUS
      <3> HIDE DEF f
      <3>6. \A v, w \in Height[m - 1] : g[<<v, w>>] = Compared(g, v, w)
        BY <3>2 DEF IsComparison
      <3>7. \A v, w \in Height[m - 1] : f[<<v, w>>] = g[<<v, w>>]
        BY <3>3, <3>4, <3>6
      <3>8. \A v, w \in Height[m] : f[<<v, w>>] = Compared(f, v, w)
        <4>1. ASSUME NEW v \in Height[m], NEW w \in Height[m]
              PROVE  Compared(f, v, w) = Compared(g, v, w)
          <5>1. v \in DataOf(Height[m - 1]) /\ w \in DataOf(Height[m - 1])
            BY <3>3
          <5>. QED
            BY <3>7, <5>1, ComparedAgrees
        <4>. QED
          BY <3>4, <4>1
      <3>9. \A p \in Height[m] \X Height[m] : f[p] = Compared(f, p[1], p[2])
        BY <3>8
      <3>10. IsComparison(f, Height[m])
        BY <3>5, <3>9 DEF IsComparison
      <3>. QED
        BY <2>3, <3>10
    <2>. QED
      BY <2>4, <2>5
  <1>2. ASSUME NEW m \in 0 .. MaxHeight PROVE \E f : IsComparison(f, Height[m])
    <2>1. m \in Nat /\ m <= MaxHeight
      BY HeightIsBounded
    <2>2. m \notin S
      <3> HIDE DEF S
      <3>. QED
        BY <1>1
    <2>. QED
      BY <2>1, <2>2
  <1>. QED
    BY <1>2

\* compare_data compares Data by what they are made of.
LEMMA CompareDef ==
    \A x, y \in Data : CompareData(x, y) = Compared(compare_data, x, y)
  <1>1. MaxHeight \in 0 .. MaxHeight
    BY HeightIsBounded
  <1>2. \E f : f = [p \in Data \X Data |-> Compared(f, p[1], p[2])]
    BY <1>1, ComparisonsExist DEF IsComparison, Data
  <1>3. compare_data = [p \in Data \X Data |-> Compared(compare_data, p[1], p[2])]
    BY <1>2 DEF compare_data
  <1>. QED
    BY <1>3 DEF CompareData

-----------------------------------------------------------------------------
(***************************************************************************)
(* Where the elements are ordered, so are the sequences.                   *)
(***************************************************************************)
\* What compare says of two elements.
Val(c, x, y) == c[<<x, y>>]

\* What an order says of three elements.
LEMMA OrderFacts ==
    ASSUME NEW c, NEW S, Orders(c, S), NEW x \in S, NEW y \in S, NEW z \in S
    PROVE  /\ Val(c, x, y) \in {-1, 0, 1} /\ Val(c, y, x) \in {-1, 0, 1}
           /\ Val(c, x, y) = -Val(c, y, x)
           /\ Val(c, x, y) <= 0 /\ Val(c, y, z) <= 0 => Val(c, x, z) <= 0
           /\ Val(c, x, y) = 0 /\ Val(c, y, z) = 0 => Val(c, x, z) = 0
           /\ Val(c, x, y) < 0 /\ Val(c, y, z) <= 0 => Val(c, x, z) < 0
           /\ Val(c, x, y) <= 0 /\ Val(c, y, z) < 0 => Val(c, x, z) < 0
  <1> DEFINE xy == Val(c, x, y)
             yx == Val(c, y, x)
             yz == Val(c, y, z)
             zy == Val(c, z, y)
             xz == Val(c, x, z)
             zx == Val(c, z, x)
  <1>1. /\ xy \in {-1, 0, 1} /\ yx \in {-1, 0, 1} /\ yz \in {-1, 0, 1}
        /\ zy \in {-1, 0, 1} /\ xz \in {-1, 0, 1} /\ zx \in {-1, 0, 1}
        /\ xy = -yx /\ yz = -zy /\ xz = -zx
    BY DEF Orders, Val
  <1>2. /\ xy <= 0 /\ yz <= 0 => xz <= 0
        /\ zy <= 0 /\ yx <= 0 => zx <= 0
        /\ zx <= 0 /\ xy <= 0 => zy <= 0
        /\ yz <= 0 /\ zx <= 0 => yx <= 0
    BY DEF Orders, Val
  <1> HIDE DEF xy, yx, yz, zy, xz, zx
  <1>3. xy = 0 /\ yz = 0 => xz = 0
    BY <1>1, <1>2
  <1>4. xy < 0 /\ yz <= 0 => xz < 0
    BY <1>1, <1>2
  <1>5. xy <= 0 /\ yz < 0 => xz < 0
    BY <1>1, <1>2
  <1>. QED
    BY <1>1, <1>2, <1>3, <1>4, <1>5 DEF xy, yx, yz, zy, xz, zx

\* k is where s and t differ first; they agree as far as both go.
DiffersAt(c, s, t, k) ==
    /\ k \in Nat /\ 1 <= k /\ k <= Len(s) /\ k <= Len(t)
    /\ Val(c, s[k], t[k]) # 0
    /\ \A i \in Nat : 1 <= i /\ i < k => Val(c, s[i], t[i]) = 0
NeverDiffers(c, s, t) ==
    \A i \in Nat : 1 <= i /\ i <= Len(s) /\ i <= Len(t) => Val(c, s[i], t[i]) = 0

\* The first difference decides, and if there is none the lengths do.
LEMMA DiffersOrNot ==
    ASSUME NEW S, NEW s \in Seq(S), NEW t \in Seq(S), NEW c
    PROVE  \/ NeverDiffers(c, s, t) /\ CompareSeq(c, s, t) = Sign(Len(s) - Len(t))
           \/ \E k \in Nat : DiffersAt(c, s, t, k) /\ CompareSeq(c, s, t) = Val(c, s[k], t[k])
  <1>1. DOMAIN s = 1 .. Len(s) /\ DOMAIN t = 1 .. Len(t) /\ Len(s) \in Nat /\ Len(t) \in Nat
    OBVIOUS
  <1> DEFINE D == Differing(c, s, t)
  <1>2. \A i \in Nat : i \in D <=> /\ 1 <= i /\ i <= Len(s) /\ i <= Len(t)
                                   /\ Val(c, s[i], t[i]) # 0
    BY <1>1 DEF Differing, Val
  <1>3. D \in SUBSET Nat
    BY <1>1 DEF Differing, Val
  <1>4. CASE D = {}
    <2>1. NeverDiffers(c, s, t)
      BY <1>2, <1>4 DEF NeverDiffers
    <2>2. CompareSeq(c, s, t) = Sign(Len(s) - Len(t))
      BY <1>4 DEF CompareSeq, Val
    <2>. QED
      BY <2>1, <2>2
  <1>5. CASE D # {}
    <2> DEFINE k == First(D)
    <2>1. k \in D /\ \A j \in D : k <= j
      <3> HIDE DEF D
      <3>. QED
        BY <1>3, <1>5, FirstIsLeast
    <2>2. CompareSeq(c, s, t) = Val(c, s[k], t[k])
      BY <1>5 DEF CompareSeq, Val
    <2> HIDE DEF k, D
    <2>3. k \in Nat
      BY <1>3, <2>1
    <2>4. ASSUME NEW i \in Nat, 1 <= i, i < k PROVE Val(c, s[i], t[i]) = 0
      <3>1. i \notin D
        BY <2>1, <2>3, <2>4
      <3>2. k <= Len(s) /\ k <= Len(t)
        BY <1>2, <2>1, <2>3
      <3>3. i <= Len(s) /\ i <= Len(t)
        BY <1>1, <2>3, <2>4, <3>2
      <3>. QED
        BY <1>2, <2>4, <3>1, <3>3
    <2>5. DiffersAt(c, s, t, k)
      BY <1>2, <2>1, <2>3, <2>4 DEF DiffersAt
    <2>. QED
      BY <2>2, <2>3, <2>5
  <1>. QED
    BY <1>4, <1>5

\* There is one first difference at most.
LEMMA CompareSeqAt ==
    ASSUME NEW S, NEW s \in Seq(S), NEW t \in Seq(S), NEW c, NEW k \in Nat,
           DiffersAt(c, s, t, k)
    PROVE  CompareSeq(c, s, t) = Val(c, s[k], t[k])
  <1>1. ~ NeverDiffers(c, s, t)
    BY DEF DiffersAt, NeverDiffers
  <1>2. PICK l \in Nat : DiffersAt(c, s, t, l) /\ CompareSeq(c, s, t) = Val(c, s[l], t[l])
    BY <1>1, DiffersOrNot
  <1>3. l = k
    <2>1. k \in Nat /\ l \in Nat /\ 1 <= k /\ 1 <= l
      BY <1>2 DEF DiffersAt
    <2>2. ~ (l < k)
      BY <1>2, <2>1 DEF DiffersAt
    <2>3. ~ (k < l)
      BY <1>2, <2>1 DEF DiffersAt
    <2>. QED
      BY <2>1, <2>2, <2>3
  <1>. QED
    BY <1>2, <1>3

\* Without a difference the lengths decide.
LEMMA CompareSeqNever ==
    ASSUME NEW S, NEW s \in Seq(S), NEW t \in Seq(S), NEW c, NeverDiffers(c, s, t)
    PROVE  CompareSeq(c, s, t) = Sign(Len(s) - Len(t))
  <1>1. \A k : ~ DiffersAt(c, s, t, k)
    BY DEF DiffersAt, NeverDiffers
  <1>. QED
    BY <1>1, DiffersOrNot

\* The sign of a number.
LEMMA SignFacts ==
    \A n \in Int : /\ Sign(n) \in {-1, 0, 1} /\ Sign(-n) = -Sign(n)
                   /\ Sign(n) <= 0 <=> n <= 0
                   /\ Sign(n) = 0 <=> n = 0
  BY DEF Sign

\* Swapping two sequences changes the sign of their comparison.
LEMMA SeqAntisymmetric ==
    ASSUME NEW c, NEW S, Orders(c, S), NEW s \in Seq(S), NEW t \in Seq(S)
    PROVE  /\ CompareSeq(c, s, t) \in {-1, 0, 1}
           /\ CompareSeq(c, s, t) = -CompareSeq(c, t, s)
  <1>1. Len(s) \in Nat /\ Len(t) \in Nat
    OBVIOUS
  <1>2. \A i \in Nat : 1 <= i /\ i <= Len(s) /\ i <= Len(t) => s[i] \in S /\ t[i] \in S
    OBVIOUS
  <1>3. \A i \in Nat : 1 <= i /\ i <= Len(s) /\ i <= Len(t) =>
            /\ Val(c, s[i], t[i]) \in {-1, 0, 1} /\ Val(c, s[i], t[i]) = -Val(c, t[i], s[i])
            /\ Val(c, s[i], t[i]) = 0 <=> Val(c, t[i], s[i]) = 0
    <2>1. ASSUME NEW x \in S, NEW y \in S
          PROVE  /\ Val(c, x, y) \in {-1, 0, 1} /\ Val(c, x, y) = -Val(c, y, x)
                 /\ Val(c, x, y) = 0 <=> Val(c, y, x) = 0
      BY OrderFacts
    <2>. QED
      BY <1>2, <2>1
  <1>4. CASE NeverDiffers(c, s, t)
    <2>1. NeverDiffers(c, t, s)
      BY <1>3, <1>4 DEF NeverDiffers
    <2>2. CompareSeq(c, s, t) = Sign(Len(s) - Len(t))
      BY <1>4, CompareSeqNever
    <2>3. CompareSeq(c, t, s) = Sign(Len(t) - Len(s))
      BY <2>1, CompareSeqNever
    <2>. QED
      BY <1>1, <2>2, <2>3 DEF Sign
  <1>5. CASE \E k \in Nat : DiffersAt(c, s, t, k)
    <2>1. PICK k \in Nat : DiffersAt(c, s, t, k)
      BY <1>5
    <2>2. /\ k \in Nat /\ 1 <= k /\ k <= Len(s) /\ k <= Len(t) /\ Val(c, s[k], t[k]) # 0
          /\ \A i \in Nat : 1 <= i /\ i < k => Val(c, s[i], t[i]) = 0
      BY <2>1 DEF DiffersAt
    <2>3. \A i \in Nat : 1 <= i /\ i < k => i <= Len(s) /\ i <= Len(t)
      BY <1>1, <2>2
    <2>4. DiffersAt(c, t, s, k)
      <3>1. Val(c, t[k], s[k]) # 0
        BY <1>3, <2>2
      <3>2. \A i \in Nat : 1 <= i /\ i < k => Val(c, t[i], s[i]) = 0
        BY <1>3, <2>2, <2>3
      <3>. QED
        BY <2>2, <3>1, <3>2 DEF DiffersAt
    <2>5. CompareSeq(c, s, t) = Val(c, s[k], t[k])
      BY <2>1, CompareSeqAt
    <2>6. CompareSeq(c, t, s) = Val(c, t[k], s[k])
      BY <2>4, CompareSeqAt
    <2>. QED
      BY <1>3, <2>2, <2>5, <2>6
  <1>. QED
    BY <1>4, <1>5, DiffersOrNot

\* A sequence that does not come after another is less at the first
\* difference, or there is none and it is no longer.
LEMMA SeqNotAfter ==
    ASSUME NEW S, NEW s \in Seq(S), NEW t \in Seq(S), NEW c, Orders(c, S),
           CompareSeq(c, s, t) <= 0
    PROVE  \/ NeverDiffers(c, s, t) /\ Len(s) <= Len(t)
           \/ \E k \in Nat : DiffersAt(c, s, t, k) /\ Val(c, s[k], t[k]) < 0
  <1>1. Len(s) \in Nat /\ Len(t) \in Nat
    OBVIOUS
  <1>2. CASE NeverDiffers(c, s, t)
    <2>1. Sign(Len(s) - Len(t)) <= 0
      BY <1>2, CompareSeqNever
    <2>. QED
      BY <1>1, <1>2, <2>1 DEF Sign
  <1>3. CASE \E k \in Nat : DiffersAt(c, s, t, k)
    <2>1. PICK k \in Nat : DiffersAt(c, s, t, k)
      BY <1>3
    <2>2. Val(c, s[k], t[k]) <= 0
      BY <2>1, CompareSeqAt
    <2>3. Val(c, s[k], t[k]) # 0 /\ s[k] \in S /\ t[k] \in S
      BY <2>1 DEF DiffersAt, Val
    <2>4. Val(c, s[k], t[k]) \in {-1, 0, 1}
      BY <2>3 DEF Orders, Val
    <2>. QED
      BY <2>1, <2>2, <2>3, <2>4
  <1>. QED
    BY <1>2, <1>3, DiffersOrNot

\* The lexicographic order is transitive.
LEMMA SeqTransitive ==
    ASSUME NEW S, NEW s \in Seq(S), NEW t \in Seq(S), NEW u \in Seq(S), NEW c, Orders(c, S),
           CompareSeq(c, s, t) <= 0, CompareSeq(c, t, u) <= 0
    PROVE  CompareSeq(c, s, u) <= 0
  <1>1. Len(s) \in Nat /\ Len(t) \in Nat /\ Len(u) \in Nat
    OBVIOUS
  <1>2. ASSUME NEW i \in Nat, 1 <= i, i <= Len(s), i <= Len(t), i <= Len(u)
        PROVE  LET st == Val(c, s[i], t[i])
                   tu == Val(c, t[i], u[i])
                   su == Val(c, s[i], u[i])
               IN  /\ st = 0 /\ tu = 0 => su = 0
                   /\ st < 0 /\ tu = 0 => su < 0
                   /\ st = 0 /\ tu < 0 => su < 0
                   /\ st < 0 /\ tu < 0 => su < 0
    <2>1. s[i] \in S /\ t[i] \in S /\ u[i] \in S
      BY <1>2
    <2> DEFINE st == Val(c, s[i], t[i])
               tu == Val(c, t[i], u[i])
               su == Val(c, s[i], u[i])
    <2>2. /\ st \in {-1, 0, 1} /\ tu \in {-1, 0, 1}
          /\ st = 0 /\ tu = 0 => su = 0
          /\ st < 0 /\ tu <= 0 => su < 0
          /\ st <= 0 /\ tu < 0 => su < 0
      BY <2>1, OrderFacts
    <2> HIDE DEF st, tu, su
    <2>3. /\ st < 0 /\ tu = 0 => su < 0
          /\ st = 0 /\ tu < 0 => su < 0
          /\ st < 0 /\ tu < 0 => su < 0
      BY <2>2
    <2>. QED
      BY <2>2, <2>3 DEF st, tu, su
  \* Less at k, and before it no difference.
  <1>3. ASSUME NEW k \in Nat, 1 <= k, k <= Len(s), k <= Len(u), Val(c, s[k], u[k]) < 0,
               \A i \in Nat : 1 <= i /\ i < k => Val(c, s[i], u[i]) = 0
        PROVE  CompareSeq(c, s, u) <= 0
    <2>1. Val(c, s[k], u[k]) # 0
      BY <1>3
    <2>2. DiffersAt(c, s, u, k)
      BY <1>3, <2>1 DEF DiffersAt
    <2>3. CompareSeq(c, s, u) = Val(c, s[k], u[k])
      BY <2>2, CompareSeqAt
    <2>4. s[k] \in S /\ u[k] \in S
      BY <1>1, <1>3
    <2>5. Val(c, s[k], u[k]) \in {-1, 0, 1}
      BY <2>4 DEF Orders, Val
    <2>. QED
      BY <1>3, <2>3, <2>5
  \* No difference, and no longer.
  <1>4. ASSUME NeverDiffers(c, s, u), Len(s) <= Len(u) PROVE CompareSeq(c, s, u) <= 0
    BY <1>1, <1>4, CompareSeqNever DEF Sign
  <1>5. CASE NeverDiffers(c, s, t) /\ Len(s) <= Len(t) /\ NeverDiffers(c, t, u) /\ Len(t) <= Len(u)
    <2>1. ASSUME NEW i \in Nat, 1 <= i, i <= Len(s), i <= Len(u) PROVE Val(c, s[i], u[i]) = 0
      <3>1. i <= Len(t)
        BY <1>1, <1>5, <2>1
      <3>2. Val(c, s[i], t[i]) = 0 /\ Val(c, t[i], u[i]) = 0
        BY <1>5, <2>1, <3>1 DEF NeverDiffers
      <3>. QED
        BY <1>2, <2>1, <3>1, <3>2
    <2>2. NeverDiffers(c, s, u)
      BY <2>1 DEF NeverDiffers
    <2>. QED
      BY <1>1, <1>4, <1>5, <2>2
  <1>6. CASE /\ NeverDiffers(c, t, u) /\ Len(t) <= Len(u)
             /\ \E k \in Nat : DiffersAt(c, s, t, k) /\ Val(c, s[k], t[k]) < 0
    <2>1. PICK k \in Nat : DiffersAt(c, s, t, k) /\ Val(c, s[k], t[k]) < 0
      BY <1>6
    <2>2. /\ 1 <= k /\ k <= Len(s) /\ k <= Len(t)
          /\ \A i \in Nat : 1 <= i /\ i < k => Val(c, s[i], t[i]) = 0
      BY <2>1 DEF DiffersAt
    <2>3. k <= Len(u)
      BY <1>1, <1>6, <2>2
    <2>4. \A i \in Nat : 1 <= i /\ i <= k => Val(c, t[i], u[i]) = 0
      BY <1>1, <1>6, <2>2, <2>3 DEF NeverDiffers
    <2>5. Val(c, s[k], u[k]) < 0
      BY <1>2, <2>1, <2>2, <2>3, <2>4
    <2>6. ASSUME NEW i \in Nat, 1 <= i, i < k PROVE Val(c, s[i], u[i]) = 0
      <3>1. i <= k /\ i <= Len(s) /\ i <= Len(t) /\ i <= Len(u)
        BY <1>1, <2>2, <2>3, <2>6
      <3>2. Val(c, s[i], t[i]) = 0 /\ Val(c, t[i], u[i]) = 0
        BY <2>2, <2>4, <2>6, <3>1
      <3>. QED
        BY <1>2, <2>6, <3>1, <3>2
    <2>. QED
      BY <1>3, <2>2, <2>3, <2>5, <2>6
  <1>7. CASE /\ NeverDiffers(c, s, t) /\ Len(s) <= Len(t)
             /\ \E k \in Nat : DiffersAt(c, t, u, k) /\ Val(c, t[k], u[k]) < 0
    <2>1. PICK k \in Nat : DiffersAt(c, t, u, k) /\ Val(c, t[k], u[k]) < 0
      BY <1>7
    <2>2. /\ 1 <= k /\ k <= Len(t) /\ k <= Len(u)
          /\ \A i \in Nat : 1 <= i /\ i < k => Val(c, t[i], u[i]) = 0
      BY <2>1 DEF DiffersAt
    <2>3. ASSUME NEW i \in Nat, 1 <= i, i < k, i <= Len(s) PROVE Val(c, s[i], u[i]) = 0
      <3>1. i <= Len(t) /\ i <= Len(u)
        BY <1>1, <2>2, <2>3
      <3>2. Val(c, s[i], t[i]) = 0 /\ Val(c, t[i], u[i]) = 0
        BY <1>7, <2>2, <2>3, <3>1 DEF NeverDiffers
      <3>. QED
        BY <1>2, <2>3, <3>1, <3>2
    <2>4. CASE k <= Len(s)
      <3>1. Val(c, s[k], t[k]) = 0
        BY <1>7, <2>2, <2>4 DEF NeverDiffers
      <3>2. Val(c, s[k], u[k]) < 0
        BY <1>2, <2>1, <2>2, <2>4, <3>1
      <3>3. \A i \in Nat : 1 <= i /\ i < k => Val(c, s[i], u[i]) = 0
        BY <1>1, <2>3, <2>4
      <3>. QED
        BY <1>3, <2>2, <2>4, <3>2, <3>3
    <2>5. CASE ~ (k <= Len(s))
      <3>1. \A i \in Nat : i <= Len(s) => i < k
        BY <1>1, <2>5
      <3>2. NeverDiffers(c, s, u)
        BY <2>3, <3>1 DEF NeverDiffers
      <3>3. Len(s) <= Len(u)
        BY <1>1, <2>2, <2>5
      <3>. QED
        BY <1>4, <3>2, <3>3
    <2>. QED
      BY <2>4, <2>5
  <1>8. CASE /\ \E k \in Nat : DiffersAt(c, s, t, k) /\ Val(c, s[k], t[k]) < 0
             /\ \E k \in Nat : DiffersAt(c, t, u, k) /\ Val(c, t[k], u[k]) < 0
    <2>1. PICK k \in Nat : DiffersAt(c, s, t, k) /\ Val(c, s[k], t[k]) < 0
      BY <1>8
    <2>2. PICK l \in Nat : DiffersAt(c, t, u, l) /\ Val(c, t[l], u[l]) < 0
      BY <1>8
    <2>3. /\ 1 <= k /\ k <= Len(s) /\ k <= Len(t)
          /\ \A i \in Nat : 1 <= i /\ i < k => Val(c, s[i], t[i]) = 0
      BY <2>1 DEF DiffersAt
    <2>4. /\ 1 <= l /\ l <= Len(t) /\ l <= Len(u)
          /\ \A i \in Nat : 1 <= i /\ i < l => Val(c, t[i], u[i]) = 0
      BY <2>2 DEF DiffersAt
    <2>5. ASSUME NEW m \in Nat, m <= k, m <= l, m = k \/ m = l
          PROVE  CompareSeq(c, s, u) <= 0
      <3>1. 1 <= m /\ m <= Len(s) /\ m <= Len(t) /\ m <= Len(u)
        BY <1>1, <2>3, <2>4, <2>5
      <3>2. ASSUME NEW i \in Nat, 1 <= i, i < m PROVE Val(c, s[i], u[i]) = 0
        <4>1. i < k /\ i < l /\ i <= Len(s) /\ i <= Len(t) /\ i <= Len(u)
          BY <1>1, <2>5, <3>1, <3>2
        <4>2. Val(c, s[i], t[i]) = 0 /\ Val(c, t[i], u[i]) = 0
          BY <2>3, <2>4, <3>2, <4>1
        <4>. QED
          BY <1>2, <3>2, <4>1, <4>2
      <3>3. \/ Val(c, s[m], t[m]) < 0 /\ Val(c, t[m], u[m]) < 0
            \/ Val(c, s[m], t[m]) < 0 /\ Val(c, t[m], u[m]) = 0
            \/ Val(c, s[m], t[m]) = 0 /\ Val(c, t[m], u[m]) < 0
        <4>1. CASE m = k /\ m = l
          BY <2>1, <2>2, <4>1
        <4>2. CASE m = k /\ m < l
          BY <2>1, <2>4, <3>1, <4>2
        <4>3. CASE m < k /\ m = l
          BY <2>2, <2>3, <3>1, <4>3
        <4>. QED
          BY <2>5, <4>1, <4>2, <4>3
      <3>4. Val(c, s[m], u[m]) < 0
        BY <1>2, <3>1, <3>3
      <3>. QED
        BY <1>3, <3>1, <3>2, <3>4
    <2>6. CASE k <= l
      BY <2>5, <2>6
    <2>7. CASE l <= k
      BY <2>5, <2>7
    <2>. QED
      BY <2>6, <2>7
  <1>9. \/ NeverDiffers(c, s, t) /\ Len(s) <= Len(t)
        \/ \E k \in Nat : DiffersAt(c, s, t, k) /\ Val(c, s[k], t[k]) < 0
    BY SeqNotAfter
  <1>10. \/ NeverDiffers(c, t, u) /\ Len(t) <= Len(u)
         \/ \E k \in Nat : DiffersAt(c, t, u, k) /\ Val(c, t[k], u[k]) < 0
    BY SeqNotAfter
  <1>. QED
    BY <1>5, <1>6, <1>7, <1>8, <1>9, <1>10

-----------------------------------------------------------------------------
(***************************************************************************)
(* The order of Data.                                                      *)
(***************************************************************************)
\* Without a BoolTerm_c the kinds decide, or what the two are made of.
LEMMA ComparedByKind ==
    ASSUME NEW c, NEW S, NEW x \in DataOf(S), NEW y \in DataOf(S), y.kind # "BoolTerm_c"
    PROVE  /\ x.kind # y.kind =>
                Compared(c, x, y) = Sign(NameAddress[x.kind] - NameAddress[y.kind])
           /\ x.kind = y.kind /\ x.kind \in Incomparable => Compared(c, x, y) = 0
           /\ x.kind = y.kind /\ x.kind = "OrderedMapTerm_c" =>
                Compared(c, x, y) = CompareSeq(c, Content(x), Content(y))
           /\ x.kind = y.kind /\ x.kind \notin Incomparable \cup {"OrderedMapTerm_c"} =>
                Compared(c, x, y) = IF CompareSeq(c, x.args, y.args) # 0
                                    THEN CompareSeq(c, x.args, y.args)
                                    ELSE Sign(x.num - y.num)
  <1>1. x.kind # y.kind => Compared(c, x, y) = Sign(NameAddress[x.kind] - NameAddress[y.kind])
    BY DEF Compared
  <1>2. ASSUME x.kind = y.kind, x.kind \in Incomparable PROVE Compared(c, x, y) = 0
    <2>1. x.kind # "OrderedMapTerm_c"
      BY <1>2 DEF Incomparable
    <2>2. Compared(c, x, y) = Sign(NameAddress[x.kind] - NameAddress[y.kind])
      BY <1>2, <2>1 DEF Compared
    <2>3. NameAddress[x.kind] \in Nat
      BY NamesAreDistinct DEF DataOf
    <2>4. NameAddress[x.kind] - NameAddress[y.kind] = 0
      BY <1>2, <2>3
    <2>. QED
      BY <2>2, <2>4 DEF Sign
  <1>3. x.kind = y.kind /\ x.kind = "OrderedMapTerm_c" =>
            Compared(c, x, y) = CompareSeq(c, Content(x), Content(y))
    BY DEF Compared
  <1>4. x.kind = y.kind /\ x.kind \notin Incomparable \cup {"OrderedMapTerm_c"} =>
            Compared(c, x, y) = IF CompareSeq(c, x.args, y.args) # 0
                                THEN CompareSeq(c, x.args, y.args)
                                ELSE Sign(x.num - y.num)
    BY DEF Compared
  <1>. QED
    BY <1>1, <1>2, <1>3, <1>4

\* The lexicographic order of sequences, as a function.
Lexicographic(c, S) == [p \in Seq(S) \X Seq(S) |-> CompareSeq(c, p[1], p[2])]

\* It is an order wherever the elements are ordered.
LEMMA SequencesAreOrdered ==
    ASSUME NEW c, NEW S, Orders(c, S)
    PROVE  Orders(Lexicographic(c, S), Seq(S))
  <1> DEFINE l == Lexicographic(c, S)
  <1>1. \A s, t \in Seq(S) : l[<<s, t>>] = CompareSeq(c, s, t)
    BY DEF Lexicographic
  <1>2. \A s, t \in Seq(S) : /\ CompareSeq(c, s, t) \in {-1, 0, 1}
                             /\ CompareSeq(c, s, t) = -CompareSeq(c, t, s)
    BY SeqAntisymmetric
  <1>3. \A s, t, u \in Seq(S) :
            CompareSeq(c, s, t) <= 0 /\ CompareSeq(c, t, u) <= 0 => CompareSeq(c, s, u) <= 0
    BY SeqTransitive
  <1> HIDE DEF l
  <1>4. Orders(l, Seq(S))
    BY <1>1, <1>2, <1>3 DEF Orders
  <1>. QED
    BY <1>4 DEF l

\* Two parts compared one after the other: the second decides where the
\* first does not.
Then(a, b) == IF a # 0 THEN a ELSE b

\* Data of one kind.
LEMMA KindIsOrdered ==
    ASSUME NEW c, NEW S, Orders(c, S),
           NEW x \in DataOf(S), NEW y \in DataOf(S), NEW z \in DataOf(S),
           x.kind = y.kind, y.kind = z.kind, x.kind # "BoolTerm_c"
    PROVE  /\ Compared(c, x, y) \in {-1, 0, 1}
           /\ Compared(c, x, y) = -Compared(c, y, x)
           /\ Compared(c, x, y) <= 0 /\ Compared(c, y, z) <= 0 => Compared(c, x, z) <= 0
  <1> DEFINE l == Lexicographic(c, S)
  <1>1. Orders(l, Seq(S))
    BY SequencesAreOrdered
  <1>2. \A s, t \in Seq(S) : CompareSeq(c, s, t) = Val(l, s, t)
    BY DEF Lexicographic, Val
  <1> HIDE DEF l
  <1>3. /\ x.args \in Seq(S) /\ y.args \in Seq(S) /\ z.args \in Seq(S)
        /\ x.num \in Int /\ y.num \in Int /\ z.num \in Int
    BY DEF DataOf
  <1>4. CASE x.kind \in Incomparable
    <2>1. Compared(c, x, y) = 0 /\ Compared(c, y, x) = 0 /\ Compared(c, x, z) = 0
      BY <1>4, ComparedByKind
    <2> DEFINE a == Compared(c, x, y)
               b == Compared(c, y, x)
               d == Compared(c, x, z)
    <2>2. a = 0 /\ b = 0 /\ d = 0
      BY <2>1
    <2> HIDE DEF a, b, d
    <2>3. a \in {-1, 0, 1} /\ a \in Int /\ b \in Int /\ a + b = 0 /\ d <= 0
      BY <2>2
    <2>4. \A i, j \in Int : i + j = 0 => i = -j
      OBVIOUS
    <2>5. a = -b
      BY <2>3, <2>4
    <2>. QED
      BY <2>3, <2>5 DEF a, b, d
  <1>5. CASE x.kind = "OrderedMapTerm_c"
    <2> DEFINE s == Content(x)
               t == Content(y)
               u == Content(z)
    <2>1. s \in Seq(S) /\ t \in Seq(S) /\ u \in Seq(S)
      BY <1>3, ContentOf
    <2>2. /\ Compared(c, x, y) = CompareSeq(c, s, t) /\ Compared(c, y, x) = CompareSeq(c, t, s)
          /\ Compared(c, x, z) = CompareSeq(c, s, u) /\ Compared(c, y, z) = CompareSeq(c, t, u)
      BY <1>5, ComparedByKind
    <2> HIDE DEF s, t, u
    <2>3. /\ Val(l, s, t) \in {-1, 0, 1} /\ Val(l, s, t) = -Val(l, t, s)
          /\ Val(l, s, t) <= 0 /\ Val(l, t, u) <= 0 => Val(l, s, u) <= 0
      BY <1>1, <2>1, OrderFacts
    <2>4. /\ Compared(c, x, y) = Val(l, s, t) /\ Compared(c, y, x) = Val(l, t, s)
          /\ Compared(c, x, z) = Val(l, s, u) /\ Compared(c, y, z) = Val(l, t, u)
      BY <1>2, <2>1, <2>2
    <2>. QED
      BY <2>3, <2>4
  <1>6. CASE x.kind \notin Incomparable \cup {"OrderedMapTerm_c"}
    <2> DEFINE s == x.args
               t == y.args
               u == z.args
    <2>1. s \in Seq(S) /\ t \in Seq(S) /\ u \in Seq(S)
      BY <1>3
    <2>2. /\ Compared(c, x, y) = Then(CompareSeq(c, s, t), Sign(x.num - y.num))
          /\ Compared(c, y, x) = Then(CompareSeq(c, t, s), Sign(y.num - x.num))
          /\ Compared(c, x, z) = Then(CompareSeq(c, s, u), Sign(x.num - z.num))
          /\ Compared(c, y, z) = Then(CompareSeq(c, t, u), Sign(y.num - z.num))
      BY <1>6, ComparedByKind DEF Then
    <2> HIDE DEF s, t, u
    <2>3. /\ Val(l, s, t) \in {-1, 0, 1} /\ Val(l, t, u) \in {-1, 0, 1} /\ Val(l, s, u) \in {-1, 0, 1}
          /\ Val(l, t, s) \in {-1, 0, 1} /\ Val(l, s, t) = -Val(l, t, s)
          /\ Val(l, s, t) <= 0 /\ Val(l, t, u) <= 0 => Val(l, s, u) <= 0
          /\ Val(l, s, t) = 0 /\ Val(l, t, u) = 0 => Val(l, s, u) = 0
          /\ Val(l, s, t) < 0 /\ Val(l, t, u) <= 0 => Val(l, s, u) < 0
          /\ Val(l, s, t) <= 0 /\ Val(l, t, u) < 0 => Val(l, s, u) < 0
      BY <1>1, <2>1, OrderFacts
    <2>4. /\ Compared(c, x, y) = Then(Val(l, s, t), Sign(x.num - y.num))
          /\ Compared(c, y, x) = Then(Val(l, t, s), Sign(y.num - x.num))
          /\ Compared(c, x, z) = Then(Val(l, s, u), Sign(x.num - z.num))
          /\ Compared(c, y, z) = Then(Val(l, t, u), Sign(y.num - z.num))
      BY <1>2, <2>1, <2>2
    <2>5. Compared(c, x, y) \in {-1, 0, 1} /\ Compared(c, x, y) = -Compared(c, y, x)
      <3>1. /\ Sign(x.num - y.num) \in {-1, 0, 1}
            /\ Sign(x.num - y.num) = -Sign(y.num - x.num)
        BY <1>3 DEF Sign
      <3>. QED
        BY <2>3, <2>4, <3>1 DEF Then
    <2>6. ASSUME Compared(c, x, y) <= 0, Compared(c, y, z) <= 0
          PROVE  Compared(c, x, z) <= 0
      <3> DEFINE a == Val(l, s, t)
                 b == Val(l, t, u)
                 ab == Val(l, s, u)
                 m == x.num
                 n == y.num
                 o == z.num
      <3>1. m \in Int /\ n \in Int /\ o \in Int
        BY <1>3
      <3>2. /\ a \in {-1, 0, 1} /\ b \in {-1, 0, 1} /\ ab \in {-1, 0, 1}
            /\ a <= 0 /\ b <= 0 => ab <= 0
            /\ a = 0 /\ b = 0 => ab = 0
            /\ a < 0 /\ b <= 0 => ab < 0
            /\ a <= 0 /\ b < 0 => ab < 0
        BY <2>3
      <3>3. Then(a, Sign(m - n)) <= 0 /\ Then(b, Sign(n - o)) <= 0
        BY <2>4, <2>6
      <3>4. Compared(c, x, z) = Then(ab, Sign(m - o))
        BY <2>4
      <3> HIDE DEF a, b, ab, m, n, o
      <3>5. Then(ab, Sign(m - o)) <= 0
        BY <3>1, <3>2, <3>3 DEF Then, Sign
      <3>. QED
        BY <3>4, <3>5
    <2>. QED
      BY <2>5, <2>6
  <1>. QED
    BY <1>4, <1>5, <1>6

\* Data made of what is ordered are ordered: by the addresses of the names of
\* their kinds, and within a kind as above.
LEMMA OrderCarries ==
    ASSUME NEW c, NEW S, Orders(c, S), NEW P \in SUBSET DataOf(S),
           \A x \in P : x.kind # "BoolTerm_c",
           \A x, y \in P : c[<<x, y>>] = Compared(c, x, y)
    PROVE  Orders(c, P)
  <1> DEFINE A(x) == NameAddress[x.kind]
  <1>1. \A x \in P : x \in DataOf(S) /\ A(x) \in Nat
    BY NamesAreDistinct DEF DataOf
  <1>2. \A x, y \in P : A(x) = A(y) => x.kind = y.kind
    BY NamesAreDistinct DEF DataOf
  <1>3. \A x, y \in P : x.kind = y.kind => A(x) = A(y)
    OBVIOUS
  <1>4. \A x, y \in P : x.kind # y.kind => Compared(c, x, y) = Sign(A(x) - A(y))
    <2>1. ASSUME NEW x \in P, NEW y \in P, x.kind # y.kind
          PROVE  Compared(c, x, y) = Sign(A(x) - A(y))
      BY <1>1, <2>1, ComparedByKind
    <2>. QED
      BY <2>1
  <1>5. \A x, y, z \in P : x.kind = y.kind /\ y.kind = z.kind =>
            /\ Compared(c, x, y) \in {-1, 0, 1}
            /\ Compared(c, x, y) = -Compared(c, y, x)
            /\ Compared(c, x, y) <= 0 /\ Compared(c, y, z) <= 0 => Compared(c, x, z) <= 0
    BY <1>1, KindIsOrdered
  <1> HIDE DEF A
  <1>6. ASSUME NEW x \in P, NEW y \in P
        PROVE  Compared(c, x, y) \in {-1, 0, 1} /\ Compared(c, x, y) = -Compared(c, y, x)
    <2>1. CASE x.kind = y.kind
      BY <1>5, <2>1
    <2>2. CASE x.kind # y.kind
      <3>1. Sign(A(x) - A(y)) \in {-1, 0, 1} /\ Sign(A(x) - A(y)) = -Sign(A(y) - A(x))
        BY <1>1 DEF Sign
      <3>. QED
        BY <1>4, <2>2, <3>1
    <2>. QED
      BY <2>1, <2>2
  \* Kinds do not descend along Data that do not.
  <1>7. ASSUME NEW x \in P, NEW y \in P, Compared(c, x, y) <= 0
        PROVE  A(x) < A(y) \/ x.kind = y.kind
    <2>1. CASE x.kind # y.kind
      <3>1. Sign(A(x) - A(y)) <= 0 /\ A(x) # A(y)
        BY <1>2, <1>4, <1>7, <2>1
      <3>. QED
        BY <1>1, <3>1 DEF Sign
    <2>. QED
      BY <2>1
  <1>8. ASSUME NEW x \in P, NEW y \in P, NEW z \in P,
               Compared(c, x, y) <= 0, Compared(c, y, z) <= 0
        PROVE  Compared(c, x, z) <= 0
    <2>1. CASE x.kind = y.kind /\ y.kind = z.kind
      BY <1>5, <1>8, <2>1
    <2>2. CASE x.kind # y.kind \/ y.kind # z.kind
      <3>1. A(x) < A(y) \/ x.kind = y.kind
        BY <1>7, <1>8
      <3>2. A(y) < A(z) \/ y.kind = z.kind
        BY <1>7, <1>8
      <3>3. A(x) < A(z)
        BY <1>1, <1>3, <2>2, <3>1, <3>2
      <3>4. x.kind # z.kind
        BY <1>1, <1>3, <3>3
      <3>5. Sign(A(x) - A(z)) <= 0
        BY <1>1, <3>3 DEF Sign
      <3>. QED
        BY <1>4, <3>4, <3>5
    <2>. QED
      BY <2>1, <2>2
  <1>. QED
    BY <1>6, <1>8 DEF Orders

\* The part of a height that lies in P is made of the part below.
LEMMA PartOfHeight ==
    ASSUME NEW K, NEW P, MadeWithout(K, P), NEW n \in 1 .. MaxHeight
    PROVE  P \cap Height[n] \subseteq DataOf(P \cap Height[n - 1])
  <1>1. ASSUME NEW x \in P, x \in Height[n] PROVE x \in DataOf(P \cap Height[n - 1])
    <2>1. x \in DataOf(Height[n - 1])
      BY <1>1, HeightDef
    <2>2. x.args \in Seq(Height[n - 1])
      BY <2>1 DEF DataOf
    <2>3. \A i \in 1 .. Len(x.args) : x.args[i] \in Height[n - 1]
      BY <2>2, ElementOfSeq
    <2>4. DOMAIN x.args = 1 .. Len(x.args) /\ Len(x.args) \in Nat
      BY <2>2
    <2>5. \A i \in 1 .. Len(x.args) : x.args[i] \in P
      BY <2>4 DEF MadeWithout
    <2>6. x.args \in Seq(P \cap Height[n - 1])
      BY <2>2, <2>3, <2>4, <2>5
    <2>. QED
      BY <2>1, <2>6 DEF DataOf
  <1>. QED
    BY <1>1

\* compare_data orders the Data of which none is, or holds, a BoolTerm_c: it
\* takes the values -1, 0 and 1, changes sign when its arguments are swapped,
\* and is transitive, whatever the addresses of the type names; so that DataOrder,
\* "compare_data(lhs, rhs) < 0" (OrderedMapType.hpp:31), is the strict weak order
\* that std::map asks for.
THEOREM DataAreOrdered ==
    ASSUME NEW P, MadeWithout({"BoolTerm_c"}, P)
    PROVE  Orders(compare_data, P)
  <1> DEFINE S == {n \in Nat : n <= MaxHeight /\ ~ Orders(compare_data, P \cap Height[n])}
  <1>1. S = {}
    <2>1. SUFFICES ASSUME S # {} PROVE FALSE
      OBVIOUS
    <2>2. PICK n \in S : \A k \in S : n <= k
      <3>1. S \in SUBSET Nat /\ S # {}
        BY <2>1
      <3> HIDE DEF S
      <3>. QED
        BY <3>1, LeastNumber
    <2>3. n \in Nat /\ n <= MaxHeight /\ ~ Orders(compare_data, P \cap Height[n])
      OBVIOUS
    <2>4. CASE n = 0
      <3>1. P \cap Height[0] = {}
        BY HeightDef
      <3>2. Orders(compare_data, P \cap Height[0])
        BY <3>1 DEF Orders
      <3>. QED
        BY <2>3, <2>4, <3>2
    <2>5. CASE n # 0
      <3>1. n - 1 \in Nat /\ n - 1 <= MaxHeight /\ n - 1 \notin S /\ n \in 1 .. MaxHeight
        BY <2>2, <2>3, <2>5, HeightIsBounded
      <3>2. Orders(compare_data, P \cap Height[n - 1])
        BY <3>1
      <3> DEFINE T == P \cap Height[n - 1]
                 Q == P \cap Height[n]
      <3>3. Q \in SUBSET DataOf(T)
        BY <3>1, PartOfHeight
      <3>4. \A x \in Q : x.kind # "BoolTerm_c" /\ x \in Data
        BY DEF MadeWithout
      <3>5. \A x, y \in Q : compare_data[<<x, y>>] = Compared(compare_data, x, y)
        BY <3>4, CompareDef DEF CompareData
      <3>6. Orders(compare_data, T)
        BY <3>2
      <3> HIDE DEF T, Q
      <3>7. Orders(compare_data, Q)
        BY <3>3, <3>4, <3>5, <3>6, OrderCarries
      <3>. QED
        BY <2>3, <3>7 DEF Q
    <2>. QED
      BY <2>4, <2>5
  <1>2. MaxHeight \in Nat /\ MaxHeight \notin S
    <2> HIDE DEF S
    <2>. QED
      BY <1>1, HeightIsBounded
  <1>3. Orders(compare_data, P \cap Height[MaxHeight])
    BY <1>2
  <1>4. P \cap Height[MaxHeight] = P
    BY DEF MadeWithout, Data
  <1>. QED
    BY <1>3, <1>4

\* With a BoolTerm_c it orders nothing: True compares equal to a BoolTerm_c that
\* is true, as their `compare' says, but the comparison in the other direction is
\* not registered (NPTerm.cpp:128), and the addresses of the names decide.
THEOREM BoolTermIsNotOrdered ==
    ASSUME {"True_c", "BoolTerm_c"} \subseteq DOMAIN NameAddress, MaxHeight > 0
    PROVE  /\ Atom("True_c") \in Data /\ BoolTerm(1) \in Data
           /\ CompareData(Atom("True_c"), BoolTerm(1)) = 0
           /\ CompareData(BoolTerm(1), Atom("True_c")) # 0
  <1> DEFINE T == Atom("True_c")
             B == BoolTerm(1)
  <1>1. Height[1] = DataOf(Height[0]) /\ Height[1] \subseteq Data
    <2>1. 1 \in 1 .. MaxHeight /\ 1 \in 0 .. MaxHeight /\ 1 - 1 = 0
      BY HeightIsBounded
    <2>. QED
      BY <2>1, HeightDef, HeightsAreData
  <1>2. T \in Data /\ B \in Data
    <2>1. <<>> \in Seq(Height[0])
      OBVIOUS
    <2>2. T \in DataOf(Height[0]) /\ B \in DataOf(Height[0])
      BY <2>1 DEF DataOf, Atom, BoolTerm, Node
    <2>. QED
      BY <1>1, <2>2
  <1>3. T.kind = "True_c" /\ B.kind = "BoolTerm_c" /\ B.num = 1
    BY DEF Atom, BoolTerm, Node
  <1> HIDE DEF T, B
  <1>4. CompareData(T, B) = 0
    <2>1. Compared(compare_data, T, B) = Sign(as_bool["True_c"] - 1)
      BY <1>3 DEF Compared, as_bool
    <2>2. Sign(as_bool["True_c"] - 1) = 0
      BY DEF as_bool, Sign
    <2>. QED
      BY <1>2, <2>1, <2>2, CompareDef
  <1>5. CompareData(B, T) # 0
    <2>1. Compared(compare_data, B, T) = Sign(NameAddress["BoolTerm_c"] - NameAddress["True_c"])
      BY <1>3 DEF Compared, as_bool
    <2>2. /\ NameAddress["BoolTerm_c"] \in Nat /\ NameAddress["True_c"] \in Nat
          /\ NameAddress["BoolTerm_c"] # NameAddress["True_c"]
      BY NamesAreDistinct
    <2>3. Sign(NameAddress["BoolTerm_c"] - NameAddress["True_c"]) # 0
      BY <2>2 DEF Sign
    <2>. QED
      BY <1>2, <2>1, <2>3, CompareDef
  <1>. QED
    BY <1>2, <1>4, <1>5 DEF T, B

-----------------------------------------------------------------------------
(***************************************************************************)
(* eq_data.                                                                *)
(***************************************************************************)
\* Equality of sequences uses that of their elements only.
LEMMA EqualAgrees ==
    ASSUME NEW S, NEW x \in DataOf(S), NEW y \in DataOf(S), NEW f, NEW g,
           \A v, w \in S : f[<<v, w>>] = g[<<v, w>>]
    PROVE  Equal(f, x, y) = Equal(g, x, y)
  <1>1. \A s, t \in Seq(S) : Len(s) = Len(t) =>
            \A i \in DOMAIN s : s[i] \in S /\ t[i] \in S
    OBVIOUS
  <1>2. \A s, t \in Seq(S) : EqSeq(f, s, t) <=> EqSeq(g, s, t)
    BY <1>1 DEF EqSeq
  <1>3. x.args \in Seq(S) /\ y.args \in Seq(S)
    BY DEF DataOf
  <1>4. Content(x) \in Seq(S) /\ Content(y) \in Seq(S)
    BY <1>3, ContentOf
  <1>5. \A i \in DOMAIN x.args, j \in DOMAIN y.args :
            f[<<x.args[i], y.args[j]>>] = g[<<x.args[i], y.args[j]>>]
    BY <1>3
  <1>6. Equal(f, x, y) <=> Equal(g, x, y)
    <2>1. CASE x.kind = "OrderedMapTerm_c"
      BY <1>2, <1>4, <2>1 DEF Equal
    <2>2. CASE x.kind = "UnionTerm_c"
      BY <1>5, <2>2 DEF Equal
    <2>3. CASE x.kind # "OrderedMapTerm_c" /\ x.kind # "UnionTerm_c"
      BY <1>2, <1>3, <2>3 DEF Equal
    <2>. QED
      BY <2>1, <2>2, <2>3
  <1>7. Equal(f, x, y) \in BOOLEAN /\ Equal(g, x, y) \in BOOLEAN
    BY DEF Equal
  <1>. QED
    BY <1>6, <1>7

IsEquality(f, S) == f = [p \in S \X S |-> Equal(f, p[1], p[2])]

\* There is an equality on the Data of each height.
LEMMA EqualitiesExist ==
    \A m \in 0 .. MaxHeight : \E f : IsEquality(f, Height[m])
  <1> DEFINE S == {m \in Nat : m <= MaxHeight /\ ~ \E f : IsEquality(f, Height[m])}
  <1>1. S = {}
    <2>1. SUFFICES ASSUME S # {} PROVE FALSE
      OBVIOUS
    <2>2. PICK m \in S : \A k \in S : m <= k
      <3>1. S \in SUBSET Nat /\ S # {}
        BY <2>1
      <3> HIDE DEF S
      <3>. QED
        BY <3>1, LeastNumber
    <2>3. m \in Nat /\ m <= MaxHeight /\ ~ \E f : IsEquality(f, Height[m])
      OBVIOUS
    <2>4. CASE m = 0
      <3> DEFINE f == [p \in {} \X {} |-> TRUE]
      <3>1. {} \X {} = {}
        OBVIOUS
      <3>2. f = [p \in {} \X {} |-> Equal(f, p[1], p[2])]
        BY <3>1
      <3> HIDE DEF f
      <3>3. IsEquality(f, Height[0])
        BY <3>2, HeightDef DEF IsEquality
      <3>. QED
        BY <2>3, <2>4, <3>3
    <2>5. CASE m # 0
      <3>1. m - 1 \in Nat /\ m - 1 < MaxHeight /\ m - 1 <= MaxHeight /\ m - 1 \notin S
        BY <2>2, <2>3, <2>5, HeightIsBounded
      <3>2. PICK g : IsEquality(g, Height[m - 1])
        BY <3>1
      <3> DEFINE f == [p \in Height[m] \X Height[m] |-> Equal(g, p[1], p[2])]
      <3>3. Height[m] = DataOf(Height[m - 1]) /\ Height[m - 1] \subseteq Height[m]
        <4>1. m \in 1 .. MaxHeight /\ (m - 1) + 1 = m
          BY <2>3, <2>5, HeightIsBounded
        <4>. QED
          BY <3>1, <4>1, HeightDef, HeightGrows
      <3>4. \A v, w \in Height[m] : f[<<v, w>>] = Equal(g, v, w)
        OBVIOUS
      <3>5. f = [p \in Height[m] \X Height[m] |-> f[p]]
        OBVIOUS
      <3> HIDE DEF f
      <3>6. \A v, w \in Height[m - 1] : g[<<v, w>>] = Equal(g, v, w)
        BY <3>2 DEF IsEquality
      <3>7. \A v, w \in Height[m - 1] : f[<<v, w>>] = g[<<v, w>>]
        BY <3>3, <3>4, <3>6
      <3>8. \A v, w \in Height[m] : f[<<v, w>>] = Equal(f, v, w)
        <4>1. ASSUME NEW v \in Height[m], NEW w \in Height[m]
              PROVE  Equal(f, v, w) = Equal(g, v, w)
          <5>1. v \in DataOf(Height[m - 1]) /\ w \in DataOf(Height[m - 1])
            BY <3>3
          <5>. QED
            BY <3>7, <5>1, EqualAgrees
        <4>. QED
          BY <3>4, <4>1
      <3>9. \A p \in Height[m] \X Height[m] : f[p] = Equal(f, p[1], p[2])
        BY <3>8
      <3>10. IsEquality(f, Height[m])
        BY <3>5, <3>9 DEF IsEquality
      <3>. QED
        BY <2>3, <3>10
    <2>. QED
      BY <2>4, <2>5
  <1>2. ASSUME NEW m \in 0 .. MaxHeight PROVE \E f : IsEquality(f, Height[m])
    <2>1. m \in Nat /\ m <= MaxHeight
      BY HeightIsBounded
    <2>2. m \notin S
      <3> HIDE DEF S
      <3>. QED
        BY <1>1
    <2>. QED
      BY <2>1, <2>2
  <1>. QED
    BY <1>2

\* eq_data equates Data by what they are made of.
LEMMA EqDef ==
    \A x, y \in Data : EqData(x, y) = Equal(eq_data, x, y)
  <1>1. MaxHeight \in 0 .. MaxHeight
    BY HeightIsBounded
  <1>2. \E f : f = [p \in Data \X Data |-> Equal(f, p[1], p[2])]
    BY <1>1, EqualitiesExist DEF IsEquality, Data
  <1>3. eq_data = [p \in Data \X Data |-> Equal(eq_data, p[1], p[2])]
    BY <1>2 DEF eq_data
  <1>. QED
    BY <1>3 DEF EqData

\* The same elements are equal for eq_data and for compare_data.
Match(S) == \A x, y \in S : compare_data[<<x, y>>] = 0 <=> eq_data[<<x, y>>]

\* Then so are the same sequences.
LEMMA SequencesMatch ==
    ASSUME NEW S, Match(S), NEW s \in Seq(S), NEW t \in Seq(S)
    PROVE  CompareSeq(compare_data, s, t) = 0 <=> EqSeq(eq_data, s, t)
  <1> DEFINE c == compare_data
  <1>1. Len(s) \in Nat /\ Len(t) \in Nat /\ DOMAIN s = 1 .. Len(s)
    OBVIOUS
  <1>2. \A i \in Nat : 1 <= i /\ i <= Len(s) /\ i <= Len(t) =>
            (Val(c, s[i], t[i]) = 0 <=> eq_data[<<s[i], t[i]>>])
    <2>1. \A i \in Nat : 1 <= i /\ i <= Len(s) /\ i <= Len(t) => s[i] \in S /\ t[i] \in S
      OBVIOUS
    <2>. QED
      BY <2>1 DEF Match, Val
  <1> HIDE DEF c
  <1>3. CASE NeverDiffers(c, s, t)
    <2>1. CompareSeq(c, s, t) = Sign(Len(s) - Len(t))
      BY <1>3, CompareSeqNever
    <2>2. CompareSeq(c, s, t) = 0 <=> Len(s) = Len(t)
      BY <1>1, <2>1 DEF Sign
    <2>3. Len(s) = Len(t) => \A i \in 1 .. Len(s) : eq_data[<<s[i], t[i]>>]
      BY <1>1, <1>2, <1>3 DEF NeverDiffers
    <2>. QED
      BY <1>1, <2>2, <2>3 DEF EqSeq, c
  <1>4. CASE \E k \in Nat : DiffersAt(c, s, t, k)
    <2>1. PICK k \in Nat : DiffersAt(c, s, t, k)
      BY <1>4
    <2>2. 1 <= k /\ k <= Len(s) /\ k <= Len(t) /\ Val(c, s[k], t[k]) # 0
      BY <2>1 DEF DiffersAt
    <2>3. CompareSeq(c, s, t) # 0
      BY <2>1, <2>2, CompareSeqAt
    <2>4. k \in 1 .. Len(s) /\ ~ eq_data[<<s[k], t[k]>>]
      BY <1>1, <1>2, <2>2
    <2>. QED
      BY <1>1, <2>3, <2>4 DEF EqSeq, c
  <1>. QED
    BY <1>3, <1>4, DiffersOrNot

\* compare_data is zero for equal Data and for no others, where neither is, or
\* holds, a union (equal as a set, compared in order), a BoolTerm_c, or a term
\* without a comparison: a lookup in an ordered map, which goes by compare_data,
\* finds the key that is equal.
THEOREM ZeroIsEqual ==
    ASSUME NEW P, MadeWithout({"BoolTerm_c", "UnionTerm_c"} \cup Incomparable, P)
    PROVE  \A x, y \in P : CompareData(x, y) = 0 <=> EqData(x, y)
  <1> DEFINE S == {n \in Nat : n <= MaxHeight /\ ~ Match(P \cap Height[n])}
  <1>1. S = {}
    <2>1. SUFFICES ASSUME S # {} PROVE FALSE
      OBVIOUS
    <2>2. PICK n \in S : \A k \in S : n <= k
      <3>1. S \in SUBSET Nat /\ S # {}
        BY <2>1
      <3> HIDE DEF S
      <3>. QED
        BY <3>1, LeastNumber
    <2>3. n \in Nat /\ n <= MaxHeight /\ ~ Match(P \cap Height[n])
      OBVIOUS
    <2>4. n # 0
      BY <2>3, HeightDef DEF Match
    <2>5. n - 1 \in Nat /\ n - 1 <= MaxHeight /\ n - 1 \notin S /\ n \in 1 .. MaxHeight
      BY <2>2, <2>3, <2>4, HeightIsBounded
    <2> DEFINE T == P \cap Height[n - 1]
               Q == P \cap Height[n]
    <2>6. Match(T)
      BY <2>5
    <2>7. Q \subseteq DataOf(T)
      BY <2>5, PartOfHeight
    <2>8. ASSUME NEW x \in Q
          PROVE  /\ x \in Data /\ x.kind # "BoolTerm_c" /\ x.kind # "UnionTerm_c"
                 /\ x.kind \notin Incomparable
      BY DEF MadeWithout
    <2> HIDE DEF T, Q
    <2>9. ASSUME NEW x \in Q, NEW y \in Q
          PROVE  compare_data[<<x, y>>] = 0 <=> eq_data[<<x, y>>]
      <3>1. /\ x \in DataOf(T) /\ y \in DataOf(T)
            /\ x.args \in Seq(T) /\ y.args \in Seq(T) /\ x.num \in Int /\ y.num \in Int
            /\ x.kind \in DOMAIN NameAddress /\ y.kind \in DOMAIN NameAddress
        BY <2>7 DEF DataOf
      <3>2. Content(x) \in Seq(T) /\ Content(y) \in Seq(T)
        BY <3>1, ContentOf
      <3>3. compare_data[<<x, y>>] = Compared(compare_data, x, y)
        BY <2>8, CompareDef DEF CompareData
      <3>4. eq_data[<<x, y>>] = Equal(eq_data, x, y)
        BY <2>8, EqDef DEF EqData
      <3>5. CASE x.kind # y.kind
        <4>1. Compared(compare_data, x, y) = Sign(NameAddress[x.kind] - NameAddress[y.kind])
          BY <2>8, <3>1, <3>5, ComparedByKind
        <4>2. /\ NameAddress[x.kind] \in Nat /\ NameAddress[y.kind] \in Nat
              /\ NameAddress[x.kind] # NameAddress[y.kind]
          BY <3>1, <3>5, NamesAreDistinct
        <4>3. Compared(compare_data, x, y) # 0
          BY <4>1, <4>2 DEF Sign
        <4>4. ~ Equal(eq_data, x, y)
          BY <3>5 DEF Equal
        <4>. QED
          BY <3>3, <3>4, <4>3, <4>4
      <3>6. CASE x.kind = y.kind /\ x.kind = "OrderedMapTerm_c"
        <4>1. Compared(compare_data, x, y) = CompareSeq(compare_data, Content(x), Content(y))
          BY <2>8, <3>1, <3>6, ComparedByKind
        <4>2. Equal(eq_data, x, y) <=> EqSeq(eq_data, Content(x), Content(y))
          BY <3>6 DEF Equal
        <4>3. CompareSeq(compare_data, Content(x), Content(y)) = 0
                <=> EqSeq(eq_data, Content(x), Content(y))
          BY <2>6, <3>2, SequencesMatch
        <4>. QED
          BY <3>3, <3>4, <4>1, <4>2, <4>3
      <3>7. CASE x.kind = y.kind /\ x.kind # "OrderedMapTerm_c"
        <4>1. Compared(compare_data, x, y) = Then(CompareSeq(compare_data, x.args, y.args),
                                                  Sign(x.num - y.num))
          BY <2>8, <3>1, <3>7, ComparedByKind DEF Then
        <4>2. Equal(eq_data, x, y) <=> x.num = y.num /\ EqSeq(eq_data, x.args, y.args)
          BY <2>8, <3>7 DEF Equal
        <4>3. CompareSeq(compare_data, x.args, y.args) = 0 <=> EqSeq(eq_data, x.args, y.args)
          BY <2>6, <3>1, SequencesMatch
        <4>4. Sign(x.num - y.num) = 0 <=> x.num = y.num
          BY <3>1 DEF Sign
        <4>. QED
          BY <3>3, <3>4, <4>1, <4>2, <4>3, <4>4 DEF Then
      <3>. QED
        BY <3>5, <3>6, <3>7
    <2>10. Match(Q)
      BY <2>9 DEF Match
    <2>. QED
      BY <2>3, <2>10 DEF Q
  <1>2. MaxHeight \in Nat /\ MaxHeight \notin S
    <2> HIDE DEF S
    <2>. QED
      BY <1>1, HeightIsBounded
  <1>3. Match(P \cap Height[MaxHeight])
    BY <1>2
  <1>4. P \cap Height[MaxHeight] = P
    BY DEF MadeWithout, Data
  <1>. QED
    BY <1>3, <1>4 DEF Match, CompareData, EqData

-----------------------------------------------------------------------------
(***************************************************************************)
(* The pairs of an ordered map.                                            *)
(***************************************************************************)
LEMMA KeyFacts ==
    ASSUME NEW P, MadeWithout({"BoolTerm_c"}, P), NEW x \in P, NEW y \in P, NEW z \in P
    PROVE  /\ CompareData(x, y) \in {-1, 0, 1} /\ CompareData(y, x) \in {-1, 0, 1}
           /\ CompareData(x, y) = -CompareData(y, x)
           /\ CompareData(x, y) <= 0 /\ CompareData(y, z) <= 0 => CompareData(x, z) <= 0
           /\ CompareData(x, y) = 0 /\ CompareData(y, z) = 0 => CompareData(x, z) = 0
           /\ CompareData(x, y) < 0 /\ CompareData(y, z) <= 0 => CompareData(x, z) < 0
           /\ CompareData(x, y) <= 0 /\ CompareData(y, z) < 0 => CompareData(x, z) < 0
  <1> DEFINE c == compare_data
  <1>1. Orders(c, P)
    BY DataAreOrdered
  <1>2. \A v, w : CompareData(v, w) = Val(c, v, w)
    BY DEF CompareData, Val
  <1> HIDE DEF c
  <1>. QED
    BY <1>1, <1>2, OrderFacts

\* Where the lower bound is.
LEMMA LowerBoundIs ==
    ASSUME NEW E, NEW pairs \in Seq(E), NEW p, NEW place, place = LowerBound(pairs, p)
    PROVE  /\ place \in 1 .. Len(pairs) + 1
           /\ \A i \in 1 .. Len(pairs) : i < place => ~ (CompareData(Key(pairs[i]), Key(p)) >= 0)
           /\ place \in 1 .. Len(pairs) => CompareData(Key(pairs[place]), Key(p)) >= 0
  <1> DEFINE S == NotLess(pairs, p) \cup {Len(pairs) + 1}
  <1>1. Len(pairs) \in Nat /\ DOMAIN pairs = 1 .. Len(pairs)
    OBVIOUS
  <1>2. S \in SUBSET Nat /\ S # {}
    BY <1>1 DEF NotLess
  <1>3. place = First(S)
    BY DEF LowerBound
  <1>4. \A i \in 1 .. Len(pairs) :
            i \in NotLess(pairs, p) <=> CompareData(Key(pairs[i]), Key(p)) >= 0
    BY <1>1 DEF NotLess
  <1>5. place \in S /\ \A j \in S : place <= j
    <2> HIDE DEF S
    <2>. QED
      BY <1>2, <1>3, FirstIsLeast
  <1>6. place \in 1 .. Len(pairs) + 1
    BY <1>1, <1>5 DEF NotLess
  <1>7. ASSUME NEW i \in 1 .. Len(pairs), i < place PROVE i \notin NotLess(pairs, p)
    BY <1>1, <1>5, <1>6, <1>7
  <1>8. place \in 1 .. Len(pairs) => place \in NotLess(pairs, p)
    BY <1>1, <1>5
  <1>. QED
    BY <1>4, <1>6, <1>7, <1>8

Keyed(E, P) == \A p \in E : Key(p) \in P
PairsIn(pairs) == {pairs[i] : i \in DOMAIN pairs}

\* What a map becomes when a pair is put into it that keeps its keys in order:
\* the map itself if one of its pairs has that key, else a map with one more.
PutInOrder(map, pairs, p, E) ==
    /\ map \in Seq(E) /\ Ascending(map)
    /\ IF \E i \in DOMAIN pairs : CompareData(Key(pairs[i]), Key(p)) = 0
       THEN map = pairs
       ELSE PairsIn(map) = PairsIn(pairs) \cup {p}

\* A pair put into a map whose keys ascend leaves them ascending.  If one of
\* them compares equal the map stays as it was, otherwise the pair is the only
\* one that is new (std::map::emplace with DataOrder).
THEOREM EmplaceKeepsOrder ==
    ASSUME NEW P, MadeWithout({"BoolTerm_c"}, P), NEW E, Keyed(E, P),
           NEW pairs \in Seq(E), Ascending(pairs), NEW p \in E
    PROVE  PutInOrder(emplace(pairs, p), pairs, p, E)
  <1>0. SUFFICES /\ emplace(pairs, p) \in Seq(E)
                 /\ Ascending(emplace(pairs, p))
                 /\ (\E i \in DOMAIN pairs : CompareData(Key(pairs[i]), Key(p)) = 0)
                      => emplace(pairs, p) = pairs
                 /\ (\A i \in DOMAIN pairs : CompareData(Key(pairs[i]), Key(p)) # 0)
                      => PairsIn(emplace(pairs, p)) = PairsIn(pairs) \cup {p}
    BY DEF PutInOrder
  <1> DEFINE place == LowerBound(pairs, p)
             n == Len(pairs)
             C(x, y) == CompareData(Key(x), Key(y))
             entry(i) == CASE i < place -> pairs[i]
                           [] i = place -> p
                           [] i > place -> pairs[i - 1]
             longer == [i \in 1 .. n + 1 |-> entry(i)]
  <1>1. n \in Nat /\ DOMAIN pairs = 1 .. n /\ \A i \in 1 .. n : pairs[i] \in E
    OBVIOUS
  <1>2. /\ place \in 1 .. n + 1
        /\ \A i \in 1 .. n : i < place => ~ (C(pairs[i], p) >= 0)
        /\ place \in 1 .. n => C(pairs[place], p) >= 0
    BY LowerBoundIs
  <1>3. \A x, y, z \in E :
            /\ C(x, y) \in {-1, 0, 1} /\ C(x, y) = -C(y, x)
            /\ C(x, y) <= 0 /\ C(y, z) < 0 => C(x, z) < 0
    BY KeyFacts DEF Keyed
  <1>4. \A i, j \in 1 .. n : i < j => C(pairs[i], pairs[j]) < 0
    BY <1>1 DEF Ascending
  <1>5. emplace(pairs, p) = IF place \in DOMAIN pairs /\ C(pairs[place], p) = 0 THEN pairs ELSE longer
    BY DEF emplace
  <1> HIDE DEF place, C
  \* Below the bound the pairs are less, above it they are greater.
  <1>6. \A i \in 1 .. n : i < place => C(pairs[i], p) < 0
    BY <1>1, <1>2, <1>3
  <1>7. \A i \in 1 .. n : i > place => C(p, pairs[i]) < 0
    <2>1. ASSUME NEW i \in 1 .. n, i > place PROVE C(p, pairs[i]) < 0
      <3>1. place \in 1 .. n
        BY <1>1, <1>2, <2>1
      <3>2. C(p, pairs[place]) <= 0
        BY <1>1, <1>2, <1>3, <3>1
      <3>3. C(pairs[place], pairs[i]) < 0
        BY <1>4, <2>1, <3>1
      <3>. QED
        BY <1>1, <1>3, <2>1, <3>1, <3>2, <3>3
    <2>. QED
      BY <2>1
  <1>8. CASE place \in 1 .. n /\ C(pairs[place], p) = 0
    <2>1. emplace(pairs, p) = pairs
      BY <1>1, <1>5, <1>8
    <2>2. \E i \in DOMAIN pairs : CompareData(Key(pairs[i]), Key(p)) = 0
      BY <1>1, <1>8 DEF C
    <2>. QED
      BY <2>1, <2>2
  <1>9. CASE ~ (place \in 1 .. n /\ C(pairs[place], p) = 0)
    <2>1. emplace(pairs, p) = longer
      BY <1>1, <1>5, <1>9
    <2>2. place \in 1 .. n => C(p, pairs[place]) < 0
      BY <1>1, <1>2, <1>3, <1>9
    <2>3. /\ \A i \in 1 .. n + 1 : i < place => longer[i] = pairs[i] /\ i \in 1 .. n
          /\ longer[place] = p
          /\ \A i \in 1 .. n + 1 : i > place => longer[i] = pairs[i - 1] /\ i - 1 \in 1 .. n
      BY <1>1, <1>2
    <2>4. longer \in Seq(E) /\ DOMAIN longer = 1 .. n + 1
      <3>1. \A i \in 1 .. n + 1 : longer[i] \in E
        BY <1>1, <1>2, <2>3
      <3> HIDE DEF entry
      <3>2. longer = [i \in 1 .. n + 1 |-> longer[i]] /\ DOMAIN longer = 1 .. n + 1
        OBVIOUS
      <3> HIDE DEF longer
      <3>3. longer \in [1 .. n + 1 -> E] /\ n + 1 \in Nat
        BY <1>1, <3>1, <3>2
      <3>. QED
        BY <3>2, <3>3, SeqDef
    <2> HIDE DEF longer
    <2>5. ASSUME NEW i \in 1 .. n + 1, NEW j \in 1 .. n + 1, i < j
          PROVE  C(longer[i], longer[j]) < 0
      <3>1. CASE j < place
        BY <1>1, <1>2, <1>4, <2>3, <2>5, <3>1
      <3>2. CASE j = place
        BY <1>1, <1>2, <1>6, <2>3, <2>5, <3>2
      <3>3. CASE j > place /\ i = place
        <4>1. j - 1 \in 1 .. n /\ longer[i] = p /\ longer[j] = pairs[j - 1]
          BY <2>3, <3>3
        <4>2. CASE j - 1 = place
          BY <2>2, <4>1, <4>2
        <4>3. CASE j - 1 # place
          <5>1. j - 1 > place
            BY <1>1, <1>2, <3>3, <4>3
          <5>. QED
            BY <1>7, <4>1, <5>1
        <4>. QED
          BY <4>2, <4>3
      <3>4. CASE j > place /\ i < place
        <4>1. i \in 1 .. n /\ j - 1 \in 1 .. n /\ i < j - 1
          BY <1>1, <1>2, <2>3, <2>5, <3>4
        <4>. QED
          BY <1>4, <2>3, <3>4, <4>1
      <3>5. CASE j > place /\ i > place
        <4>1. i - 1 \in 1 .. n /\ j - 1 \in 1 .. n /\ i - 1 < j - 1
          BY <1>1, <1>2, <2>3, <2>5, <3>5
        <4>. QED
          BY <1>4, <2>3, <3>5, <4>1
      <3>. QED
        BY <1>1, <1>2, <3>1, <3>2, <3>3, <3>4, <3>5
    <2>6. Ascending(longer)
      BY <2>4, <2>5 DEF Ascending, C
    <2>7. PairsIn(longer) = PairsIn(pairs) \cup {p}
      <3>1. ASSUME NEW i \in 1 .. n + 1 PROVE longer[i] \in PairsIn(pairs) \cup {p}
        <4>1. CASE i < place
          BY <1>1, <2>3, <4>1 DEF PairsIn
        <4>2. CASE i = place
          BY <2>3, <4>2
        <4>3. CASE i > place
          BY <1>1, <2>3, <4>3 DEF PairsIn
        <4>. QED
          BY <1>1, <1>2, <4>1, <4>2, <4>3
      <3>2. ASSUME NEW i \in 1 .. n PROVE pairs[i] \in PairsIn(longer)
        <4>1. CASE i < place
          <5>1. i \in 1 .. n + 1 /\ longer[i] = pairs[i]
            BY <1>1, <2>3, <4>1
          <5>. QED
            BY <2>4, <5>1 DEF PairsIn
        <4>2. CASE i >= place
          <5>1. i + 1 \in 1 .. n + 1 /\ i + 1 > place /\ (i + 1) - 1 = i
            BY <1>1, <1>2, <4>2
          <5>2. longer[i + 1] = pairs[i]
            BY <2>3, <5>1
          <5>. QED
            BY <2>4, <5>1, <5>2 DEF PairsIn
        <4>. QED
          BY <1>1, <1>2, <4>1, <4>2
      <3>3. p \in PairsIn(longer)
        BY <1>2, <2>3, <2>4 DEF PairsIn
      <3>. QED
        BY <1>1, <2>4, <3>1, <3>2, <3>3 DEF PairsIn
    <2>8. ASSUME NEW i \in DOMAIN pairs PROVE CompareData(Key(pairs[i]), Key(p)) # 0
      <3>1. C(pairs[i], p) # 0
        <4>1. i \in 1 .. n /\ pairs[i] \in E
          BY <1>1
        <4>2. CASE i < place
          BY <1>3, <1>6, <4>1, <4>2
        <4>3. CASE i = place
          BY <1>9, <4>1, <4>3
        <4>4. CASE i > place
          <5>1. C(p, pairs[i]) < 0
            BY <1>7, <4>1, <4>4
          <5>2. C(p, pairs[i]) \in {-1, 0, 1} /\ C(pairs[i], p) = -C(p, pairs[i])
            BY <1>3, <4>1
          <5>. QED
            BY <5>1, <5>2
        <4>. QED
          BY <1>1, <1>2, <4>1, <4>2, <4>3, <4>4
      <3>. QED
        BY <3>1 DEF C
    <2>. QED
      BY <2>1, <2>4, <2>6, <2>7, <2>8
  <1>. QED
    BY <1>8, <1>9


IsFilling(f, m, args) == f = [n \in 0 .. m |-> IF n = 0 THEN <<>> ELSE emplace(f[n - 1], args[n])]

\* Pairs can be put into a map one after the other.
LEMMA FillingsExist ==
    ASSUME NEW args
    PROVE  \A m \in Nat : \E f : IsFilling(f, m, args)
  <1> DEFINE S == {m \in Nat : ~ \E f : IsFilling(f, m, args)}
  <1>1. SUFFICES ASSUME S # {} PROVE FALSE
    OBVIOUS
  <1>2. PICK m \in S : \A k \in S : m <= k
    <2>1. S \in SUBSET Nat /\ S # {}
      BY <1>1
    <2> HIDE DEF S
    <2>. QED
      BY <2>1, LeastNumber
  <1>3. m \in Nat /\ ~ \E f : IsFilling(f, m, args)
    OBVIOUS
  <1>4. CASE m = 0
    <2>1. IsFilling([n \in 0 .. 0 |-> <<>>], 0, args)
      BY DEF IsFilling
    <2>. QED
      BY <1>3, <1>4, <2>1
  <1>5. CASE m # 0
    <2>1. m - 1 \in Nat /\ m - 1 \notin S
      BY <1>2, <1>3, <1>5
    <2>2. PICK g : IsFilling(g, m - 1, args)
      BY <2>1
    <2> DEFINE f == [n \in 0 .. m |-> IF n = m THEN emplace(g[m - 1], args[m]) ELSE g[n]]
    <2>3. ASSUME NEW n \in 0 .. m PROVE f[n] = IF n = 0 THEN <<>> ELSE emplace(f[n - 1], args[n])
      <3>1. CASE n = m
        <4>1. m - 1 \in 0 .. m /\ m - 1 # m
          BY <1>3, <1>5
        <4>2. f[m - 1] = g[m - 1]
          BY <4>1
        <4>. QED
          BY <1>5, <3>1, <4>2
      <3>2. CASE n # m
        <4>1. n \in 0 .. m - 1
          BY <1>3, <3>2
        <4>2. g[n] = IF n = 0 THEN <<>> ELSE emplace(g[n - 1], args[n])
          BY <2>2, <4>1 DEF IsFilling
        <4>3. n # 0 => n - 1 \in 0 .. m /\ n - 1 # m
          BY <1>3, <4>1
        <4>4. n # 0 => f[n - 1] = g[n - 1]
          BY <4>3
        <4>. QED
          BY <3>2, <4>2, <4>4
      <3>. QED
        BY <3>1, <3>2
    <2>4. f = [n \in 0 .. m |-> f[n]]
      OBVIOUS
    <2> HIDE DEF f
    <2>5. IsFilling(f, m, args)
      BY <2>3, <2>4 DEF IsFilling
    <2>. QED
      BY <1>3, <2>5
  <1>. QED
    BY <1>4, <1>5

\* make_ordered_map is the last of the maps filled one by one.
LEMMA MapIsFilled ==
    ASSUME NEW args, Len(args) \in Nat
    PROVE  \E f : /\ make_ordered_map(args) = f[Len(args)]
                  /\ f[0] = <<>>
                  /\ \A n \in 1 .. Len(args) : f[n] = emplace(f[n - 1], args[n])
  <1> DEFINE filled == CHOOSE f : f = [n \in 0 .. Len(args) |->
                            IF n = 0 THEN <<>> ELSE emplace(f[n - 1], args[n])]
  <1>1. make_ordered_map(args) = filled[Len(args)]
    BY DEF make_ordered_map
  <1>2. \E f : f = [n \in 0 .. Len(args) |-> IF n = 0 THEN <<>> ELSE emplace(f[n - 1], args[n])]
    BY FillingsExist DEF IsFilling
  <1>3. filled = [n \in 0 .. Len(args) |->
                    IF n = 0 THEN <<>> ELSE emplace(filled[n - 1], args[n])]
    BY <1>2
  <1> HIDE DEF filled
  <1>4. filled[0] = <<>>
    BY <1>3
  <1>5. \A n \in 1 .. Len(args) : filled[n] = emplace(filled[n - 1], args[n])
    BY <1>3
  <1>. QED
    BY <1>1, <1>4, <1>5

\* The first of the args with its key, among the first n of them.
FirstOfKey(args, n, i) ==
    /\ i \in 1 .. n
    /\ \A k \in 1 .. n : k < i => CompareData(Key(args[k]), Key(args[i])) # 0

\* An ordered map made of any pairs in any order has its keys in ascending
\* order, one for each key that was given, and of several pairs with one key
\* it has the first (make_ordered_map, OrderedMapTerm.hpp:213).
THEOREM MapIsSorted ==
    ASSUME NEW P, MadeWithout({"BoolTerm_c"}, P), NEW E, Keyed(E, P), NEW args \in Seq(E)
    PROVE  LET map == make_ordered_map(args)
           IN  /\ map \in Seq(E) /\ Ascending(map)
               /\ PairsIn(map) = {args[i] : i \in {j \in DOMAIN args : FirstOfKey(args, Len(args), j)}}
  <1> DEFINE C(x, y) == CompareData(Key(x), Key(y))
             Firsts(n) == {args[i] : i \in {j \in 1 .. n : FirstOfKey(args, n, j)}}
  <1>1. Len(args) \in Nat /\ DOMAIN args = 1 .. Len(args) /\ \A i \in 1 .. Len(args) : args[i] \in E
    OBVIOUS
  <1>2. PICK f : /\ make_ordered_map(args) = f[Len(args)]
                 /\ f[0] = <<>>
                 /\ \A n \in 1 .. Len(args) : f[n] = emplace(f[n - 1], args[n])
    BY <1>1, MapIsFilled
  <1> DEFINE Good(n) == f[n] \in Seq(E) /\ Ascending(f[n]) /\ PairsIn(f[n]) = Firsts(n)
             S == {n \in Nat : n <= Len(args) /\ ~ Good(n)}
  <1>3. S = {}
    <2>1. SUFFICES ASSUME S # {} PROVE FALSE
      OBVIOUS
    <2>2. PICK n \in S : \A k \in S : n <= k
      <3>1. S \in SUBSET Nat /\ S # {}
        BY <2>1
      <3> HIDE DEF S
      <3>. QED
        BY <3>1, LeastNumber
    <2>3. n \in Nat /\ n <= Len(args) /\ ~ Good(n)
      OBVIOUS
    <2>4. CASE n = 0
      <3>1. f[0] \in Seq(E) /\ DOMAIN f[0] = {}
        BY <1>2
      <3>2. Ascending(f[0]) /\ PairsIn(f[0]) = {}
        BY <3>1 DEF Ascending, PairsIn
      <3>3. Firsts(0) = {}
        OBVIOUS
      <3>. QED
        BY <2>3, <2>4, <3>1, <3>2, <3>3
    <2>5. CASE n # 0
      <3>1. n - 1 \in Nat /\ n - 1 <= Len(args) /\ n \in 1 .. Len(args)
        BY <1>1, <2>3, <2>5
      <3>2. Good(n - 1)
        <4>1. n - 1 \notin S
          <5> HIDE DEF S
          <5>. QED
            BY <2>2, <2>3, <3>1
        <4> HIDE DEF Good
        <4>. QED
          BY <3>1, <4>1
      <3> DEFINE m == f[n - 1]
                 p == args[n]
      <3>3. m \in Seq(E) /\ Ascending(m) /\ PairsIn(m) = Firsts(n - 1) /\ p \in E
        BY <1>1, <3>1, <3>2
      <3>4. f[n] = emplace(m, p)
        BY <1>2, <3>1
      <3> HIDE DEF m, p
      <3>5. /\ f[n] \in Seq(E) /\ Ascending(f[n])
            /\ IF \E i \in DOMAIN m : C(m[i], p) = 0
               THEN f[n] = m
               ELSE PairsIn(f[n]) = PairsIn(m) \cup {p}
        <4>1. PutInOrder(emplace(m, p), m, p, E)
          <5> HIDE DEF S, Good, Firsts, C
          <5>. QED
            BY <3>3, EmplaceKeepsOrder
        <4>. QED
          BY <3>4, <4>1 DEF PutInOrder
      \* A first one is one whatever comes behind it.
      <3>6. \A i \in 1 .. n - 1 : FirstOfKey(args, n, i) <=> FirstOfKey(args, n - 1, i)
        <4>1. ASSUME NEW i \in 1 .. n - 1
              PROVE  FirstOfKey(args, n, i) <=> FirstOfKey(args, n - 1, i)
          <5>1. \A k : k \in 1 .. n /\ k < i <=> k \in 1 .. n - 1 /\ k < i
            BY <2>3
          <5>2. i \in 1 .. n
            BY <2>3
          <5>. QED
            BY <5>1, <5>2 DEF FirstOfKey
        <4>. QED
          BY <4>1
      \* The new one is one unless the map has its key.
      <3>7. (\E i \in DOMAIN m : C(m[i], p) = 0) <=> \E k \in 1 .. n - 1 : C(args[k], p) = 0
        <4>1. ASSUME NEW i \in DOMAIN m, C(m[i], p) = 0
              PROVE  \E k \in 1 .. n - 1 : C(args[k], p) = 0
          <5>1. m[i] \in Firsts(n - 1)
            BY <3>3 DEF PairsIn
          <5>2. PICK k \in 1 .. n - 1 : m[i] = args[k]
            BY <5>1
          <5>. QED
            BY <4>1, <5>2
        <4>2. ASSUME NEW k \in 1 .. n - 1, C(args[k], p) = 0
              PROVE  \E i \in DOMAIN m : C(m[i], p) = 0
          <5> DEFINE T == {j \in Nat : j \in 1 .. n - 1 /\ C(args[j], p) = 0}
          <5>1. T \in SUBSET Nat /\ T # {}
            BY <4>2
          <5>2. PICK j \in T : \A l \in T : j <= l
            <6> HIDE DEF T
            <6>. QED
              BY <5>1, LeastNumber
          <5>3. j \in 1 .. n - 1 /\ C(args[j], p) = 0 /\ args[j] \in E
            BY <1>1, <3>1
          <5>4. FirstOfKey(args, n - 1, j)
            <6>1. ASSUME NEW l \in 1 .. n - 1, l < j PROVE C(args[l], args[j]) # 0
              <7>1. l \notin T /\ l \in Nat
                BY <5>2, <5>3, <6>1
              <7>2. C(args[l], p) # 0
                BY <6>1, <7>1
              <7>3. args[l] \in E
                BY <1>1, <3>1, <6>1
              <7>4. C(args[l], args[j]) = 0 /\ C(args[j], p) = 0 => C(args[l], p) = 0
                BY <3>3, <5>3, <7>3, KeyFacts DEF Keyed
              <7>. QED
                BY <5>3, <7>2, <7>4
            <6>. QED
              BY <5>3, <6>1 DEF FirstOfKey
          <5>5. args[j] \in PairsIn(m)
            BY <3>3, <5>3, <5>4
          <5>6. PICK i \in DOMAIN m : m[i] = args[j]
            BY <5>5 DEF PairsIn
          <5>. QED
            BY <5>3, <5>6
        <4>. QED
          BY <4>1, <4>2
      <3>8. FirstOfKey(args, n, n) <=> ~ \E k \in 1 .. n - 1 : C(args[k], p) = 0
        <4>1. \A k : k \in 1 .. n /\ k < n <=> k \in 1 .. n - 1
          BY <2>3
        <4>2. n \in 1 .. n
          BY <3>1
        <4>. QED
          BY <4>1, <4>2 DEF FirstOfKey, p
      <3>9. PairsIn(f[n]) = Firsts(n)
        <4>1. \A i : i \in 1 .. n <=> i \in 1 .. n - 1 \/ i = n
          BY <3>1
        <4>2. CASE \E i \in DOMAIN m : C(m[i], p) = 0
          <5>1. ~ FirstOfKey(args, n, n)
            BY <3>7, <3>8, <4>2
          <5>2. Firsts(n) = Firsts(n - 1)
            BY <3>6, <4>1, <5>1
          <5>. QED
            BY <3>3, <3>5, <4>2, <5>2
        <4>3. CASE ~ \E i \in DOMAIN m : C(m[i], p) = 0
          <5>1. FirstOfKey(args, n, n)
            BY <3>7, <3>8, <4>3
          <5>2. Firsts(n) = Firsts(n - 1) \cup {p}
            BY <3>6, <4>1, <5>1 DEF p
          <5>. QED
            BY <3>3, <3>5, <4>3, <5>2
        <4>. QED
          BY <4>2, <4>3
      <3>. QED
        BY <2>3, <3>5, <3>9
    <2>. QED
      BY <2>4, <2>5
  <1>4. Len(args) \notin S
    <2> HIDE DEF S
    <2>. QED
      BY <1>3
  <1>5. Good(Len(args))
    BY <1>1, <1>4
  <1>. QED
    BY <1>1, <1>2, <1>5

(***************************************************************************)
(* Recursion.  An equation f = G[f] in which f at d depends on f at what   *)
(* is ranked below d has a solution.                                       *)
(***************************************************************************)
\* The functions on D that have at each d a value in R[d].
From(D, R) == {f \in [D -> UNION {R[d] : d \in D}] : \A d \in D : f[d] \in R[d]}

\* A function is such a one if its values are.
LEMMA IsFrom ==
    ASSUME NEW D, NEW R, NEW f, f = [d \in D |-> f[d]]
    PROVE  f \in From(D, R) <=> \A d \in D : f[d] \in R[d]
  BY DEF From

\* What such a function is.
LEMMA FromFacts ==
    ASSUME NEW D, NEW R, NEW f \in From(D, R)
    PROVE  f = [d \in D |-> f[d]] /\ \A d \in D : f[d] \in R[d]
  BY DEF From

Local(G, D, R, rank) ==
    \A f, g \in From(D, R) : \A d \in D :
        (\A e \in D : rank[e] < rank[d] => f[e] = g[e]) => G[f][d] = G[g][d]

\* f solves the equation for what is ranked below n.
Solves(f, n, G, D, R, rank) ==
    f \in From(D, R) /\ \A d \in D : rank[d] < n => G[f][d] = f[d]

Agreement(G, D, R, rank) ==
    \A n \in Nat : \A f, g : Solves(f, n, G, D, R, rank) /\ Solves(g, n, G, D, R, rank) =>
        \A d \in D : rank[d] < n => f[d] = g[d]

\* Two solutions agree as far as they are solutions.
LEMMA SolutionsAgree ==
    ASSUME NEW D, NEW R, NEW rank \in [D -> Nat], NEW G \in [From(D, R) -> From(D, R)],
           Local(G, D, R, rank)
    PROVE  Agreement(G, D, R, rank)
  <1>. SUFFICES ASSUME NEW n \in Nat, NEW f, NEW g,
                       Solves(f, n, G, D, R, rank), Solves(g, n, G, D, R, rank)
                PROVE  \A d \in D : rank[d] < n => f[d] = g[d]
    BY DEF Agreement
  <1> DEFINE S == {k \in Nat : \E d \in D : rank[d] = k /\ k < n /\ f[d] # g[d]}
  <1>1. SUFFICES ASSUME S # {} PROVE FALSE
    OBVIOUS
  <1>2. PICK k \in S : \A l \in S : k <= l
    <2>1. S \in SUBSET Nat /\ S # {}
      BY <1>1
    <2> HIDE DEF S
    <2>. QED
      BY <2>1, LeastNumber
  <1>3. PICK d \in D : rank[d] = k /\ k < n /\ f[d] # g[d]
    OBVIOUS
  <1>4. \A e \in D : rank[e] < rank[d] => f[e] = g[e]
    <2>1. ASSUME NEW e \in D, rank[e] < rank[d], f[e] # g[e] PROVE FALSE
      <3>1. rank[e] \in Nat /\ rank[e] < n /\ k \in Nat
        BY <1>3, <2>1
      <3>2. rank[e] \in S
        BY <2>1, <3>1
      <3> HIDE DEF S
      <3>. QED
        BY <1>2, <1>3, <2>1, <3>1, <3>2
    <2>. QED
      BY <2>1
  <1>5. f \in From(D, R) /\ g \in From(D, R) /\ G[f][d] = f[d] /\ G[g][d] = g[d]
    BY <1>3 DEF Solves
  <1>. QED
    BY <1>3, <1>4, <1>5 DEF Local

\* There are solutions as far as one likes.
LEMMA SolutionsExist ==
    ASSUME NEW D, NEW R, \A d \in D : R[d] # {}, NEW rank \in [D -> Nat],
           NEW G \in [From(D, R) -> From(D, R)], Local(G, D, R, rank)
    PROVE  \A n \in Nat : \E f : Solves(f, n, G, D, R, rank)
  <1> DEFINE S == {n \in Nat : ~ \E f : Solves(f, n, G, D, R, rank)}
  <1>1. SUFFICES ASSUME S # {} PROVE FALSE
    OBVIOUS
  <1>2. PICK n \in S : \A k \in S : n <= k
    <2>1. S \in SUBSET Nat /\ S # {}
      BY <1>1
    <2> HIDE DEF S
    <2>. QED
      BY <2>1, LeastNumber
  <1>3. n \in Nat /\ ~ \E f : Solves(f, n, G, D, R, rank)
    OBVIOUS
  <1>4. CASE n = 0
    <2> DEFINE f == [d \in D |-> CHOOSE r : r \in R[d]]
    <2>0. f = [d \in D |-> f[d]] /\ \A d \in D : f[d] \in R[d]
      OBVIOUS
    <2>1. f \in From(D, R)
      <3> HIDE DEF f
      <3>. QED
        BY <2>0, IsFrom
    <2> HIDE DEF f
    <2>2. Solves(f, 0, G, D, R, rank)
      BY <2>1 DEF Solves
    <2>. QED
      BY <1>3, <1>4, <2>2
  <1>5. CASE n # 0
    <2>1. n - 1 \in Nat /\ n - 1 \notin S
      BY <1>2, <1>3, <1>5
    <2>2. PICK f : Solves(f, n - 1, G, D, R, rank)
      BY <2>1
    <2>3. f \in From(D, R) /\ G[f] \in From(D, R)
      BY <2>2 DEF Solves
    <2>4. ASSUME NEW d \in D, rank[d] < n PROVE G[G[f]][d] = G[f][d]
      <3>1. \A e \in D : rank[e] < rank[d] => f[e] = G[f][e]
        <4>1. ASSUME NEW e \in D, rank[e] < rank[d] PROVE f[e] = G[f][e]
          <5>1. rank[e] \in Nat /\ rank[d] \in Nat /\ rank[e] < n - 1
            BY <1>3, <2>4, <4>1
          <5>. QED
            BY <2>2, <5>1 DEF Solves
        <4>. QED
          BY <4>1
      <3>. QED
        BY <2>3, <3>1 DEF Local
    <2>5. Solves(G[f], n, G, D, R, rank)
      BY <2>3, <2>4 DEF Solves
    <2>. QED
      BY <1>3, <2>5
  <1>. QED
    BY <1>4, <1>5

HasSolution(G, D, R) == \E f \in From(D, R) : f = G[f]

\* There is a solution.
LEMMA Recursion ==
    ASSUME NEW D, NEW R, \A d \in D : R[d] # {}, NEW rank \in [D -> Nat],
           NEW G \in [From(D, R) -> From(D, R)], Local(G, D, R, rank)
    PROVE  HasSolution(G, D, R)
  <1> DEFINE solution(n) == CHOOSE f : Solves(f, n, G, D, R, rank)
             h == [d \in D |-> solution(rank[d] + 1)[d]]
  <1>1. \A n \in Nat : Solves(solution(n), n, G, D, R, rank)
    BY SolutionsExist
  <1>a. Agreement(G, D, R, rank)
    BY SolutionsAgree
  <1> HIDE DEF solution
  <1>2. h \in From(D, R)
    <2>1. ASSUME NEW d \in D PROVE solution(rank[d] + 1)[d] \in R[d]
      <3>1. rank[d] + 1 \in Nat
        OBVIOUS
      <3>2. solution(rank[d] + 1) \in From(D, R)
        BY <1>1, <3>1 DEF Solves
      <3>. QED
        BY <3>2, FromFacts
    <2>2. h = [d \in D |-> h[d]] /\ \A d \in D : h[d] \in R[d]
      BY <2>1
    <2> HIDE DEF h
    <2>. QED
      BY <2>2, IsFrom
  <1>3. ASSUME NEW d \in D PROVE G[h][d] = h[d]
    <2> DEFINE f == solution(rank[d] + 1)
    <2>1. rank[d] \in Nat /\ rank[d] + 1 \in Nat /\ rank[d] < rank[d] + 1
      OBVIOUS
    <2>2. Solves(f, rank[d] + 1, G, D, R, rank)
      BY <1>1, <2>1
    <2>3. \A e \in D : rank[e] < rank[d] => h[e] = f[e]
      <3>1. ASSUME NEW e \in D, rank[e] < rank[d] PROVE h[e] = f[e]
        <4>1. rank[e] \in Nat /\ rank[e] + 1 \in Nat /\ rank[e] < rank[e] + 1
          OBVIOUS
        <4>2. Solves(solution(rank[e] + 1), rank[e] + 1, G, D, R, rank)
          BY <1>1, <4>1
        <4>3. Solves(f, rank[e] + 1, G, D, R, rank)
          <5>1. \A c \in D : rank[c] < rank[e] + 1 => rank[c] < rank[d] + 1
            BY <2>1, <3>1, <4>1
          <5> HIDE DEF f
          <5>. QED
            BY <2>2, <5>1 DEF Solves
        <4> DEFINE g == solution(rank[e] + 1)
                   n == rank[e] + 1
        <4>4. Solves(g, n, G, D, R, rank) /\ Solves(f, n, G, D, R, rank) /\ n \in Nat
          BY <4>1, <4>2, <4>3
        <4>5. rank[e] < n /\ h[e] = g[e]
          BY <4>1
        <4> HIDE DEF f, g, n, h
        <4>6. \A c \in D : rank[c] < n => g[c] = f[c]
          BY <1>a, <4>4 DEF Agreement
        <4>. QED
          BY <4>5, <4>6
      <3>. QED
        BY <3>1
    <2>4. f \in From(D, R) /\ G[f][d] = f[d]
      BY <2>1, <2>2 DEF Solves
    <2>5. G[h][d] = G[f][d]
      <3> HIDE DEF f, h
      <3>. QED
        BY <1>2, <2>3, <2>4 DEF Local
    <2>6. h[d] = f[d]
      OBVIOUS
    <2>. QED
      BY <2>4, <2>5, <2>6
  <1> HIDE DEF h
  <1>4. G[h] \in From(D, R)
    BY <1>2
  <1>5. h = G[h]
    BY <1>2, <1>3, <1>4, FromFacts
  <1>. QED
    BY <1>2, <1>5 DEF HasSolution


-----------------------------------------------------------------------------
(***************************************************************************)
(* How high a Data is.                                                     *)
(***************************************************************************)
\* What is of a height is of every greater one.
LEMMA HeightsGrow ==
    ASSUME NEW n \in 0 .. MaxHeight, NEW m \in 0 .. MaxHeight, n <= m
    PROVE  Height[n] \subseteq Height[m]
  <1> DEFINE S == {k \in Nat : n + k <= MaxHeight /\ ~ (Height[n] \subseteq Height[n + k])}
  <1>1. ASSUME S # {} PROVE FALSE
    <2>1. PICK k \in S : \A l \in S : k <= l
      <3>1. S \in SUBSET Nat /\ S # {}
        BY <1>1
      <3> HIDE DEF S
      <3>. QED
        BY <3>1, LeastNumber
    <2>2. k \in Nat /\ n + k <= MaxHeight /\ ~ (Height[n] \subseteq Height[n + k])
      OBVIOUS
    <2>3. k # 0
      BY <2>2
    <2>4. k - 1 \in Nat /\ n + (k - 1) <= MaxHeight /\ k - 1 \notin S
      BY <2>1, <2>2, <2>3, HeightIsBounded
    <2>5. Height[n] \subseteq Height[n + (k - 1)]
      BY <2>4
    <2>6. n + (k - 1) \in Nat /\ n + (k - 1) < MaxHeight /\ n + (k - 1) + 1 = n + k
      BY <2>2, <2>3, HeightIsBounded
    <2>7. Height[n + (k - 1)] \subseteq Height[n + k]
      <3> DEFINE l == n + (k - 1)
      <3>1. l \in Nat /\ l < MaxHeight /\ l + 1 = n + k
        BY <2>6
      <3> HIDE DEF l
      <3>2. Height[l] \subseteq Height[l + 1]
        BY <3>1, HeightGrows
      <3>. QED
        BY <3>1, <3>2 DEF l
    <2>. QED
      BY <2>2, <2>5, <2>7
  <1>2. m - n \in Nat /\ n + (m - n) = m /\ n + (m - n) <= MaxHeight
    BY HeightIsBounded
  <1>3. m - n \notin S
    <2> HIDE DEF S
    <2>. QED
      BY <1>1
  <1>4. Height[n] \subseteq Height[n + (m - n)]
    BY <1>2, <1>3
  <1>. QED
    BY <1>2, <1>4

\* The least height a Data is of.
IsLeastHeight(d, n) ==
    /\ n \in 1 .. MaxHeight /\ d \in Height[n]
    /\ \A m \in 0 .. MaxHeight : d \in Height[m] => n <= m
HeightOf == [d \in Data |-> CHOOSE n : IsLeastHeight(d, n)]

\* Every Data has one.
LEMMA HeightOfData ==
    ASSUME NEW d \in Data
    PROVE  IsLeastHeight(d, HeightOf[d])
  <1> DEFINE S == {n \in Nat : n <= MaxHeight /\ d \in Height[n]}
  <1>1. MaxHeight \in S
    BY HeightIsBounded DEF Data
  <1>2. PICK n \in S : \A k \in S : n <= k
    <2>1. S \in SUBSET Nat /\ S # {}
      BY <1>1
    <2> HIDE DEF S
    <2>. QED
      BY <2>1, LeastNumber
  <1>3. n \in Nat /\ n <= MaxHeight /\ d \in Height[n]
    OBVIOUS
  <1>4. n \in 0 .. MaxHeight /\ n \in 1 .. MaxHeight
    <2>1. n \in 0 .. MaxHeight
      BY <1>3, HeightIsBounded
    <2>. QED
      BY <1>3, <2>1, DataOfHeight
  <1>5. \A m \in 0 .. MaxHeight : d \in Height[m] => n <= m
    <2>1. \A m \in 0 .. MaxHeight : d \in Height[m] => m \in S
      BY HeightIsBounded
    <2> HIDE DEF S
    <2>. QED
      BY <1>2, <2>1
  <1>6. IsLeastHeight(d, n)
    BY <1>3, <1>4, <1>5 DEF IsLeastHeight
  <1>. QED
    BY <1>6 DEF HeightOf

\* What a Data is made of is Data, and lower than it.
LEMMA PartsAreLower ==
    ASSUME NEW d \in Data
    PROVE  /\ d \in [kind : DOMAIN NameAddress, num : Int, args : Seq(Data)]
           /\ \A i \in DOMAIN d.args : d.args[i] \in Data /\ HeightOf[d.args[i]] < HeightOf[d]
           /\ HeightOf[d] \in 1 .. MaxHeight /\ HeightOf[d] \in Nat
  <1> DEFINE n == HeightOf[d]
  <1>1. n \in 1 .. MaxHeight /\ d \in Height[n]
    BY HeightOfData DEF IsLeastHeight
  <1>2. n \in Nat /\ n - 1 \in 0 .. MaxHeight
    BY <1>1, HeightIsBounded
  <1> HIDE DEF n
  <1>3. d \in DataOf(Height[n - 1])
    BY <1>1, HeightDef
  <1>4. d.args \in Seq(Height[n - 1]) /\ Height[n - 1] \subseteq Data
    BY <1>2, <1>3, HeightsAreData DEF DataOf
  <1>5. d.args \in Seq(Data)
    BY <1>4, SeqMonotonic
  <1>6. ASSUME NEW i \in DOMAIN d.args PROVE d.args[i] \in Data /\ HeightOf[d.args[i]] < n
    <2>1. d.args[i] \in Height[n - 1] /\ d.args[i] \in Data
      BY <1>4
    <2>2. HeightOf[d.args[i]] \in 1 .. MaxHeight /\ HeightOf[d.args[i]] <= n - 1
      BY <1>2, <2>1, HeightOfData DEF IsLeastHeight
    <2>. QED
      BY <1>2, <2>1, <2>2, HeightIsBounded
  <1>7. d \in [kind : DOMAIN NameAddress, num : Int, args : Seq(Data)]
    BY <1>3, <1>5 DEF DataOf
  <1>. QED
    BY <1>1, <1>2, <1>6, <1>7 DEF n

\* Each Data has a height.
LEMMA HeightOfType ==
    HeightOf \in [Data -> Nat]
  <1>1. \A d \in Data : HeightOf[d] \in Nat
    BY PartsAreLower
  <1>. QED
    BY <1>1 DEF HeightOf

\* Data made of Data of a height are of the next one.
LEMMA MakesData ==
    ASSUME NEW n \in 0 .. MaxHeight - 1, NEW d \in DataOf(Height[n])
    PROVE  n + 1 \in 0 .. MaxHeight /\ d \in Height[n + 1] /\ d \in Data
  <1>1. n + 1 \in 1 .. MaxHeight /\ (n + 1) - 1 = n
    BY HeightIsBounded
  <1>2. Height[n + 1] = DataOf(Height[n])
    BY <1>1, HeightDef
  <1>3. n + 1 \in 0 .. MaxHeight
    BY <1>1, HeightIsBounded
  <1>. QED
    BY <1>2, <1>3, HeightsAreData

\* A node without args is Data.
LEMMA AtomsAreData ==
    ASSUME MaxHeight >= 1, NEW kind \in DOMAIN NameAddress, NEW num \in Int
    PROVE  Node(kind, num, <<>>) \in Data /\ Node(kind, num, <<>>) \in Height[1]
  <1>1. 0 \in 0 .. MaxHeight - 1 /\ 0 + 1 = 1
    BY HeightIsBounded
  <1>2. <<>> \in Seq(Height[0])
    BY EmptySeq
  <1>3. Node(kind, num, <<>>) \in DataOf(Height[0])
    BY <1>2 DEF Node, DataOf
  <1>. QED
    BY <1>1, <1>3, MakesData

\* The lowest Data for which a statement fails has all its parts satisfy it.
LEMMA LowestData ==
    ASSUME NEW S \in SUBSET Data, S # {}
    PROVE  \E d \in S : \A e \in Data : HeightOf[e] < HeightOf[d] => e \notin S
  <1> DEFINE H == {HeightOf[d] : d \in S}
  <1>1. H \in SUBSET Nat /\ H # {}
    BY HeightOfType
  <1>2. PICK n \in H : \A k \in H : n <= k
    <2> HIDE DEF H
    <2>. QED
      BY <1>1, LeastNumber
  <1>3. PICK d \in S : HeightOf[d] = n
    OBVIOUS
  <1>4. ASSUME NEW e \in Data, HeightOf[e] < HeightOf[d], e \in S PROVE FALSE
    <2>1. HeightOf[e] \in H /\ HeightOf[e] \in Nat /\ n \in Nat
      BY <1>1, <1>4
    <2> HIDE DEF H
    <2>. QED
      BY <1>2, <1>3, <1>4, <2>1
  <1>. QED
    BY <1>3, <1>4

-----------------------------------------------------------------------------
(***************************************************************************)
(* The subterms of a Data.                                                 *)
(***************************************************************************)
\* A Data, and the subterms of what it is made of.
LEMMA SubtermsDef ==
    \A y \in Data : /\ Subterms(y) = {y} \cup UNION {Subterms(y.args[i]) : i \in DOMAIN y.args}
                    /\ Subterms(y) \in SUBSET Data
  <1> DEFINE R == [d \in Data |-> SUBSET Data]
             Op(f, y) == {y} \cup UNION {f[y.args[i]] : i \in DOMAIN y.args}
             G == [f \in From(Data, R) |-> [y \in Data |-> Op(f, y)]]
  <1>1. \A y \in Data : \A i \in DOMAIN y.args : y.args[i] \in Data /\ HeightOf[y.args[i]] < HeightOf[y]
    BY PartsAreLower
  <1>2. ASSUME NEW f \in From(Data, R) PROVE G[f] \in From(Data, R)
    <2>1. \A d \in Data : f[d] \in SUBSET Data
      BY FromFacts
    <2>2. \A y \in Data : Op(f, y) \in R[y]
      BY <1>1, <2>1
    <2>3. G[f] = [y \in Data |-> G[f][y]] /\ \A y \in Data : G[f][y] \in R[y]
      BY <2>2
    <2> HIDE DEF G, R
    <2>. QED
      BY <2>3, IsFrom
  <1>3. G \in [From(Data, R) -> From(Data, R)]
    BY <1>2
  <1>4. ASSUME NEW f \in From(Data, R), NEW g \in From(Data, R), NEW y \in Data,
               \A e \in Data : HeightOf[e] < HeightOf[y] => f[e] = g[e]
        PROVE  G[f][y] = G[g][y]
    <2>1. \A i \in DOMAIN y.args : f[y.args[i]] = g[y.args[i]]
      BY <1>1, <1>4
    <2>. QED
      BY <2>1
  <1>5. Local(G, Data, R, HeightOf)
    <2> HIDE DEF G, R
    <2>. QED
      BY <1>4 DEF Local
  <1>6. \A d \in Data : R[d] # {}
    OBVIOUS
  <1>7. HasSolution(G, Data, R)
    <2> HIDE DEF G, R
    <2>. QED
      BY <1>3, <1>5, <1>6, HeightOfType, Recursion
  <1>8. PICK f \in From(Data, R) : f = G[f]
    <2> HIDE DEF G, R
    <2>. QED
      BY <1>7 DEF HasSolution
  <1>9. \E s : s = [y \in Data |-> Op(s, y)]
    BY <1>8
  <1>10. subterms = [y \in Data |-> Op(subterms, y)]
    BY <1>9 DEF subterms
  <1>11. \A y \in Data : subterms[y] = {y} \cup UNION {subterms[y.args[i]] : i \in DOMAIN y.args}
    <2>1. \A y \in Data : subterms[y] = Op(subterms, y)
      <3> HIDE DEF Op
      <3>. QED
        BY <1>10
    <2>. QED
      BY <2>1
  <1>12. \A y \in Data : subterms[y] \in SUBSET Data
    <2> DEFINE B == {y \in Data : ~ (subterms[y] \in SUBSET Data)}
    <2>1. ASSUME B # {} PROVE FALSE
      <3>1. PICK y \in B : \A e \in Data : HeightOf[e] < HeightOf[y] => e \notin B
        <4>1. B \in SUBSET Data
          OBVIOUS
        <4> HIDE DEF B
        <4>. QED
          BY <2>1, <4>1, LowestData
      <3>2. \A i \in DOMAIN y.args : subterms[y.args[i]] \in SUBSET Data
        BY <1>1, <3>1
      <3>3. subterms[y] \in SUBSET Data
        BY <1>11, <3>2
      <3>. QED
        BY <3>3
    <2>. QED
      BY <2>1
  <1>. QED
    BY <1>11, <1>12 DEF Subterms

\* The Data in which none of some kinds occurs
Lacking(kinds) == {y \in Data : \A z \in Subterms(y) : z.kind \notin kinds}

\* A Data is one of its subterms, and those of what it is made of are.
LEMMA OwnSubterms ==
    ASSUME NEW y \in Data
    PROVE  y \in Subterms(y) /\ \A i \in DOMAIN y.args : Subterms(y.args[i]) \subseteq Subterms(y)
  BY SubtermsDef

\* They are made of such Data.
LEMMA LackingIsMade ==
    ASSUME NEW kinds
    PROVE  MadeWithout(kinds, Lacking(kinds))
  <1>1. ASSUME NEW y \in Lacking(kinds)
        PROVE  y.kind \notin kinds /\ \A i \in DOMAIN y.args : y.args[i] \in Lacking(kinds)
    <2>1. y \in Data /\ \A z \in Subterms(y) : z.kind \notin kinds
      BY DEF Lacking
    <2>2. y \in Subterms(y) /\ \A i \in DOMAIN y.args : Subterms(y.args[i]) \subseteq Subterms(y)
      BY <2>1, OwnSubterms
    <2>3. \A i \in DOMAIN y.args : y.args[i] \in Data
      BY <2>1, PartsAreLower
    <2>. QED
      BY <2>1, <2>2, <2>3 DEF Lacking
  <1>. QED
    BY <1>1 DEF MadeWithout, Lacking

\* What is made of such Data, and has another kind, is one.
LEMMA MadeIsLacking ==
    ASSUME NEW kinds, NEW y \in Data, y.kind \notin kinds,
           \A i \in DOMAIN y.args : y.args[i] \in Lacking(kinds)
    PROVE  y \in Lacking(kinds)
  BY SubtermsDef DEF Lacking

-----------------------------------------------------------------------------
(***************************************************************************)
(* The terms a program can have in hand.                                   *)
(***************************************************************************)
\* One element in front of a sequence.
LEMMA InFront ==
    ASSUME NEW S, NEW T, NEW t \in T, NEW s \in Seq(S)
    PROVE  /\ <<t>> \o s \in Seq(S \cup T)
           /\ Len(<<t>> \o s) = Len(s) + 1
           /\ DOMAIN (<<t>> \o s) = 1 .. Len(s) + 1
           /\ (<<t>> \o s)[1] = t
           /\ \A i \in 1 .. Len(s) : (<<t>> \o s)[i + 1] = s[i]
           /\ SubSeq(<<t>> \o s, 2, Len(s) + 1) = s
           /\ s \in Seq(S \cup T)
  <1> DEFINE U == S \cup T
             r == <<t>> \o s
  <1>1. s \in Seq(U) /\ <<t>> \in Seq(U) /\ Len(<<t>>) = 1 /\ <<t>>[1] = t
    <2>1. s \in Seq(U)
      BY SeqMonotonic
    <2>. QED
      BY <2>1
  <1> HIDE DEF U
  <1>2. r \in Seq(U) /\ Len(r) = Len(s) + 1 /\ Len(s) \in Nat /\ DOMAIN r = 1 .. Len(s) + 1
    BY <1>1, ConcatProperties, LenProperties
  <1>3. r[1] = t
    BY <1>1, ConcatProperties, LenProperties
  <1>4. ASSUME NEW i \in 1 .. Len(s) PROVE r[i + 1] = s[i]
    <2>1. i + 1 \in 1 .. 1 + Len(s) /\ ~ (i + 1 <= 1) /\ (i + 1) - 1 = i
      BY <1>2
    <2>. QED
      BY <1>1, <2>1, ConcatProperties
  <1>5. SubSeq(r, 2, Len(s) + 1) = s
    <2> DEFINE c == SubSeq(r, 2, Len(s) + 1)
    <2>1. \A i \in 2 .. Len(s) + 1 : r[i] \in U
      BY <1>2
    <2>2. c \in Seq(U) /\ Len(c) = Len(s) /\ \A i \in 1 .. Len(s) : c[i] = r[2 + i - 1]
      <3>1. Len(s) + 1 \in Int /\ 2 \in Int /\ (IF 2 <= Len(s) + 1 THEN Len(s) + 1 - 2 + 1 ELSE 0) = Len(s)
        BY <1>2
      <3>. QED
        BY <1>2, <2>1, <3>1, SubSeqProperties
    <2>3. ASSUME NEW i \in 1 .. Len(s) PROVE c[i] = s[i]
      <3>1. i \in Int /\ 2 + i - 1 = i + 1
        BY <1>2
      <3>. QED
        BY <1>4, <2>2, <3>1
    <2> HIDE DEF c
    <2>4. c \in Seq(U) /\ s \in Seq(U) /\ Len(c) = Len(s)
      BY <1>1, <2>2
    <2>. QED
      BY <2>3, <2>4, SeqEqual
  <1>. QED
    BY <1>1, <1>2, <1>3, <1>4, <1>5 DEF U

\* What a container is, given what is in it.
IsContainerOf(y, kind, t, s) ==
    /\ y = Node(kind, 0, <<t>> \o s)
    /\ y.kind = kind /\ y.num = 0 /\ y.args = <<t>> \o s
    /\ Constraint(y) = t /\ Content(y) = s /\ Size(y) = Len(s)

\* A container has the constraint and the content that it is made of.
LEMMA ContainerIs ==
    ASSUME NEW S, NEW T, NEW t \in T, NEW s \in Seq(S), NEW kind
    PROVE  IsContainerOf(Node(kind, 0, <<t>> \o s), kind, t, s)
  <1> DEFINE y == Node(kind, 0, <<t>> \o s)
  <1>1. y.kind = kind /\ y.num = 0 /\ y.args = <<t>> \o s
    BY DEF Node
  <1> HIDE DEF y
  <1>2. Constraint(y) = t
    <2>1. Len(s) \in Nat
      BY LenProperties
    <2>2. 1 \in DOMAIN y.args /\ y.args[1] = t
      BY <1>1, <2>1, InFront
    <2>. QED
      BY <2>2 DEF Constraint, Part
  <1>3. Content(y) = s /\ Size(y) = Len(s)
    <2>1. Len(y.args) = Len(s) + 1 /\ Len(s) \in Nat
      BY <1>1, InFront, LenProperties
    <2>2. SubSeq(y.args, 2, Len(s) + 1) = s
      BY <1>1, InFront
    <2>. QED
      BY <2>1, <2>2 DEF Content, Size
  <1>. QED
    BY <1>1, <1>2, <1>3 DEF IsContainerOf, y

\* The pairs that can come to be in an ordered map: a value may be replaced by
\* any element.
MapPairs == {Pair(k, v) : k \in Elements, v \in Values \cup Elements}
ArraysMade == {ArrayTerm(t, es) : t \in ArrayTypesUsed \cup {Array}, es \in Arguments}
MapsMade == {OrderedMapTerm(t, ps) : t \in MapTypesUsed \cup {OrderedMap},
                                     ps \in {qs \in Seq(MapPairs) : Ascending(qs)}}
TuplesMade == {Tuple(es) : es \in Arguments}
OthersMade == UNION {{FormalTypeOf(d), FreeVar(d), Placeholder(d), Output(d), RequestSyncInput(d)} :
                        d \in Contents}
TermsMade == ArraysMade \cup MapsMade \cup TuplesMade \cup OthersMade

\* Arguments are sequences.
LEMMA ArgumentsAre ==
    /\ \A es : es \in Arguments <=> es \in Seq(Elements) /\ Len(es) <= MaxSize
    /\ \A ps \in PairArguments : ps \in Seq(MapPairs)
  <1>1. ASSUME NEW es \in Arguments PROVE es \in Seq(Elements) /\ Len(es) <= MaxSize
    <2>1. PICK n \in 0 .. MaxSize : es \in [1 .. n -> Elements]
      BY DEF Arguments
    <2>2. n \in Nat /\ n <= MaxSize
      BY BoundsAssumption
    <2>. QED
      BY <2>1, <2>2
  <1>2. ASSUME NEW es \in Seq(Elements), Len(es) <= MaxSize PROVE es \in Arguments
    <2>1. Len(es) \in 0 .. MaxSize /\ es \in [1 .. Len(es) -> Elements]
      BY <1>2, BoundsAssumption
    <2>. QED
      BY <2>1 DEF Arguments
  <1>3. ASSUME NEW ps \in PairArguments PROVE ps \in Seq(MapPairs)
    <2>1. PICK n \in 0 .. MaxSize : ps \in [1 .. n -> Pairs]
      BY DEF PairArguments
    <2>2. n \in Nat /\ Pairs \subseteq MapPairs
      BY BoundsAssumption DEF Pairs, MapPairs
    <2>3. ps \in [1 .. n -> MapPairs]
      BY <2>1, <2>2
    <2>. QED
      BY <2>2, <2>3
  <1>. QED
    BY <1>1, <1>2, <1>3

\* What the program has in hand, by its kind.
LEMMA MadeByKind ==
    ASSUME NEW y \in TermsMade
    PROVE  /\ y.kind = "ArrayTerm_c" <=> y \in ArraysMade
           /\ y.kind = "OrderedMapTerm_c" <=> y \in MapsMade
           /\ y.kind = "TupleTerm_c" <=> y \in TuplesMade
           /\ y \in OthersMade <=> y.kind \in {"FreeVarTerm_c"} \cup Incomparable
  <1>1. \A z \in ArraysMade : z.kind = "ArrayTerm_c"
    <2>1. \A z \in ArraysMade : \E t, es : z = ArrayTerm(t, es)
      BY DEF ArraysMade
    <2>2. \A t, es : ArrayTerm(t, es).kind = "ArrayTerm_c"
      BY DEF ArrayTerm, Node
    <2>. QED
      BY <2>1, <2>2
  <1>2. \A z \in MapsMade : z.kind = "OrderedMapTerm_c"
    <2>1. \A z \in MapsMade : \E t, ps : z = OrderedMapTerm(t, ps)
      BY DEF MapsMade
    <2>2. \A t, ps : OrderedMapTerm(t, ps).kind = "OrderedMapTerm_c"
      BY DEF OrderedMapTerm, Node
    <2>. QED
      BY <2>1, <2>2
  <1>3. \A z \in TuplesMade : z.kind = "TupleTerm_c"
    BY DEF TuplesMade, Tuple, Node
  <1>4. \A z \in OthersMade : z.kind \in {"FreeVarTerm_c"} \cup Incomparable
    <2>1. ASSUME NEW d
          PROVE  /\ FormalTypeOf(d).kind = "FormalTypeOf_Term_c" /\ FreeVar(d).kind = "FreeVarTerm_c"
                 /\ Placeholder(d).kind = "PlaceholderTerm_c" /\ Output(d).kind = "OutputTerm_c"
                 /\ RequestSyncInput(d).kind = "RequestSyncInputTerm_c"
      BY DEF FormalTypeOf, FreeVar, Placeholder, Output, RequestSyncInput, Node
    <2>. QED
      BY <2>1 DEF OthersMade, Incomparable
  <1>. QED
    BY <1>1, <1>2, <1>3, <1>4 DEF TermsMade, Incomparable

\* Array and map types.
LEMMA TypesUsed ==
    /\ \A t \in ArrayTypesUsed \cup {Array} : t.kind \in ArrayTypes
    /\ \A t \in MapTypesUsed \cup {OrderedMap} : t.kind \in OrderedMapTypes
  BY DEF ArrayTypesUsed, MapTypesUsed, Array, OrderedMap, Atom, Node, ArrayTypes, OrderedMapTypes

\* What an array in hand is.
LEMMA ArrayIs ==
    ASSUME NEW y \in ArraysMade
    PROVE  \E t \in ArrayTypesUsed \cup {Array}, es \in Arguments :
              /\ es \in Seq(Elements) /\ Len(es) <= MaxSize
              /\ IsContainerOf(y, "ArrayTerm_c", t, es)
  <1>1. PICK t \in ArrayTypesUsed \cup {Array}, es \in Arguments : y = ArrayTerm(t, es)
    BY DEF ArraysMade
  <1>2. es \in Seq(Elements) /\ Len(es) <= MaxSize
    BY ArgumentsAre
  <1>. QED
    BY <1>1, <1>2, ContainerIs DEF ArrayTerm

\* What an ordered map in hand is.
LEMMA MapIs ==
    ASSUME NEW y \in MapsMade
    PROVE  \E t \in MapTypesUsed \cup {OrderedMap}, ps \in Seq(MapPairs) :
              /\ Ascending(ps)
              /\ IsContainerOf(y, "OrderedMapTerm_c", t, ps)
  <1>1. PICK t \in MapTypesUsed \cup {OrderedMap}, ps \in {qs \in Seq(MapPairs) : Ascending(qs)} :
           y = OrderedMapTerm(t, ps)
    BY DEF MapsMade
  <1>. QED
    BY <1>1, ContainerIs DEF OrderedMapTerm

-----------------------------------------------------------------------------
(***************************************************************************)
(* The keys of maps are among the Data that compare_data orders.           *)
(***************************************************************************)
Orderly == Lacking({"BoolTerm_c"})

\* Nothing is of the class BoolTerm_c.
LEMMA NoBoolTerm ==
    \A x \in Inputs : \A y \in Subterms(x) : y.kind # "BoolTerm_c"
  <1>1. "BoolTerm_c" \notin Kinds
    BY DEF Kinds, Singletons, ArrayTypes, OrderedMapTypes, Incomparable
  <1>. QED
    BY <1>1, InputsAreFormed DEF Formed

\* What goes into containers is low enough for them, and orderly.
LEMMA InputsAre ==
    /\ MaxHeight - 2 \in 0 .. MaxHeight
    /\ \A x \in Inputs : x \in Height[MaxHeight - 2] /\ x \in Data /\ x \in Orderly
  <1>1. MaxHeight - 2 \in 0 .. MaxHeight
    BY InputsAreLow, HeightIsBounded
  <1>2. \A x \in Inputs : x \in Height[MaxHeight - 2] /\ x \in Data
    BY <1>1, InputsAreLow, HeightsAreData
  <1>. QED
    BY <1>1, <1>2, NoBoolTerm DEF Orderly, Lacking

\* The keys of pairs are orderly.
LEMMA PairsAreKeyed ==
    /\ MadeWithout({"BoolTerm_c"}, Orderly)
    /\ Keyed(MapPairs, Orderly)
    /\ \A p \in MapPairs : \E k \in Elements, v \in Values \cup Elements :
          p = Pair(k, v) /\ Key(p) = k /\ p.args[1] = k /\ p.args[2] = v /\ p.kind = "pair" /\ p.num = 0
  <1>1. \A p \in MapPairs : \E k \in Elements, v \in Values \cup Elements :
          p = Pair(k, v) /\ Key(p) = k /\ p.args[1] = k /\ p.args[2] = v /\ p.kind = "pair" /\ p.num = 0
    BY DEF MapPairs, Pair, Node, Key
  <1>2. MadeWithout({"BoolTerm_c"}, Orderly)
    BY LackingIsMade DEF Orderly
  <1>3. Keyed(MapPairs, Orderly)
    BY <1>1, InputsAre DEF Keyed, Inputs
  <1>. QED
    BY <1>1, <1>2, <1>3

-----------------------------------------------------------------------------
(***************************************************************************)
(* Type correctness, and the constraints of containers.                    *)
(***************************************************************************)
Inv == /\ loose \in BOOLEAN
       /\ term \in TermsMade
       /\ sent \in Seq(TermsMade) /\ Len(sent) <= MaxWrites
       /\ ConstraintKept

\* What holds of the program's terms says what it is to hold of term.
LEMMA InvImplies ==
    Inv => TypeOK /\ ConstraintKept
  <1>. SUFFICES ASSUME Inv PROVE TypeOK
    BY DEF Inv
  <1>1. CASE term \in ArraysMade
    <2>1. PICK t \in ArrayTypesUsed \cup {Array}, es \in Arguments :
             IsContainerOf(term, "ArrayTerm_c", t, es)
      BY <1>1, ArrayIs
    <2>. QED
      BY <2>1, TypesUsed DEF Inv, TypeOK, IsArray, IsContainerOf
  <1>2. CASE term \in MapsMade
    <2>1. PICK t \in MapTypesUsed \cup {OrderedMap}, ps \in Seq(MapPairs) :
             Ascending(ps) /\ IsContainerOf(term, "OrderedMapTerm_c", t, ps)
      BY <1>2, MapIs
    <2>. QED
      BY <2>1, TypesUsed DEF Inv, TypeOK, IsMap, IsContainerOf
  <1>3. CASE term \in TuplesMade \cup OthersMade
    BY <1>3, MadeByKind DEF Inv, TypeOK
  <1>. QED
    BY <1>1, <1>2, <1>3 DEF Inv, TermsMade

\* Nothing but the container changes.
LEMMA InMemoryKeeps ==
    ASSUME Inv, InMemory, loose' \in BOOLEAN, term' \in TermsMade,
           ~loose' => Satisfied(term')
    PROVE  Inv'
  <1>1. ConstraintKept' <=> (~loose' => Satisfied(term'))
    BY DEF ConstraintKept, Satisfied, IsContainer
  <1>. QED
    BY <1>1 DEF Inv, InMemory

\* What an array or a map is when its parts are known.
LEMMA ArrayMade ==
    ASSUME NEW t \in ArrayTypesUsed \cup {Array}, NEW es \in Arguments
    PROVE  /\ ArrayTerm(t, es) \in TermsMade
           /\ IsContainerOf(ArrayTerm(t, es), "ArrayTerm_c", t, es)
           /\ Satisfied(ArrayTerm(t, es)) <=> verify_constraint(t, es)
           /\ Satisfied(ArrayTerm(Array, es))
  <1>1. ASSUME NEW u \in ArrayTypesUsed \cup {Array}
        PROVE  /\ ArrayTerm(u, es) \in TermsMade
               /\ IsContainerOf(ArrayTerm(u, es), "ArrayTerm_c", u, es)
               /\ Satisfied(ArrayTerm(u, es)) <=> verify_constraint(u, es)
    <2>1. ArrayTerm(u, es) \in TermsMade
      BY DEF TermsMade, ArraysMade
    <2>2. IsContainerOf(ArrayTerm(u, es), "ArrayTerm_c", u, es)
      BY ArgumentsAre, ContainerIs DEF ArrayTerm
    <2>. QED
      BY <2>1, <2>2 DEF Satisfied, IsContainer, IsContainerOf
  <1>2. verify_constraint(Array, es)
    BY DEF verify_constraint, Array, Atom, Node
  <1>. QED
    BY <1>1, <1>2

\* The same for a map.
LEMMA MapMade ==
    ASSUME NEW t \in MapTypesUsed \cup {OrderedMap}, NEW ps \in Seq(MapPairs), Ascending(ps)
    PROVE  /\ OrderedMapTerm(t, ps) \in TermsMade
           /\ IsContainerOf(OrderedMapTerm(t, ps), "OrderedMapTerm_c", t, ps)
           /\ Satisfied(OrderedMapTerm(t, ps)) <=> verify_constraint(t, ps)
           /\ Satisfied(OrderedMapTerm(OrderedMap, ps))
  <1>1. ASSUME NEW u \in MapTypesUsed \cup {OrderedMap}
        PROVE  /\ OrderedMapTerm(u, ps) \in TermsMade
               /\ IsContainerOf(OrderedMapTerm(u, ps), "OrderedMapTerm_c", u, ps)
               /\ Satisfied(OrderedMapTerm(u, ps)) <=> verify_constraint(u, ps)
    <2>1. OrderedMapTerm(u, ps) \in TermsMade
      BY DEF TermsMade, MapsMade
    <2>2. IsContainerOf(OrderedMapTerm(u, ps), "OrderedMapTerm_c", u, ps)
      BY ContainerIs DEF OrderedMapTerm
    <2>. QED
      BY <2>1, <2>2 DEF Satisfied, IsContainer, IsContainerOf
  <1>2. verify_constraint(OrderedMap, ps)
    BY DEF verify_constraint, OrderedMap, Atom, Node
  <1>. QED
    BY <1>1, <1>2

\* The container at the start, and after each term written.
LEMMA EmptyArray ==
    ArrayTerm_c \in TermsMade /\ Satisfied(ArrayTerm_c)
  <1>1. <<>> \in Arguments
    <2>1. <<>> \in Seq(Elements) /\ Len(<<>>) = 0
      BY EmptySeq
    <2> DEFINE e == <<>>
    <2>2. e \in Seq(Elements) /\ Len(e) <= MaxSize
      BY <2>1, BoundsAssumption
    <2> HIDE DEF e
    <2>3. e \in Arguments
      BY <2>2, ArgumentsAre
    <2>. QED
      BY <2>3 DEF e
  <1>. QED
    BY <1>1, ArrayMade DEF ArrayTerm_c

\* A container, and what it is with another constraint.
Reconstrained(y, t, s, kind, u) ==
    /\ IsContainerOf(y, kind, t, s)
    /\ [y EXCEPT !.args[1] = u] = Node(kind, 0, <<u>> \o s)

\* A change of the constraint of a container leaves what it holds.
LEMMA ConstraintChanged ==
    ASSUME NEW y, NEW kind, NEW t, NEW u, NEW S, NEW s \in Seq(S),
           IsContainerOf(y, kind, t, s)
    PROVE  Reconstrained(y, t, s, kind, u)
  <1>1. Len(s) \in Nat
    BY LenProperties
  <1> DEFINE T == {t, u}
  <1>2. /\ <<t>> \o s \in Seq(S \cup T) /\ Len(<<t>> \o s) = Len(s) + 1
        /\ (<<t>> \o s)[1] = t /\ \A i \in 1 .. Len(s) : (<<t>> \o s)[i + 1] = s[i]
    <2>1. t \in T
      OBVIOUS
    <2> HIDE DEF T
    <2>. QED
      BY <2>1, InFront
  <1>3. /\ <<u>> \o s \in Seq(S \cup T) /\ Len(<<u>> \o s) = Len(s) + 1
        /\ (<<u>> \o s)[1] = u /\ \A i \in 1 .. Len(s) : (<<u>> \o s)[i + 1] = s[i]
    <2>1. u \in T
      OBVIOUS
    <2> HIDE DEF T
    <2>. QED
      BY <2>1, InFront
  <1> DEFINE r == [<<t>> \o s EXCEPT ![1] = u]
             q == <<u>> \o s
  <1>4. r = q
    <2>1. r \in Seq(S \cup T) /\ Len(r) = Len(s) + 1
          /\ \A j \in 1 .. Len(s) + 1 : r[j] = IF j = 1 THEN u ELSE (<<t>> \o s)[j]
      <3> DEFINE p == <<t>> \o s
      <3>1. p \in Seq(S \cup T) /\ 1 \in 1 .. Len(p) /\ u \in S \cup T /\ Len(p) = Len(s) + 1
        BY <1>1, <1>2
      <3> HIDE DEF p, T
      <3>2. [p EXCEPT ![1] = u] \in Seq(S \cup T) /\ Len([p EXCEPT ![1] = u]) = Len(p)
            /\ \A j \in 1 .. Len(p) : [p EXCEPT ![1] = u][j] = IF j = 1 THEN u ELSE p[j]
        BY <3>1, ExceptSeq
      <3>. QED
        BY <3>1, <3>2 DEF p
    <2>2. ASSUME NEW j \in 1 .. Len(s) + 1 PROVE r[j] = q[j]
      <3>1. CASE j = 1
        BY <1>3, <2>1, <3>1
      <3>2. CASE j # 1
        <4>1. j - 1 \in 1 .. Len(s) /\ (j - 1) + 1 = j
          BY <1>1, <3>2
        <4>. QED
          BY <1>2, <1>3, <2>1, <3>2, <4>1
      <3>. QED
        BY <3>1, <3>2
    <2> HIDE DEF r, q, T
    <2>3. q \in Seq(S \cup T) /\ Len(q) = Len(s) + 1
      BY <1>3 DEF q
    <2>. QED
      BY <2>1, <2>2, <2>3, SeqEqual
  <1>5. [y EXCEPT !.args[1] = u] = Node(kind, 0, r)
    <2> DEFINE p == <<t>> \o s
    <2>1. y = [kind |-> kind, num |-> 0, args |-> p]
      BY DEF IsContainerOf, Node
    <2> HIDE DEF p
    <2>2. [y EXCEPT !.args[1] = u] = [kind |-> kind, num |-> 0, args |-> [p EXCEPT ![1] = u]]
      BY <2>1
    <2>. QED
      BY <2>2 DEF Node, p
  <1>. QED
    BY <1>4, <1>5 DEF Reconstrained

\* So does a change of what it holds with its constraint.
LEMMA ElementChanged ==
    ASSUME NEW t, NEW S, NEW s \in Seq(S), NEW i \in 1 .. Len(s), NEW e \in S
    PROVE  [<<t>> \o s EXCEPT ![i + 1] = e] = <<t>> \o [s EXCEPT ![i] = e]
  <1> DEFINE T == {t}
             p == <<t>> \o s
             r == [p EXCEPT ![i + 1] = e]
             s2 == [s EXCEPT ![i] = e]
             q == <<t>> \o s2
  <1>0. Len(s) \in Nat
    BY LenProperties
  <1>1. t \in T /\ e \in S \cup T
    OBVIOUS
  <1>2. s2 \in Seq(S) /\ Len(s2) = Len(s) /\ \A j \in 1 .. Len(s) : s2[j] = IF j = i THEN e ELSE s[j]
    BY ExceptSeq
  <1> HIDE DEF T, s2
  <1>3. p \in Seq(S \cup T) /\ Len(p) = Len(s) + 1 /\ p[1] = t /\ \A j \in 1 .. Len(s) : p[j + 1] = s[j]
    BY <1>1, InFront
  <1>4. q \in Seq(S \cup T) /\ Len(q) = Len(s) + 1 /\ q[1] = t /\ \A j \in 1 .. Len(s) : q[j + 1] = s2[j]
    BY <1>1, <1>2, InFront
  <1> HIDE DEF p, q
  <1>5. r \in Seq(S \cup T) /\ Len(r) = Len(p) /\ \A j \in 1 .. Len(p) : r[j] = IF j = i + 1 THEN e ELSE p[j]
    <2>1. i + 1 \in 1 .. Len(p)
      BY <1>0, <1>3
    <2>. QED
      BY <1>1, <1>3, <2>1, ExceptSeq
  <1> HIDE DEF r
  <1>6. ASSUME NEW j \in 1 .. Len(r) PROVE r[j] = q[j]
    <2>1. CASE j = 1
      <3>1. i + 1 # 1 /\ 1 \in 1 .. Len(p)
        BY <1>0, <1>3
      <3>. QED
        BY <1>3, <1>4, <1>5, <2>1, <3>1
    <2>2. CASE j # 1
      <3>1. j - 1 \in 1 .. Len(s) /\ (j - 1) + 1 = j /\ (j = i + 1 <=> j - 1 = i) /\ j \in 1 .. Len(p)
        BY <1>0, <1>3, <1>5, <2>2
      <3>. QED
        <4>1. q[(j - 1) + 1] = s2[j - 1] /\ p[(j - 1) + 1] = s[j - 1]
          BY <1>3, <1>4, <3>1
        <4>2. s2[j - 1] = IF j - 1 = i THEN e ELSE s[j - 1]
          BY <1>2, <3>1
        <4>3. r[j] = IF j = i + 1 THEN e ELSE p[j]
          BY <1>5, <3>1
        <4>. QED
          BY <3>1, <4>1, <4>2, <4>3
    <2>. QED
      BY <2>1, <2>2
  <1>7. r = q
    BY <1>3, <1>4, <1>5, <1>6, SeqEqual
  <1>. QED
    BY <1>7 DEF r, q, p, s2

\* A sequence with one more at its end.
LEMMA ElementAdded ==
    ASSUME NEW t, NEW S, NEW s \in Seq(S), NEW e \in S
    PROVE  Append(<<t>> \o s, e) = <<t>> \o Append(s, e)
  <1> DEFINE T == {t}
             U == S \cup T
  <1>1. <<t>> \in Seq(U) /\ s \in Seq(U) /\ <<e>> \in Seq(U) /\ e \in U
    <2>1. s \in Seq(U)
      BY SeqMonotonic
    <2>. QED
      BY <2>1
  <1> HIDE DEF U, T
  <1>2. <<t>> \o s \in Seq(U)
    BY <1>1, ConcatProperties
  <1>3. Append(<<t>> \o s, e) = (<<t>> \o s) \o <<e>> /\ Append(s, e) = s \o <<e>>
    BY <1>1, <1>2, AppendIsConcat
  <1>. QED
    BY <1>1, <1>3, ConcatAssociative

\* T(e1, ..., en) verifies the elements first.
LEMMA ConstructArrayKeeps ==
    ASSUME Inv, NEW t \in ArrayTypesUsed, NEW es \in Arguments, ConstructArray(t, es)
    PROVE  Inv'
  <1>1. term' = ArrayTerm(t, es) /\ ~loose' /\ loose' \in BOOLEAN /\ InMemory /\ verify_constraint(t, es)
    BY DEF ConstructArray
  <1>. QED
    BY <1>1, ArrayMade, InMemoryKeeps

\* Pairs in any order make an ordered map.
LEMMA ConstructOrderedMapKeeps ==
    ASSUME Inv, NEW t \in MapTypesUsed, NEW ps \in PairArguments, ConstructOrderedMap(t, ps)
    PROVE  Inv'
  <1> DEFINE m == make_ordered_map(ps)
  <1>1. term' = OrderedMapTerm(t, m) /\ ~loose' /\ loose' \in BOOLEAN /\ InMemory /\ verify_constraint(t, m)
    BY DEF ConstructOrderedMap
  <1>2. m \in Seq(MapPairs) /\ Ascending(m)
    BY PairsAreKeyed, ArgumentsAre, MapIsSorted
  <1> HIDE DEF m
  <1>. QED
    BY <1>1, <1>2, MapMade, InMemoryKeeps

\* A tuple has no constraint.
LEMMA ConstructTupleKeeps ==
    ASSUME Inv, NEW es \in Arguments, ConstructTuple(es)
    PROVE  Inv'
  <1>1. term' = Tuple(es) /\ loose' \in BOOLEAN /\ InMemory
    BY DEF ConstructTuple
  <1>2. Tuple(es) \in TermsMade
    BY DEF TermsMade, TuplesMade
  <1>3. Satisfied(Tuple(es))
    BY DEF Satisfied, IsContainer, Tuple, Node
  <1>. QED
    BY <1>1, <1>2, <1>3, InMemoryKeeps

\* Nor have the terms of one Data.
LEMMA ConstructOtherKeeps ==
    ASSUME Inv, NEW d \in Contents, ConstructOther(d)
    PROVE  Inv'
  <1>1. term' \in {FormalTypeOf(d), FreeVar(d), Placeholder(d), Output(d), RequestSyncInput(d)}
        /\ loose' \in BOOLEAN /\ InMemory
    BY DEF ConstructOther
  <1>2. term' \in OthersMade /\ term' \in TermsMade
    BY <1>1 DEF TermsMade, OthersMade
  <1>3. Satisfied(term')
    BY <1>2, MadeByKind DEF Satisfied, IsContainer, Incomparable
  <1>. QED
    BY <1>1, <1>2, <1>3, InMemoryKeeps

\* The array or map in hand.
LEMMA ArrayInHand ==
    ASSUME Inv, IsArray
    PROVE  \E t \in ArrayTypesUsed \cup {Array}, es \in Arguments :
              /\ es \in Seq(Elements) /\ Len(es) <= MaxSize
              /\ \A u : Reconstrained(term, t, es, "ArrayTerm_c", u)
  <1>1. term \in ArraysMade
    BY MadeByKind DEF Inv, IsArray
  <1>2. PICK t \in ArrayTypesUsed \cup {Array}, es \in Arguments :
           /\ es \in Seq(Elements) /\ Len(es) <= MaxSize
           /\ IsContainerOf(term, "ArrayTerm_c", t, es)
    BY <1>1, ArrayIs
  <1>3. \A u : Reconstrained(term, t, es, "ArrayTerm_c", u)
    BY <1>2, ConstraintChanged
  <1>. QED
    BY <1>2, <1>3

\* And the map, whose keys ascend.
LEMMA MapInHand ==
    ASSUME Inv, IsMap
    PROVE  \E t \in MapTypesUsed \cup {OrderedMap}, ps \in Seq(MapPairs) :
              /\ Ascending(ps)
              /\ \A u : Reconstrained(term, t, ps, "OrderedMapTerm_c", u)
  <1>1. term \in MapsMade
    BY MadeByKind DEF Inv, IsMap
  <1>2. PICK t \in MapTypesUsed \cup {OrderedMap}, ps \in Seq(MapPairs) :
           /\ Ascending(ps)
           /\ IsContainerOf(term, "OrderedMapTerm_c", t, ps)
    BY <1>1, MapIs
  <1>3. \A u : Reconstrained(term, t, ps, "OrderedMapTerm_c", u)
    BY <1>2, ConstraintChanged
  <1>. QED
    BY <1>2, <1>3

\* A new constraint is stored when it was verified.
LEMMA WithConstraintKeeps ==
    ASSUME Inv, NEW u \in Types, WithConstraint(u)
    PROVE  Inv'
  <1>1. /\ term' = [term EXCEPT !.args[1] = u] /\ loose' \in BOOLEAN /\ InMemory
        /\ verify_constraint(u, Content(term))
        /\ (IsArray /\ u \in ArrayTypesUsed) \/ (IsMap /\ u \in MapTypesUsed)
    BY DEF WithConstraint
  <1>2. CASE IsArray /\ u \in ArrayTypesUsed
    <2>1. PICK t \in ArrayTypesUsed \cup {Array}, es \in Arguments :
             Reconstrained(term, t, es, "ArrayTerm_c", u)
      BY <1>2, ArrayInHand
    <2>2. term' = ArrayTerm(u, es) /\ Content(term) = es
      BY <1>1, <2>1 DEF Reconstrained, IsContainerOf, ArrayTerm
    <2>. QED
      BY <1>1, <1>2, <2>2, ArrayMade, InMemoryKeeps
  <1>3. CASE IsMap /\ u \in MapTypesUsed
    <2>1. PICK t \in MapTypesUsed \cup {OrderedMap}, ps \in Seq(MapPairs) :
             Ascending(ps) /\ Reconstrained(term, t, ps, "OrderedMapTerm_c", u)
      BY <1>3, MapInHand
    <2>2. term' = OrderedMapTerm(u, ps) /\ Content(term) = ps
      BY <1>1, <2>1 DEF Reconstrained, IsContainerOf, OrderedMapTerm
    <2>. QED
      BY <1>1, <1>3, <2>1, <2>2, MapMade, InMemoryKeeps
  <1>. QED
    BY <1>1, <1>2, <1>3

\* Or, moved from, before: the map is loose if it is violated.
LEMMA MoveWithConstraintKeeps ==
    ASSUME Inv, NEW u \in Types, MoveWithConstraint(u)
    PROVE  Inv'
  <1>1. /\ term' = [term EXCEPT !.args[1] = u] /\ InMemory
        /\ loose' = ~verify_constraint(u, Content(term))
        /\ IsMap /\ u \in MapTypesUsed
    BY DEF MoveWithConstraint
  <1>2. PICK t \in MapTypesUsed \cup {OrderedMap}, ps \in Seq(MapPairs) :
           Ascending(ps) /\ Reconstrained(term, t, ps, "OrderedMapTerm_c", u)
    BY <1>1, MapInHand
  <1>3. term' = OrderedMapTerm(u, ps) /\ Content(term) = ps
    BY <1>1, <1>2 DEF Reconstrained, IsContainerOf, OrderedMapTerm
  <1>4. term' \in TermsMade /\ (Satisfied(term') <=> verify_constraint(u, ps))
    BY <1>1, <1>2, <1>3, MapMade
  <1>5. loose' \in BOOLEAN /\ (~loose' => Satisfied(term'))
    BY <1>1, <1>3, <1>4
  <1>. QED
    BY <1>1, <1>4, <1>5, InMemoryKeeps

\* The constraint of neither Array nor OrderedMap can be violated.
LEMMA WithoutConstraintKeeps ==
    ASSUME Inv, WithoutConstraint
    PROVE  Inv'
  <1> DEFINE u == IF IsArray THEN Array ELSE OrderedMap
  <1>1. term' = [term EXCEPT !.args[1] = u] /\ loose' \in BOOLEAN /\ InMemory /\ (IsArray \/ IsMap)
    BY DEF WithoutConstraint
  <1>2. CASE IsArray
    <2>1. PICK t \in ArrayTypesUsed \cup {Array}, es \in Arguments :
             Reconstrained(term, t, es, "ArrayTerm_c", Array)
      BY <1>2, ArrayInHand
    <2>2. term' = ArrayTerm(Array, es)
      BY <1>1, <1>2, <2>1 DEF Reconstrained, ArrayTerm
    <2>. QED
      BY <1>1, <2>2, ArrayMade, InMemoryKeeps
  <1>3. CASE IsMap
    <2>1. PICK t \in MapTypesUsed \cup {OrderedMap}, ps \in Seq(MapPairs) :
             Ascending(ps) /\ Reconstrained(term, t, ps, "OrderedMapTerm_c", OrderedMap)
      BY <1>3, MapInHand
    <2>2. term' = OrderedMapTerm(OrderedMap, ps)
      BY <1>1, <1>3, <2>1 DEF Reconstrained, OrderedMapTerm, IsArray, IsMap
    <2>3. OrderedMapTerm(OrderedMap, ps) \in TermsMade /\ Satisfied(OrderedMapTerm(OrderedMap, ps))
      <3>1. OrderedMap \in MapTypesUsed \cup {OrderedMap}
        OBVIOUS
      <3>. QED
        BY <2>1, <3>1, MapMade
    <2>. QED
      BY <1>1, <2>2, <2>3, InMemoryKeeps
  <1>. QED
    BY <1>1, <1>2, <1>3

\* Through a reference an element becomes another, or a value of a map does;
\* the keys stay as they were.
LEMMA SetElementKeeps ==
    ASSUME Inv, NEW i \in 1 .. MaxSize, NEW e \in Elements, SetElement(i, e)
    PROVE  Inv'
  <1>1. loose' = TRUE /\ InMemory /\ (IsArray \/ IsMap) /\ i \in 1 .. Size(term)
    BY DEF SetElement
  <1>2. CASE IsArray
    <2>1. PICK t \in ArrayTypesUsed \cup {Array}, es \in Arguments :
             /\ es \in Seq(Elements) /\ Len(es) <= MaxSize
             /\ Reconstrained(term, t, es, "ArrayTerm_c", Array)
      BY <1>2, ArrayInHand
    <2>2. IsContainerOf(term, "ArrayTerm_c", t, es) /\ i \in 1 .. Len(es)
      BY <1>1, <2>1 DEF Reconstrained, IsContainerOf
    <2> DEFINE es2 == [es EXCEPT ![i] = e]
    <2>3. es2 \in Seq(Elements) /\ Len(es2) = Len(es)
      BY <2>1, <2>2, ExceptSeq
    <2>4. [<<t>> \o es EXCEPT ![i + 1] = e] = <<t>> \o es2
      BY <2>1, <2>2, ElementChanged
    <2>5. term' = [term EXCEPT !.args[i + 1] = e]
      BY <1>2 DEF SetElement
    <2> DEFINE args == <<t>> \o es
    <2>6. term = [kind |-> "ArrayTerm_c", num |-> 0, args |-> args]
      BY <2>2 DEF IsContainerOf, Node
    <2> HIDE DEF args
    <2>7. term' = [kind |-> "ArrayTerm_c", num |-> 0, args |-> [args EXCEPT ![i + 1] = e]]
      BY <2>5, <2>6
    <2>8. term' = ArrayTerm(t, es2)
      BY <2>4, <2>7 DEF args, ArrayTerm, Node
    <2>9. es2 \in Arguments
      BY <2>1, <2>3, ArgumentsAre
    <2> HIDE DEF es2
    <2>10. term' \in TermsMade
      BY <2>8, <2>9, ArrayMade
    <2>. QED
      BY <1>1, <2>10, InMemoryKeeps
  <1>3. CASE IsMap
    <2>1. PICK t \in MapTypesUsed \cup {OrderedMap}, ps \in Seq(MapPairs) :
             /\ Ascending(ps)
             /\ Reconstrained(term, t, ps, "OrderedMapTerm_c", OrderedMap)
      BY <1>3, MapInHand
    <2>2. IsContainerOf(term, "OrderedMapTerm_c", t, ps) /\ i \in 1 .. Len(ps)
      BY <1>1, <2>1 DEF Reconstrained, IsContainerOf
    <2>3. PICK k \in Elements, v \in Values \cup Elements : ps[i] = Pair(k, v)
      BY <2>2, PairsAreKeyed
    <2> DEFINE p == Pair(k, e)
               ps2 == [ps EXCEPT ![i] = p]
               args == <<t>> \o ps
    <2>a. ps[i] = [kind |-> "pair", num |-> 0, args |-> <<k, v>>] /\ p = [kind |-> "pair", num |-> 0, args |-> <<k, e>>]
      BY <2>3 DEF Pair, Node
    <2>4. p \in MapPairs /\ Key(p) = Key(ps[i])
      <3>1. p \in MapPairs
        BY DEF MapPairs
      <3>2. Key(p) = k /\ Key(ps[i]) = k
        BY <2>a DEF Key
      <3>. QED
        BY <3>1, <3>2
    <2>5. p = [ps[i] EXCEPT !.args[2] = e]
      <3> HIDE DEF p
      <3>1. [<<k, v>> EXCEPT ![2] = e] = <<k, e>>
        OBVIOUS
      <3>2. [[kind |-> "pair", num |-> 0, args |-> <<k, v>>] EXCEPT !.args[2] = e]
               = [kind |-> "pair", num |-> 0, args |-> [<<k, v>> EXCEPT ![2] = e]]
        OBVIOUS
      <3>. QED
        BY <2>a, <3>1, <3>2
    <2>6. term' = [term EXCEPT !.args[i + 1].args[2] = e]
      BY <1>3 DEF SetElement, IsMap, IsArray
    <2>7. term = [kind |-> "OrderedMapTerm_c", num |-> 0, args |-> args]
      BY <2>2 DEF IsContainerOf, Node
    <2>8. args[i + 1] = ps[i] /\ i + 1 \in DOMAIN args
      <3>1. t \in {t}
        OBVIOUS
      <3>2. (<<t>> \o ps)[i + 1] = ps[i] /\ DOMAIN (<<t>> \o ps) = 1 .. Len(ps) + 1
        BY <2>2, <3>1, InFront
      <3>3. i + 1 \in 1 .. Len(ps) + 1
        BY <2>2
      <3>. QED
        BY <3>2, <3>3
    <2>9. ps2 \in Seq(MapPairs) /\ Len(ps2) = Len(ps)
          /\ \A j \in 1 .. Len(ps) : ps2[j] = IF j = i THEN p ELSE ps[j]
      BY <2>2, <2>4, ExceptSeq
    <2>10. [args EXCEPT ![i + 1] = p] = <<t>> \o ps2
      BY <2>2, <2>4, ElementChanged
    <2> HIDE DEF p, ps2, args
    <2>11. term' = [kind |-> "OrderedMapTerm_c", num |-> 0, args |-> [args EXCEPT ![i + 1].args[2] = e]]
      BY <2>6, <2>7
    <2>12. [args EXCEPT ![i + 1].args[2] = e] = [args EXCEPT ![i + 1] = [args[i + 1] EXCEPT !.args[2] = e]]
      OBVIOUS
    <2>13. term' = OrderedMapTerm(t, ps2)
      BY <2>5, <2>8, <2>10, <2>11, <2>12 DEF OrderedMapTerm, Node
    <2>14. Ascending(ps2)
      <3>1. \A j \in 1 .. Len(ps) : Key(ps2[j]) = Key(ps[j])
        BY <2>4, <2>9
      <3>2. DOMAIN ps2 = 1 .. Len(ps) /\ DOMAIN ps = 1 .. Len(ps)
        BY <2>9, LenProperties
      <3>. QED
        BY <2>1, <3>1, <3>2 DEF Ascending
    <2>15. term' \in TermsMade
      BY <2>9, <2>13, <2>14, MapMade
    <2>. QED
      BY <1>1, <2>15, InMemoryKeeps
  <1>. QED
    BY <1>1, <1>2, <1>3

\* One element more.
LEMMA PushBackKeeps ==
    ASSUME Inv, NEW e \in Elements, PushBack(e)
    PROVE  Inv'
  <1>1. loose' = TRUE /\ InMemory /\ IsArray /\ Size(term) < MaxSize
        /\ term' = [term EXCEPT !.args = Append(@, e)]
    BY DEF PushBack
  <1>2. PICK t \in ArrayTypesUsed \cup {Array}, es \in Arguments :
           /\ es \in Seq(Elements) /\ Len(es) <= MaxSize
           /\ Reconstrained(term, t, es, "ArrayTerm_c", Array)
    BY <1>1, ArrayInHand
  <1>3. IsContainerOf(term, "ArrayTerm_c", t, es) /\ Len(es) < MaxSize
    BY <1>1, <1>2 DEF Reconstrained, IsContainerOf
  <1>4. Append(es, e) \in Seq(Elements) /\ Len(Append(es, e)) <= MaxSize
    BY <1>2, <1>3, AppendProperties, LenProperties, BoundsAssumption
  <1>5. term' = ArrayTerm(t, Append(es, e))
    <2>1. Append(<<t>> \o es, e) = <<t>> \o Append(es, e)
      BY <1>2, ElementAdded
    <2>2. term = [kind |-> "ArrayTerm_c", num |-> 0, args |-> <<t>> \o es]
      BY <1>3 DEF IsContainerOf, Node
    <2>3. term' = [kind |-> "ArrayTerm_c", num |-> 0, args |-> Append(<<t>> \o es, e)]
      BY <1>1, <2>2
    <2>. QED
      BY <2>1, <2>3 DEF ArrayTerm, Node
  <1>6. term' \in TermsMade
    BY <1>4, <1>5, ArgumentsAre, ArrayMade
  <1>. QED
    BY <1>1, <1>6, InMemoryKeeps

\* A pair goes where its key belongs.
LEMMA EmplaceKeeps ==
    ASSUME Inv, NEW p \in Pairs, Emplace(p)
    PROVE  Inv'
  <1>1. loose' = TRUE /\ InMemory /\ IsMap
        /\ term' = OrderedMapTerm(Constraint(term), emplace(Content(term), p))
    BY DEF Emplace
  <1>2. PICK t \in MapTypesUsed \cup {OrderedMap}, ps \in Seq(MapPairs) :
           /\ Ascending(ps)
           /\ Reconstrained(term, t, ps, "OrderedMapTerm_c", OrderedMap)
    BY <1>1, MapInHand
  <1>3. Constraint(term) = t /\ Content(term) = ps
    BY <1>2 DEF Reconstrained, IsContainerOf
  <1>4. p \in MapPairs
    BY DEF Pairs, MapPairs
  <1>5. PutInOrder(emplace(ps, p), ps, p, MapPairs)
    BY <1>2, <1>4, PairsAreKeyed, EmplaceKeepsOrder
  <1>6. emplace(ps, p) \in Seq(MapPairs) /\ Ascending(emplace(ps, p))
    BY <1>5 DEF PutInOrder
  <1>7. term' \in TermsMade
    BY <1>1, <1>3, <1>6, MapMade
  <1>. QED
    BY <1>1, <1>7, InMemoryKeeps

\* What was written is one of the terms that were in hand.
LEMMA WriteKeeps ==
    ASSUME Inv, Write
    PROVE  Inv'
  <1>1. sent' = Append(sent, term) /\ term' = ArrayTerm_c /\ loose' = FALSE /\ Len(sent) < MaxWrites
    BY DEF Write, Building
  <1>2. sent' \in Seq(TermsMade) /\ Len(sent') <= MaxWrites
    BY <1>1, AppendProperties, LenProperties, BoundsAssumption DEF Inv
  <1>3. ConstraintKept'
    BY <1>1, EmptyArray DEF ConstraintKept, Satisfied, IsContainer
  <1>. QED
    BY <1>1, <1>2, <1>3, EmptyArray DEF Inv

\* Nothing else is done with them.
LEMMA SameKeeps ==
    ASSUME Inv, UNCHANGED <<term, loose, sent>>
    PROVE  Inv'
  BY DEF Inv, ConstraintKept, Satisfied, IsContainer

\* At the start.
LEMMA InitMakes ==
    Init => Inv
  <1>. SUFFICES ASSUME Init PROVE Inv
    OBVIOUS
  <1>1. sent \in Seq(TermsMade) /\ Len(sent) <= MaxWrites
    <2>1. <<>> \in Seq(TermsMade) /\ Len(<<>>) = 0
      BY EmptySeq
    <2>. QED
      BY <2>1, BoundsAssumption DEF Init
  <1>. QED
    BY <1>1, EmptyArray DEF Init, Inv, ConstraintKept

\* Every step keeps the invariant.
LEMMA StepKeeps ==
    Inv /\ [Next]_vars => Inv'
  <1>. SUFFICES ASSUME Inv, [Next]_vars PROVE Inv'
    OBVIOUS
  <1>1. ASSUME NEW t \in ArrayTypesUsed, NEW es \in Arguments, ConstructArray(t, es) PROVE Inv'
    BY <1>1, ConstructArrayKeeps
  <1>2. ASSUME NEW t \in MapTypesUsed, NEW ps \in PairArguments, ConstructOrderedMap(t, ps) PROVE Inv'
    BY <1>2, ConstructOrderedMapKeeps
  <1>3. ASSUME NEW es \in Arguments, ConstructTuple(es) PROVE Inv'
    BY <1>3, ConstructTupleKeeps
  <1>4. ASSUME NEW d \in Contents, ConstructOther(d) PROVE Inv'
    BY <1>4, ConstructOtherKeeps
  <1>5. ASSUME NEW t \in Types, WithConstraint(t) \/ MoveWithConstraint(t) PROVE Inv'
    BY <1>5, WithConstraintKeeps, MoveWithConstraintKeeps
  <1>6. CASE WithoutConstraint
    BY <1>6, WithoutConstraintKeeps
  <1>7. ASSUME NEW i \in 1 .. MaxSize, NEW e \in Elements, SetElement(i, e) PROVE Inv'
    BY <1>7, SetElementKeeps
  <1>8. ASSUME NEW e \in Elements, PushBack(e) PROVE Inv'
    BY <1>8, PushBackKeeps
  <1>9. ASSUME NEW p \in Pairs, Emplace(p) PROVE Inv'
    BY <1>9, EmplaceKeeps
  <1>10. CASE Write
    BY <1>10, WriteKeeps
  <1>11. CASE Read
    BY <1>11, SameKeeps DEF Read
  <1>12. CASE UNCHANGED vars
    BY <1>12, SameKeeps DEF vars
  <1>. QED
    BY <1>1, <1>2, <1>3, <1>4, <1>5, <1>6, <1>7, <1>8, <1>9, <1>10, <1>11, <1>12 DEF Next

\* The invariant.
THEOREM Invariance ==
    Spec => []Inv
  BY InitMakes, StepKeeps, PTL DEF Spec

\* The program has a container, a tuple or a term of one Data in hand, a
\* container has a constraint of its own sort, and the keys of a map ascend,
\* through every sequence of constructions, changes by reference and emplaces.
THEOREM TypeCorrect ==
    Spec => []TypeOK
  BY Invariance, InvImplies, PTL

\* A container satisfies its constraint unless it was changed by reference, or
\* left by MoveWithConstraint with one that it violates ("ArrayConstraint is
\* already satisfied by construction", ArrayTerm.hpp:24).
THEOREM KeepsConstraint ==
    Spec => []ConstraintKept
  BY Invariance, InvImplies, PTL

-----------------------------------------------------------------------------
(***************************************************************************)
(* Indices and keys.                                                       *)
(***************************************************************************)
\* Numbers near a modulus, which a size and an index are.
LEMMA Wraps ==
    ASSUME NEW d \in Nat, d # 0, NEW a \in Int
    PROVE  /\ 0 <= a /\ a < d => a % d = a
           /\ d <= a /\ a < 2 * d => a % d = a - d
           /\ -d <= a /\ a < 0 => a % d = a + d
  <1>1. ASSUME 0 <= a, a < d PROVE a % d = a
    BY <1>1
  <1>2. ASSUME d <= a, a < 2 * d PROVE a % d = a - d
    BY <1>2
  <1>3. ASSUME -d <= a, a < 0 PROVE a % d = a + d
    BY <1>3
  <1>. QED
    BY <1>1, <1>2, <1>3

\* Where an index leads in a container of n elements, or past all of them.
LEMMA PositionOf ==
    ASSUME NEW n \in Nat, NEW i \in -n - 2 .. n + 1, n + 2 <= SizeValues
    PROVE  /\ Position(int64(i), n) \in Nat
           /\ IF -n <= i /\ i < n
              THEN Position(int64(i), n) = IF i < 0 THEN n + i ELSE i
              ELSE Position(int64(i), n) >= n
  <1>1. Position(int64(i), n) = IF i >= 0 THEN i ELSE (n + (i % SizeValues)) % SizeValues
    BY DEF Position, int64, Node, size_t
  <1>2. SizeValues \in Nat /\ SizeValues # 0 /\ i \in Int
    BY SizeValuesAssumption
  <1>3. CASE i >= 0
    BY <1>1, <1>2, <1>3
  <1>4. CASE i < 0
    <2>1. i % SizeValues = i + SizeValues
      <3>1. -SizeValues <= i
        BY <1>2
      <3>. QED
        BY <1>2, <1>4, <3>1, Wraps
    <2>2. CASE -n <= i
      <3> DEFINE a == n + (i + SizeValues)
      <3>1. a \in Int /\ SizeValues <= a /\ a < 2 * SizeValues /\ a - SizeValues = n + i
        BY <1>2, <1>4, <2>2
      <3> HIDE DEF a
      <3>2. a % SizeValues = a - SizeValues
        BY <1>2, <3>1, Wraps
      <3>. QED
        BY <1>1, <1>2, <1>4, <2>1, <2>2, <3>1, <3>2 DEF a
    <2>3. CASE i < -n
      <3> DEFINE a == n + (i + SizeValues)
      <3>1. a \in Int /\ 0 <= a /\ a < SizeValues /\ a >= n
        BY <1>2, <1>4, <2>3
      <3> HIDE DEF a
      <3>2. a % SizeValues = a
        BY <1>2, <3>1, Wraps
      <3>. QED
        BY <1>1, <1>2, <1>4, <2>1, <2>3, <3>1, <3>2 DEF a
    <2>. QED
      BY <1>2, <2>2, <2>3
  <1>. QED
    BY <1>2, <1>3, <1>4

\* What is found in the elements of a container.
FoundIn(es, i) ==
    at(es, Position(int64(i), Len(es))) =
        IF -Len(es) <= i /\ i < Len(es)
        THEN es[1 + (IF i < 0 THEN Len(es) + i ELSE i)]
        ELSE Exception

\* An index leads to the element it counts from either end, or nowhere.
LEMMA ElementsAreFound ==
    ASSUME NEW S, NEW es \in Seq(S), NEW i \in -Len(es) - 2 .. Len(es) + 1,
           Len(es) + 2 <= SizeValues
    PROVE  FoundIn(es, i)
  <1> DEFINE n == Len(es)
             p == Position(int64(i), n)
  <1>1. n \in Nat /\ i \in -n - 2 .. n + 1 /\ n + 2 <= SizeValues
    BY LenProperties
  <1> HIDE DEF n
  <1>2. /\ p \in Nat
        /\ IF -n <= i /\ i < n THEN p = IF i < 0 THEN n + i ELSE i ELSE p >= n
    BY <1>1, PositionOf
  <1> HIDE DEF p
  <1>3. at(es, p) = IF p < n THEN es[p + 1] ELSE Exception
    BY DEF at, n
  <1>4. CASE -n <= i /\ i < n
    <2>1. p < n /\ p + 1 = 1 + (IF i < 0 THEN n + i ELSE i)
      BY <1>1, <1>2, <1>4
    <2>2. at(es, p) = es[1 + (IF i < 0 THEN n + i ELSE i)]
      BY <1>3, <2>1
    <2>. QED
      BY <1>4, <2>2 DEF FoundIn, n, p
  <1>5. CASE ~ (-n <= i /\ i < n)
    <2>1. at(es, p) = Exception
      BY <1>1, <1>2, <1>3, <1>5
    <2>. QED
      BY <1>5, <2>1 DEF FoundIn, n, p
  <1>. QED
    BY <1>4, <1>5

\* Keys that compare_data finds equal exactly when eq_data does.
Exact == Lacking({"BoolTerm_c", "UnionTerm_c"} \cup Incomparable)

\* The pairs of a map with a key.
LEMMA KeysAreFound ==
    ASSUME NEW ps \in Seq(MapPairs), Ascending(ps), Elements \subseteq Exact
    PROVE  /\ \A i \in DOMAIN ps : ValueAt(ps, ps[i].args[1]) = ps[i].args[2]
           /\ \A e \in Elements :
                (\A i \in DOMAIN ps : ~EqData(ps[i].args[1], e)) => ValueAt(ps, e) = Exception
  <1> DEFINE Found(e) == {i \in DOMAIN ps : CompareData(ps[i].args[1], e) = 0}
  <1>0. DOMAIN ps = 1 .. Len(ps) /\ Len(ps) \in Nat
    BY LenProperties
  <1>1. \A i \in DOMAIN ps : ps[i].args[1] = Key(ps[i]) /\ Key(ps[i]) \in Elements /\ Key(ps[i]) \in Orderly
    BY PairsAreKeyed DEF Keyed
  <1>2. ASSUME NEW i \in DOMAIN ps PROVE ValueAt(ps, ps[i].args[1]) = ps[i].args[2]
    <2> DEFINE e == ps[i].args[1]
    <2>1. e = Key(ps[i])
      BY <1>1
    <2>2. Found(e) = {i}
      <3>1. CompareData(Key(ps[i]), Key(ps[i])) = 0
        <4>1. CompareData(Key(ps[i]), Key(ps[i])) \in {-1, 0, 1}
              /\ CompareData(Key(ps[i]), Key(ps[i])) = -CompareData(Key(ps[i]), Key(ps[i]))
          BY <1>1, PairsAreKeyed, KeyFacts
        <4>. QED
          BY <4>1
      <3>2. ASSUME NEW j \in DOMAIN ps, CompareData(Key(ps[j]), Key(ps[i])) = 0 PROVE j = i
        <4>1. j < i \/ i < j \/ i = j
          BY <1>0
        <4>2. CASE j < i
          <5>1. CompareData(Key(ps[j]), Key(ps[i])) < 0
            BY <4>2 DEF Ascending
          <5>. QED
            BY <3>2, <5>1
        <4>3. CASE i < j
          <5>1. CompareData(Key(ps[i]), Key(ps[j])) < 0
            BY <4>3 DEF Ascending
          <5>2. CompareData(Key(ps[i]), Key(ps[j])) = -CompareData(Key(ps[j]), Key(ps[i]))
            BY <1>1, PairsAreKeyed, KeyFacts
          <5>. QED
            BY <3>2, <5>1, <5>2
        <4>. QED
          BY <4>1, <4>2, <4>3
      <3>. QED
        BY <1>1, <2>1, <3>1, <3>2
    <2>3. \A j : j \in Found(e) /\ (\A k \in Found(e) : j <= k) <=> j = i
      BY <1>0, <2>2
    <2> DEFINE l == CHOOSE j \in Found(e) : \A k \in Found(e) : j <= k
    <2>4. l = i
      BY <1>0, <2>2
    <2>5. ValueAt(ps, e) = IF Found(e) = {} THEN Exception ELSE ps[l].args[2]
      BY DEF ValueAt
    <2> HIDE DEF l
    <2>. QED
      BY <2>2, <2>4, <2>5
  <1>3. ASSUME NEW e \in Elements, \A i \in DOMAIN ps : ~EqData(ps[i].args[1], e)
        PROVE  ValueAt(ps, e) = Exception
    <2>1. MadeWithout({"BoolTerm_c", "UnionTerm_c"} \cup Incomparable, Exact)
      BY LackingIsMade DEF Exact
    <2>2. \A x, y \in Exact : CompareData(x, y) = 0 <=> EqData(x, y)
      BY <2>1, ZeroIsEqual
    <2>3. \A i \in DOMAIN ps : CompareData(ps[i].args[1], e) # 0
      BY <1>1, <1>3, <2>2
    <2>. QED
      BY <2>3 DEF ValueAt
  <1>. QED
    BY <1>2, <1>3

\* Every size there can be is a size_t with two to spare, and the keys of maps
\* are compared alike by compare_data and eq_data.
SizesFit == MaxSize + 2 <= SizeValues
KeysAreExact == Elements \subseteq Exact

\* What holds of the program finds its elements.
LEMMA InvFinds ==
    ASSUME SizesFit, KeysAreExact, Inv
    PROVE  ElementsFound
  <1>1. CASE IsMap
    <2>1. PICK t \in MapTypesUsed \cup {OrderedMap}, ps \in Seq(MapPairs) :
             Ascending(ps) /\ Reconstrained(term, t, ps, "OrderedMapTerm_c", OrderedMap)
      BY <1>1, MapInHand
    <2>2. Content(term) = ps /\ term.kind = "OrderedMapTerm_c"
      BY <2>1 DEF Reconstrained, IsContainerOf
    <2>3. \A p : ElementOf(term, p) = ValueAt(ps, p)
      BY <2>2 DEF ElementOf
    <2>. QED
      BY <1>1, <2>1, <2>2, <2>3, KeysAreFound DEF ElementsFound, KeysAreExact
  <1> DEFINE Given == CASE IsArray -> Content(term)
                        [] term.kind = "TupleTerm_c" -> term.args
                        [] OTHER -> <<>>
             Right(es) == \A i \in -Len(es) - 2 .. Len(es) + 1 :
                             ElementOf(term, int64(i)) =
                                IF -Len(es) <= i /\ i < Len(es)
                                THEN es[1 + (IF i < 0 THEN Len(es) + i ELSE i)]
                                ELSE Exception
  <1>2. ~IsMap => (ElementsFound <=> Right(Given))
    BY DEF ElementsFound
  <1>3. \A i : int64(i).kind = "int64_t"
    BY DEF int64, Node
  <1>4. ASSUME NEW es \in Seq(Elements), Len(es) <= MaxSize,
               \A i : ElementOf(term, int64(i)) = at(es, Position(int64(i), Len(es)))
        PROVE  Right(es)
    <2>1. Len(es) \in Nat /\ Len(es) + 2 <= SizeValues
      BY <1>4, LenProperties, SizeValuesAssumption, BoundsAssumption DEF SizesFit
    <2>2. \A i \in -Len(es) - 2 .. Len(es) + 1 : FoundIn(es, i)
      BY <2>1, ElementsAreFound
    <2>. QED
      BY <1>4, <2>2 DEF FoundIn
  <1>5. CASE IsArray
    <2>1. PICK t \in ArrayTypesUsed \cup {Array}, es \in Arguments :
             /\ es \in Seq(Elements) /\ Len(es) <= MaxSize
             /\ Reconstrained(term, t, es, "ArrayTerm_c", Array)
      BY <1>5, ArrayInHand
    <2>2. Content(term) = es /\ Size(term) = Len(es) /\ term.kind = "ArrayTerm_c"
      BY <2>1 DEF Reconstrained, IsContainerOf
    <2>3. \A i : ElementOf(term, int64(i)) = at(es, Position(int64(i), Len(es)))
      BY <1>3, <2>2 DEF ElementOf
    <2>4. Right(es)
      BY <1>4, <2>1, <2>3
    <2>5. Given = es /\ ~IsMap
      BY <1>5, <2>2 DEF IsMap
    <2> HIDE DEF Right, Given
    <2>. QED
      BY <1>2, <2>4, <2>5
  <1>6. CASE term.kind = "TupleTerm_c"
    <2>1. PICK es \in Arguments : term = Tuple(es)
      BY <1>6, MadeByKind DEF Inv, TuplesMade
    <2>2. term.args = es /\ es \in Seq(Elements) /\ Len(es) <= MaxSize
      BY <2>1, ArgumentsAre DEF Tuple, Node
    <2>3. \A i : ElementOf(term, int64(i)) = at(es, Position(int64(i), Len(es)))
      BY <1>3, <1>6, <2>2 DEF ElementOf
    <2>4. Right(es)
      BY <1>4, <2>2, <2>3
    <2>5. Given = es /\ ~IsMap
      BY <1>6, <2>2 DEF IsMap, IsArray
    <2> HIDE DEF Right, Given
    <2>. QED
      BY <1>2, <2>4, <2>5
  <1>7. CASE ~IsArray /\ ~IsMap /\ term.kind # "TupleTerm_c"
    <2>1. term.kind \in {"FreeVarTerm_c"} \cup Incomparable
      BY <1>7, MadeByKind DEF Inv, TermsMade, IsArray, IsMap
    <2>2. \A i : ElementOf(term, int64(i)) = Exception
      BY <2>1 DEF ElementOf, Incomparable
    <2>3. Given = <<>> /\ Len(<<>>) = 0
      BY <1>7
    <2>4. Right(<<>>)
      BY <2>2, <2>3
    <2> HIDE DEF Right, Given
    <2>. QED
      BY <1>2, <1>7, <2>3, <2>4
  <1>. QED
    BY <1>1, <1>5, <1>6, <1>7

\* Every element of an array or tuple is found by its index from either end, and
\* nothing by an index past an end; in an ordered map every key is found,
\* however the map was changed, and nothing else ("Do fancy `from the end'
\* indexing", ArrayTerm.cpp:58).
THEOREM FindsElements ==
    ASSUME SizesFit, KeysAreExact
    PROVE  Spec => []ElementsFound
  <1>1. Inv => ElementsFound
    BY InvFinds
  <1>. QED
    BY <1>1, Invariance, PTL

-----------------------------------------------------------------------------
(***************************************************************************)
(* The terms in hand are Data, and orderly.                                *)
(***************************************************************************)
\* What is made of orderly Data of a height is one higher, and orderly.
LEMMA MakesOrderly ==
    ASSUME NEW n \in 0 .. MaxHeight - 1, NEW kind \in DOMAIN NameAddress, kind # "BoolTerm_c",
           NEW num \in Int, NEW args \in Seq(Height[n] \cap Orderly)
    PROVE  Node(kind, num, args) \in Height[n + 1] \cap Orderly
  <1> DEFINE d == Node(kind, num, args)
  <1>1. args \in Seq(Height[n])
    BY SeqMonotonic
  <1>2. d \in DataOf(Height[n]) /\ d.kind = kind /\ d.args = args
    BY <1>1 DEF DataOf, Node
  <1>3. d \in Height[n + 1] /\ d \in Data
    BY <1>2, MakesData
  <1>4. \A i \in DOMAIN d.args : d.args[i] \in Orderly
    BY <1>2
  <1> HIDE DEF d
  <1>5. d \in Orderly
    <2> DEFINE K == {"BoolTerm_c"}
    <2>1. d.kind \notin K /\ \A i \in DOMAIN d.args : d.args[i] \in Lacking(K)
      BY <1>2, <1>4 DEF Orderly
    <2> HIDE DEF K
    <2>2. d \in Lacking(K)
      BY <1>3, <2>1, MadeIsLacking
    <2>. QED
      BY <2>2 DEF Orderly, K
  <1>. QED
    BY <1>3, <1>5 DEF d

\* The heights there are between the inputs and Data.
LEMMA HeightsUsed ==
    /\ 0 \in 0 .. MaxHeight - 1 /\ 0 + 1 = 1
    /\ MaxHeight - 2 \in 0 .. MaxHeight - 1 /\ MaxHeight - 1 \in 0 .. MaxHeight - 1
    /\ (MaxHeight - 2) + 1 = MaxHeight - 1 /\ (MaxHeight - 1) + 1 = MaxHeight
    /\ Height[1] \subseteq Height[MaxHeight - 1] /\ Height[MaxHeight - 2] \subseteq Height[MaxHeight - 1]
  <1>1. /\ MaxHeight \in Nat /\ MaxHeight >= 2
        /\ 1 \in 0 .. MaxHeight /\ MaxHeight - 1 \in 0 .. MaxHeight /\ MaxHeight - 2 \in 0 .. MaxHeight
    BY HeightIsBounded, InputsAreLow
  <1>2. Height[1] \subseteq Height[MaxHeight - 1]
    <2> DEFINE m == MaxHeight - 1
    <2>1. 1 \in 0 .. MaxHeight /\ m \in 0 .. MaxHeight /\ 1 <= m
      BY <1>1
    <2> HIDE DEF m
    <2>2. Height[1] \subseteq Height[m]
      BY <2>1, HeightsGrow
    <2>. QED
      BY <2>2 DEF m
  <1>3. Height[MaxHeight - 2] \subseteq Height[MaxHeight - 1]
    <2> DEFINE m == MaxHeight - 1
               l == MaxHeight - 2
    <2>1. l \in 0 .. MaxHeight /\ m \in 0 .. MaxHeight /\ l <= m
      BY <1>1
    <2> HIDE DEF m, l
    <2>2. Height[l] \subseteq Height[m]
      BY <2>1, HeightsGrow
    <2>. QED
      BY <2>2 DEF m, l
  <1>. QED
    BY <1>1, <1>2, <1>3

\* What goes into a container.
Low == Height[MaxHeight - 2] \cap Orderly
Mid == Height[MaxHeight - 1] \cap Orderly

\* What is made of inputs is one higher than they are.
LEMMA MakesMid ==
    ASSUME NEW kind \in DOMAIN NameAddress, kind # "BoolTerm_c", NEW args \in Seq(Low)
    PROVE  Node(kind, 0, args) \in Mid
  <1> DEFINE n == MaxHeight - 2
  <1>1. n \in 0 .. MaxHeight - 1 /\ n + 1 = MaxHeight - 1 /\ args \in Seq(Height[n] \cap Orderly)
    BY HeightsUsed DEF Low
  <1> HIDE DEF n
  <1>2. Node(kind, 0, args) \in Height[n + 1] \cap Orderly
    BY <1>1, MakesOrderly
  <1>. QED
    BY <1>1, <1>2 DEF Mid

\* And what is made of that is Data.
LEMMA MakesTop ==
    ASSUME NEW kind \in DOMAIN NameAddress, kind # "BoolTerm_c", NEW args \in Seq(Mid)
    PROVE  Node(kind, 0, args) \in Orderly
  <1> DEFINE n == MaxHeight - 1
  <1>1. n \in 0 .. MaxHeight - 1 /\ args \in Seq(Height[n] \cap Orderly)
    BY HeightsUsed DEF Mid
  <1> HIDE DEF n
  <1>2. Node(kind, 0, args) \in Height[n + 1] \cap Orderly
    BY <1>1, MakesOrderly
  <1>. QED
    BY <1>2

\* The inputs, the default constraints and the pairs are low enough for a container.
LEMMA InputsAreMid ==
    /\ Inputs \subseteq Low /\ Inputs \subseteq Mid
    /\ Array \in Mid /\ OrderedMap \in Mid
    /\ MapPairs \subseteq Mid
  <1>1. Inputs \subseteq Low /\ Low \subseteq Mid
    BY InputsAre, HeightsUsed DEF Low, Mid
  <1>2. ASSUME NEW kind \in {"Array_c", "OrderedMap_c"} PROVE Atom(kind) \in Mid
    <2>1. <<>> \in Seq(Height[0] \cap Orderly)
      BY EmptySeq
    <2>2. kind \in DOMAIN NameAddress /\ kind # "BoolTerm_c"
      BY KindsHaveNames DEF Kinds, Singletons
    <2>3. Node(kind, 0, <<>>) \in Height[0 + 1] \cap Orderly
      <3> DEFINE args == <<>>
                 n == 0
      <3>1. n \in 0 .. MaxHeight - 1 /\ args \in Seq(Height[n] \cap Orderly) /\ n \in Int
        BY <2>1, HeightsUsed
      <3> HIDE DEF args, n
      <3>2. Node(kind, n, args) \in Height[n + 1] \cap Orderly
        BY <2>2, <3>1, MakesOrderly
      <3>. QED
        BY <3>2 DEF args, n
    <2>4. Height[0 + 1] = Height[1] /\ Height[1] \subseteq Height[MaxHeight - 1]
      BY HeightsUsed
    <2>5. Node(kind, 0, <<>>) \in Mid
      BY <2>3, <2>4 DEF Mid
    <2>. QED
      BY <2>5 DEF Atom
  <1>3. ASSUME NEW p \in MapPairs PROVE p \in Mid
    <2>1. PICK k \in Elements, v \in Values \cup Elements : p = Pair(k, v)
      BY DEF MapPairs
    <2>2. k \in Low /\ v \in Low
      BY <1>1 DEF Inputs
    <2>3. <<k, v>> \in Seq(Low)
      BY <2>2
    <2>4. "pair" \in DOMAIN NameAddress
      BY KindsHaveNames DEF Kinds
    <2>5. Node("pair", 0, <<k, v>>) \in Mid
      BY <2>3, <2>4, MakesMid
    <2>. QED
      BY <2>1, <2>5 DEF Pair
  <1>. QED
    BY <1>1, <1>2, <1>3 DEF Array, OrderedMap

\* Nothing in hand has a BoolTerm_c in it.
LEMMA MadeIsOrderly ==
    TermsMade \subseteq Orderly
  <1>a. {"ArrayTerm_c", "OrderedMapTerm_c", "TupleTerm_c", "FreeVarTerm_c"} \cup Incomparable
            \subseteq DOMAIN NameAddress
    BY KindsHaveNames DEF Kinds
  <1>b. \A t \in Types : t \in Mid
    BY InputsAreMid DEF Inputs
  <1>c. Elements \subseteq Mid /\ Contents \subseteq Mid
    BY InputsAreMid DEF Inputs
  <1>1. ASSUME NEW y \in ArraysMade PROVE y \in Orderly
    <2>1. PICK t \in ArrayTypesUsed \cup {Array}, es \in Arguments :
             es \in Seq(Elements) /\ IsContainerOf(y, "ArrayTerm_c", t, es)
      BY ArrayIs
    <2>2. t \in Mid
      BY <1>b, InputsAreMid DEF ArrayTypesUsed
    <2>3. <<t>> \o es \in Seq(Elements \cup Mid)
      BY <2>1, <2>2, InFront
    <2>4. <<t>> \o es \in Seq(Mid)
      BY <1>c, <2>3, SeqMonotonic
    <2>5. Node("ArrayTerm_c", 0, <<t>> \o es) \in Orderly
      BY <1>a, <2>4, MakesTop
    <2>. QED
      BY <2>1, <2>5 DEF IsContainerOf
  <1>2. ASSUME NEW y \in MapsMade PROVE y \in Orderly
    <2>1. PICK t \in MapTypesUsed \cup {OrderedMap}, ps \in Seq(MapPairs) :
             IsContainerOf(y, "OrderedMapTerm_c", t, ps)
      BY MapIs
    <2>2. t \in Mid
      BY <1>b, InputsAreMid DEF MapTypesUsed
    <2>3. <<t>> \o ps \in Seq(MapPairs \cup Mid)
      BY <2>1, <2>2, InFront
    <2>4. <<t>> \o ps \in Seq(Mid)
      BY <2>3, InputsAreMid, SeqMonotonic
    <2>5. Node("OrderedMapTerm_c", 0, <<t>> \o ps) \in Orderly
      BY <1>a, <2>4, MakesTop
    <2>. QED
      BY <2>1, <2>5 DEF IsContainerOf
  <1>3. ASSUME NEW y \in TuplesMade PROVE y \in Orderly
    <2>1. PICK es \in Arguments : y = Tuple(es)
      BY DEF TuplesMade
    <2>2. es \in Seq(Mid)
      BY <1>c, ArgumentsAre, SeqMonotonic
    <2>3. Node("TupleTerm_c", 0, es) \in Orderly
      BY <1>a, <2>2, MakesTop
    <2>. QED
      BY <2>1, <2>3 DEF Tuple
  <1>4. ASSUME NEW y \in OthersMade PROVE y \in Orderly
    <2>1. PICK d \in Contents :
             y \in {FormalTypeOf(d), FreeVar(d), Placeholder(d), Output(d), RequestSyncInput(d)}
      BY DEF OthersMade
    <2>2. \E kind \in {"FreeVarTerm_c"} \cup Incomparable : y = Node(kind, 0, <<d>>)
      BY <2>1 DEF FormalTypeOf, FreeVar, Placeholder, Output, RequestSyncInput, Incomparable
    <2>3. PICK kind \in {"FreeVarTerm_c"} \cup Incomparable : y = Node(kind, 0, <<d>>)
      BY <2>2
    <2>4. <<d>> \in Seq(Mid)
      BY <1>c
    <2>5. kind \in DOMAIN NameAddress /\ kind # "BoolTerm_c"
      BY <1>a DEF Incomparable
    <2>. QED
      BY <2>3, <2>4, <2>5, MakesTop
  <1>. QED
    BY <1>1, <1>2, <1>3, <1>4 DEF TermsMade

-----------------------------------------------------------------------------
(***************************************************************************)
(* The order of the terms in hand.                                         *)
(***************************************************************************)
\* Only ordered maps and unions are equal without being the same.
LEMMA EqualIsSame ==
    \A x \in Lacking({"OrderedMapTerm_c", "UnionTerm_c"}), y \in Data : EqData(x, y) => x = y
  <1> DEFINE P == Lacking({"OrderedMapTerm_c", "UnionTerm_c"})
             S == {x \in P : \E y \in Data : EqData(x, y) /\ x # y}
  <1>0. P \subseteq Data /\ \A x \in P : /\ x.kind \notin {"OrderedMapTerm_c", "UnionTerm_c"}
                                         /\ \A i \in DOMAIN x.args : x.args[i] \in P
    BY LackingIsMade DEF MadeWithout
  <1> HIDE DEF P
  <1>1. ASSUME S # {} PROVE FALSE
    <2>1. S \in SUBSET Data /\ S # {}
      BY <1>0, <1>1
    <2>2. PICK x \in S : \A e \in Data : HeightOf[e] < HeightOf[x] => e \notin S
      <3> HIDE DEF S
      <3>. QED
        BY <2>1, LowestData
    <2>3. PICK y \in Data : EqData(x, y) /\ x # y
      OBVIOUS
    <2>4. x \in Data /\ Equal(eq_data, x, y)
      BY <1>0, <2>3, EqDef
    <2>5. x.kind = y.kind /\ x.num = y.num /\ EqSeq(eq_data, x.args, y.args)
      BY <1>0, <2>4 DEF Equal
    <2>6. /\ x \in [kind : DOMAIN NameAddress, num : Int, args : Seq(Data)]
          /\ y \in [kind : DOMAIN NameAddress, num : Int, args : Seq(Data)]
          /\ \A i \in DOMAIN x.args : x.args[i] \in Data /\ HeightOf[x.args[i]] < HeightOf[x]
      BY <2>4, PartsAreLower
    <2>7. x.args \in Seq(Data) /\ y.args \in Seq(Data) /\ Len(x.args) = Len(y.args)
          /\ DOMAIN x.args = 1 .. Len(x.args)
      BY <2>5, <2>6, LenProperties DEF EqSeq
    <2>8. ASSUME NEW i \in 1 .. Len(x.args) PROVE x.args[i] = y.args[i]
      <3>1. EqData(x.args[i], y.args[i]) /\ y.args[i] \in Data
        BY <2>5, <2>7 DEF EqSeq, EqData
      <3>2. x.args[i] \in P /\ x.args[i] \notin S
        BY <1>0, <2>2, <2>6, <2>7
      <3>. QED
        BY <3>1, <3>2
    <2>9. x.args = y.args
      BY <2>7, <2>8, SeqEqual
    <2>10. x = y
      BY <2>5, <2>6, <2>9
    <2>. QED
      BY <2>3, <2>10
  <1>. QED
    BY <1>0, <1>1 DEF P

\* What holds of the program orders its terms.
LEMMA InvOrders ==
    Inv => CompareIsAnOrder
  <1> DEFINE terms == {y \in {term} \cup {sent[i] : i \in DOMAIN sent} \cup Elements \cup Values :
                          \A z \in Subterms(y) : z.kind \notin {"UnionTerm_c"} \cup Incomparable}
             HoldsMap(y) == \E z \in Subterms(y) : z.kind = "OrderedMapTerm_c"
             Ordered(x, y) ==
                /\ CompareData(x, y) = 0 <=> EqData(x, y)
                /\ CompareData(x, y) = -CompareData(y, x)
                /\ CompareData(x, y) < 0 =>
                     \A z \in terms : CompareData(z, x) < 0 => CompareData(z, y) < 0
                /\ EqData(x, y) => Hash(x) = Hash(y) \/ HoldsMap(x)
  <1>. SUFFICES ASSUME Inv PROVE CompareIsAnOrder
    OBVIOUS
  <1>1. ASSUME NEW y \in terms PROVE y \in Exact /\ y \in Orderly /\ y \in Data
    <2>1. y \in Orderly
      <3>1. \A i \in DOMAIN sent : sent[i] \in TermsMade
        BY LenProperties DEF Inv
      <3>. QED
        BY <3>1, MadeIsOrderly, InputsAre DEF Inv, Inputs
    <2>2. y \in Data /\ \A z \in Subterms(y) : z.kind # "BoolTerm_c"
      BY <2>1 DEF Orderly, Lacking
    <2>3. \A z \in Subterms(y) : z.kind \notin {"UnionTerm_c"} \cup Incomparable
      OBVIOUS
    <2>4. \A z \in Subterms(y) : z.kind \notin {"BoolTerm_c", "UnionTerm_c"} \cup Incomparable
      BY <2>2, <2>3
    <2>. QED
      BY <2>1, <2>2, <2>4 DEF Exact, Lacking
  <1>2. MadeWithout({"BoolTerm_c", "UnionTerm_c"} \cup Incomparable, Exact)
        /\ MadeWithout({"BoolTerm_c"}, Orderly)
    BY LackingIsMade DEF Exact, Orderly
  <1>3. \A x, y \in Exact : CompareData(x, y) = 0 <=> EqData(x, y)
    BY <1>2, ZeroIsEqual
  <1>4. ASSUME NEW x \in terms, NEW y \in terms PROVE Ordered(x, y)
    <2>1. x \in Exact /\ y \in Exact /\ x \in Orderly /\ y \in Orderly /\ x \in Data /\ y \in Data
      BY <1>1
    <2>2. CompareData(x, y) = 0 <=> EqData(x, y)
      BY <1>3, <2>1
    <2>3. CompareData(x, y) = -CompareData(y, x)
      BY <1>2, <2>1, KeyFacts
    <2>4. ASSUME NEW z \in terms, CompareData(x, y) < 0, CompareData(z, x) < 0 PROVE CompareData(z, y) < 0
      <3>1. z \in Orderly
        BY <1>1
      <3>2. CompareData(x, y) \in {-1, 0, 1} /\ CompareData(z, x) \in {-1, 0, 1}
        BY <1>2, <2>1, <3>1, KeyFacts
      <3>3. CompareData(z, x) < 0 /\ CompareData(x, y) <= 0
        BY <2>4, <3>2
      <3>. QED
        BY <1>2, <2>1, <3>1, <3>3, KeyFacts
    <2>5. ASSUME EqData(x, y), ~HoldsMap(x) PROVE Hash(x) = Hash(y)
      <3>1. x \in Lacking({"OrderedMapTerm_c", "UnionTerm_c"})
        BY <2>1, <2>5 DEF Exact, Lacking
      <3>2. x = y
        BY <2>1, <2>5, <3>1, EqualIsSame
      <3>. QED
        BY <3>2
    <2> HIDE DEF terms, HoldsMap
    <2>. QED
      BY <2>2, <2>3, <2>4, <2>5
  <1>5. term \in terms => \A y \in terms : Ordered(term, y)
    <2> HIDE DEF terms, Ordered
    <2>. QED
      BY <1>4
  <1>. QED
    BY <1>5 DEF CompareIsAnOrder

\* The terms in hand, those written, the elements and the values are ordered by
\* compare_data; it is zero for the equal ones only, which hash alike.
THEOREM ComparesInOrder ==
    Spec => []CompareIsAnOrder
  BY InvOrders, Invariance, PTL

-----------------------------------------------------------------------------
(***************************************************************************)
(* abstract_type_of_data does what it says.                                *)
(***************************************************************************)
\* Induction, for sets.
LEMMA FromZero ==
    ASSUME NEW S \in SUBSET Nat, 0 \in S, \A n \in S : n + 1 \in S
    PROVE  \A n \in Nat : n \in S
  <1> DEFINE T == Nat \ S
  <1>1. ASSUME T # {} PROVE FALSE
    <2>1. PICK n \in T : \A k \in T : n <= k
      <3>1. T \in SUBSET Nat /\ T # {}
        BY <1>1
      <3> HIDE DEF T
      <3>. QED
        BY <3>1, LeastNumber
    <2>2. n \in Nat /\ n \notin S /\ n # 0
      OBVIOUS
    <2>3. n - 1 \in Nat /\ n - 1 \notin T
      BY <2>1, <2>2
    <2>4. (n - 1) + 1 \in S
      BY <2>3
    <2>. QED
      BY <2>2, <2>4
  <1>. QED
    BY <1>1

\* The terms without parts are Data, whatever kind they have.
AtomsHaveNames ==
    \A kind \in Kinds : kind \in DOMAIN NameAddress /\ Atom(kind) \in Height[1] /\ Atom(kind) \in Data

\* Every kind has a term without parts.
LEMMA NamedAtoms ==
    AtomsHaveNames
  <1>1. MaxHeight >= 1
    BY InputsAreLow, HeightIsBounded
  <1>. QED
    <2>1. ASSUME NEW kind \in Kinds PROVE kind \in DOMAIN NameAddress /\ Atom(kind) \in Height[1] /\ Atom(kind) \in Data
      <3> DEFINE n == 0
      <3>1. kind \in DOMAIN NameAddress /\ n \in Int
        BY KindsHaveNames
      <3> HIDE DEF n
      <3>2. Node(kind, n, <<>>) \in Data /\ Node(kind, n, <<>>) \in Height[1]
        BY <1>1, <3>1, AtomsAreData
      <3>. QED
        BY <3>1, <3>2 DEF Atom, n
    <2>. QED
      BY <2>1 DEF AtomsHaveNames

\* The kinds that atoms have as abstract types.
LEMMA TypeKinds ==
    /\ \A k \in DOMAIN AbstractTypeOfSingleton : AbstractTypeOfSingleton[k] \in Singletons
    /\ \A k \in DOMAIN TypeOfKind : TypeOfKind[k] \in Singletons
    /\ Singletons \subseteq Kinds
    /\ "NonParametricType_c" \in Singletons /\ "Term_c" \in Singletons
    /\ {"TupleTerm_c", "FormalTypeOf_Term_c"} \subseteq Kinds
  <1>1. \A k \in DOMAIN AbstractTypeOfSingleton : AbstractTypeOfSingleton[k] \in Singletons
    BY DEF AbstractTypeOfSingleton, Singletons
  <1>2. \A k \in DOMAIN TypeOfKind : TypeOfKind[k] \in Singletons
    BY DEF TypeOfKind, Singletons
  <1>3. Singletons \subseteq Kinds /\ {"TupleTerm_c", "FormalTypeOf_Term_c"} \subseteq Kinds
    BY DEF Kinds, Incomparable
  <1>4. "NonParametricType_c" \in Singletons /\ "Term_c" \in Singletons
    BY DEF Singletons
  <1>. QED
    BY <1>1, <1>2, <1>3, <1>4

\* The type is no higher than the Data, if those of its parts are not.
LEMMA TypeIsNoHigher ==
    ASSUME NEW x \in Data, NEW f,
           \A i \in DOMAIN x.args : f[x.args[i]] \in Height[HeightOf[x.args[i]]]
    PROVE  TypeOf(f, x) \in Height[HeightOf[x]]
  <1> DEFINE n == HeightOf[x]
  <1>1. n \in 1 .. MaxHeight /\ n \in Nat /\ n \in 0 .. MaxHeight /\ n - 1 \in 0 .. MaxHeight
        /\ n - 1 \in 0 .. MaxHeight - 1 /\ (n - 1) + 1 = n /\ n - 1 <= n /\ 1 \in 0 .. MaxHeight /\ 1 <= n
    <2>1. n \in 1 .. MaxHeight
      BY PartsAreLower
    <2> HIDE DEF n
    <2>. QED
      BY <2>1, HeightIsBounded
  <1>2. x.args \in Seq(Data) /\ \A i \in DOMAIN x.args : x.args[i] \in Data /\ HeightOf[x.args[i]] < n
    BY PartsAreLower
  <1>3. x \in Height[n]
    BY HeightOfData DEF IsLeastHeight
  <1> HIDE DEF n
  <1>4. \A kind \in Kinds : Atom(kind) \in Height[n]
    <2>1. Height[1] \subseteq Height[n]
      BY <1>1, HeightsGrow
    <2>. QED
      BY <2>1, NamedAtoms DEF AtomsHaveNames
  <1>5. ASSUME NEW i \in DOMAIN x.args
        PROVE  x.args[i] \in Height[n - 1] /\ f[x.args[i]] \in Height[n - 1]
    <2>1. HeightOf[x.args[i]] \in Nat /\ HeightOf[x.args[i]] \in 0 .. MaxHeight /\ HeightOf[x.args[i]] <= n - 1
      <3>1. HeightOf[x.args[i]] \in 1 .. MaxHeight /\ HeightOf[x.args[i]] < n
        BY <1>2, PartsAreLower
      <3>. QED
        BY <1>1, <3>1
    <2>2. Height[HeightOf[x.args[i]]] \subseteq Height[n - 1]
      BY <1>1, <2>1, HeightsGrow
    <2>3. x.args[i] \in Height[HeightOf[x.args[i]]]
      BY <1>2, HeightOfData DEF IsLeastHeight
    <2>. QED
      BY <2>2, <2>3
  <1>6. CASE x.kind \in DOMAIN AbstractTypeOfSingleton
    <2>1. TypeOf(f, x) = Atom(AbstractTypeOfSingleton[x.kind])
      <3>1. x.kind \notin DOMAIN TypeOfKind /\ x.kind \notin {"ArrayTerm_c", "OrderedMapTerm_c", "TupleTerm_c", "FormalTypeOf_Term_c"}
        BY <1>6 DEF AbstractTypeOfSingleton, TypeOfKind
      <3>. QED
        BY <1>6, <3>1 DEF TypeOf
    <2>. QED
      BY <1>4, <1>6, <2>1, TypeKinds DEF n
  <1>7. ASSUME x.kind \notin DOMAIN AbstractTypeOfSingleton,
               x.kind \in Singletons \ (NoAbstractType \cup DOMAIN AbstractTypeOfSingleton)
                  \/ x.kind \in DOMAIN TypeOfKind
                  \/ x.kind \in {"ArrayTerm_c", "OrderedMapTerm_c"}
        PROVE  TypeOf(f, x) \in Height[n]
    <2>1. Constraint(x) \in Height[n]
      <3>1. CASE 1 \in DOMAIN x.args
        <4>1. x.args[1] \in Height[n - 1] /\ Height[n - 1] \subseteq Height[n]
          BY <1>1, <1>5, <3>1, HeightsGrow
        <4>. QED
          BY <3>1, <4>1 DEF Constraint, Part
      <3>2. CASE 1 \notin DOMAIN x.args
        BY <1>4, <3>2, TypeKinds DEF Constraint, Part, Term
      <3>. QED
        BY <3>1, <3>2
    <2>2. x.kind \in DOMAIN TypeOfKind => x.kind \notin Singletons
      BY DEF TypeOfKind, Singletons
    <2>3. x.kind \in {"ArrayTerm_c", "OrderedMapTerm_c"} => x.kind \notin Singletons /\ x.kind \notin DOMAIN TypeOfKind
      BY DEF TypeOfKind, Singletons
    <2>4. CASE x.kind \in Singletons \ (NoAbstractType \cup DOMAIN AbstractTypeOfSingleton)
      <3>1. TypeOf(f, x) = Atom("NonParametricType_c")
        BY <1>7, <2>2, <2>3, <2>4 DEF TypeOf, TypeOfKind, Singletons
      <3>. QED
        BY <1>4, <3>1, TypeKinds
    <2>5. CASE x.kind \in DOMAIN TypeOfKind
      <3>1. TypeOf(f, x) = Atom(TypeOfKind[x.kind])
        BY <1>7, <2>2, <2>3, <2>5 DEF TypeOf, TypeOfKind
      <3>. QED
        BY <1>4, <2>5, <3>1, TypeKinds
    <2>6. CASE x.kind \in {"ArrayTerm_c", "OrderedMapTerm_c"}
      <3>1. TypeOf(f, x) = Constraint(x)
        BY <1>7, <2>3, <2>6 DEF TypeOf
      <3>. QED
        BY <2>1, <3>1
    <2>. QED
      BY <1>7, <2>4, <2>5, <2>6
  <1>8. CASE x.kind \in {"TupleTerm_c", "FormalTypeOf_Term_c"}
    <2> DEFINE ts == [i \in DOMAIN x.args |-> f[x.args[i]]]
    <2>1. x.kind \notin DOMAIN AbstractTypeOfSingleton /\ x.kind \notin Singletons
          /\ x.kind \notin DOMAIN TypeOfKind /\ x.kind \notin {"ArrayTerm_c", "OrderedMapTerm_c"}
      BY <1>8 DEF AbstractTypeOfSingleton, Singletons, TypeOfKind
    <2>2. TypeOf(f, x) = Node(x.kind, 0, ts)
      BY <1>8, <2>1 DEF TypeOf
    <2>3. ts \in Seq(Height[n - 1])
      <3>1. DOMAIN x.args = 1 .. Len(x.args) /\ Len(x.args) \in Nat
        BY <1>2, LenProperties
      <3>2. ts \in [1 .. Len(x.args) -> Height[n - 1]]
        BY <1>5, <3>1
      <3> HIDE DEF ts
      <3>. QED
        BY <3>1, <3>2
    <2>4. x.kind \in DOMAIN NameAddress
      BY <1>8, NamedAtoms, TypeKinds DEF AtomsHaveNames
    <2> HIDE DEF ts
    <2>5. Node(x.kind, 0, ts) \in DataOf(Height[n - 1])
      BY <2>3, <2>4 DEF DataOf, Node
    <2> DEFINE m == n - 1
    <2>6. m \in 0 .. MaxHeight - 1 /\ m + 1 = n /\ Node(x.kind, 0, ts) \in DataOf(Height[m])
      BY <1>1, <2>5
    <2> HIDE DEF m
    <2>7. Node(x.kind, 0, ts) \in Height[m + 1]
      BY <2>6, MakesData
    <2>. QED
      BY <2>2, <2>6, <2>7 DEF n
  <1>9. ASSUME x.kind \notin DOMAIN AbstractTypeOfSingleton,
               x.kind \notin Singletons \ (NoAbstractType \cup DOMAIN AbstractTypeOfSingleton),
               x.kind \notin DOMAIN TypeOfKind,
               x.kind \notin {"ArrayTerm_c", "OrderedMapTerm_c"},
               x.kind \notin {"TupleTerm_c", "FormalTypeOf_Term_c"}
        PROVE  TypeOf(f, x) \in Height[n]
    <2>1. TypeOf(f, x) = Term
      BY <1>9 DEF TypeOf
    <2>. QED
      BY <1>4, <2>1, TypeKinds DEF Term
  <1>. QED
    BY <1>6, <1>7, <1>8, <1>9 DEF n

\* Every Data has the abstract type that its parts give it.
LEMMA AbstractDef ==
    \A x \in Data : AbstractType(x) = TypeOf(abstract_type_of_data, x) /\ AbstractType(x) \in Data
  <1> DEFINE R == [x \in Data |-> Height[HeightOf[x]]]
             G == [f \in From(Data, R) |-> [x \in Data |-> TypeOf(f, x)]]
  <1>1. \A y \in Data : \A i \in DOMAIN y.args : y.args[i] \in Data /\ HeightOf[y.args[i]] < HeightOf[y]
    BY PartsAreLower
  <1>2. ASSUME NEW f \in From(Data, R) PROVE G[f] \in From(Data, R)
    <2>1. \A x \in Data : f[x] \in Height[HeightOf[x]]
      BY FromFacts
    <2>2. \A x \in Data : TypeOf(f, x) \in R[x]
      BY <1>1, <2>1, TypeIsNoHigher
    <2>3. G[f] = [x \in Data |-> G[f][x]] /\ \A x \in Data : G[f][x] \in R[x]
      BY <2>2
    <2> HIDE DEF G, R
    <2>. QED
      BY <2>3, IsFrom
  <1>3. G \in [From(Data, R) -> From(Data, R)]
    BY <1>2
  <1>4. ASSUME NEW f \in From(Data, R), NEW g \in From(Data, R), NEW x \in Data,
               \A e \in Data : HeightOf[e] < HeightOf[x] => f[e] = g[e]
        PROVE  G[f][x] = G[g][x]
    <2>1. \A i \in DOMAIN x.args : f[x.args[i]] = g[x.args[i]]
      BY <1>1, <1>4
    <2>2. [i \in DOMAIN x.args |-> f[x.args[i]]] = [i \in DOMAIN x.args |-> g[x.args[i]]]
      BY <2>1
    <2>3. TypeOf(f, x) = TypeOf(g, x)
      BY <2>2 DEF TypeOf
    <2>. QED
      BY <2>3
  <1>5. Local(G, Data, R, HeightOf)
    <2> HIDE DEF G, R
    <2>. QED
      BY <1>4 DEF Local
  <1>6. \A d \in Data : R[d] # {}
    <2>1. \A d \in Data : d \in Height[HeightOf[d]]
      BY HeightOfData DEF IsLeastHeight
    <2>. QED
      BY <2>1
  <1>7. HasSolution(G, Data, R)
    <2> HIDE DEF G, R
    <2>. QED
      BY <1>3, <1>5, <1>6, HeightOfType, Recursion
  <1>8. PICK f \in From(Data, R) : f = G[f]
    <2> HIDE DEF G, R
    <2>. QED
      BY <1>7 DEF HasSolution
  <1>9. \E s : s = [x \in Data |-> TypeOf(s, x)]
    BY <1>8
  <1>10. abstract_type_of_data = [x \in Data |-> TypeOf(abstract_type_of_data, x)]
    BY <1>9 DEF abstract_type_of_data
  <1>11. \A x \in Data : AbstractType(x) = TypeOf(abstract_type_of_data, x)
    <2> DEFINE a == abstract_type_of_data
    <2>1. a = [x \in Data |-> TypeOf(a, x)]
      BY <1>10
    <2> HIDE DEF a
    <2>2. \A x \in Data : a[x] = TypeOf(a, x)
      BY <2>1
    <2>. QED
      BY <2>2 DEF AbstractType, a
  <1>12. \A x \in Data : AbstractType(x) \in Height[HeightOf[x]]
    <2> DEFINE B == {x \in Data : ~ (AbstractType(x) \in Height[HeightOf[x]])}
    <2>1. ASSUME B # {} PROVE FALSE
      <3>1. PICK x \in B : \A e \in Data : HeightOf[e] < HeightOf[x] => e \notin B
        <4>1. B \in SUBSET Data
          OBVIOUS
        <4> HIDE DEF B
        <4>. QED
          BY <2>1, <4>1, LowestData
      <3>2. \A i \in DOMAIN x.args : AbstractType(x.args[i]) \in Height[HeightOf[x.args[i]]]
        BY <1>1, <3>1
      <3>3. TypeOf(abstract_type_of_data, x) \in Height[HeightOf[x]]
        BY <3>2, TypeIsNoHigher DEF AbstractType
      <3>. QED
        BY <1>11, <3>3
    <2>. QED
      BY <2>1
  <1>13. \A x \in Data : AbstractType(x) \in Data
    <2>1. ASSUME NEW x \in Data PROVE AbstractType(x) \in Data
      <3>1. HeightOf[x] \in 0 .. MaxHeight
        BY PartsAreLower
      <3>. QED
        BY <1>12, <3>1, HeightsAreData
    <2>. QED
      BY <2>1
  <1>. QED
    BY <1>11, <1>13

-----------------------------------------------------------------------------
(***************************************************************************)
(* Sequences one after the other.                                          *)
(***************************************************************************)
\* The sequences up to each one, put together.
Joined(f, s) ==
    /\ f[0] = <<>>
    /\ \A i \in 1 .. Len(s) : f[i] = f[i - 1] \o s[i]
    /\ FlattenSeq(s) = f[Len(s)]

IsFlattening(f, m, s) == f = [i \in 1 .. m |-> IF i = 1 THEN s[i] ELSE f[i - 1] \o s[i]]

\* There are such sequences, up to every number of them.
LEMMA FlatteningsExist ==
    ASSUME NEW s
    PROVE  \A m \in Nat : \E f : IsFlattening(f, m, s)
  <1> DEFINE S == {m \in Nat : \E f : IsFlattening(f, m, s)}
  <1>1. 0 \in S
    <2> DEFINE f == [i \in 1 .. 0 |-> <<>>]
    <2>1. IsFlattening(f, 0, s)
      BY DEF IsFlattening
    <2>. QED
      BY <2>1
  <1>2. ASSUME NEW n \in S PROVE n + 1 \in S
    <2>1. n \in Nat
      OBVIOUS
    <2>2. PICK g : IsFlattening(g, n, s)
      OBVIOUS
    <2> DEFINE m == n + 1
               f == [i \in 1 .. m |-> IF i = m THEN IF i = 1 THEN s[i] ELSE g[n] \o s[i] ELSE g[i]]
    <2>3. ASSUME NEW i \in 1 .. m PROVE f[i] = IF i = 1 THEN s[i] ELSE f[i - 1] \o s[i]
      <3>1. CASE i = m
        <4>1. i # 1 => n \in 1 .. m /\ n # m /\ i - 1 = n
          BY <2>1, <3>1
        <4>2. i # 1 => f[i - 1] = g[n]
          BY <4>1
        <4>. QED
          BY <3>1, <4>2
      <3>2. CASE i # m
        <4>1. i \in 1 .. n
          BY <2>1, <3>2
        <4>2. g[i] = IF i = 1 THEN s[i] ELSE g[i - 1] \o s[i]
          BY <2>2, <4>1 DEF IsFlattening
        <4>3. i # 1 => i - 1 \in 1 .. m /\ i - 1 # m
          BY <2>1, <4>1
        <4>4. i # 1 => f[i - 1] = g[i - 1]
          BY <4>3
        <4>. QED
          BY <3>2, <4>2, <4>4
      <3>. QED
        BY <3>1, <3>2
    <2>4. f = [i \in 1 .. m |-> f[i]]
      OBVIOUS
    <2> HIDE DEF f
    <2>5. IsFlattening(f, m, s)
      BY <2>3, <2>4 DEF IsFlattening
    <2>. QED
      BY <2>1, <2>5
  <1> HIDE DEF S
  <1>3. S \in SUBSET Nat
    BY DEF S
  <1>4. \A n \in Nat : n \in S
    BY <1>1, <1>2, <1>3, FromZero
  <1>. QED
    BY <1>4 DEF S

\* FlattenSeq joins them.
LEMMA FlattenJoins ==
    ASSUME NEW U, NEW s \in Seq(Seq(U))
    PROVE  \E f : Joined(f, s)
  <1>1. Len(s) \in Nat
    BY LenProperties
  <1>2. CASE Len(s) = 0
    <2>1. s = <<>> /\ FlattenSeq(s) = s
      BY <1>2 DEF FlattenSeq
    <2> DEFINE f == [i \in {0} |-> <<>>]
    <2>2. f[0] = <<>>
      OBVIOUS
    <2> HIDE DEF f
    <2>3. Joined(f, s)
      BY <1>2, <2>1, <2>2 DEF Joined
    <2>. QED
      BY <2>3
  <1>3. CASE Len(s) # 0
    <2> DEFINE n == Len(s)
               g == CHOOSE g : g = [i \in 1 .. n |-> IF i = 1 THEN s[i] ELSE g[i - 1] \o s[i]]
    <2>1. FlattenSeq(s) = g[n]
      BY <1>3 DEF FlattenSeq
    <2>2. \E h : IsFlattening(h, n, s)
      BY <1>1, FlatteningsExist
    <2>3. g = [i \in 1 .. n |-> IF i = 1 THEN s[i] ELSE g[i - 1] \o s[i]]
      BY <2>2 DEF IsFlattening
    <2>4. n \in Nat /\ n # 0
      BY <1>1, <1>3
    <2> HIDE DEF g, n
    <2> DEFINE f == [i \in 0 .. n |-> IF i = 0 THEN <<>> ELSE g[i]]
    <2>5. f[0] = <<>> /\ f[n] = g[n]
      BY <2>4
    <2>6. ASSUME NEW i \in 1 .. n PROVE f[i] = f[i - 1] \o s[i]
      <3>1. g[i] = IF i = 1 THEN s[i] ELSE g[i - 1] \o s[i]
        BY <2>3
      <3>2. s[i] \in Seq(U)
        <4>1. i \in 1 .. Len(s)
          BY DEF n
        <4>. QED
          BY <4>1, ElementOfSeq
      <3>3. CASE i = 1
        <4>1. f[i] = s[i] /\ f[i - 1] = <<>>
          BY <2>4, <3>1, <3>3
        <4>. QED
          BY <3>2, <4>1, ConcatEmptySeq
      <3>4. CASE i # 1
        <4>1. i - 1 \in 0 .. n /\ i - 1 # 0 /\ i \in 0 .. n /\ i # 0
          BY <2>4, <3>4
        <4>2. f[i] = g[i] /\ f[i - 1] = g[i - 1]
          BY <4>1
        <4>. QED
          BY <3>1, <3>4, <4>2
      <3>. QED
        BY <3>3, <3>4
    <2> HIDE DEF f
    <2>7. Joined(f, s)
      BY <2>1, <2>5, <2>6 DEF Joined, n
    <2>. QED
      BY <2>7
  <1>. QED
    BY <1>2, <1>3

\* What is left of a stream from one sequence to the next.
Chain(q, s, U, from, to) ==
    /\ \A k \in 0 .. Len(s) : q[k] \in Seq(U)
    /\ q[0] = from /\ q[Len(s)] = to
    /\ \A k \in 1 .. Len(s) : q[k - 1] = s[k] \o q[k]

\* FlattenSeq in front of a stream is such a chain.
LEMMA FlattenChains ==
    ASSUME NEW U, NEW s \in Seq(Seq(U)), NEW rest \in Seq(U)
    PROVE  FlattenSeq(s) \in Seq(U) /\ \E q : Chain(q, s, U, FlattenSeq(s) \o rest, rest)
  <1>1. PICK f : Joined(f, s)
    BY FlattenJoins
  <1>2. Len(s) \in Nat /\ \A i \in 1 .. Len(s) : s[i] \in Seq(U)
    BY LenProperties
  <1> DEFINE n == Len(s)
             Upto(k, q, r) == /\ \A i \in 0 .. k : q[i] \in Seq(U)
                              /\ q[0] = f[k] \o r /\ q[k] = r
                              /\ \A i \in 1 .. k : q[i - 1] = s[i] \o q[i]
             Good(k) == k <= n => f[k] \in Seq(U) /\ \A r \in Seq(U) : \E q : Upto(k, q, r)
             S == {k \in Nat : Good(k)}
  <1>3. 0 \in S
    <2>1. f[0] = <<>> /\ f[0] \in Seq(U)
      BY <1>1 DEF Joined
    <2>2. ASSUME NEW r \in Seq(U) PROVE \E q : Upto(0, q, r)
      <3> DEFINE q == [i \in 0 .. 0 |-> r]
      <3>1. q[0] = r /\ f[0] \o r = r
        BY <2>1, ConcatEmptySeq
      <3> HIDE DEF q
      <3>2. Upto(0, q, r)
        BY <3>1
      <3> HIDE DEF Upto
      <3>. QED
        BY <3>2
    <2> HIDE DEF Upto
    <2>. QED
      BY <2>1, <2>2
  <1>4. ASSUME NEW k \in S PROVE k + 1 \in S
    <2>1. k \in Nat /\ k + 1 \in Nat
      OBVIOUS
    <2>2. SUFFICES ASSUME k + 1 <= n PROVE Good(k + 1)
      BY <2>1
    <2>3. k <= n /\ k + 1 \in 1 .. n /\ (k + 1) - 1 = k
      BY <1>2, <2>1, <2>2
    <2>4. f[k] \in Seq(U) /\ \A r \in Seq(U) : \E q : Upto(k, q, r)
      <3> HIDE DEF Upto, n
      <3>. QED
        BY <2>3
    <2>5. f[k + 1] = f[k] \o s[k + 1] /\ s[k + 1] \in Seq(U)
      BY <1>1, <1>2, <2>3 DEF Joined
    <2>6. f[k + 1] \in Seq(U)
      BY <2>4, <2>5, ConcatProperties
    <2>7. ASSUME NEW r \in Seq(U) PROVE \E q : Upto(k + 1, q, r)
      <3> DEFINE v == s[k + 1] \o r
      <3>1. v \in Seq(U)
        BY <2>5, ConcatProperties
      <3>2. PICK p : Upto(k, p, v)
        <4> HIDE DEF Upto, v
        <4>. QED
          BY <2>4, <3>1
      <3> DEFINE q == [i \in 0 .. k + 1 |-> IF i = k + 1 THEN r ELSE p[i]]
      <3>3. \A i \in 0 .. k : q[i] = p[i]
        BY <2>1
      <3>4. q[k + 1] = r
        BY <2>1
      <3>5. f[k] \o v = f[k + 1] \o r
        <4>1. (f[k] \o s[k + 1]) \o r = f[k] \o (s[k + 1] \o r)
          <5> DEFINE a == f[k]
                     b == s[k + 1]
          <5>1. a \in Seq(U) /\ b \in Seq(U)
            BY <2>4, <2>5
          <5> HIDE DEF a, b
          <5>2. (a \o b) \o r = a \o (b \o r)
            BY <5>1, ConcatAssociative
          <5>. QED
            BY <5>2 DEF a, b
        <4>. QED
          BY <2>5, <4>1
      <3> HIDE DEF q, v
      <3>6. \A i \in 0 .. k + 1 : q[i] \in Seq(U)
        <4>1. \A i \in 0 .. k + 1 : i = k + 1 \/ i \in 0 .. k
          BY <2>1
        <4>. QED
          BY <3>2, <3>3, <3>4, <4>1
      <3>7. q[0] = f[k + 1] \o r
        <4>1. 0 \in 0 .. k
          BY <2>1
        <4>2. q[0] = p[0] /\ p[0] = f[k] \o v
          BY <3>2, <3>3, <4>1
        <4>. QED
          BY <3>5, <4>2
      <3>8. ASSUME NEW i \in 1 .. k + 1 PROVE q[i - 1] = s[i] \o q[i]
        <4>1. CASE i = k + 1
          <5>1. i - 1 = k /\ q[k] = v
            BY <2>1, <3>2, <3>3, <4>1
          <5>. QED
            BY <3>4, <4>1, <5>1 DEF v
        <4>2. CASE i # k + 1
          <5>1. i \in 1 .. k /\ i \in 0 .. k /\ i - 1 \in 0 .. k
            BY <2>1, <4>2
          <5>. QED
            BY <3>2, <3>3, <5>1
        <4>. QED
          BY <4>1, <4>2
      <3>9. Upto(k + 1, q, r)
        BY <3>4, <3>6, <3>7, <3>8
      <3> HIDE DEF Upto
      <3>. QED
        BY <3>9
    <2> HIDE DEF Upto
    <2>. QED
      BY <2>6, <2>7
  <1>5. S \in SUBSET Nat
    OBVIOUS
  <1>6. Good(n)
    <2>1. \A k \in Nat : k \in S
      <3> HIDE DEF S
      <3>. QED
        BY <1>3, <1>4, <1>5, FromZero
    <2> HIDE DEF Good
    <2>. QED
      BY <1>2, <2>1
  <1>7. f[n] \in Seq(U) /\ \E q : Upto(n, q, rest)
    <2> HIDE DEF Upto
    <2>. QED
      BY <1>2, <1>6
  <1>8. PICK q : Upto(n, q, rest)
    BY <1>7
  <1>9. Chain(q, s, U, FlattenSeq(s) \o rest, rest)
    BY <1>1, <1>8 DEF Chain, Joined
  <1>. QED
    BY <1>1, <1>7, <1>9 DEF Joined

-----------------------------------------------------------------------------
(***************************************************************************)
(* serialize_data does what it says.                                       *)
(***************************************************************************)
\* What is written for a Data is written of Data less deep: the types of plain
\* values are singletons, and sizes are plain values.
Depth == [x \in Data |-> IF x.kind \in Singletons THEN 0
                         ELSE IF x.kind \in {"bool", "uint64_t"} THEN 1
                         ELSE 2 * HeightOf[x]]
Shallower(x) == {e \in Data : Depth[e] < Depth[x]}

\* A depth is a number.
LEMMA DepthType ==
    Depth \in [Data -> Nat]
  <1>1. \A x \in Data : HeightOf[x] \in Nat
    BY PartsAreLower
  <1>2. \A x \in Data : (IF x.kind \in Singletons THEN 0
                         ELSE IF x.kind \in {"bool", "uint64_t"} THEN 1
                         ELSE 2 * HeightOf[x]) \in Nat
    BY <1>1
  <1>. QED
    BY <1>2 DEF Depth

\* Kinds are different words.
LEMMA PlainKinds ==
    /\ {"bool", "uint64_t"} \cap Singletons = {}
    /\ {"bool", "uint64_t"} \subseteq Kinds
  BY DEF Singletons, Kinds

\* What is shallower than a Data that has parts to be written.
LEMMA WhatIsShallower ==
    ASSUME NEW x \in Data, x.kind \notin Singletons, x.kind \notin {"bool", "uint64_t"}
    PROVE  /\ \A kind \in Singletons : Atom(kind) \in Shallower(x)
           /\ \A n \in Int : uint64(n) \in Shallower(x)
           /\ x.args \in Seq(Shallower(x))
           /\ Content(x) \in Seq(Shallower(x))
           /\ Constraint(x) \in Shallower(x)
  <1>1. Depth[x] = 2 * HeightOf[x] /\ HeightOf[x] \in Nat /\ HeightOf[x] >= 1
    <2>1. HeightOf[x] \in 1 .. MaxHeight /\ HeightOf[x] \in Nat
      BY PartsAreLower
    <2>. QED
      BY <2>1 DEF Depth
  <1>2. ASSUME NEW kind \in Singletons PROVE Atom(kind) \in Shallower(x)
    <2>1. Atom(kind) \in Data /\ Atom(kind).kind = kind
      BY TypeKinds, NamedAtoms DEF AtomsHaveNames, Atom, Node
    <2>2. Depth[Atom(kind)] = 0
      BY <2>1 DEF Depth
    <2>. QED
      BY <1>1, <2>1, <2>2 DEF Shallower
  <1>3. ASSUME NEW n \in Int PROVE uint64(n) \in Shallower(x)
    <2>1. uint64(n) \in Data /\ uint64(n).kind = "uint64_t"
      <3>1. "uint64_t" \in DOMAIN NameAddress /\ MaxHeight >= 1
        BY PlainKinds, KindsHaveNames, InputsAreLow, HeightIsBounded
      <3>. QED
        BY <3>1, AtomsAreData DEF uint64, Node
    <2>2. Depth[uint64(n)] = 1
      BY <2>1, PlainKinds DEF Depth
    <2>. QED
      BY <1>1, <2>1, <2>2 DEF Shallower
  <1>4. x.args \in Seq(Shallower(x))
    <2>1. x.args \in Seq(Data) /\ \A i \in DOMAIN x.args : x.args[i] \in Data /\ HeightOf[x.args[i]] < HeightOf[x]
      BY PartsAreLower
    <2>2. DOMAIN x.args = 1 .. Len(x.args) /\ Len(x.args) \in Nat
      BY <2>1, LenProperties
    <2>3. ASSUME NEW i \in 1 .. Len(x.args) PROVE x.args[i] \in Shallower(x)
      <3>1. x.args[i] \in Data /\ HeightOf[x.args[i]] < HeightOf[x] /\ HeightOf[x.args[i]] \in Nat
            /\ HeightOf[x.args[i]] >= 1
        <4>1. x.args[i] \in Data /\ HeightOf[x.args[i]] < HeightOf[x]
          BY <2>1, <2>2
        <4>2. HeightOf[x.args[i]] \in 1 .. MaxHeight /\ HeightOf[x.args[i]] \in Nat
          BY <4>1, PartsAreLower
        <4>. QED
          BY <4>1, <4>2
      <3>2. Depth[x.args[i]] <= 2 * HeightOf[x.args[i]]
        BY <3>1 DEF Depth
      <3>3. Depth[x.args[i]] \in Nat
        BY <3>1, DepthType
      <3>. QED
        BY <1>1, <3>1, <3>2, <3>3 DEF Shallower
    <2>4. x.args \in [1 .. Len(x.args) -> Shallower(x)]
      BY <2>1, <2>2, <2>3
    <2>. QED
      BY <2>2, <2>4
  <1>5. Content(x) \in Seq(Shallower(x))
    BY <1>4, ContentOf
  <1>6. Constraint(x) \in Shallower(x)
    <2>1. CASE 1 \in DOMAIN x.args
      BY <1>4, <2>1 DEF Constraint, Part
    <2>2. CASE 1 \notin DOMAIN x.args
      BY <1>2, <2>2, TypeKinds DEF Constraint, Part, Term
    <2>. QED
      BY <2>1, <2>2
  <1>. QED
    BY <1>2, <1>3, <1>4, <1>5, <1>6

\* The type of a plain value, and of a Data with parts.
LEMMA TypesWritten ==
    ASSUME NEW x \in Data, x.kind \notin Singletons
    PROVE  /\ x.kind \in DOMAIN TypeOfKind => AbstractType(x) = Atom(TypeOfKind[x.kind])
           /\ x.kind \in {"ArrayTerm_c", "OrderedMapTerm_c"} => AbstractType(x) = Constraint(x)
           /\ x.kind \notin DOMAIN TypeOfKind \cup
                {"ArrayTerm_c", "OrderedMapTerm_c", "TupleTerm_c", "FormalTypeOf_Term_c"}
              => AbstractType(x) = Term
  <1>1. AbstractType(x) = TypeOf(abstract_type_of_data, x)
    BY AbstractDef
  <1>2. x.kind \notin DOMAIN AbstractTypeOfSingleton
    BY DEF AbstractTypeOfSingleton, Singletons
  <1>3. ASSUME x.kind \in DOMAIN TypeOfKind PROVE AbstractType(x) = Atom(TypeOfKind[x.kind])
    <2>1. x.kind \notin {"ArrayTerm_c", "OrderedMapTerm_c", "TupleTerm_c", "FormalTypeOf_Term_c"}
      BY <1>3 DEF TypeOfKind
    <2>. QED
      BY <1>1, <1>2, <1>3, <2>1 DEF TypeOf
  <1>4. ASSUME x.kind \in {"ArrayTerm_c", "OrderedMapTerm_c"} PROVE AbstractType(x) = Constraint(x)
    <2>1. x.kind \notin DOMAIN TypeOfKind
      BY <1>4 DEF TypeOfKind
    <2>. QED
      BY <1>1, <1>2, <1>4, <2>1 DEF TypeOf
  <1>5. ASSUME x.kind \notin DOMAIN TypeOfKind \cup
                  {"ArrayTerm_c", "OrderedMapTerm_c", "TupleTerm_c", "FormalTypeOf_Term_c"}
        PROVE AbstractType(x) = Term
    BY <1>1, <1>2, <1>5 DEF TypeOf
  <1>. QED
    BY <1>3, <1>4, <1>5

\* The kinds that serialize writes a heading and fields for.
HasFields(x) == x.kind \notin Unserializable \cup Singletons \cup {"bool", "uint64_t", "pair"}

\* What is written in front of the fields is less deep,
LEMMA HeadingIsShallower ==
    ASSUME NEW x \in Data, HasFields(x)
    PROVE  Heading(x) \in Shallower(x)
  <1>1. x.kind \notin Singletons /\ x.kind \notin {"bool", "uint64_t"}
    BY DEF HasFields
  <1>2. CASE x.kind \in {"UnionTerm_c", "TupleTerm_c"}
    <2>1. {"UnionType_c", "TupleType_c"} \subseteq Singletons
      BY DEF Singletons
    <2>2. Heading(x) \in {Atom("UnionType_c"), Atom("TupleType_c")}
      BY <1>2 DEF Heading
    <2>. QED
      BY <1>1, <2>1, <2>2, WhatIsShallower
  <1>3. CASE x.kind \notin {"UnionTerm_c", "TupleTerm_c"}
    <2>1. Heading(x) = AbstractType(x)
      BY <1>3 DEF Heading
    <2>2. x.kind # "FormalTypeOf_Term_c"
      BY DEF HasFields, Unserializable
    <2>3. CASE x.kind \in DOMAIN TypeOfKind
      BY <1>1, <2>1, <2>3, TypesWritten, TypeKinds, WhatIsShallower
    <2>4. CASE x.kind \in {"ArrayTerm_c", "OrderedMapTerm_c"}
      BY <1>1, <2>1, <2>4, TypesWritten, WhatIsShallower
    <2>5. CASE x.kind \notin DOMAIN TypeOfKind \cup {"ArrayTerm_c", "OrderedMapTerm_c"}
      <3>1. AbstractType(x) = Term
        BY <1>1, <1>3, <2>2, <2>5, TypesWritten
      <3>. QED
        BY <1>1, <2>1, <3>1, TypeKinds, WhatIsShallower DEF Term
    <2>. QED
      BY <2>3, <2>4, <2>5
  <1>. QED
    BY <1>2, <1>3

\* and the fields are.
LEMMA FieldsAreShallower ==
    ASSUME NEW x \in Data, HasFields(x)
    PROVE  Fields(x) \in Seq(Shallower(x))
  <1> DEFINE U == Shallower(x)
  <1>1. x.kind \notin Singletons /\ x.kind \notin {"bool", "uint64_t"}
    BY DEF HasFields
  <1>2. /\ \A n \in Int : <<uint64(n)>> \in Seq(U)
        /\ x.args \in Seq(U) /\ Content(x) \in Seq(U) /\ <<>> \in Seq(U)
    BY <1>1, WhatIsShallower
  <1>3. x.num \in Int /\ Size(x) \in Int /\ Len(x.args) \in Int
    <2>1. x.num \in Int /\ x.args \in Seq(Data)
      BY PartsAreLower
    <2>2. Len(x.args) \in Nat
      BY <2>1, LenProperties
    <2>. QED
      BY <2>1, <2>2 DEF Size
  <1> HIDE DEF U
  <1>4. \A s, t \in Seq(U) : s \o t \in Seq(U)
    BY ConcatProperties
  <1>5. /\ x.args \o <<uint64(x.num)>> \in Seq(U)
        /\ <<uint64(Size(x))>> \o Content(x) \in Seq(U)
        /\ <<uint64(Len(x.args))>> \o x.args \in Seq(U)
    BY <1>2, <1>3, <1>4
  <1>6. Fields(x) \in {x.args \o <<uint64(x.num)>>, x.args, Content(x), <<uint64(Size(x))>> \o Content(x),
                       <<uint64(Len(x.args))>> \o x.args, <<>>}
    BY DEF Fields
  <1>. QED
    BY <1>2, <1>5, <1>6 DEF U

\* What serialize_data is called with for a Data.
Needs(x) ==
    CASE x.kind \in Unserializable \cup Singletons -> {}
      [] x.kind \in {"bool", "uint64_t"} -> {AbstractType(x)}
      [] x.kind = "pair" -> {x.args[i] : i \in DOMAIN x.args}
      [] OTHER -> {Heading(x)} \cup {Fields(x)[i] : i \in DOMAIN Fields(x)}

\* By the kind of the Data.
LEMMA NeedsAre ==
    ASSUME NEW x
    PROVE  /\ x.kind \in Unserializable \cup Singletons => Needs(x) = {}
           /\ x.kind \in {"bool", "uint64_t"} => Needs(x) = {AbstractType(x)}
           /\ x.kind = "pair" => Needs(x) = {x.args[i] : i \in DOMAIN x.args}
           /\ HasFields(x) => Needs(x) = {Heading(x)} \cup {Fields(x)[i] : i \in DOMAIN Fields(x)}
  <1>1. ("bool" \notin Unserializable \cup Singletons) /\ ("uint64_t" \notin Unserializable \cup Singletons)
        /\ ("pair" \notin Unserializable \cup Singletons)
    BY DEF Singletons, Unserializable
  <1>. QED
    BY <1>1 DEF Needs, HasFields

\* The type of a plain value is a singleton.
LEMMA PlainTypes ==
    ASSUME NEW x \in Data, x.kind \in {"bool", "uint64_t"}
    PROVE  AbstractType(x) = Atom(IF x.kind = "bool" THEN "Bool_c" ELSE "Uint64_c")
  <1>1. x.kind \in DOMAIN TypeOfKind /\ x.kind \notin Singletons
    BY PlainKinds DEF TypeOfKind
  <1>2. TypeOfKind[x.kind] = IF x.kind = "bool" THEN "Bool_c" ELSE "Uint64_c"
    BY DEF TypeOfKind
  <1>. QED
    BY <1>1, <1>2, TypesWritten

\* All of that is less deep than the Data.
LEMMA NeedsAreShallower ==
    ASSUME NEW x \in Data
    PROVE  Needs(x) \subseteq Shallower(x)
  <1>1. CASE x.kind \in Unserializable \cup Singletons
    BY <1>1, NeedsAre
  <1>2. CASE x.kind \in {"bool", "uint64_t"}
    <2>1. PICK kind \in Singletons : AbstractType(x) = Atom(kind)
      BY <1>2, PlainTypes DEF Singletons
    <2>2. Atom(kind) \in Data /\ Atom(kind).kind = kind
      BY TypeKinds, NamedAtoms DEF AtomsHaveNames, Atom, Node
    <2>3. Depth[Atom(kind)] = 0 /\ Depth[x] = 1
      BY <1>2, <2>2, PlainKinds DEF Depth
    <2>. QED
      BY <1>2, <2>1, <2>2, <2>3, NeedsAre DEF Shallower
  <1>3. CASE x.kind = "pair"
    <2>1. x.kind \notin Singletons /\ x.kind \notin {"bool", "uint64_t"}
      BY <1>3 DEF Singletons
    <2>2. x.args \in Seq(Shallower(x))
      BY <2>1, WhatIsShallower
    <2>3. \A i \in DOMAIN x.args : x.args[i] \in Shallower(x)
      BY <2>2, LenProperties
    <2>. QED
      BY <1>3, <2>3, NeedsAre
  <1>4. CASE HasFields(x)
    <2>1. Fields(x) \in Seq(Shallower(x)) /\ Heading(x) \in Shallower(x)
      BY <1>4, HeadingIsShallower, FieldsAreShallower
    <2>2. \A i \in DOMAIN Fields(x) : Fields(x)[i] \in Shallower(x)
      BY <2>1, LenProperties
    <2>. QED
      BY <1>4, <2>1, <2>2, NeedsAre
  <1>. QED
    BY <1>1, <1>2, <1>3, <1>4 DEF HasFields

\* What is written for a Data.
WrittenAs(f, x) ==
    /\ x.kind \in Unserializable => Serialized(f, x) = <<Exception>>
    /\ x.kind \in Singletons \ Unserializable => Serialized(f, x) = <<NON_PARAMETRIC_TERM, x>>
    /\ x.kind \in {"bool", "uint64_t"} =>
            Serialized(f, x) = (<<PARAMETRIC_TERM>> \o f[AbstractType(x)]) \o <<Bytes(x.num)>>
    /\ x.kind = "pair" => Serialized(f, x) = SerializedAll(f, x.args)
    /\ HasFields(x) =>
            Serialized(f, x) = (<<PARAMETRIC_TERM>> \o f[Heading(x)]) \o SerializedAll(f, Fields(x))

\* The overload of serialize that is found writes it.
LEMMA WrittenByKind ==
    ASSUME NEW f, NEW x
    PROVE  WrittenAs(f, x)
  <1>1. /\ "bool" \notin Unserializable /\ "uint64_t" \notin Unserializable /\ "pair" \notin Unserializable
        /\ "bool" \notin Singletons /\ "uint64_t" \notin Singletons /\ "pair" \notin Singletons
    BY DEF Singletons, Unserializable
  <1>. DEFINE S == Serialized(f, x)
  <1>2. x.kind \in Unserializable => S = <<Exception>>
    BY <1>1 DEF Serialized
  <1>3. x.kind \in Singletons \ Unserializable => S = <<NON_PARAMETRIC_TERM, x>>
    BY <1>1 DEF Serialized
  <1>4. x.kind \in {"bool", "uint64_t"} => S = (<<PARAMETRIC_TERM>> \o f[AbstractType(x)]) \o <<Bytes(x.num)>>
    BY <1>1 DEF Serialized
  <1>5. x.kind = "pair" => S = SerializedAll(f, x.args)
    BY <1>1 DEF Serialized
  <1>6. HasFields(x) => S = (<<PARAMETRIC_TERM>> \o f[Heading(x)]) \o SerializedAll(f, Fields(x))
    BY DEF Serialized, HasFields
  <1>. QED
    BY <1>2, <1>3, <1>4, <1>5, <1>6 DEF WrittenAs

-----------------------------------------------------------------------------
\* Terms written one after the other.
LEMMA AllAreWords ==
    ASSUME NEW U, NEW terms \in Seq(Data), NEW f, \A i \in DOMAIN terms : f[terms[i]] \in Seq(U)
    PROVE  [i \in DOMAIN terms |-> f[terms[i]]] \in Seq(Seq(U)) /\ SerializedAll(f, terms) \in Seq(U)
  <1> DEFINE s == [i \in DOMAIN terms |-> f[terms[i]]]
  <1>1. s \in Seq(Seq(U))
    <2>1. Len(terms) \in Nat /\ DOMAIN terms = 1 .. Len(terms)
      BY LenProperties
    <2>2. s \in [1 .. Len(terms) -> Seq(U)]
      BY <2>1
    <2> HIDE DEF s
    <2>. QED
      BY <2>1, <2>2
  <1> HIDE DEF s
  <1>2. <<>> \in Seq(U)
    BY EmptySeq
  <1>3. FlattenSeq(s) \in Seq(U)
    BY <1>1, <1>2, FlattenChains
  <1>. QED
    BY <1>1, <1>3 DEF s, SerializedAll

\* What is written for a Data is made of words, if what is written for its needs is.
LEMMA SerializedIsWords ==
    ASSUME NEW x \in Data, NEW f, NEW W, \A e \in Needs(x) : f[e] \in Seq(W),
           PARAMETRIC_TERM \in W, NON_PARAMETRIC_TERM \in W,
           x.kind \in Unserializable => Exception \in W,
           x.kind \in Singletons \ Unserializable => x \in W,
           x.kind \in {"bool", "uint64_t"} => Bytes(x.num) \in W
    PROVE  Serialized(f, x) \in Seq(W)
  <1>1. \A s, t \in Seq(W) : s \o t \in Seq(W)
    BY ConcatProperties
  <1>2. WrittenAs(f, x)
    BY WrittenByKind
  <1>3. CASE x.kind \in Unserializable
    <2>1. <<Exception>> \in Seq(W)
      BY <1>3
    <2>. QED
      BY <1>2, <1>3, <2>1 DEF WrittenAs
  <1>4. CASE x.kind \in Singletons \ Unserializable
    <2>1. <<NON_PARAMETRIC_TERM, x>> \in Seq(W)
      BY <1>4
    <2>. QED
      BY <1>2, <1>4, <2>1 DEF WrittenAs
  <1>5. CASE x.kind \in {"bool", "uint64_t"}
    <2>1. f[AbstractType(x)] \in Seq(W) /\ <<PARAMETRIC_TERM>> \in Seq(W) /\ <<Bytes(x.num)>> \in Seq(W)
      BY <1>5, NeedsAre
    <2>. QED
      BY <1>1, <1>2, <1>5, <2>1 DEF WrittenAs
  <1>6. CASE x.kind = "pair"
    <2>1. x.args \in Seq(Data)
      BY PartsAreLower
    <2>2. \A i \in DOMAIN x.args : f[x.args[i]] \in Seq(W)
      BY <1>6, NeedsAre
    <2>. QED
      BY <1>2, <1>6, <2>1, <2>2, AllAreWords DEF WrittenAs
  <1>7. CASE HasFields(x)
    <2>1. Fields(x) \in Seq(Data)
      <3>1. Fields(x) \in Seq(Shallower(x)) /\ Shallower(x) \subseteq Data
        BY <1>7, FieldsAreShallower DEF Shallower
      <3>. QED
        BY <3>1, SeqMonotonic
    <2>2. f[Heading(x)] \in Seq(W) /\ <<PARAMETRIC_TERM>> \in Seq(W)
          /\ \A i \in DOMAIN Fields(x) : f[Fields(x)[i]] \in Seq(W)
      BY <1>7, NeedsAre
    <2>3. SerializedAll(f, Fields(x)) \in Seq(W)
      BY <2>1, <2>2, AllAreWords
    <2>. QED
      BY <1>1, <1>2, <1>7, <2>2, <2>3 DEF WrittenAs
  <1>. QED
    BY <1>3, <1>4, <1>5, <1>6, <1>7 DEF HasFields

\* And it is the same if that is.
LEMMA SerializedAgrees ==
    ASSUME NEW x \in Data, NEW f, NEW g, \A e \in Needs(x) : f[e] = g[e]
    PROVE  Serialized(f, x) = Serialized(g, x)
  <1>1. WrittenAs(f, x) /\ WrittenAs(g, x)
    BY WrittenByKind
  <1>2. ASSUME NEW terms, \A i \in DOMAIN terms : terms[i] \in Needs(x)
        PROVE  SerializedAll(f, terms) = SerializedAll(g, terms)
    <2>1. [i \in DOMAIN terms |-> f[terms[i]]] = [i \in DOMAIN terms |-> g[terms[i]]]
      BY <1>2
    <2>. QED
      BY <2>1 DEF SerializedAll
  <1>3. CASE x.kind \in Unserializable
    BY <1>1, <1>3 DEF WrittenAs
  <1>4. CASE x.kind \in Singletons \ Unserializable
    BY <1>1, <1>4 DEF WrittenAs
  <1>5. CASE x.kind \in {"bool", "uint64_t"}
    <2>1. f[AbstractType(x)] = g[AbstractType(x)]
      BY <1>5, NeedsAre
    <2>. QED
      BY <1>1, <1>5, <2>1 DEF WrittenAs
  <1>6. CASE x.kind = "pair"
    <2>1. SerializedAll(f, x.args) = SerializedAll(g, x.args)
      BY <1>2, <1>6, NeedsAre
    <2>. QED
      BY <1>1, <1>6, <2>1 DEF WrittenAs
  <1>7. CASE HasFields(x)
    <2>1. SerializedAll(f, Fields(x)) = SerializedAll(g, Fields(x)) /\ f[Heading(x)] = g[Heading(x)]
      BY <1>2, <1>7, NeedsAre
    <2>. QED
      BY <1>1, <1>7, <2>1 DEF WrittenAs
  <1>. QED
    BY <1>3, <1>4, <1>5, <1>6, <1>7 DEF HasFields

\* Among Data there is a shallowest.
LEMMA Shallowest ==
    ASSUME NEW B \in SUBSET Data, B # {}
    PROVE  \E x \in B : \A e \in Shallower(x) : e \notin B
  <1> DEFINE S == {Depth[x] : x \in B}
  <1>1. S \in SUBSET Nat /\ S # {}
    BY DepthType
  <1>2. PICK n \in S : \A m \in S : n <= m
    <2> HIDE DEF S
    <2>. QED
      BY <1>1, LeastNumber
  <1>3. PICK x \in B : Depth[x] = n
    BY <1>2
  <1>4. ASSUME NEW e \in Shallower(x), e \in B PROVE FALSE
    <2>1. Depth[e] \in S /\ Depth[e] < n /\ Depth[e] \in Nat /\ n \in Nat
      BY <1>3, <1>4, DepthType DEF Shallower
    <2>. QED
      BY <1>2, <2>1
  <1>. QED
    BY <1>4

\* serialize_data is a solution of its equation.
LEMMA SerializeDef ==
    \A x \in Data : Serialize(x) = Serialized(serialize_data, x)
  <1> DEFINE W == Data \cup {Exception, PARAMETRIC_TERM, NON_PARAMETRIC_TERM} \cup {Bytes(n) : n \in Int}
             R == [x \in Data |-> Seq(W)]
             G == [f \in From(Data, R) |-> [x \in Data |-> Serialized(f, x)]]
  <1>1. PARAMETRIC_TERM \in W /\ NON_PARAMETRIC_TERM \in W /\ Exception \in W /\ \A n \in Int : Bytes(n) \in W
    OBVIOUS
  <1>2. \A x \in Data : x \in W /\ x.num \in Int
    BY PartsAreLower
  <1> HIDE DEF W
  <1>3. ASSUME NEW f \in From(Data, R) PROVE G[f] \in From(Data, R)
    <2>1. \A x \in Data : f[x] \in Seq(W)
      BY FromFacts
    <2>2. ASSUME NEW x \in Data PROVE Serialized(f, x) \in Seq(W)
      <3>1. \A e \in Needs(x) : f[e] \in Seq(W)
        BY <2>1, NeedsAreShallower DEF Shallower
      <3>. QED
        BY <1>1, <1>2, <3>1, SerializedIsWords
    <2>3. G[f] = [x \in Data |-> G[f][x]] /\ \A x \in Data : G[f][x] \in R[x]
      BY <2>2
    <2> HIDE DEF G, R
    <2>. QED
      BY <2>3, IsFrom
  <1>4. G \in [From(Data, R) -> From(Data, R)]
    BY <1>3
  <1>5. ASSUME NEW f \in From(Data, R), NEW g \in From(Data, R), NEW x \in Data,
               \A e \in Data : Depth[e] < Depth[x] => f[e] = g[e]
        PROVE  G[f][x] = G[g][x]
    <2>1. \A e \in Needs(x) : f[e] = g[e]
      BY <1>5, NeedsAreShallower DEF Shallower
    <2>2. Serialized(f, x) = Serialized(g, x)
      BY <2>1, SerializedAgrees
    <2>. QED
      BY <2>2
  <1>6. Local(G, Data, R, Depth)
    <2> HIDE DEF G, R
    <2>. QED
      BY <1>5 DEF Local
  <1>7. \A d \in Data : R[d] # {}
    <2>1. <<>> \in Seq(W)
      BY EmptySeq
    <2>. QED
      BY <2>1
  <1>8. HasSolution(G, Data, R)
    <2> HIDE DEF G, R
    <2>. QED
      BY <1>4, <1>6, <1>7, DepthType, Recursion
  <1>9. PICK f \in From(Data, R) : f = G[f]
    <2> HIDE DEF G, R
    <2>. QED
      BY <1>8 DEF HasSolution
  <1>10. \E s : s = [x \in Data |-> Serialized(s, x)]
    BY <1>9
  <1>11. serialize_data = [x \in Data |-> Serialized(serialize_data, x)]
    BY <1>10 DEF serialize_data
  <1> DEFINE a == serialize_data
  <1>12. a = [x \in Data |-> Serialized(a, x)]
    BY <1>11
  <1> HIDE DEF a
  <1>13. \A x \in Data : a[x] = Serialized(a, x)
    BY <1>12
  <1>. QED
    BY <1>13 DEF Serialize, a

-----------------------------------------------------------------------------
(***************************************************************************)
(* What is written of Data as their classes make them.                     *)
(***************************************************************************)
\* The Data with nothing in them but what is in a set.
Throughout(Q) == {y \in Data : Subterms(y) \subseteq Q}

\* It has what is written besides the parts of a Data.
HasPlain(Q) == /\ \A kind \in Singletons \ Unserializable : Atom(kind) \in Q
               /\ \A n \in Nat : uint64(n) \in Q

\* A Data of the set, and its parts.
LEMMA ThroughoutParts ==
    ASSUME NEW Q, NEW x \in Throughout(Q)
    PROVE  x \in Q /\ x \in Data /\ x.args \in Seq(Throughout(Q))
           /\ \A i \in DOMAIN x.args : x.args[i] \in Throughout(Q)
  <1>1. x \in Data /\ Subterms(x) \subseteq Q
    BY DEF Throughout
  <1>2. x \in Subterms(x) /\ \A i \in DOMAIN x.args : Subterms(x.args[i]) \subseteq Subterms(x)
    BY <1>1, OwnSubterms
  <1>3. x.args \in Seq(Data) /\ \A i \in DOMAIN x.args : x.args[i] \in Data
    BY <1>1, PartsAreLower
  <1>4. \A i \in DOMAIN x.args : x.args[i] \in Throughout(Q)
    BY <1>1, <1>2, <1>3 DEF Throughout
  <1>5. x.args \in Seq(Throughout(Q))
    <2>1. Len(x.args) \in Nat /\ DOMAIN x.args = 1 .. Len(x.args) /\ x.args \in [1 .. Len(x.args) -> Data]
      BY <1>3, LenProperties
    <2>2. x.args \in [1 .. Len(x.args) -> Throughout(Q)]
      BY <1>4, <2>1
    <2>. QED
      BY <2>1, <2>2
  <1>. QED
    BY <1>1, <1>2, <1>4, <1>5

\* And what has no parts.
LEMMA WithoutParts ==
    ASSUME NEW Q, NEW y \in Data, y \in Q, y.args = <<>>
    PROVE  y \in Throughout(Q)
  <1>1. Subterms(y) = {y} \cup UNION {Subterms(y.args[i]) : i \in DOMAIN y.args}
    BY SubtermsDef
  <1>2. DOMAIN y.args = {}
    OBVIOUS
  <1>3. Subterms(y) = {y}
    BY <1>1, <1>2
  <1>. QED
    BY <1>3 DEF Throughout

\* Singletons and sizes have none.
LEMMA PlainThroughout ==
    ASSUME NEW Q, HasPlain(Q)
    PROVE  /\ \A kind \in Singletons \ Unserializable : Atom(kind) \in Throughout(Q)
           /\ \A n \in Nat : uint64(n) \in Throughout(Q)
  <1>1. ASSUME NEW kind \in Singletons \ Unserializable PROVE Atom(kind) \in Throughout(Q)
    <2>1. Atom(kind) \in Data /\ Atom(kind) \in Q
      BY TypeKinds, NamedAtoms DEF AtomsHaveNames, HasPlain
    <2>2. Atom(kind).args = <<>>
      BY DEF Atom, Node
    <2>. QED
      BY <2>1, <2>2, WithoutParts
  <1>2. ASSUME NEW n \in Nat PROVE uint64(n) \in Throughout(Q)
    <2>1. uint64(n) \in Data /\ uint64(n) \in Q
      <3>1. "uint64_t" \in DOMAIN NameAddress /\ MaxHeight >= 1 /\ n \in Int
        BY PlainKinds, KindsHaveNames, InputsAreLow, HeightIsBounded
      <3>. QED
        BY <3>1, AtomsAreData DEF uint64, HasPlain
    <2>2. uint64(n).args = <<>>
      BY DEF uint64, Node
    <2>. QED
      BY <2>1, <2>2, WithoutParts
  <1>. QED
    BY <1>1, <1>2

\* A container has its constraint in front.
LEMMA FormedContainers ==
    ASSUME NEW x \in Data, Formed(x), IsContainer(x)
    PROVE  Len(x.args) \in Nat /\ Len(x.args) >= 1 /\ 1 \in DOMAIN x.args /\ Size(x) \in Nat
           /\ Constraint(x) = x.args[1]
  <1>1. Constraint(x).kind \in ArrayTypes \cup OrderedMapTypes
    BY DEF Formed, IsContainer
  <1>2. Term.kind \notin ArrayTypes \cup OrderedMapTypes
    BY DEF Term, Atom, Node, ArrayTypes, OrderedMapTypes
  <1>3. 1 \in DOMAIN x.args /\ Constraint(x) = x.args[1]
    BY <1>1, <1>2 DEF Constraint, Part
  <1>4. Len(x.args) \in Nat /\ DOMAIN x.args = 1 .. Len(x.args)
    <2>1. x.args \in Seq(Data)
      BY PartsAreLower
    <2>. QED
      BY <2>1, LenProperties
  <1>. QED
    BY <1>3, <1>4 DEF Size

\* What is written in front of the fields is made of the same Data,
LEMMA HeadingIsThroughout ==
    ASSUME NEW Q, HasPlain(Q), NEW x \in Throughout(Q), HasFields(x)
    PROVE  Heading(x) \in Throughout(Q)
  <1>1. x.kind \notin Singletons /\ x.kind \notin Unserializable /\ x \in Data
    BY ThroughoutParts DEF HasFields
  <1>2. \A kind \in Singletons \ Unserializable : Atom(kind) \in Throughout(Q)
    BY PlainThroughout
  <1>3. {"UnionType_c", "TupleType_c", "Term_c"} \subseteq Singletons \ Unserializable
    BY DEF Singletons, Unserializable
  <1>4. CASE x.kind \in {"UnionTerm_c", "TupleTerm_c"}
    <2>1. Heading(x) \in {Atom("UnionType_c"), Atom("TupleType_c")}
      BY <1>4 DEF Heading
    <2>. QED
      BY <1>2, <1>3, <2>1
  <1>5. CASE x.kind \notin {"UnionTerm_c", "TupleTerm_c"}
    <2>1. Heading(x) = AbstractType(x)
      BY <1>5 DEF Heading
    <2>2. x.kind # "FormalTypeOf_Term_c"
      BY <1>1 DEF Unserializable
    <2>3. CASE x.kind \in DOMAIN TypeOfKind
      <3>1. TypeOfKind[x.kind] \in Singletons \ Unserializable
        BY <1>1, <2>3 DEF TypeOfKind, Singletons, Unserializable
      <3>. QED
        BY <1>1, <1>2, <2>1, <2>3, <3>1, TypesWritten
    <2>4. CASE x.kind \in {"ArrayTerm_c", "OrderedMapTerm_c"}
      <3>1. Constraint(x) \in Throughout(Q)
        <4>1. CASE 1 \in DOMAIN x.args
          BY <4>1, ThroughoutParts DEF Constraint, Part
        <4>2. CASE 1 \notin DOMAIN x.args
          BY <1>2, <1>3, <4>2 DEF Constraint, Part, Term
        <4>. QED
          BY <4>1, <4>2
      <3>. QED
        BY <1>1, <2>1, <2>4, <3>1, TypesWritten
    <2>5. CASE x.kind \notin DOMAIN TypeOfKind \cup {"ArrayTerm_c", "OrderedMapTerm_c"}
      <3>1. AbstractType(x) = Term
        BY <1>1, <1>5, <2>2, <2>5, TypesWritten
      <3>. QED
        BY <1>2, <1>3, <2>1, <3>1 DEF Term
    <2>. QED
      BY <2>3, <2>4, <2>5
  <1>. QED
    BY <1>4, <1>5

\* and the fields are.
LEMMA FieldsAreThroughout ==
    ASSUME NEW Q, HasPlain(Q), NEW x \in Throughout(Q), Formed(x), HasFields(x)
    PROVE  Fields(x) \in Seq(Throughout(Q))
  <1> DEFINE U == Throughout(Q)
  <1>1. x \in Data /\ x.args \in Seq(U)
    BY ThroughoutParts
  <1>2. \A n \in Nat : <<uint64(n)>> \in Seq(U)
    BY PlainThroughout
  <1>3. x.num \in Nat /\ Len(x.args) \in Nat
    BY <1>1, LenProperties DEF Formed
  <1> HIDE DEF U
  <1>4. Content(x) \in Seq(U) /\ <<>> \in Seq(U)
    BY <1>1, ContentOf, EmptySeq
  <1>5. \A s, t \in Seq(U) : s \o t \in Seq(U)
    BY ConcatProperties
  <1>6. CASE x.kind \in {"ArrayTerm_c", "OrderedMapTerm_c"}
    <2>1. Size(x) \in Nat
      BY <1>1, <1>6, FormedContainers DEF IsContainer
    <2>2. <<uint64(Size(x))>> \o Content(x) \in Seq(U)
      BY <1>2, <1>4, <1>5, <2>1
    <2>3. Fields(x) \in {Content(x), <<uint64(Size(x))>> \o Content(x)}
      BY <1>6 DEF Fields
    <2>. QED
      BY <1>4, <2>2, <2>3 DEF U
  <1>7. CASE x.kind \notin {"ArrayTerm_c", "OrderedMapTerm_c"}
    <2>1. /\ x.args \o <<uint64(x.num)>> \in Seq(U)
          /\ <<uint64(Len(x.args))>> \o x.args \in Seq(U)
      BY <1>1, <1>2, <1>3, <1>5
    <2>2. Fields(x) \in {x.args \o <<uint64(x.num)>>, x.args, <<uint64(Len(x.args))>> \o x.args, <<>>}
      BY <1>7 DEF Fields
    <2>. QED
      BY <1>1, <1>4, <2>1, <2>2 DEF U
  <1>. QED
    BY <1>6, <1>7

\* So is what serialize_data is called with.
LEMMA NeedsAreThroughout ==
    ASSUME NEW Q, HasPlain(Q), NEW x \in Throughout(Q), Formed(x)
    PROVE  Needs(x) \subseteq Throughout(Q)
  <1>1. x \in Data
    BY ThroughoutParts
  <1>2. CASE x.kind \in Unserializable \cup Singletons
    BY <1>2, NeedsAre
  <1>3. CASE x.kind \in {"bool", "uint64_t"}
    <2>1. {"Bool_c", "Uint64_c"} \subseteq Singletons \ Unserializable
      BY DEF Singletons, Unserializable
    <2>2. AbstractType(x) \in {Atom("Bool_c"), Atom("Uint64_c")}
      BY <1>1, <1>3, PlainTypes
    <2>3. AbstractType(x) \in Throughout(Q)
      BY <2>1, <2>2, PlainThroughout
    <2>. QED
      BY <1>3, <2>3, NeedsAre
  <1>4. CASE x.kind = "pair"
    BY <1>4, NeedsAre, ThroughoutParts
  <1>5. CASE HasFields(x)
    <2>1. Fields(x) \in Seq(Throughout(Q)) /\ Heading(x) \in Throughout(Q)
      BY <1>5, HeadingIsThroughout, FieldsAreThroughout
    <2>2. \A i \in DOMAIN Fields(x) : Fields(x)[i] \in Throughout(Q)
      BY <2>1, LenProperties
    <2>. QED
      BY <1>5, <2>1, <2>2, NeedsAre
  <1>. QED
    BY <1>2, <1>3, <1>4, <1>5 DEF HasFields

\* Data as their classes make them, those that can be written, and those that
\* can be read back.
FormedData == {y \in Data : Formed(y)}
WritableData == {y \in FormedData : y.kind \notin Unserializable}
ReadableData == {y \in WritableData : y.kind \notin {"UnionTerm_c", "TupleTerm_c"} /\ Satisfied(y)}

\* Singletons and sizes are among each of them.
LEMMA PlainIsReadable ==
    HasPlain(ReadableData) /\ HasPlain(WritableData) /\ HasPlain(FormedData)
  <1>1. ASSUME NEW kind \in Singletons PROVE Atom(kind) \in FormedData /\ Atom(kind).kind = kind
    <2>1. Atom(kind) \in Data
      BY TypeKinds, NamedAtoms DEF AtomsHaveNames
    <2>2. Atom(kind).kind = kind /\ Atom(kind).num = 0 /\ Atom(kind).args = <<>>
      BY DEF Atom, Node
    <2>3. kind \in Kinds \ {"int64_t"} /\ kind \notin {"ArrayTerm_c", "OrderedMapTerm_c"} /\ kind \notin DOMAIN Parts
      BY TypeKinds DEF Singletons, Parts
    <2>4. Formed(Atom(kind))
      BY <2>2, <2>3 DEF Formed
    <2>. QED
      BY <2>1, <2>2, <2>4 DEF FormedData
  <1>2. ASSUME NEW n \in Nat PROVE uint64(n) \in FormedData /\ uint64(n).kind = "uint64_t"
    <2>1. uint64(n) \in Data
      <3>1. "uint64_t" \in DOMAIN NameAddress /\ MaxHeight >= 1 /\ n \in Int
        BY PlainKinds, KindsHaveNames, InputsAreLow, HeightIsBounded
      <3>. QED
        BY <3>1, AtomsAreData DEF uint64
    <2>2. uint64(n).kind = "uint64_t" /\ uint64(n).num = n /\ uint64(n).args = <<>>
      BY DEF uint64, Node
    <2>3. "uint64_t" \in Kinds \ {"int64_t"} /\ "uint64_t" \notin Singletons /\ Parts["uint64_t"] = 0
      BY PlainKinds DEF Parts
    <2>4. Formed(uint64(n))
      BY <2>2, <2>3 DEF Formed
    <2>. QED
      BY <2>1, <2>2, <2>4 DEF FormedData
  <1>3. \A kind \in Singletons : kind \notin {"UnionTerm_c", "TupleTerm_c", "ArrayTerm_c", "OrderedMapTerm_c"}
    BY DEF Singletons
  <1>4. "uint64_t" \notin Unserializable
    BY DEF Unserializable
  <1>5. ASSUME NEW kind \in Singletons \ Unserializable
        PROVE  Atom(kind) \in ReadableData /\ Atom(kind) \in WritableData /\ Atom(kind) \in FormedData
    BY <1>1, <1>3 DEF ReadableData, WritableData, Satisfied, IsContainer
  <1>6. ASSUME NEW n \in Nat
        PROVE  uint64(n) \in ReadableData /\ uint64(n) \in WritableData /\ uint64(n) \in FormedData
    BY <1>2, <1>4 DEF ReadableData, WritableData, Satisfied, IsContainer
  <1>. QED
    BY <1>5, <1>6 DEF HasPlain

\* What is written is made of items, and of exceptions where there is no overload.
LEMMA ItemsOf ==
    ASSUME NEW Q, HasPlain(Q), Q \subseteq FormedData, NEW W, Item \subseteq W,
           \A y \in Q : y.kind \in Unserializable => Exception \in W
    PROVE  \A y \in Throughout(Q) : Serialize(y) \in Seq(W)
  <1> DEFINE B == {y \in Throughout(Q) : Serialize(y) \notin Seq(W)}
  <1>1. SUFFICES ASSUME B # {} PROVE FALSE
    OBVIOUS
  <1>2. PICK y \in B : \A e \in Shallower(y) : e \notin B
    <2>1. B \in SUBSET Data
      BY DEF Throughout
    <2> HIDE DEF B
    <2>. QED
      BY <1>1, <2>1, Shallowest
  <1>3. y \in Throughout(Q) /\ y \in Data /\ y \in Q /\ Formed(y)
    BY ThroughoutParts DEF FormedData
  <1>4. \A e \in Needs(y) : Serialize(e) \in Seq(W)
    BY <1>2, <1>3, NeedsAreThroughout, NeedsAreShallower
  <1>5. PARAMETRIC_TERM \in W /\ NON_PARAMETRIC_TERM \in W /\ \A n \in Nat : Bytes(n) \in W
    <2>1. PARAMETRIC_TERM \in Item
      BY DEF PARAMETRIC_TERM, Item, Atom, Node
    <2>2. NON_PARAMETRIC_TERM \in Item
      BY DEF NON_PARAMETRIC_TERM, Item, Atom, Node
    <2>3. \A n \in Nat : Bytes(n) \in Item
      BY DEF Bytes, Item, Node
    <2>. QED
      BY <2>1, <2>2, <2>3
  <1>6. y.kind \in Singletons => y \in W
    <2>1. SUFFICES ASSUME y.kind \in Singletons PROVE y \in Item
      OBVIOUS
    <2>2. y = [kind |-> y.kind, num |-> y.num, args |-> y.args]
      <3>1. y \in [kind : DOMAIN NameAddress, num : Int, args : Seq(Data)]
        BY <1>3, PartsAreLower
      <3>. QED
        BY <3>1
    <2>3. y.args = <<>> /\ y.num \in Nat
      BY <1>3, <2>1 DEF Formed
    <2>. QED
      BY <2>1, <2>2, <2>3 DEF Item
  <1>7. y.num \in Nat
    BY <1>3 DEF Formed
  <1>8. Serialized(serialize_data, y) \in Seq(W)
    <2>1. \A e \in Needs(y) : serialize_data[e] \in Seq(W)
      BY <1>4 DEF Serialize
    <2>2. y.kind \in Unserializable => Exception \in W
      BY <1>3
    <2>. QED
      BY <1>3, <1>5, <1>6, <1>7, <2>1, <2>2, SerializedIsWords
  <1>. QED
    BY <1>3, <1>8, SerializeDef

-----------------------------------------------------------------------------
\* The exception is no item.
LEMMA ExceptionIsNoItem ==
    Exception \notin Item
  <1>1. Exception.kind = "exception"
    BY DEF Exception, Atom, Node
  <1>2. "exception" \notin Singletons \cup {"NON_PARAMETRIC_TERM", "PARAMETRIC_TERM", "bytes"}
    BY DEF Singletons
  <1>. QED
    BY <1>1, <1>2 DEF Item

\* What serialize_data leaves in the stream.
LEMMA WrittenItems ==
    ASSUME NEW y \in Throughout(FormedData)
    PROVE  /\ Written(y) \in Seq(Item)
           /\ y \in Throughout(WritableData) => Written(y) = Serialize(y) /\ Serialize(y) \in Seq(Item)
  <1> DEFINE w == Serialize(y)
             thrown == {i \in DOMAIN w : w[i] = Exception}
             n == CHOOSE n \in thrown : \A m \in thrown : n <= m
  <1>1. w \in Seq(Item \cup {Exception})
    <2> DEFINE W == Item \cup {Exception}
    <2>1. Item \subseteq W /\ Exception \in W
      OBVIOUS
    <2> HIDE DEF W
    <2>2. \A z \in Throughout(FormedData) : Serialize(z) \in Seq(W)
      BY <2>1, PlainIsReadable, ItemsOf
    <2>. QED
      BY <2>2 DEF W
  <1>2. Len(w) \in Nat /\ DOMAIN w = 1 .. Len(w) /\ \A i \in 1 .. Len(w) : w[i] \in Item \cup {Exception}
    BY <1>1, LenProperties
  <1>3. Written(y) = IF thrown = {} THEN w ELSE SubSeq(w, 1, n - 1)
    BY DEF Written
  <1>4. CASE thrown = {}
    <2>1. \A i \in 1 .. Len(w) : w[i] \in Item
      BY <1>2, <1>4
    <2>2. w \in Seq(Item)
      <3>1. w \in [1 .. Len(w) -> Item]
        <4>1. w = [i \in 1 .. Len(w) |-> w[i]]
          BY <1>1, LenProperties
        <4> HIDE DEF w
        <4>. QED
          BY <2>1, <4>1
      <3> HIDE DEF w
      <3>. QED
        BY <1>2, <3>1
    <2>. QED
      BY <1>3, <1>4, <2>2
  <1>5. CASE thrown # {}
    <2>1. thrown \in SUBSET Nat
      BY <1>2
    <2>2. \E k \in thrown : \A m \in thrown : k <= m
      <3> HIDE DEF thrown
      <3>. QED
        BY <1>5, <2>1, LeastNumber
    <2>3. n \in thrown /\ \A m \in thrown : n <= m
      <3> HIDE DEF thrown
      <3>. QED
        BY <2>2
    <2>4. n \in 1 .. Len(w) /\ n \in Nat
      BY <1>2, <2>3
    <2>5. Written(y) \in Seq(Item)
      <3>1. ASSUME NEW i \in 1 .. n - 1 PROVE w[i] \in Item
        <4>1. i \in 1 .. Len(w) /\ ~ (n <= i)
          BY <1>2, <2>4
        <4>2. i \notin thrown
          BY <2>3, <4>1
        <4>. QED
          BY <1>2, <4>1, <4>2
      <3>2. n - 1 \in Int /\ 1 \in Int
        BY <2>4
      <3> HIDE DEF n, w, thrown
      <3>3. SubSeq(w, 1, n - 1) \in Seq(Item)
        BY <3>1, <3>2, SubSeqProperties
      <3>. QED
        BY <1>3, <1>5, <3>3
    <2>6. y \notin Throughout(WritableData)
      <3>1. SUFFICES ASSUME y \in Throughout(WritableData) PROVE FALSE
        OBVIOUS
      <3>2. w \in Seq(Item)
        <4>1. HasPlain(WritableData) /\ WritableData \subseteq FormedData
              /\ \A z \in WritableData : z.kind \in Unserializable => Exception \in Item
          BY PlainIsReadable DEF WritableData
        <4>2. \A z \in Throughout(WritableData) : Serialize(z) \in Seq(Item)
          BY <4>1, ItemsOf
        <4>. QED
          BY <3>1, <4>2
      <3>3. w[n] = Exception /\ w[n] \in Item
        BY <2>3, <2>4, <3>2, LenProperties
      <3>. QED
        BY <3>3, ExceptionIsNoItem
    <2>. QED
      BY <2>5, <2>6
  <1>. QED
    BY <1>4, <1>5

-----------------------------------------------------------------------------
(***************************************************************************)
(* What is read of a stream.                                               *)
(***************************************************************************)
\* The first elements of a sequence.
LEMMA FirstElements ==
    ASSUME NEW S, NEW t \in Seq(S), NEW k \in 1 .. Len(t)
    PROVE  Append(SubSeq(t, 1, k - 1), t[k]) = SubSeq(t, 1, k)
  <1>1. Len(t) \in Nat /\ k \in Nat /\ k - 1 \in Nat /\ 1 \in Int /\ \A i \in 1 .. Len(t) : t[i] \in S
    BY LenProperties
  <1> DEFINE a == SubSeq(t, 1, k - 1)
             b == SubSeq(t, 1, k)
  <1>2. a \in Seq(S) /\ Len(a) = k - 1 /\ \A i \in 1 .. k - 1 : a[i] = t[1 + i - 1]
    <2>1. (IF 1 <= k - 1 THEN k - 1 - 1 + 1 ELSE 0) = k - 1 /\ \A i \in 1 .. k - 1 : t[i] \in S
      BY <1>1
    <2>. QED
      BY <1>1, <2>1, SubSeqProperties
  <1>3. b \in Seq(S) /\ Len(b) = k /\ \A i \in 1 .. k : b[i] = t[1 + i - 1]
    <2>1. (IF 1 <= k THEN k - 1 + 1 ELSE 0) = k /\ \A i \in 1 .. k : t[i] \in S
      BY <1>1
    <2>. QED
      BY <1>1, <2>1, SubSeqProperties
  <1> DEFINE c == Append(a, t[k])
  <1>4. c \in Seq(S) /\ Len(c) = k /\ c[k] = t[k] /\ \A i \in 1 .. k - 1 : c[i] = a[i]
    <2> HIDE DEF a
    <2>1. t[k] \in S
      BY <1>1
    <2>2. c \in Seq(S) /\ Len(c) = Len(a) + 1 /\ c[Len(a) + 1] = t[k]
      BY <1>2, <2>1, AppendProperties
    <2>3. \A i \in 1 .. Len(a) : c[i] = a[i]
      BY <1>2, <2>1, AppendProperties
    <2>4. Len(a) + 1 = k /\ Len(a) = k - 1
      BY <1>1, <1>2
    <2> HIDE DEF c
    <2>. QED
      BY <2>2, <2>3, <2>4
  <1>5. ASSUME NEW i \in 1 .. k PROVE c[i] = b[i]
    <2>1. i \in Nat /\ 1 + i - 1 = i
      BY <1>1
    <2>2. CASE i = k
      BY <1>3, <1>4, <2>1, <2>2
    <2>3. CASE i # k
      <3>1. i \in 1 .. k - 1
        BY <1>1, <2>3
      <3>. QED
        BY <1>2, <1>3, <1>4, <2>1, <3>1
    <2>. QED
      BY <2>2, <2>3
  <1> HIDE DEF a, b, c
  <1>6. c = b
    BY <1>3, <1>4, <1>5, SeqEqual
  <1>. QED
    BY <1>6 DEF a, b, c

\* Reading goes from one stream to the next.
ReadsOn(d, t, q) ==
    \A k \in 1 .. Len(t) : d[q[k - 1]] = Reading(t[k], q[k]) /\ t[k] # Exception

\* What is read up to each term.
IsReadOf(read, d, n, in) ==
    read = [k \in 0 .. n |->
              IF k = 0 THEN [terms |-> <<>>, rest |-> in]
              ELSE IF Threw(read[k - 1].terms) THEN read[k - 1]
              ELSE LET r == d[read[k - 1].rest]
                   IN  [terms |-> Append(read[k - 1].terms, r.data), rest |-> r.rest]]

\* Terms in a row are read one after the other.
LEMMA ReadsInARow ==
    ASSUME NEW d, NEW S, NEW t \in Seq(S), NEW q, ReadsOn(d, t, q)
    PROVE  DeserializeN(d, Len(t), q[0]) = [terms |-> t, rest |-> q[Len(t)]]
  <1> DEFINE n == Len(t)
             e == [k \in 0 .. n |-> [terms |-> SubSeq(t, 1, k), rest |-> q[k]]]
  <1>1. n \in Nat
    BY LenProperties
  <1>2. SubSeq(t, 1, 0) = <<>> /\ SubSeq(t, 1, n) = t
    BY <1>1, SubSeqFull, SubSeqEmpty
  <1>3. ASSUME NEW k \in 1 .. n
        PROVE  /\ ~ Threw(e[k - 1].terms)
               /\ e[k].terms = Append(e[k - 1].terms, d[e[k - 1].rest].data)
               /\ e[k].rest = d[e[k - 1].rest].rest
    <2>1. k \in Nat /\ k - 1 \in 0 .. n /\ k \in 0 .. n
      BY <1>1
    <2>2. e[k - 1].terms = SubSeq(t, 1, k - 1) /\ e[k - 1].rest = q[k - 1]
          /\ e[k].terms = SubSeq(t, 1, k) /\ e[k].rest = q[k]
      BY <2>1
    <2> HIDE DEF e
    <2>3. d[q[k - 1]].data = t[k] /\ d[q[k - 1]].rest = q[k]
      <3>1. d[q[k - 1]] = Reading(t[k], q[k])
        BY DEF ReadsOn
      <3>2. Reading(t[k], q[k]).data = t[k] /\ Reading(t[k], q[k]).rest = q[k]
        BY DEF Reading
      <3>. QED
        BY <3>1, <3>2
    <2>4. ~ Threw(SubSeq(t, 1, k - 1))
      <3>1. DOMAIN SubSeq(t, 1, k - 1) = 1 .. k - 1 /\ \A i \in 1 .. k - 1 : SubSeq(t, 1, k - 1)[i] = t[i]
        <4>1. \A i \in 1 .. k - 1 : t[i] \in S
          BY <1>1, <2>1, LenProperties
        <4>2. k - 1 \in Int /\ 1 \in Int /\ (IF 1 <= k - 1 THEN k - 1 - 1 + 1 ELSE 0) = k - 1
              /\ \A i \in 1 .. k - 1 : 1 + i - 1 = i
          BY <2>1
        <4> DEFINE a == SubSeq(t, 1, k - 1)
        <4>3. a \in Seq(S) /\ Len(a) = k - 1 /\ \A i \in 1 .. k - 1 : a[i] = t[1 + i - 1]
          BY <4>1, <4>2, SubSeqProperties
        <4> HIDE DEF a
        <4>4. DOMAIN a = 1 .. k - 1
          BY <4>3, LenProperties
        <4>. QED
          BY <4>2, <4>3, <4>4 DEF a
      <3>2. \A i \in 1 .. k - 1 : t[i] # Exception
        BY <1>1, <2>1 DEF ReadsOn
      <3>. QED
        BY <3>1, <3>2 DEF Threw
    <2>5. SubSeq(t, 1, k) = Append(SubSeq(t, 1, k - 1), t[k])
      BY FirstElements
    <2>. QED
      BY <2>2, <2>3, <2>4, <2>5
  <1>4. IsReadOf(e, d, n, q[0])
    <2>1. ASSUME NEW k \in 0 .. n
          PROVE  e[k] = IF k = 0 THEN [terms |-> <<>>, rest |-> q[0]]
                        ELSE IF Threw(e[k - 1].terms) THEN e[k - 1]
                        ELSE LET r == d[e[k - 1].rest]
                             IN  [terms |-> Append(e[k - 1].terms, r.data), rest |-> r.rest]
      <3>1. e[k] = [terms |-> e[k].terms, rest |-> e[k].rest]
        OBVIOUS
      <3>2. CASE k = 0
        <4>1. e[k].terms = <<>> /\ e[k].rest = q[0]
          BY <1>2, <3>2
        <4>. QED
          BY <3>1, <3>2, <4>1
      <3>3. CASE k # 0
        <4>1. k \in 1 .. n
          BY <1>1, <3>3
        <4>2. /\ ~ Threw(e[k - 1].terms)
              /\ e[k].terms = Append(e[k - 1].terms, d[e[k - 1].rest].data)
              /\ e[k].rest = d[e[k - 1].rest].rest
          BY <1>3, <4>1
        <4> HIDE DEF e
        <4>. QED
          BY <3>1, <3>3, <4>2
      <3>. QED
        BY <3>2, <3>3
    <2>2. e = [k \in 0 .. n |-> e[k]]
      OBVIOUS
    <2> HIDE DEF e, n
    <2>. QED
      BY <2>1, <2>2 DEF IsReadOf
  <1> DEFINE read == CHOOSE read : IsReadOf(read, d, n, q[0])
  <1>5. DeserializeN(d, n, q[0]) = read[n]
    BY DEF DeserializeN, IsReadOf
  <1>6. IsReadOf(read, d, n, q[0])
    <2> HIDE DEF e, n
    <2>. QED
      BY <1>4
  <1> HIDE DEF read
  <1> DEFINE T == {k \in Nat : k <= n => read[k] = e[k]}
  <1>7. 0 \in T
    <2>1. 0 \in 0 .. n
      BY <1>1
    <2>2. read[0] = [terms |-> <<>>, rest |-> q[0]]
      BY <1>6, <2>1 DEF IsReadOf
    <2>3. e[0] = [terms |-> <<>>, rest |-> q[0]]
      BY <1>2, <2>1
    <2>. QED
      BY <2>2, <2>3
  <1>8. ASSUME NEW k \in T PROVE k + 1 \in T
    <2>1. SUFFICES ASSUME k + 1 <= n PROVE read[k + 1] = e[k + 1]
      OBVIOUS
    <2>2. k \in Nat /\ k + 1 \in 1 .. n /\ k + 1 \in 0 .. n /\ (k + 1) - 1 = k /\ k + 1 # 0 /\ read[k] = e[k]
      BY <1>1, <2>1
    <2> DEFINE j == k + 1
    <2>3. /\ ~ Threw(e[k].terms)
          /\ e[j].terms = Append(e[k].terms, d[e[k].rest].data)
          /\ e[j].rest = d[e[k].rest].rest
      BY <1>3, <2>2
    <2>4. e[j] = [terms |-> e[j].terms, rest |-> e[j].rest]
      BY <2>2
    <2>5. read[j] = IF Threw(read[k].terms) THEN read[k]
                    ELSE [terms |-> Append(read[k].terms, d[read[k].rest].data), rest |-> d[read[k].rest].rest]
      <3>1. j \in 0 .. n /\ j # 0 /\ j - 1 = k
        BY <2>2
      <3> HIDE DEF j
      <3>. QED
        BY <1>6, <3>1 DEF IsReadOf
    <2> HIDE DEF e, j
    <2>6. read[j] = e[j]
      BY <2>2, <2>3, <2>4, <2>5
    <2>. QED
      BY <2>6 DEF j
  <1>9. T \in SUBSET Nat
    OBVIOUS
  <1>10. n \in T
    <2> HIDE DEF T
    <2>. QED
      BY <1>1, <1>7, <1>8, <1>9, FromZero
  <1>11. read[n] = e[n] /\ e[n] = [terms |-> t, rest |-> q[n]]
    <2>1. n <= n /\ n \in 0 .. n
      BY <1>1
    <2>2. read[n] = e[n]
      <3> HIDE DEF e
      <3>. QED
        BY <1>10, <2>1
    <2>. QED
      BY <1>2, <2>1, <2>2
  <1>. QED
    BY <1>5, <1>11

-----------------------------------------------------------------------------
(***************************************************************************)
(* deserialize_data does what it says.                                     *)
(***************************************************************************)
Streams == Seq(Item)

\* The readers of every depth: one calls the reader one less deep.
ReadAt(d, depth, s) ==
    IF depth = 0 THEN Reading(EndOfFile, s) ELSE DeserializedGiven(d[depth - 1], s)
IsReader(d, n) == d = [depth \in 0 .. n |-> [s \in Streams |-> ReadAt(d, depth, s)]]

\* There are such readers.
LEMMA ReadersExist ==
    \A n \in Nat : \E d : IsReader(d, n)
  <1> DEFINE S == {n \in Nat : \E d : IsReader(d, n)}
  <1>1. 0 \in S
    <2> DEFINE d == [depth \in 0 .. 0 |-> [s \in Streams |-> Reading(EndOfFile, s)]]
    <2>1. d = [depth \in 0 .. 0 |-> [s \in Streams |-> ReadAt(d, depth, s)]]
      BY DEF ReadAt
    <2> HIDE DEF d
    <2>2. IsReader(d, 0)
      BY <2>1 DEF IsReader
    <2>. QED
      BY <2>2
  <1>2. ASSUME NEW n \in S PROVE n + 1 \in S
    <2>1. n \in Nat
      OBVIOUS
    <2>2. PICK e : IsReader(e, n)
      OBVIOUS
    <2> DEFINE m == n + 1
               last == [s \in Streams |-> DeserializedGiven(e[n], s)]
               d == [depth \in 0 .. m |-> IF depth = m THEN last ELSE e[depth]]
    <2>3. ASSUME NEW i \in 0 .. m PROVE d[i] = [s \in Streams |-> ReadAt(d, i, s)]
      <3>1. CASE i = m
        <4>1. n \in 0 .. m /\ n # m /\ i - 1 = n /\ i # 0 /\ m \in 0 .. m
          BY <2>1, <3>1
        <4>2. d[i - 1] = e[n] /\ d[i] = last
          BY <3>1, <4>1
        <4> HIDE DEF d
        <4>3. \A s \in Streams : ReadAt(d, i, s) = DeserializedGiven(e[n], s)
          BY <4>1, <4>2 DEF ReadAt
        <4>. QED
          BY <4>2, <4>3
      <3>2. CASE i # m
        <4>1. i \in 0 .. n
          BY <2>1, <3>2
        <4>2. e[i] = [s \in Streams |-> ReadAt(e, i, s)]
          BY <2>2, <4>1 DEF IsReader
        <4>3. i # 0 => i - 1 \in 0 .. m /\ i - 1 # m
          BY <2>1, <4>1
        <4>4. i # 0 => d[i - 1] = e[i - 1]
          BY <4>3
        <4>5. d[i] = e[i]
          BY <3>2
        <4> HIDE DEF d
        <4>6. \A s \in Streams : ReadAt(d, i, s) = ReadAt(e, i, s)
          BY <4>4 DEF ReadAt
        <4>. QED
          BY <4>2, <4>5, <4>6
      <3>. QED
        BY <3>1, <3>2
    <2>4. d = [i \in 0 .. m |-> d[i]]
      OBVIOUS
    <2> HIDE DEF d
    <2>5. IsReader(d, m)
      BY <2>3, <2>4 DEF IsReader
    <2>. QED
      BY <2>1, <2>5
  <1> HIDE DEF S
  <1>3. S \in SUBSET Nat
    BY DEF S
  <1>4. \A n \in Nat : n \in S
    BY <1>1, <1>2, <1>3, FromZero
  <1>. QED
    BY <1>4 DEF S

\* A reader deep enough reads a stream.
LEMMA DeserializeDef ==
    ASSUME NEW in \in Streams
    PROVE  \E d : IsReader(d, Len(in)) /\ Deserialize(in) = d[Len(in)][in]
  <1> DEFINE n == Len(in)
             d == CHOOSE d : d = [depth \in 0 .. n |->
                      [s \in Seq(Item) |->
                        IF depth = 0 THEN Reading(EndOfFile, s)
                        ELSE DeserializedGiven(d[depth - 1], s)]]
  <1>1. n \in Nat
    BY LenProperties DEF Streams
  <1>2. Deserialize(in) = d[n][in]
    BY DEF Deserialize
  <1>3. \E e : IsReader(e, n)
    BY <1>1, ReadersExist
  <1>4. IsReader(d, n)
    BY <1>3 DEF IsReader, ReadAt, Streams
  <1>. QED
    BY <1>2, <1>4

\* What a reader does with a stream that it is deep enough for.
LEMMA ReaderDef ==
    ASSUME NEW n \in Nat, NEW d, IsReader(d, n), NEW m \in 1 .. n, NEW s \in Streams
    PROVE  d[m][s] = DeserializedGiven(d[m - 1], s)
  <1>1. m \in 0 .. n /\ m # 0
    OBVIOUS
  <1>2. d[m] = [z \in Streams |-> ReadAt(d, m, z)]
    BY <1>1 DEF IsReader
  <1>3. d[m][s] = ReadAt(d, m, s)
    BY <1>2
  <1>. QED
    BY <1>1, <1>3 DEF ReadAt

-----------------------------------------------------------------------------
(***************************************************************************)
(* Items in front of a stream.                                             *)
(***************************************************************************)
\* An item in front of a stream.
LEMMA ItemInFront ==
    ASSUME NEW e \in Item, NEW s \in Streams
    PROVE  LET t == <<e>> \o s
           IN  t \in Streams /\ t # <<>> /\ Head(t) = e /\ Tail(t) = s /\ Len(t) = Len(s) + 1
  <1> DEFINE t == <<e>> \o s
             a == <<e>>
  <1>1. a \in Seq(Item) /\ Len(a) = 1 /\ a[1] = e
    OBVIOUS
  <1>2. Len(s) \in Nat
    BY LenProperties DEF Streams
  <1>3. /\ a \o s \in Seq(Item) /\ Len(a \o s) = 1 + Len(s)
        /\ \A i \in 1 .. 1 + Len(s) : (a \o s)[i] = IF i <= 1 THEN a[i] ELSE s[i - 1]
    <2> HIDE DEF a
    <2>1. s \in Seq(Item) /\ Len(a) = 1 /\ a \in Seq(Item)
      BY <1>1 DEF Streams
    <2>2. /\ a \o s \in Seq(Item) /\ Len(a \o s) = Len(a) + Len(s)
          /\ \A i \in 1 .. Len(a) + Len(s) : (a \o s)[i] = IF i <= Len(a) THEN a[i] ELSE s[i - Len(a)]
      BY <2>1, ConcatProperties
    <2>. QED
      BY <2>1, <2>2
  <1>4. t = a \o s
    OBVIOUS
  <1> HIDE DEF t, a
  <1>5. t \in Seq(Item) /\ Len(t) = Len(s) + 1 /\ t[1] = e /\ \A i \in 1 .. Len(s) : t[i + 1] = s[i]
    <2>1. 1 \in 1 .. 1 + Len(s) /\ \A i \in 1 .. Len(s) : i + 1 \in 1 .. 1 + Len(s) /\ ~ (i + 1 <= 1) /\ (i + 1) - 1 = i
      BY <1>2
    <2>. QED
      BY <1>1, <1>2, <1>3, <1>4, <2>1
  <1>6. t # <<>>
    BY <1>2, <1>5, EmptySeq
  <1>7. Head(t) = e
    BY <1>5, <1>6
  <1>8. Tail(t) = s
    <2>1. /\ Tail(t) \in Seq(Item) /\ Len(Tail(t)) = Len(s)
          /\ \A i \in 1 .. Len(Tail(t)) : Tail(t)[i] = t[i + 1]
      BY <1>2, <1>5, <1>6, HeadTailProperties
    <2>2. Tail(t) = s
      BY <1>5, <2>1, SeqEqual DEF Streams
    <2>. QED
      BY <2>2
  <1>. QED
    BY <1>5, <1>6, <1>7, <1>8 DEF t, Streams

\* Streams one after the other.
LEMMA StreamsJoin ==
    ASSUME NEW a \in Streams, NEW b \in Streams, NEW c \in Streams
    PROVE  /\ a \o b \in Streams /\ Len(a \o b) = Len(a) + Len(b) /\ (a \o b) \o c = a \o (b \o c)
           /\ Len(a) \in Nat /\ Len(b) \in Nat /\ Len(b) <= Len(a \o b)
  <1>1. Len(a) \in Nat /\ Len(b) \in Nat
    BY LenProperties DEF Streams
  <1>2. a \o b \in Streams /\ Len(a \o b) = Len(a) + Len(b)
    BY ConcatProperties DEF Streams
  <1>3. (a \o b) \o c = a \o (b \o c)
    BY ConcatAssociative DEF Streams
  <1>. QED
    BY <1>1, <1>2, <1>3

\* Nothing in front of a stream, or behind it.
LEMMA NothingInFront ==
    ASSUME NEW s \in Streams
    PROVE  <<>> \in Streams /\ Len(<<>>) = 0 /\ <<>> \o s = s /\ s \o <<>> = s
  <1>. QED
    BY ConcatEmptySeq, EmptySeq DEF Streams

-----------------------------------------------------------------------------
(***************************************************************************)
(* What is made of the terms that were read.                               *)
(***************************************************************************)
\* A pair greater than the others is put behind them.
LEMMA EmplaceBehind ==
    ASSUME NEW P, MadeWithout({"BoolTerm_c"}, P), NEW E, Keyed(E, P),
           NEW ps \in Seq(E), Ascending(ps), NEW n \in 1 .. Len(ps)
    PROVE  emplace(SubSeq(ps, 1, n - 1), ps[n]) = SubSeq(ps, 1, n)
  <1> DEFINE a == SubSeq(ps, 1, n - 1)
             p == ps[n]
  <1>1. n \in Nat /\ n - 1 \in Nat /\ DOMAIN ps = 1 .. Len(ps) /\ \A i \in 1 .. Len(ps) : ps[i] \in E
    BY LenProperties
  <1>2. a \in Seq(E) /\ Len(a) = n - 1 /\ DOMAIN a = 1 .. n - 1 /\ \A i \in 1 .. n - 1 : a[i] = ps[i]
    <2>1. /\ n - 1 \in Int /\ 1 \in Int /\ (IF 1 <= n - 1 THEN n - 1 - 1 + 1 ELSE 0) = n - 1
          /\ \A i \in 1 .. n - 1 : 1 + i - 1 = i /\ ps[i] \in E
      BY <1>1
    <2>2. a \in Seq(E) /\ Len(a) = n - 1 /\ \A i \in 1 .. n - 1 : a[i] = ps[1 + i - 1]
      BY <2>1, SubSeqProperties
    <2> HIDE DEF a
    <2>. QED
      BY <2>1, <2>2, LenProperties
  <1>3. \A i \in DOMAIN a : CompareData(Key(a[i]), Key(p)) < 0
    BY <1>1, <1>2 DEF Ascending
  <1>4. NotLess(a, p) = {}
    <2>1. p \in E /\ \A i \in DOMAIN a : a[i] \in E
      BY <1>1, <1>2
    <2> HIDE DEF a, p
    <2>2. ASSUME NEW i \in DOMAIN a PROVE ~ (CompareData(Key(a[i]), Key(p)) >= 0)
      <3> DEFINE x == a[i]
                 c == CompareData(Key(x), Key(p))
      <3>1. x \in E
        BY <2>1
      <3>2. c \in {-1, 0, 1}
        <4> HIDE DEF x
        <4>. QED
          BY <2>1, <3>1, KeyFacts DEF Keyed
      <3>3. c < 0
        BY <1>3
      <3> HIDE DEF c
      <3>4. ~ (c >= 0)
        BY <3>2, <3>3
      <3>. QED
        BY <3>4 DEF c
    <2>. QED
      BY <2>2 DEF NotLess
  <1>5. LowerBound(a, p) = n
    <2> HIDE DEF a, p
    <2>1. NotLess(a, p) \cup {Len(a) + 1} = {n}
      BY <1>1, <1>2, <1>4
    <2>. QED
      BY <1>1, <2>1 DEF LowerBound, First
  <1> DEFINE longer == [i \in 1 .. Len(a) + 1 |-> CASE i < n -> a[i]
                                                   [] i = n -> p
                                                   [] i > n -> a[i - 1]]
  <1>6. emplace(a, p) = longer
    <2>1. n \notin DOMAIN a
      BY <1>1, <1>2
    <2> HIDE DEF a, p
    <2>. QED
      BY <1>5, <2>1 DEF emplace
  <1> DEFINE b == SubSeq(ps, 1, n)
  <1>7. b \in Seq(E) /\ Len(b) = n /\ DOMAIN b = 1 .. n /\ \A i \in 1 .. n : b[i] = ps[i]
    <2>1. /\ n \in Int /\ 1 \in Int /\ (IF 1 <= n THEN n - 1 + 1 ELSE 0) = n
          /\ \A i \in 1 .. n : 1 + i - 1 = i /\ ps[i] \in E
      BY <1>1
    <2>2. b \in Seq(E) /\ Len(b) = n /\ \A i \in 1 .. n : b[i] = ps[1 + i - 1]
      <3> HIDE DEF a, p
      <3>. QED
        BY <2>1, SubSeqProperties
    <2> HIDE DEF b
    <2>. QED
      BY <2>1, <2>2, LenProperties
  <1>8. ASSUME NEW i \in 1 .. n PROVE longer[i] = b[i]
    <2>1. CASE i = n
      <3> HIDE DEF a, b
      <3>. QED
        BY <1>1, <1>2, <1>7, <2>1
    <2>2. CASE i # n
      <3>1. i < n /\ i \in 1 .. n - 1 /\ i \in 1 .. Len(a) + 1
        BY <1>1, <1>2, <2>2
      <3>2. longer[i] = a[i]
        <4> HIDE DEF a, p, b
        <4>. QED
          BY <3>1
      <3>. QED
        BY <1>2, <1>7, <3>1, <3>2
    <2>. QED
      BY <2>1, <2>2
  <1>9. DOMAIN longer = 1 .. n
    BY <1>1, <1>2
  <1>10. longer = b
    <2>1. b = [i \in 1 .. n |-> b[i]]
      <3> HIDE DEF b, longer, a, p
      <3>. QED
        BY <1>7, LenProperties
    <2>2. longer = [i \in 1 .. n |-> longer[i]]
      <3> HIDE DEF a, p, b
      <3>. QED
        BY <1>9
    <2> HIDE DEF longer, b, a, p
    <2>. QED
      BY <1>8, <2>1, <2>2
  <1>. QED
    BY <1>6, <1>10

\* The map made of ascending pairs is made of these.
LEMMA MapOfAscending ==
    ASSUME NEW P, MadeWithout({"BoolTerm_c"}, P), NEW E, Keyed(E, P),
           NEW ps \in Seq(E), Ascending(ps)
    PROVE  make_ordered_map(ps) = ps
  <1> DEFINE m == Len(ps)
  <1>1. m \in Nat
    BY LenProperties
  <1>2. PICK f : /\ make_ordered_map(ps) = f[m]
                 /\ f[0] = <<>>
                 /\ \A n \in 1 .. m : f[n] = emplace(f[n - 1], ps[n])
    BY <1>1, MapIsFilled
  <1> DEFINE S == {n \in Nat : n <= m => f[n] = SubSeq(ps, 1, n)}
  <1>3. 0 \in S
    <2>1. SubSeq(ps, 1, 0) = <<>>
      BY SubSeqEmpty
    <2>. QED
      BY <1>2, <2>1
  <1>4. ASSUME NEW n \in S PROVE n + 1 \in S
    <2> DEFINE k == n + 1
    <2>1. SUFFICES ASSUME k <= m PROVE f[k] = SubSeq(ps, 1, k)
      BY DEF S
    <2>2. n \in Nat /\ n <= m /\ k \in 1 .. m /\ k - 1 = n
      BY <1>1, <2>1
    <2>3. f[n] = SubSeq(ps, 1, n)
      BY <2>2
    <2>4. f[k] = emplace(f[k - 1], ps[k])
      <3> HIDE DEF k
      <3>. QED
        BY <1>2, <2>2
    <2>5. emplace(SubSeq(ps, 1, k - 1), ps[k]) = SubSeq(ps, 1, k)
      <3> HIDE DEF k
      <3>. QED
        BY <2>2, EmplaceBehind
    <2> HIDE DEF k, S
    <2>. QED
      BY <2>2, <2>3, <2>4, <2>5
  <1>5. S \in SUBSET Nat
    OBVIOUS
  <1>6. m \in S
    <2> HIDE DEF S
    <2>. QED
      BY <1>1, <1>3, <1>4, <1>5, FromZero
  <1>7. f[m] = SubSeq(ps, 1, m)
    BY <1>1, <1>6
  <1>. QED
    BY <1>2, <1>7, SubSeqFull

-----------------------------------------------------------------------------
(***************************************************************************)
(* What is read of what was written.                                       *)
(***************************************************************************)
\* A term is read back from in front of any stream, by a reader deep enough.
ReadsTerm(d, n, y) ==
    \A m \in 0 .. n, rest \in Streams :
        Len(Serialize(y) \o rest) <= m => d[m][Serialize(y) \o rest] = Reading(y, rest)

\* The terms of a stream, and what is left of it after each.
TermChain(q, t, from, to) ==
    /\ \A k \in 0 .. Len(t) : q[k] \in Streams
    /\ q[0] = from /\ q[Len(t)] = to
    /\ \A k \in 1 .. Len(t) : q[k - 1] = Serialize(t[k]) \o q[k]

AllWritten(t) == \A k \in 1 .. Len(t) : Serialize(t[k]) \in Streams

\* Nothing is longer than what it is left of.
LEMMA ChainGetsShorter ==
    ASSUME NEW S, NEW t \in Seq(S), NEW q, NEW from, NEW to, TermChain(q, t, from, to), AllWritten(t)
    PROVE  \A k \in 0 .. Len(t) : Len(q[k]) <= Len(from)
  <1> DEFINE n == Len(t)
  <1>1. n \in Nat
    BY LenProperties
  <1> DEFINE T == {k \in Nat : k <= n => Len(q[k]) <= Len(from)}
  <1>2. \A k \in 0 .. n : q[k] \in Streams /\ Len(q[k]) \in Nat
    <2>1. ASSUME NEW k \in 0 .. n PROVE q[k] \in Streams /\ Len(q[k]) \in Nat
      <3>1. q[k] \in Streams
        BY DEF TermChain
      <3>. QED
        BY <3>1, LenProperties DEF Streams
    <2>. QED
      BY <2>1
  <1>3. q[0] = from /\ 0 \in 0 .. n
    BY <1>1 DEF TermChain
  <1>4. 0 \in T
    BY <1>2, <1>3
  <1>5. ASSUME NEW k \in T PROVE k + 1 \in T
    <2>1. SUFFICES ASSUME k + 1 <= n PROVE Len(q[k + 1]) <= Len(from)
      OBVIOUS
    <2> DEFINE j == k + 1
    <2>2. k \in Nat /\ j \in 1 .. n /\ j - 1 = k /\ k \in 0 .. n /\ j \in 0 .. n /\ Len(q[k]) <= Len(from)
      BY <1>1, <2>1
    <2> HIDE DEF j, T
    <2>3. q[k] = Serialize(t[j]) \o q[j] /\ Serialize(t[j]) \in Streams
      BY <2>2 DEF TermChain, AllWritten
    <2>4. Len(q[j]) <= Len(q[k])
      BY <1>2, <2>2, <2>3, StreamsJoin
    <2>5. Len(q[j]) \in Nat /\ Len(q[k]) \in Nat /\ Len(from) \in Nat
      BY <1>2, <1>3, <2>2
    <2>6. Len(q[j]) <= Len(from)
      BY <2>2, <2>4, <2>5
    <2>. QED
      BY <2>6 DEF j
  <1>6. T \in SUBSET Nat
    OBVIOUS
  <1>7. \A k \in Nat : k \in T
    <2> HIDE DEF T
    <2>. QED
      BY <1>4, <1>5, <1>6, FromZero
  <1>8. ASSUME NEW k \in 0 .. n PROVE Len(q[k]) <= Len(from)
    <2>1. k \in Nat /\ k <= n
      BY <1>1
    <2>. QED
      BY <1>7, <2>1
  <1>. QED
    BY <1>8

\* Each of these terms can be read.
AllReads(d, n, t) ==
    \A k \in 1 .. Len(t) : t[k] # Exception /\ ReadsTerm(d, n, t[k])

\* Terms that are read back are read back one after the other, and a term is made of them.
LEMMA TermsInARow ==
    ASSUME NEW S, NEW t \in Seq(S), NEW q, NEW from, NEW to, TermChain(q, t, from, to), AllWritten(t),
           NEW n \in Nat, NEW d, AllReads(d, n, t), NEW m \in 0 .. n, Len(from) <= m, NEW type
    PROVE  ReadAndMake(d[m], type, Len(t), from) = Reading(Make(type, t), to)
  <1> DEFINE e == d[m]
  <1>1. Len(t) \in Nat /\ m \in Nat
    BY LenProperties
  <1>2. ReadsOn(e, t, q)
    <2>1. ASSUME NEW k \in 1 .. Len(t) PROVE e[q[k - 1]] = Reading(t[k], q[k]) /\ t[k] # Exception
      <3>1. k \in 0 .. Len(t) /\ k - 1 \in 0 .. Len(t)
        BY <1>1
      <3>2. q[k - 1] = Serialize(t[k]) \o q[k] /\ q[k] \in Streams /\ q[k - 1] \in Streams /\ q[0] = from
            /\ q[0] \in Streams
        <4>1. \A j \in 0 .. Len(t) : q[j] \in Streams
          BY DEF TermChain
        <4>2. q[k - 1] = Serialize(t[k]) \o q[k] /\ q[0] = from
          BY DEF TermChain
        <4>3. 0 \in 0 .. Len(t)
          BY <1>1
        <4>. QED
          BY <3>1, <4>1, <4>2, <4>3
      <3>3. Len(q[k - 1]) <= Len(from)
        <4>1. \A j \in 0 .. Len(t) : Len(q[j]) <= Len(from)
          <5> HIDE DEF e
          <5>1. TermChain(q, t, from, to) /\ AllWritten(t) /\ t \in Seq(S)
            OBVIOUS
          <5>. QED
            BY <5>1, ChainGetsShorter
        <4>. QED
          BY <3>1, <4>1
      <3>4. Len(q[k - 1]) \in Nat /\ Len(from) \in Nat
        BY <3>2, LenProperties DEF Streams
      <3>5. Len(q[k - 1]) <= m
        BY <1>1, <3>3, <3>4
      <3>6. t[k] # Exception /\ ReadsTerm(d, n, t[k])
        BY DEF AllReads
      <3>7. d[m][Serialize(t[k]) \o q[k]] = Reading(t[k], q[k])
        BY <3>2, <3>5, <3>6 DEF ReadsTerm
      <3>. QED
        BY <3>2, <3>6, <3>7
    <2> HIDE DEF e
    <2>. QED
      BY <2>1 DEF ReadsOn
  <1> HIDE DEF e
  <1>3. DeserializeN(e, Len(t), q[0]) = [terms |-> t, rest |-> q[Len(t)]]
    BY <1>2, ReadsInARow
  <1>4. q[0] = from /\ q[Len(t)] = to
    BY DEF TermChain
  <1>5. ~ Threw(t)
    <2>1. DOMAIN t = 1 .. Len(t)
      BY LenProperties
    <2>. QED
      BY <2>1 DEF Threw, AllReads
  <1>6. ReadAndMake(e, type, Len(t), from) = Reading(Make(type, t), to)
    <2> DEFINE read == DeserializeN(e, Len(t), from)
    <2>1. read.terms = t /\ read.rest = to
      BY <1>3, <1>4
    <2>2. ReadAndMake(e, type, Len(t), from)
            = Reading(IF Threw(read.terms) THEN Exception ELSE Make(type, read.terms), read.rest)
      BY DEF ReadAndMake
    <2> HIDE DEF read
    <2>. QED
      BY <1>5, <2>1, <2>2
  <1>. QED
    BY <1>6 DEF e

\* The items in front of what is written.
LEMMA CodesAreItems ==
    /\ PARAMETRIC_TERM \in Item /\ NON_PARAMETRIC_TERM \in Item
    /\ PARAMETRIC_TERM # NON_PARAMETRIC_TERM
    /\ \A n \in Nat : Bytes(n) \in Item
    /\ \A x \in Data : x.kind \in Singletons /\ x.num \in Nat /\ x.args = <<>> => x \in Item
  <1>1. PARAMETRIC_TERM.kind = "PARAMETRIC_TERM" /\ NON_PARAMETRIC_TERM.kind = "NON_PARAMETRIC_TERM"
    BY DEF PARAMETRIC_TERM, NON_PARAMETRIC_TERM, Atom, Node
  <1>2. PARAMETRIC_TERM \in Item
    BY DEF PARAMETRIC_TERM, Item, Atom, Node
  <1>3. NON_PARAMETRIC_TERM \in Item
    BY DEF NON_PARAMETRIC_TERM, Item, Atom, Node
  <1>4. \A n \in Nat : Bytes(n) \in Item
    BY DEF Bytes, Item, Node
  <1>5. ASSUME NEW x \in Data, x.kind \in Singletons, x.num \in Nat, x.args = <<>> PROVE x \in Item
    <2>1. x = [kind |-> x.kind, num |-> x.num, args |-> x.args]
      <3>1. x \in [kind : DOMAIN NameAddress, num : Int, args : Seq(Data)]
        BY PartsAreLower
      <3>. QED
        BY <3>1
    <2>. QED
      BY <1>5, <2>1 DEF Item
  <1>. QED
    BY <1>1, <1>2, <1>3, <1>4, <1>5

\* What comes after the type of a term is read given the type.
LEMMA TypeIsRead ==
    ASSUME NEW n \in Nat, NEW d, IsReader(d, n), NEW h, Serialize(h) \in Streams, ReadsTerm(d, n, h),
           h # Exception, NEW w \in Streams, NEW rest \in Streams, NEW m \in 0 .. n,
           Len(((<<PARAMETRIC_TERM>> \o Serialize(h)) \o w) \o rest) <= m
    PROVE  /\ m - 1 \in 0 .. n /\ w \o rest \in Streams /\ Len(w \o rest) <= m - 1
           /\ d[m][((<<PARAMETRIC_TERM>> \o Serialize(h)) \o w) \o rest] = DeserializeValue(d[m - 1], h, w \o rest)
  <1> DEFINE p == <<PARAMETRIC_TERM>>
             H == Serialize(h)
             o == w \o rest
             s == H \o o
             t == p \o s
  <1>1. p \in Streams
    <2>1. PARAMETRIC_TERM \in Item
      BY CodesAreItems
    <2>. QED
      BY <2>1 DEF Streams
  <1>2. o \in Streams /\ Len(o) \in Nat
    <2>1. o \in Streams
      BY StreamsJoin
    <2> HIDE DEF o
    <2>. QED
      BY <2>1, LenProperties DEF Streams
  <1>3. s \in Streams /\ Len(s) \in Nat /\ Len(o) <= Len(s)
    <2> HIDE DEF o
    <2>1. s \in Streams /\ Len(o) <= Len(s)
      BY <1>2, StreamsJoin
    <2> HIDE DEF s
    <2>. QED
      BY <2>1, LenProperties DEF Streams
  <1>4. ((p \o H) \o w) \o rest = t
    <2>1. p \o H \in Streams
      <3> HIDE DEF p
      <3>. QED
        BY <1>1, StreamsJoin
    <2>2. ((p \o H) \o w) \o rest = (p \o H) \o o
      <3> DEFINE a == p \o H
      <3>1. a \in Streams
        BY <2>1
      <3> HIDE DEF a
      <3>2. (a \o w) \o rest = a \o (w \o rest)
        BY <3>1, StreamsJoin
      <3>. QED
        BY <3>2 DEF a
    <2>3. (p \o H) \o o = p \o (H \o o)
      <3> HIDE DEF p, o
      <3>. QED
        BY <1>1, <1>2, StreamsJoin
    <2> HIDE DEF p, H, o
    <2>. QED
      BY <2>2, <2>3
  <1>5. t \in Streams /\ t # <<>> /\ Head(t) = PARAMETRIC_TERM /\ Tail(t) = s /\ Len(t) = Len(s) + 1
    <2>1. PARAMETRIC_TERM \in Item
      BY CodesAreItems
    <2> HIDE DEF s
    <2>. QED
      BY <1>3, <2>1, ItemInFront
  <1>6. m \in 1 .. n /\ m - 1 \in 0 .. n /\ Len(s) <= m - 1 /\ Len(o) <= m - 1
    <2>1. Len(t) <= m
      BY <1>4
    <2> HIDE DEF t, s, o, p
    <2>. QED
      BY <1>2, <1>3, <1>5, <2>1
  <1>7. d[m][t] = DeserializedGiven(d[m - 1], t)
    <2> HIDE DEF t
    <2>. QED
      BY <1>5, <1>6, ReaderDef
  <1>8. d[m - 1][s] = Reading(h, o)
    <2>1. Len(H \o o) <= m - 1
      BY <1>6
    <2> HIDE DEF o
    <2>2. d[m - 1][H \o o] = Reading(h, o)
      BY <1>2, <1>6, <2>1 DEF ReadsTerm
    <2>. QED
      BY <2>2
  <1>9. DeserializedGiven(d[m - 1], t) = DeserializeValue(d[m - 1], h, o)
    <2>1. PARAMETRIC_TERM # NON_PARAMETRIC_TERM
      BY CodesAreItems
    <2>2. Reading(h, o).data = h /\ Reading(h, o).rest = o
      BY DEF Reading
    <2> HIDE DEF t, s, o, p
    <2>. QED
      BY <1>5, <1>8, <2>1, <2>2 DEF DeserializedGiven, DeserializeParametric
  <1>10. d[m][((p \o H) \o w) \o rest] = DeserializeValue(d[m - 1], h, o)
    <2> HIDE DEF t, s, o, p
    <2>. QED
      BY <1>4, <1>7, <1>9
  <1>. QED
    BY <1>2, <1>6, <1>10

-----------------------------------------------------------------------------
(***************************************************************************)
(* A Data is read back, if what serialize_data was called with for it is.  *)
(***************************************************************************)
Readables == Throughout(ReadableData)

UnreadableKinds == Unserializable \cup {"UnionTerm_c", "TupleTerm_c", "int64_t"}

\* What can be read back, and how it is written.
IsWritten(y) ==
    /\ y \in Data /\ Formed(y) /\ Satisfied(y) /\ y.kind \in Kinds \ UnreadableKinds
    /\ y = Node(y.kind, y.num, y.args) /\ y # Exception
    /\ Serialize(y) \in Streams /\ WrittenAs(serialize_data, y)
    /\ Serialize(y) = Serialized(serialize_data, y)

\* Every Data with nothing in it that cannot be read back is written so.
LEMMA ReadableIsWritten ==
    \A y \in Readables : IsWritten(y)
  <1>1. SUFFICES ASSUME NEW y \in Readables PROVE IsWritten(y)
    OBVIOUS
  <1>2. y \in ReadableData /\ y \in Data
    BY ThroughoutParts DEF Readables
  <1>3. Formed(y) /\ Satisfied(y) /\ y.kind \notin Unserializable \cup {"UnionTerm_c", "TupleTerm_c"}
    BY <1>2 DEF ReadableData, WritableData, FormedData
  <1>4. y.kind \in Kinds \ UnreadableKinds
    BY <1>3 DEF Formed, UnreadableKinds
  <1>5. y = Node(y.kind, y.num, y.args)
    <2>1. y \in [kind : DOMAIN NameAddress, num : Int, args : Seq(Data)]
      BY <1>2, PartsAreLower
    <2>. QED
      BY <2>1 DEF Node
  <1>6. y # Exception
    <2>1. Exception.kind = "exception"
      BY DEF Exception, Atom, Node
    <2>2. "exception" \notin Kinds
      BY DEF Kinds, Singletons, ArrayTypes, OrderedMapTypes, Incomparable
    <2>. QED
      BY <1>4, <2>1, <2>2
  <1>7. Serialize(y) \in Streams
    <2>1. /\ HasPlain(ReadableData) /\ ReadableData \subseteq FormedData
          /\ \A z \in ReadableData : z.kind \in Unserializable => Exception \in Item
      BY PlainIsReadable DEF ReadableData, WritableData
    <2>2. \A z \in Throughout(ReadableData) : Serialize(z) \in Seq(Item)
      BY <2>1, ItemsOf
    <2>. QED
      BY <2>2 DEF Readables, Streams
  <1>8. WrittenAs(serialize_data, y) /\ Serialize(y) = Serialized(serialize_data, y)
    BY <1>2, WrittenByKind, SerializeDef
  <1>. QED
    BY <1>2, <1>3, <1>4, <1>5, <1>6, <1>7, <1>8 DEF IsWritten

\* The kinds whose reader knows how many terms it reads.
Uncounted == {"ArrayESTerm_c", "ArraySTerm_c", "ArrayES_c", "ArrayE_c",
              "ArrayS_c", "OrderedMapDC_c", "OrderedMapD_c",
              "OrderedMapC_c", "Output_c", "RequestSyncInput_c"}

ValueAs(f, h, in) ==
    /\ h.kind = "Bool_c" => DeserializeValue(f, h, in) = Reading(bool(NextItem(in).num), Rest(in))
    /\ h.kind = "Uint64_c" => DeserializeValue(f, h, in) = Reading(uint64(NextItem(in).num), Rest(in))
    /\ h.kind \in Counted => DeserializeValue(f, h, in) = ReadCounted(f, h, in)
    /\ h.kind \in Uncounted => DeserializeValue(f, h, in) = ReadAndMake(f, h, NumberOfTerms(h), in)

\* What is read by the type that is in front of it.
LEMMA ValueByKind ==
    ASSUME NEW f, NEW h, NEW in
    PROVE  ValueAs(f, h, in)
  <1> DEFINE v == DeserializeValue(f, h, in)
  <1>0. /\ "Bool_c" \notin Counted /\ "Uint64_c" \notin Counted
        /\ "Bool_c" \notin Uncounted /\ "Uint64_c" \notin Uncounted
        /\ \A k \in Uncounted : k \notin Counted
    BY DEF Counted, OrderedMapTypes, Uncounted
  <1>1. h.kind = "Bool_c" => v = Reading(bool(NextItem(in).num), Rest(in))
    BY <1>0 DEF DeserializeValue
  <1>2. h.kind = "Uint64_c" => v = Reading(uint64(NextItem(in).num), Rest(in))
    BY <1>0 DEF DeserializeValue
  <1>3. h.kind \in Counted => v = ReadCounted(f, h, in)
    BY <1>0 DEF DeserializeValue, Uncounted
  <1>4. h.kind \in Uncounted => v = ReadAndMake(f, h, NumberOfTerms(h), in)
    BY <1>0 DEF DeserializeValue, Uncounted
  <1>. QED
    BY <1>1, <1>2, <1>3, <1>4 DEF ValueAs

\* A non-parametric term.
LEMMA SingletonIsRead ==
    ASSUME NEW n \in Nat, NEW d, IsReader(d, n), NEW y, IsWritten(y), y.kind \in Singletons
    PROVE  ReadsTerm(d, n, y)
  <1>1. Serialize(y) = <<NON_PARAMETRIC_TERM, y>>
    BY DEF IsWritten, WrittenAs, UnreadableKinds
  <1>2. NON_PARAMETRIC_TERM \in Item /\ y \in Item
    <2>1. y \in Data /\ y.num \in Nat /\ y.args = <<>>
      BY DEF IsWritten, Formed
    <2>. QED
      BY <2>1, CodesAreItems
  <1>3. SUFFICES ASSUME NEW m \in 0 .. n, NEW rest \in Streams, Len(<<NON_PARAMETRIC_TERM, y>> \o rest) <= m
                 PROVE  d[m][<<NON_PARAMETRIC_TERM, y>> \o rest] = Reading(y, rest)
    BY <1>1 DEF ReadsTerm
  <1> DEFINE p == <<NON_PARAMETRIC_TERM>>
             r == <<y>>
             s == r \o rest
             t == p \o s
  <1>4. p \in Streams /\ r \in Streams /\ <<NON_PARAMETRIC_TERM, y>> = p \o r
    BY <1>2 DEF Streams
  <1>5. <<NON_PARAMETRIC_TERM, y>> \o rest = t
    <2> HIDE DEF p, r
    <2>1. (p \o r) \o rest = p \o (r \o rest)
      BY <1>4, StreamsJoin
    <2>. QED
      BY <1>4, <2>1
  <1>6. s \in Streams /\ s # <<>> /\ Head(s) = y /\ Tail(s) = rest
    BY <1>2, ItemInFront
  <1>7. t \in Streams /\ t # <<>> /\ Head(t) = NON_PARAMETRIC_TERM /\ Tail(t) = s /\ Len(t) = Len(s) + 1
    <2> HIDE DEF s
    <2>. QED
      BY <1>2, <1>6, ItemInFront
  <1>8. m \in 1 .. n
    <2>1. Len(t) <= m
      BY <1>3, <1>5
    <2>2. Len(s) \in Nat
      BY <1>6, LenProperties DEF Streams
    <2> HIDE DEF t, s
    <2>. QED
      BY <1>7, <2>1, <2>2
  <1>9. d[m][t] = DeserializedGiven(d[m - 1], t)
    <2> HIDE DEF t
    <2>. QED
      BY <1>7, <1>8, ReaderDef
  <1>10. DeserializedGiven(d[m - 1], t) = Reading(y, rest)
    <2>1. y.kind \notin Unserializable /\ PARAMETRIC_TERM # NON_PARAMETRIC_TERM
      BY CodesAreItems DEF IsWritten, UnreadableKinds
    <2> HIDE DEF t, s
    <2>2. DeserializeNonParametric(s) = Reading(y, rest)
      BY <1>6, <2>1 DEF DeserializeNonParametric
    <2>. QED
      BY <1>7, <2>1, <2>2 DEF DeserializedGiven
  <1>. QED
    BY <1>5, <1>9, <1>10

\* A plain value.
LEMMA PlainIsRead ==
    ASSUME NEW n \in Nat, NEW d, IsReader(d, n), NEW y, IsWritten(y), y.kind \in {"bool", "uint64_t"},
           NEW h, h = AbstractType(y), IsWritten(h), ReadsTerm(d, n, h)
    PROVE  ReadsTerm(d, n, y)
  <1> DEFINE w == <<Bytes(y.num)>>
  <1>1. Serialize(y) = (<<PARAMETRIC_TERM>> \o Serialize(h)) \o w
    BY DEF IsWritten, WrittenAs, Serialize
  <1>2. Bytes(y.num) \in Item /\ w \in Streams
    <2>1. y.num \in Nat
      BY DEF IsWritten, Formed
    <2>2. Bytes(y.num) \in Item
      BY <2>1, CodesAreItems
    <2>. QED
      BY <2>2 DEF Streams
  <1>3. h.kind = IF y.kind = "bool" THEN "Bool_c" ELSE "Uint64_c"
    BY PlainTypes DEF IsWritten, Atom, Node
  <1>4. y = IF y.kind = "bool" THEN bool(y.num) ELSE uint64(y.num)
    <2>1. y.args = <<>>
      <3>1. y.kind \in DOMAIN Parts /\ Parts[y.kind] = 0
        BY DEF Parts
      <3>2. Len(y.args) = 0 /\ y.args \in Seq(Data)
        <4>1. Formed(y) /\ y \in Data
          BY DEF IsWritten
        <4>. QED
          BY <3>1, <4>1, PartsAreLower DEF Formed
      <3>. QED
        BY <3>2, EmptySeq
    <2>2. y = Node(y.kind, y.num, y.args)
      BY DEF IsWritten
    <2>. QED
      BY <2>1, <2>2 DEF bool, uint64
  <1> HIDE DEF w
  <1>5. SUFFICES ASSUME NEW m \in 0 .. n, NEW rest \in Streams,
                        Len(((<<PARAMETRIC_TERM>> \o Serialize(h)) \o w) \o rest) <= m
                 PROVE  d[m][((<<PARAMETRIC_TERM>> \o Serialize(h)) \o w) \o rest] = Reading(y, rest)
    BY <1>1 DEF ReadsTerm
  <1> DEFINE s == ((<<PARAMETRIC_TERM>> \o Serialize(h)) \o w) \o rest
             o == w \o rest
  <1>6. d[m][s] = DeserializeValue(d[m - 1], h, o)
    <2>1. Serialize(h) \in Streams /\ h # Exception
      BY DEF IsWritten
    <2>. QED
      BY <1>2, <1>5, <2>1, TypeIsRead
  <1>7. o # <<>> /\ Head(o) = Bytes(y.num) /\ Tail(o) = rest
    BY <1>2, ItemInFront DEF w
  <1>8. NextItem(o).num = y.num /\ Rest(o) = rest
    <2>1. Bytes(y.num).num = y.num
      BY DEF Bytes, Node
    <2> HIDE DEF o
    <2>. QED
      BY <1>7, <2>1 DEF NextItem, Rest
  <1>9. ValueAs(d[m - 1], h, o)
    BY ValueByKind
  <1>10. DeserializeValue(d[m - 1], h, o) = Reading(y, rest)
    <2> HIDE DEF o
    <2>1. CASE y.kind = "bool"
      BY <1>3, <1>4, <1>8, <1>9, <2>1 DEF ValueAs
    <2>2. CASE y.kind = "uint64_t"
      <3>1. "uint64_t" # "bool"
        OBVIOUS
      <3>. QED
        BY <1>3, <1>4, <1>8, <1>9, <2>2, <3>1 DEF ValueAs
    <2>. QED
      BY <2>1, <2>2
  <1>. QED
    BY <1>6, <1>10

-----------------------------------------------------------------------------
\* Terms one after the other in front of a stream.
LEMMA ChainOfTerms ==
    ASSUME NEW t \in Seq(Data), AllWritten(t), NEW rest \in Streams
    PROVE  /\ SerializedAll(serialize_data, t) \in Streams
           /\ \E q : TermChain(q, t, SerializedAll(serialize_data, t) \o rest, rest)
  <1> DEFINE s == [i \in DOMAIN t |-> serialize_data[t[i]]]
             w == FlattenSeq(s)
  <1>1. DOMAIN t = 1 .. Len(t) /\ Len(t) \in Nat
    BY LenProperties
  <1>2. \A i \in DOMAIN t : serialize_data[t[i]] \in Seq(Item)
    BY <1>1 DEF AllWritten, Serialize, Streams
  <1>3. s \in Seq(Seq(Item)) /\ SerializedAll(serialize_data, t) \in Seq(Item)
    BY <1>2, AllAreWords
  <1>4. SerializedAll(serialize_data, t) = w
    BY DEF SerializedAll
  <1>5. DOMAIN s = 1 .. Len(t) /\ \A i \in 1 .. Len(t) : s[i] = Serialize(t[i])
    BY <1>1 DEF Serialize
  <1> HIDE DEF s
  <1>6. Len(s) = Len(t)
    BY <1>1, <1>3, <1>5, LenProperties
  <1>7. PICK q : Chain(q, s, Item, w \o rest, rest)
    <2>1. \E q : Chain(q, s, Item, FlattenSeq(s) \o rest, rest)
      BY <1>3, FlattenChains DEF Streams
    <2>. QED
      BY <2>1
  <1> HIDE DEF w
  <1>8. TermChain(q, t, w \o rest, rest)
    <2>1. \A k \in 1 .. Len(t) : q[k - 1] = Serialize(t[k]) \o q[k]
      BY <1>5, <1>6, <1>7 DEF Chain
    <2>2. \A k \in 0 .. Len(t) : q[k] \in Streams
      BY <1>6, <1>7 DEF Chain, Streams
    <2>3. q[0] = w \o rest /\ q[Len(t)] = rest
      BY <1>6, <1>7 DEF Chain
    <2>. QED
      BY <2>1, <2>2, <2>3 DEF TermChain
  <1>. QED
    BY <1>3, <1>4, <1>8 DEF Streams

\* The types with parameters, and the terms that ask front for something.
TypeForms == {"ArrayESTerm_c", "ArrayETerm_c", "ArraySTerm_c", "OrderedMapDCTerm_c",
              "OrderedMapDTerm_c", "OrderedMapCTerm_c", "OutputTerm_c", "RequestSyncInputTerm_c"}

\* What is made of the fields of one of them is that term.
IsMadeAgain(y, h, t) ==
    h.kind \in Uncounted /\ Len(t) = NumberOfTerms(h) /\ Make(h, t) = y

\* One part.
LEMMA OnePart ==
    ASSUME NEW S, NEW s \in Seq(S), Len(s) = 1
    PROVE  s = <<s[1]>>
  <1>. QED
    OBVIOUS

\* Two parts.
LEMMA TwoParts ==
    ASSUME NEW S, NEW s \in Seq(S), Len(s) = 2
    PROVE  s = <<s[1], s[2]>>
  <1>. QED
    OBVIOUS

\* Two in a row.
LEMMA TwoInARow ==
    ASSUME NEW x, NEW v
    PROVE  <<x>> \o <<v>> = <<x, v>>
  <1> DEFINE S == {x, v}
  <1>1. x \in S /\ v \in S
    OBVIOUS
  <1> HIDE DEF S
  <1> DEFINE a == <<x>>
             b == <<v>>
             c == <<x, v>>
  <1>2. a \in Seq(S) /\ b \in Seq(S) /\ Len(a) = 1 /\ Len(b) = 1 /\ a[1] = x /\ b[1] = v
    BY <1>1
  <1>3. c \in Seq(S) /\ Len(c) = 2 /\ c[1] = x /\ c[2] = v
    BY <1>1
  <1> HIDE DEF a, b, c
  <1> DEFINE r == a \o b
  <1>4. /\ r \in Seq(S) /\ Len(r) = Len(a) + Len(b)
        /\ \A i \in 1 .. Len(a) + Len(b) : r[i] = IF i <= Len(a) THEN a[i] ELSE b[i - Len(a)]
    BY <1>2, ConcatProperties
  <1> HIDE DEF r
  <1>5. Len(r) = 2 /\ r[1] = x /\ r[2] = v
    BY <1>2, <1>4
  <1>6. \A i \in 1 .. Len(r) : r[i] = c[i]
    BY <1>3, <1>5
  <1>7. r = c
    BY <1>3, <1>4, <1>5, <1>6, SeqEqual
  <1>. QED
    BY <1>7 DEF r, a, b, c

\* What MakeType makes where nothing is to be verified.
LEMMA MakeIsMakeType ==
    ASSUME NEW type, NEW t, type.kind \in Uncounted \ {"ArrayESTerm_c", "ArraySTerm_c"}
    PROVE  Make(type, t) = MakeType(type, t)
  <1>1. type.kind \notin ArrayTypes /\ type.kind \notin OrderedMapTypes
        /\ type.kind # "Union_c" /\ type.kind # "Tuple_c"
    BY DEF Uncounted, ArrayTypes, OrderedMapTypes
  <1>. QED
    BY <1>1 DEF Make

\* A type or a control term is made again of its heading and its fields.
LEMMA MadeOfFields ==
    ASSUME NEW y, IsWritten(y), y.kind \in TypeForms
    PROVE  HasFields(y) /\ IsMadeAgain(y, Heading(y), Fields(y))
  <1> DEFINE a == y.args
             h == Heading(y)
             t == Fields(y)
             k == y.kind
  <1>1. a \in Seq(Data) /\ y \in Data
    BY PartsAreLower DEF IsWritten
  <1>2. HasFields(y) /\ k \notin Singletons
    BY DEF TypeForms, HasFields, Unserializable, Singletons
  <1>3. h = Atom(TypeOfKind[k])
    <2>1. h = AbstractType(y)
      BY DEF Heading, TypeForms
    <2>2. k \in DOMAIN TypeOfKind
      BY DEF TypeForms, TypeOfKind
    <2> HIDE DEF h
    <2>. QED
      BY <1>1, <1>2, <2>1, <2>2, TypesWritten
  <1>4. h.kind = TypeOfKind[k]
    BY <1>3 DEF Atom, Node
  <1>5. y = Node(k, y.num, a) /\ y.num \in Nat /\ (k \notin {"ArrayESTerm_c", "ArraySTerm_c"} => y.num = 0)
    <2>1. k \notin {"bool", "uint64_t"}
      BY DEF TypeForms
    <2>. QED
      BY <2>1 DEF IsWritten, Formed
  <1>6. Len(a) = Parts[k]
    <2>1. k \in DOMAIN Parts
      BY DEF TypeForms, Parts
    <2>. QED
      BY <2>1 DEF IsWritten, Formed
  <1> DEFINE u == uint64(y.num)
  <1>7. u.kind = "uint64_t" /\ u.num = y.num
    BY DEF uint64, Node
  <1>8. k \in {"ArrayESTerm_c", "ArraySTerm_c"} => t = a \o <<u>>
    BY DEF Fields
  <1>9. k \in TypeForms \ {"ArrayESTerm_c", "ArraySTerm_c"} => t = a
    BY DEF Fields, TypeForms
  <1>10. CASE k = "ArrayESTerm_c"
    <2>1. Len(a) = 1 /\ h.kind = "ArrayES_c"
      BY <1>4, <1>6, <1>10 DEF Parts, TypeOfKind
    <2>2. a = <<a[1]>>
      BY <1>1, <2>1, OnePart
    <2>3. t = <<a[1], u>>
      <3>1. t = <<a[1]>> \o <<u>>
        BY <1>8, <1>10, <2>2
      <3> HIDE DEF u, t
      <3>2. <<a[1]>> \o <<u>> = <<a[1], u>>
        BY TwoInARow
      <3>. QED
        BY <3>1, <3>2
    <2> HIDE DEF u, t, h
    <2>4. Len(t) = 2 /\ t[1] = a[1] /\ t[2] = u
      BY <2>3
    <2>5. NumberOfTerms(h) = 2 /\ h.kind \in Uncounted
      BY <2>1 DEF NumberOfTerms, Uncounted
    <2>6. Make(h, t) = MakeType(h, t)
      BY <2>1, <2>5, MakeIsMakeType
    <2>7. MakeType(h, t) = ArrayES(a[1], y.num)
      BY <1>7, <2>1, <2>4 DEF MakeType
    <2>8. ArrayES(a[1], y.num) = y
      BY <1>5, <1>10, <2>2 DEF ArrayES
    <2>. QED
      BY <1>2, <2>4, <2>5, <2>6, <2>7, <2>8 DEF IsMadeAgain, t, h
  <1>11. CASE k = "ArraySTerm_c"
    <2>1. Len(a) = 0 /\ h.kind = "ArrayS_c"
      BY <1>4, <1>6, <1>11 DEF Parts, TypeOfKind
    <2>2. a = <<>>
      BY <1>1, <2>1, EmptySeq
    <2>3. t = <<u>>
      <3>1. t = <<>> \o <<u>>
        BY <1>8, <1>11, <2>2
      <3>. QED
        BY <3>1
    <2> HIDE DEF u, t, h
    <2>4. Len(t) = 1 /\ t[1] = u
      BY <2>3
    <2>5. NumberOfTerms(h) = 1 /\ h.kind \in Uncounted
      BY <2>1 DEF NumberOfTerms, Uncounted
    <2>6. Make(h, t) = MakeType(h, t)
      BY <2>1, <2>5, MakeIsMakeType
    <2>7. MakeType(h, t) = ArrayS(y.num)
      BY <1>7, <2>1, <2>4 DEF MakeType
    <2>8. ArrayS(y.num) = y
      BY <1>5, <1>11, <2>2 DEF ArrayS
    <2>. QED
      BY <1>2, <2>4, <2>5, <2>6, <2>7, <2>8 DEF IsMadeAgain, t, h
  <1>12. CASE k = "OrderedMapDCTerm_c"
    <2>1. Len(a) = 2 /\ h.kind = "OrderedMapDC_c" /\ t = a
      BY <1>4, <1>6, <1>9, <1>12 DEF Parts, TypeOfKind
    <2>2. a = <<a[1], a[2]>>
      BY <1>1, <2>1, TwoParts
    <2> HIDE DEF u, t, h
    <2>3. NumberOfTerms(h) = 2 /\ h.kind \in Uncounted
      BY <2>1 DEF NumberOfTerms, Uncounted
    <2>4. Make(h, t) = MakeType(h, t)
      BY <2>1, <2>3, MakeIsMakeType
    <2>5. MakeType(h, t) = OrderedMapDC(a[1], a[2])
      BY <2>1 DEF MakeType
    <2>6. OrderedMapDC(a[1], a[2]) = y
      BY <1>5, <1>12, <2>2 DEF OrderedMapDC
    <2>. QED
      BY <1>2, <2>1, <2>3, <2>4, <2>5, <2>6 DEF IsMadeAgain, t, h
  <1>13. CASE k \in {"ArrayETerm_c", "OrderedMapDTerm_c", "OrderedMapCTerm_c",
                     "OutputTerm_c", "RequestSyncInputTerm_c"}
    <2>1. Len(a) = 1 /\ t = a
      BY <1>6, <1>9, <1>13 DEF Parts
    <2>2. a = <<a[1]>> /\ y.num = 0
      BY <1>1, <1>5, <1>13, <2>1, OnePart
    <2>3. h.kind = CASE k = "ArrayETerm_c" -> "ArrayE_c"
                     [] k = "OrderedMapDTerm_c" -> "OrderedMapD_c"
                     [] k = "OrderedMapCTerm_c" -> "OrderedMapC_c"
                     [] k = "OutputTerm_c" -> "Output_c"
                     [] k = "RequestSyncInputTerm_c" -> "RequestSyncInput_c"
      BY <1>4, <1>13 DEF TypeOfKind
    <2> HIDE DEF u, t, h
    <2>4. NumberOfTerms(h) = 1 /\ h.kind \in Uncounted \ {"ArrayESTerm_c", "ArraySTerm_c"}
      BY <1>13, <2>3 DEF NumberOfTerms, Uncounted
    <2>5. Make(h, t) = MakeType(h, t)
      BY <2>4, MakeIsMakeType
    <2>6. MakeType(h, t) = y
      <3>1. CASE k = "ArrayETerm_c"
        BY <1>5, <2>1, <2>2, <2>3, <3>1 DEF MakeType, ArrayE
      <3>2. CASE k = "OrderedMapDTerm_c"
        BY <1>5, <2>1, <2>2, <2>3, <3>2 DEF MakeType, OrderedMapD
      <3>3. CASE k = "OrderedMapCTerm_c"
        BY <1>5, <2>1, <2>2, <2>3, <3>3 DEF MakeType, OrderedMapC
      <3>4. CASE k = "OutputTerm_c"
        BY <1>5, <2>1, <2>2, <2>3, <3>4 DEF MakeType, Output
      <3>5. CASE k = "RequestSyncInputTerm_c"
        BY <1>5, <2>1, <2>2, <2>3, <3>5 DEF MakeType, RequestSyncInput
      <3>. QED
        BY <1>13, <3>1, <3>2, <3>3, <3>4, <3>5
    <2>. QED
      BY <1>2, <2>1, <2>4, <2>5, <2>6 DEF IsMadeAgain, t, h
  <1>. QED
    BY <1>10, <1>11, <1>12, <1>13 DEF TypeForms

-----------------------------------------------------------------------------
\* The fields are next in the stream when the type was read.
FieldsNext(d, n, m, y, rest) ==
    \E q, in : /\ TermChain(q, Fields(y), in, rest) /\ m - 1 \in 0 .. n /\ Len(in) <= m - 1
               /\ d[m][Serialize(y) \o rest] = DeserializeValue(d[m - 1], Heading(y), in)

\* What is read when the type is.
LEMMA FieldsAreRead ==
    ASSUME NEW n \in Nat, NEW d, IsReader(d, n), NEW y, IsWritten(y), HasFields(y),
           NEW h, h = Heading(y), IsWritten(h), ReadsTerm(d, n, h),
           NEW t, t = Fields(y), t \in Seq(Data), AllWritten(t),
           NEW m \in 0 .. n, NEW rest \in Streams, Len(Serialize(y) \o rest) <= m
    PROVE  FieldsNext(d, n, m, y, rest)
  <1> DEFINE w == SerializedAll(serialize_data, t)
  <1>1. Serialize(y) = (<<PARAMETRIC_TERM>> \o Serialize(h)) \o w
    BY DEF IsWritten, WrittenAs, Serialize
  <1>2. w \in Streams /\ \E q : TermChain(q, t, w \o rest, rest)
    BY ChainOfTerms
  <1> HIDE DEF w
  <1>3. PICK q : TermChain(q, t, w \o rest, rest)
    BY <1>2
  <1>4. Serialize(h) \in Streams /\ h # Exception
    BY DEF IsWritten
  <1>5. Len(((<<PARAMETRIC_TERM>> \o Serialize(h)) \o w) \o rest) <= m
    BY <1>1
  <1> DEFINE in == w \o rest
  <1>6. /\ m - 1 \in 0 .. n /\ Len(in) <= m - 1
        /\ d[m][((<<PARAMETRIC_TERM>> \o Serialize(h)) \o w) \o rest] = DeserializeValue(d[m - 1], h, in)
    BY <1>2, <1>4, <1>5, TypeIsRead
  <1>7. d[m][Serialize(y) \o rest] = DeserializeValue(d[m - 1], h, in)
    BY <1>1, <1>6
  <1> HIDE DEF in
  <1>8. TermChain(q, t, in, rest)
    BY <1>3 DEF in
  <1>. QED
    BY <1>6, <1>7, <1>8 DEF FieldsNext

\* A term of which the type says how many fields it has.
LEMMA UncountedIsRead ==
    ASSUME NEW n \in Nat, NEW d, IsReader(d, n), NEW y, IsWritten(y), HasFields(y),
           NEW h, h = Heading(y), IsWritten(h), ReadsTerm(d, n, h),
           NEW t, t = Fields(y), t \in Seq(Data), AllWritten(t), AllReads(d, n, t), IsMadeAgain(y, h, t)
    PROVE  ReadsTerm(d, n, y)
  <1>1. SUFFICES ASSUME NEW m \in 0 .. n, NEW rest \in Streams, Len(Serialize(y) \o rest) <= m
                 PROVE  d[m][Serialize(y) \o rest] = Reading(y, rest)
    BY DEF ReadsTerm
  <1>2. PICK q, in : /\ TermChain(q, t, in, rest) /\ m - 1 \in 0 .. n /\ Len(in) <= m - 1
                     /\ d[m][Serialize(y) \o rest] = DeserializeValue(d[m - 1], h, in)
    <2>1. FieldsNext(d, n, m, y, rest)
      BY <1>1, FieldsAreRead
    <2>. QED
      BY <2>1 DEF FieldsNext
  <1>3. ReadAndMake(d[m - 1], h, Len(t), in) = Reading(Make(h, t), rest)
    <2> DEFINE k == m - 1
    <2>1. k \in 0 .. n /\ Len(in) <= k
      BY <1>2
    <2> HIDE DEF k
    <2>2. ReadAndMake(d[k], h, Len(t), in) = Reading(Make(h, t), rest)
      BY <1>2, <2>1, TermsInARow
    <2>. QED
      BY <2>2 DEF k
  <1>4. ValueAs(d[m - 1], h, in)
    BY ValueByKind
  <1>. QED
    BY <1>2, <1>3, <1>4 DEF ValueAs, IsMadeAgain

\* Terms that are in a stream where others are: the parts of pairs.
Expands(c, t) == \A q, from, to : TermChain(q, c, from, to) => \E r : TermChain(r, t, from, to)

\* The terms behind the first.
LEMMA TailChain ==
    ASSUME NEW S, NEW c \in Seq(S), NEW u, NEW q, NEW from, NEW to, TermChain(q, <<u>> \o c, from, to)
    PROVE  \E r : TermChain(r, c, q[1], to) /\ from = Serialize(u) \o q[1] /\ q[1] \in Streams
  <1> DEFINE t == <<u>> \o c
             n == Len(c)
             r == [k \in 0 .. n |-> q[k + 1]]
  <1>1. n \in Nat
    BY LenProperties
  <1>2. Len(t) = n + 1 /\ t[1] = u /\ \A i \in 1 .. n : t[i + 1] = c[i]
    <2>1. u \in {u}
      OBVIOUS
    <2>. QED
      BY <2>1, InFront
  <1> HIDE DEF t
  <1>3. /\ \A k \in 0 .. n + 1 : q[k] \in Streams
        /\ q[0] = from /\ q[n + 1] = to
        /\ \A k \in 1 .. n + 1 : q[k - 1] = Serialize(t[k]) \o q[k]
    BY <1>2 DEF TermChain, t
  <1>4. ASSUME NEW k \in 1 .. n PROVE r[k - 1] = Serialize(c[k]) \o r[k]
    <2>1. k - 1 \in 0 .. n /\ k \in 0 .. n /\ k + 1 \in 1 .. n + 1 /\ (k + 1) - 1 = k /\ (k - 1) + 1 = k
      BY <1>1
    <2>2. r[k - 1] = q[(k - 1) + 1] /\ r[k] = q[k + 1]
      BY <2>1
    <2> HIDE DEF r
    <2> DEFINE j == k + 1
    <2>3. q[j - 1] = Serialize(t[j]) \o q[j]
      <3> HIDE DEF j
      <3>. QED
        BY <1>3, <2>1 DEF j
    <2>. QED
      BY <1>2, <2>1, <2>2, <2>3
  <1>5. \A k \in 0 .. n : r[k] \in Streams
    BY <1>1, <1>3
  <1>6. r[0] = q[1] /\ r[n] = to
    BY <1>1, <1>3
  <1> HIDE DEF r, n
  <1>7. TermChain(r, c, q[1], to)
    BY <1>4, <1>5, <1>6 DEF TermChain, n
  <1>8. q[0] = Serialize(u) \o q[1] /\ q[1] \in Streams
    <2>1. 1 \in 1 .. n + 1 /\ 1 \in 0 .. n + 1 /\ 1 - 1 = 0
      BY <1>1
    <2>. QED
      BY <1>2, <1>3, <2>1
  <1>. QED
    BY <1>3, <1>7, <1>8

\* A term with a count in front of its elements.
LEMMA CountedIsRead ==
    ASSUME NEW n \in Nat, NEW d, IsReader(d, n), NEW y, IsWritten(y), HasFields(y),
           NEW h, h = Heading(y), IsWritten(h), ReadsTerm(d, n, h), h.kind \in Counted,
           NEW size \in Nat, NEW u, u = uint64(size), IsWritten(u), ReadsTerm(d, n, u),
           NEW c \in Seq(Data), AllWritten(c), Fields(y) = <<u>> \o c,
           NEW t \in Seq(Data), AllWritten(t), AllReads(d, n, t), Expands(c, t),
           Len(t) = TermsPerElement(h) * size, Make(h, t) = y
    PROVE  ReadsTerm(d, n, y)
  <1>1. SUFFICES ASSUME NEW m \in 0 .. n, NEW rest \in Streams, Len(Serialize(y) \o rest) <= m
                 PROVE  d[m][Serialize(y) \o rest] = Reading(y, rest)
    BY DEF ReadsTerm
  <1> DEFINE f == <<u>> \o c
  <1>2. f \in Seq(Data) /\ AllWritten(f)
    <2>1. u \in Data /\ Serialize(u) \in Streams /\ {u} \subseteq Data
      BY DEF IsWritten
    <2>2. f \in Seq(Data \cup Data) /\ Len(f) = Len(c) + 1 /\ f[1] = u /\ \A i \in 1 .. Len(c) : f[i + 1] = c[i]
      BY <2>1, InFront
    <2>3. Len(c) \in Nat
      BY LenProperties
    <2> HIDE DEF f
    <2>4. ASSUME NEW k \in 1 .. Len(f) PROVE Serialize(f[k]) \in Streams
      <3>1. CASE k = 1
        BY <2>1, <2>2, <3>1
      <3>2. CASE k # 1
        <4> DEFINE j == k - 1
        <4>1. j \in 1 .. Len(c) /\ k = j + 1
          BY <2>2, <2>3, <3>2
        <4> HIDE DEF j
        <4>. QED
          BY <2>2, <4>1 DEF AllWritten
      <3>. QED
        BY <3>1, <3>2
    <2>5. Data \cup Data = Data
      OBVIOUS
    <2>. QED
      BY <2>2, <2>4, <2>5 DEF AllWritten
  <1>3. f = Fields(y)
    OBVIOUS
  <1> HIDE DEF f
  <1>4. PICK q, in : /\ TermChain(q, f, in, rest) /\ m - 1 \in 0 .. n /\ Len(in) <= m - 1
                     /\ d[m][Serialize(y) \o rest] = DeserializeValue(d[m - 1], h, in)
    <2>1. FieldsNext(d, n, m, y, rest)
      BY <1>1, <1>2, <1>3, FieldsAreRead
    <2>. QED
      BY <1>3, <2>1 DEF FieldsNext
  <1>5. PICK r : TermChain(r, c, q[1], rest) /\ in = Serialize(u) \o q[1] /\ q[1] \in Streams
    BY <1>4, TailChain DEF f
  <1> DEFINE k == m - 1
             mid == q[1]
  <1>6. k \in 0 .. n /\ Len(in) <= k /\ mid \in Streams /\ in = Serialize(u) \o mid /\ TermChain(r, c, mid, rest)
    BY <1>4, <1>5
  <1>7. d[m][Serialize(y) \o rest] = DeserializeValue(d[k], h, in)
    BY <1>4
  <1> HIDE DEF k, mid
  <1>8. d[k][in] = Reading(u, mid)
    BY <1>6 DEF ReadsTerm
  <1>9. Len(mid) <= k
    <2>1. Serialize(u) \in Streams
      BY DEF IsWritten
    <2>2. Len(mid) <= Len(in) /\ Len(in) = Len(Serialize(u)) + Len(mid) /\ Len(Serialize(u)) \in Nat
      BY <1>6, <2>1, StreamsJoin
    <2>3. Len(mid) \in Nat
      BY <1>6, LenProperties DEF Streams
    <2>. QED
      BY <1>6, <2>2, <2>3
  <1>10. PICK p : TermChain(p, t, mid, rest)
    BY <1>6 DEF Expands
  <1>11. ReadAndMake(d[k], h, Len(t), mid) = Reading(y, rest)
    <2>1. ReadAndMake(d[k], h, Len(t), mid) = Reading(Make(h, t), rest)
      BY <1>6, <1>9, <1>10, TermsInARow
    <2>. QED
      BY <2>1
  <1>12. ReadCounted(d[k], h, in) = Reading(y, rest)
    <2>1. u.kind = "uint64_t" /\ u.num = size
      BY DEF uint64, Node
    <2>2. d[k][in].data = u /\ d[k][in].rest = mid
      BY <1>8 DEF Reading
    <2>. QED
      BY <1>11, <2>1, <2>2 DEF ReadCounted
  <1>13. ValueAs(d[k], h, in)
    BY ValueByKind
  <1>. QED
    BY <1>7, <1>12, <1>13 DEF ValueAs

-----------------------------------------------------------------------------
\* A container is made of its constraint and its content.
MadeOf(y, h, c) ==
    /\ h \in Data /\ c \in Seq(Data) /\ h = Constraint(y) /\ c = Content(y) /\ h = Heading(y)
    /\ HasFields(y) /\ Len(c) = Size(y) /\ Size(y) \in Nat
    /\ y = Node(y.kind, 0, <<h>> \o c) /\ with_constraint(y) = y

\* So is every container whose constraint is satisfied.
LEMMA ContainerIsMade ==
    ASSUME NEW y, IsWritten(y), IsContainer(y)
    PROVE  MadeOf(y, Constraint(y), Content(y))
  <1> DEFINE a == y.args
             h == Constraint(y)
             c == Content(y)
             m == Len(a)
  <1>1. y \in Data /\ Formed(y) /\ Satisfied(y) /\ y = Node(y.kind, y.num, a) /\ a \in Seq(Data)
    BY PartsAreLower DEF IsWritten
  <1>2. m \in Nat /\ m >= 1 /\ 1 \in DOMAIN a /\ Size(y) \in Nat /\ h = a[1] /\ Size(y) = m - 1
    BY <1>1, FormedContainers DEF Size
  <1>3. h \in Data
    BY <1>1, <1>2
  <1>4. c \in Seq(Data) /\ Len(c) = m - 1
    <2>1. DOMAIN a = 1 .. m /\ \A i \in 1 .. m : a[i] \in Data
      BY <1>1, LenProperties
    <2>2. 2 \in Int /\ m \in Int /\ (IF 2 <= m THEN m - 2 + 1 ELSE 0) = m - 1 /\ \A i \in 2 .. m : a[i] \in Data
      BY <1>2, <2>1
    <2> HIDE DEF a, m
    <2>3. SubSeq(a, 2, m) \in Seq(Data) /\ Len(SubSeq(a, 2, m)) = m - 1
      BY <2>2, SubSeqProperties
    <2>. QED
      BY <2>3 DEF Content, a, m
  <1>5. y.num = 0
    <2>1. y.kind \notin {"bool", "uint64_t", "ArrayESTerm_c", "ArraySTerm_c"}
      BY DEF IsContainer
    <2>. QED
      BY <1>1, <2>1 DEF Formed
  <1>6. a = <<h>> \o c
    <2>1. 1 \in 1 .. m /\ m \in 1 .. m
      BY <1>2
    <2>2. SubSeq(a, 1, m) = <<a[1]>> \o SubSeq(a, 1 + 1, m)
      <3> HIDE DEF a, m
      <3> DEFINE one == 1
      <3>1. one \in 1 .. Len(a) /\ m \in one .. Len(a) /\ a \in Seq(Data)
        BY <1>1, <1>2, <2>1 DEF m
      <3> HIDE DEF one
      <3>2. SubSeq(a, one, m) = <<a[one]>> \o SubSeq(a, one + 1, m)
        BY <3>1, SubSeqRecursiveFirst
      <3>. QED
        BY <3>2 DEF one
    <2>3. SubSeq(a, 1, m) = a
      BY <1>1, SubSeqFull
    <2>4. SubSeq(a, 1 + 1, m) = c
      BY DEF Content
    <2>. QED
      BY <1>2, <2>2, <2>3, <2>4
  <1>7. HasFields(y) /\ h = Heading(y)
    <2>1. HasFields(y) /\ y.kind \notin Singletons
      BY DEF IsContainer, HasFields, Unserializable, Singletons
    <2>2. Heading(y) = AbstractType(y)
      BY DEF IsContainer, Heading
    <2>3. AbstractType(y) = Constraint(y)
      BY <1>1, <2>1, TypesWritten DEF IsContainer
    <2>. QED
      BY <2>1, <2>2, <2>3
  <1>8. with_constraint(y) = y
    BY <1>1 DEF with_constraint, Satisfied
  <1>. QED
    BY <1>1, <1>2, <1>3, <1>4, <1>5, <1>6, <1>7, <1>8 DEF MadeOf

\* An array.
LEMMA ArrayIsMade ==
    ASSUME NEW y, IsWritten(y), y.kind = "ArrayTerm_c", NEW h, NEW c, MadeOf(y, h, c)
    PROVE  \/ Fields(y) = c /\ IsMadeAgain(y, h, c)
           \/ /\ h.kind \in Counted /\ Fields(y) = <<uint64(Size(y))>> \o c
              /\ Len(c) = TermsPerElement(h) * Size(y) /\ Make(h, c) = y
  <1>1. h.kind \in ArrayTypes /\ h = Constraint(y)
    BY DEF IsWritten, Formed, MadeOf
  <1>2. Make(h, c) = y
    <2>1. Make(h, c) = with_constraint(ArrayTerm(h, c))
      BY <1>1 DEF Make, ArrayTypes, OrderedMapTypes
    <2>2. ArrayTerm(h, c) = y
      BY DEF MadeOf, ArrayTerm
    <2>. QED
      BY <2>1, <2>2 DEF MadeOf
  <1>3. CASE h.kind \in {"ArrayESTerm_c", "ArraySTerm_c"}
    <2>1. Fields(y) = c
      BY <1>1, <1>3 DEF Fields, MadeOf
    <2>2. Len(c) = h.num
      <3>1. verify_constraint(h, c)
        BY DEF IsWritten, Satisfied, IsContainer, MadeOf
      <3>2. CASE h.kind = "ArrayESTerm_c"
        BY <3>1, <3>2 DEF verify_constraint
      <3>3. CASE h.kind = "ArraySTerm_c"
        BY <3>1, <3>3 DEF verify_constraint
      <3>. QED
        BY <1>3, <3>2, <3>3
    <2>3. NumberOfTerms(h) = h.num /\ h.kind \in Uncounted
      BY <1>3 DEF NumberOfTerms, Uncounted
    <2>. QED
      BY <1>2, <2>1, <2>2, <2>3 DEF IsMadeAgain
  <1>4. CASE h.kind \notin {"ArrayESTerm_c", "ArraySTerm_c"}
    <2>1. h.kind \in Counted /\ h.kind \notin OrderedMapTypes
      BY <1>1, <1>4 DEF ArrayTypes, Counted, OrderedMapTypes
    <2>2. Fields(y) = <<uint64(Size(y))>> \o c
      BY <1>1, <1>4 DEF Fields, MadeOf
    <2>3. TermsPerElement(h) = 1 /\ Len(c) = Size(y) /\ Size(y) \in Nat
      BY <2>1 DEF TermsPerElement, MadeOf
    <2>. QED
      BY <1>2, <2>1, <2>2, <2>3
  <1>. QED
    BY <1>3, <1>4

\* Even and odd numbers.
LEMMA Halves ==
    ASSUME NEW i \in Int
    PROVE  /\ (2 * i) % 2 = 0 /\ (2 * i) \div 2 = i
           /\ (2 * i - 1) % 2 = 1 /\ ((2 * i - 1) + 1) \div 2 = i
  <1>. QED
    OBVIOUS

\* The keys and values of pairs.
PartsOf(c) ==
    [i \in 1 .. 2 * Len(c) |-> IF i % 2 = 1 THEN c[(i + 1) \div 2].args[1] ELSE c[i \div 2].args[2]]

ArePairs(c) == \A i \in 1 .. Len(c) : c[i] = Pair(c[i].args[1], c[i].args[2])
                                      /\ c[i].args[1] \in Data /\ c[i].args[2] \in Data

\* They are read one after the other, and paired again.
LEMMA PartsOfPairs ==
    ASSUME NEW c \in Seq(Data), ArePairs(c)
    PROVE  LET t == PartsOf(c)
           IN  /\ t \in Seq(Data) /\ Len(t) = 2 * Len(c) /\ PairsOf(t) = c
               /\ \A i \in 1 .. Len(c) : t[2 * i - 1] = c[i].args[1] /\ t[2 * i] = c[i].args[2]
               /\ \A k \in 1 .. Len(t) : \E i \in 1 .. Len(c) :
                    (k = 2 * i - 1 /\ t[k] = c[i].args[1]) \/ (k = 2 * i /\ t[k] = c[i].args[2])
  <1> DEFINE n == Len(c)
             t == PartsOf(c)
  <1>1. n \in Nat /\ 2 * n \in Nat
    BY LenProperties
  <1>2. t = [i \in 1 .. 2 * n |-> IF i % 2 = 1 THEN c[(i + 1) \div 2].args[1] ELSE c[i \div 2].args[2]]
    BY DEF PartsOf
  <1> HIDE DEF t
  <1>3. ASSUME NEW i \in 1 .. n PROVE t[2 * i - 1] = c[i].args[1] /\ t[2 * i] = c[i].args[2]
    <2> DEFINE j == 2 * i - 1
               k == 2 * i
    <2>1. j \in 1 .. 2 * n /\ j % 2 = 1 /\ (j + 1) \div 2 = i
      <3>1. j \in 1 .. 2 * n /\ i \in Int
        BY <1>1
      <3>. QED
        BY <3>1, Halves
    <2>2. k \in 1 .. 2 * n /\ k % 2 # 1 /\ k \div 2 = i
      <3>1. k \in 1 .. 2 * n /\ i \in Int /\ 0 # 1
        BY <1>1
      <3>. QED
        BY <3>1, Halves
    <2> HIDE DEF j, k
    <2>3. t[j] = c[i].args[1] /\ t[k] = c[i].args[2]
      BY <1>2, <2>1, <2>2
    <2>. QED
      BY <2>3 DEF j, k
  <1>4. ASSUME NEW k \in 1 .. 2 * n
        PROVE  \E i \in 1 .. n : (k = 2 * i - 1 /\ t[k] = c[i].args[1]) \/ (k = 2 * i /\ t[k] = c[i].args[2])
    <2>1. CASE k % 2 = 1
      <3> DEFINE i == (k + 1) \div 2
      <3>1. i \in 1 .. n /\ k = 2 * i - 1
        BY <1>1, <2>1
      <3> HIDE DEF i
      <3>2. t[2 * i - 1] = c[i].args[1]
        BY <1>3, <3>1
      <3>3. t[k] = c[i].args[1]
        BY <3>1, <3>2
      <3>. QED
        BY <3>1, <3>3
    <2>2. CASE k % 2 # 1
      <3> DEFINE i == k \div 2
      <3>1. i \in 1 .. n /\ k = 2 * i
        BY <1>1, <2>2
      <3> HIDE DEF i
      <3>. QED
        BY <1>3, <3>1
    <2>. QED
      BY <2>1, <2>2
  <1>5. t \in Seq(Data) /\ Len(t) = 2 * n
    <2>1. \A i \in 1 .. n : c[i].args[1] \in Data /\ c[i].args[2] \in Data
      BY DEF ArePairs
    <2>2. \A k \in 1 .. 2 * n : t[k] \in Data
      BY <1>4, <2>1
    <2>3. t \in [1 .. 2 * n -> Data]
      BY <1>2, <2>2
    <2>4. t \in Seq(Data)
      BY <1>1, <2>3
    <2>5. DOMAIN t = 1 .. 2 * n
      BY <1>2
    <2>. QED
      BY <1>1, <2>4, <2>5, LenProperties
  <1>6. PairsOf(t) = c
    <2>1. Len(t) \div 2 = n
      BY <1>1, <1>5
    <2>2. PairsOf(t) = [i \in 1 .. n |-> Pair(t[2 * i - 1], t[2 * i])]
      BY <2>1 DEF PairsOf
    <2>3. c = [i \in 1 .. n |-> c[i]]
      BY LenProperties
    <2>4. \A i \in 1 .. n : c[i] = Pair(t[2 * i - 1], t[2 * i])
      BY <1>3 DEF ArePairs
    <2> HIDE DEF n
    <2>. QED
      BY <2>2, <2>3, <2>4
  <1>. QED
    BY <1>3, <1>4, <1>5, <1>6 DEF t

-----------------------------------------------------------------------------
\* A pair is written as its key and its value.
LEMMA PairIsWritten ==
    ASSUME NEW p, IsWritten(p), p.kind = "pair", NEW k, NEW v, p = Pair(k, v),
           Serialize(k) \in Streams, Serialize(v) \in Streams
    PROVE  Serialize(p) = Serialize(k) \o Serialize(v)
  <1> DEFINE a == Serialize(k)
             b == Serialize(v)
             s == <<a, b>>
  <1>1. Serialize(p) = SerializedAll(serialize_data, p.args)
    BY DEF IsWritten, WrittenAs
  <1>2. p.args = <<k, v>>
    BY DEF Pair, Node
  <1>3. SerializedAll(serialize_data, p.args) = FlattenSeq(s)
    <2>1. [i \in DOMAIN <<k, v>> |-> serialize_data[<<k, v>>[i]]] = <<serialize_data[k], serialize_data[v]>>
      OBVIOUS
    <2>. QED
      BY <1>2, <2>1 DEF SerializedAll, Serialize
  <1>4. a \in Streams /\ b \in Streams
    OBVIOUS
  <1> HIDE DEF a, b
  <1>5. s \in Seq(Seq(Item)) /\ Len(s) = 2 /\ s[1] = a /\ s[2] = b
    BY <1>4 DEF Streams
  <1> HIDE DEF s
  <1>6. \E f : Joined(f, s)
    BY <1>5, FlattenJoins
  <1>7. PICK f : Joined(f, s)
    BY <1>6
  <1>8. f[0] = <<>> /\ f[1] = f[0] \o a /\ f[2] = f[1] \o b /\ FlattenSeq(s) = f[2]
    <2>1. /\ f[0] = <<>> /\ \A i \in 1 .. 2 : f[i] = f[i - 1] \o s[i]
          /\ FlattenSeq(s) = f[2]
      BY <1>5, <1>7 DEF Joined
    <2>2. 1 \in 1 .. 2 /\ 2 \in 1 .. 2 /\ 1 - 1 = 0 /\ 2 - 1 = 1
      OBVIOUS
    <2>. QED
      BY <1>5, <2>1, <2>2
  <1>9. f[1] = a
    BY <1>4, <1>8, NothingInFront
  <1>. QED
    BY <1>1, <1>3, <1>8, <1>9 DEF a, b

PairsWritten(c) ==
    \A i \in 1 .. Len(c) : /\ IsWritten(c[i]) /\ c[i].kind = "pair"
                           /\ Serialize(c[i].args[1]) \in Streams /\ Serialize(c[i].args[2]) \in Streams

\* So the keys and the values are in the stream where the pairs are.
LEMMA PairsExpand ==
    ASSUME NEW c \in Seq(Data), ArePairs(c), PairsWritten(c)
    PROVE  Expands(c, PartsOf(c))
  <1>1. SUFFICES ASSUME NEW q, NEW from, NEW to, TermChain(q, c, from, to)
                 PROVE  \E r : TermChain(r, PartsOf(c), from, to)
    BY DEF Expands
  <1> DEFINE n == Len(c)
             t == PartsOf(c)
             V(i) == Serialize(c[i].args[2]) \o q[i]
             r == [k \in 0 .. 2 * n |-> IF k % 2 = 1 THEN V((k + 1) \div 2) ELSE q[k \div 2]]
  <1>2. n \in Nat /\ 2 * n \in Nat
    BY LenProperties
  <1>3. /\ Len(t) = 2 * n
        /\ \A i \in 1 .. n : t[2 * i - 1] = c[i].args[1] /\ t[2 * i] = c[i].args[2]
        /\ \A k \in 1 .. 2 * n : \E i \in 1 .. n : k = 2 * i - 1 \/ k = 2 * i
    <2>1. /\ Len(t) = 2 * n
          /\ \A i \in 1 .. n : t[2 * i - 1] = c[i].args[1] /\ t[2 * i] = c[i].args[2]
          /\ \A k \in 1 .. Len(t) : \E i \in 1 .. n :
               (k = 2 * i - 1 /\ t[k] = c[i].args[1]) \/ (k = 2 * i /\ t[k] = c[i].args[2])
      BY PartsOfPairs
    <2> HIDE DEF t, n
    <2>2. ASSUME NEW k \in 1 .. 2 * n PROVE \E i \in 1 .. n : k = 2 * i - 1 \/ k = 2 * i
      <3>1. PICK i \in 1 .. n : (k = 2 * i - 1 /\ t[k] = c[i].args[1]) \/ (k = 2 * i /\ t[k] = c[i].args[2])
        BY <2>1
      <3>. QED
        BY <3>1
    <2>3. \A k \in 1 .. 2 * n : \E i \in 1 .. n : k = 2 * i - 1 \/ k = 2 * i
      BY <2>2
    <2>. QED
      BY <2>1, <2>3
  <1>4. /\ \A i \in 0 .. n : q[i] \in Streams
        /\ q[0] = from /\ q[n] = to
        /\ \A i \in 1 .. n : q[i - 1] = Serialize(c[i]) \o q[i]
    <2> HIDE DEF r, t, V
    <2>1. \A i \in 0 .. n : q[i] \in Streams
      BY <1>1 DEF TermChain
    <2>2. q[0] = from /\ q[n] = to
      BY <1>1 DEF TermChain
    <2>3. \A i \in 1 .. n : q[i - 1] = Serialize(c[i]) \o q[i]
      BY <1>1 DEF TermChain
    <2>. QED
      BY <2>1, <2>2, <2>3
  <1> HIDE DEF t, n
  <1>5. ASSUME NEW i \in 1 .. n PROVE q[i - 1] = Serialize(c[i].args[1]) \o V(i) /\ V(i) \in Streams
    <2> DEFINE a == Serialize(c[i].args[1])
               b == Serialize(c[i].args[2])
    <2>1. a \in Streams /\ b \in Streams /\ q[i] \in Streams
      <3>1. i \in 0 .. n
        BY <1>2
      <3>. QED
        BY <1>4, <3>1 DEF PairsWritten, n
    <2>2. Serialize(c[i]) = a \o b
      <3>1. IsWritten(c[i]) /\ c[i].kind = "pair" /\ c[i] = Pair(c[i].args[1], c[i].args[2])
        BY DEF PairsWritten, ArePairs, n
      <3>. QED
        BY <2>1, <3>1, PairIsWritten
    <2>3. q[i - 1] = (a \o b) \o q[i]
      BY <1>4, <2>2
    <2> HIDE DEF a, b
    <2>4. (a \o b) \o q[i] = a \o (b \o q[i]) /\ b \o q[i] \in Streams
      BY <2>1, StreamsJoin
    <2>. QED
      BY <2>3, <2>4 DEF a, b
  <1>6. ASSUME NEW i \in 1 .. n
        PROVE  r[2 * i - 1] = V(i) /\ r[2 * i] = q[i] /\ r[2 * i - 2] = q[i - 1]
    <2> DEFINE j == 2 * i - 1
               k == 2 * i
               l == 2 * i - 2
    <2>1. j \in 0 .. 2 * n /\ j % 2 = 1 /\ (j + 1) \div 2 = i
      <3>1. j \in 0 .. 2 * n /\ i \in Int
        BY <1>2
      <3>. QED
        BY <3>1, Halves
    <2>2. k \in 0 .. 2 * n /\ k % 2 # 1 /\ k \div 2 = i
      <3>1. k \in 0 .. 2 * n /\ i \in Int /\ 0 # 1
        BY <1>2
      <3>. QED
        BY <3>1, Halves
    <2>3. l \in 0 .. 2 * n /\ l % 2 # 1 /\ l \div 2 = i - 1
      <3> DEFINE h == i - 1
      <3>1. l \in 0 .. 2 * n /\ h \in Int /\ 0 # 1 /\ l = 2 * h
        BY <1>2
      <3> HIDE DEF h, l
      <3>2. l % 2 # 1 /\ l \div 2 = h
        BY <3>1, Halves
      <3>. QED
        BY <3>1, <3>2 DEF h
    <2> HIDE DEF j, k, l, V
    <2>4. r[j] = V(i)
      BY <2>1
    <2>5. r[k] = q[i]
      BY <2>2
    <2>6. r[l] = q[i - 1]
      BY <2>3
    <2>. QED
      BY <2>4, <2>5, <2>6 DEF j, k, l
  <1>7. r[0] = from /\ r[2 * n] = to
    <2> DEFINE z == 0
    <2>1. z \in 0 .. 2 * n /\ z % 2 # 1 /\ z \div 2 = 0
      BY <1>2
    <2> HIDE DEF z
    <2>2. r[z] = q[0]
      <3> HIDE DEF V
      <3>. QED
        BY <2>1
    <2>3. r[2 * n] = q[n]
      <3> DEFINE k == 2 * n
      <3>1. k \in 0 .. 2 * n /\ n \in Int /\ 0 # 1
        BY <1>2
      <3>2. k % 2 # 1 /\ k \div 2 = n
        BY <3>1, Halves
      <3> HIDE DEF k, V
      <3>3. r[k] = q[n]
        BY <3>1, <3>2
      <3>. QED
        BY <3>3 DEF k
    <2> HIDE DEF r
    <2>. QED
      BY <1>4, <2>2, <2>3 DEF z
  <1> HIDE DEF r
  <1>8. ASSUME NEW k \in 1 .. 2 * n
        PROVE  r[k - 1] = Serialize(t[k]) \o r[k] /\ r[k] \in Streams
    <2>1. PICK i \in 1 .. n : k = 2 * i - 1 \/ k = 2 * i
      BY <1>3
    <2>2. /\ r[2 * i - 1] = V(i) /\ r[2 * i] = q[i] /\ r[2 * i - 2] = q[i - 1]
          /\ q[i - 1] = Serialize(c[i].args[1]) \o V(i) /\ V(i) \in Streams
          /\ t[2 * i - 1] = c[i].args[1] /\ t[2 * i] = c[i].args[2]
      <3> HIDE DEF V
      <3>. QED
        BY <1>3, <1>5, <1>6
    <2>3. q[i] \in Streams
      <3>1. i \in 0 .. n
        BY <1>2
      <3>. QED
        BY <1>4, <3>1
    <2>4. V(i) = Serialize(c[i].args[2]) \o q[i]
      OBVIOUS
    <2> HIDE DEF V
    <2>5. CASE k = 2 * i - 1
      <3>1. k - 1 = 2 * i - 2
        BY <1>2, <2>5
      <3>. QED
        BY <2>2, <2>5, <3>1
    <2>6. CASE k = 2 * i
      <3>1. k - 1 = 2 * i - 1
        BY <2>6
      <3>. QED
        BY <2>2, <2>3, <2>4, <2>6, <3>1
    <2>. QED
      BY <2>1, <2>5, <2>6
  <1>9. \A k \in 0 .. 2 * n : r[k] \in Streams
    <2>1. ASSUME NEW k \in 0 .. 2 * n PROVE r[k] \in Streams
      <3>1. CASE k = 0
        <4>1. q[0] \in Streams
          BY <1>2, <1>4
        <4>. QED
          BY <1>4, <1>7, <3>1, <4>1
      <3>2. CASE k # 0
        <4>1. k \in 1 .. 2 * n
          BY <1>2, <3>2
        <4>. QED
          BY <1>8, <4>1
      <3>. QED
        BY <3>1, <3>2
    <2>. QED
      BY <2>1
  <1>10. TermChain(r, t, from, to)
    BY <1>3, <1>7, <1>8, <1>9 DEF TermChain
  <1>. QED
    BY <1>10 DEF t

\* An ordered map.
LEMMA MapIsMade ==
    ASSUME NEW y, IsWritten(y), y.kind = "OrderedMapTerm_c", NEW h, NEW c, MadeOf(y, h, c),
           ArePairs(c), make_ordered_map(c) = c
    PROVE  /\ h.kind \in Counted /\ Fields(y) = <<uint64(Size(y))>> \o c
           /\ Len(PartsOf(c)) = TermsPerElement(h) * Size(y) /\ Make(h, PartsOf(c)) = y
  <1>1. h.kind \in OrderedMapTypes /\ h = Constraint(y) /\ c \in Seq(Data)
    BY DEF IsWritten, Formed, MadeOf
  <1> DEFINE t == PartsOf(c)
  <1>2. Len(t) = 2 * Len(c) /\ PairsOf(t) = c
    BY <1>1, PartsOfPairs
  <1> HIDE DEF t
  <1>3. Make(h, t) = y
    <2>1. Make(h, t) = with_constraint(OrderedMapTerm(h, make_ordered_map(PairsOf(t))))
      <3>1. h.kind \notin ArrayTypes
        BY <1>1 DEF ArrayTypes, OrderedMapTypes
      <3>2. h.kind # "Union_c" /\ h.kind # "Tuple_c"
        BY <1>1 DEF OrderedMapTypes
      <3>. QED
        BY <1>1, <3>1, <3>2 DEF Make
    <2>2. OrderedMapTerm(h, c) = y
      BY DEF MadeOf, OrderedMapTerm
    <2>. QED
      BY <1>2, <2>1, <2>2 DEF MadeOf
  <1>4. h.kind \in Counted /\ TermsPerElement(h) = 2
    BY <1>1 DEF Counted, TermsPerElement
  <1>5. Fields(y) = <<uint64(Size(y))>> \o c
    BY DEF Fields, MadeOf
  <1>6. Len(t) = TermsPerElement(h) * Size(y)
    BY <1>2, <1>4 DEF MadeOf
  <1>. QED
    BY <1>3, <1>4, <1>5, <1>6 DEF t

-----------------------------------------------------------------------------
(***************************************************************************)
(* Everything that can be read back is.                                    *)
(***************************************************************************)
\* The kinds that can be read back.
LEMMA ReadableKinds ==
    \A k \in Kinds \ UnreadableKinds :
        \/ k \in Singletons \/ k \in {"bool", "uint64_t"} \/ k \in TypeForms
        \/ k = "pair" \/ k = "ArrayTerm_c" \/ k = "OrderedMapTerm_c"
  <1>1. \A k \in ArrayTypes \cup OrderedMapTypes : k \in Singletons \/ k \in TypeForms
    BY DEF ArrayTypes, OrderedMapTypes, TypeForms, Singletons
  <1>2. \A k \in Incomparable : k \in Unserializable \/ k \in TypeForms
    BY DEF Incomparable, TypeForms, Unserializable
  <1>3. \A k \in {"bool", "uint64_t", "int64_t", "pair", "UnionTerm_c", "TupleTerm_c", "ArrayTerm_c",
                  "OrderedMapTerm_c", "FreeVarTerm_c"} :
          \/ k \in {"bool", "uint64_t"} \/ k = "pair" \/ k = "ArrayTerm_c" \/ k = "OrderedMapTerm_c"
          \/ k \in {"int64_t", "UnionTerm_c", "TupleTerm_c"} \/ k \in Unserializable
    BY DEF Unserializable
  <1>. QED
    BY <1>1, <1>2, <1>3 DEF Kinds, UnreadableKinds

\* The Data less deep than another that are read on their own.
Below(y) == {e \in Shallower(y) \cap Readables : e.kind # "pair"}

\* The parts of a Data that can be read back are, but for the pairs of a map.
LEMMA PartsBelow ==
    ASSUME NEW y \in Readables, y.kind \notin Singletons, y.kind \notin {"bool", "uint64_t"}
    PROVE  /\ \A i \in DOMAIN y.args : y.args[i] \in Shallower(y) \cap Readables
           /\ y.kind # "OrderedMapTerm_c" => y.args \in Seq(Below(y))
           /\ \A k \in Nat : uint64(k) \in Below(y)
  <1>1. y \in Data /\ Formed(y) /\ y.args \in Seq(Data)
    BY ReadableIsWritten, PartsAreLower DEF IsWritten
  <1>2. y.args \in Seq(Shallower(y))
    BY <1>1, WhatIsShallower
  <1>3. \A i \in DOMAIN y.args : y.args[i] \in Shallower(y)
    BY <1>2, LenProperties
  <1>4. \A i \in DOMAIN y.args : y.args[i] \in Readables
    BY ThroughoutParts DEF Readables
  <1>5. ASSUME y.kind # "OrderedMapTerm_c" PROVE y.args \in Seq(Below(y))
    <2>1. \A i \in DOMAIN y.args : y.args[i].kind # "pair"
      BY <1>1, <1>5 DEF Formed
    <2>2. \A i \in DOMAIN y.args : y.args[i] \in Below(y)
      BY <1>3, <1>4, <2>1 DEF Below
    <2>3. DOMAIN y.args = 1 .. Len(y.args) /\ Len(y.args) \in Nat /\ y.args \in [1 .. Len(y.args) -> Data]
      BY <1>1, LenProperties
    <2>4. y.args \in [1 .. Len(y.args) -> Below(y)]
      BY <2>2, <2>3
    <2>. QED
      BY <2>3, <2>4
  <1>6. ASSUME NEW k \in Nat PROVE uint64(k) \in Below(y)
    <2>1. uint64(k) \in Shallower(y)
      BY <1>1, WhatIsShallower
    <2>2. uint64(k) \in Readables
      BY PlainIsReadable, PlainThroughout DEF Readables
    <2>3. uint64(k).kind = "uint64_t" /\ "uint64_t" # "pair"
      BY DEF uint64, Node
    <2>. QED
      BY <2>1, <2>2, <2>3 DEF Below
  <1>. QED
    BY <1>3, <1>4, <1>5, <1>6

\* What is below is written and read.
LEMMA BelowIsRead ==
    ASSUME NEW y, NEW n, NEW d, \A e \in Below(y) : ReadsTerm(d, n, e), NEW t \in Seq(Below(y))
    PROVE  t \in Seq(Data) /\ AllWritten(t) /\ AllReads(d, n, t)
  <1>1. Below(y) \subseteq Data
    BY DEF Below, Shallower
  <1>2. \A k \in 1 .. Len(t) : t[k] \in Below(y)
    BY ElementOfSeq
  <1>3. \A e \in Below(y) : IsWritten(e)
    BY ReadableIsWritten DEF Below
  <1>4. \A e \in Below(y) : Serialize(e) \in Streams /\ e # Exception
    BY <1>3 DEF IsWritten
  <1>. QED
    BY <1>1, <1>2, <1>4, SeqMonotonic DEF AllWritten, AllReads

\* A heading is read on its own.
LEMMA HeadingBelow ==
    ASSUME NEW y \in Readables, HasFields(y)
    PROVE  Heading(y) \in Below(y) /\ IsWritten(Heading(y))
  <1>1. y \in Data /\ Formed(y) /\ y.kind \notin Singletons /\ y.kind \in Kinds \ UnreadableKinds
    BY ReadableIsWritten DEF IsWritten, HasFields
  <1>2. Heading(y) \in Shallower(y)
    BY <1>1, HeadingIsShallower
  <1>3. Heading(y) \in Readables
    BY PlainIsReadable, HeadingIsThroughout DEF Readables
  <1>4. Heading(y).kind # "pair"
    <2>1. Heading(y) = AbstractType(y)
      <3>1. y.kind \notin {"UnionTerm_c", "TupleTerm_c"}
        BY <1>1 DEF UnreadableKinds
      <3>. QED
        BY <3>1 DEF Heading
    <2>2. CASE IsContainer(y)
      <3>1. AbstractType(y) = Constraint(y)
        BY <1>1, <2>2, TypesWritten DEF IsContainer
      <3>2. Constraint(y).kind \in ArrayTypes \cup OrderedMapTypes
        BY <1>1, <2>2 DEF Formed, IsContainer
      <3>3. "pair" \notin ArrayTypes \cup OrderedMapTypes
        BY DEF ArrayTypes, OrderedMapTypes
      <3>. QED
        BY <2>1, <3>1, <3>2, <3>3
    <2>3. CASE ~ IsContainer(y)
      <3>1. y.kind \in TypeForms
        BY <1>1, <2>3, ReadableKinds DEF HasFields, IsContainer
      <3>2. y.kind \in DOMAIN TypeOfKind
        BY <3>1 DEF TypeForms, TypeOfKind
      <3>3. AbstractType(y) = Atom(TypeOfKind[y.kind])
        BY <1>1, <3>2, TypesWritten
      <3>4. TypeOfKind[y.kind] \in Singletons
        BY <3>2, TypeKinds
      <3>5. "pair" \notin Singletons
        BY DEF Singletons
      <3>6. Heading(y).kind = TypeOfKind[y.kind]
        BY <2>1, <3>3 DEF Atom, Node
      <3>. QED
        BY <3>4, <3>5, <3>6
    <2>. QED
      BY <2>2, <2>3
  <1>. QED
    BY <1>2, <1>3, <1>4, ReadableIsWritten DEF Below

\* A type with parameters, or a term that asks front for something.
LEMMA FormIsRead ==
    ASSUME NEW n \in Nat, NEW d, IsReader(d, n), NEW y \in Readables, y.kind \in TypeForms,
           \A e \in Below(y) : ReadsTerm(d, n, e)
    PROVE  ReadsTerm(d, n, y)
  <1> DEFINE h == Heading(y)
             t == Fields(y)
             u == uint64(y.num)
  <1>1. IsWritten(y) /\ HasFields(y) /\ IsMadeAgain(y, h, t)
    BY ReadableIsWritten, MadeOfFields
  <1>2. h \in Below(y) /\ IsWritten(h) /\ ReadsTerm(d, n, h)
    BY <1>1, HeadingBelow
  <1>3. t \in Seq(Below(y))
    <2>1. y.kind \notin Singletons /\ y.kind \notin {"bool", "uint64_t"} /\ y.kind # "OrderedMapTerm_c"
      BY <1>1 DEF HasFields, TypeForms
    <2>2. y.num \in Nat
      BY <1>1 DEF IsWritten, Formed
    <2>3. y.args \in Seq(Below(y)) /\ u \in Below(y)
      BY <2>1, <2>2, PartsBelow
    <2>4. t = y.args \/ t = y.args \o <<u>>
      BY DEF Fields, TypeForms
    <2> HIDE DEF t, u
    <2>5. <<u>> \in Seq(Below(y))
      BY <2>3
    <2>6. y.args \o <<u>> \in Seq(Below(y))
      BY <2>3, <2>5, ConcatProperties
    <2>. QED
      BY <2>3, <2>4, <2>6
  <1> HIDE DEF u, h
  <1>4. t \in Seq(Data) /\ AllWritten(t) /\ AllReads(d, n, t)
    <2> HIDE DEF t
    <2>. QED
      BY <1>3, BelowIsRead
  <1>. QED
    BY <1>1, <1>2, <1>4, UncountedIsRead DEF h

\* An array.
LEMMA ArrayIsRead ==
    ASSUME NEW n \in Nat, NEW d, IsReader(d, n), NEW y \in Readables, y.kind = "ArrayTerm_c",
           \A e \in Below(y) : ReadsTerm(d, n, e)
    PROVE  ReadsTerm(d, n, y)
  <1> DEFINE h == Constraint(y)
             c == Content(y)
             size == Size(y)
             u == uint64(size)
  <1>1. IsWritten(y) /\ MadeOf(y, h, c)
    BY ReadableIsWritten, ContainerIsMade DEF IsContainer
  <1>2. HasFields(y) /\ h = Heading(y) /\ size \in Nat
    BY <1>1 DEF MadeOf
  <1>3. h \in Below(y) /\ IsWritten(h) /\ ReadsTerm(d, n, h)
    <2> HIDE DEF h
    <2>. QED
      BY <1>2, HeadingBelow
  <1>4. y.kind \notin Singletons /\ y.kind \notin {"bool", "uint64_t"} /\ y.kind # "OrderedMapTerm_c"
    BY <1>2 DEF HasFields
  <1>5. u \in Below(y) /\ IsWritten(u) /\ ReadsTerm(d, n, u)
    <2>1. u \in Below(y)
      BY <1>2, <1>4, PartsBelow
    <2> HIDE DEF u
    <2>. QED
      BY <2>1, ReadableIsWritten DEF Below
  <1>6. c \in Seq(Below(y))
    BY <1>4, PartsBelow, ContentOf
  <1>7. c \in Seq(Data) /\ AllWritten(c) /\ AllReads(d, n, c)
    <2> HIDE DEF c
    <2>. QED
      BY <1>6, BelowIsRead
  <1>8. \/ Fields(y) = c /\ IsMadeAgain(y, h, c)
        \/ /\ h.kind \in Counted /\ Fields(y) = <<u>> \o c
           /\ Len(c) = TermsPerElement(h) * size /\ Make(h, c) = y
    BY <1>1, ArrayIsMade
  <1> HIDE DEF h, c, u, size
  <1>9. CASE Fields(y) = c /\ IsMadeAgain(y, h, c)
    BY <1>1, <1>2, <1>3, <1>7, <1>9, UncountedIsRead
  <1>10. CASE /\ h.kind \in Counted /\ Fields(y) = <<u>> \o c
              /\ Len(c) = TermsPerElement(h) * size /\ Make(h, c) = y
    <2>1. Expands(c, c)
      BY DEF Expands
    <2>2. u = uint64(size)
      BY DEF u
    <2>. QED
      BY <1>1, <1>2, <1>3, <1>5, <1>7, <1>10, <2>1, <2>2, CountedIsRead
  <1>. QED
    BY <1>8, <1>9, <1>10

-----------------------------------------------------------------------------
\* A pair is made of its key and its value.
LEMMA PairFacts ==
    ASSUME NEW p \in Readables, p.kind = "pair"
    PROVE  /\ p = Pair(p.args[1], p.args[2])
           /\ p.args[1] \in Below(p) /\ p.args[2] \in Below(p)
  <1> DEFINE a == p.args
  <1>1. IsWritten(p) /\ Formed(p) /\ p = Node(p.kind, p.num, a)
    BY ReadableIsWritten DEF IsWritten
  <1>2. a \in Seq(Below(p))
    <2>1. p.kind \notin Singletons /\ p.kind \notin {"bool", "uint64_t"} /\ p.kind # "OrderedMapTerm_c"
      BY DEF Singletons
    <2>. QED
      BY <2>1, PartsBelow
  <1>3. Len(a) = 2 /\ p.num = 0
    <2>1. p.kind \in DOMAIN Parts /\ Parts[p.kind] = 2
      BY DEF Parts
    <2>2. p.kind \notin {"bool", "uint64_t", "ArrayESTerm_c", "ArraySTerm_c"}
      OBVIOUS
    <2>. QED
      BY <1>1, <2>1, <2>2 DEF Formed
  <1> HIDE DEF a
  <1>4. a = <<a[1], a[2]>> /\ a[1] \in Below(p) /\ a[2] \in Below(p)
    BY <1>2, <1>3, TwoParts
  <1>. QED
    BY <1>1, <1>3, <1>4 DEF Pair, a

\* What is below something below is below.
LEMMA BelowBelow ==
    ASSUME NEW y \in Data, NEW p \in Shallower(y)
    PROVE  Below(p) \subseteq Below(y)
  <1>1. p \in Data /\ Depth[p] < Depth[y]
    BY DEF Shallower
  <1>2. \A e \in Data : Depth[e] \in Nat
    BY DepthType
  <1>3. Shallower(p) \subseteq Shallower(y)
    <2>1. ASSUME NEW e \in Shallower(p) PROVE e \in Shallower(y)
      <3>1. e \in Data /\ Depth[e] < Depth[p]
        BY DEF Shallower
      <3>2. Depth[e] \in Nat /\ Depth[p] \in Nat /\ Depth[y] \in Nat
        BY <1>1, <1>2, <3>1
      <3>3. Depth[e] < Depth[y]
        BY <1>1, <3>1, <3>2
      <3>. QED
        BY <3>1, <3>3 DEF Shallower
    <2>. QED
      BY <2>1
  <1>. QED
    BY <1>3 DEF Below

\* The pairs of an ordered map.
LEMMA PairsOfMap ==
    ASSUME NEW y \in Readables, y.kind = "OrderedMapTerm_c", NEW c, c = Content(y)
    PROVE  /\ c \in Seq(Data) /\ ArePairs(c) /\ PairsWritten(c) /\ make_ordered_map(c) = c
           /\ PartsOf(c) \in Seq(Below(y))
  <1>1. IsWritten(y) /\ y \in Data /\ Formed(y) /\ Ascending(c)
    BY ReadableIsWritten DEF IsWritten, Formed
  <1>2. y.kind \notin Singletons /\ y.kind \notin {"bool", "uint64_t"}
    BY DEF Singletons
  <1>3. \A i \in DOMAIN y.args : y.args[i] \in Shallower(y) \cap Readables
    BY <1>2, PartsBelow
  <1>4. /\ c \in Seq(Data)
        /\ \A i \in DOMAIN c : c[i] = y.args[i + 1] /\ i + 1 \in DOMAIN y.args
    <2>1. y.args \in Seq(Data)
      BY <1>1, PartsAreLower
    <2>. QED
      BY <2>1, ContentOf
  <1>5. DOMAIN c = 1 .. Len(c) /\ Len(c) \in Nat
    BY <1>4, LenProperties
  <1> DEFINE E == {p \in Readables : p.kind = "pair"}
  <1>6. ASSUME NEW i \in 1 .. Len(c) PROVE c[i] \in E /\ c[i] \in Shallower(y)
    <2> DEFINE j == i + 1
    <2>1. j > 1 /\ c[i] = y.args[j] /\ j \in DOMAIN y.args
      BY <1>4, <1>5
    <2> HIDE DEF j
    <2>2. y.args[j].kind = "pair"
      BY <1>1, <2>1 DEF Formed
    <2>. QED
      BY <1>3, <2>1, <2>2
  <1>7. \A i \in 1 .. Len(c) : c[i].args[1] \in Below(y) /\ c[i].args[2] \in Below(y)
                               /\ c[i] = Pair(c[i].args[1], c[i].args[2])
    <2>1. ASSUME NEW i \in 1 .. Len(c)
          PROVE  c[i].args[1] \in Below(y) /\ c[i].args[2] \in Below(y)
                 /\ c[i] = Pair(c[i].args[1], c[i].args[2])
      <3> DEFINE p == c[i]
      <3>1. p \in Readables /\ p.kind = "pair" /\ p \in Shallower(y)
        BY <1>6
      <3> HIDE DEF p
      <3>2. p = Pair(p.args[1], p.args[2]) /\ p.args[1] \in Below(p) /\ p.args[2] \in Below(p)
        BY <3>1, PairFacts
      <3>3. Below(p) \subseteq Below(y)
        BY <1>1, <3>1, BelowBelow
      <3>. QED
        BY <3>2, <3>3 DEF p
    <2>. QED
      BY <2>1
  <1>8. \A e \in Below(y) : e \in Data /\ IsWritten(e) /\ Serialize(e) \in Streams
    BY ReadableIsWritten DEF Below, IsWritten
  <1>9. ArePairs(c)
    BY <1>7, <1>8 DEF ArePairs
  <1>10. PairsWritten(c)
    BY <1>6, <1>7, <1>8, ReadableIsWritten DEF PairsWritten
  <1>11. make_ordered_map(c) = c
    <2>1. MadeWithout({"BoolTerm_c"}, Readables)
      <3>1. ASSUME NEW x \in Readables
            PROVE  x.kind \notin {"BoolTerm_c"} /\ \A i \in DOMAIN x.args : x.args[i] \in Readables
        <4>1. x.kind \in Kinds
          BY ReadableIsWritten DEF IsWritten
        <4>2. "BoolTerm_c" \notin Kinds
          BY DEF Kinds, Singletons, ArrayTypes, OrderedMapTypes, Incomparable
        <4>. QED
          BY <4>1, <4>2, ThroughoutParts DEF Readables
      <3>2. Readables \subseteq Data
        BY DEF Readables, Throughout
      <3>. QED
        BY <3>1, <3>2 DEF MadeWithout
    <2>2. Keyed(E, Readables)
      <3>1. ASSUME NEW p \in E PROVE p.args[1] \in Readables
        BY PairFacts DEF Below
      <3>. QED
        BY <3>1 DEF Keyed, Key
    <2>3. c \in Seq(E)
      <3>1. c \in [1 .. Len(c) -> E]
        BY <1>4, <1>5, <1>6, LenProperties
      <3> HIDE DEF E
      <3>. QED
        BY <1>5, <3>1
    <2> HIDE DEF E
    <2>. QED
      BY <1>1, <2>1, <2>2, <2>3, MapOfAscending
  <1>12. PartsOf(c) \in Seq(Below(y))
    <2> DEFINE t == PartsOf(c)
    <2>1. /\ t \in Seq(Data)
          /\ \A k \in 1 .. Len(t) : \E i \in 1 .. Len(c) :
               (k = 2 * i - 1 /\ t[k] = c[i].args[1]) \/ (k = 2 * i /\ t[k] = c[i].args[2])
      BY <1>4, <1>9, PartsOfPairs
    <2> HIDE DEF t
    <2>2. \A k \in 1 .. Len(t) : t[k] \in Below(y)
      BY <1>7, <2>1
    <2>3. Len(t) \in Nat /\ t \in [1 .. Len(t) -> Data]
      BY <2>1, LenProperties
    <2>4. t \in [1 .. Len(t) -> Below(y)]
      BY <2>2, <2>3
    <2>5. t \in Seq(Below(y))
      BY <2>3, <2>4
    <2>. QED
      BY <2>5 DEF t
  <1>. QED
    BY <1>4, <1>9, <1>10, <1>11, <1>12

\* An ordered map.
LEMMA MapIsRead ==
    ASSUME NEW n \in Nat, NEW d, IsReader(d, n), NEW y \in Readables, y.kind = "OrderedMapTerm_c",
           \A e \in Below(y) : ReadsTerm(d, n, e)
    PROVE  ReadsTerm(d, n, y)
  <1> DEFINE h == Constraint(y)
             c == Content(y)
             size == Size(y)
             u == uint64(size)
             t == PartsOf(c)
  <1>1. IsWritten(y) /\ MadeOf(y, h, c)
    BY ReadableIsWritten, ContainerIsMade DEF IsContainer
  <1>2. HasFields(y) /\ h = Heading(y) /\ size \in Nat
    BY <1>1 DEF MadeOf
  <1>3. h \in Below(y) /\ IsWritten(h) /\ ReadsTerm(d, n, h)
    <2> HIDE DEF h
    <2>. QED
      BY <1>2, HeadingBelow
  <1>4. y.kind \notin Singletons /\ y.kind \notin {"bool", "uint64_t"}
    BY <1>2 DEF HasFields
  <1>5. u \in Below(y) /\ IsWritten(u) /\ ReadsTerm(d, n, u) /\ u = uint64(size)
    <2>1. u \in Below(y)
      BY <1>2, <1>4, PartsBelow
    <2>. QED
      BY <2>1, ReadableIsWritten DEF Below
  <1>6. /\ c \in Seq(Data) /\ ArePairs(c) /\ PairsWritten(c) /\ make_ordered_map(c) = c
        /\ t \in Seq(Below(y))
    BY PairsOfMap
  <1>7. t \in Seq(Data) /\ AllWritten(t) /\ AllReads(d, n, t)
    <2> HIDE DEF t
    <2>. QED
      BY <1>6, BelowIsRead
  <1>8. AllWritten(c)
    <2>1. \A i \in 1 .. Len(c) : Serialize(c[i]) \in Streams
      <3> HIDE DEF c
      <3>. QED
        BY <1>6 DEF PairsWritten, IsWritten
    <2> HIDE DEF c
    <2>. QED
      BY <2>1 DEF AllWritten
  <1>9. /\ h.kind \in Counted /\ Fields(y) = <<u>> \o c
        /\ Len(t) = TermsPerElement(h) * size /\ Make(h, t) = y
    <2>1. MadeOf(y, h, c) /\ ArePairs(c) /\ make_ordered_map(c) = c
      BY <1>1, <1>6
    <2> HIDE DEF h, c
    <2>. QED
      BY <1>1, <2>1, MapIsMade
  <1>10. Expands(c, t)
    <2> HIDE DEF c
    <2>. QED
      BY <1>6, PairsExpand
  <1> HIDE DEF h, c, size, u, t
  <1>. QED
    BY <1>1, <1>2, <1>3, <1>5, <1>6, <1>7, <1>8, <1>9, <1>10, CountedIsRead

\* Everything that can be read back is, by every reader deep enough.
LEMMA EveryTermIsRead ==
    ASSUME NEW n \in Nat, NEW d, IsReader(d, n)
    PROVE  \A y \in Readables : y.kind # "pair" => ReadsTerm(d, n, y)
  <1> DEFINE B == {y \in Readables : y.kind # "pair" /\ ~ ReadsTerm(d, n, y)}
  <1>1. SUFFICES ASSUME B # {} PROVE FALSE
    OBVIOUS
  <1>2. PICK y \in B : \A e \in Shallower(y) : e \notin B
    <2>1. B \in SUBSET Data
      BY DEF Readables, Throughout
    <2> HIDE DEF B
    <2>. QED
      BY <1>1, <2>1, Shallowest
  <1>3. y \in Readables /\ IsWritten(y) /\ y.kind # "pair" /\ y.kind \in Kinds \ UnreadableKinds /\ y \in Data
    BY ReadableIsWritten DEF IsWritten
  <1>4. \A e \in Below(y) : ReadsTerm(d, n, e)
    BY <1>2 DEF Below
  <1>5. ReadsTerm(d, n, y)
    <2>1. CASE y.kind \in Singletons
      BY <1>3, <2>1, SingletonIsRead
    <2>2. CASE y.kind \in {"bool", "uint64_t"}
      <3> DEFINE h == AbstractType(y)
      <3>1. PICK kind \in Singletons \ Unserializable : h = Atom(kind)
        <4>1. "Bool_c" \in Singletons \ Unserializable /\ "Uint64_c" \in Singletons \ Unserializable
          BY DEF Singletons, Unserializable
        <4>. QED
          BY <1>3, <2>2, <4>1, PlainTypes
      <3>2. h \in Readables /\ h.kind \in Singletons
        BY <3>1, PlainIsReadable, PlainThroughout DEF Readables, Atom, Node
      <3> HIDE DEF h
      <3>3. IsWritten(h) /\ ReadsTerm(d, n, h)
        BY <3>2, ReadableIsWritten, SingletonIsRead
      <3>. QED
        BY <1>3, <2>2, <3>3, PlainIsRead DEF h
    <2>3. CASE y.kind \in TypeForms
      BY <1>3, <1>4, <2>3, FormIsRead
    <2>4. CASE y.kind = "ArrayTerm_c"
      BY <1>3, <1>4, <2>4, ArrayIsRead
    <2>5. CASE y.kind = "OrderedMapTerm_c"
      BY <1>3, <1>4, <2>5, MapIsRead
    <2>. QED
      BY <1>3, <2>1, <2>2, <2>3, <2>4, <2>5, ReadableKinds
  <1>. QED
    BY <1>5

\* So deserialize_data reads it back.
LEMMA ReadsBackWhatWasWritten ==
    ASSUME NEW y \in Readables, y.kind # "pair", NEW rest \in Streams
    PROVE  Written(y) \o rest \in Streams /\ Deserialize(Written(y) \o rest) = Reading(y, rest)
  <1>1. Written(y) = Serialize(y) /\ Serialize(y) \in Streams
    <2>1. y \in Throughout(WritableData) /\ y \in Throughout(FormedData)
      BY DEF Readables, Throughout, ReadableData, WritableData
    <2>. QED
      BY <2>1, WrittenItems DEF Streams
  <1> DEFINE in == Serialize(y) \o rest
  <1>2. in \in Streams /\ Len(in) \in Nat
    <2>1. in \in Streams
      BY <1>1, StreamsJoin
    <2> HIDE DEF in
    <2>. QED
      BY <2>1, LenProperties DEF Streams
  <1>3. PICK d : IsReader(d, Len(in)) /\ Deserialize(in) = d[Len(in)][in]
    <2> HIDE DEF in
    <2>. QED
      BY <1>2, DeserializeDef
  <1>4. ReadsTerm(d, Len(in), y)
    <2> HIDE DEF in
    <2>. QED
      BY <1>2, <1>3, EveryTermIsRead
  <1>5. d[Len(in)][in] = Reading(y, rest)
    <2> DEFINE m == Len(in)
    <2>1. m \in 0 .. m /\ Len(Serialize(y) \o rest) <= m
      BY <1>2
    <2>2. ReadsTerm(d, m, y)
      BY <1>4
    <2> HIDE DEF m
    <2>3. d[m][Serialize(y) \o rest] = Reading(y, rest)
      BY <2>1, <2>2 DEF ReadsTerm
    <2>. QED
      BY <2>3 DEF m
  <1>. QED
    BY <1>1, <1>2, <1>3, <1>5

-----------------------------------------------------------------------------
(***************************************************************************)
(* The terms in hand are as their classes make them.                       *)
(***************************************************************************)
\* The Data as their classes make them, parts included, but for the pairs of a map.
FormedTerms == {y \in Throughout(FormedData) : y.kind # "pair"}

\* A Data of a set, with parts that are throughout it, is throughout it.
LEMMA WithParts ==
    ASSUME NEW Q, NEW y \in Data, y \in Q, \A i \in DOMAIN y.args : y.args[i] \in Throughout(Q)
    PROVE  y \in Throughout(Q)
  <1>1. Subterms(y) = {y} \cup UNION {Subterms(y.args[i]) : i \in DOMAIN y.args}
    BY SubtermsDef
  <1>2. \A i \in DOMAIN y.args : Subterms(y.args[i]) \subseteq Q
    BY DEF Throughout
  <1>. QED
    BY <1>1, <1>2 DEF Throughout

\* The inputs are, and the default constraints.
LEMMA InputsAreFormedTerms ==
    /\ \A x \in Inputs : x \in FormedTerms
    /\ Array \in FormedTerms /\ OrderedMap \in FormedTerms
  <1>1. ASSUME NEW x \in Inputs PROVE x \in FormedTerms
    <2>1. x \in Data
      BY InputsAre
    <2>2. Subterms(x) \in SUBSET Data
      BY <2>1, SubtermsDef
    <2>3. \A y \in Subterms(x) : y \in FormedData
      BY <2>2, InputsAreFormed DEF FormedData
    <2>4. x.kind # "pair"
      BY InputsAreFormed
    <2>. QED
      BY <2>1, <2>3, <2>4 DEF FormedTerms, Throughout
  <1>2. \A kind \in Singletons \ Unserializable : Atom(kind) \in Throughout(FormedData)
    BY PlainIsReadable, PlainThroughout
  <1>3. {"Array_c", "OrderedMap_c"} \subseteq Singletons \ Unserializable
    BY DEF Singletons, Unserializable
  <1>4. Array.kind # "pair" /\ OrderedMap.kind # "pair"
    BY DEF Array, OrderedMap, Atom, Node
  <1>5. Array \in Throughout(FormedData) /\ OrderedMap \in Throughout(FormedData)
    BY <1>2, <1>3 DEF Array, OrderedMap
  <1>. QED
    BY <1>1, <1>4, <1>5 DEF FormedTerms

\* The kinds of what is made here.
LEMMA KindsMade ==
    /\ {"ArrayTerm_c", "OrderedMapTerm_c", "TupleTerm_c", "FreeVarTerm_c", "pair"} \cup Incomparable
          \subseteq Kinds \ {"int64_t"}
    /\ \A kind \in {"ArrayTerm_c", "OrderedMapTerm_c", "TupleTerm_c", "FreeVarTerm_c", "pair"} \cup Incomparable :
          kind \notin Singletons
    /\ {"ArrayTerm_c", "OrderedMapTerm_c", "TupleTerm_c"} \cap DOMAIN Parts = {}
    /\ \A kind \in {"FreeVarTerm_c"} \cup Incomparable : kind \in DOMAIN Parts /\ Parts[kind] = 1
    /\ "pair" \in DOMAIN Parts /\ Parts["pair"] = 2
  BY DEF Kinds, Singletons, Incomparable, Parts

\* The pairs are.
LEMMA PairsAreFormed ==
    \A p \in MapPairs : p \in Throughout(FormedData) /\ p.kind = "pair"
  <1>1. SUFFICES ASSUME NEW p \in MapPairs PROVE p \in Throughout(FormedData) /\ p.kind = "pair"
    OBVIOUS
  <1>2. PICK k \in Elements, v \in Values \cup Elements : p = Pair(k, v)
    BY DEF MapPairs
  <1>3. p \in Data
    BY InputsAreMid DEF Mid, Orderly, Lacking
  <1>4. p.kind = "pair" /\ p.num = 0 /\ p.args = <<k, v>>
    BY <1>2 DEF Pair, Node
  <1>5. k \in FormedTerms /\ v \in FormedTerms
    BY InputsAreFormedTerms DEF Inputs
  <1>6. Len(p.args) = 2 /\ DOMAIN p.args = 1 .. 2 /\ p.args[1] = k /\ p.args[2] = v
    BY <1>4
  <1>7. \A i \in DOMAIN p.args : p.args[i] \in FormedTerms
    BY <1>5, <1>6
  <1>8. Formed(p)
    <2>1. \A i \in DOMAIN p.args : p.args[i].kind # "pair"
      BY <1>7 DEF FormedTerms
    <2>. QED
      BY <1>4, <1>6, <2>1, KindsMade DEF Formed
  <1>9. p \in FormedData
    BY <1>3, <1>8 DEF FormedData
  <1>10. \A i \in DOMAIN p.args : p.args[i] \in Throughout(FormedData)
    BY <1>7 DEF FormedTerms
  <1>. QED
    BY <1>3, <1>4, <1>9, <1>10, WithParts

\* What is in a container, behind its constraint.
LEMMA ContainerParts ==
    ASSUME NEW S, NEW t, NEW s \in Seq(S), NEW y, y.args = <<t>> \o s
    PROVE  /\ DOMAIN y.args = 1 .. Len(s) + 1 /\ Len(s) \in Nat
           /\ y.args[1] = t
           /\ \A i \in DOMAIN y.args : i > 1 => y.args[i] \in S
  <1>1. y.args = <<t>> \o s /\ Len(s) \in Nat
    BY LenProperties
  <1>2. /\ DOMAIN y.args = 1 .. Len(s) + 1 /\ y.args[1] = t
        /\ \A i \in 1 .. Len(s) : y.args[i + 1] = s[i]
    <2> DEFINE T == {t}
    <2>1. t \in T
      OBVIOUS
    <2> HIDE DEF T
    <2>. QED
      BY <1>1, <2>1, InFront
  <1>3. ASSUME NEW i \in DOMAIN y.args, i > 1 PROVE y.args[i] \in S
    <2> DEFINE j == i - 1
    <2>1. j \in 1 .. Len(s) /\ j + 1 = i
      BY <1>1, <1>2, <1>3
    <2> HIDE DEF j
    <2>2. y.args[j + 1] = s[j] /\ s[j] \in S
      BY <1>2, <2>1, LenProperties
    <2>. QED
      BY <2>1, <2>2
  <1>. QED
    BY <1>1, <1>2, <1>3

\* So is everything in hand.
LEMMA MadeIsFormed ==
    TermsMade \subseteq FormedTerms
  <1>0. \A y \in TermsMade : y \in Data
    BY MadeIsOrderly DEF Orderly, Lacking
  <1>a. \A x \in Elements \cup Contents \cup Types \cup {Array, OrderedMap} : x \in FormedTerms
    BY InputsAreFormedTerms DEF Inputs
  <1>1. ASSUME NEW y \in ArraysMade PROVE y \in FormedTerms
    <2>1. PICK t \in ArrayTypesUsed \cup {Array}, es \in Arguments :
             es \in Seq(Elements) /\ IsContainerOf(y, "ArrayTerm_c", t, es)
      BY ArrayIs
    <2>2. t.kind \in ArrayTypes /\ t \in FormedTerms
      BY <1>a, TypesUsed DEF ArrayTypesUsed
    <2>3. y \in Data /\ y.kind = "ArrayTerm_c" /\ y.num = 0 /\ Constraint(y) = t /\ y.args = <<t>> \o es
      BY <1>0, <2>1 DEF TermsMade, IsContainerOf
    <2>4. DOMAIN y.args = 1 .. Len(es) + 1 /\ Len(es) \in Nat /\ y.args[1] = t
          /\ \A i \in DOMAIN y.args : i > 1 => y.args[i] \in Elements
      BY <2>1, <2>3, ContainerParts
    <2>5. \A i \in DOMAIN y.args : y.args[i] \in FormedTerms
      BY <1>a, <2>2, <2>4
    <2>6. Formed(y)
      <3>1. \A i \in DOMAIN y.args : y.args[i].kind # "pair"
        BY <2>5 DEF FormedTerms
      <3>. QED
        BY <2>2, <2>3, <3>1, KindsMade DEF Formed
    <2>7. y \in FormedData /\ \A i \in DOMAIN y.args : y.args[i] \in Throughout(FormedData)
      BY <2>3, <2>5, <2>6 DEF FormedData, FormedTerms
    <2>8. y \in Throughout(FormedData)
      BY <2>3, <2>7, WithParts
    <2>. QED
      BY <2>3, <2>8 DEF FormedTerms
  <1>2. ASSUME NEW y \in MapsMade PROVE y \in FormedTerms
    <2>1. PICK t \in MapTypesUsed \cup {OrderedMap}, ps \in Seq(MapPairs) :
             Ascending(ps) /\ IsContainerOf(y, "OrderedMapTerm_c", t, ps)
      BY MapIs
    <2>2. t.kind \in OrderedMapTypes /\ t \in FormedTerms
      BY <1>a, TypesUsed DEF MapTypesUsed
    <2>3. y \in Data /\ y.kind = "OrderedMapTerm_c" /\ y.num = 0 /\ Constraint(y) = t /\ Content(y) = ps
          /\ y.args = <<t>> \o ps
      BY <1>0, <2>1 DEF TermsMade, IsContainerOf
    <2>4. DOMAIN y.args = 1 .. Len(ps) + 1 /\ Len(ps) \in Nat /\ y.args[1] = t
          /\ \A i \in DOMAIN y.args : i > 1 => y.args[i] \in MapPairs
      BY <2>1, <2>3, ContainerParts
    <2>5. t \in Throughout(FormedData) /\ t.kind # "pair"
      BY <2>2 DEF FormedTerms
    <2>6. \A i \in DOMAIN y.args : y.args[i] \in Throughout(FormedData) /\ (y.args[i].kind = "pair" <=> i > 1)
      <3>1. ASSUME NEW i \in DOMAIN y.args
            PROVE  y.args[i] \in Throughout(FormedData) /\ (y.args[i].kind = "pair" <=> i > 1)
        <4>1. i = 1 \/ i > 1
          BY <2>4
        <4>2. CASE i = 1
          BY <2>4, <2>5, <4>2
        <4>3. CASE i > 1
          BY <2>4, <4>3, PairsAreFormed
        <4>. QED
          BY <4>1, <4>2, <4>3
      <3>. QED
        BY <3>1
    <2>7. Formed(y)
      BY <2>1, <2>2, <2>3, <2>6, KindsMade DEF Formed
    <2>8. y \in FormedData
      BY <2>3, <2>7 DEF FormedData
    <2>9. y \in Throughout(FormedData)
      BY <2>3, <2>6, <2>8, WithParts
    <2>. QED
      BY <2>3, <2>9 DEF FormedTerms
  <1>3. ASSUME NEW y \in TuplesMade PROVE y \in FormedTerms
    <2>1. PICK es \in Arguments : y = Tuple(es)
      BY DEF TuplesMade
    <2>2. y \in Data /\ y.kind = "TupleTerm_c" /\ y.num = 0 /\ y.args = es
      BY <1>0, <2>1 DEF TermsMade, Tuple, Node
    <2>3. es \in Seq(Elements)
      BY ArgumentsAre
    <2>4. \A i \in DOMAIN y.args : y.args[i] \in FormedTerms
      BY <1>a, <2>2, <2>3, LenProperties
    <2>5. \A i \in DOMAIN y.args : y.args[i].kind # "pair" /\ y.args[i] \in Throughout(FormedData)
      BY <2>4 DEF FormedTerms
    <2>6. y \in FormedData
      <3>1. y.kind \in Kinds \ {"int64_t"} /\ y.kind \notin Singletons /\ y.kind \notin DOMAIN Parts
        BY <2>2, KindsMade
      <3>2. Formed(y)
        BY <2>2, <2>5, <3>1 DEF Formed
      <3>. QED
        BY <2>2, <3>2 DEF FormedData
    <2>7. y \in Throughout(FormedData)
      BY <2>2, <2>5, <2>6, WithParts
    <2>. QED
      BY <2>2, <2>7 DEF FormedTerms
  <1>4. ASSUME NEW y \in OthersMade PROVE y \in FormedTerms
    <2>1. PICK d \in Contents :
             y \in {FormalTypeOf(d), FreeVar(d), Placeholder(d), Output(d), RequestSyncInput(d)}
      BY DEF OthersMade
    <2>2. \E kind \in {"FreeVarTerm_c"} \cup Incomparable : y = Node(kind, 0, <<d>>)
      BY <2>1 DEF FormalTypeOf, FreeVar, Placeholder, Output, RequestSyncInput, Incomparable
    <2>3. PICK kind \in {"FreeVarTerm_c"} \cup Incomparable : y = Node(kind, 0, <<d>>)
      BY <2>2
    <2>4. y \in Data /\ y.kind = kind /\ y.num = 0 /\ y.args = <<d>>
      BY <1>0, <2>3 DEF TermsMade, Node
    <2>5. kind \notin {"ArrayTerm_c", "OrderedMapTerm_c", "pair"}
      BY DEF Incomparable
    <2>6. Len(y.args) = 1 /\ \A i \in DOMAIN y.args : y.args[i] = d
      BY <2>4
    <2>7. d.kind # "pair" /\ d \in Throughout(FormedData)
      BY <1>a DEF FormedTerms
    <2>8. y \in FormedData
      <3>1. kind \in Kinds \ {"int64_t"} /\ kind \notin Singletons /\ Parts[kind] = 1
        BY KindsMade
      <3>2. Formed(y)
        BY <2>4, <2>5, <2>6, <2>7, <3>1 DEF Formed
      <3>. QED
        BY <2>4, <3>2 DEF FormedData
    <2>9. y \in Throughout(FormedData)
      BY <2>4, <2>6, <2>7, <2>8, WithParts
    <2>. QED
      BY <2>4, <2>5, <2>9 DEF FormedTerms
  <1>. QED
    BY <1>1, <1>2, <1>3, <1>4 DEF TermsMade

\* What can be read back is so throughout.
LEMMA ReadableTerms ==
    ASSUME NEW y \in TermsMade
    PROVE  /\ Written(y) \in Streams /\ y.kind # "pair"
           /\ Readable(y) => y \in Readables
  <1>1. y \in Throughout(FormedData) /\ y.kind # "pair"
    BY MadeIsFormed DEF FormedTerms
  <1>2. Written(y) \in Streams
    BY <1>1, WrittenItems DEF Streams
  <1>3. ASSUME Readable(y) PROVE y \in Readables
    <2>1. y \in Data /\ Subterms(y) \subseteq FormedData
      BY <1>1 DEF Throughout
    <2>2. \A z \in Subterms(y) : z.kind \notin Unserializable
      BY <1>3 DEF Readable, Serializable
    <2>3. \A z \in Subterms(y) : z.kind \notin {"UnionTerm_c", "TupleTerm_c"} /\ Satisfied(z)
      BY <1>3 DEF Readable
    <2>4. Subterms(y) \subseteq ReadableData
      BY <2>1, <2>2, <2>3 DEF ReadableData, WritableData
    <2>. QED
      BY <2>1, <2>4 DEF Readables, Throughout
  <1>. QED
    BY <1>1, <1>2, <1>3

-----------------------------------------------------------------------------
(***************************************************************************)
(* What is in the stream, and what has been read from it.                  *)
(***************************************************************************)
\* What is left of the stream when n of the terms s have been read, q[n], is the
\* next one in front of what is left after that.
Leaves(q, s, n) ==
    /\ \A j \in n .. Len(s) : q[j] \in Streams
    /\ q[Len(s)] = <<>>
    /\ \A j \in n .. Len(s) - 1 : q[j] = Written(s[j + 1]) \o q[j + 1]
Follows(s, n, in) == \E q : Leaves(q, s, n) /\ q[n] = in

\* Nothing was written.
LEMMA NothingFollows ==
    ASSUME NEW s, Len(s) = 0
    PROVE  Follows(s, 0, <<>>)
  <1> DEFINE q == [j \in {0} |-> <<>>]
  <1>1. q[0] = <<>> /\ <<>> \in Streams
    BY EmptySeq DEF Streams
  <1>2. 0 .. 0 = {0} /\ 0 .. 0 - 1 = {}
    OBVIOUS
  <1> HIDE DEF q
  <1>3. Leaves(q, s, 0)
    BY <1>1, <1>2 DEF Leaves
  <1>. QED
    BY <1>1, <1>3 DEF Follows

\* What is written comes behind everything else.
LEMMA WrittenFollows ==
    ASSUME NEW s \in Seq(TermsMade), NEW y \in TermsMade, NEW in, Follows(s, 0, in)
    PROVE  Follows(Append(s, y), 0, in \o Written(y))
  <1> DEFINE n == Len(s)
             r == Append(s, y)
             w == Written(y)
  <1>1. PICK q : Leaves(q, s, 0) /\ q[0] = in
    BY DEF Follows
  <1>2. n \in Nat /\ Len(r) = n + 1 /\ r[n + 1] = y /\ \A i \in 1 .. n : r[i] = s[i]
    BY AppendProperties, LenProperties
  <1>3. w \in Streams /\ <<>> \in Streams
    BY ReadableTerms, EmptySeq DEF Streams
  <1>4. \A j \in 0 .. n : q[j] \in Streams
    BY <1>1 DEF Leaves
  <1>5. q[n] = <<>> /\ \A j \in 0 .. n - 1 : q[j] = Written(s[j + 1]) \o q[j + 1]
    BY <1>1 DEF Leaves
  <1> HIDE DEF n, r, w
  <1> DEFINE p == [j \in 0 .. n + 1 |-> IF j = n + 1 THEN <<>> ELSE q[j] \o w]
  <1>6. p[n + 1] = <<>> /\ \A j \in 0 .. n : p[j] = q[j] \o w
    BY <1>2
  <1>7. p[n] = w
    <2>1. <<>> \o w = w
      BY <1>3, NothingInFront
    <2>2. n \in 0 .. n
      BY <1>2
    <2>3. p[n] = q[n] \o w
      BY <1>6, <2>2
    <2>. QED
      BY <1>5, <2>1, <2>3
  <1> HIDE DEF p
  <1>8. ASSUME NEW j \in 0 .. n + 1 PROVE p[j] \in Streams
    <2>1. CASE j = n + 1
      BY <1>3, <1>6, <2>1
    <2>2. CASE j # n + 1
      <3>1. j \in 0 .. n
        BY <1>2, <2>2
      <3>2. q[j] \in Streams
        BY <1>4, <3>1
      <3> DEFINE a == q[j]
      <3> HIDE DEF a
      <3>3. a \o w \in Streams
        BY <1>3, <3>2, StreamsJoin DEF a
      <3>. QED
        BY <1>6, <3>1, <3>3 DEF a
    <2>. QED
      BY <2>1, <2>2
  <1>9. ASSUME NEW j \in 0 .. n PROVE p[j] = Written(r[j + 1]) \o p[j + 1]
    <2>1. CASE j = n
      <3>1. w \o <<>> = w
        BY <1>3, NothingInFront
      <3>. QED
        BY <1>2, <1>6, <1>7, <2>1, <3>1 DEF w
    <2>2. CASE j # n
      <3>1. j \in 0 .. n - 1 /\ j + 1 \in 0 .. n /\ j + 1 \in 1 .. n
        BY <1>2, <2>2
      <3> DEFINE a == Written(s[j + 1])
                 b == q[j + 1]
      <3>2. a \in Streams
        <4>1. s[j + 1] \in TermsMade
          BY <3>1, LenProperties DEF n
        <4>. QED
          BY <4>1, ReadableTerms
      <3>3. b \in Streams
        BY <1>4, <3>1
      <3>4. q[j] = a \o b /\ r[j + 1] = s[j + 1]
        BY <1>2, <1>5, <3>1
      <3>5. p[j] = q[j] \o w /\ p[j + 1] = b \o w
        BY <1>6, <3>1
      <3>6. Written(r[j + 1]) = a
        BY <3>4
      <3> HIDE DEF a, b
      <3>7. (a \o b) \o w = a \o (b \o w)
        BY <1>3, <3>2, <3>3, StreamsJoin
      <3>. QED
        BY <3>4, <3>5, <3>6, <3>7
    <2>. QED
      BY <2>1, <2>2
  <1>10. Leaves(p, r, 0)
    <2>1. (n + 1) - 1 = n
      BY <1>2
    <2>. QED
      BY <1>2, <1>6, <1>8, <1>9, <2>1 DEF Leaves
  <1>11. p[0] = in \o w
    <2>1. 0 \in 0 .. n
      BY <1>2
    <2>. QED
      BY <1>1, <1>6, <2>1
  <1>. QED
    BY <1>10, <1>11 DEF Follows, r, w

\* The next term is in front of the stream.
LEMMA NextFollows ==
    ASSUME NEW s \in Seq(TermsMade), NEW n \in Nat, n < Len(s), NEW in, Follows(s, n, in)
    PROVE  \E rest \in Streams : in = Written(s[n + 1]) \o rest /\ Follows(s, n + 1, rest)
  <1>1. PICK q : Leaves(q, s, n) /\ q[n] = in
    BY DEF Follows
  <1> DEFINE m == n + 1
  <1>2. Len(s) \in Nat /\ m \in n .. Len(s) /\ n \in n .. Len(s) - 1
        /\ (\A j \in m .. Len(s) : j \in n .. Len(s)) /\ (\A j \in m .. Len(s) - 1 : j \in n .. Len(s) - 1)
    <2>1. Len(s) \in Nat
      BY LenProperties
    <2>. QED
      BY <2>1
  <1> HIDE DEF m
  <1>3. q[m] \in Streams /\ in = Written(s[m]) \o q[m]
    BY <1>1, <1>2 DEF Leaves, m
  <1>4. Leaves(q, s, m)
    BY <1>1, <1>2 DEF Leaves
  <1>5. Follows(s, m, q[m])
    BY <1>4 DEF Follows
  <1>. QED
    BY <1>3, <1>5 DEF m

\* When everything was read nothing is left.
LEMMA NothingLeft ==
    ASSUME NEW s, NEW in, Follows(s, Len(s), in)
    PROVE  in = <<>>
  BY DEF Follows, Leaves

-----------------------------------------------------------------------------
\* The first i of the terms written can be read back.
Clean(i) == i \in 0 .. Len(sent) /\ \A j \in 1 .. i : Readable(sent[j])

\* What was read is what was written, and what is left follows it, as far as the
\* terms written can be read back.
StreamInv ==
    /\ Building => got = <<>>
    /\ \E S : got \in Seq(S)
    /\ \A i \in DOMAIN got : Clean(i) => got[i] = sent[i]
    /\ Clean(Len(got)) => Follows(sent, Len(got), stream)

\* At the start.
LEMMA InitStreams ==
    Init => StreamInv
  <1>. SUFFICES ASSUME Init PROVE StreamInv
    OBVIOUS
  <1>1. sent = <<>> /\ got = <<>> /\ stream = <<>>
    BY DEF Init
  <1>2. got \in Seq({}) /\ Len(got) = 0 /\ Len(sent) = 0 /\ DOMAIN got = {}
    BY <1>1, EmptySeq
  <1>3. Follows(sent, 0, stream)
    BY <1>1, <1>2, NothingFollows
  <1>. QED
    BY <1>1, <1>2, <1>3 DEF StreamInv

\* A term is written.
LEMMA WriteStreams ==
    ASSUME Inv, StreamInv, Write
    PROVE  StreamInv'
  <1>1. /\ stream' = stream \o Written(term) /\ sent' = Append(sent, term) /\ got' = got
        /\ got = <<>>
    BY DEF Write, StreamInv
  <1>2. sent \in Seq(TermsMade) /\ term \in TermsMade
    BY DEF Inv
  <1>3. Len(got) = 0 /\ DOMAIN got = {} /\ got \in Seq({})
    BY <1>1, EmptySeq
  <1>4. Clean(0)
    <2>1. Len(sent) \in Nat /\ 0 \in 0 .. Len(sent) /\ 1 .. 0 = {}
      BY <1>2, LenProperties
    <2>. QED
      BY <2>1 DEF Clean
  <1>5. Follows(sent, 0, stream)
    BY <1>3, <1>4 DEF StreamInv
  <1>6. Follows(sent', 0, stream')
    BY <1>1, <1>2, <1>5, WrittenFollows
  <1>. QED
    BY <1>1, <1>3, <1>6 DEF StreamInv

\* A term is read.
LEMMA ReadStreams ==
    ASSUME Inv, StreamInv, Read
    PROVE  StreamInv'
  <1> DEFINE r == Deserialize(stream)
             n == Len(got)
  <1>1. got' = Append(got, r.data) /\ stream' = r.rest /\ sent' = sent /\ ~Building
    BY DEF Read
  <1>2. sent \in Seq(TermsMade) /\ Len(sent) \in Nat
    BY LenProperties DEF Inv
  <1>3. PICK S : got \in Seq(S)
    BY DEF StreamInv
  <1>4. n \in Nat /\ DOMAIN got = 1 .. n
    BY <1>3, LenProperties
  <1> HIDE DEF r
  <1>5. /\ got' \in Seq(S \cup {r.data}) /\ Len(got') = n + 1 /\ DOMAIN got' = 1 .. n + 1
        /\ got'[n + 1] = r.data
        /\ \A i \in 1 .. n : got'[i] = got[i]
    <2> DEFINE T == S \cup {r.data}
    <2>1. got \in Seq(T) /\ r.data \in T
      BY <1>3, SeqMonotonic
    <2> HIDE DEF T
    <2>2. got' \in Seq(T) /\ Len(got') = n + 1 /\ got'[n + 1] = r.data /\ \A i \in 1 .. n : got'[i] = got[i]
      BY <1>1, <2>1, AppendProperties
    <2>3. DOMAIN got' = 1 .. n + 1
      BY <2>2, LenProperties
    <2>. QED
      BY <2>2, <2>3 DEF T
  <1> HIDE DEF n
  <1>6. \A i : Clean(i)' <=> Clean(i)
    BY <1>1 DEF Clean, Readable, Serializable, Satisfied, IsContainer
  <1>7. ASSUME Clean(n + 1) PROVE got'[n + 1] = sent[n + 1] /\ Follows(sent, n + 1, stream')
    <2>1. n + 1 <= Len(sent) /\ n < Len(sent) /\ n + 1 \in 1 .. n + 1 /\ Readable(sent[n + 1])
      <3>1. n + 1 \in 0 .. Len(sent) /\ \A j \in 1 .. n + 1 : Readable(sent[j])
        BY <1>7 DEF Clean
      <3>2. n + 1 <= Len(sent) /\ n < Len(sent) /\ n + 1 \in 1 .. n + 1
        BY <1>2, <1>4, <3>1
      <3>. QED
        BY <3>1, <3>2
    <2>2. Clean(n)
      <3>1. n \in 0 .. Len(sent) /\ \A j \in 1 .. n : j \in 1 .. n + 1
        BY <1>2, <1>4, <2>1
      <3>. QED
        BY <1>7, <3>1 DEF Clean
    <2>3. Follows(sent, n, stream)
      BY <2>2 DEF StreamInv, n
    <2>4. PICK rest \in Streams : stream = Written(sent[n + 1]) \o rest /\ Follows(sent, n + 1, rest)
      BY <1>2, <1>4, <2>1, <2>3, NextFollows
    <2> DEFINE y == sent[n + 1]
    <2>5. y \in TermsMade
      <3>1. n + 1 \in 1 .. Len(sent)
        BY <1>2, <1>4, <2>1
      <3>. QED
        BY <1>2, <3>1, LenProperties
    <2>6. Readable(y)
      BY <2>1
    <2>7. stream = Written(y) \o rest
      BY <2>4
    <2> HIDE DEF y
    <2>8. y \in Readables /\ y.kind # "pair"
      BY <2>5, <2>6, ReadableTerms
    <2>9. Deserialize(stream) = Reading(y, rest)
      BY <2>7, <2>8, ReadsBackWhatWasWritten
    <2>10. r.data = y /\ r.rest = rest
      BY <2>9 DEF r, Reading
    <2>. QED
      BY <1>1, <1>5, <2>4, <2>10 DEF y
  <1>8. ~Building'
    BY <1>1 DEF Building
  <1>9. ASSUME NEW i \in DOMAIN got', Clean(i) PROVE got'[i] = sent[i]
    <2>1. i = n + 1 \/ i \in 1 .. n
      BY <1>4, <1>5
    <2>2. CASE i = n + 1
      BY <1>7, <1>9, <2>2
    <2>3. CASE i \in 1 .. n
      BY <1>4, <1>5, <1>9, <2>3 DEF StreamInv
    <2>. QED
      BY <2>1, <2>2, <2>3
  <1>10. /\ \A i \in DOMAIN got' : Clean(i)' => got'[i] = sent'[i]
         /\ Clean(Len(got))' => Follows(sent', Len(got'), stream')
    <2>1. \A i \in DOMAIN got' : Clean(i)' => got'[i] = sent'[i]
      BY <1>1, <1>6, <1>9
    <2>2. Clean(Len(got))' <=> Clean(n + 1)
      BY <1>1, <1>5 DEF Clean, Readable, Serializable, Satisfied, IsContainer
    <2>. QED
      BY <1>1, <1>5, <1>7, <2>1, <2>2
  <1>11. (\E T : got \in Seq(T))'
    BY <1>5
  <1>. QED
    BY <1>8, <1>10, <1>11 DEF StreamInv

\* Neither.
LEMMA SameStreams ==
    ASSUME StreamInv, InMemory
    PROVE  StreamInv'
  BY DEF StreamInv, InMemory, Building, Clean, Readable, Serializable, Satisfied, IsContainer

\* Every step keeps the stream as it says.
LEMMA StepStreams ==
    Inv /\ StreamInv /\ [Next]_vars => StreamInv'
  <1>. SUFFICES ASSUME Inv, StreamInv, [Next]_vars PROVE StreamInv'
    OBVIOUS
  <1>1. ASSUME NEW t \in ArrayTypesUsed, NEW es \in Arguments, ConstructArray(t, es) PROVE InMemory
    BY <1>1 DEF ConstructArray
  <1>2. ASSUME NEW t \in MapTypesUsed, NEW ps \in PairArguments, ConstructOrderedMap(t, ps) PROVE InMemory
    BY <1>2 DEF ConstructOrderedMap
  <1>3. ASSUME NEW es \in Arguments, ConstructTuple(es) PROVE InMemory
    BY <1>3 DEF ConstructTuple
  <1>4. ASSUME NEW d \in Contents, ConstructOther(d) PROVE InMemory
    BY <1>4 DEF ConstructOther
  <1>5. ASSUME NEW t \in Types, WithConstraint(t) \/ MoveWithConstraint(t) PROVE InMemory
    BY <1>5 DEF WithConstraint, MoveWithConstraint
  <1>6. CASE WithoutConstraint
    BY <1>6, SameStreams DEF WithoutConstraint
  <1>7. ASSUME NEW i \in 1 .. MaxSize, NEW e \in Elements, SetElement(i, e) PROVE InMemory
    BY <1>7 DEF SetElement
  <1>8. ASSUME NEW e \in Elements, PushBack(e) PROVE InMemory
    BY <1>8 DEF PushBack
  <1>9. ASSUME NEW p \in Pairs, Emplace(p) PROVE InMemory
    BY <1>9 DEF Emplace
  <1>10. CASE Write
    BY <1>10, WriteStreams
  <1>11. CASE Read
    BY <1>11, ReadStreams
  <1>12. CASE UNCHANGED vars
    BY <1>12, SameStreams DEF vars, InMemory
  <1>13. CASE InMemory
    BY <1>13, SameStreams
  <1>. QED
    BY <1>1, <1>2, <1>3, <1>4, <1>5, <1>6, <1>7, <1>8, <1>9, <1>10, <1>11, <1>12, <1>13 DEF Next

\* It says that what is read is what was written.
LEMMA StreamsReadBack ==
    Inv /\ StreamInv => RoundTrip
  <1>. SUFFICES ASSUME Inv, StreamInv PROVE RoundTrip
    OBVIOUS
  <1>1. sent \in Seq(TermsMade) /\ Len(sent) <= MaxWrites /\ MaxWrites \in Nat
    BY BoundsAssumption DEF Inv
  <1>2. Len(sent) \in Nat /\ DOMAIN sent = 1 .. Len(sent)
    BY <1>1, LenProperties
  <1>3. PICK S : got \in Seq(S)
    BY DEF StreamInv
  <1>4. Len(got) \in Nat /\ DOMAIN got = 1 .. Len(got)
    BY <1>3, LenProperties
  <1>5. ASSUME NEW i \in DOMAIN got, \A j \in 1 .. i : j \in DOMAIN sent /\ Readable(sent[j])
        PROVE  got[i] = sent[i]
    <2>1. i \in 1 .. i /\ i \in Nat
      BY <1>4
    <2>2. i \in 0 .. Len(sent)
      BY <1>2, <1>5, <2>1
    <2>3. Clean(i)
      BY <1>5, <2>2 DEF Clean
    <2>. QED
      BY <2>3 DEF StreamInv
  <1>6. ASSUME Len(got) = MaxWrites, \A j \in DOMAIN sent : Readable(sent[j])
        PROVE  stream = <<>>
    <2>1. ~Building
      <3>1. SUFFICES ASSUME Building PROVE FALSE
        OBVIOUS
      <3>2. Len(got) = 0
        BY <3>1, EmptySeq DEF StreamInv
      <3>. QED
        BY <1>1, <1>2, <1>6, <3>1, <3>2 DEF Building
    <2>2. Len(got) = Len(sent)
      <3>1. ~ (Len(sent) < MaxWrites)
        BY <2>1 DEF Building
      <3> DEFINE k == Len(sent)
      <3>2. k \in Nat /\ k <= MaxWrites /\ ~ (k < MaxWrites) /\ MaxWrites \in Nat
        BY <1>1, <1>2, <3>1
      <3> HIDE DEF k
      <3>3. k = MaxWrites
        BY <3>2
      <3>. QED
        BY <1>6, <3>3 DEF k
    <2>3. Clean(Len(got))
      <3>1. Len(sent) \in 0 .. Len(sent)
        BY <1>2
      <3>. QED
        BY <1>2, <1>6, <2>2, <3>1 DEF Clean
    <2>4. Follows(sent, Len(sent), stream)
      BY <2>2, <2>3 DEF StreamInv
    <2>. QED
      BY <2>4, NothingLeft
  <1>. QED
    BY <1>5, <1>6 DEF RoundTrip

\* The i-th term read is the i-th term written, constraint included, and when all
\* are read nothing is left, as long as everything written can be read at all:
\* serialize_data and deserialize_data agree where a term ends, which nothing in
\* the stream says (Data.cpp, ArrayTerm.cpp and the others of `serialize').
THEOREM ReadsBack ==
    Spec => []RoundTrip
  <1>1. Init => Inv /\ StreamInv
    BY InitMakes, InitStreams
  <1>2. (Inv /\ StreamInv) /\ [Next]_vars => (Inv /\ StreamInv)'
    BY StepKeeps, StepStreams
  <1>. QED
    BY <1>1, <1>2, StreamsReadBack, PTL DEF Spec
=============================================================================
