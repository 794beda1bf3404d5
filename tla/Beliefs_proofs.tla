-------------------------- MODULE Beliefs_proofs ---------------------------
(***************************************************************************)
(* thinky is sound: told nothing but the truth it believes, accepts and    *)
(* denies nothing else, whatever the world is, whatever it is told and     *)
(* whatever the rules are, as long as they are sentences (without Xor,     *)
(* which the code takes for Or).                                           *)
(***************************************************************************)
EXTENDS Beliefs, SequenceTheorems, FiniteSetTheorems, WellFoundedInduction, TLAPS

\* A set of numbers has a least one.
LEMMA LeastNumber ==
    ASSUME NEW S \in SUBSET Nat, S # {}
    PROVE  \E x \in S : \A y \in S : x <= y
  <1> DEFINE R == OpToRel(<, Nat)
  <1>1. IsWellFoundedOn(R, Nat)
    BY NatLessThanWellFounded
  <1>2. \A x, y \in Nat : y < x => <<y, x>> \in R
    BY DEF OpToRel
  <1>3. PICK x \in S : \A y \in S : ~ (<<y, x>> \in R)
    <2>1. S \subseteq Nat /\ S # {}
      OBVIOUS
    <2> HIDE DEF R
    <2>. QED
      BY <1>1, <2>1, WFMin
  <1> HIDE DEF R
  <1>4. ASSUME NEW y \in S PROVE x <= y
    <2>1. x \in Nat /\ y \in Nat /\ ~ (<<y, x>> \in R)
      BY <1>3
    <2>2. ~ (y < x)
      BY <1>2, <2>1
    <2>. QED
      BY <2>1, <2>2
  <1>. QED
    BY <1>4

(***************************************************************************)
(* Recursion.  An equation f = G[f] in which f at d depends on f at what   *)
(* is ranked below d has a solution.                                       *)
(***************************************************************************)
Local(G, D, R, rank) ==
    \A f, g \in [D -> R] : \A d \in D :
        (\A e \in D : rank[e] < rank[d] => f[e] = g[e]) => G[f][d] = G[g][d]

\* f solves the equation for what is ranked below n.
Solves(f, n, G, D, R, rank) ==
    f \in [D -> R] /\ \A d \in D : rank[d] < n => G[f][d] = f[d]

Agreement(G, D, R, rank) ==
    \A n \in Nat : \A f, g : Solves(f, n, G, D, R, rank) /\ Solves(g, n, G, D, R, rank) =>
        \A d \in D : rank[d] < n => f[d] = g[d]

\* Two solutions agree as far as they are solutions.
LEMMA SolutionsAgree ==
    ASSUME NEW D, NEW R, NEW rank \in [D -> Nat], NEW G \in [[D -> R] -> [D -> R]],
           Local(G, D, R, rank)
    PROVE  Agreement(G, D, R, rank)
  <1>. SUFFICES ASSUME NEW n \in Nat, NEW f, NEW g,
                       Solves(f, n, G, D, R, rank), Solves(g, n, G, D, R, rank)
                PROVE  \A d \in D : rank[d] < n => f[d] = g[d]
    BY DEF Agreement
  <1> DEFINE S == {k \in Nat : \E d \in D : rank[d] = k /\ k < n /\ f[d] # g[d]}
  <1>1. SUFFICES ASSUME S # {} PROVE FALSE
    OBVIOUS
  <1>2. PICK k \in S : \A l \in S : k <= l
    <2>1. S \in SUBSET Nat /\ S # {}
      BY <1>1
    <2> HIDE DEF S
    <2>. QED
      BY <2>1, LeastNumber
  <1>3. PICK d \in D : rank[d] = k /\ k < n /\ f[d] # g[d]
    OBVIOUS
  <1>4. \A e \in D : rank[e] < rank[d] => f[e] = g[e]
    <2>1. ASSUME NEW e \in D, rank[e] < rank[d], f[e] # g[e] PROVE FALSE
      <3>1. rank[e] \in Nat /\ rank[e] < n /\ k \in Nat
        BY <1>3, <2>1
      <3>2. rank[e] \in S
        BY <2>1, <3>1
      <3> HIDE DEF S
      <3>. QED
        BY <1>2, <1>3, <2>1, <3>1, <3>2
    <2>. QED
      BY <2>1
  <1>5. f \in [D -> R] /\ g \in [D -> R] /\ G[f][d] = f[d] /\ G[g][d] = g[d]
    BY <1>3 DEF Solves
  <1>. QED
    BY <1>3, <1>4, <1>5 DEF Local

\* There are solutions as far as one likes.
LEMMA SolutionsExist ==
    ASSUME NEW D, NEW R, NEW r \in R, NEW rank \in [D -> Nat],
           NEW G \in [[D -> R] -> [D -> R]], Local(G, D, R, rank)
    PROVE  \A n \in Nat : \E f : Solves(f, n, G, D, R, rank)
  <1> DEFINE S == {n \in Nat : ~ \E f : Solves(f, n, G, D, R, rank)}
  <1>1. SUFFICES ASSUME S # {} PROVE FALSE
    OBVIOUS
  <1>2. PICK n \in S : \A k \in S : n <= k
    <2>1. S \in SUBSET Nat /\ S # {}
      BY <1>1
    <2> HIDE DEF S
    <2>. QED
      BY <2>1, LeastNumber
  <1>3. n \in Nat /\ ~ \E f : Solves(f, n, G, D, R, rank)
    OBVIOUS
  <1>4. CASE n = 0
    <2> DEFINE f == [d \in D |-> r]
    <2>1. f \in [D -> R]
      OBVIOUS
    <2> HIDE DEF f
    <2>2. Solves(f, 0, G, D, R, rank)
      BY <2>1 DEF Solves
    <2>. QED
      BY <1>3, <1>4, <2>2
  <1>5. CASE n # 0
    <2>1. n - 1 \in Nat /\ n - 1 \notin S
      BY <1>2, <1>3, <1>5
    <2>2. PICK f : Solves(f, n - 1, G, D, R, rank)
      BY <2>1
    <2>3. f \in [D -> R] /\ G[f] \in [D -> R]
      BY <2>2 DEF Solves
    <2>4. ASSUME NEW d \in D, rank[d] < n PROVE G[G[f]][d] = G[f][d]
      <3>1. \A e \in D : rank[e] < rank[d] => f[e] = G[f][e]
        <4>1. ASSUME NEW e \in D, rank[e] < rank[d] PROVE f[e] = G[f][e]
          <5>1. rank[e] \in Nat /\ rank[d] \in Nat /\ rank[e] < n - 1
            BY <1>3, <2>4, <4>1
          <5>. QED
            BY <2>2, <5>1 DEF Solves
        <4>. QED
          BY <4>1
      <3>. QED
        BY <2>3, <3>1 DEF Local
    <2>5. Solves(G[f], n, G, D, R, rank)
      BY <2>3, <2>4 DEF Solves
    <2>. QED
      BY <1>3, <2>5
  <1>. QED
    BY <1>4, <1>5

\* Functions that agree at d whenever they agree at what is ranked below it are the same.
LEMMA SameByRank ==
    ASSUME NEW D, NEW rank \in [D -> Nat], NEW f, NEW g,
           \A d \in D : (\A e \in D : rank[e] < rank[d] => f[e] = g[e]) => f[d] = g[d]
    PROVE  \A d \in D : f[d] = g[d]
  <1> DEFINE S == {k \in Nat : \E d \in D : rank[d] = k /\ f[d] # g[d]}
  <1>1. S # {} => \E k \in S : \A l \in S : k <= l
    <2>1. S \in SUBSET Nat
      OBVIOUS
    <2> HIDE DEF S
    <2>. QED
      BY <2>1, LeastNumber
  <1>2. ASSUME NEW k \in S, \A l \in S : k <= l PROVE FALSE
    <2>1. PICK d \in D : rank[d] = k /\ f[d] # g[d]
      OBVIOUS
    <2>2. ASSUME NEW e \in D, rank[e] < rank[d], f[e] # g[e] PROVE FALSE
      <3>1. rank[e] \in S /\ rank[e] \in Nat /\ k \in Nat
        BY <2>2
      <3> HIDE DEF S
      <3>. QED
        BY <1>2, <2>1, <2>2, <3>1
    <2>. QED
      BY <2>1, <2>2
  <1>3. S = {}
    BY <1>1, <1>2
  <1>. QED
    BY <1>3

HasSolution(G, D, R) == \E f \in [D -> R] : f = G[f]

\* There is a solution.
LEMMA Recursion ==
    ASSUME NEW D, NEW R, NEW r \in R, NEW rank \in [D -> Nat],
           NEW G \in [[D -> R] -> [D -> R]], Local(G, D, R, rank)
    PROVE  HasSolution(G, D, R)
  <1> DEFINE solution(n) == CHOOSE f : Solves(f, n, G, D, R, rank)
             h == [d \in D |-> solution(rank[d] + 1)[d]]
  <1>1. \A n \in Nat : Solves(solution(n), n, G, D, R, rank)
    BY SolutionsExist
  <1>a. Agreement(G, D, R, rank)
    BY SolutionsAgree
  <1> HIDE DEF solution
  <1>2. h \in [D -> R]
    <2>1. ASSUME NEW d \in D PROVE solution(rank[d] + 1)[d] \in R
      <3>1. rank[d] + 1 \in Nat
        OBVIOUS
      <3>2. solution(rank[d] + 1) \in [D -> R]
        BY <1>1, <3>1 DEF Solves
      <3>. QED
        BY <3>2
    <2>. QED
      BY <2>1
  <1>3. ASSUME NEW d \in D PROVE G[h][d] = h[d]
    <2> DEFINE f == solution(rank[d] + 1)
    <2>1. rank[d] \in Nat /\ rank[d] + 1 \in Nat /\ rank[d] < rank[d] + 1
      OBVIOUS
    <2>2. Solves(f, rank[d] + 1, G, D, R, rank)
      BY <1>1, <2>1
    <2>3. \A e \in D : rank[e] < rank[d] => h[e] = f[e]
      <3>1. ASSUME NEW e \in D, rank[e] < rank[d] PROVE h[e] = f[e]
        <4>1. rank[e] \in Nat /\ rank[e] + 1 \in Nat /\ rank[e] < rank[e] + 1
          OBVIOUS
        <4>2. Solves(solution(rank[e] + 1), rank[e] + 1, G, D, R, rank)
          BY <1>1, <4>1
        <4>3. Solves(f, rank[e] + 1, G, D, R, rank)
          <5>1. \A c \in D : rank[c] < rank[e] + 1 => rank[c] < rank[d] + 1
            BY <2>1, <3>1, <4>1
          <5> HIDE DEF f
          <5>. QED
            BY <2>2, <5>1 DEF Solves
        <4> DEFINE g == solution(rank[e] + 1)
                   n == rank[e] + 1
        <4>4. Solves(g, n, G, D, R, rank) /\ Solves(f, n, G, D, R, rank) /\ n \in Nat
          BY <4>1, <4>2, <4>3
        <4>5. rank[e] < n /\ h[e] = g[e]
          BY <4>1
        <4> HIDE DEF f, g, n, h
        <4>6. \A c \in D : rank[c] < n => g[c] = f[c]
          BY <1>a, <4>4 DEF Agreement
        <4>. QED
          BY <4>5, <4>6
      <3>. QED
        BY <3>1
    <2>4. f \in [D -> R] /\ G[f][d] = f[d]
      BY <2>1, <2>2 DEF Solves
    <2>5. G[h][d] = G[f][d]
      <3> HIDE DEF f, h
      <3>. QED
        BY <1>2, <2>3, <2>4 DEF Local
    <2>6. h[d] = f[d]
      OBVIOUS
    <2>. QED
      BY <2>4, <2>5, <2>6
  <1> HIDE DEF h
  <1>4. G[h] \in [D -> R]
    BY <1>2
  <1>5. h = G[h]
    BY <1>2, <1>3, <1>4
  <1>. QED
    BY <1>2, <1>5 DEF HasSolution

-----------------------------------------------------------------------------
(***************************************************************************)
(* Data.  In what follows Data is all data there are: the leaves, and      *)
(* every tuple of data.  A tuple is higher than its elements.              *)
(***************************************************************************)
IsHeight(height) ==
    /\ height \in [Data -> Nat]
    /\ \A p \in Seq(Data) : \A k \in DOMAIN p : height[p[k]] < height[p]

AllData ==
    /\ Leaf \cap Seq(Data) = {}
    /\ Data = Leaf \cup Seq(Data)
    /\ \E height : IsHeight(height)

Height == CHOOSE height : IsHeight(height)

\* q is data and lower than p.
Lower(q, p) == q \in Data /\ Height[q] < Height[p]

\* The elements of a tuple are lower than the tuple.
LEMMA Elements ==
    ASSUME AllData
    PROVE  /\ Height \in [Data -> Nat]
           /\ \A p \in Data : IsTuple(p) <=> p \in Seq(Data)
           /\ \A p \in Seq(Data) : \A k \in DOMAIN p : Lower(p[k], p)
           /\ Seq(Data) \subseteq Data /\ Leaf \subseteq Data
  <1>1. IsHeight(Height)
    BY DEF AllData, Height
  <1>2. Seq(Data) \subseteq Data /\ Leaf \subseteq Data
    BY DEF AllData
  <1>3. \A p \in Data : IsTuple(p) <=> p \in Seq(Data)
    BY DEF AllData, IsTuple
  <1>4. ASSUME NEW p \in Seq(Data), NEW k \in DOMAIN p PROVE Lower(p[k], p)
    <2>1. p[k] \in Data
      OBVIOUS
    <2>. QED
      BY <1>1, <2>1 DEF IsHeight, Lower
  <1>. QED
    BY <1>1, <1>2, <1>3, <1>4 DEF IsHeight

\* Lower is transitive.
LEMMA LowerStill ==
    ASSUME AllData, NEW p \in Data, NEW q, NEW r, Lower(r, q), Lower(q, p)
    PROVE  Lower(r, p)
  <1>1. Height[p] \in Nat /\ Height[q] \in Nat /\ Height[r] \in Nat
    BY Elements DEF Lower
  <1>. QED
    BY <1>1 DEF Lower

\* Induction: a set of data has a lowest member.
LEMMA Lowest ==
    ASSUME AllData, NEW S \in SUBSET Data, S # {}
    PROVE  \E p \in S : \A q \in Data : Lower(q, p) => q \notin S
  <1> DEFINE H == {Height[p] : p \in S}
  <1>1. Height \in [Data -> Nat]
    BY Elements
  <1>2. H \in SUBSET Nat /\ H # {}
    BY <1>1
  <1>3. PICK n \in H : \A m \in H : n <= m
    <2> HIDE DEF H
    <2>. QED
      BY <1>2, LeastNumber
  <1>4. PICK p \in S : n = Height[p]
    OBVIOUS
  <1>5. ASSUME NEW q \in Data, Lower(q, p), q \in S PROVE FALSE
    <2>1. Height[q] \in H /\ Height[q] \in Nat /\ n \in Nat
      BY <1>1, <1>5
    <2>. QED
      BY <1>3, <1>4, <1>5, <2>1 DEF Lower
  <1>. QED
    BY <1>4, <1>5

\* The parts an implication, a negation and a connective are made of.
Parts(p) ==
    /\ IsTuple(p) => p \in Seq(Data) /\ \A k \in DOMAIN p : Lower(p[k], p)
    /\ IsImplication(p) => Lower(p[1], p) /\ Lower(p[2], p) /\ Lower(p[3], p)
                           /\ p = <<p[1], Implies, p[3]>>
    /\ IsNot(p) => Lower(p[2], p) /\ p = <<Not, p[2]>>
    /\ IsBoolBinOp(p) => /\ p[2] \in Seq(Data) /\ p = <<p[1], p[2]>> /\ p[1] \in Data
                         /\ \A k \in DOMAIN p[2] : Lower(p[2][k], p)

\* The parts that evaluate_predicate, demorganize_data and inhabits_data look at are
\* lower than what they are parts of.
LEMMA PartsLower ==
    ASSUME AllData, NEW p \in Data
    PROVE  Parts(p)
  <1>1. IsTuple(p) => p \in Seq(Data) /\ \A k \in DOMAIN p : Lower(p[k], p)
    BY Elements
  <1>2. ASSUME IsImplication(p)
        PROVE  Lower(p[1], p) /\ Lower(p[2], p) /\ Lower(p[3], p) /\ p = <<p[1], Implies, p[3]>>
    <2>1. p \in Seq(Data) /\ Len(p) = 3 /\ p[2] = Implies
      BY <1>1, <1>2 DEF IsImplication
    <2>2. 1 \in DOMAIN p /\ 2 \in DOMAIN p /\ 3 \in DOMAIN p
      BY <2>1
    <2>3. p = <<p[1], Implies, p[3]>>
      BY <2>1
    <2>. QED
      BY <1>1, <1>2, <2>2, <2>3 DEF IsImplication
  <1>3. ASSUME IsNot(p) PROVE Lower(p[2], p) /\ p = <<Not, p[2]>>
    <2>1. p \in Seq(Data) /\ Len(p) = 2 /\ p[1] = Not
      BY <1>1, <1>3 DEF IsNot
    <2>2. 2 \in DOMAIN p
      BY <2>1
    <2>3. p = <<Not, p[2]>>
      BY <2>1
    <2>. QED
      BY <1>1, <1>3, <2>2, <2>3 DEF IsNot
  <1>4. ASSUME IsBoolBinOp(p)
        PROVE  /\ p[2] \in Seq(Data) /\ p = <<p[1], p[2]>> /\ p[1] \in Data
               /\ \A k \in DOMAIN p[2] : Lower(p[2][k], p)
    <2>1. p \in Seq(Data) /\ Len(p) = 2 /\ IsTuple(p[2])
      BY <1>1, <1>4 DEF IsBoolBinOp
    <2>2. 1 \in DOMAIN p /\ 2 \in DOMAIN p
      BY <2>1
    <2>3. Lower(p[2], p) /\ p[1] \in Data
      BY <1>1, <1>4, <2>2 DEF IsBoolBinOp, Lower
    <2>4. p[2] \in Seq(Data) /\ \A k \in DOMAIN p[2] : Lower(p[2][k], p[2])
      BY <2>1, <2>3, Elements DEF Lower
    <2>5. \A k \in DOMAIN p[2] : Lower(p[2][k], p)
      BY <2>3, <2>4, LowerStill
    <2>6. p = <<p[1], p[2]>>
      BY <2>1
    <2>. QED
      BY <2>3, <2>4, <2>5, <2>6
  <1>. QED
    BY <1>1, <1>2, <1>3, <1>4 DEF Parts

\* Implications, negations and connectives of data are data, and are told apart.
LEMMA Formed ==
    ASSUME AllData
    PROVE  /\ \A p \in Data : <<Not, p>> \in Data /\ IsNot(<<Not, p>>)
           /\ \A p, q \in Data : <<p, Implies, q>> \in Data /\ IsImplication(<<p, Implies, q>>)
           /\ \A op \in Connective, s \in Seq(Data) : <<op, s>> \in Data /\ IsBoolBinOp(<<op, s>>)
           /\ \A p \in Data : /\ ~ (IsImplication(p) /\ IsNot(p))
                              /\ ~ (IsImplication(p) /\ IsBoolBinOp(p))
                              /\ ~ (IsNot(p) /\ IsBoolBinOp(p))
  <1>1. Implies \in Data /\ Not \in Data /\ Connective \subseteq Data
    BY Elements DEF Leaf
  <1>2. ASSUME NEW p \in Data PROVE <<Not, p>> \in Data /\ IsNot(<<Not, p>>)
    <2>1. <<Not, p>> \in Seq(Data)
      BY <1>1
    <2>. QED
      BY <2>1, Elements DEF IsNot
  <1>3. ASSUME NEW p \in Data, NEW q \in Data
        PROVE  <<p, Implies, q>> \in Data /\ IsImplication(<<p, Implies, q>>)
    <2>1. <<p, Implies, q>> \in Seq(Data)
      BY <1>1
    <2>. QED
      BY <2>1, Elements DEF IsImplication
  <1>4. ASSUME NEW op \in Connective, NEW s \in Seq(Data)
        PROVE  <<op, s>> \in Data /\ IsBoolBinOp(<<op, s>>)
    <2>1. s \in Data /\ IsTuple(s)
      BY Elements
    <2>2. <<op, s>> \in Seq(Data)
      BY <1>1, <2>1
    <2>. QED
      BY <2>1, <2>2, Elements DEF IsBoolBinOp
  <1>5. Not \notin Connective
    BY LeavesAssumption DEF Connective
  <1>6. ASSUME NEW p \in Data
        PROVE  /\ ~ (IsImplication(p) /\ IsNot(p))
               /\ ~ (IsImplication(p) /\ IsBoolBinOp(p))
               /\ ~ (IsNot(p) /\ IsBoolBinOp(p))
    BY <1>5 DEF IsImplication, IsNot, IsBoolBinOp
  <1>. QED
    BY <1>2, <1>3, <1>4, <1>6
-----------------------------------------------------------------------------
(***************************************************************************)
(* The recursive functions of Predicates return what their equations say.  *)
(***************************************************************************)
State == {"Deny", "Unknown", "Accept"}

\* Either no operand breaks away, or the first that does is returned.
BreaksFirst(identity, n, states) ==
    \/ UpToBreak(identity, states) = identity /\ \A k \in 1 .. n : states[k] = identity
    \/ \E k \in 1 .. n : /\ UpToBreak(identity, states) = states[k] /\ states[k] # identity
                         /\ \A l \in 1 .. k - 1 : states[l] = identity

\* The operands of a connective are read up to the first that breaks away, if any.
LEMMA FirstBreak ==
    ASSUME NEW identity \in State, NEW n \in Nat, NEW states \in [1 .. n -> State]
    PROVE  BreaksFirst(identity, n, states)
  <1> DEFINE breaks == {k \in DOMAIN states : states[k] # identity}
  <1>1. CASE breaks = {}
    BY <1>1 DEF UpToBreak, BreaksFirst
  <1>2. CASE breaks # {}
    <2>1. breaks \in SUBSET Nat
      OBVIOUS
    <2>2. \E k \in breaks : \A l \in breaks : k <= l
      <3> HIDE DEF breaks
      <3>. QED
        BY <1>2, <2>1, LeastNumber
    <2> DEFINE k == CHOOSE k \in breaks : \A l \in breaks : k <= l
    <2>3. k \in breaks /\ \A l \in breaks : k <= l
      BY <2>2
    <2>4. UpToBreak(identity, states) = states[k]
      BY <1>2 DEF UpToBreak
    <2>5. k \in 1 .. n /\ states[k] # identity
      BY <2>3
    <2> HIDE DEF k
    <2>6. ASSUME NEW l \in 1 .. k - 1 PROVE states[l] = identity
      BY <2>3, <2>5, <2>6
    <2>. QED
      BY <2>4, <2>5, <2>6 DEF BreaksFirst
  <1>. QED
    BY <1>1, <1>2

\* The states of the operands combined are states.
LEMMA CombinedStates ==
    ASSUME NEW n \in Nat, NEW states \in [1 .. n -> State]
    PROVE  AndOf(states) \in State /\ OrOf(states) \in State /\ XorOf(states) \in State
  <1> DEFINE ands == [k \in 1 .. n |-> AndState("Accept", states[k])]
             ors  == [k \in 1 .. n |-> OrState("Deny", states[k])]
  <1>1. ands \in [1 .. n -> State] /\ ors \in [1 .. n -> State]
    BY DEF AndState, OrState, AnyOf, State
  <1>2. AndOf(states) = UpToBreak("Accept", ands) /\ OrOf(states) = UpToBreak("Deny", ors)
    BY DEF AndOf, OrOf
  <1>3. "Accept" \in State /\ "Deny" \in State
    BY DEF State
  <1> HIDE DEF ands, ors
  <1>4. UpToBreak("Accept", ands) \in State
    BY <1>1, <1>3, FirstBreak DEF BreaksFirst
  <1>5. UpToBreak("Deny", ors) \in State
    BY <1>1, <1>3, FirstBreak DEF BreaksFirst
  <1>6. XorOf(states) \in State
    BY DEF XorOf, AnyOf, State
  <1>. QED
    BY <1>2, <1>4, <1>5, <1>6

\* What evaluate_predicate returns for what it does not find among the beliefs is a state.
LEMMA EvaluatePartsState ==
    ASSUME AllData, NEW f \in [Data -> State], NEW p \in Data
    PROVE  EvaluateParts(f, p) \in State
  <1>1. Parts(p)
    BY PartsLower
  <1>2. CASE IsImplication(p)
    <2>1. OrState(NotState(f[p[1]]), f[p[2]]) \in State
      BY DEF OrState, AnyOf, State
    <2>2. ~ IsNot(p) /\ ~ Is(And, p) /\ ~ Is(Or, p) /\ ~ Is(Xor, p)
      BY <1>2, Formed DEF Is
    <2>. QED
      BY <1>2, <2>1, <2>2 DEF EvaluateParts
  <1>3. CASE ~ IsImplication(p) /\ IsNot(p)
    <2>1. f[p[2]] \in State
      BY <1>1, <1>3 DEF Parts, Lower
    <2>2. NotState(f[p[2]]) \in State
      BY <2>1 DEF NotState, State
    <2>3. ~ Is(And, p) /\ ~ Is(Or, p) /\ ~ Is(Xor, p)
      BY <1>3, Formed DEF Is
    <2>. QED
      BY <1>3, <2>2, <2>3 DEF EvaluateParts
  <1>4. CASE IsBoolBinOp(p)
    <2> DEFINE operands == [k \in DOMAIN p[2] |-> f[p[2][k]]]
    <2>1. Len(p[2]) \in Nat /\ DOMAIN p[2] = 1 .. Len(p[2])
      BY <1>1, <1>4 DEF Parts
    <2>2. operands \in [1 .. Len(p[2]) -> State]
      BY <1>1, <1>4, <2>1 DEF Parts, Lower
    <2> HIDE DEF operands
    <2>3. AndOf(operands) \in State /\ OrOf(operands) \in State /\ XorOf(operands) \in State
      BY <2>1, <2>2, CombinedStates
    <2>4. ~ IsImplication(p) /\ ~ IsNot(p)
      BY <1>1, <1>4, Formed
    <2>5. "Unknown" \in State
      BY DEF State
    <2> USE DEF operands
    <2>. QED
      BY <2>3, <2>4, <2>5 DEF EvaluateParts
  <1>5. CASE ~ IsImplication(p) /\ ~ IsNot(p) /\ ~ IsBoolBinOp(p)
    BY <1>5 DEF EvaluateParts, State, Is
  <1>. QED
    BY <1>2, <1>3, <1>4, <1>5

\* evaluate_predicate depends on what it returns for the parts only.
LEMMA EvaluateLocal ==
    ASSUME AllData, NEW B, NEW f, NEW g, NEW p \in Data,
           \A q \in Data : Height[q] < Height[p] => f[q] = g[q]
    PROVE  EvaluateGiven(B, f, p) = EvaluateGiven(B, g, p)
  <1>1. Parts(p)
    BY PartsLower
  <1>2. CASE IsImplication(p)
    <2>1. f[p[1]] = g[p[1]] /\ f[p[2]] = g[p[2]]
      BY <1>1, <1>2 DEF Parts, Lower
    <2>2. EvaluateParts(f, p) = EvaluateParts(g, p)
      BY <1>2, <2>1 DEF EvaluateParts
    <2>. QED
      BY <2>2 DEF EvaluateGiven
  <1>3. CASE ~ IsImplication(p) /\ IsNot(p)
    <2>1. f[p[2]] = g[p[2]]
      BY <1>1, <1>3 DEF Parts, Lower
    <2>2. EvaluateParts(f, p) = EvaluateParts(g, p)
      <3>1. ~ Is(And, p) /\ ~ Is(Or, p) /\ ~ Is(Xor, p)
        BY <1>3, Formed DEF Is
      <3>. QED
        BY <1>3, <2>1, <3>1 DEF EvaluateParts
    <2>. QED
      BY <2>2 DEF EvaluateGiven
  <1>4. CASE IsBoolBinOp(p)
    <2>1. [k \in DOMAIN p[2] |-> f[p[2][k]]] = [k \in DOMAIN p[2] |-> g[p[2][k]]]
      BY <1>1, <1>4 DEF Parts, Lower
    <2>2. ~ IsImplication(p) /\ ~ IsNot(p)
      BY <1>4, Formed
    <2>3. EvaluateParts(f, p) = EvaluateParts(g, p)
      BY <2>1, <2>2 DEF EvaluateParts
    <2>. QED
      BY <2>3 DEF EvaluateGiven
  <1>5. CASE ~ IsImplication(p) /\ ~ IsNot(p) /\ ~ IsBoolBinOp(p)
    <2>1. EvaluateParts(f, p) = EvaluateParts(g, p)
      BY <1>5 DEF EvaluateParts, Is
    <2>. QED
      BY <2>1 DEF EvaluateGiven
  <1>. QED
    BY <1>2, <1>3, <1>4, <1>5

\* evaluate_predicate
Evaluation(B) == [p \in Data |-> Evaluate(B, p)]

\* evaluate_predicate is defined for all data, and is its own equation.
LEMMA EvaluateDef ==
    ASSUME AllData, NEW B
    PROVE  /\ Evaluation(B) \in [Data -> State]
           /\ \A p \in Data : Evaluate(B, p) = EvaluateGiven(B, Evaluation(B), p)
  <1> DEFINE G == [f \in [Data -> State] |-> [q \in Data |-> EvaluateGiven(B, f, q)]]
  <1>1. ASSUME NEW f \in [Data -> State], NEW p \in Data PROVE EvaluateGiven(B, f, p) \in State
    <2>1. EvaluateParts(f, p) \in State
      BY EvaluatePartsState
    <2>. QED
      BY <2>1 DEF EvaluateGiven, State
  <1>2. Height \in [Data -> Nat] /\ "Deny" \in State
    BY Elements DEF State
  <1>3. Local(G, Data, State, Height)
    BY EvaluateLocal DEF Local
  <1>4. G \in [[Data -> State] -> [Data -> State]]
    BY <1>1
  <1>5. HasSolution(G, Data, State)
    <2> HIDE DEF G
    <2>. QED
      BY <1>2, <1>3, <1>4, Recursion
  <1>6. PICK f \in [Data -> State] : f = [q \in Data |-> EvaluateGiven(B, f, q)]
    BY <1>5 DEF HasSolution
  <1> DEFINE e == CHOOSE e : e = [q \in Data |-> EvaluateGiven(B, e, q)]
  <1>7. e = [q \in Data |-> EvaluateGiven(B, e, q)]
    BY <1>6
  <1>8. \A p : Evaluate(B, p) = e[p]
    BY DEF Evaluate
  <1> HIDE DEF e, G
  <1>9. ASSUME NEW p \in Data, \A q \in Data : Height[q] < Height[p] => e[q] = f[q]
        PROVE  e[p] = f[p]
    <2>1. EvaluateGiven(B, e, p) = EvaluateGiven(B, f, p)
      BY <1>9, EvaluateLocal
    <2>2. e[p] = EvaluateGiven(B, e, p)
      BY <1>7
    <2>3. f[p] = EvaluateGiven(B, f, p)
      BY <1>6
    <2>. QED
      BY <2>1, <2>2, <2>3
  <1>10. \A p \in Data : e[p] = f[p]
    BY <1>2, <1>9, SameByRank
  <1>11. Evaluation(B) = f
    BY <1>8, <1>10 DEF Evaluation
  <1>12. ASSUME NEW p \in Data PROVE Evaluate(B, p) = EvaluateGiven(B, f, p)
    <2>1. f[p] = EvaluateGiven(B, f, p)
      BY <1>6
    <2>. QED
      BY <1>8, <1>10, <2>1
  <1>. QED
    BY <1>11, <1>12

\* A connective is one of three.
LEMMA WhichConnective ==
    ASSUME NEW p
    PROVE  /\ IsBoolBinOp(p) <=> Is(And, p) \/ Is(Or, p) \/ Is(Xor, p)
           /\ ~ (Is(And, p) /\ Is(Or, p)) /\ ~ (Is(And, p) /\ Is(Xor, p))
           /\ ~ (Is(Or, p) /\ Is(Xor, p))
  BY LeavesAssumption DEF Is, IsBoolBinOp, Connective

\* Holds depends on what holds of the parts only.
LEMMA HoldsLocal ==
    ASSUME AllData, NEW w, NEW f, NEW g, NEW p \in Data,
           \A q \in Data : Height[q] < Height[p] => f[q] = g[q]
    PROVE  HoldsGiven(w, f, p) = HoldsGiven(w, g, p)
  <1>1. Parts(p)
    BY PartsLower
  <1>2. CASE IsImplication(p)
    <2>1. f[p[1]] = g[p[1]] /\ f[p[3]] = g[p[3]]
      BY <1>1, <1>2 DEF Parts, Lower
    <2>2. ~ IsNot(p) /\ ~ Is(And, p) /\ ~ Is(Or, p) /\ ~ Is(Xor, p)
      BY <1>2, Formed DEF Is
    <2>. QED
      BY <1>2, <2>1, <2>2 DEF HoldsGiven
  <1>3. CASE IsNot(p)
    <2>1. f[p[2]] = g[p[2]]
      BY <1>1, <1>3 DEF Parts, Lower
    <2>2. ~ IsImplication(p) /\ ~ Is(And, p) /\ ~ Is(Or, p) /\ ~ Is(Xor, p)
      BY <1>3, Formed DEF Is
    <2>. QED
      BY <1>3, <2>1, <2>2 DEF HoldsGiven
  <1>4. CASE IsBoolBinOp(p)
    <2>1. \A k \in DOMAIN p[2] : f[p[2][k]] = g[p[2][k]]
      BY <1>1, <1>4 DEF Parts, Lower
    <2>2. ~ IsImplication(p) /\ ~ IsNot(p)
      BY <1>4, Formed
    <2>3. CASE Is(And, p)
      <3>1. (\A k \in DOMAIN p[2] : f[p[2][k]]) = (\A k \in DOMAIN p[2] : g[p[2][k]])
        BY <2>1
      <3>. QED
        BY <2>2, <2>3, <3>1, WhichConnective DEF HoldsGiven
    <2>4. CASE Is(Or, p)
      <3>1. (\E k \in DOMAIN p[2] : f[p[2][k]]) = (\E k \in DOMAIN p[2] : g[p[2][k]])
        BY <2>1
      <3>. QED
        BY <2>2, <2>4, <3>1, WhichConnective DEF HoldsGiven
    <2>5. CASE Is(Xor, p)
      <3>1. {k \in DOMAIN p[2] : f[p[2][k]]} = {k \in DOMAIN p[2] : g[p[2][k]]}
        BY <2>1
      <3>. QED
        BY <2>2, <2>5, <3>1, WhichConnective DEF HoldsGiven
    <2>. QED
      BY <1>4, <2>3, <2>4, <2>5, WhichConnective
  <1>5. CASE ~ IsImplication(p) /\ ~ IsNot(p) /\ ~ IsBoolBinOp(p)
    BY <1>5 DEF HoldsGiven, Is
  <1>. QED
    BY <1>2, <1>3, <1>4, <1>5

\* What holds in a world
Holding(w) == [p \in Data |-> Holds(w, p)]

\* Truth in a world is defined for all data, and is its own equation.
LEMMA HoldsDef ==
    ASSUME AllData, NEW w
    PROVE  /\ Holding(w) \in [Data -> BOOLEAN]
           /\ \A p \in Data : Holds(w, p) = HoldsGiven(w, Holding(w), p)
  <1> DEFINE G == [f \in [Data -> BOOLEAN] |-> [q \in Data |-> HoldsGiven(w, f, q)]]
  <1>1. ASSUME NEW f \in [Data -> BOOLEAN], NEW p \in Data PROVE HoldsGiven(w, f, p) \in BOOLEAN
    <2>1. Parts(p)
      BY PartsLower
    <2>2. CASE IsImplication(p)
      <3>1. f[p[1]] \in BOOLEAN /\ f[p[3]] \in BOOLEAN
        BY <2>1, <2>2 DEF Parts, Lower
      <3>2. ~ IsNot(p) /\ ~ Is(And, p) /\ ~ Is(Or, p) /\ ~ Is(Xor, p)
        BY <2>2, Formed DEF Is
      <3>. QED
        BY <2>2, <3>1, <3>2 DEF HoldsGiven
    <2>3. CASE IsNot(p)
      <3>1. ~ IsImplication(p) /\ ~ Is(And, p) /\ ~ Is(Or, p) /\ ~ Is(Xor, p)
        BY <2>3, Formed DEF Is
      <3>. QED
        BY <2>3, <3>1 DEF HoldsGiven
    <2>4. CASE ~ IsImplication(p) /\ ~ IsNot(p) /\ Is(And, p)
      BY <2>4, WhichConnective DEF HoldsGiven
    <2>5. CASE ~ IsImplication(p) /\ ~ IsNot(p) /\ Is(Or, p)
      BY <2>5, WhichConnective DEF HoldsGiven
    <2>6. CASE ~ IsImplication(p) /\ ~ IsNot(p) /\ Is(Xor, p)
      BY <2>6, WhichConnective DEF HoldsGiven
    <2>7. CASE /\ ~ IsImplication(p) /\ ~ IsNot(p)
               /\ ~ Is(And, p) /\ ~ Is(Or, p) /\ ~ Is(Xor, p)
      BY <2>7 DEF HoldsGiven
    <2>. QED
      BY <2>2, <2>3, <2>4, <2>5, <2>6, <2>7
  <1>2. Height \in [Data -> Nat] /\ TRUE \in BOOLEAN
    BY Elements
  <1>3. Local(G, Data, BOOLEAN, Height)
    BY HoldsLocal DEF Local
  <1>4. G \in [[Data -> BOOLEAN] -> [Data -> BOOLEAN]]
    BY <1>1
  <1>5. HasSolution(G, Data, BOOLEAN)
    <2> HIDE DEF G
    <2>. QED
      BY <1>2, <1>3, <1>4, Recursion
  <1>6. PICK f \in [Data -> BOOLEAN] : f = [q \in Data |-> HoldsGiven(w, f, q)]
    BY <1>5 DEF HasSolution
  <1> DEFINE e == CHOOSE e : e = [q \in Data |-> HoldsGiven(w, e, q)]
  <1>7. e = [q \in Data |-> HoldsGiven(w, e, q)]
    BY <1>6
  <1>8. \A p : Holds(w, p) = e[p]
    BY DEF Holds
  <1> HIDE DEF e, G
  <1>9. ASSUME NEW p \in Data, \A q \in Data : Height[q] < Height[p] => e[q] = f[q]
        PROVE  e[p] = f[p]
    <2>1. HoldsGiven(w, e, p) = HoldsGiven(w, f, p)
      BY <1>9, HoldsLocal
    <2>2. e[p] = HoldsGiven(w, e, p)
      BY <1>7
    <2>3. f[p] = HoldsGiven(w, f, p)
      BY <1>6
    <2>. QED
      BY <2>1, <2>2, <2>3
  <1>10. \A p \in Data : e[p] = f[p]
    BY <1>2, <1>9, SameByRank
  <1>11. Holding(w) = f
    BY <1>8, <1>10 DEF Holding
  <1>12. ASSUME NEW p \in Data PROVE Holds(w, p) = HoldsGiven(w, f, p)
    <2>1. f[p] = HoldsGiven(w, f, p)
      BY <1>6
    <2>. QED
      BY <1>8, <1>10, <2>1
  <1>. QED
    BY <1>11, <1>12

\* Whether data is a sentence depends on whether its parts are.
LEMMA SentenceLocal ==
    ASSUME AllData, NEW f, NEW g, NEW p \in Data,
           \A q \in Data : Height[q] < Height[p] => f[q] = g[q]
    PROVE  SentenceGiven(f, p) = SentenceGiven(g, p)
  <1>1. Parts(p)
    BY PartsLower
  <1>2. CASE IsImplication(p)
    <2>1. f[p[1]] = g[p[1]] /\ f[p[3]] = g[p[3]]
      BY <1>1, <1>2 DEF Parts, Lower
    <2>2. ~ IsNot(p) /\ ~ IsBoolBinOp(p)
      BY <1>2, Formed
    <2>. QED
      BY <1>2, <2>1, <2>2 DEF SentenceGiven
  <1>3. CASE IsNot(p)
    <2>1. f[p[2]] = g[p[2]]
      BY <1>1, <1>3 DEF Parts, Lower
    <2>2. ~ IsImplication(p) /\ ~ IsBoolBinOp(p)
      BY <1>3, Formed
    <2>. QED
      BY <1>3, <2>1, <2>2 DEF SentenceGiven
  <1>4. CASE IsBoolBinOp(p)
    <2>1. \A k \in DOMAIN p[2] : f[p[2][k]] = g[p[2][k]]
      BY <1>1, <1>4 DEF Parts, Lower
    <2>2. ~ IsImplication(p) /\ ~ IsNot(p)
      BY <1>4, Formed
    <2>. QED
      BY <1>4, <2>1, <2>2 DEF SentenceGiven
  <1>5. CASE ~ IsImplication(p) /\ ~ IsNot(p) /\ ~ IsBoolBinOp(p)
    BY <1>5 DEF SentenceGiven
  <1>. QED
    BY <1>2, <1>3, <1>4, <1>5

\* sentence
LEMMA SentenceDef ==
    ASSUME AllData
    PROVE  \A p \in Data : Sentence(p) = SentenceGiven(sentence, p)
  <1> DEFINE G == [f \in [Data -> BOOLEAN] |-> [q \in Data |-> SentenceGiven(f, q)]]
  <1>1. ASSUME NEW f \in [Data -> BOOLEAN], NEW p \in Data PROVE SentenceGiven(f, p) \in BOOLEAN
    <2>1. Parts(p)
      BY PartsLower
    <2>2. CASE IsNot(p)
      <3>1. f[p[2]] \in BOOLEAN /\ ~ IsImplication(p) /\ ~ IsBoolBinOp(p)
        BY <2>1, <2>2, Formed DEF Parts, Lower
      <3>. QED
        BY <2>2, <3>1 DEF SentenceGiven
    <2>3. CASE ~ IsNot(p)
      BY <2>3 DEF SentenceGiven
    <2>. QED
      BY <2>2, <2>3
  <1>2. Height \in [Data -> Nat] /\ TRUE \in BOOLEAN
    BY Elements
  <1>3. Local(G, Data, BOOLEAN, Height)
    BY SentenceLocal DEF Local
  <1>4. G \in [[Data -> BOOLEAN] -> [Data -> BOOLEAN]]
    BY <1>1
  <1>5. HasSolution(G, Data, BOOLEAN)
    <2> HIDE DEF G
    <2>. QED
      BY <1>2, <1>3, <1>4, Recursion
  <1>6. \E f : f = [q \in Data |-> SentenceGiven(f, q)]
    BY <1>5 DEF HasSolution
  <1>7. sentence = [q \in Data |-> SentenceGiven(sentence, q)]
    BY <1>6 DEF sentence
  <1> HIDE DEF G
  <1>. QED
    BY <1>7 DEF Sentence

\* What free variables stand for: data.
IsAssignment(assigned) ==
    DOMAIN assigned \subseteq FreeVar /\ \A x \in DOMAIN assigned : assigned[x] \in Data

\* free_var_substitution__data depends on what it returns for the elements only.
LEMMA SubstitutedLocal ==
    ASSUME AllData, NEW assigned, NEW f, NEW g, NEW p \in Data,
           \A q \in Data : Height[q] < Height[p] => f[q] = g[q]
    PROVE  SubstitutedGiven(f, p, assigned) = SubstitutedGiven(g, p, assigned)
  <1>1. Parts(p)
    BY PartsLower
  <1>2. CASE IsTuple(p)
    <2>1. [k \in DOMAIN p |-> f[p[k]]] = [k \in DOMAIN p |-> g[p[k]]]
      BY <1>1, <1>2 DEF Parts, Lower
    <2>. QED
      BY <2>1 DEF SubstitutedGiven
  <1>3. CASE ~ IsTuple(p)
    BY <1>3 DEF SubstitutedGiven
  <1>. QED
    BY <1>2, <1>3

\* free_var_substitution__data, as a function
Substitution(assigned) == [p \in Data |-> Substituted(p, assigned)]

\* free_var_substitution__data returns data, and is its own equation.
LEMMA SubstitutedDef ==
    ASSUME AllData, NEW assigned, IsAssignment(assigned)
    PROVE  /\ Substitution(assigned) \in [Data -> Data]
           /\ \A p \in Data :
                Substituted(p, assigned) = SubstitutedGiven(Substitution(assigned), p, assigned)
  <1> DEFINE G == [f \in [Data -> Data] |-> [q \in Data |-> SubstitutedGiven(f, q, assigned)]]
  <1>1. ASSUME NEW f \in [Data -> Data], NEW p \in Data
        PROVE  SubstitutedGiven(f, p, assigned) \in Data
    <2>1. Parts(p)
      BY PartsLower
    <2>2. CASE p \in DOMAIN assigned
      BY <2>2 DEF SubstitutedGiven, IsAssignment
    <2>3. CASE p \notin DOMAIN assigned /\ IsTuple(p)
      <3>1. [k \in DOMAIN p |-> f[p[k]]] \in Seq(Data)
        <4>1. p \in Seq(Data) /\ DOMAIN p = 1 .. Len(p) /\ Len(p) \in Nat
          BY <2>1, <2>3 DEF Parts
        <4>2. \A k \in 1 .. Len(p) : f[p[k]] \in Data
          BY <4>1
        <4>. QED
          BY <4>1, <4>2
      <3>. QED
        BY <2>3, <3>1, Elements DEF SubstitutedGiven
    <2>4. CASE p \notin DOMAIN assigned /\ ~ IsTuple(p)
      BY <2>4 DEF SubstitutedGiven
    <2>. QED
      BY <2>2, <2>3, <2>4
  <1>2. Height \in [Data -> Nat] /\ Not \in Data
    BY Elements DEF Leaf
  <1>3. Local(G, Data, Data, Height)
    BY SubstitutedLocal DEF Local
  <1>4. G \in [[Data -> Data] -> [Data -> Data]]
    BY <1>1
  <1>5. HasSolution(G, Data, Data)
    <2> HIDE DEF G
    <2>. QED
      BY <1>2, <1>3, <1>4, Recursion
  <1>6. PICK f \in [Data -> Data] : f = [q \in Data |-> SubstitutedGiven(f, q, assigned)]
    BY <1>5 DEF HasSolution
  <1> DEFINE e == CHOOSE e : e = [q \in Data |-> SubstitutedGiven(e, q, assigned)]
  <1>7. e = [q \in Data |-> SubstitutedGiven(e, q, assigned)]
    BY <1>6
  <1>8. \A p : Substituted(p, assigned) = e[p]
    BY DEF Substituted
  <1> HIDE DEF e, G
  <1>9. ASSUME NEW p \in Data, \A q \in Data : Height[q] < Height[p] => e[q] = f[q]
        PROVE  e[p] = f[p]
    <2>1. SubstitutedGiven(e, p, assigned) = SubstitutedGiven(f, p, assigned)
      BY <1>9, SubstitutedLocal
    <2>2. e[p] = SubstitutedGiven(e, p, assigned)
      BY <1>7
    <2>3. f[p] = SubstitutedGiven(f, p, assigned)
      BY <1>6
    <2>. QED
      BY <2>1, <2>2, <2>3
  <1>10. \A p \in Data : e[p] = f[p]
    BY <1>2, <1>9, SameByRank
  <1>11. Substitution(assigned) = f
    BY <1>8, <1>10 DEF Substitution
  <1>12. ASSUME NEW p \in Data PROVE Substituted(p, assigned) = SubstitutedGiven(f, p, assigned)
    <2>1. f[p] = SubstitutedGiven(f, p, assigned)
      BY <1>6
    <2>. QED
      BY <1>8, <1>10, <2>1
  <1>. QED
    BY <1>11, <1>12

\* What free_var_substitution__data does to a variable, another leaf, and a tuple
LEMMA SubstitutedCases ==
    ASSUME AllData, NEW assigned, IsAssignment(assigned), NEW p \in Data
    PROVE  /\ Substituted(p, assigned) \in Data
           /\ p \in DOMAIN assigned => Substituted(p, assigned) = assigned[p]
           /\ ~ IsTuple(p) /\ p \notin DOMAIN assigned => Substituted(p, assigned) = p
           /\ IsTuple(p) => Substituted(p, assigned) = [k \in DOMAIN p |-> Substituted(p[k], assigned)]
  <1>1. /\ Substitution(assigned) \in [Data -> Data]
        /\ Substituted(p, assigned) = SubstitutedGiven(Substitution(assigned), p, assigned)
    BY SubstitutedDef
  <1>2. Substituted(p, assigned) \in Data
    BY <1>1 DEF Substitution
  <1>3. ASSUME IsTuple(p)
        PROVE  Substituted(p, assigned) = [k \in DOMAIN p |-> Substituted(p[k], assigned)]
    <2>1. p \notin DOMAIN assigned
      BY <1>3 DEF IsTuple, Leaf, IsAssignment
    <2>2. \A k \in DOMAIN p : p[k] \in Data
      BY <1>3, PartsLower DEF Parts, Lower
    <2>3. [k \in DOMAIN p |-> Substitution(assigned)[p[k]]]
            = [k \in DOMAIN p |-> Substituted(p[k], assigned)]
      BY <2>2 DEF Substitution
    <2>. QED
      BY <1>1, <1>3, <2>1, <2>3 DEF SubstitutedGiven
  <1>4. p \in DOMAIN assigned => Substituted(p, assigned) = assigned[p]
    BY <1>1 DEF SubstitutedGiven
  <1>5. ~ IsTuple(p) /\ p \notin DOMAIN assigned => Substituted(p, assigned) = p
    BY <1>1 DEF SubstitutedGiven
  <1>. QED
    BY <1>2, <1>3, <1>4, <1>5

\* Pairs of data and something else, ranked as the data are
RankOf(S) == [x \in S |-> Height[x[1]]]

\* negated_demorganize_data with negate, demorganize_data without
Dual(p, negate) == demorganized[<<p, negate>>]

\* demorganize_data depends on what it returns for the parts only.
LEMMA DualLocal ==
    ASSUME AllData, NEW f, NEW g, NEW p \in Data, NEW negate \in BOOLEAN,
           \A y \in Data \X BOOLEAN : Height[y[1]] < Height[p] => f[y] = g[y]
    PROVE  DemorganizedGiven(f, p, negate) = DemorganizedGiven(g, p, negate)
  <1> DEFINE D == Data \X BOOLEAN
  <1>1. Parts(p)
    BY PartsLower
  <1>2. CASE IsNot(p)
    <2>1. <<p[2], ~ negate>> \in D /\ Height[<<p[2], ~ negate>>[1]] < Height[p]
      BY <1>1, <1>2 DEF Parts, Lower
    <2>2. f[<<p[2], ~ negate>>] = g[<<p[2], ~ negate>>] /\ ~ IsBoolBinOp(p)
      BY <1>2, <2>1, Formed
    <2>. QED
      BY <1>2, <2>2 DEF DemorganizedGiven
  <1>3. CASE IsBoolBinOp(p)
    <2>1. ASSUME NEW k \in DOMAIN p[2]
          PROVE  f[<<p[2][k], negate>>] = g[<<p[2][k], negate>>]
      <3>1. <<p[2][k], negate>> \in D /\ Height[<<p[2][k], negate>>[1]] < Height[p]
        BY <1>1, <1>3 DEF Parts, Lower
      <3>. QED
        BY <3>1
    <2>2. [k \in DOMAIN p[2] |-> f[<<p[2][k], negate>>]] = [k \in DOMAIN p[2] |-> g[<<p[2][k], negate>>]]
      BY <2>1
    <2>3. ~ IsNot(p)
      BY <1>3, Formed
    <2>. QED
      BY <1>3, <2>2, <2>3 DEF DemorganizedGiven
  <1>4. CASE ~ IsNot(p) /\ ~ IsBoolBinOp(p)
    BY <1>4 DEF DemorganizedGiven
  <1>. QED
    BY <1>2, <1>3, <1>4

\* demorganize_data and negated_demorganize_data return data, and are their own equation.
LEMMA DualDef ==
    ASSUME AllData
    PROVE  \A p \in Data, negate \in BOOLEAN :
             Dual(p, negate) \in Data /\ Dual(p, negate) = DemorganizedGiven(demorganized, p, negate)
  <1> DEFINE D == Data \X BOOLEAN
             G == [f \in [D -> Data] |-> [x \in D |-> DemorganizedGiven(f, x[1], x[2])]]
  <1>1. ASSUME NEW f \in [D -> Data], NEW p \in Data, NEW negate \in BOOLEAN
        PROVE  DemorganizedGiven(f, p, negate) \in Data
    <2>1. Parts(p)
      BY PartsLower
    <2>2. CASE IsNot(p)
      <3>1. <<p[2], ~ negate>> \in D
        BY <2>1, <2>2 DEF Parts, Lower
      <3>2. f[<<p[2], ~ negate>>] \in Data /\ ~ IsBoolBinOp(p)
        BY <2>2, <3>1, Formed
      <3>. QED
        BY <2>2, <3>2 DEF DemorganizedGiven
    <2>3. CASE IsBoolBinOp(p)
      <3> DEFINE s == [k \in DOMAIN p[2] |-> f[<<p[2][k], negate>>]]
                 op == IF negate THEN DualConnective(p[1]) ELSE p[1]
      <3>1. s \in Seq(Data)
        <4>1. p[2] \in Seq(Data) /\ DOMAIN p[2] = 1 .. Len(p[2]) /\ Len(p[2]) \in Nat
          BY <2>1, <2>3 DEF Parts
        <4>2. \A k \in 1 .. Len(p[2]) : f[<<p[2][k], negate>>] \in Data
          BY <4>1
        <4>. QED
          BY <4>1, <4>2
      <3>2. op \in Connective
        <4>1. p[1] \in Connective
          BY <2>3 DEF IsBoolBinOp
        <4>2. DualConnective(p[1]) \in Connective
          BY <4>1, LeavesAssumption DEF DualConnective, Connective
        <4>. QED
          BY <4>1, <4>2
      <3> HIDE DEF s, op
      <3>3. <<op, s>> \in Data
        BY <3>1, <3>2, Formed
      <3>4. ~ IsNot(p)
        BY <2>3, Formed
      <3> USE DEF s, op
      <3>. QED
        BY <2>3, <3>3, <3>4 DEF DemorganizedGiven
    <2>4. CASE ~ IsNot(p) /\ ~ IsBoolBinOp(p)
      <3>1. <<Not, p>> \in Data
        BY Formed
      <3>. QED
        BY <2>4, <3>1 DEF DemorganizedGiven
    <2>. QED
      BY <2>2, <2>3, <2>4
  <1>2. RankOf(D) \in [D -> Nat] /\ Not \in Data
    BY Elements DEF Leaf, RankOf
  <1>3. ASSUME NEW f, NEW g, NEW x \in D,
               \A y \in D : RankOf(D)[y] < RankOf(D)[x] => f[y] = g[y]
        PROVE  DemorganizedGiven(f, x[1], x[2]) = DemorganizedGiven(g, x[1], x[2])
    <2>1. \A y \in D : Height[y[1]] < Height[x[1]] => f[y] = g[y]
      BY <1>3 DEF RankOf
    <2>. QED
      BY <2>1, DualLocal
  <1>4. Local(G, D, Data, RankOf(D))
    <2>1. \A f \in [D -> Data] : \A x \in D : G[f][x] = DemorganizedGiven(f, x[1], x[2])
      OBVIOUS
    <2> HIDE DEF G, D
    <2>. QED
      BY <1>3, <2>1 DEF Local
  <1>5. G \in [[D -> Data] -> [D -> Data]]
    BY <1>1
  <1>6. HasSolution(G, D, Data)
    <2> HIDE DEF G, D
    <2>. QED
      BY <1>2, <1>4, <1>5, Recursion
  <1>7. PICK f \in [D -> Data] : f = [x \in D |-> DemorganizedGiven(f, x[1], x[2])]
    BY <1>6 DEF HasSolution
  <1>8. demorganized = [x \in D |-> DemorganizedGiven(demorganized, x[1], x[2])]
    BY <1>7 DEF demorganized
  <1> HIDE DEF G
  <1>9. ASSUME NEW x \in D, \A y \in D : RankOf(D)[y] < RankOf(D)[x] => demorganized[y] = f[y]
        PROVE  demorganized[x] = f[x]
    <2>1. DemorganizedGiven(demorganized, x[1], x[2]) = DemorganizedGiven(f, x[1], x[2])
      BY <1>3, <1>9
    <2>2. demorganized[x] = DemorganizedGiven(demorganized, x[1], x[2])
      BY <1>8
    <2>3. f[x] = DemorganizedGiven(f, x[1], x[2])
      BY <1>7
    <2>. QED
      BY <2>1, <2>2, <2>3
  <1>10. \A x \in D : demorganized[x] = f[x]
    <2> HIDE DEF D
    <2>. QED
      BY <1>2, <1>9, SameByRank
  <1>11. ASSUME NEW p \in Data, NEW negate \in BOOLEAN
         PROVE  /\ demorganized[<<p, negate>>] = DemorganizedGiven(demorganized, p, negate)
                /\ demorganized[<<p, negate>>] \in Data
    <2>1. <<p, negate>> \in D
      OBVIOUS
    <2>. QED
      BY <1>8, <1>10, <2>1
  <1>. QED
    BY <1>11 DEF Dual

\* The pairs of elements of two tuples of the same length are pairs of data, the first lower.
LEMMA PairedElements ==
    ASSUME AllData, NEW p \in Data, NEW t \in Data, IsTuple(p), IsTuple(t), Len(p) = Len(t)
    PROVE  \A k \in DOMAIN p : <<p[k], t[k]>> \in Data \X Data /\ Height[p[k]] < Height[p]
  <1>1. p \in Seq(Data) /\ t \in Seq(Data)
    BY Elements
  <1>2. DOMAIN p = DOMAIN t
    BY <1>1
  <1>3. \A k \in DOMAIN p : p[k] \in Data /\ t[k] \in Data /\ Height[p[k]] < Height[p]
    BY <1>1, <1>2, Elements DEF Lower
  <1>. QED
    BY <1>3

\* matched_pattern__data
LEMMA FitsDef ==
    ASSUME AllData
    PROVE  \A p, t \in Data : Fits(p, t) = FitsGiven(fits, p, t)
  <1> DEFINE D == Data \X Data
             G == [f \in [D -> BOOLEAN] |-> [x \in D |-> FitsGiven(f, x[1], x[2])]]
  <1>1. G \in [[D -> BOOLEAN] -> [D -> BOOLEAN]]
    <2>1. \A f \in [D -> BOOLEAN], p, t \in Data : FitsGiven(f, p, t) \in BOOLEAN
      BY DEF FitsGiven
    <2>. QED
      BY <2>1
  <1>2. RankOf(D) \in [D -> Nat] /\ TRUE \in BOOLEAN
    BY Elements DEF RankOf
  <1>3. ASSUME NEW f, NEW g, NEW x \in D,
               \A y \in D : RankOf(D)[y] < RankOf(D)[x] => f[y] = g[y]
        PROVE  FitsGiven(f, x[1], x[2]) = FitsGiven(g, x[1], x[2])
    <2>1. PICK p \in Data, t \in Data : x = <<p, t>>
      OBVIOUS
    <2>2. \A y \in D : Height[y[1]] < Height[p] => f[y] = g[y]
      BY <1>3, <2>1 DEF RankOf
    <2>3. CASE IsTuple(p) /\ IsTuple(t) /\ Len(p) = Len(t)
      <3>1. \A k \in DOMAIN p : f[<<p[k], t[k]>>] = g[<<p[k], t[k]>>]
        BY <2>2, <2>3, PairedElements
      <3>. QED
        BY <2>1, <2>3, <3>1 DEF FitsGiven
    <2>4. CASE IsTuple(p) /\ ~ (IsTuple(t) /\ Len(p) = Len(t))
      BY <2>1, <2>4 DEF FitsGiven
    <2>5. CASE ~ IsTuple(p)
      BY <2>1, <2>5 DEF FitsGiven
    <2>. QED
      BY <2>3, <2>4, <2>5
  <1>4. Local(G, D, BOOLEAN, RankOf(D))
    <2>1. \A f \in [D -> BOOLEAN] : \A x \in D : G[f][x] = FitsGiven(f, x[1], x[2])
      OBVIOUS
    <2> HIDE DEF G, D
    <2>. QED
      BY <1>3, <2>1 DEF Local
  <1>5. HasSolution(G, D, BOOLEAN)
    <2> HIDE DEF G, D
    <2>. QED
      BY <1>1, <1>2, <1>4, Recursion
  <1>6. \E f : f = [x \in D |-> FitsGiven(f, x[1], x[2])]
    BY <1>5 DEF HasSolution
  <1>7. fits = [x \in D |-> FitsGiven(fits, x[1], x[2])]
    BY <1>6 DEF fits
  <1> HIDE DEF G
  <1>8. ASSUME NEW p \in Data, NEW t \in Data PROVE fits[<<p, t>>] = FitsGiven(fits, p, t)
    <2>1. <<p, t>> \in D
      OBVIOUS
    <2>. QED
      BY <1>7, <2>1
  <1>. QED
    BY <1>8 DEF Fits

\* What matched_pattern__FreeVarTerm_c is called with
LEMMA MeetsDef ==
    ASSUME AllData
    PROVE  \A p, t \in Data : Meets(p, t) = MeetsGiven(meets, p, t)
  <1> DEFINE D == Data \X Data
             R == SUBSET (Data \X Data)
             G == [f \in [D -> R] |-> [x \in D |-> MeetsGiven(f, x[1], x[2])]]
  <1>1. G \in [[D -> R] -> [D -> R]]
    <2>1. ASSUME NEW f \in [D -> R], NEW p \in Data, NEW t \in Data PROVE MeetsGiven(f, p, t) \in R
      <3>1. CASE p \in FreeVar
        BY <3>1 DEF MeetsGiven
      <3>2. CASE p \notin FreeVar /\ IsTuple(p) /\ IsTuple(t) /\ Len(p) = Len(t)
        <4>1. \A k \in DOMAIN p : f[<<p[k], t[k]>>] \in R
          BY <3>2, PairedElements
        <4>2. UNION {f[<<p[k], t[k]>>] : k \in DOMAIN p} \in R
          BY <4>1
        <4>. QED
          BY <3>2, <4>2 DEF MeetsGiven
      <3>3. CASE p \notin FreeVar /\ ~ (IsTuple(p) /\ IsTuple(t) /\ Len(p) = Len(t))
        BY <3>3 DEF MeetsGiven
      <3>. QED
        BY <3>1, <3>2, <3>3
    <2>2. \A f \in [D -> R] : \A x \in D : MeetsGiven(f, x[1], x[2]) \in R
      BY <2>1
    <2> HIDE DEF D, R
    <2>. QED
      BY <2>2
  <1>2. RankOf(D) \in [D -> Nat] /\ {} \in R
    BY Elements DEF RankOf
  <1>3. ASSUME NEW f, NEW g, NEW x \in D,
               \A y \in D : RankOf(D)[y] < RankOf(D)[x] => f[y] = g[y]
        PROVE  MeetsGiven(f, x[1], x[2]) = MeetsGiven(g, x[1], x[2])
    <2>1. PICK p \in Data, t \in Data : x = <<p, t>>
      OBVIOUS
    <2>2. \A y \in D : Height[y[1]] < Height[p] => f[y] = g[y]
      BY <1>3, <2>1 DEF RankOf
    <2>3. CASE IsTuple(p) /\ IsTuple(t) /\ Len(p) = Len(t)
      <3>1. \A k \in DOMAIN p : f[<<p[k], t[k]>>] = g[<<p[k], t[k]>>]
        BY <2>2, <2>3, PairedElements
      <3>2. {f[<<p[k], t[k]>>] : k \in DOMAIN p} = {g[<<p[k], t[k]>>] : k \in DOMAIN p}
        BY <3>1
      <3>3. UNION {f[<<p[k], t[k]>>] : k \in DOMAIN p} = UNION {g[<<p[k], t[k]>>] : k \in DOMAIN p}
        BY <3>2
      <3>4. MeetsGiven(f, p, t) = MeetsGiven(g, p, t)
        BY <2>3, <3>3 DEF MeetsGiven
      <3>. QED
        BY <2>1, <3>4
    <2>4. CASE ~ (IsTuple(p) /\ IsTuple(t) /\ Len(p) = Len(t))
      BY <2>1, <2>4 DEF MeetsGiven
    <2>. QED
      BY <2>3, <2>4
  <1>4. Local(G, D, R, RankOf(D))
    <2>1. \A f \in [D -> R] : \A x \in D : G[f][x] = MeetsGiven(f, x[1], x[2])
      OBVIOUS
    <2> HIDE DEF G, D, R
    <2>. QED
      BY <1>3, <2>1 DEF Local
  <1>5. HasSolution(G, D, R)
    <2> HIDE DEF G, D, R
    <2>. QED
      BY <1>1, <1>2, <1>4, Recursion
  <1>6. \E f : f = [x \in D |-> MeetsGiven(f, x[1], x[2])]
    BY <1>5 DEF HasSolution
  <1>7. meets = [x \in D |-> MeetsGiven(meets, x[1], x[2])]
    BY <1>6 DEF meets
  <1> HIDE DEF G
  <1>8. ASSUME NEW p \in Data, NEW t \in Data PROVE meets[<<p, t>>] = MeetsGiven(meets, p, t)
    <2>1. <<p, t>> \in D
      OBVIOUS
    <2>. QED
      BY <1>7, <2>1
  <1>. QED
    BY <1>8 DEF Meets
-----------------------------------------------------------------------------
(***************************************************************************)
(* Matching and substitution.                                              *)
(***************************************************************************)

\* What free variables meet is data.
LEMMA MeetsAreAssignments ==
    ASSUME AllData
    PROVE  \A p \in Data : \A t \in Data : Meets(p, t) \subseteq FreeVar \X Data
  <1> DEFINE S == {p \in Data : ~ \A t \in Data : Meets(p, t) \subseteq FreeVar \X Data}
  <1>1. SUFFICES ASSUME S # {} PROVE FALSE
    OBVIOUS
  <1>2. PICK p \in S : \A q \in Data : Lower(q, p) => q \notin S
    <2>1. S \in SUBSET Data
      OBVIOUS
    <2> HIDE DEF S
    <2>. QED
      BY <1>1, <2>1, Lowest
  <1>3. p \in Data /\ \A q \in Data : Lower(q, p) => \A t \in Data : Meets(q, t) \subseteq FreeVar \X Data
    BY <1>2
  <1>4. ASSUME NEW t \in Data PROVE Meets(p, t) \subseteq FreeVar \X Data
    <2>1. Meets(p, t) = MeetsGiven(meets, p, t)
      BY <1>3, MeetsDef
    <2>2. CASE p \in FreeVar
      BY <2>1, <2>2 DEF MeetsGiven
    <2>3. CASE p \notin FreeVar /\ IsTuple(p) /\ IsTuple(t) /\ Len(p) = Len(t)
      <3>1. \A k \in DOMAIN p : p[k] \in Data /\ t[k] \in Data /\ Lower(p[k], p)
        BY <1>3, <2>3, PairedElements DEF Lower
      <3>2. \A k \in DOMAIN p : Meets(p[k], t[k]) \subseteq FreeVar \X Data
        BY <1>3, <3>1
      <3>3. Meets(p, t) = UNION {Meets(p[k], t[k]) : k \in DOMAIN p}
        BY <2>1, <2>3 DEF MeetsGiven, Meets
      <3>. QED
        BY <3>2, <3>3
    <2>4. CASE p \notin FreeVar /\ ~ (IsTuple(p) /\ IsTuple(t) /\ Len(p) = Len(t))
      BY <2>1, <2>4 DEF MeetsGiven
    <2>. QED
      BY <2>2, <2>3, <2>4
  <1>. QED
    BY <1>2, <1>4

\* Each free variable is assigned what it meets.
Agrees(assigned, met) == \A m \in met : m[1] \in DOMAIN assigned /\ assigned[m[1]] = m[2]

\* A pattern that fits a term becomes the term when its variables are what they meet.
LEMMA FitSubstitutes ==
    ASSUME AllData, NEW assigned, IsAssignment(assigned)
    PROVE  \A p \in Data : \A t \in Data :
             Fits(p, t) /\ Agrees(assigned, Meets(p, t)) => Substituted(p, assigned) = t
  <1> DEFINE Good(p) == \A t \in Data :
               Fits(p, t) /\ Agrees(assigned, Meets(p, t)) => Substituted(p, assigned) = t
             S == {p \in Data : ~ Good(p)}
  <1>1. SUFFICES ASSUME S # {} PROVE FALSE
    OBVIOUS
  <1>2. PICK p \in S : \A q \in Data : Lower(q, p) => q \notin S
    <2>1. S \in SUBSET Data
      OBVIOUS
    <2> HIDE DEF S
    <2>. QED
      BY <1>1, <2>1, Lowest
  <1>3. p \in Data /\ \A q \in Data : Lower(q, p) => Good(q)
    BY <1>2
  <1>4. ASSUME NEW t \in Data, Fits(p, t), Agrees(assigned, Meets(p, t))
        PROVE  Substituted(p, assigned) = t
    <2>1. Fits(p, t) = FitsGiven(fits, p, t) /\ Meets(p, t) = MeetsGiven(meets, p, t)
      BY <1>3, FitsDef, MeetsDef
    <2>2. CASE p \in FreeVar
      <3>1. Meets(p, t) = {<<p, t>>}
        BY <2>1, <2>2 DEF MeetsGiven
      <3>2. p \in DOMAIN assigned /\ assigned[p] = t
        BY <1>4, <3>1 DEF Agrees
      <3>. QED
        BY <1>3, <3>2, SubstitutedCases
    <2>3. CASE p \notin FreeVar /\ IsTuple(p)
      <3>1. IsTuple(t) /\ Len(p) = Len(t) /\ \A k \in DOMAIN p : fits[<<p[k], t[k]>>]
        BY <1>4, <2>1, <2>3 DEF FitsGiven
      <3>2. p \in Seq(Data) /\ t \in Seq(Data)
        BY <1>3, <2>3, <3>1, Elements
      <3>3. Meets(p, t) = UNION {Meets(p[k], t[k]) : k \in DOMAIN p}
        BY <2>1, <2>3, <3>1 DEF MeetsGiven, Meets
      <3>4. ASSUME NEW k \in DOMAIN p PROVE Substituted(p[k], assigned) = t[k]
        <4>1. p[k] \in Data /\ t[k] \in Data /\ Lower(p[k], p)
          BY <1>3, <2>3, <3>1, PairedElements DEF Lower
        <4>2. Meets(p[k], t[k]) \subseteq Meets(p, t)
          BY <3>3
        <4>3. Agrees(assigned, Meets(p[k], t[k])) /\ Fits(p[k], t[k])
          BY <1>4, <3>1, <4>2 DEF Agrees, Fits
        <4>4. Good(p[k])
          BY <1>3, <4>1
        <4>. QED
          BY <4>1, <4>3, <4>4
      <3>5. Substituted(p, assigned) = [k \in DOMAIN p |-> Substituted(p[k], assigned)]
        BY <1>3, <2>3, SubstitutedCases
      <3>6. t = [k \in DOMAIN p |-> t[k]]
        BY <3>1, <3>2
      <3>. QED
        BY <3>4, <3>5, <3>6
    <2>4. CASE p \notin FreeVar /\ ~ IsTuple(p)
      <3>1. t = p
        BY <1>4, <2>1, <2>4 DEF FitsGiven
      <3>2. p \notin DOMAIN assigned
        BY <2>4 DEF IsAssignment
      <3>. QED
        BY <1>3, <2>4, <3>1, <3>2, SubstitutedCases
    <2>. QED
      BY <2>2, <2>3, <2>4
  <1>. QED
    BY <1>2, <1>4

\* Matching a term with a pattern assigns to the pattern's variables what turns it into the term.
LEMMA MatchSubstitutes ==
    ASSUME AllData, NEW p \in Data, NEW t \in Data, Matches(p, t)
    PROVE  IsAssignment(Assigned(p, t)) /\ Substituted(p, Assigned(p, t)) = t
  <1> DEFINE met == Meets(p, t)
             assigned == Assigned(p, t)
  <1>1. Fits(p, t) /\ \A x, y \in met : x[1] = y[1] => x = y
    BY DEF Matches, MeetsOne
  <1>2. met \subseteq FreeVar \X Data
    BY MeetsAreAssignments
  <1>3. assigned = [x \in {m[1] : m \in met} |-> (CHOOSE m \in met : m[1] = x)[2]]
    BY DEF Assigned
  <1>4. ASSUME NEW m \in met PROVE m[1] \in DOMAIN assigned /\ assigned[m[1]] = m[2]
    <2>1. m[1] \in DOMAIN assigned
      BY <1>3
    <2> DEFINE c == CHOOSE n \in met : n[1] = m[1]
    <2>2. c \in met /\ c[1] = m[1]
      OBVIOUS
    <2>3. assigned[m[1]] = c[2]
      BY <1>3
    <2> HIDE DEF c
    <2>4. c = m
      BY <1>1, <2>2
    <2>. QED
      BY <2>1, <2>3, <2>4
  <1>5. IsAssignment(assigned)
    <2>1. ASSUME NEW x \in DOMAIN assigned PROVE x \in FreeVar /\ assigned[x] \in Data
      <3>1. PICK m \in met : x = m[1]
        BY <1>3
      <3>. QED
        BY <1>2, <1>4, <3>1
    <2>. QED
      BY <2>1 DEF IsAssignment
  <1>6. Agrees(assigned, met)
    BY <1>4 DEF Agrees
  <1> HIDE DEF met, assigned
  <1>7. Substituted(p, assigned) = t
    BY <1>1, <1>5, <1>6, FitSubstitutes DEF met
  <1>. QED
    BY <1>5, <1>7 DEF assigned

\* One substitution after another
Composed(first, then) == [x \in FreeVar |-> Substituted(Substituted(x, first), then)]

\* Two calls of free_var_substitution do what one with the composed values does.
LEMMA SubstitutionsCompose ==
    ASSUME AllData, NEW first, IsAssignment(first), NEW then, IsAssignment(then)
    PROVE  /\ IsAssignment(Composed(first, then))
           /\ \A p \in Data : Substituted(Substituted(p, first), then) = Substituted(p, Composed(first, then))
  <1> DEFINE both == Composed(first, then)
             Good(p) == Substituted(Substituted(p, first), then) = Substituted(p, both)
             S == {p \in Data : ~ Good(p)}
  <1>1. IsAssignment(both) /\ DOMAIN both = FreeVar
    <2>1. FreeVar \subseteq Data
      BY Elements DEF Leaf
    <2>2. \A x \in FreeVar : Substituted(x, first) \in Data
      BY <2>1, SubstitutedCases
    <2>3. \A x \in FreeVar : Substituted(Substituted(x, first), then) \in Data
      BY <2>2, SubstitutedCases
    <2>. QED
      BY <2>3 DEF IsAssignment, Composed
  <1>2. SUFFICES ASSUME S # {} PROVE FALSE
    BY <1>1
  <1>3. PICK p \in S : \A q \in Data : Lower(q, p) => q \notin S
    <2>1. S \in SUBSET Data
      OBVIOUS
    <2> HIDE DEF S
    <2>. QED
      BY <1>2, <2>1, Lowest
  <1>4. p \in Data /\ ~ Good(p) /\ \A q \in Data : Lower(q, p) => Good(q)
    BY <1>3
  <1>5. CASE p \in FreeVar
    <2>1. both[p] = Substituted(Substituted(p, first), then)
      BY <1>5 DEF Composed
    <2>2. Substituted(p, both) = both[p]
      BY <1>1, <1>4, <1>5, SubstitutedCases
    <2>. QED
      BY <1>4, <2>1, <2>2
  <1>6. CASE p \notin FreeVar /\ IsTuple(p)
    <2> DEFINE q == Substituted(p, first)
    <2>1. q = [k \in DOMAIN p |-> Substituted(p[k], first)] /\ q \in Data
      BY <1>4, <1>6, SubstitutedCases
    <2>2. p \in Seq(Data) /\ \A k \in DOMAIN p : p[k] \in Data /\ Lower(p[k], p)
      BY <1>4, <1>6, Elements
    <2>3. q \in Seq(Data)
      <3>1. \A k \in DOMAIN p : Substituted(p[k], first) \in Data
        BY <2>2, SubstitutedCases
      <3>2. DOMAIN p = 1 .. Len(p) /\ Len(p) \in Nat
        BY <2>2
      <3> HIDE DEF q
      <3>. QED
        BY <2>1, <3>1, <3>2
    <2>4. IsTuple(q)
      BY <2>1, <2>3, Elements
    <2> HIDE DEF q
    <2>5. Substituted(q, then) = [k \in DOMAIN q |-> Substituted(q[k], then)]
      BY <2>1, <2>4, SubstitutedCases
    <2>6. DOMAIN q = DOMAIN p /\ \A k \in DOMAIN p : q[k] = Substituted(p[k], first)
      BY <2>1
    <2>7. \A k \in DOMAIN p : Good(p[k])
      BY <1>4, <2>2
    <2>8. Substituted(q, then) = [k \in DOMAIN p |-> Substituted(p[k], both)]
      BY <2>5, <2>6, <2>7
    <2>9. Substituted(p, both) = [k \in DOMAIN p |-> Substituted(p[k], both)]
      BY <1>1, <1>4, <1>6, SubstitutedCases
    <2>. QED
      BY <1>4, <2>8, <2>9 DEF q
  <1>7. CASE p \notin FreeVar /\ ~ IsTuple(p)
    <2>1. p \notin DOMAIN first /\ p \notin DOMAIN then /\ p \notin DOMAIN both
      BY <1>1, <1>7 DEF IsAssignment
    <2>2. Substituted(p, first) = p /\ Substituted(p, then) = p
      BY <1>4, <1>7, <2>1, SubstitutedCases
    <2>3. Substituted(p, both) = p
      BY <1>1, <1>4, <1>7, <2>1, SubstitutedCases
    <2>. QED
      BY <1>4, <2>2, <2>3
  <1>. QED
    BY <1>5, <1>6, <1>7
-----------------------------------------------------------------------------
(***************************************************************************)
(* Sentences, and what is true.                                            *)
(***************************************************************************)

\* What a sentence is made of
LEMMA SentenceCases ==
    ASSUME AllData, NEW p \in Data
    PROVE  /\ IsImplication(p) => (Sentence(p) <=> Sentence(p[1]) /\ Sentence(p[3]))
           /\ IsNot(p) => (Sentence(p) <=> Sentence(p[2]))
           /\ IsBoolBinOp(p) => (Sentence(p) <=> p[1] # Xor /\ \A k \in DOMAIN p[2] : Sentence(p[2][k]))
           /\ ~ IsImplication(p) /\ ~ IsNot(p) /\ ~ IsBoolBinOp(p)
                => (Sentence(p) <=> IsTuple(p) /\ Len(p) = 3 /\ p[2] \in Name)
           /\ Sentence(p) => IsTuple(p)
  <1>1. Sentence(p) = SentenceGiven(sentence, p)
    BY SentenceDef
  <1>2. CASE IsImplication(p)
    <2>1. ~ IsNot(p) /\ ~ IsBoolBinOp(p) /\ IsTuple(p)
      BY <1>2, Formed DEF IsImplication
    <2>. QED
      BY <1>1, <1>2, <2>1 DEF SentenceGiven, Sentence
  <1>3. CASE IsNot(p)
    <2>1. ~ IsImplication(p) /\ ~ IsBoolBinOp(p) /\ IsTuple(p)
      BY <1>3, Formed DEF IsNot
    <2>. QED
      BY <1>1, <1>3, <2>1 DEF SentenceGiven, Sentence
  <1>4. CASE IsBoolBinOp(p)
    <2>1. ~ IsImplication(p) /\ ~ IsNot(p) /\ IsTuple(p)
      BY <1>4, Formed DEF IsBoolBinOp
    <2>. QED
      BY <1>1, <1>4, <2>1 DEF SentenceGiven, Sentence
  <1>5. CASE ~ IsImplication(p) /\ ~ IsNot(p) /\ ~ IsBoolBinOp(p)
    BY <1>1, <1>5 DEF SentenceGiven
  <1>. QED
    BY <1>2, <1>3, <1>4, <1>5

\* Substitution leaves implications, negations and connectives what they are.
LEMMA SubstitutedShape ==
    ASSUME AllData, NEW assigned, IsAssignment(assigned), NEW p \in Data
    PROVE  /\ IsImplication(p) => Substituted(p, assigned)
                = <<Substituted(p[1], assigned), Implies, Substituted(p[3], assigned)>>
           /\ IsNot(p) => Substituted(p, assigned) = <<Not, Substituted(p[2], assigned)>>
           /\ IsBoolBinOp(p) =>
                /\ Substituted(p, assigned) = <<p[1], [k \in DOMAIN p[2] |-> Substituted(p[2][k], assigned)]>>
                /\ [k \in DOMAIN p[2] |-> Substituted(p[2][k], assigned)] \in Seq(Data)
  <1>1. Parts(p)
    BY PartsLower
  <1>2. \A x \in Connective \cup {Not, Implies} : Substituted(x, assigned) = x
    <2>1. ASSUME NEW x \in Connective \cup {Not, Implies} PROVE Substituted(x, assigned) = x
      <3>1. x \notin DOMAIN assigned
        BY LeavesAssumption DEF IsAssignment
      <3>2. x \in Data /\ ~ IsTuple(x)
        BY Elements DEF Leaf, IsTuple
      <3>. QED
        BY <3>1, <3>2, SubstitutedCases
    <2>. QED
      BY <2>1
  <1>3. IsTuple(p) => Substituted(p, assigned) = [k \in DOMAIN p |-> Substituted(p[k], assigned)]
    BY SubstitutedCases
  <1>4. ASSUME IsImplication(p)
        PROVE  Substituted(p, assigned) = <<Substituted(p[1], assigned), Implies, Substituted(p[3], assigned)>>
    <2>1. IsTuple(p) /\ p[2] = Implies /\ p \in Seq(Data) /\ Len(p) = 3
      BY <1>1, <1>4 DEF IsImplication, Parts
    <2>2. DOMAIN p = 1 .. 3
      BY <2>1
    <2>. QED
      BY <1>2, <1>3, <2>1, <2>2
  <1>5. ASSUME IsNot(p) PROVE Substituted(p, assigned) = <<Not, Substituted(p[2], assigned)>>
    <2>1. IsTuple(p) /\ p[1] = Not /\ p \in Seq(Data) /\ Len(p) = 2
      BY <1>1, <1>5 DEF IsNot, Parts
    <2>2. DOMAIN p = 1 .. 2
      BY <2>1
    <2>. QED
      BY <1>2, <1>3, <2>1, <2>2
  <1>6. ASSUME IsBoolBinOp(p)
        PROVE  /\ Substituted(p, assigned) = <<p[1], [k \in DOMAIN p[2] |-> Substituted(p[2][k], assigned)]>>
               /\ [k \in DOMAIN p[2] |-> Substituted(p[2][k], assigned)] \in Seq(Data)
    <2>1. IsTuple(p) /\ p[1] \in Connective /\ p \in Seq(Data) /\ Len(p) = 2 /\ IsTuple(p[2])
      BY <1>1, <1>6 DEF IsBoolBinOp, Parts
    <2>2. DOMAIN p = 1 .. 2 /\ p[2] \in Data
      <3>1. DOMAIN p = 1 .. 2
        BY <2>1
      <3>2. Lower(p[2], p)
        BY <1>1, <2>1, <3>1 DEF Parts
      <3>. QED
        BY <3>1, <3>2 DEF Lower
    <2>3. Substituted(p[2], assigned) = [k \in DOMAIN p[2] |-> Substituted(p[2][k], assigned)]
      BY <2>1, <2>2, SubstitutedCases
    <2>4. p[2] \in Seq(Data) /\ DOMAIN p[2] = 1 .. Len(p[2]) /\ Len(p[2]) \in Nat
      BY <1>1, <1>6 DEF Parts
    <2>5. \A k \in 1 .. Len(p[2]) : Substituted(p[2][k], assigned) \in Data
      BY <2>4, SubstitutedCases
    <2>6. [k \in DOMAIN p[2] |-> Substituted(p[2][k], assigned)] \in Seq(Data)
      BY <2>4, <2>5
    <2>7. Substituted(p, assigned) = <<p[1], Substituted(p[2], assigned)>>
      BY <1>2, <1>3, <2>1, <2>2
    <2>. QED
      BY <2>3, <2>6, <2>7
  <1>. QED
    BY <1>4, <1>5, <1>6

\* What is no implication, negation or connective stays so, if it is a sentence.
LEMMA SubstitutedStatement ==
    ASSUME AllData, NEW assigned, IsAssignment(assigned), NEW p \in Data, Sentence(p),
           ~ IsImplication(p), ~ IsNot(p), ~ IsBoolBinOp(p)
    PROVE  /\ Substituted(p, assigned) \in Data /\ Sentence(Substituted(p, assigned))
           /\ ~ IsImplication(Substituted(p, assigned)) /\ ~ IsNot(Substituted(p, assigned))
           /\ ~ IsBoolBinOp(Substituted(p, assigned))
  <1> DEFINE q == Substituted(p, assigned)
  <1>1. IsTuple(p) /\ Len(p) = 3 /\ p[2] \in Name /\ p \in Seq(Data)
    BY SentenceCases, Elements
  <1>2. q = [k \in DOMAIN p |-> Substituted(p[k], assigned)] /\ q \in Data
    BY <1>1, SubstitutedCases
  <1>3. p[2] \in Data /\ ~ IsTuple(p[2]) /\ p[2] \notin DOMAIN assigned
    BY <1>1, LeavesAssumption DEF IsTuple, Leaf, IsAssignment
  <1>4. Substituted(p[2], assigned) = p[2]
    BY <1>3, SubstitutedCases
  <1>5. DOMAIN p = 1 .. 3
    BY <1>1
  <1>6. q \in Seq(Data) /\ Len(q) = 3
    <2>1. \A k \in 1 .. 3 : Substituted(p[k], assigned) \in Data
      BY <1>1, SubstitutedCases
    <2> HIDE DEF q
    <2>. QED
      BY <1>2, <1>5, <2>1
  <1>7. q[2] = p[2]
    BY <1>2, <1>4, <1>5
  <1> HIDE DEF q
  <1>8. IsTuple(q) /\ q[2] # Implies
    BY <1>1, <1>2, <1>6, <1>7, Elements, LeavesAssumption
  <1>9. ~ IsImplication(q) /\ ~ IsNot(q) /\ ~ IsBoolBinOp(q)
    BY <1>6, <1>8 DEF IsImplication, IsNot, IsBoolBinOp
  <1>10. Sentence(q)
    BY <1>1, <1>2, <1>6, <1>7, <1>8, <1>9, SentenceCases
  <1>. QED
    BY <1>2, <1>9, <1>10 DEF q

\* A sentence remains one when something is put for its variables.
LEMMA SubstitutedSentence ==
    ASSUME AllData, NEW assigned, IsAssignment(assigned)
    PROVE  \A p \in Data : Sentence(p) => Sentence(Substituted(p, assigned))
  <1> DEFINE Good(p) == Sentence(p) => Sentence(Substituted(p, assigned))
             S == {p \in Data : ~ Good(p)}
  <1>1. SUFFICES ASSUME S # {} PROVE FALSE
    OBVIOUS
  <1>2. PICK p \in S : \A q \in Data : Lower(q, p) => q \notin S
    <2>1. S \in SUBSET Data
      OBVIOUS
    <2> HIDE DEF S
    <2>. QED
      BY <1>1, <2>1, Lowest
  <1>3. p \in Data /\ Sentence(p) /\ \A q \in Data : Lower(q, p) => Good(q)
    BY <1>2
  <1>4. Parts(p)
    BY <1>3, PartsLower
  <1> DEFINE q == Substituted(p, assigned)
  <1>5. q \in Data
    BY <1>3, SubstitutedCases
  <1>6. CASE IsImplication(p)
    <2>1. Sentence(p[1]) /\ Sentence(p[3]) /\ Good(p[1]) /\ Good(p[3]) /\ p[1] \in Data /\ p[3] \in Data
      BY <1>3, <1>4, <1>6, SentenceCases DEF Parts, Lower
    <2>2. q = <<Substituted(p[1], assigned), Implies, Substituted(p[3], assigned)>>
      BY <1>3, <1>6, SubstitutedShape
    <2>3. IsImplication(q)
      BY <2>1, <2>2, SubstitutedCases, Formed
    <2>4. q[1] = Substituted(p[1], assigned) /\ q[3] = Substituted(p[3], assigned)
      BY <2>2
    <2> HIDE DEF q
    <2>. QED
      BY <1>5, <2>1, <2>3, <2>4, SentenceCases DEF q
  <1>7. CASE IsNot(p)
    <2>1. Sentence(p[2]) /\ Good(p[2]) /\ p[2] \in Data
      BY <1>3, <1>4, <1>7, SentenceCases DEF Parts, Lower
    <2>2. q = <<Not, Substituted(p[2], assigned)>>
      BY <1>3, <1>7, SubstitutedShape
    <2>3. IsNot(q)
      BY <2>1, <2>2, SubstitutedCases, Formed
    <2>4. q[2] = Substituted(p[2], assigned)
      BY <2>2
    <2> HIDE DEF q
    <2>. QED
      BY <1>5, <2>1, <2>3, <2>4, SentenceCases DEF q
  <1>8. CASE IsBoolBinOp(p)
    <2> DEFINE s == [k \in DOMAIN p[2] |-> Substituted(p[2][k], assigned)]
    <2>1. p[1] # Xor /\ \A k \in DOMAIN p[2] : Sentence(p[2][k]) /\ Good(p[2][k])
      BY <1>3, <1>4, <1>8, SentenceCases DEF Parts, Lower
    <2>2. q = <<p[1], s>> /\ s \in Seq(Data)
      BY <1>3, <1>8, SubstitutedShape
    <2>3. \A k \in DOMAIN s : Sentence(s[k])
      BY <2>1
    <2>4. p[1] \in Connective
      BY <1>8 DEF IsBoolBinOp
    <2> HIDE DEF s, q
    <2>5. IsBoolBinOp(q) /\ q[1] = p[1] /\ q[2] = s
      BY <2>2, <2>4, Formed
    <2>. QED
      BY <1>3, <1>5, <2>1, <2>3, <2>5, SentenceCases DEF q
  <1>9. CASE ~ IsImplication(p) /\ ~ IsNot(p) /\ ~ IsBoolBinOp(p)
    BY <1>3, <1>9, SubstitutedStatement
  <1>. QED
    BY <1>2, <1>6, <1>7, <1>8, <1>9

\* What holds
LEMMA HoldsCases ==
    ASSUME AllData, NEW w, NEW p \in Data
    PROVE  /\ Holds(w, p) \in BOOLEAN
           /\ IsImplication(p) => (Holds(w, p) <=> (Holds(w, p[1]) => Holds(w, p[3])))
           /\ IsNot(p) => (Holds(w, p) <=> ~ Holds(w, p[2]))
           /\ Is(And, p) => (Holds(w, p) <=> \A k \in DOMAIN p[2] : Holds(w, p[2][k]))
           /\ Is(Or, p) => (Holds(w, p) <=> \E k \in DOMAIN p[2] : Holds(w, p[2][k]))
  <1>1. Holding(w) \in [Data -> BOOLEAN] /\ Holds(w, p) = HoldsGiven(w, Holding(w), p)
    BY HoldsDef
  <1>2. \A q \in Data : Holding(w)[q] = Holds(w, q)
    BY DEF Holding
  <1>3. Parts(p)
    BY PartsLower
  <1>4. Holds(w, p) \in BOOLEAN
    BY <1>1, <1>2
  <1>5. ASSUME IsImplication(p) PROVE Holds(w, p) <=> (Holds(w, p[1]) => Holds(w, p[3]))
    <2>1. p[1] \in Data /\ p[3] \in Data /\ ~ IsNot(p) /\ ~ Is(And, p) /\ ~ Is(Or, p) /\ ~ Is(Xor, p)
      BY <1>3, <1>5, Formed DEF Is, Parts, Lower
    <2>2. Holds(w, p) = (Holding(w)[p[1]] => Holding(w)[p[3]])
      BY <1>1, <1>5, <2>1 DEF HoldsGiven
    <2>3. Holding(w)[p[1]] = Holds(w, p[1]) /\ Holding(w)[p[3]] = Holds(w, p[3])
      BY <1>2, <2>1
    <2>. QED
      BY <2>2, <2>3
  <1>6. ASSUME IsNot(p) PROVE Holds(w, p) <=> ~ Holds(w, p[2])
    <2>1. p[2] \in Data /\ ~ IsImplication(p) /\ ~ Is(And, p) /\ ~ Is(Or, p) /\ ~ Is(Xor, p)
      BY <1>3, <1>6, Formed DEF Is, Parts, Lower
    <2>2. Holds(w, p) = ~ Holding(w)[p[2]]
      BY <1>1, <1>6, <2>1 DEF HoldsGiven
    <2>. QED
      BY <1>2, <2>1, <2>2
  <1>7. ASSUME Is(And, p) PROVE Holds(w, p) <=> \A k \in DOMAIN p[2] : Holds(w, p[2][k])
    <2>1. /\ \A k \in DOMAIN p[2] : p[2][k] \in Data
          /\ ~ IsImplication(p) /\ ~ IsNot(p) /\ ~ Is(Or, p) /\ ~ Is(Xor, p)
      BY <1>3, <1>7, Formed, WhichConnective DEF Parts, Lower
    <2>2. Holds(w, p) = \A k \in DOMAIN p[2] : Holding(w)[p[2][k]]
      BY <1>1, <1>7, <2>1 DEF HoldsGiven
    <2>. QED
      BY <1>2, <2>1, <2>2
  <1>8. ASSUME Is(Or, p) PROVE Holds(w, p) <=> \E k \in DOMAIN p[2] : Holds(w, p[2][k])
    <2>1. /\ \A k \in DOMAIN p[2] : p[2][k] \in Data
          /\ ~ IsImplication(p) /\ ~ IsNot(p) /\ ~ Is(And, p) /\ ~ Is(Xor, p)
      BY <1>3, <1>8, Formed, WhichConnective DEF Parts, Lower
    <2>2. Holds(w, p) = \E k \in DOMAIN p[2] : Holding(w)[p[2][k]]
      BY <1>1, <1>8, <2>1 DEF HoldsGiven
    <2>. QED
      BY <1>2, <2>1, <2>2
  <1>. QED
    BY <1>4, <1>5, <1>6, <1>7, <1>8

\* p is true in world w when its free variables stand for what assigned says.
TrueAs(w, assigned, p) == Holds(w, Substituted(p, assigned))

\* The connectives commute with substitution.
LEMMA TrueAsCases ==
    ASSUME AllData, NEW w, NEW assigned, IsAssignment(assigned), NEW p \in Data
    PROVE  /\ TrueAs(w, assigned, p) \in BOOLEAN
           /\ IsImplication(p) => (TrueAs(w, assigned, p) <=>
                                     (TrueAs(w, assigned, p[1]) => TrueAs(w, assigned, p[3])))
           /\ IsNot(p) => (TrueAs(w, assigned, p) <=> ~ TrueAs(w, assigned, p[2]))
           /\ Is(And, p) => (TrueAs(w, assigned, p) <=> \A k \in DOMAIN p[2] : TrueAs(w, assigned, p[2][k]))
           /\ Is(Or, p) => (TrueAs(w, assigned, p) <=> \E k \in DOMAIN p[2] : TrueAs(w, assigned, p[2][k]))
  <1> DEFINE q == Substituted(p, assigned)
             sub(x) == Substituted(x, assigned)
  <1>1. q \in Data /\ Parts(p)
    BY SubstitutedCases, PartsLower
  <1>2. TrueAs(w, assigned, p) \in BOOLEAN
    BY <1>1, HoldsCases DEF TrueAs
  <1>3. ASSUME IsImplication(p)
        PROVE  TrueAs(w, assigned, p) <=> (TrueAs(w, assigned, p[1]) => TrueAs(w, assigned, p[3]))
    <2>1. q = <<sub(p[1]), Implies, sub(p[3])>> /\ sub(p[1]) \in Data /\ sub(p[3]) \in Data
      BY <1>1, <1>3, SubstitutedShape, SubstitutedCases DEF Parts, Lower
    <2> HIDE DEF q, sub
    <2>2. IsImplication(q) /\ q[1] = sub(p[1]) /\ q[3] = sub(p[3])
      BY <2>1, Formed
    <2>3. Holds(w, q) <=> (Holds(w, q[1]) => Holds(w, q[3]))
      BY <1>1, <2>2, HoldsCases
    <2>. QED
      BY <2>2, <2>3 DEF TrueAs, q, sub
  <1>4. ASSUME IsNot(p) PROVE TrueAs(w, assigned, p) <=> ~ TrueAs(w, assigned, p[2])
    <2>1. q = <<Not, sub(p[2])>> /\ sub(p[2]) \in Data
      BY <1>1, <1>4, SubstitutedShape, SubstitutedCases DEF Parts, Lower
    <2> HIDE DEF q, sub
    <2>2. IsNot(q) /\ q[2] = sub(p[2])
      BY <2>1, Formed
    <2>3. Holds(w, q) <=> ~ Holds(w, q[2])
      BY <1>1, <2>2, HoldsCases
    <2>. QED
      BY <2>2, <2>3 DEF TrueAs, q, sub
  <1>5. ASSUME IsBoolBinOp(p)
        PROVE  /\ IsBoolBinOp(q) /\ q[1] = p[1] /\ DOMAIN q[2] = DOMAIN p[2]
               /\ \A k \in DOMAIN p[2] : q[2][k] = sub(p[2][k])
    <2> DEFINE s == [k \in DOMAIN p[2] |-> sub(p[2][k])]
    <2>1. q = <<p[1], s>> /\ s \in Seq(Data) /\ p[1] \in Connective
      BY <1>5, SubstitutedShape DEF IsBoolBinOp
    <2>2. DOMAIN s = DOMAIN p[2] /\ \A k \in DOMAIN p[2] : s[k] = sub(p[2][k])
      OBVIOUS
    <2> HIDE DEF q, sub, s
    <2>. QED
      BY <2>1, <2>2, Formed
  <1>6. ASSUME Is(And, p)
        PROVE  TrueAs(w, assigned, p) <=> \A k \in DOMAIN p[2] : TrueAs(w, assigned, p[2][k])
    <2>1. Is(And, q) /\ DOMAIN q[2] = DOMAIN p[2] /\ \A k \in DOMAIN p[2] : q[2][k] = sub(p[2][k])
      BY <1>5, <1>6 DEF Is
    <2> HIDE DEF q, sub
    <2>2. Holds(w, q) <=> \A k \in DOMAIN q[2] : Holds(w, q[2][k])
      BY <1>1, <2>1, HoldsCases
    <2>. QED
      BY <2>1, <2>2 DEF TrueAs, q, sub
  <1>7. ASSUME Is(Or, p)
        PROVE  TrueAs(w, assigned, p) <=> \E k \in DOMAIN p[2] : TrueAs(w, assigned, p[2][k])
    <2>1. Is(Or, q) /\ DOMAIN q[2] = DOMAIN p[2] /\ \A k \in DOMAIN p[2] : q[2][k] = sub(p[2][k])
      BY <1>5, <1>7 DEF Is
    <2> HIDE DEF q, sub
    <2>2. Holds(w, q) <=> \E k \in DOMAIN q[2] : Holds(w, q[2][k])
      BY <1>1, <2>1, HoldsCases
    <2>. QED
      BY <2>1, <2>2 DEF TrueAs, q, sub
  <1>. QED
    BY <1>2, <1>3, <1>4, <1>6, <1>7

\* De Morgan's laws keep the truth, whatever the variables stand for: demorganize_data
\* returns what is true when p is, negated_demorganize_data what is true when p is not.
LEMMA DualIsSound ==
    ASSUME AllData
    PROVE  \A p \in Data : Sentence(p) => \A negate \in BOOLEAN :
             /\ Dual(p, negate) \in Data /\ Sentence(Dual(p, negate))
             /\ \A w, assigned : IsAssignment(assigned) =>
                  (TrueAs(w, assigned, Dual(p, negate)) <=> (TrueAs(w, assigned, p) <=> ~ negate))
  <1> DEFINE Sound(p, negate) ==
               /\ Dual(p, negate) \in Data /\ Sentence(Dual(p, negate))
               /\ \A w, assigned : IsAssignment(assigned) =>
                    (TrueAs(w, assigned, Dual(p, negate)) <=> (TrueAs(w, assigned, p) <=> ~ negate))
             Good(p) == Sentence(p) => \A negate \in BOOLEAN : Sound(p, negate)
             S == {p \in Data : ~ Good(p)}
  <1>1. SUFFICES ASSUME S # {} PROVE FALSE
    OBVIOUS
  <1>2. PICK p \in S : \A q \in Data : Lower(q, p) => q \notin S
    <2>1. S \in SUBSET Data
      OBVIOUS
    <2> HIDE DEF S
    <2>. QED
      BY <1>1, <2>1, Lowest
  <1>3. p \in Data /\ ~ Good(p) /\ \A q \in Data : Lower(q, p) => Good(q)
    BY <1>2
  <1>4. PICK negate \in BOOLEAN : Sentence(p) /\ ~ Sound(p, negate)
    BY <1>3
  <1>5. Parts(p)
    BY <1>3, PartsLower
  <1>6. Dual(p, negate) \in Data /\ Dual(p, negate) = DemorganizedGiven(demorganized, p, negate)
    BY <1>3, DualDef
  <1> HIDE DEF S
  <1>7. CASE IsNot(p)
    <2>1. p[2] \in Data /\ Sentence(p[2]) /\ Good(p[2])
      BY <1>3, <1>4, <1>5, <1>7, SentenceCases DEF Parts, Lower
    <2>2. ~ IsBoolBinOp(p)
      BY <1>3, <1>7, Formed
    <2>3. Dual(p, negate) = Dual(p[2], ~ negate)
      BY <1>6, <1>7, <2>2 DEF DemorganizedGiven, Dual
    <2>4. Sound(p[2], ~ negate)
      BY <2>1
    <2>5. ASSUME NEW w, NEW assigned, IsAssignment(assigned)
          PROVE  TrueAs(w, assigned, Dual(p, negate)) <=> (TrueAs(w, assigned, p) <=> ~ negate)
      <3>1. TrueAs(w, assigned, p) <=> ~ TrueAs(w, assigned, p[2])
        BY <1>3, <1>7, <2>5, TrueAsCases
      <3>2. TrueAs(w, assigned, Dual(p[2], ~ negate)) <=> (TrueAs(w, assigned, p[2]) <=> ~ ~ negate)
        BY <2>4, <2>5
      <3>. QED
        BY <2>3, <3>1, <3>2
    <2>6. Sentence(Dual(p, negate))
      BY <2>3, <2>4
    <2>. QED
      BY <1>4, <1>6, <2>5, <2>6
  <1>8. CASE IsBoolBinOp(p)
    <2> DEFINE s == [k \in DOMAIN p[2] |-> Dual(p[2][k], negate)]
               op == IF negate THEN DualConnective(p[1]) ELSE p[1]
    <2>1. p[1] \in {And, Or} /\ \A k \in DOMAIN p[2] : p[2][k] \in Data /\ Sentence(p[2][k]) /\ Good(p[2][k])
      BY <1>3, <1>4, <1>5, <1>8, SentenceCases DEF Parts, Lower, IsBoolBinOp, Connective
    <2>2. ~ IsNot(p)
      BY <1>3, <1>8, Formed
    <2>3. Dual(p, negate) = <<op, s>>
      BY <1>6, <1>8, <2>2 DEF DemorganizedGiven, Dual
    <2>4. \A k \in DOMAIN p[2] : Sound(p[2][k], negate)
      BY <2>1
    <2>5. s \in Seq(Data)
      <3>1. p[2] \in Seq(Data) /\ DOMAIN p[2] = 1 .. Len(p[2]) /\ Len(p[2]) \in Nat
        BY <1>5, <1>8 DEF Parts
      <3>2. \A k \in 1 .. Len(p[2]) : Dual(p[2][k], negate) \in Data
        BY <2>4, <3>1
      <3>. QED
        BY <3>1, <3>2
    <2>6. /\ op \in {And, Or} /\ op # Xor /\ op \in Connective
          /\ op = And <=> (p[1] = And <=> ~ negate)
      BY <2>1, LeavesAssumption DEF DualConnective, Connective
    <2>7. DOMAIN s = DOMAIN p[2] /\ \A k \in DOMAIN p[2] : s[k] = Dual(p[2][k], negate)
      OBVIOUS
    <2> DEFINE d == <<op, s>>
    <2> HIDE DEF s, op
    <2>8. d \in Data /\ IsBoolBinOp(d) /\ d[1] = op /\ d[2] = s
      BY <2>5, <2>6, Formed
    <2> HIDE DEF d
    <2>9. Sentence(d)
      <3>1. \A k \in DOMAIN s : Sentence(s[k])
        BY <2>4, <2>7
      <3>. QED
        BY <2>6, <2>8, <3>1, SentenceCases
    <2>10. ASSUME NEW w, NEW assigned, IsAssignment(assigned)
           PROVE  TrueAs(w, assigned, d) <=> (TrueAs(w, assigned, p) <=> ~ negate)
      <3> DEFINE t(x) == TrueAs(w, assigned, x)
      <3>1. \A k \in DOMAIN p[2] : t(s[k]) <=> (t(p[2][k]) <=> ~ negate)
        BY <2>4, <2>7, <2>10
      <3>2. /\ Is(And, d) => (t(d) <=> \A k \in DOMAIN s : t(s[k]))
            /\ Is(Or, d) => (t(d) <=> \E k \in DOMAIN s : t(s[k]))
        BY <2>8, <2>10, TrueAsCases
      <3>3. /\ Is(And, p) => (t(p) <=> \A k \in DOMAIN p[2] : t(p[2][k]))
            /\ Is(Or, p) => (t(p) <=> \E k \in DOMAIN p[2] : t(p[2][k]))
        BY <1>3, <2>10, TrueAsCases
      <3>4. t(d) \in BOOLEAN /\ t(p) \in BOOLEAN
        BY <1>3, <2>8, <2>10, TrueAsCases
      <3>5. (Is(And, d) \/ Is(Or, d)) /\ (Is(And, p) \/ Is(Or, p)) /\ (Is(And, d) <=> (Is(And, p) <=> ~ negate))
        BY <1>8, <2>1, <2>6, <2>8 DEF Is
      <3>6. ~ (Is(And, d) /\ Is(Or, d)) /\ ~ (Is(And, p) /\ Is(Or, p))
        BY WhichConnective
      <3> HIDE DEF t
      <3>7. CASE negate
        <4>1. \A k \in DOMAIN s : t(s[k]) <=> ~ t(p[2][k])
          BY <2>7, <3>1, <3>7
        <4>2. CASE Is(And, p)
          <5>1. t(d) <=> \E k \in DOMAIN s : t(s[k])
            BY <3>2, <3>5, <3>6, <3>7, <4>2
          <5>2. t(p) <=> \A k \in DOMAIN s : t(p[2][k])
            BY <2>7, <3>3, <4>2
          <5>3. t(d) <=> ~ t(p)
            BY <4>1, <5>1, <5>2
          <5>. QED
            BY <3>4, <3>7, <5>3 DEF t
        <4>3. CASE Is(Or, p)
          <5>1. t(d) <=> \A k \in DOMAIN s : t(s[k])
            BY <3>2, <3>5, <3>6, <3>7, <4>3
          <5>2. t(p) <=> \E k \in DOMAIN s : t(p[2][k])
            BY <2>7, <3>3, <4>3
          <5>3. t(d) <=> ~ t(p)
            BY <4>1, <5>1, <5>2
          <5>. QED
            BY <3>4, <3>7, <5>3 DEF t
        <4>. QED
          BY <3>5, <4>2, <4>3
      <3>8. CASE ~ negate
        <4>1. \A k \in DOMAIN s : t(s[k]) <=> t(p[2][k])
          BY <2>7, <3>1, <3>8
        <4>2. CASE Is(And, p)
          <5>1. t(d) <=> \A k \in DOMAIN s : t(s[k])
            BY <3>2, <3>5, <3>6, <3>8, <4>2
          <5>2. t(p) <=> \A k \in DOMAIN s : t(p[2][k])
            BY <2>7, <3>3, <4>2
          <5>3. t(d) <=> t(p)
            BY <4>1, <5>1, <5>2
          <5>. QED
            BY <3>4, <3>8, <5>3 DEF t
        <4>3. CASE Is(Or, p)
          <5>1. t(d) <=> \E k \in DOMAIN s : t(s[k])
            BY <3>2, <3>5, <3>6, <3>8, <4>3
          <5>2. t(p) <=> \E k \in DOMAIN s : t(p[2][k])
            BY <2>7, <3>3, <4>3
          <5>3. t(d) <=> t(p)
            BY <4>1, <5>1, <5>2
          <5>. QED
            BY <3>4, <3>8, <5>3 DEF t
        <4>. QED
          BY <3>5, <4>2, <4>3
      <3>. QED
        BY <3>7, <3>8 DEF t
    <2>11. Dual(p, negate) = d
      BY <2>3 DEF d
    <2>. QED
      BY <1>4, <1>6, <2>9, <2>10, <2>11
  <1>9. CASE ~ IsNot(p) /\ ~ IsBoolBinOp(p)
    <2>1. Dual(p, negate) = IF negate THEN <<Not, p>> ELSE p
      BY <1>6, <1>9 DEF DemorganizedGiven
    <2>2. <<Not, p>> \in Data /\ IsNot(<<Not, p>>) /\ <<Not, p>>[2] = p
      BY <1>3, Formed
    <2>3. Sentence(<<Not, p>>)
      BY <1>4, <2>2, SentenceCases
    <2>4. ASSUME NEW w, NEW assigned, IsAssignment(assigned)
          PROVE  TrueAs(w, assigned, Dual(p, negate)) <=> (TrueAs(w, assigned, p) <=> ~ negate)
      <3>1. TrueAs(w, assigned, <<Not, p>>) <=> ~ TrueAs(w, assigned, p)
        BY <2>2, <2>4, TrueAsCases
      <3>2. TrueAs(w, assigned, p) \in BOOLEAN
        BY <1>3, <2>4, TrueAsCases
      <3>. QED
        BY <2>1, <3>1, <3>2
    <2>5. Sentence(Dual(p, negate))
      BY <1>4, <2>1, <2>3
    <2>. QED
      BY <1>4, <1>6, <2>4, <2>5
  <1>. QED
    BY <1>7, <1>8, <1>9
-----------------------------------------------------------------------------
(***************************************************************************)
(* What evaluate_predicate answers.                                        *)
(***************************************************************************)

\* The state of And and Or is that of the first operand to break away.
LEMMA Combined ==
    ASSUME NEW n \in Nat, NEW states \in [1 .. n -> State]
    PROVE  AndOf(states) = UpToBreak("Accept", states) /\ OrOf(states) = UpToBreak("Deny", states)
  <1>1. \A s \in State : AndState("Accept", s) = s
    BY DEF AndState, State
  <1>2. \A s \in State : OrState("Deny", s) = s
    BY DEF OrState, AnyOf, State
  <1>3. [k \in DOMAIN states |-> AndState("Accept", states[k])] = states
    BY <1>1
  <1>4. [k \in DOMAIN states |-> OrState("Deny", states[k])] = states
    BY <1>2
  <1>. QED
    BY <1>3, <1>4 DEF AndOf, OrOf

\* What the answer is made of, by what is asked
EvaluatedAs(B, p) ==
    /\ p \in B => Evaluate(B, p) = "Accept"
    /\ p \notin B /\ <<Not, p>> \in B => Evaluate(B, p) = "Deny"
    /\ p \notin B /\ <<Not, p>> \notin B =>
         /\ IsImplication(p) => Evaluate(B, p) = OrState(NotState(Evaluate(B, p[1])), Evaluate(B, Implies))
         /\ IsNot(p) => Evaluate(B, p) = NotState(Evaluate(B, p[2]))
         /\ Is(And, p) => Evaluate(B, p) = UpToBreak("Accept", [k \in DOMAIN p[2] |-> Evaluate(B, p[2][k])])
         /\ Is(Or, p) => Evaluate(B, p) = UpToBreak("Deny", [k \in DOMAIN p[2] |-> Evaluate(B, p[2][k])])
         /\ ~ IsImplication(p) /\ ~ IsNot(p) /\ ~ IsBoolBinOp(p) => Evaluate(B, p) = "Unknown"

\* evaluate_predicate looks up what is believed first, and goes by the parts otherwise.
LEMMA EvaluateCases ==
    ASSUME AllData, NEW B
    PROVE  \A p \in Data : Evaluate(B, p) \in State /\ EvaluatedAs(B, p)
  <1> DEFINE e == Evaluation(B)
  <1>1. e \in [Data -> State] /\ \A p \in Data : Evaluate(B, p) = EvaluateGiven(B, e, p)
    BY EvaluateDef
  <1>2. \A p \in Data : e[p] = Evaluate(B, p)
    BY DEF Evaluation
  <1> HIDE DEF e
  <1>3. SUFFICES ASSUME NEW p \in Data PROVE EvaluatedAs(B, p)
    BY <1>1, <1>2
  <1>4. Evaluate(B, p) = EvaluateGiven(B, e, p) /\ Parts(p)
    BY <1>1, PartsLower
  <1>5. p \in B => Evaluate(B, p) = "Accept"
    BY <1>4 DEF EvaluateGiven
  <1>6. p \notin B /\ <<Not, p>> \in B => Evaluate(B, p) = "Deny"
    BY <1>4 DEF EvaluateGiven
  <1>7. ASSUME p \notin B, <<Not, p>> \notin B
        PROVE  Evaluate(B, p) = EvaluateParts(e, p)
    BY <1>4, <1>7 DEF EvaluateGiven
  <1>8. ASSUME IsImplication(p)
        PROVE  EvaluateParts(e, p) = OrState(NotState(Evaluate(B, p[1])), Evaluate(B, Implies))
    <2>1. p[1] \in Data /\ p[2] \in Data /\ p[2] = Implies
      BY <1>4, <1>8 DEF Parts, Lower, IsImplication
    <2>2. ~ IsNot(p) /\ ~ Is(And, p) /\ ~ Is(Or, p) /\ ~ Is(Xor, p)
      BY <1>8, Formed DEF Is
    <2>3. EvaluateParts(e, p) = OrState(NotState(e[p[1]]), e[p[2]])
      BY <1>8, <2>2 DEF EvaluateParts
    <2>. QED
      BY <1>2, <2>1, <2>3
  <1>9. ASSUME IsNot(p) PROVE EvaluateParts(e, p) = NotState(Evaluate(B, p[2]))
    <2>1. p[2] \in Data /\ ~ IsImplication(p) /\ ~ Is(And, p) /\ ~ Is(Or, p) /\ ~ Is(Xor, p)
      BY <1>4, <1>9, Formed DEF Parts, Lower, Is
    <2>2. EvaluateParts(e, p) = NotState(e[p[2]])
      BY <1>9, <2>1 DEF EvaluateParts
    <2>. QED
      BY <1>2, <2>1, <2>2
  <1>10. ASSUME IsBoolBinOp(p)
         PROVE  /\ Is(And, p) => EvaluateParts(e, p)
                     = UpToBreak("Accept", [k \in DOMAIN p[2] |-> Evaluate(B, p[2][k])])
                /\ Is(Or, p) => EvaluateParts(e, p)
                     = UpToBreak("Deny", [k \in DOMAIN p[2] |-> Evaluate(B, p[2][k])])
    <2> DEFINE states == [k \in DOMAIN p[2] |-> e[p[2][k]]]
    <2>1. /\ DOMAIN p[2] = 1 .. Len(p[2]) /\ Len(p[2]) \in Nat
          /\ \A k \in DOMAIN p[2] : p[2][k] \in Data
      BY <1>4, <1>10 DEF Parts, Lower
    <2>2. states = [k \in DOMAIN p[2] |-> Evaluate(B, p[2][k])] /\ states \in [1 .. Len(p[2]) -> State]
      BY <1>1, <1>2, <2>1
    <2>3. ~ IsImplication(p) /\ ~ IsNot(p)
      BY <1>10, Formed
    <2>4. Is(And, p) => EvaluateParts(e, p) = AndOf(states)
      BY <2>3, WhichConnective DEF EvaluateParts
    <2>5. Is(Or, p) => EvaluateParts(e, p) = OrOf(states)
      BY <2>3, WhichConnective DEF EvaluateParts
    <2> HIDE DEF states
    <2>6. AndOf(states) = UpToBreak("Accept", states) /\ OrOf(states) = UpToBreak("Deny", states)
      BY <2>1, <2>2, Combined
    <2>. QED
      BY <2>2, <2>4, <2>5, <2>6
  <1>11. ASSUME ~ IsImplication(p), ~ IsNot(p), ~ IsBoolBinOp(p) PROVE EvaluateParts(e, p) = "Unknown"
    BY <1>11 DEF EvaluateParts, Is
  <1>. QED
    BY <1>5, <1>6, <1>7, <1>8, <1>9, <1>10, <1>11, WhichConnective DEF EvaluatedAs

\* A world's true sentences
TrueBeliefs(w, B) == \A b \in B : b \in Data /\ Sentence(b) /\ TrueIn(w, b)

\* Assignments of individuals are assignments.
LEMMA Assignments ==
    ASSUME Individual \subseteq Data
    PROVE  \A assigned \in [FreeVar -> Individual] : IsAssignment(assigned)
  BY DEF IsAssignment

\* An implication that is not believed and not denied is never decided, since its
\* conclusion is taken to be Implies.
LEMMA ImplicationIsUnknown ==
    ASSUME AllData, NEW w, NEW B, TrueBeliefs(w, B), NEW p \in Data, IsImplication(p),
           p \notin B, <<Not, p>> \notin B
    PROVE  Evaluate(B, p) = "Unknown"
  <1>1. Implies \in Data /\ ~ IsTuple(Implies)
    BY Elements DEF Leaf, IsTuple
  <1>2. ~ Sentence(Implies)
    BY <1>1, SentenceCases
  <1>3. Implies \notin B
    BY <1>2 DEF TrueBeliefs
  <1>4. ~ Sentence(<<Not, Implies>>)
    <2>1. <<Not, Implies>> \in Data /\ IsNot(<<Not, Implies>>) /\ <<Not, Implies>>[2] = Implies
      BY <1>1, Formed
    <2>. QED
      BY <1>2, <2>1, SentenceCases
  <1>5. <<Not, Implies>> \notin B
    BY <1>4 DEF TrueBeliefs
  <1>6. ~ IsImplication(Implies) /\ ~ IsNot(Implies) /\ ~ IsBoolBinOp(Implies)
    BY <1>1 DEF IsImplication, IsNot, IsBoolBinOp
  <1>7. Evaluate(B, Implies) = "Unknown"
    BY <1>1, <1>3, <1>5, <1>6, EvaluateCases DEF EvaluatedAs
  <1>8. Evaluate(B, p) = OrState(NotState(Evaluate(B, p[1])), Evaluate(B, Implies))
    BY EvaluateCases DEF EvaluatedAs
  <1>. QED
    BY <1>7, <1>8 DEF OrState, AnyOf

\* What is accepted is true and what is denied is false, if all that is believed is true.
LEMMA EvaluateIsSound ==
    ASSUME AllData, Individual \subseteq Data, NEW w, NEW B, TrueBeliefs(w, B),
           NEW assigned \in [FreeVar -> Individual]
    PROVE  \A p \in Data : Sentence(p) =>
             /\ Evaluate(B, p) = "Accept" => TrueAs(w, assigned, p)
             /\ Evaluate(B, p) = "Deny" => ~ TrueAs(w, assigned, p)
  <1> DEFINE t(p) == TrueAs(w, assigned, p)
             e(p) == Evaluate(B, p)
             Good(p) == Sentence(p) => (e(p) = "Accept" => t(p)) /\ (e(p) = "Deny" => ~ t(p))
             S == {p \in Data : ~ Good(p)}
  <1>1. SUFFICES ASSUME S # {} PROVE FALSE
    OBVIOUS
  <1>2. PICK p \in S : \A q \in Data : Lower(q, p) => q \notin S
    <2>1. S \in SUBSET Data
      OBVIOUS
    <2> HIDE DEF S
    <2>. QED
      BY <1>1, <2>1, Lowest
  <1>3. p \in Data /\ Sentence(p) /\ ~ Good(p) /\ \A q \in Data : Lower(q, p) => Good(q)
    BY <1>2
  <1>4. Parts(p) /\ IsAssignment(assigned)
    BY <1>3, PartsLower, Assignments
  <1>5. /\ \A b \in B : b \in Data /\ Sentence(b) /\ t(b)
        /\ \A q \in Data : e(q) \in State /\ EvaluatedAs(B, q)
    BY EvaluateCases DEF TrueBeliefs, TrueIn, TrueAs
  <1>6. /\ IsNot(p) => (t(p) <=> ~ t(p[2]))
        /\ Is(And, p) => (t(p) <=> \A k \in DOMAIN p[2] : t(p[2][k]))
        /\ Is(Or, p) => (t(p) <=> \E k \in DOMAIN p[2] : t(p[2][k]))
    BY <1>3, <1>4, TrueAsCases
  <1>7. t(<<Not, p>>) <=> ~ t(p)
    <2>1. <<Not, p>> \in Data /\ IsNot(<<Not, p>>) /\ <<Not, p>>[2] = p
      BY <1>3, Formed
    <2>. QED
      BY <1>4, <2>1, TrueAsCases
  <1> HIDE DEF S, t
  <1>8. CASE p \in B
    BY <1>3, <1>5, <1>8 DEF EvaluatedAs
  <1>9. CASE p \notin B /\ <<Not, p>> \in B
    <2>1. ~ t(p)
      BY <1>5, <1>7, <1>9
    <2>2. e(p) = "Deny"
      BY <1>3, <1>5, <1>9 DEF EvaluatedAs
    <2>. QED
      BY <1>3, <2>1, <2>2
  <1>10. CASE p \notin B /\ <<Not, p>> \notin B
    <2>1. CASE IsImplication(p)
      <3>1. e(p) = "Unknown"
        BY <1>3, <1>10, <2>1, ImplicationIsUnknown
      <3>. QED
        BY <1>3, <3>1
    <2>2. CASE IsNot(p)
      <3>1. p[2] \in Data /\ Sentence(p[2]) /\ Good(p[2]) /\ e(p[2]) \in State
        BY <1>3, <1>4, <1>5, <2>2, SentenceCases DEF Parts, Lower
      <3>2. e(p) = NotState(e(p[2]))
        BY <1>3, <1>5, <1>10, <2>2 DEF EvaluatedAs
      <3>3. (e(p) = "Accept" => e(p[2]) = "Deny") /\ (e(p) = "Deny" => e(p[2]) = "Accept")
        BY <3>1, <3>2 DEF NotState, State
      <3>. QED
        BY <1>3, <1>6, <2>2, <3>1, <3>3
    <2>3. CASE IsBoolBinOp(p)
      <3> DEFINE n == Len(p[2])
                 states == [k \in DOMAIN p[2] |-> Evaluate(B, p[2][k])]
      <3>1. n \in Nat /\ DOMAIN p[2] = 1 .. n
        BY <1>4, <2>3 DEF Parts
      <3>2. \A k \in 1 .. n : p[2][k] \in Data /\ Sentence(p[2][k]) /\ Good(p[2][k])
        BY <1>3, <1>4, <2>3, <3>1, SentenceCases DEF Parts, Lower
      <3>3. states \in [1 .. n -> State] /\ \A k \in 1 .. n : states[k] = e(p[2][k])
        BY <1>5, <3>1, <3>2
      <3>4. Is(And, p) \/ Is(Or, p)
        BY <1>3, <2>3, SentenceCases, WhichConnective DEF Is
      <3>5. "Accept" \in State /\ "Deny" \in State
        BY DEF State
      <3>6. CASE Is(And, p)
        <4>1. e(p) = UpToBreak("Accept", states)
          BY <1>3, <1>5, <1>10, <3>6 DEF EvaluatedAs
        <4>2. t(p) <=> \A k \in 1 .. n : t(p[2][k])
          BY <1>6, <3>1, <3>6
        <4> HIDE DEF states, n
        <4>3. \/ e(p) = "Accept" /\ \A k \in 1 .. n : states[k] = "Accept"
              \/ \E k \in 1 .. n : e(p) = states[k] /\ states[k] # "Accept"
          <5>1. BreaksFirst("Accept", n, states)
            BY <3>1, <3>3, <3>5, FirstBreak
          <5>. QED
            BY <4>1, <5>1 DEF BreaksFirst
        <4>. QED
          BY <1>3, <3>2, <3>3, <4>2, <4>3
      <3>7. CASE Is(Or, p)
        <4>1. e(p) = UpToBreak("Deny", states)
          BY <1>3, <1>5, <1>10, <3>7 DEF EvaluatedAs
        <4>2. t(p) <=> \E k \in 1 .. n : t(p[2][k])
          BY <1>6, <3>1, <3>7
        <4> HIDE DEF states, n
        <4>3. \/ e(p) = "Deny" /\ \A k \in 1 .. n : states[k] = "Deny"
              \/ \E k \in 1 .. n : e(p) = states[k] /\ states[k] # "Deny"
          <5>1. BreaksFirst("Deny", n, states)
            BY <3>1, <3>3, <3>5, FirstBreak
          <5>. QED
            BY <4>1, <5>1 DEF BreaksFirst
        <4>. QED
          BY <1>3, <3>2, <3>3, <4>2, <4>3
      <3>. QED
        BY <3>4, <3>6, <3>7
    <2>4. CASE ~ IsImplication(p) /\ ~ IsNot(p) /\ ~ IsBoolBinOp(p)
      <3>1. e(p) = "Unknown"
        BY <1>3, <1>5, <1>10, <2>4 DEF EvaluatedAs
      <3>. QED
        BY <1>3, <3>1
    <2>. QED
      BY <2>1, <2>2, <2>3, <2>4
  <1>. QED
    BY <1>8, <1>9, <1>10

\* If operands that were decided stay as they were, so does what And or Or made of them.
LEMMA UpToBreakKept ==
    ASSUME NEW identity \in {"Accept", "Deny"}, NEW n \in Nat,
           NEW states \in [1 .. n -> State], NEW later \in [1 .. n -> State],
           \A k \in 1 .. n : states[k] # "Unknown" => later[k] = states[k],
           UpToBreak(identity, states) # "Unknown"
    PROVE  UpToBreak(identity, later) = UpToBreak(identity, states)
  <1>1. identity \in State /\ identity # "Unknown"
    BY DEF State
  <1>2. \/ UpToBreak(identity, states) = identity /\ \A k \in 1 .. n : states[k] = identity
        \/ \E k \in 1 .. n : /\ UpToBreak(identity, states) = states[k] /\ states[k] # identity
                             /\ \A l \in 1 .. k - 1 : states[l] = identity
    BY <1>1, FirstBreak DEF BreaksFirst
  <1>3. \/ UpToBreak(identity, later) = identity /\ \A k \in 1 .. n : later[k] = identity
        \/ \E k \in 1 .. n : /\ UpToBreak(identity, later) = later[k] /\ later[k] # identity
                             /\ \A l \in 1 .. k - 1 : later[l] = identity
    BY <1>1, FirstBreak DEF BreaksFirst
  <1>4. CASE UpToBreak(identity, states) = identity /\ \A k \in 1 .. n : states[k] = identity
    <2>1. \A k \in 1 .. n : later[k] = identity
      BY <1>1, <1>4
    <2>. QED
      BY <1>3, <1>4, <2>1
  <1>5. ASSUME NEW k \in 1 .. n, UpToBreak(identity, states) = states[k], states[k] # identity,
               \A l \in 1 .. k - 1 : states[l] = identity
        PROVE  UpToBreak(identity, later) = UpToBreak(identity, states)
    <2>1. later[k] = states[k]
      BY <1>5
    <2>2. ASSUME NEW l \in 1 .. k - 1 PROVE later[l] = identity
      <3>1. l \in 1 .. n
        OBVIOUS
      <3>. QED
        BY <1>1, <1>5, <3>1
    <2>3. PICK j \in 1 .. n : /\ UpToBreak(identity, later) = later[j] /\ later[j] # identity
                              /\ \A l \in 1 .. j - 1 : later[l] = identity
      BY <1>3, <1>5, <2>1
    <2>4. j = k
      <3>1. ~ (j < k)
        BY <2>2, <2>3
      <3>2. ~ (k < j)
        BY <1>5, <2>1, <2>3
      <3>. QED
        BY <3>1, <3>2
    <2>. QED
      BY <1>5, <2>1, <2>3, <2>4
  <1>. QED
    BY <1>2, <1>4, <1>5

\* What variables stand for are the data without variables.
AllIndividuals ==
    /\ Individual \subseteq Data /\ Individual # {}
    /\ \A p \in Data : \A assigned \in [FreeVar -> Individual] : Substituted(p, assigned) \in Individual

\* What is decided stays decided, and as it is, when more is believed.
LEMMA EvaluateIsKept ==
    ASSUME AllData, AllIndividuals, NEW w, NEW B, NEW C, B \subseteq C,
           TrueBeliefs(w, B), TrueBeliefs(w, C)
    PROVE  \A p \in Data : Sentence(p) =>
             (Evaluate(B, p) # "Unknown" => Evaluate(C, p) = Evaluate(B, p))
  <1> DEFINE e(p) == Evaluate(B, p)
             f(p) == Evaluate(C, p)
             Good(p) == Sentence(p) => (e(p) # "Unknown" => f(p) = e(p))
             S == {p \in Data : ~ Good(p)}
  <1>1. SUFFICES ASSUME S # {} PROVE FALSE
    OBVIOUS
  <1>2. PICK p \in S : \A q \in Data : Lower(q, p) => q \notin S
    <2>1. S \in SUBSET Data
      OBVIOUS
    <2> HIDE DEF S
    <2>. QED
      BY <1>1, <2>1, Lowest
  <1>3. /\ p \in Data /\ Sentence(p) /\ e(p) # "Unknown" /\ f(p) # e(p)
        /\ \A q \in Data : Lower(q, p) => Good(q)
    BY <1>2
  <1>4. Parts(p)
    BY <1>3, PartsLower
  <1>5. \A q \in Data : e(q) \in State /\ EvaluatedAs(B, q) /\ f(q) \in State /\ EvaluatedAs(C, q)
    BY EvaluateCases
  <1>6. f(p) = "Unknown"
    <2>1. PICK i \in Individual : TRUE
      BY DEF AllIndividuals
    <2> DEFINE assigned == [x \in FreeVar |-> i]
    <2>2. assigned \in [FreeVar -> Individual] /\ Individual \subseteq Data
      BY DEF AllIndividuals
    <2> HIDE DEF assigned
    <2>3. /\ e(p) = "Accept" => TrueAs(w, assigned, p)
          /\ e(p) = "Deny" => ~ TrueAs(w, assigned, p)
      BY <1>3, <2>2, EvaluateIsSound
    <2>4. /\ f(p) = "Accept" => TrueAs(w, assigned, p)
          /\ f(p) = "Deny" => ~ TrueAs(w, assigned, p)
      BY <1>3, <2>2, EvaluateIsSound
    <2>. QED
      BY <1>3, <1>5, <2>3, <2>4 DEF State
  <1> HIDE DEF S
  <1>7. p \notin C /\ <<Not, p>> \notin C /\ p \notin B /\ <<Not, p>> \notin B
    BY <1>3, <1>5, <1>6 DEF EvaluatedAs
  <1>8. CASE IsImplication(p)
    BY <1>3, <1>7, <1>8, ImplicationIsUnknown
  <1>9. CASE IsNot(p)
    <2>1. p[2] \in Data /\ Good(p[2]) /\ Sentence(p[2]) /\ e(p[2]) \in State
      BY <1>3, <1>4, <1>5, <1>9, SentenceCases DEF Parts, Lower
    <2>2. e(p) = NotState(e(p[2])) /\ f(p) = NotState(f(p[2]))
      BY <1>3, <1>5, <1>7, <1>9 DEF EvaluatedAs
    <2>3. e(p[2]) # "Unknown"
      BY <1>3, <2>2 DEF NotState
    <2>. QED
      BY <1>3, <2>1, <2>2, <2>3
  <1>10. CASE IsBoolBinOp(p)
    <2> DEFINE n == Len(p[2])
               states == [k \in DOMAIN p[2] |-> Evaluate(B, p[2][k])]
               later == [k \in DOMAIN p[2] |-> Evaluate(C, p[2][k])]
    <2>1. n \in Nat /\ DOMAIN p[2] = 1 .. n
      BY <1>4, <1>10 DEF Parts
    <2>2. \A k \in 1 .. n : p[2][k] \in Data /\ Sentence(p[2][k]) /\ Good(p[2][k])
      BY <1>3, <1>4, <1>10, <2>1, SentenceCases DEF Parts, Lower
    <2>3. /\ states \in [1 .. n -> State] /\ later \in [1 .. n -> State]
          /\ \A k \in 1 .. n : states[k] # "Unknown" => later[k] = states[k]
      BY <1>5, <2>1, <2>2
    <2>4. Is(And, p) \/ Is(Or, p)
      BY <1>3, <1>10, SentenceCases, WhichConnective DEF Is
    <2>5. CASE Is(And, p)
      <3>1. e(p) = UpToBreak("Accept", states) /\ f(p) = UpToBreak("Accept", later)
        BY <1>3, <1>5, <1>7, <2>5 DEF EvaluatedAs
      <3> HIDE DEF states, later, n
      <3>. QED
        BY <1>3, <2>1, <2>3, <3>1, UpToBreakKept
    <2>6. CASE Is(Or, p)
      <3>1. e(p) = UpToBreak("Deny", states) /\ f(p) = UpToBreak("Deny", later)
        BY <1>3, <1>5, <1>7, <2>6 DEF EvaluatedAs
      <3> HIDE DEF states, later, n
      <3>. QED
        BY <1>3, <2>1, <2>3, <3>1, UpToBreakKept
    <2>. QED
      BY <2>4, <2>5, <2>6
  <1>11. CASE ~ IsImplication(p) /\ ~ IsNot(p) /\ ~ IsBoolBinOp(p)
    BY <1>3, <1>5, <1>7, <1>11 DEF EvaluatedAs
  <1>. QED
    BY <1>8, <1>9, <1>10, <1>11
-----------------------------------------------------------------------------
(***************************************************************************)
(* What is derived from truths is true.                                    *)
(***************************************************************************)

\* A sentence that is true in w
TrueSentence(w, p) == p \in Data /\ Sentence(p) /\ TrueIn(w, p)

\* What is true is true as any individuals.
LEMMA TrueInIs ==
    ASSUME NEW w, NEW p
    PROVE  TrueIn(w, p) <=> \A assigned \in [FreeVar -> Individual] : TrueAs(w, assigned, p)
  BY DEF TrueIn, TrueAs

\* What add_belief inserts for a true sentence are true sentences, and finitely many.
LEMMA InsertedAreTrue ==
    ASSUME AllData, AllIndividuals, NEW w, NEW p, TrueSentence(w, p)
    PROVE  TrueBeliefs(w, InsertedBy(p)) /\ IsFiniteSet(InsertedBy(p))
  <1> DEFINE d == Dual(p, FALSE)
  <1>1. p \in Data /\ Sentence(p) /\ TrueIn(w, p)
    BY DEF TrueSentence
  <1>2. d = Demorganize(p)
    BY DEF Dual, Demorganize
  <1>3. \A assigned \in [FreeVar -> Individual] : IsAssignment(assigned)
    BY Assignments DEF AllIndividuals
  <1>4. /\ d \in Data /\ Sentence(d)
        /\ \A assigned \in [FreeVar -> Individual] : TrueAs(w, assigned, d) <=> TrueAs(w, assigned, p)
    <2>1. FALSE \in BOOLEAN
      OBVIOUS
    <2>2. /\ d \in Data /\ Sentence(d)
          /\ \A v, assigned : IsAssignment(assigned) =>
               (TrueAs(v, assigned, d) <=> (TrueAs(v, assigned, p) <=> ~ FALSE))
      BY <1>1, <2>1, DualIsSound
    <2>3. \A assigned : IsAssignment(assigned) => TrueAs(w, assigned, p) \in BOOLEAN
      BY <1>1, TrueAsCases
    <2> HIDE DEF d
    <2>. QED
      BY <1>3, <2>2, <2>3
  <1> HIDE DEF d
  <1>5. CASE Is(And, d)
    <2>1. InsertedBy(p) = {d[2][k] : k \in DOMAIN d[2]}
      BY <1>2, <1>5 DEF InsertedBy, ToSet
    <2>2. IsBoolBinOp(d) /\ Parts(d)
      BY <1>4, <1>5, PartsLower DEF Is
    <2>3. /\ DOMAIN d[2] = 1 .. Len(d[2]) /\ Len(d[2]) \in Nat
          /\ \A k \in DOMAIN d[2] : d[2][k] \in Data /\ Sentence(d[2][k])
      BY <1>4, <2>2, SentenceCases DEF Parts, Lower
    <2>4. ASSUME NEW k \in DOMAIN d[2] PROVE TrueIn(w, d[2][k])
      <3>1. ASSUME NEW assigned \in [FreeVar -> Individual] PROVE TrueAs(w, assigned, d[2][k])
        <4>1. TrueAs(w, assigned, d)
          BY <1>1, <1>4, TrueInIs
        <4>2. TrueAs(w, assigned, d) <=> \A l \in DOMAIN d[2] : TrueAs(w, assigned, d[2][l])
          BY <1>3, <1>4, <1>5, TrueAsCases
        <4>. QED
          BY <4>1, <4>2
      <3>. QED
        BY <3>1, TrueInIs
    <2>5. IsFiniteSet({d[2][k] : k \in DOMAIN d[2]})
      <3>1. IsFiniteSet(1 .. Len(d[2]))
        BY <2>3, FS_Interval
      <3> DEFINE I == 1 .. Len(d[2])
                 s == [k \in I |-> d[2][k]]
                 T == {x \in Data : \E k \in I : x = s[k]}
      <3>2. T = {d[2][k] : k \in DOMAIN d[2]}
        BY <2>3
      <3>3. s \in Surjection(I, T)
        BY <2>3 DEF Surjection
      <3> HIDE DEF I, s, T
      <3>4. IsFiniteSet(T)
        BY <3>1, <3>3, FS_Surjection DEF I
      <3>. QED
        BY <3>2, <3>4
    <2>. QED
      BY <2>1, <2>3, <2>4, <2>5 DEF TrueBeliefs
  <1>6. CASE ~ Is(And, d)
    <2>1. InsertedBy(p) = {p}
      BY <1>2, <1>6 DEF InsertedBy
    <2>2. IsFiniteSet({p})
      BY FS_Singleton
    <2>. QED
      BY <1>1, <2>1, <2>2 DEF TrueBeliefs
  <1>. QED
    BY <1>5, <1>6

\* A rule that holds
IsLaw(w, rule) == TrueSentence(w, rule) /\ IsImplication(rule)

\* Its premise and conclusion
LEMMA LawParts ==
    ASSUME AllData, NEW w, NEW rule, IsLaw(w, rule)
    PROVE  /\ rule[1] \in Data /\ Sentence(rule[1]) /\ rule[3] \in Data /\ Sentence(rule[3])
           /\ \A assigned \in [FreeVar -> Individual] : IsAssignment(assigned) =>
                (TrueAs(w, assigned, rule[1]) => TrueAs(w, assigned, rule[3]))
  <1>1. rule \in Data /\ Sentence(rule) /\ TrueIn(w, rule) /\ IsImplication(rule)
    BY DEF IsLaw, TrueSentence
  <1>2. rule[1] \in Data /\ rule[3] \in Data
    BY <1>1, PartsLower DEF Parts, Lower
  <1>3. Sentence(rule[1]) /\ Sentence(rule[3])
    BY <1>1, SentenceCases
  <1>4. ASSUME NEW assigned \in [FreeVar -> Individual], IsAssignment(assigned)
        PROVE  TrueAs(w, assigned, rule[1]) => TrueAs(w, assigned, rule[3])
    <2>1. TrueAs(w, assigned, rule)
      BY <1>1, TrueInIs
    <2>2. TrueAs(w, assigned, rule) <=> (TrueAs(w, assigned, rule[1]) => TrueAs(w, assigned, rule[3]))
      BY <1>1, <1>4, TrueAsCases
    <2>. QED
      BY <2>1, <2>2
  <1>. QED
    BY <1>2, <1>3, <1>4

\* What is true as nothing is denied truly.
LEMMA NotTrueSentence ==
    ASSUME AllData, AllIndividuals, NEW w, NEW p \in Data, Sentence(p),
           \A assigned \in [FreeVar -> Individual] : ~ TrueAs(w, assigned, p)
    PROVE  TrueSentence(w, <<Not, p>>)
  <1>1. <<Not, p>> \in Data /\ IsNot(<<Not, p>>) /\ <<Not, p>>[2] = p
    BY Formed
  <1>2. Sentence(<<Not, p>>)
    BY <1>1, SentenceCases
  <1>3. ASSUME NEW assigned \in [FreeVar -> Individual] PROVE TrueAs(w, assigned, <<Not, p>>)
    <2>1. IsAssignment(assigned)
      BY Assignments DEF AllIndividuals
    <2>2. TrueAs(w, assigned, <<Not, p>>) <=> ~ TrueAs(w, assigned, p)
      BY <1>1, <2>1, TrueAsCases
    <2>. QED
      BY <2>2
  <1>4. TrueIn(w, <<Not, p>>)
    BY <1>3, TrueInIs
  <1>. QED
    BY <1>1, <1>2, <1>4 DEF TrueSentence

\* The contrapositive of a rule that holds is one.
LEMMA ContrapositiveIsLaw ==
    ASSUME AllData, AllIndividuals, NEW w, NEW rule, IsLaw(w, rule)
    PROVE  IsLaw(w, Contrapositive(rule))
  <1> DEFINE p == <<Not, rule[1]>>
             q == <<Not, rule[3]>>
             c == <<q, Implies, p>>
  <1>1. /\ rule[1] \in Data /\ Sentence(rule[1]) /\ rule[3] \in Data /\ Sentence(rule[3])
        /\ \A assigned \in [FreeVar -> Individual] : IsAssignment(assigned) =>
             (TrueAs(w, assigned, rule[1]) => TrueAs(w, assigned, rule[3]))
    BY LawParts
  <1>2. /\ p \in Data /\ IsNot(p) /\ p[2] = rule[1] /\ Sentence(p)
        /\ q \in Data /\ IsNot(q) /\ q[2] = rule[3] /\ Sentence(q)
    <2>1. /\ p \in Data /\ IsNot(p) /\ p[2] = rule[1]
          /\ q \in Data /\ IsNot(q) /\ q[2] = rule[3]
      BY <1>1, Formed
    <2> HIDE DEF p, q
    <2>. QED
      BY <1>1, <2>1, SentenceCases
  <1> HIDE DEF p, q
  <1>3. c \in Data /\ IsImplication(c) /\ c[1] = q /\ c[3] = p
    BY <1>2, Formed
  <1> HIDE DEF c
  <1>4. Sentence(c)
    BY <1>2, <1>3, SentenceCases
  <1>5. ASSUME NEW assigned \in [FreeVar -> Individual] PROVE TrueAs(w, assigned, c)
    <2>1. IsAssignment(assigned)
      BY Assignments DEF AllIndividuals
    <2>2. TrueAs(w, assigned, p) <=> ~ TrueAs(w, assigned, rule[1])
      BY <1>2, <2>1, TrueAsCases
    <2>3. TrueAs(w, assigned, q) <=> ~ TrueAs(w, assigned, rule[3])
      BY <1>2, <2>1, TrueAsCases
    <2>4. TrueAs(w, assigned, c) <=> (TrueAs(w, assigned, q) => TrueAs(w, assigned, p))
      BY <1>3, <2>1, TrueAsCases
    <2>. QED
      BY <1>1, <2>1, <2>2, <2>3, <2>4
  <1>6. TrueIn(w, c)
    BY <1>5, TrueInIs
  <1>7. c = Contrapositive(rule)
    BY DEF Contrapositive, c, p, q
  <1>. QED
    BY <1>3, <1>4, <1>6, <1>7 DEF IsLaw, TrueSentence

\* What derive_beliefs_2 adds for a true belief that matches the premise of a rule that
\* holds is true.
LEMMA ConsequenceIsTrue ==
    ASSUME AllData, AllIndividuals, NEW w, NEW rule, IsLaw(w, rule), NEW b, TrueSentence(w, b),
           Matches(Demorganize(rule[1]), b)
    PROVE  TrueSentence(w, Substituted(rule[3], Assigned(Demorganize(rule[1]), b)))
  <1> DEFINE premise == Demorganize(rule[1])
             first == Assigned(premise, b)
             c == Substituted(rule[3], first)
  <1>1. /\ rule[1] \in Data /\ Sentence(rule[1]) /\ rule[3] \in Data /\ Sentence(rule[3])
        /\ \A assigned \in [FreeVar -> Individual] : IsAssignment(assigned) =>
             (TrueAs(w, assigned, rule[1]) => TrueAs(w, assigned, rule[3]))
    BY LawParts
  <1>2. b \in Data /\ TrueIn(w, b)
    BY DEF TrueSentence
  <1>3. /\ premise \in Data
        /\ \A assigned : IsAssignment(assigned) =>
             (TrueAs(w, assigned, premise) <=> TrueAs(w, assigned, rule[1]))
    <2>1. premise = Dual(rule[1], FALSE)
      BY DEF Dual, Demorganize
    <2>2. FALSE \in BOOLEAN
      OBVIOUS
    <2>3. /\ Dual(rule[1], FALSE) \in Data
          /\ \A v, assigned : IsAssignment(assigned) =>
               (TrueAs(v, assigned, Dual(rule[1], FALSE)) <=> (TrueAs(v, assigned, rule[1]) <=> ~ FALSE))
      BY <1>1, <2>2, DualIsSound
    <2>4. \A assigned : IsAssignment(assigned) => TrueAs(w, assigned, rule[1]) \in BOOLEAN
      BY <1>1, TrueAsCases
    <2> HIDE DEF premise
    <2>. QED
      BY <2>1, <2>3, <2>4
  <1>4. Matches(premise, b)
    OBVIOUS
  <1> HIDE DEF premise
  <1>5. IsAssignment(first) /\ Substituted(premise, first) = b
    BY <1>2, <1>3, <1>4, MatchSubstitutes
  <1> HIDE DEF first
  <1>6. c \in Data /\ Sentence(c)
    BY <1>1, <1>5, SubstitutedCases, SubstitutedSentence
  <1>7. ASSUME NEW assigned \in [FreeVar -> Individual] PROVE TrueAs(w, assigned, c)
    <2> DEFINE both == Composed(first, assigned)
    <2>1. IsAssignment(assigned)
      BY Assignments DEF AllIndividuals
    <2>2. /\ IsAssignment(both)
          /\ \A p \in Data : Substituted(Substituted(p, first), assigned) = Substituted(p, both)
      BY <1>5, <2>1, SubstitutionsCompose
    <2>3. both \in [FreeVar -> Individual]
      <3>1. \A x \in FreeVar : x \in Data
        BY Elements DEF Leaf
      <3>2. \A x \in FreeVar : Substituted(x, first) \in Data
        BY <1>5, <3>1, SubstitutedCases
      <3>3. \A x \in FreeVar : Substituted(Substituted(x, first), assigned) \in Individual
        BY <3>2 DEF AllIndividuals
      <3>. QED
        BY <3>3 DEF Composed
    <2> HIDE DEF both
    <2>4. TrueAs(w, both, premise)
      <3>1. Substituted(premise, both) = Substituted(b, assigned)
        BY <1>3, <1>5, <2>2
      <3>2. TrueAs(w, assigned, b)
        BY <1>2, TrueInIs
      <3>. QED
        BY <3>1, <3>2 DEF TrueAs
    <2>5. TrueAs(w, both, rule[3])
      BY <1>1, <1>3, <2>2, <2>3, <2>4
    <2>6. Substituted(c, assigned) = Substituted(rule[3], both)
      BY <1>1, <2>2
    <2>. QED
      BY <2>5, <2>6 DEF TrueAs
  <1>8. TrueIn(w, c)
    BY <1>7, TrueInIs
  <1>. QED
    BY <1>6, <1>8 DEF TrueSentence, premise, first
-----------------------------------------------------------------------------
(***************************************************************************)
(* The invariant: all beliefs are true sentences, and the rule the loop is *)
(* at holds in the world.                                                  *)
(***************************************************************************)

\* The predicates thinky is told, asked and given as rules are sentences.
Sentences == \A p \in Told \cup Rule \cup Query : p \in Data /\ Sentence(p)

LoopType == [rule : Data, premise : Data, also : BOOLEAN,
             ahead : SUBSET beliefs, start : SUBSET beliefs, rehashed : BOOLEAN]

LoopInv ==
    /\ loop \in LoopType
    /\ mode \in {"idle", "derive", "aborted", "threw"}
    /\ mode = "idle" => loop = Idle
    /\ mode = "derive" => IsLaw(world, loop.rule) /\ loop.premise = Demorganize(loop.rule[1])

BeliefsInv ==
    /\ IsFiniteSet(beliefs) /\ TrueBeliefs(world, beliefs)
    /\ buckets \in Nat /\ Cardinality(beliefs) <= buckets

Inv == world \in World /\ BeliefsInv /\ LoopInv

\* A rehash makes enough room, however many operands the And had that was added.
LEMMA BucketsAreEnough ==
    ASSUME buckets \in Nat, NEW B, IsFiniteSet(B)
    PROVE  BucketsFor(B) \in Nat /\ Cardinality(B) <= BucketsFor(B)
  <1>1. Cardinality(B) \in Nat
    BY FS_CardinalityType
  <1>2. ASSUME NEW m \in Nat, NEW n \in Nat PROVE Max({m, n}) \in Nat /\ n <= Max({m, n})
    <2>1. \E x \in {m, n} : \A y \in {m, n} : x >= y
      BY m >= n \/ n >= m
    <2>2. Max({m, n}) \in {m, n} /\ \A y \in {m, n} : Max({m, n}) >= y
      BY <2>1 DEF Max
    <2>. QED
      BY <2>2
  <1>3. Max({2 * buckets + 1, Cardinality(B)}) \in Nat /\ Cardinality(B) <= Max({2 * buckets + 1, Cardinality(B)})
    BY <1>1, <1>2
  <1>. QED
    BY <1>1, <1>3 DEF BucketsFor

\* What is inserted is believed with the rest.
LEMMA InsertKeeps ==
    ASSUME BeliefsInv, NEW new, IsFiniteSet(new), TrueBeliefs(world, new), Insert(new), world' = world
    PROVE  BeliefsInv' /\ beliefs \subseteq beliefs'
  <1>1. IsFiniteSet(beliefs \cup new)
    BY FS_Union DEF BeliefsInv
  <1>2. BucketsFor(beliefs \cup new) \in Nat /\ Cardinality(beliefs \cup new) <= BucketsFor(beliefs \cup new)
    BY <1>1, BucketsAreEnough DEF BeliefsInv
  <1>3. beliefs' = beliefs \cup new /\ buckets' = BucketsFor(beliefs \cup new)
    BY DEF Insert
  <1>4. TrueBeliefs(world, beliefs \cup new)
    BY DEF TrueBeliefs, BeliefsInv
  <1>. QED
    BY <1>1, <1>2, <1>3, <1>4 DEF BeliefsInv

\* An idle loop
LEMMA IdleType == ASSUME AllData, NEW B PROVE
    Idle \in [rule : Data, premise : Data, also : BOOLEAN,
              ahead : SUBSET B, start : SUBSET B, rehashed : BOOLEAN]
  <1>1. <<>> \in Seq(Data)
    OBVIOUS
  <1>2. <<>> \in Data
    BY <1>1, Elements
  <1>. QED
    BY <1>2 DEF Idle

\* The loop starts with no more than what is believed.
LEMMA BeginLoopKeeps ==
    ASSUME AllData, Inv, NEW rule, IsLaw(world, rule), NEW also \in BOOLEAN, BeginLoop(rule, also)
    PROVE  Inv'
  <1>1. CASE Abort
    BY <1>1 DEF Inv, Abort, BeliefsInv, LoopInv, LoopType
  <1>2. CASE /\ loop' = [rule |-> rule, premise |-> Demorganize(rule[1]), also |-> also,
                         ahead |-> beliefs, start |-> beliefs, rehashed |-> FALSE]
             /\ mode' = "derive"
             /\ UNCHANGED <<world, beliefs, buckets, calls>>
    <2>1. rule \in Data /\ rule[1] \in Data /\ Sentence(rule[1])
      BY LawParts DEF IsLaw, TrueSentence
    <2>2. Demorganize(rule[1]) \in Data
      BY <2>1, DualDef DEF Dual, Demorganize
    <2>3. loop' \in LoopType'
      BY <1>2, <2>1, <2>2 DEF LoopType
    <2>4. loop'.rule = rule /\ loop'.premise = Demorganize(rule[1])
      BY <1>2
    <2>5. LoopInv'
      BY <1>2, <2>3, <2>4 DEF LoopInv
    <2>. QED
      BY <1>2, <2>5 DEF Inv, BeliefsInv
  <1>. QED
    BY <1>1, <1>2 DEF BeginLoop

\* When nothing but the beliefs changes and the loop is idle, the loop stays as it should.
LEMMA LoopInvKept ==
    ASSUME AllData, LoopInv, mode = "idle", UNCHANGED <<world, loop, mode>>
    PROVE  LoopInv'
  <1>1. loop = Idle
    BY DEF LoopInv
  <1>2. loop' \in LoopType'
    BY <1>1, IdleType DEF LoopType
  <1>. QED
    BY <1>2 DEF LoopInv

\* The facts are true sentences.
LEMMA FactsAreTrue ==
    ASSUME Sentences, Inv, NEW p \in Facts[world]
    PROVE  TrueSentence(world, p)
  BY DEF Facts, Sentences, Inv, TrueSentence

\* The rules that may be added as laws are implications that are true for all values.
LEMMA LawsAreLaws ==
    ASSUME Sentences, Inv, NEW rule \in Laws[world]
    PROVE  IsLaw(world, rule)
  BY BeliefsAssumption DEF Laws, Sentences, Inv, IsLaw, TrueSentence

\* What a set of true sentences is divided into on insertion
LEMMA AllInsertedAreTrue ==
    ASSUME AllData, AllIndividuals, NEW w, NEW P, IsFiniteSet(P), \A p \in P : TrueSentence(w, p)
    PROVE  /\ TrueBeliefs(w, UNION {InsertedBy(p) : p \in P})
           /\ IsFiniteSet(UNION {InsertedBy(p) : p \in P})
  <1>1. \A p \in P : TrueBeliefs(w, InsertedBy(p)) /\ IsFiniteSet(InsertedBy(p))
    BY InsertedAreTrue
  <1>2. TrueBeliefs(w, UNION {InsertedBy(p) : p \in P})
    BY <1>1 DEF TrueBeliefs
  <1> DEFINE s == [p \in P |-> InsertedBy(p)]
             T == {InsertedBy(p) : p \in P}
  <1>3. s \in Surjection(P, T)
    BY DEF Surjection
  <1>4. \A x \in T : IsFiniteSet(x)
    BY <1>1
  <1>5. IsFiniteSet(UNION T)
    <2> HIDE DEF s, T
    <2>1. IsFiniteSet(T)
      BY <1>3, FS_Surjection
    <2>. QED
      BY <1>4, <2>1, FS_UNION
  <1>. QED
    BY <1>2, <1>5

\* What a rule that holds derives at once is true.
LEMMA DerivedAreTrue ==
    ASSUME AllData, AllIndividuals, Inv, NEW rule, IsLaw(world, rule)
    PROVE  /\ IsFiniteSet(DirectlyDerived(rule) \cup ContraDerived(rule))
           /\ \A p \in DirectlyDerived(rule) \cup ContraDerived(rule) : TrueSentence(world, p)
  <1>1. /\ rule[1] \in Data /\ Sentence(rule[1]) /\ rule[3] \in Data /\ Sentence(rule[3])
        /\ \A assigned \in [FreeVar -> Individual] :
             TrueAs(world, assigned, rule[1]) => TrueAs(world, assigned, rule[3])
    BY LawParts, Assignments DEF AllIndividuals
  <1>2. Individual \subseteq Data /\ TrueBeliefs(world, beliefs)
    BY DEF AllIndividuals, Inv, BeliefsInv
  <1>3. ASSUME NEW p \in DirectlyDerived(rule) PROVE TrueSentence(world, p)
    <2>1. p = rule[3] /\ Evaluate(beliefs, rule[1]) = "Accept"
      BY DEF DirectlyDerived
    <2>2. \A assigned \in [FreeVar -> Individual] : TrueAs(world, assigned, rule[3])
      BY <1>1, <1>2, <2>1, EvaluateIsSound
    <2>. QED
      BY <1>1, <2>1, <2>2, TrueInIs DEF TrueSentence
  <1>4. IsFiniteSet(DirectlyDerived(rule))
    BY FS_EmptySet, FS_Singleton DEF DirectlyDerived
  <1> DEFINE direct == UNION {InsertedBy(p) : p \in DirectlyDerived(rule)}
  <1>5. TrueBeliefs(world, direct)
    BY <1>3, <1>4, AllInsertedAreTrue
  <1>6. TrueBeliefs(world, beliefs \cup direct)
    BY <1>2, <1>5 DEF TrueBeliefs
  <1>7. ContraDerived(rule)
          = IF Evaluate(beliefs \cup direct, rule[3]) = "Deny" THEN {<<Not, rule[1]>>} ELSE {}
    BY DEF ContraDerived
  <1> HIDE DEF direct
  <1>8. ASSUME NEW p \in ContraDerived(rule) PROVE TrueSentence(world, p)
    <2>1. p = <<Not, rule[1]>> /\ Evaluate(beliefs \cup direct, rule[3]) = "Deny"
      BY <1>7
    <2>2. \A assigned \in [FreeVar -> Individual] : ~ TrueAs(world, assigned, rule[3])
      BY <1>1, <1>2, <1>6, <2>1, EvaluateIsSound
    <2>3. \A assigned \in [FreeVar -> Individual] : ~ TrueAs(world, assigned, rule[1])
      BY <1>1, <2>2
    <2>. QED
      BY <1>1, <2>1, <2>3, NotTrueSentence
  <1>9. IsFiniteSet(ContraDerived(rule))
    BY <1>7, FS_EmptySet, FS_Singleton
  <1>. QED
    BY <1>3, <1>4, <1>8, <1>9, FS_Union

\* The invariant holds at the beginning, when nothing is believed.
LEMMA InitInv == ASSUME AllData, Init PROVE Inv
  <1>1. LoopInv
    BY IdleType DEF Init, LoopInv, LoopType
  <1>2. IsFiniteSet({}) /\ Cardinality({}) = 0
    BY FS_EmptySet
  <1>3. BeliefsInv
    BY <1>2, BeliefsAssumption DEF Init, BeliefsInv, TrueBeliefs
  <1>. QED
    BY <1>1, <1>3 DEF Inv, Init

\* Every step keeps the invariant.
LEMMA NextInv ==
    ASSUME AllData, AllIndividuals, Sentences, Inv, [Next]_vars
    PROVE  Inv'
  <1>1. ASSUME NEW p \in Facts[world], AddBelief(p) PROVE Inv'
    <2>1. TrueSentence(world, p)
      BY FactsAreTrue
    <2>2. TrueBeliefs(world, InsertedBy(p)) /\ IsFiniteSet(InsertedBy(p))
      BY <2>1, InsertedAreTrue
    <2>3. BeliefsInv'
      BY <1>1, <2>2, InsertKeeps DEF AddBelief, Inv
    <2>4. LoopInv'
      BY <1>1, LoopInvKept DEF AddBelief, Inv
    <2>. QED
      BY <1>1, <2>3, <2>4 DEF AddBelief, Inv
  <1>2. ASSUME Abort PROVE Inv'
    BY <1>2 DEF Inv, Abort, BeliefsInv, LoopInv, LoopType
  <1>3. ASSUME NEW b \in beliefs, RemoveBelief(b) PROVE Inv'
    <2>1. beliefs' = beliefs \ {b} /\ UNCHANGED <<world, buckets, loop, mode>> /\ mode = "idle"
      BY <1>3 DEF RemoveBelief
    <2>2. IsFiniteSet(beliefs \ {b}) /\ Cardinality(beliefs \ {b}) \in Nat
          /\ Cardinality(beliefs \ {b}) <= Cardinality(beliefs) /\ Cardinality(beliefs) \in Nat
      <3>1. beliefs \ {b} \subseteq beliefs /\ IsFiniteSet(beliefs)
        BY DEF Inv, BeliefsInv
      <3>. QED
        BY <3>1, FS_Subset, FS_CardinalityType
    <2>3. BeliefsInv'
      BY <2>1, <2>2 DEF Inv, BeliefsInv, TrueBeliefs
    <2>4. LoopInv'
      BY <2>1, LoopInvKept DEF Inv
    <2>. QED
      BY <2>1, <2>3, <2>4 DEF Inv
  <1>4. ASSUME NEW rule \in Laws[world], DeriveBeliefs(rule) PROVE Inv'
    <2> DEFINE derived == DirectlyDerived(rule) \cup ContraDerived(rule)
               new == UNION {InsertedBy(p) : p \in derived}
    <2>1. IsFiniteSet(derived) /\ \A p \in derived : TrueSentence(world, p)
      BY LawsAreLaws, DerivedAreTrue
    <2>2. Insert(new) /\ UNCHANGED <<world, loop, mode>> /\ mode = "idle"
      BY <1>4 DEF DeriveBeliefs
    <2> HIDE DEF derived
    <2>3. IsFiniteSet(new) /\ TrueBeliefs(world, new)
      BY <2>1, AllInsertedAreTrue
    <2> HIDE DEF new
    <2>4. BeliefsInv'
      BY <2>2, <2>3, InsertKeeps DEF Inv
    <2>5. LoopInv'
      BY <2>2, LoopInvKept DEF Inv
    <2>. QED
      BY <2>2, <2>4, <2>5 DEF Inv
  <1>5. ASSUME NEW rule \in Laws[world], NEW also \in BOOLEAN, DeriveBeliefs2(rule, also) PROVE Inv'
    BY <1>5, LawsAreLaws, BeginLoopKeeps DEF DeriveBeliefs2
  <1>6. ASSUME NEW b \in loop.ahead, DeriveFrom(b) PROVE Inv'
    <2> DEFINE new == IF MatchedBy(b) THEN InsertedBy(Consequence(b)) \ beliefs ELSE {}
               rehash == Cardinality(beliefs \cup new) > buckets
    <2>1. /\ mode = "derive" /\ mode' = mode /\ world' = world
          /\ Insert(new)
          /\ \E ahead \in AheadAfter(b, new, rehash) :
               loop' = [loop EXCEPT !.ahead = ahead, !.rehashed = @ \/ rehash]
      BY <1>6 DEF DeriveFrom
    <2>2. /\ loop \in LoopType /\ TrueBeliefs(world, beliefs) /\ IsFiniteSet(beliefs)
          /\ IsLaw(world, loop.rule) /\ loop.premise = Demorganize(loop.rule[1])
      BY <2>1 DEF Inv, LoopInv, BeliefsInv
    <2>3. b \in beliefs /\ TrueSentence(world, b)
      BY <2>2 DEF LoopType, TrueBeliefs, TrueSentence
    <2>4. IsFiniteSet(new) /\ TrueBeliefs(world, new)
      <3>1. CASE MatchedBy(b)
        <4>1. TrueSentence(world, Consequence(b))
          BY <2>2, <2>3, <3>1, ConsequenceIsTrue DEF MatchedBy, Consequence
        <4>2. TrueBeliefs(world, InsertedBy(Consequence(b))) /\ IsFiniteSet(InsertedBy(Consequence(b)))
          BY <4>1, InsertedAreTrue
        <4>3. new = InsertedBy(Consequence(b)) \ beliefs
          BY <3>1
        <4> HIDE DEF new
        <4>4. new \subseteq InsertedBy(Consequence(b))
          BY <4>3
        <4>. QED
          BY <4>2, <4>4, FS_Subset DEF TrueBeliefs
      <3>2. CASE ~ MatchedBy(b)
        BY <3>2, FS_EmptySet DEF TrueBeliefs
      <3>. QED
        BY <3>1, <3>2
    <2> HIDE DEF new
    <2>5. BeliefsInv' /\ beliefs \subseteq beliefs'
      BY <2>1, <2>4, InsertKeeps DEF Inv
    <2>6. PICK ahead \in AheadAfter(b, new, rehash) :
            loop' = [loop EXCEPT !.ahead = ahead, !.rehashed = @ \/ rehash]
      BY <2>1
    <2> HIDE DEF rehash
    <2>7. ahead \subseteq beliefs \cup new
      BY <2>2, <2>6 DEF AheadAfter, LoopType
    <2>8. beliefs' = beliefs \cup new
      BY <2>1 DEF Insert
    <2>9. /\ loop' \in LoopType'
          /\ loop'.rule = loop.rule /\ loop'.premise = loop.premise
      <3>1. (loop.rehashed \/ rehash) \in BOOLEAN
        OBVIOUS
      <3>. QED
        BY <2>2, <2>5, <2>6, <2>7, <2>8, <3>1 DEF LoopType
    <2>10. LoopInv'
      BY <2>1, <2>2, <2>9 DEF LoopInv
    <2>. QED
      BY <2>1, <2>5, <2>10 DEF Inv
  <1>7. ASSUME NEW b \in loop.ahead, DeriveFromThrows(b) PROVE Inv'
    BY <1>7 DEF Inv, DeriveFromThrows, BeliefsInv, LoopInv, LoopType
  <1>8. ASSUME EndLoop PROVE Inv'
    <2>1. mode = "derive" /\ IsLaw(world, loop.rule)
      BY <1>8 DEF EndLoop, Inv, LoopInv
    <2>2. CASE BeginLoop(Contrapositive(loop.rule), FALSE)
      <3>1. IsLaw(world, Contrapositive(loop.rule))
        BY <2>1, ContrapositiveIsLaw
      <3>. QED
        BY <2>2, <3>1, BeginLoopKeeps
    <2>3. CASE loop' = Idle /\ mode' = "idle" /\ UNCHANGED <<world, beliefs, buckets, calls>>
      <3>1. loop' \in LoopType'
        BY <2>3, IdleType DEF LoopType
      <3>2. LoopInv'
        BY <2>3, <3>1 DEF LoopInv
      <3>. QED
        BY <2>3, <3>2 DEF Inv, BeliefsInv
    <2>. QED
      BY <1>8, <2>2, <2>3 DEF EndLoop
  <1>9. ASSUME UNCHANGED vars PROVE Inv'
    BY <1>9 DEF vars, Inv, BeliefsInv, LoopInv, LoopType
  <1>10. ASSUME NEW p, AddBeliefAborts(p) PROVE Abort
    BY <1>10 DEF AddBeliefAborts
  <1>11. ASSUME NEW rule, DeriveBeliefsAborts(rule) PROVE Abort
    BY <1>11 DEF DeriveBeliefsAborts
  <1>12. ASSUME NEW b, DeriveFromAborts(b) PROVE Abort
    BY <1>12 DEF DeriveFromAborts
  <1>13. CASE Loop
    BY <1>2, <1>6, <1>7, <1>8, <1>12, <1>13 DEF Loop
  <1>14. CASE Next
    BY <1>1, <1>2, <1>3, <1>4, <1>5, <1>10, <1>11, <1>13, <1>14 DEF Next
  <1>. QED
    BY <1>9, <1>14

\* The invariant
LEMMA Invariance ==
    ASSUME AllData, AllIndividuals, Sentences
    PROVE  Spec => []Inv
  <1>1. Init => Inv
    BY InitInv
  <1>2. Inv /\ [Next]_vars => Inv'
    BY NextInv
  <1>. QED
    BY <1>1, <1>2, PTL DEF Spec

-----------------------------------------------------------------------------
(* The theorems                                                            *)

\* The beliefs are tuples and fit into the set's buckets, and the loop goes through
\* nothing but beliefs (derive_beliefs_2).
THEOREM TypeCorrect ==
    ASSUME AllData, AllIndividuals, Sentences
    PROVE  Spec => []TypeOK
  <1>1. Inv => TypeOK
    <2>1. ASSUME Inv PROVE \A b \in beliefs : IsTuple(b)
      BY <2>1, SentenceCases DEF Inv, BeliefsInv, TrueBeliefs
    <2>2. ASSUME Inv PROVE loop.ahead \subseteq beliefs /\ loop.start \subseteq beliefs
      BY <2>2 DEF Inv, LoopInv, LoopType
    <2>. QED
      BY <2>1, <2>2 DEF TypeOK, Inv, BeliefsInv, LoopInv
  <1>. QED
    BY <1>1, Invariance, PTL

\* thinky is sound (add_belief, remove_belief, derive_beliefs, derive_beliefs_2): told
\* nothing but true sentences and given rules that hold, it believes nothing else.
THEOREM BelievesTruths ==
    ASSUME AllData, AllIndividuals, Sentences
    PROVE  Spec => []BeliefsTrue
  <1>1. Inv => BeliefsTrue
    BY DEF Inv, BeliefsInv, TrueBeliefs, BeliefsTrue
  <1>. QED
    BY <1>1, Invariance, PTL

\* evaluate_predicate accepts nothing but what is true and denies nothing but what is not.
THEOREM AnswersTruths ==
    ASSUME AllData, AllIndividuals, Sentences
    PROVE  Spec => []AnswersTrue
  <1>1. ASSUME Inv PROVE AnswersTrue
    <2>1. TrueBeliefs(world, beliefs) /\ Individual \subseteq Data
      BY <1>1 DEF Inv, BeliefsInv, AllIndividuals
    <2>2. ASSUME NEW p \in Query, Evaluate(beliefs, p) = "Accept" PROVE TrueIn(world, p)
      <3>1. p \in Data /\ Sentence(p)
        BY DEF Sentences
      <3>2. \A assigned \in [FreeVar -> Individual] : TrueAs(world, assigned, p)
        BY <2>1, <2>2, <3>1, EvaluateIsSound
      <3>. QED
        BY <3>2, TrueInIs
    <2>3. ASSUME NEW p \in Query, Evaluate(beliefs, p) = "Deny" PROVE TrueIn(world, <<Not, p>>)
      <3>1. p \in Data /\ Sentence(p)
        BY DEF Sentences
      <3>2. \A assigned \in [FreeVar -> Individual] : ~ TrueAs(world, assigned, p)
        BY <2>1, <2>3, <3>1, EvaluateIsSound
      <3>. QED
        BY <3>1, <3>2, NotTrueSentence DEF TrueSentence
    <2>. QED
      BY <2>2, <2>3 DEF AnswersTrue
  <1>2. Inv => AnswersTrue
    BY <1>1
  <1>. QED
    BY <1>2, Invariance, PTL

\* What evaluate_predicate has answered it answers again when more is believed.
THEOREM AnswersStand ==
    ASSUME AllData, AllIndividuals, Sentences
    PROVE  Spec => AnswersKept
  <1> DEFINE Kept == beliefs \subseteq beliefs' =>
               \A p \in Query :
                 Evaluate(beliefs, p) # "Unknown" => Evaluate(beliefs', p) = Evaluate(beliefs, p)
  <1>1. ASSUME Inv, Inv', [Next]_vars PROVE [Kept]_vars
    <2>1. TrueBeliefs(world, beliefs) /\ TrueBeliefs(world', beliefs')
      BY <1>1 DEF Inv, BeliefsInv
    <2>2. world' = world
      BY <1>1 DEF Next, vars, Loop, AddBelief, AddBeliefAborts, RemoveBelief, DeriveBeliefs,
                  DeriveBeliefsAborts, DeriveBeliefs2, BeginLoop, DeriveFrom, DeriveFromAborts,
                  DeriveFromThrows, EndLoop, Abort
    <2>3. ASSUME beliefs \subseteq beliefs', NEW p \in Query, Evaluate(beliefs, p) # "Unknown"
          PROVE  Evaluate(beliefs', p) = Evaluate(beliefs, p)
      <3>1. p \in Data /\ Sentence(p)
        BY DEF Sentences
      <3>. QED
        BY <2>1, <2>2, <2>3, <3>1, EvaluateIsKept
    <2>. QED
      BY <2>3
  <1>2. Inv /\ Inv' /\ [Next]_vars => [Kept]_vars
    BY <1>1
  <1>. QED
    BY <1>2, Invariance, PTL DEF Spec, AnswersKept
=============================================================================
