-------------------------- MODULE TreeNodes_proofs --------------------------
(***************************************************************************)
(* Proofs about the trees of TreeNode_t.hpp: that they stay trees whatever *)
(* is inserted, taken out or erased and whichever insertion fails, and     *)
(* that erase(index, count) cuts the count to the children there are.      *)
(*                                                                         *)
(* The inductive invariant says that parents and children agree on each    *)
(* other, that no child is in two places, and that there is a rank which   *)
(* grows on the way down: without it a circle of nodes that own each other *)
(* would agree on everything.                                              *)
(***************************************************************************)
EXTENDS TreeNodes, SequenceTheorems, FiniteSetTheorems, WellFoundedInduction, TLAPS

Kids(p) == ToSet(m_children[p])

\* The children, by node.
Owns == [p \in Node |-> Kids(p)]

Typed ==
    /\ live \subseteq Node /\ held \subseteq live
    /\ m_parent \in [Node -> Node \cup {Null}]
    /\ m_children \in [Node -> Seq(Node)]

\* A child names the node that owns it, and is not the caller's.
Owners ==
    \A p \in Node : \A c \in Kids(p) :
        p \in live /\ c \in live \ held /\ m_parent[c] = p

\* What is not the caller's is a child of the node it names.
Owned == \A n \in live \ held : \E p \in live : m_parent[n] = p /\ n \in Kids(p)

\* No child twice in a vector.
Distinct(s) == \A i, j \in DOMAIN s : s[i] = s[j] => i = j
Once == \A p \in Node : Distinct(m_children[p])

\* There is no way down that comes back.
Rising(rank) == \A p \in Node : \A c \in Kids(p) : rank[p] < rank[c]
Ranked == \E rank \in [Node -> Nat] : Rising(rank)

Inv == Typed /\ Owners /\ Owned /\ Once /\ Ranked

-----------------------------------------------------------------------------
\* Sequences: what insertion and erasure do to the elements of the vector.

\* A set of numbers has a least one.
LEMMA LeastNumber ==
    ASSUME NEW W \in SUBSET Nat, W # {}
    PROVE  \E x \in W : \A y \in W : x <= y
  <1> DEFINE R == OpToRel(<, Nat)
  <1>1. IsWellFoundedOn(R, Nat)
    BY NatLessThanWellFounded
  <1>2. \A x, y \in Nat : y < x => <<y, x>> \in R
    BY DEF OpToRel
  <1>3. PICK x \in W : \A y \in W : ~ (<<y, x>> \in R)
    <2>1. W \subseteq Nat /\ W # {}
      OBVIOUS
    <2> HIDE DEF R
    <2>. QED
      BY <1>1, <2>1, WFMin
  <1> HIDE DEF R
  <1>4. ASSUME NEW y \in W PROVE x <= y
    <2>1. x \in Nat /\ y \in Nat /\ ~ (<<y, x>> \in R)
      BY <1>3
    <2>2. ~ (y < x)
      BY <1>2, <2>1
    <2>. QED
      BY <2>1, <2>2
  <1>. QED
    BY <1>4

\* Vector elements are of the type of the vector.
LEMMA Elements ==
    ASSUME NEW T, NEW s \in Seq(T)
    PROVE  /\ Len(s) \in Nat /\ DOMAIN s = 1..Len(s)
           /\ ToSet(s) \subseteq T
           /\ \A x : x \in ToSet(s) <=> \E i \in 1..Len(s) : s[i] = x
  BY DEF ToSet

\* m_children.insert(m_children.begin() + index, ...): the elements before
\* index stay, the new ones follow, then those that were from index on.
LEMMA InsertAllElements ==
    ASSUME NEW T, NEW s \in Seq(T), NEW t \in Seq(T), NEW index \in 0..Len(s)
    PROVE  /\ InsertAll(s, index, t) \in Seq(T)
           /\ Len(InsertAll(s, index, t)) = Len(s) + Len(t)
           /\ \A k \in 1..(Len(s) + Len(t)) : InsertAll(s, index, t)[k] =
                  IF k <= index THEN s[k]
                  ELSE IF k <= index + Len(t) THEN t[k - index] ELSE s[k - Len(t)]
  <1> DEFINE a == SubSeq(s, 1, index)
             c == SubSeq(s, index + 1, Len(s))
  <1>1. Len(s) \in Nat /\ Len(t) \in Nat /\ index \in Nat /\ index <= Len(s)
    OBVIOUS
  <1>2. a \in Seq(T) /\ Len(a) = index /\ \A k \in 1..index : a[k] = s[k]
    BY <1>1
  <1>3. /\ c \in Seq(T) /\ Len(c) = Len(s) - index
        /\ \A k \in 1..(Len(s) - index) : c[k] = s[k + index]
    BY <1>1
  <1> HIDE DEF a, c
  <1>4. /\ a \o t \in Seq(T) /\ Len(a \o t) = index + Len(t)
        /\ \A k \in 1..(index + Len(t)) : (a \o t)[k] = IF k <= index THEN s[k] ELSE t[k - index]
    <2>1. /\ a \o t \in Seq(T) /\ Len(a \o t) = Len(a) + Len(t)
          /\ \A k \in 1..(Len(a) + Len(t)) : (a \o t)[k] = IF k <= Len(a) THEN a[k] ELSE t[k - Len(a)]
      BY <1>2, ConcatProperties
    <2>. QED
      BY <1>1, <1>2, <2>1
  <1> DEFINE b == a \o t
  <1> HIDE DEF b
  <1>5. /\ b \o c \in Seq(T) /\ Len(b \o c) = Len(b) + Len(c)
        /\ \A k \in 1..(Len(b) + Len(c)) : (b \o c)[k] = IF k <= Len(b) THEN b[k] ELSE c[k - Len(b)]
    <2>1. b \in Seq(T) /\ c \in Seq(T)
      BY <1>3, <1>4 DEF b
    <2>. QED
      BY ONLY <2>1, ConcatProperties
  <1>6. InsertAll(s, index, t) = b \o c
    BY DEF InsertAll, a, b, c
  <1>7. /\ Len(b) = index + Len(t)
        /\ \A k \in 1..(index + Len(t)) : b[k] = IF k <= index THEN s[k] ELSE t[k - index]
    BY <1>4 DEF b
  <1>8. Len(b \o c) = Len(s) + Len(t)
    BY <1>1, <1>3, <1>5, <1>7
  <1> DEFINE m == Len(s)
             l == Len(t)
  <1> HIDE DEF m, l
  <1>0. m \in Nat /\ l \in Nat /\ index \in Nat /\ index <= m
    BY <1>1 DEF m, l
  <1>9. ASSUME NEW k \in 1..(m + l)
        PROVE  (b \o c)[k] = IF k <= index THEN s[k]
                             ELSE IF k <= index + l THEN t[k - index] ELSE s[k - l]
    <2>1. (b \o c)[k] = IF k <= index + l THEN b[k] ELSE c[k - (index + l)]
      <3>1. Len(b) = index + l /\ Len(c) = m - index /\ k \in 1..(Len(b) + Len(c))
        BY <1>0, <1>3, <1>7 DEF l, m
      <3>. QED
        BY <1>5, <3>1
    <2>2. CASE k <= index + l
      BY <1>0, <1>7, <2>1, <2>2 DEF l
    <2>3. CASE k > index + l
      <3>1. k - (index + l) \in 1..(m - index)
        BY <1>0, <2>3
      <3>2. c[k - (index + l)] = s[k - l]
        <4>1. k - (index + l) + index = k - l
          BY <1>0
        <4>2. c[k - (index + l)] = s[k - (index + l) + index]
          BY <1>3, <3>1 DEF m
        <4>. QED
          BY <4>1, <4>2
      <3>. QED
        BY <1>0, <2>1, <2>3, <3>2
    <2>4. k <= index + l \/ k > index + l
      BY <1>0
    <2>. QED
      BY ONLY <2>2, <2>3, <2>4
  <1>. QED
    BY <1>5, <1>6, <1>8, <1>9 DEF l, m

\* After the insertion the vector has what it had and what was inserted, and
\* nothing twice if that was so before.
LEMMA InsertAllSet ==
    ASSUME NEW T, NEW s \in Seq(T), NEW t \in Seq(T), NEW index \in 0..Len(s)
    PROVE  /\ ToSet(InsertAll(s, index, t)) = ToSet(s) \cup ToSet(t)
           /\ Distinct(s) /\ Distinct(t) /\ ToSet(s) \cap ToSet(t) = {}
              => Distinct(InsertAll(s, index, t))
  <1> DEFINE u == InsertAll(s, index, t)
             m == Len(s)
             l == Len(t)
  <1>1. m \in Nat /\ l \in Nat /\ index \in Nat /\ index <= m
    OBVIOUS
  <1>2. /\ u \in Seq(T) /\ Len(u) = m + l
        /\ \A k \in 1..(m + l) : u[k] = IF k <= index THEN s[k]
                                        ELSE IF k <= index + l THEN t[k - index] ELSE s[k - l]
    BY InsertAllElements
  <1>3. /\ DOMAIN s = 1..m /\ DOMAIN t = 1..l
        /\ \A x : x \in ToSet(s) <=> \E i \in 1..m : s[i] = x
        /\ \A x : x \in ToSet(t) <=> \E i \in 1..l : t[i] = x
    BY Elements
  <1> HIDE DEF u
  <1>4. DOMAIN u = 1..(m + l) /\ \A x : x \in ToSet(u) <=> \E i \in 1..(m + l) : u[i] = x
    BY <1>2, Elements
  <1> HIDE DEF m, l
  <1>5. ToSet(u) \subseteq ToSet(s) \cup ToSet(t)
    <2> SUFFICES ASSUME NEW k \in 1..(m + l) PROVE u[k] \in ToSet(s) \cup ToSet(t)
      BY <1>4
    <2>1. CASE k <= index
      BY <1>1, <1>2, <1>3, <2>1
    <2>2. CASE k > index /\ k <= index + l
      <3>1. k - index \in 1..l /\ u[k] = t[k - index]
        BY <1>1, <1>2, <2>2
      <3>. QED
        BY <1>3, <3>1
    <2>3. CASE k > index + l
      <3>1. k - l \in 1..m /\ u[k] = s[k - l]
        BY <1>1, <1>2, <2>3
      <3>. QED
        BY <1>3, <3>1
    <2>. QED
      BY <1>1, <2>1, <2>2, <2>3
  <1>6. ToSet(s) \subseteq ToSet(u)
    <2> SUFFICES ASSUME NEW i \in 1..m PROVE s[i] \in ToSet(u)
      BY <1>3
    <2>1. CASE i <= index
      <3>1. i \in 1..(m + l) /\ u[i] = s[i]
        BY <1>1, <1>2, <2>1
      <3>. QED
        BY <1>4, <3>1
    <2>2. CASE i > index
      <3>1. i + l \in 1..(m + l) /\ u[i + l] = s[i]
        BY <1>1, <1>2, <2>2
      <3>. QED
        BY <1>4, <3>1
    <2>. QED
      BY <1>1, <2>1, <2>2
  <1>7. ToSet(t) \subseteq ToSet(u)
    <2> SUFFICES ASSUME NEW i \in 1..l PROVE t[i] \in ToSet(u)
      BY <1>3
    <2>1. i + index \in 1..(m + l) /\ u[i + index] = t[i]
      BY <1>1, <1>2
    <2>. QED
      BY <1>4, <2>1
  <1>8. ASSUME Distinct(s), Distinct(t), ToSet(s) \cap ToSet(t) = {}
        PROVE  Distinct(u)
    <2> SUFFICES ASSUME NEW j \in 1..(m + l), NEW k \in 1..(m + l), u[j] = u[k]
                 PROVE  j = k
      BY <1>4 DEF Distinct
    <2> DEFINE Old(a) == a <= index \/ a > index + l
               At(a) == IF a <= index THEN a ELSE a - l
    <2>1. ASSUME NEW a \in 1..(m + l), Old(a)
          PROVE  At(a) \in 1..m /\ u[a] = s[At(a)]
      BY <1>1, <1>2, <2>1
    <2>2. ASSUME NEW a \in 1..(m + l), ~ Old(a)
          PROVE  a - index \in 1..l /\ u[a] = t[a - index]
      BY <1>1, <1>2, <2>2
    <2>3. CASE Old(j) /\ Old(k)
      <3>1. At(j) \in 1..m /\ At(k) \in 1..m /\ s[At(j)] = s[At(k)]
        <4> HIDE DEF Old, At
        <4>. QED
          BY <2>1, <2>3
      <3>2. At(j) = At(k)
        <4> HIDE DEF Old, At
        <4>. QED
          BY <1>3, <1>8, <3>1 DEF Distinct
      <3>. QED
        BY <1>1, <2>3, <3>2
    <2>4. CASE ~ Old(j) /\ ~ Old(k)
      <3>1. j - index \in 1..l /\ k - index \in 1..l /\ t[j - index] = t[k - index]
        <4> HIDE DEF Old
        <4>. QED
          BY <2>2, <2>4
      <3>2. j - index = k - index
        BY <1>3, <1>8, <3>1 DEF Distinct
      <3>. QED
        BY <1>1, <3>2
    <2>5. ASSUME NEW a \in 1..(m + l), NEW b \in 1..(m + l), Old(a), ~ Old(b)
          PROVE  u[a] # u[b]
      <3> HIDE DEF Old, At
      <3>1. u[a] \in ToSet(s)
        BY <1>3, <2>1, <2>5
      <3>2. u[b] \in ToSet(t)
        BY <1>3, <2>2, <2>5
      <3>. QED
        BY <1>8, <3>1, <3>2
    <2> HIDE DEF Old
    <2>. QED
      BY <2>3, <2>4, <2>5
  <1>. QED
    BY <1>5, <1>6, <1>7, <1>8 DEF u

\* Where the k-th element was before the erasure.
Was(index, count, k) == IF k <= index THEN k ELSE k + count

\* m_children.erase(first, last): the elements of the range are gone, the
\* others stay in their order.
LEMMA EraseRangeElements ==
    ASSUME NEW T, NEW s \in Seq(T), NEW index \in Nat, NEW count \in Nat,
           index + count <= Len(s)
    PROVE  /\ EraseRange(s, index, count) \in Seq(T)
           /\ Len(EraseRange(s, index, count)) = Len(s) - count
           /\ \A k \in 1..(Len(s) - count) :
                  EraseRange(s, index, count)[k] = s[Was(index, count, k)]
  <1> DEFINE a == SubSeq(s, 1, index)
             c == SubSeq(s, index + count + 1, Len(s))
             m == Len(s)
  <1>1. m \in Nat /\ index + count <= m
    OBVIOUS
  <1>2. a \in Seq(T) /\ Len(a) = index /\ \A k \in 1..index : a[k] = s[k]
    BY <1>1
  <1>3. /\ c \in Seq(T) /\ Len(c) = m - (index + count)
        /\ \A k \in 1..(m - (index + count)) : c[k] = s[k + (index + count)]
    BY <1>1
  <1> HIDE DEF a, c
  <1>4. /\ a \o c \in Seq(T) /\ Len(a \o c) = Len(a) + Len(c)
        /\ \A k \in 1..(Len(a) + Len(c)) : (a \o c)[k] = IF k <= Len(a) THEN a[k] ELSE c[k - Len(a)]
    BY <1>2, <1>3, ConcatProperties
  <1>5. EraseRange(s, index, count) = a \o c
    BY DEF EraseRange, a, c
  <1> HIDE DEF m
  <1>6. Len(a \o c) = m - count
    BY <1>1, <1>2, <1>3, <1>4
  <1>7. ASSUME NEW k \in 1..(m - count)
        PROVE  (a \o c)[k] = s[Was(index, count, k)]
    <2>1. (a \o c)[k] = IF k <= index THEN a[k] ELSE c[k - index]
      BY <1>1, <1>2, <1>3, <1>4
    <2>2. CASE k <= index
      BY <1>1, <1>2, <2>1, <2>2 DEF Was
    <2>3. CASE k > index
      <3>1. k - index \in 1..(m - (index + count)) /\ k - index + (index + count) = k + count
        BY <1>1, <2>3
      <3>2. c[k - index] = s[k + count]
        BY <1>3, <3>1
      <3>. QED
        BY <1>1, <2>1, <2>3, <3>2 DEF Was
    <2>4. k <= index \/ k > index
      BY <1>1
    <2>. QED
      BY ONLY <2>2, <2>3, <2>4
  <1>. QED
    BY <1>4, <1>5, <1>6, <1>7 DEF m

\* After the erasure the vector has what it had, without the erased range.
LEMMA EraseRangeSet ==
    ASSUME NEW T, NEW s \in Seq(T), NEW index \in Nat, NEW count \in Nat,
           index + count <= Len(s), Distinct(s)
    PROVE  /\ Distinct(EraseRange(s, index, count))
           /\ ToSet(EraseRange(s, index, count))
                = ToSet(s) \ ToSet(SubSeq(s, index + 1, index + count))
           /\ ToSet(SubSeq(s, index + 1, index + count)) \subseteq ToSet(s)
  <1> DEFINE u == EraseRange(s, index, count)
             v == SubSeq(s, index + 1, index + count)
             m == Len(s)
             At(k) == Was(index, count, k)
  <1>1. m \in Nat /\ index + count <= m
    OBVIOUS
  <1>2. u \in Seq(T) /\ Len(u) = m - count /\ \A k \in 1..(m - count) : u[k] = s[At(k)]
    <2>1. /\ EraseRange(s, index, count) \in Seq(T)
          /\ Len(EraseRange(s, index, count)) = Len(s) - count
          /\ \A k \in 1..(Len(s) - count) : EraseRange(s, index, count)[k] = s[Was(index, count, k)]
      BY EraseRangeElements
    <2>. QED
      BY <2>1
  <1>3. v \in Seq(T) /\ Len(v) = count /\ \A k \in 1..count : v[k] = s[k + index]
    <2>1. v \in Seq(T) /\ Len(v) = count
      BY <1>1
    <2>2. \A k \in 1..count : v[k] = s[k + index]
      BY <1>1, SMTT(60)
    <2>. QED
      BY <2>1, <2>2
  <1>4. DOMAIN s = 1..m /\ \A x : x \in ToSet(s) <=> \E i \in 1..m : s[i] = x
    BY Elements
  <1> HIDE DEF u, v
  <1>5. /\ DOMAIN u = 1..(m - count)
        /\ \A x : x \in ToSet(u) <=> \E i \in 1..(m - count) : u[i] = x
    BY <1>2, Elements
  <1>6. \A x : x \in ToSet(v) <=> \E i \in 1..count : v[i] = x
    BY <1>3, Elements
  <1> HIDE DEF m
  <1>7. ASSUME NEW k \in 1..(m - count)
        PROVE  At(k) \in 1..m /\ At(k) \notin (index + 1)..(index + count)
    BY <1>1 DEF Was
  <1>8. ASSUME NEW i \in 1..m, i \notin (index + 1)..(index + count)
        PROVE  \E k \in 1..(m - count) : At(k) = i
    <2>1. CASE i <= index
      <3>1. i \in 1..(m - count) /\ At(i) = i
        BY <1>1, <2>1 DEF Was
      <3>. QED
        BY <3>1
    <2>2. CASE i > index
      <3>1. i - count \in 1..(m - count) /\ At(i - count) = i
        BY <1>1, <1>8, <2>2 DEF Was
      <3>. QED
        BY <3>1
    <2>. QED
      BY <1>1, <2>1, <2>2
  <1>9. \A j, k \in 1..(m - count) : At(j) = At(k) => j = k
    BY <1>1 DEF Was
  <1> HIDE DEF At
  <1>10. \A i, j \in 1..m : s[i] = s[j] => i = j
    BY <1>4 DEF Distinct
  <1>11. Distinct(u)
    <2> SUFFICES ASSUME NEW j \in 1..(m - count), NEW k \in 1..(m - count), u[j] = u[k]
                 PROVE  j = k
      BY <1>5 DEF Distinct
    <2>1. s[At(j)] = s[At(k)] /\ At(j) \in 1..m /\ At(k) \in 1..m
      BY <1>2, <1>7
    <2>. QED
      BY <1>9, <1>10, <2>1
  <1>12. \A x : x \in ToSet(v) <=> \E i \in (index + 1)..(index + count) : s[i] = x
    <2> TAKE x
    <2>1. ASSUME NEW i \in 1..count PROVE i + index \in (index + 1)..(index + count)
      BY <1>1
    <2>2. ASSUME NEW i \in (index + 1)..(index + count)
          PROVE  i - index \in 1..count /\ v[i - index] = s[i]
      <3>1. i - index \in 1..count /\ i - index + index = i
        BY <1>1
      <3>. QED
        BY <1>3, <3>1
    <2>3. ASSUME x \in ToSet(v) PROVE \E i \in (index + 1)..(index + count) : s[i] = x
      <3>1. PICK i \in 1..count : v[i] = x
        BY <1>6, <2>3
      <3>2. i + index \in (index + 1)..(index + count) /\ s[i + index] = x
        BY <1>3, <2>1, <3>1
      <3>. QED
        BY <3>2
    <2>4. ASSUME NEW i \in (index + 1)..(index + count), s[i] = x PROVE x \in ToSet(v)
      <3>1. i - index \in 1..count /\ v[i - index] = x
        BY <2>2, <2>4
      <3>. QED
        BY <1>6, <3>1
    <2>. QED
      BY <2>3, <2>4
  <1>13. (index + 1)..(index + count) \subseteq 1..m
    BY <1>1
  <1>14. ToSet(u) \subseteq ToSet(s) \ ToSet(v)
    <2> SUFFICES ASSUME NEW k \in 1..(m - count) PROVE u[k] \in ToSet(s) \ ToSet(v)
      BY <1>5
    <2>1. u[k] = s[At(k)] /\ At(k) \in 1..m /\ At(k) \notin (index + 1)..(index + count)
      BY <1>2, <1>7
    <2>2. u[k] \in ToSet(s)
      BY <1>4, <2>1
    <2>3. ASSUME NEW i \in (index + 1)..(index + count), s[i] = u[k] PROVE FALSE
      <3>1. i \in 1..m
        BY <1>13
      <3>2. i = At(k)
        BY ONLY <1>10, <2>1, <2>3, <3>1
      <3>. QED
        BY <2>1, <3>2
    <2>. QED
      BY <1>12, <2>2, <2>3
  <1>15. ToSet(s) \ ToSet(v) \subseteq ToSet(u)
    <2> SUFFICES ASSUME NEW i \in 1..m, s[i] \notin ToSet(v) PROVE s[i] \in ToSet(u)
      BY <1>4
    <2>1. i \notin (index + 1)..(index + count)
      BY <1>12
    <2>2. PICK k \in 1..(m - count) : At(k) = i
      BY <1>8, <2>1
    <2>. QED
      BY <1>2, <1>5, <2>2
  <1>16. ToSet(v) \subseteq ToSet(s)
    BY <1>4, <1>12, <1>13
  <1>. QED
    BY <1>11, <1>14, <1>15, <1>16 DEF u, v

\* m_children.pop_back(): the last element is taken off.
LEMMA FrontSet ==
    ASSUME NEW T, NEW s \in Seq(T), s # <<>>, Distinct(s)
    PROVE  /\ Front(s) \in Seq(T) /\ Distinct(Front(s))
           /\ Last(s) \in ToSet(s)
           /\ ToSet(Front(s)) = ToSet(s) \ {Last(s)}
  <1> DEFINE u == Front(s)
             m == Len(s)
  <1>1. m \in Nat \ {0}
    OBVIOUS
  <1>2. u \in Seq(T) /\ Len(u) = m - 1 /\ \A k \in 1..(m - 1) : u[k] = s[k]
    <2>1. u = SubSeq(s, 1, m - 1)
      BY DEF Front
    <2>2. \A k \in 1..(m - 1) : s[k] \in T
      BY <1>1
    <2> HIDE DEF u, m
    <2>3. SubSeq(s, 1, m - 1) \in Seq(T)
      BY <1>1, <2>2, SubSeqProperties
    <2>4. /\ Len(SubSeq(s, 1, m - 1)) = m - 1
          /\ \A k \in 1..(m - 1) : SubSeq(s, 1, m - 1)[k] = s[k]
      BY <1>1
    <2>. QED
      BY <2>1, <2>3, <2>4
  <1>3. DOMAIN s = 1..m /\ \A x : x \in ToSet(s) <=> \E i \in 1..m : s[i] = x
    BY Elements
  <1> HIDE DEF u
  <1>4. DOMAIN u = 1..(m - 1) /\ \A x : x \in ToSet(u) <=> \E i \in 1..(m - 1) : u[i] = x
    BY <1>2, Elements
  <1>5. Last(s) = s[m] /\ m \in 1..m
    BY <1>1 DEF Last
  <1> HIDE DEF m
  <1>6. \A i, j \in 1..m : s[i] = s[j] => i = j
    BY <1>3 DEF Distinct
  <1>7. \A i : i \in 1..(m - 1) <=> i \in 1..m /\ i # m
    BY <1>1
  <1>8. Distinct(u)
    BY <1>2, <1>4, <1>6, <1>7 DEF Distinct
  <1>9. ToSet(u) \subseteq ToSet(s) \ {s[m]}
    BY <1>2, <1>3, <1>4, <1>5, <1>6, <1>7
  <1>10. ToSet(s) \ {s[m]} \subseteq ToSet(u)
    BY <1>2, <1>3, <1>4, <1>7
  <1>. QED
    BY <1>2, <1>3, <1>5, <1>8, <1>9, <1>10 DEF u

-----------------------------------------------------------------------------
\* Subtrees.

\* What Reached gives is closed under next and the least such set.
LEMMA ReachedIs ==
    ASSUME NEW D, NEW next, DOMAIN next = D, \A y \in D : next[y] \subseteq D, NEW x \in D
    PROVE  /\ x \in Reached(x, next) /\ Reached(x, next) \subseteq D
           /\ \A y \in Reached(x, next) : next[y] \subseteq Reached(x, next)
           /\ \A S \in SUBSET D : x \in S /\ (\A y \in S : next[y] \subseteq S)
                 => Reached(x, next) \subseteq S
  <1> DEFINE closed == {S \in SUBSET D : x \in S /\ \A y \in S : next[y] \subseteq S}
  <1>1. Reached(x, next) = {y \in D : \A S \in closed : y \in S}
    BY DEF Reached
  <1>2. x \in Reached(x, next) /\ Reached(x, next) \subseteq D
    BY <1>1
  <1>3. ASSUME NEW y \in Reached(x, next), NEW z \in next[y]
        PROVE  z \in Reached(x, next)
    <2>1. y \in D /\ z \in D
      BY <1>1, <1>3
    <2>2. ASSUME NEW S \in closed PROVE z \in S
      BY <1>1, <1>3, <2>2
    <2> HIDE DEF closed
    <2>. QED
      BY <1>1, <2>1, <2>2
  <1>4. ASSUME NEW S \in SUBSET D, x \in S, \A y \in S : next[y] \subseteq S
        PROVE  Reached(x, next) \subseteq S
    <2>1. S \in closed
      BY <1>4
    <2> HIDE DEF closed
    <2>. QED
      BY <1>1, <2>1
  <1>. QED
    BY <1>2, <1>3, <1>4

\* Children are nodes.
LEMMA KidsAre ==
    ASSUME Typed, NEW p \in Node
    PROVE  Kids(p) \subseteq Node
  <1>1. m_children[p] \in Seq(Node)
    BY DEF Typed
  <1>. QED
    BY <1>1, Elements DEF Kids

\* A subtree is what contains the node and the children of what it contains,
\* and nothing more.
LEMMA SubtreeIs ==
    ASSUME Typed, NEW n \in Node
    PROVE  /\ n \in Subtree(n) /\ Subtree(n) \subseteq Node
           /\ \A y \in Subtree(n) : Kids(y) \subseteq Subtree(n)
           /\ \A S \in SUBSET Node : n \in S /\ (\A y \in S : Kids(y) \subseteq S)
                 => Subtree(n) \subseteq S
  <1>1. Subtree(n) = Reached(n, Owns)
    BY DEF Subtree, Owns, Kids
  <1>2. DOMAIN Owns = Node /\ \A y \in Node : Owns[y] = Kids(y)
    BY DEF Owns
  <1>3. \A y \in Node : Owns[y] \subseteq Node
    BY <1>2, KidsAre
  <1>4. /\ n \in Reached(n, Owns) /\ Reached(n, Owns) \subseteq Node
        /\ \A y \in Reached(n, Owns) : Owns[y] \subseteq Reached(n, Owns)
        /\ \A S \in SUBSET Node : n \in S /\ (\A y \in S : Owns[y] \subseteq S)
                 => Reached(n, Owns) \subseteq S
    BY ONLY <1>2, <1>3, ReachedIs, n \in Node
  <1>5. \A y \in Subtree(n) : Kids(y) \subseteq Subtree(n)
    BY <1>1, <1>2, <1>4
  <1>6. ASSUME NEW S \in SUBSET Node, n \in S, \A y \in S : Kids(y) \subseteq S
        PROVE  Subtree(n) \subseteq S
    <2>1. \A y \in S : Owns[y] \subseteq S
      BY <1>2, <1>6
    <2>. QED
      BY <1>1, <1>4, <1>6, <2>1
  <1>. QED
    BY <1>1, <1>4, <1>5, <1>6

\* What is below a node that exists exists, and is the node itself or a child of
\* what is below.
LEMMA Below ==
    ASSUME Typed, Owners, NEW r \in live, NEW x \in Subtree(r), x # r
    PROVE  /\ x \in live \ held
           /\ m_parent[x] \in Subtree(r) /\ x \in Kids(m_parent[x])
  <1> DEFINE Good(y) == y = r \/ (y \in live \ held /\ m_parent[y] \in Subtree(r) /\ y \in Kids(m_parent[y]))
             S == {y \in Subtree(r) : Good(y)}
  <1>1. r \in Node
    BY DEF Typed
  <1>2. /\ r \in Subtree(r) /\ Subtree(r) \subseteq Node
        /\ \A y \in Subtree(r) : Kids(y) \subseteq Subtree(r)
    BY <1>1, SubtreeIs
  <1>3. S \in SUBSET Node /\ r \in S
    BY <1>2
  <1>4. ASSUME NEW y \in S, NEW c \in Kids(y) PROVE c \in S
    <2>1. y \in Subtree(r) /\ c \in Subtree(r) /\ y \in Node
      BY <1>2
    <2>2. c \in live \ held /\ m_parent[c] = y
      BY <2>1 DEF Owners
    <2>. QED
      BY <2>1, <2>2
  <1>5. Subtree(r) \subseteq S
    <2> HIDE DEF S
    <2>1. \A y \in S : Kids(y) \subseteq S
      BY <1>4
    <2>. QED
      BY <1>1, <1>3, <2>1, SubtreeIs
  <1>. QED
    BY <1>5

\* What is below a node exists.
LEMMA BelowLives ==
    ASSUME Typed, Owners, NEW r \in live
    PROVE  Subtree(r) \subseteq live
  BY Below

\* On the way down the rank grows.
LEMMA RankBelow ==
    ASSUME Typed, NEW rank \in [Node -> Nat], Rising(rank),
           NEW r \in Node, NEW x \in Subtree(r), x # r
    PROVE  rank[r] < rank[x]
  <1> DEFINE S == {y \in Node : y = r \/ rank[r] < rank[y]}
  <1>1. S \in SUBSET Node /\ r \in S
    OBVIOUS
  <1>2. ASSUME NEW y \in S, NEW c \in Kids(y) PROVE c \in S
    <2>1. c \in Node /\ y \in Node
      BY KidsAre
    <2>2. rank[y] < rank[c] /\ rank[y] \in Nat /\ rank[c] \in Nat /\ rank[r] \in Nat
      BY <2>1 DEF Rising
    <2>. QED
      BY <2>1, <2>2
  <1>3. Subtree(r) \subseteq S
    <2> HIDE DEF S
    <2>1. \A y \in S : Kids(y) \subseteq S
      BY <1>2
    <2>. QED
      BY <1>1, <2>1, SubtreeIs
  <1>. QED
    BY <1>3

\* No node is below two of the nodes the caller owns.
LEMMA OneHolder ==
    ASSUME Typed, Owners, NEW g \in held, NEW h \in held, NEW x \in Subtree(g), x \in Subtree(h)
    PROVE  g = h
  <1> DEFINE S == {y \in Subtree(g) : y \in Subtree(h) => g = h}
  <1>1. g \in live /\ h \in live /\ g \in Node /\ h \in Node
    BY DEF Typed
  <1>2. /\ g \in Subtree(g) /\ Subtree(g) \subseteq Node
        /\ \A y \in Subtree(g) : Kids(y) \subseteq Subtree(g)
    BY <1>1, SubtreeIs
  <1>3. S \in SUBSET Node
    BY <1>2
  <1>4. g \in S
    BY <1>1, <1>2, Below
  <1>5. ASSUME NEW y \in S, NEW c \in Kids(y) PROVE c \in S
    <2>1. y \in Node /\ c \in Subtree(g)
      BY <1>2
    <2>2. c \in live \ held /\ m_parent[c] = y
      BY <2>1 DEF Owners
    <2>3. ASSUME c \in Subtree(h) PROVE g = h
      <3>1. c # h
        BY <2>2
      <3>2. y \in Subtree(h)
        BY <1>1, <2>2, <2>3, <3>1, Below
      <3>. QED
        BY <3>2
    <2>. QED
      BY <2>1, <2>3
  <1>6. Subtree(g) \subseteq S
    <2> HIDE DEF S
    <2>1. \A y \in S : Kids(y) \subseteq S
      BY <1>5
    <2>. QED
      BY <1>1, <1>3, <1>4, <2>1, SubtreeIs
  <1>. QED
    BY <1>6
-----------------------------------------------------------------------------
\* The invariant is kept.

\* What the vectors say, as sequences.
LEMMA Vectors ==
    ASSUME Typed, NEW p \in Node
    PROVE  /\ m_children[p] \in Seq(Node) /\ Len(m_children[p]) \in Nat
           /\ DOMAIN m_children[p] = 1..Len(m_children[p])
           /\ \A x : x \in Kids(p) <=> \E i \in 1..Len(m_children[p]) : m_children[p][i] = x
  <1>1. m_children[p] \in Seq(Node)
    BY DEF Typed
  <1>. QED
    BY <1>1, Elements DEF Kids

\* At the start there is no node.
LEMMA InitInv ==
    ASSUME Init
    PROVE  Inv
  <1>1. \A p \in Node : m_children[p] = <<>>
    BY DEF Init
  <1>2. \A p \in Node : Kids(p) = {}
    BY <1>1 DEF Kids, ToSet
  <1>3. Typed
    <2>1. <<>> \in Seq(Node)
      OBVIOUS
    <2>. QED
      BY <2>1 DEF Init, Typed
  <1>4. Owners
    BY <1>2 DEF Owners
  <1>5. Owned
    BY DEF Owned, Init
  <1>6. Once
    BY <1>1 DEF Once, Distinct
  <1>7. Ranked
    <2>1. [n \in Node |-> 0] \in [Node -> Nat] /\ Rising([n \in Node |-> 0])
      BY <1>2 DEF Rising
    <2>. QED
      BY <2>1 DEF Ranked
  <1>. QED
    BY <1>3, <1>4, <1>5, <1>6, <1>7 DEF Inv

\* std::make_unique: the new node has no parent and no children.
LEMMA CreateInv ==
    ASSUME Inv, NEW n \in Node, Create(n)
    PROVE  Inv'
  <1>1. Typed /\ Owners /\ Owned /\ Once /\ Ranked
    BY DEF Inv
  <1>2. /\ n \notin live /\ live' = live \cup {n} /\ held' = held \cup {n}
        /\ m_parent' = [m_parent EXCEPT ![n] = Null]
        /\ m_children' = [m_children EXCEPT ![n] = <<>>]
    BY DEF Create
  <1>3. \A p \in Node : m_children'[p] = IF p = n THEN <<>> ELSE m_children[p]
    BY <1>1, <1>2 DEF Typed
  <1>4. \A p \in Node : Kids(p)' = Kids(p)
    <2> TAKE p \in Node
    <2>1. CASE p = n
      <3>1. Kids(n) = {}
        BY <1>1, <1>2 DEF Owners
      <3>2. Kids(n)' = {}
        BY <1>3 DEF Kids, ToSet
      <3>. QED
        BY <2>1, <3>1, <3>2
    <2>2. CASE p # n
      BY <1>3, <2>2 DEF Kids
    <2>. QED
      BY <2>1, <2>2
  <1>5. Typed'
    <2>1. <<>> \in Seq(Node)
      OBVIOUS
    <2>. QED
      BY <1>1, <1>2, <2>1 DEF Typed
  <1>6. \A p \in Node : m_parent'[p] = IF p = n THEN Null ELSE m_parent[p]
    BY <1>1, <1>2 DEF Typed
  <1>7. Owners'
    <2> SUFFICES ASSUME NEW p \in Node, NEW c \in Kids(p)'
                 PROVE  p \in live' /\ c \in live' \ held' /\ m_parent'[c] = p
      BY DEF Owners
    <2>1. p \in live /\ c \in live \ held /\ m_parent[c] = p /\ c \in Node
      BY <1>1, <1>4 DEF Owners, Typed
    <2>. QED
      BY <1>2, <1>6, <2>1
  <1>8. Owned'
    <2> SUFFICES ASSUME NEW x \in live' \ held'
                 PROVE  \E q \in live' : m_parent'[x] = q /\ x \in Kids(q)'
      BY DEF Owned
    <2>1. x \in live \ held /\ x # n /\ x \in Node
      BY <1>1, <1>2 DEF Typed
    <2>2. PICK q \in live : m_parent[x] = q /\ x \in Kids(q)
      BY <1>1, <2>1 DEF Owned
    <2>3. q \in Node /\ m_parent'[x] = q
      BY <1>1, <1>6, <2>1, <2>2 DEF Typed
    <2>. QED
      BY <1>2, <1>4, <2>2, <2>3
  <1>9. Once'
    BY <1>1, <1>3 DEF Once, Distinct
  <1>10. Ranked'
    BY <1>1, <1>4 DEF Ranked, Rising
  <1>. QED
    BY <1>5, <1>7, <1>8, <1>9, <1>10 DEF Inv

\* The parents are set of nodes that stay with the caller: insert when the vector
\* does not grow, or when a later child is refused.
LEMMA MarkInv ==
    ASSUME Inv, NEW p \in Node, NEW s, ToSet(s) \subseteq held, Mark(p, s)
    PROVE  Inv'
  <1>1. Typed /\ Owners /\ Owned /\ Once /\ Ranked
    BY DEF Inv
  <1>2. /\ m_parent' = [n \in Node |-> IF n \in ToSet(s) THEN p ELSE m_parent[n]]
        /\ live' = live /\ held' = held /\ m_children' = m_children
    BY DEF Mark
  <1>3. \A q : Kids(q)' = Kids(q)
    BY <1>2 DEF Kids
  <1>4. \A n \in Node : n \notin held => m_parent'[n] = m_parent[n]
    BY <1>2
  <1>5. Typed'
    BY <1>1, <1>2 DEF Typed
  <1>6. Owners'
    BY <1>1, <1>2, <1>3, <1>4 DEF Owners, Typed
  <1>7. Owned'
    BY <1>1, <1>2, <1>3, <1>4 DEF Owned, Typed
  <1>8. Once'
    BY <1>1, <1>2 DEF Once, Distinct
  <1>9. Ranked'
    BY <1>1, <1>3 DEF Ranked, Rising
  <1>. QED
    BY <1>5, <1>6, <1>7, <1>8, <1>9 DEF Inv

\* Nodes of the caller become children of p.  p is below none of them; so the rank
\* of what is below them is raised above that of p.
LEMMA AdoptInv ==
    ASSUME Inv, NEW p \in live, NEW s \in Seq(held), Distinct(s),
           \A c \in ToSet(s) : p \notin Subtree(c),
           NEW index \in 0..Len(m_children[p]), Adopt(p, index, s)
    PROVE  Inv'
  <1>1. Typed /\ Owners /\ Owned /\ Once /\ Ranked
    BY DEF Inv
  <1>2. /\ m_children' = [m_children EXCEPT ![p] = InsertAll(@, index, s)]
        /\ held' = held \ ToSet(s) /\ live' = live
        /\ m_parent' = [n \in Node |-> IF n \in ToSet(s) THEN p ELSE m_parent[n]]
    BY DEF Adopt
  <1>3. p \in Node /\ m_children[p] \in Seq(Node) /\ held \subseteq Node
    BY <1>1 DEF Typed
  <1>4. s \in Seq(Node) /\ ToSet(s) \subseteq held
    <2>1. s \in Seq(Node)
      BY <1>3
    <2>. QED
      BY <2>1, Elements
  <1>5. \A q \in Node : m_children'[q] = IF q = p THEN InsertAll(m_children[p], index, s) ELSE m_children[q]
    BY <1>1, <1>2 DEF Typed
  <1>6. InsertAll(m_children[p], index, s) \in Seq(Node)
    BY <1>3, <1>4, InsertAllElements
  <1>7. Kids(p) \cap ToSet(s) = {}
    BY <1>1, <1>3, <1>4 DEF Owners
  <1>8. /\ ToSet(InsertAll(m_children[p], index, s)) = Kids(p) \cup ToSet(s)
        /\ Distinct(m_children[p]) => Distinct(InsertAll(m_children[p], index, s))
    BY <1>3, <1>4, <1>7, InsertAllSet DEF Kids
  <1>9. \A q \in Node : Kids(q)' = IF q = p THEN Kids(p) \cup ToSet(s) ELSE Kids(q)
    BY <1>5, <1>8 DEF Kids
  <1>10. \A n \in Node : m_parent'[n] = IF n \in ToSet(s) THEN p ELSE m_parent[n]
    BY <1>2
  <1>11. Typed'
    <2>1. live' \subseteq Node /\ held' \subseteq live' /\ m_parent' \in [Node -> Node \cup {Null}]
      BY <1>1, <1>2, <1>3 DEF Typed
    <2>2. m_children' \in [Node -> Seq(Node)]
      <3> DEFINE v == InsertAll(m_children[p], index, s)
      <3>1. v \in Seq(Node) /\ m_children' = [m_children EXCEPT ![p] = v]
        BY <1>2, <1>6
      <3> HIDE DEF v
      <3>. QED
        BY <1>1, <3>1 DEF Typed
    <2>. QED
      BY <2>1, <2>2 DEF Typed
  <1>12. Owners'
    <2> SUFFICES ASSUME NEW q \in Node, NEW c \in Kids(q)'
                 PROVE  q \in live' /\ c \in live' \ held' /\ m_parent'[c] = q
      BY DEF Owners
    <2>1. CASE c \in ToSet(s)
      <3>1. q = p
        <4>1. ~ c \in Kids(q)
          BY <1>1, <1>4, <2>1 DEF Owners
        <4>. QED
          BY <1>9, <4>1
      <3>. QED
        BY <1>1, <1>2, <1>4, <1>10, <2>1, <3>1 DEF Typed
    <2>2. CASE c \notin ToSet(s)
      <3>1. c \in Kids(q)
        BY <1>9, <2>2
      <3>2. q \in live /\ c \in live \ held /\ m_parent[c] = q /\ c \in Node
        BY <1>1, <3>1 DEF Owners, Typed
      <3>. QED
        BY <1>2, <1>10, <2>2, <3>2
    <2>. QED
      BY <2>1, <2>2
  <1>13. Owned'
    <2> SUFFICES ASSUME NEW x \in live' \ held'
                 PROVE  \E q \in live' : m_parent'[x] = q /\ x \in Kids(q)'
      BY DEF Owned
    <2>1. x \in Node /\ x \in live
      BY <1>1, <1>2 DEF Typed
    <2>2. CASE x \in ToSet(s)
      <3>1. m_parent'[x] = p
        BY <1>10, <2>1, <2>2
      <3>2. x \in Kids(p)'
        BY <1>3, <1>9, <2>2
      <3>. QED
        BY <1>2, <3>1, <3>2
    <2>3. CASE x \notin ToSet(s)
      <3>1. x \in live \ held /\ m_parent'[x] = m_parent[x]
        BY <1>2, <1>10, <2>1, <2>3
      <3>2. PICK q \in live : m_parent[x] = q /\ x \in Kids(q)
        BY <1>1, <3>1 DEF Owned
      <3>3. x \in Kids(q)'
        BY <1>1, <1>9, <3>2 DEF Typed
      <3>. QED
        BY <1>2, <3>1, <3>2, <3>3
    <2>. QED
      BY <2>2, <2>3
  <1>14. Once'
    <2>1. \A q \in Node : Distinct(m_children'[q])
      BY <1>1, <1>3, <1>5, <1>8 DEF Once
    <2>. QED
      BY <2>1 DEF Once
  <1>15. Ranked'
    <2>1. PICK rank \in [Node -> Nat] : Rising(rank)
      BY <1>1 DEF Ranked
    <2> DEFINE U == {x \in Node : \E c \in ToSet(s) : x \in Subtree(c)}
               raised == [x \in Node |-> IF x \in U THEN rank[x] + rank[p] + 1 ELSE rank[x]]
    <2>2. p \notin U
      OBVIOUS
    <2>3. \A c \in ToSet(s) : c \in U
      BY <1>1, <1>3, <1>4, SubtreeIs
    <2>4. ASSUME NEW q \in U, NEW c \in Kids(q) PROVE c \in U
      <3>1. PICK r \in ToSet(s) : q \in Subtree(r)
        OBVIOUS
      <3>2. r \in Node
        BY <1>3, <1>4
      <3>3. c \in Subtree(r) /\ c \in Node
        BY <1>1, <3>1, <3>2, SubtreeIs
      <3>. QED
        BY <3>3
    <2> HIDE DEF U
    <2>5. PICK new \in [Node -> Nat] :
              \A x \in Node : new[x] = IF x \in U THEN rank[x] + rank[p] + 1 ELSE rank[x]
      <3>1. raised \in [Node -> Nat]
        BY <1>3
      <3>. QED
        BY <3>1
    <2> HIDE DEF raised
    <2>7. ASSUME NEW q \in Node, NEW c \in Kids(q)' PROVE new[q] < new[c]
      <3>1. CASE c \in ToSet(s) /\ q = p
        <4>1. c \in Node /\ c \in U
          BY <1>3, <1>4, <2>3, <3>1
        <4>2. new[q] = rank[p] /\ new[c] = rank[c] + rank[p] + 1
          BY <1>3, <2>2, <2>5, <3>1, <4>1
        <4>3. rank[p] \in Nat /\ rank[c] \in Nat
          BY <1>3, <4>1
        <4>. QED
          BY <4>2, <4>3
      <3>2. CASE c \in Kids(q)
        <4>1. c \in Node
          BY <1>1, <3>2, KidsAre
        <4>2. rank[q] < rank[c] /\ rank[q] \in Nat /\ rank[c] \in Nat /\ rank[p] \in Nat
          BY <1>3, <2>1, <3>2, <4>1 DEF Rising
        <4>3. q \in U => c \in U
          BY <2>4, <3>2
        <4>. QED
          BY <2>5, <4>1, <4>2, <4>3
      <3>. QED
        BY <1>9, <3>1, <3>2
    <2>6. Rising(new)'
      BY <2>7 DEF Rising
    <2>. QED
      BY <2>6 DEF Ranked
  <1>. QED
    BY <1>11, <1>12, <1>13, <1>14, <1>15 DEF Inv

\* emplace: a node that is new everywhere becomes a child of p.
LEMMA EmplaceInv ==
    ASSUME Inv, NEW p \in live, NEW n \in Node, n \notin live,
           NEW index \in 0..Len(m_children[p]),
           m_children' = [m_children EXCEPT ![p] = InsertAll(@, index, <<n>>), ![n] = <<>>],
           m_parent' = [m_parent EXCEPT ![n] = p],
           live' = live \cup {n}, held' = held
    PROVE  Inv'
  <1>1. Typed /\ Owners /\ Owned /\ Once /\ Ranked
    BY DEF Inv
  <1>2. p \in Node /\ p # n /\ m_children[p] \in Seq(Node) /\ m_children \in [Node -> Seq(Node)]
    BY <1>1 DEF Typed
  <1> DEFINE s == <<n>>
             v == InsertAll(m_children[p], index, s)
  <1>3. s \in Seq(Node) /\ ToSet(s) = {n} /\ Distinct(s)
    BY DEF ToSet, Distinct
  <1> HIDE DEF s
  <1>4. Kids(n) = {} /\ \A q \in Node : n \notin Kids(q)
    BY <1>1 DEF Owners
  <1>5. v \in Seq(Node)
    BY <1>2, <1>3, InsertAllElements
  <1>6. Kids(p) \cap ToSet(s) = {}
    BY <1>2, <1>3, <1>4
  <1>7. ToSet(v) = Kids(p) \cup {n} /\ (Distinct(m_children[p]) => Distinct(v))
    <2>1. /\ ToSet(InsertAll(m_children[p], index, s)) = ToSet(m_children[p]) \cup ToSet(s)
          /\ Distinct(m_children[p]) /\ Distinct(s) /\ ToSet(m_children[p]) \cap ToSet(s) = {}
             => Distinct(InsertAll(m_children[p], index, s))
      BY <1>2, <1>3, InsertAllSet
    <2>. QED
      BY <1>3, <1>6, <2>1 DEF Kids
  <1>8. m_children' = [m_children EXCEPT ![p] = v, ![n] = <<>>]
    BY DEF s
  <1> HIDE DEF v
  <1>9. \A q \in Node : m_children'[q] = IF q = n THEN <<>> ELSE IF q = p THEN v ELSE m_children[q]
    BY <1>2, <1>8
  <1>10. \A q \in Node : Kids(q)' = IF q = p THEN Kids(p) \cup {n} ELSE Kids(q)
    <2> TAKE q \in Node
    <2>1. CASE q = n
      <3>1. m_children'[q] = <<>>
        BY <1>9, <2>1
      <3>2. ToSet(<<>>) = {}
        BY DEF ToSet
      <3>3. Kids(q)' = {}
        BY <3>1, <3>2 DEF Kids
      <3>. QED
        BY <1>2, <1>4, <2>1, <3>3
    <2>2. CASE q = p
      BY <1>2, <1>7, <1>9, <2>2 DEF Kids
    <2>3. CASE q # n /\ q # p
      <3>1. m_children'[q] = m_children[q]
        BY <1>9, <2>3
      <3>. QED
        BY <2>3, <3>1 DEF Kids
    <2>. QED
      BY <2>1, <2>2, <2>3
  <1>11. \A x \in Node : m_parent'[x] = IF x = n THEN p ELSE m_parent[x]
    BY <1>1 DEF Typed
  <1>12. Typed'
    <2>1. live' \subseteq Node /\ held' \subseteq live' /\ m_parent' \in [Node -> Node \cup {Null}]
      BY <1>1, <1>2 DEF Typed
    <2>2. <<>> \in Seq(Node)
      OBVIOUS
    <2>3. m_children' \in [Node -> Seq(Node)]
      BY <1>2, <1>5, <1>8, <2>2
    <2>. QED
      BY <2>1, <2>3 DEF Typed
  <1>13. Owners'
    <2> SUFFICES ASSUME NEW q \in Node, NEW c \in Kids(q)'
                 PROVE  q \in live' /\ c \in live' \ held' /\ m_parent'[c] = q
      BY DEF Owners
    <2>1. CASE c = n
      <3>1. q = p
        BY <1>4, <1>10, <2>1
      <3>2. n \notin held
        BY <1>1 DEF Typed
      <3>. QED
        BY <1>11, <2>1, <3>1, <3>2
    <2>2. CASE c # n
      <3>1. c \in Kids(q)
        BY <1>10, <2>2
      <3>2. q \in live /\ c \in live \ held /\ m_parent[c] = q /\ c \in Node
        BY <1>1, <3>1 DEF Owners, Typed
      <3>. QED
        BY <1>11, <2>2, <3>2
    <2>. QED
      BY <2>1, <2>2
  <1>14. Owned'
    <2> SUFFICES ASSUME NEW x \in live' \ held'
                 PROVE  \E q \in live' : m_parent'[x] = q /\ x \in Kids(q)'
      BY DEF Owned
    <2>1. CASE x = n
      BY <1>2, <1>10, <1>11, <2>1
    <2>2. CASE x # n
      <3>1. x \in live \ held
        BY <2>2
      <3>2. PICK q \in live : m_parent[x] = q /\ x \in Kids(q)
        BY <1>1, <3>1 DEF Owned
      <3>3. q \in Node /\ x \in Node
        BY <1>1, <3>1 DEF Typed
      <3>. QED
        BY <1>10, <1>11, <2>2, <3>2, <3>3
    <2>. QED
      BY <2>1, <2>2
  <1>15. Once'
    <2>1. Distinct(<<>>)
      BY DEF Distinct
    <2>2. \A q \in Node : Distinct(m_children'[q])
      BY <1>1, <1>2, <1>7, <1>9, <2>1 DEF Once
    <2>. QED
      BY <2>2 DEF Once
  <1>16. Ranked'
    <2>1. PICK rank \in [Node -> Nat] : Rising(rank)
      BY <1>1 DEF Ranked
    <2>2. PICK new \in [Node -> Nat] :
              \A x \in Node : new[x] = IF x = n THEN rank[p] + 1 ELSE rank[x]
      <3> DEFINE raised == [x \in Node |-> IF x = n THEN rank[p] + 1 ELSE rank[x]]
      <3>1. raised \in [Node -> Nat]
        BY <1>2
      <3>. QED
        BY <3>1
    <2>3. ASSUME NEW q \in Node, NEW c \in Kids(q)' PROVE new[q] < new[c]
      <3>1. CASE c = n
        <4>1. q = p /\ rank[p] \in Nat
          BY <1>2, <1>4, <1>10, <3>1
        <4>. QED
          BY <1>2, <2>2, <3>1, <4>1
      <3>2. CASE c # n
        <4>1. c \in Kids(q)
          BY <1>10, <3>2
        <4>2. c \in Node /\ rank[q] < rank[c]
          BY <1>1, <2>1, <4>1, KidsAre DEF Rising
        <4>3. q # n
          BY <1>4, <4>1
        <4>. QED
          BY <2>2, <3>2, <4>2, <4>3
      <3>. QED
        BY <3>1, <3>2
    <2>4. Rising(new)'
      BY <2>3 DEF Rising
    <2>. QED
      BY <2>4 DEF Ranked
  <1>. QED
    BY <1>12, <1>13, <1>14, <1>15, <1>16 DEF Inv

\* Nodes are deleted with all they own, and taken out of the vectors of the others.
LEMMA DeleteInv ==
    ASSUME Inv, NEW gone \in SUBSET live,
           \A y \in gone : Kids(y) \subseteq gone,
           live' = live \ gone, held' = held \ gone,
           m_parent' = Without(m_parent, gone, Null),
           m_children' \in [Node -> Seq(Node)],
           \A q \in Node : Distinct(m_children'[q]),
           \A q \in Node : ToSet(m_children'[q]) = IF q \in gone THEN {} ELSE Kids(q) \ gone
    PROVE  Inv'
  <1>1. Typed /\ Owners /\ Owned /\ Once /\ Ranked
    BY DEF Inv
  <1>2. \A x \in Node : m_parent'[x] = IF x \in gone THEN Null ELSE m_parent[x]
    BY DEF Without
  <1>3. \A q \in Node : Kids(q)' = IF q \in gone THEN {} ELSE Kids(q) \ gone
    BY DEF Kids
  <1>4. Typed'
    <2>1. m_parent' \in [Node -> Node \cup {Null}]
      BY <1>1 DEF Typed, Without
    <2>. QED
      BY <1>1, <2>1 DEF Typed
  <1>5. Owners'
    <2> SUFFICES ASSUME NEW q \in Node, NEW c \in Kids(q)'
                 PROVE  q \in live' /\ c \in live' \ held' /\ m_parent'[c] = q
      BY DEF Owners
    <2>1. q \notin gone /\ c \in Kids(q) /\ c \notin gone
      BY <1>3
    <2>2. q \in live /\ c \in live \ held /\ m_parent[c] = q /\ c \in Node
      BY <1>1, <2>1 DEF Owners, Typed
    <2>. QED
      BY <1>2, <2>1, <2>2
  <1>6. Owned'
    <2> SUFFICES ASSUME NEW x \in live' \ held'
                 PROVE  \E q \in live' : m_parent'[x] = q /\ x \in Kids(q)'
      BY DEF Owned
    <2>1. x \in live \ held /\ x \notin gone
      OBVIOUS
    <2>2. PICK q \in live : m_parent[x] = q /\ x \in Kids(q)
      BY <1>1, <2>1 DEF Owned
    <2>3. q \in Node /\ x \in Node /\ q \notin gone
      BY <1>1, <2>1, <2>2 DEF Typed
    <2>. QED
      BY <1>2, <1>3, <2>1, <2>2, <2>3
  <1>7. Once'
    BY DEF Once
  <1>8. Ranked'
    <2>1. PICK rank \in [Node -> Nat] : Rising(rank)
      BY <1>1 DEF Ranked
    <2>2. Rising(rank)'
      BY <1>3, <2>1 DEF Rising
    <2>. QED
      BY <2>2 DEF Ranked
  <1>. QED
    BY <1>4, <1>5, <1>6, <1>7, <1>8 DEF Inv

\* The caller deletes a node of its own.
LEMMA DestroyInv ==
    ASSUME Inv, NEW n \in Node, Destroy(n)
    PROVE  Inv'
  <1>1. Typed /\ Owners /\ Owned /\ Once /\ Ranked
    BY DEF Inv
  <1> DEFINE gone == Subtree(n)
  <1>2. /\ n \in held /\ held' = held \ {n} /\ live' = live \ gone
        /\ m_parent' = Without(m_parent, gone, Null)
        /\ m_children' = Without(m_children, gone, <<>>)
    BY DEF Destroy
  <1>3. n \in live
    BY <1>1, <1>2 DEF Typed
  <1>4. n \in gone /\ gone \in SUBSET live /\ \A y \in gone : Kids(y) \subseteq gone
    BY <1>1, <1>3, BelowLives, SubtreeIs
  <1>5. \A x \in gone : x # n => x \in live \ held /\ m_parent[x] \in gone
    BY <1>1, <1>3, Below
  <1> HIDE DEF gone
  <1>6. held' = held \ gone
    BY <1>2, <1>4, <1>5
  <1>7. \A q \in Node : m_children'[q] = IF q \in gone THEN <<>> ELSE m_children[q]
    BY <1>2 DEF Without
  <1>8. m_children' \in [Node -> Seq(Node)]
    <2>1. <<>> \in Seq(Node)
      OBVIOUS
    <2>. QED
      BY <1>1, <1>2, <2>1 DEF Typed, Without
  <1>9. \A q \in Node : Distinct(m_children'[q])
    <2>1. Distinct(<<>>)
      BY DEF Distinct
    <2>. QED
      BY <1>1, <1>7, <2>1 DEF Once
  <1>10. ASSUME NEW q \in Node
         PROVE  ToSet(m_children'[q]) = IF q \in gone THEN {} ELSE Kids(q) \ gone
    <2>1. CASE q \in gone
      BY <1>7, <2>1 DEF ToSet
    <2>2. CASE q \notin gone
      <3>1. ASSUME NEW c \in Kids(q) PROVE c \notin gone
        <4>1. c \in live \ held /\ m_parent[c] = q
          BY <1>1 DEF Owners
        <4>. QED
          BY <1>2, <1>5, <2>2, <4>1
      <3>2. ToSet(m_children'[q]) = Kids(q)
        BY <1>7, <2>2 DEF Kids
      <3>. QED
        BY <2>2, <3>1, <3>2
    <2>. QED
      BY <2>1, <2>2
  <1>. QED
    BY <1>2, <1>4, <1>6, <1>8, <1>9, <1>10, DeleteInv

\* What goes with the nodes of cut.
AllBelow(cut) == UNION {Subtree(n) : n \in cut}

\* What goes when children of p are deleted: it is all below p, so not p and not
\* the caller's, and no other child of p.
LEMMA GoneIs ==
    ASSUME Inv, NEW p \in live, NEW cut, cut \subseteq Kids(p)
    PROVE  /\ AllBelow(cut) \subseteq live \ held /\ cut \subseteq AllBelow(cut)
           /\ p \notin AllBelow(cut)
           /\ \A y \in AllBelow(cut) : Kids(y) \subseteq AllBelow(cut)
           /\ \A q \in Node : q \notin AllBelow(cut)
                 => Kids(q) \cap AllBelow(cut) = IF q = p THEN cut ELSE {}
  <1> DEFINE gone == AllBelow(cut)
  <1>. \A x : x \in gone <=> \E r \in cut : x \in Subtree(r)
    BY DEF AllBelow
  <1> HIDE DEF gone
  <1>1. Typed /\ Owners /\ Owned /\ Once /\ Ranked
    BY DEF Inv
  <1>2. p \in Node /\ cut \subseteq Node /\ \A r \in cut : r \in live \ held /\ m_parent[r] = p
    BY <1>1 DEF Typed, Owners
  <1>3. ASSUME NEW x \in gone
        PROVE  x \in live \ held /\ (x \in cut \/ m_parent[x] \in gone)
    <2>1. PICK r \in cut : x \in Subtree(r)
      OBVIOUS
    <2>2. r \in live \ held
      BY <1>2
    <2>3. CASE x = r
      BY <2>2, <2>3
    <2>4. CASE x # r
      <3>1. x \in live \ held /\ m_parent[x] \in Subtree(r)
        BY <1>1, <2>1, <2>2, <2>4, Below
      <3>. QED
        BY <3>1
    <2>. QED
      BY <2>3, <2>4
  <1>4. cut \subseteq gone
    BY <1>1, <1>2, SubtreeIs
  <1>5. p \notin gone
    <2> SUFFICES ASSUME NEW r \in cut, p \in Subtree(r) PROVE FALSE
      OBVIOUS
    <2>1. PICK rank \in [Node -> Nat] : Rising(rank)
      BY <1>1 DEF Ranked
    <2>2. r \in Node /\ rank[p] \in Nat /\ rank[r] \in Nat /\ rank[p] < rank[r]
      BY <1>2, <2>1 DEF Rising
    <2>3. p # r => rank[r] < rank[p]
      BY <1>1, <2>1, <2>2, RankBelow
    <2>. QED
      BY <2>2, <2>3
  <1>6. ASSUME NEW y \in gone, NEW c \in Kids(y) PROVE c \in gone
    <2>1. PICK r \in cut : y \in Subtree(r)
      OBVIOUS
    <2>2. c \in Subtree(r)
      BY <1>1, <1>2, <2>1, SubtreeIs
    <2>. QED
      BY <2>2
  <1> HIDE DEF Kids
  <1>7. ASSUME NEW q \in Node, q \notin gone
        PROVE  Kids(q) \cap gone = IF q = p THEN cut ELSE {}
    <2>1. ASSUME NEW c \in Kids(q), c \in gone PROVE c \in cut /\ q = p
      <3>1. m_parent[c] = q
        BY <1>1 DEF Owners
      <3>2. c \in cut
        BY <1>3, <1>7, <2>1, <3>1
      <3>. QED
        BY <1>2, <3>1, <3>2
    <2>2. q = p => cut \subseteq Kids(q) \cap gone
      BY <1>4
    <2>. QED
      BY <2>1, <2>2
  <1>. QED
    BY <1>3, <1>4, <1>5, <1>6, <1>7 DEF gone

\* The elements are erased from the vector of p: that is all its erased children.
LEMMA ErasedIs ==
    ASSUME Inv, NEW p \in live, NEW index \in Nat, NEW count \in Nat,
           index + count <= Len(m_children[p]), DeleteChildren(p, index, count)
    PROVE  \E gone \in SUBSET live :
              /\ p \notin gone /\ gone \cap held = {}
              /\ \A y \in gone : Kids(y) \subseteq gone
              /\ live' = live \ gone /\ held' = held
              /\ m_parent' = Without(m_parent, gone, Null)
              /\ m_children' \in [Node -> Seq(Node)]
              /\ \A q \in Node : Distinct(m_children'[q])
              /\ \A q \in Node : ToSet(m_children'[q]) = IF q \in gone THEN {} ELSE Kids(q) \ gone
              /\ m_children'[p] = EraseRange(m_children[p], index, count)
  <1>1. Typed /\ Owners /\ Owned /\ Once /\ Ranked
    BY DEF Inv
  <1> DEFINE cut == ToSet(SubSeq(m_children[p], index + 1, index + count))
             gone == AllBelow(cut)
             rest == EraseRange(m_children[p], index, count)
             kept == [m_children EXCEPT ![p] = rest]
  <1>2. /\ live' = live \ gone /\ held' = held
        /\ m_parent' = Without(m_parent, gone, Null)
        /\ m_children' = Without(kept, gone, <<>>)
    BY DEF DeleteChildren, AllBelow
  <1>3. p \in Node /\ m_children[p] \in Seq(Node) /\ Distinct(m_children[p])
    BY <1>1 DEF Typed, Once
  <1>4. rest \in Seq(Node)
    BY <1>3, EraseRangeElements
  <1>5. Distinct(rest) /\ ToSet(rest) = Kids(p) \ cut /\ cut \subseteq Kids(p)
    BY <1>3, EraseRangeSet DEF Kids
  <1> HIDE DEF cut, rest
  <1>6. /\ gone \subseteq live \ held /\ cut \subseteq gone /\ p \notin gone
        /\ \A y \in gone : Kids(y) \subseteq gone
        /\ \A q \in Node : q \notin gone => Kids(q) \cap gone = IF q = p THEN cut ELSE {}
    BY <1>5, GoneIs
  <1> HIDE DEF gone
  <1>7. \A q \in Node : kept[q] = IF q = p THEN rest ELSE m_children[q]
    BY <1>1 DEF Typed
  <1>8. kept \in [Node -> Seq(Node)]
    BY <1>1, <1>4 DEF Typed
  <1> HIDE DEF kept
  <1>9. \A q \in Node : m_children'[q] = IF q \in gone THEN <<>> ELSE kept[q]
    BY <1>2 DEF Without
  <1>10. m_children' \in [Node -> Seq(Node)]
    <2>1. <<>> \in Seq(Node)
      OBVIOUS
    <2>. QED
      BY <1>2, <1>8, <2>1 DEF Without
  <1>11. \A q \in Node : Distinct(m_children'[q])
    <2>1. Distinct(<<>>)
      BY DEF Distinct
    <2>. QED
      BY <1>1, <1>5, <1>7, <1>9, <2>1 DEF Once
  <1>12. ASSUME NEW q \in Node
         PROVE  ToSet(m_children'[q]) = IF q \in gone THEN {} ELSE Kids(q) \ gone
    <2>1. CASE q \in gone
      <3>1. m_children'[q] = <<>>
        BY <1>9, <2>1
      <3>2. ToSet(<<>>) = {}
        BY DEF ToSet
      <3>. QED
        BY <2>1, <3>1, <3>2
    <2>2. CASE q = p
      <3>1. m_children'[q] = rest
        BY <1>6, <1>7, <1>9, <2>2
      <3>2. Kids(p) \ cut = Kids(p) \ gone
        BY <1>3, <1>6
      <3>. QED
        BY <1>5, <1>6, <2>2, <3>1, <3>2
    <2>3. CASE q \notin gone /\ q # p
      <3>1. m_children'[q] = m_children[q]
        BY <1>7, <1>9, <2>3
      <3>2. Kids(q) \ gone = Kids(q)
        BY <1>6, <2>3
      <3>. QED
        BY <2>3, <3>1, <3>2 DEF Kids
    <2>. QED
      BY <2>1, <2>2, <2>3
  <1>13. m_children'[p] = rest
    BY <1>3, <1>6, <1>7, <1>9
  <1>14. gone \in SUBSET live /\ gone \cap held = {}
    BY <1>6
  <1>. QED
    BY <1>2, <1>6, <1>10, <1>11, <1>12, <1>13, <1>14 DEF rest

\* erase and clear keep the invariant.
LEMMA EraseInv ==
    ASSUME Inv, NEW p \in live, NEW index \in Nat, NEW count \in Nat,
           index + count <= Len(m_children[p]), DeleteChildren(p, index, count)
    PROVE  Inv'
  <1>1. PICK gone \in SUBSET live :
              /\ p \notin gone /\ gone \cap held = {}
              /\ \A y \in gone : Kids(y) \subseteq gone
              /\ live' = live \ gone /\ held' = held
              /\ m_parent' = Without(m_parent, gone, Null)
              /\ m_children' \in [Node -> Seq(Node)]
              /\ \A q \in Node : Distinct(m_children'[q])
              /\ \A q \in Node : ToSet(m_children'[q]) = IF q \in gone THEN {} ELSE Kids(q) \ gone
    BY ErasedIs
  <1>2. held' = held \ gone
    BY <1>1
  <1>. QED
    BY <1>1, <1>2, DeleteInv

\* pop_back: the last child is the caller's again.
LEMMA PopInv ==
    ASSUME Inv, NEW p \in Node, pop_back(p)
    PROVE  Inv'
  <1>1. Typed /\ Owners /\ Owned /\ Once /\ Ranked
    BY DEF Inv
  <1> DEFINE n == Last(m_children[p])
             front == Front(m_children[p])
  <1>2. /\ p \in live /\ m_children[p] # <<>>
        /\ held' = held \cup {n} /\ live' = live
        /\ m_parent' = [m_parent EXCEPT ![n] = Null]
        /\ m_children' = [m_children EXCEPT ![p] = front]
    BY DEF pop_back, Usable
  <1>3. m_children[p] \in Seq(Node) /\ Distinct(m_children[p])
    BY <1>1 DEF Typed, Once
  <1>4. front \in Seq(Node) /\ Distinct(front) /\ n \in Kids(p) /\ ToSet(front) = Kids(p) \ {n}
    BY <1>2, <1>3, FrontSet DEF Kids
  <1> HIDE DEF n, front
  <1>5. n \in live \ held /\ m_parent[n] = p /\ n \in Node
    BY <1>1, <1>4 DEF Owners, Typed
  <1>6. \A q \in Node : m_children'[q] = IF q = p THEN front ELSE m_children[q]
    BY <1>1, <1>2 DEF Typed
  <1>7. \A q \in Node : Kids(q)' = IF q = p THEN Kids(p) \ {n} ELSE Kids(q)
    BY <1>4, <1>6 DEF Kids
  <1>8. \A x \in Node : m_parent'[x] = IF x = n THEN Null ELSE m_parent[x]
    BY <1>1, <1>2 DEF Typed
  <1>9. Typed'
    BY <1>1, <1>2, <1>4, <1>5 DEF Typed
  <1>10. Owners'
    <2> SUFFICES ASSUME NEW q \in Node, NEW c \in Kids(q)'
                 PROVE  q \in live' /\ c \in live' \ held' /\ m_parent'[c] = q
      BY DEF Owners
    <2>1. c \in Kids(q) /\ (q = p => c # n)
      BY <1>7
    <2>2. q \in live /\ c \in live \ held /\ m_parent[c] = q /\ c \in Node
      BY <1>1, <2>1 DEF Owners, Typed
    <2>3. c # n
      BY <1>5, <2>1, <2>2
    <2>. QED
      BY <1>2, <1>8, <2>2, <2>3
  <1>11. Owned'
    <2> SUFFICES ASSUME NEW x \in live' \ held'
                 PROVE  \E q \in live' : m_parent'[x] = q /\ x \in Kids(q)'
      BY DEF Owned
    <2>1. x \in live \ held /\ x # n
      BY <1>2
    <2>2. PICK q \in live : m_parent[x] = q /\ x \in Kids(q)
      BY <1>1, <2>1 DEF Owned
    <2>3. q \in Node /\ x \in Node
      BY <1>1, <2>1 DEF Typed
    <2>. QED
      BY <1>2, <1>7, <1>8, <2>1, <2>2, <2>3
  <1>12. Once'
    <2>1. \A q \in Node : Distinct(m_children'[q])
      BY <1>1, <1>4, <1>6 DEF Once
    <2>. QED
      BY <2>1 DEF Once
  <1>13. Ranked'
    <2>1. PICK rank \in [Node -> Nat] : Rising(rank)
      BY <1>1 DEF Ranked
    <2>2. Rising(rank)'
      BY <1>7, <2>1 DEF Rising
    <2>. QED
      BY <2>2 DEF Ranked
  <1>. QED
    BY <1>9, <1>10, <1>11, <1>12, <1>13 DEF Inv

\* What is undefined changes no more.
LEMMA SameInv ==
    ASSUME Inv, UNCHANGED <<live, held, m_parent, m_children>>
    PROVE  Inv'
  <1>1. \A q : Kids(q)' = Kids(q)
    BY DEF Kids
  <1>2. Typed' /\ Once'
    BY DEF Inv, Typed, Once, Distinct
  <1>3. Owners' /\ Owned'
    BY <1>1 DEF Inv, Owners, Owned
  <1>4. Ranked'
    BY <1>1 DEF Inv, Ranked, Rising
  <1>. QED
    BY <1>2, <1>3, <1>4 DEF Inv

\* What an insertion is given: nodes of the caller, none above p.
LEMMA Adoptable ==
    ASSUME Inv, NEW p \in Node, NEW s, s \in Seq(Node), MayAdopt(p, s)
    PROVE  /\ s \in Seq(held) /\ ToSet(s) \subseteq held
           /\ \A c \in ToSet(s) : p \notin Subtree(c)
  <1>1. DOMAIN s = 1..Len(s) /\ \A x : x \in ToSet(s) <=> \E i \in 1..Len(s) : s[i] = x
    BY Elements
  <1>2. \A i \in 1..Len(s) : s[i] \in held /\ p \notin Subtree(s[i])
    BY <1>1 DEF MayAdopt
  <1>3. s \in Seq(held)
    <2>1. Len(s) \in Nat /\ s = [i \in 1..Len(s) |-> s[i]]
      OBVIOUS
    <2>. QED
      BY <1>2, <2>1
  <1>. QED
    BY <1>1, <1>2, <1>3

\* insert and push_back of one child.
LEMMA AdoptOneInv ==
    ASSUME Inv, NEW p \in live, NEW n \in Node, MayAdopt(p, <<n>>),
           NEW index \in 0..Len(m_children[p]), Adopt(p, index, <<n>>)
    PROVE  Inv'
  <1>1. p \in Node
    BY DEF Inv, Typed
  <1>2. <<n>> \in Seq(Node) /\ Distinct(<<n>>)
    BY DEF Distinct
  <1>. QED
    BY <1>1, <1>2, Adoptable, AdoptInv

\* The same when the vector does not grow.
LEMMA MarkOneInv ==
    ASSUME Inv, NEW p \in live, NEW n \in Node, MayAdopt(p, <<n>>), Mark(p, <<n>>)
    PROVE  Inv'
  <1>1. p \in Node /\ <<n>> \in Seq(Node)
    BY DEF Inv, Typed
  <1>. QED
    BY <1>1, Adoptable, MarkInv

\* insert of two children: both are adopted, or the parent is set of both, of the
\* first or of none.
LEMMA InsertRangeInv ==
    ASSUME Inv, NEW p \in Node, NEW n \in Node, NEW m \in Node, n # m,
           NEW index \in Size, insert_range(p, index, <<n, m>>)
    PROVE  Inv'
  <1> DEFINE s == <<n, m>>
             taken == {i \in DOMAIN s : m_parent[s[i]] # Null}
             Good(k) == (k = Len(s) \/ k + 1 \in taken) /\ taken \cap (1 .. k) = {}
             len == CHOOSE k \in 0 .. Len(s) : Good(k)
             checked == SubSeq(s, 1, len)
  <1>1. s \in Seq(Node) /\ Len(s) = 2 /\ DOMAIN s = 1..2 /\ s[1] = n /\ s[2] = m
    OBVIOUS
  <1>2. Usable(p) /\ MayAdopt(p, s)
    BY DEF insert_range
  <1>3. IF taken # {} THEN checked # <<>> /\ Mark(p, checked)
        ELSE \/ index <= child_count(p) /\ Adopt(p, index, s)
             \/ index <= child_count(p) /\ Mark(p, s)
             \/ index > child_count(p) /\ Undefined
    BY DEF insert_range
  <1>4. taken \subseteq 1..2
    BY <1>1
  <1>5. p \in live /\ p \in Node /\ Len(m_children[p]) \in Nat /\ index \in Nat
    <2>1. Typed
      BY DEF Inv
    <2>. QED
      BY <1>2, <2>1, Vectors DEF Usable, Size, Typed, NodeAssumption
  <1> HIDE DEF s, taken
  <1>6. Distinct(s)
    BY <1>1 DEF Distinct
  <1>7. /\ s \in Seq(held) /\ ToSet(s) \subseteq held
        /\ \A c \in ToSet(s) : p \notin Subtree(c)
    BY <1>1, <1>2, Adoptable
  <1>8. len \in 0..2
    <2>1. \E k \in 0..2 : Good(k)
      <3>1. CASE 1 \in taken
        <4>1. Good(0)
          BY <1>4, <3>1
        <4>. QED
          BY <4>1
      <3>2. CASE 1 \notin taken /\ 2 \in taken
        <4>1. 1 .. 1 = {1}
          OBVIOUS
        <4>2. Good(1)
          BY <3>2, <4>1
        <4>. QED
          BY <4>2
      <3>3. CASE 1 \notin taken /\ 2 \notin taken
        <4>1. Good(2)
          BY <1>1, <1>4, <3>3
        <4>. QED
          BY <4>1
      <3>. QED
        BY <3>1, <3>2, <3>3
    <2> HIDE DEF Good
    <2>. QED
      BY <1>1, <2>1
  <1> HIDE DEF len
  <1>9. checked \in Seq(Node) /\ ToSet(checked) \subseteq ToSet(s)
    <2>1. /\ checked \in Seq(Node) /\ Len(checked) = len
          /\ \A i \in 1..len : checked[i] = s[i] /\ i \in 1..2
      BY <1>1, <1>8
    <2> HIDE DEF checked
    <2>2. \A x : x \in ToSet(checked) <=> \E i \in 1..len : checked[i] = x
      BY <2>1, Elements
    <2>3. \A x : x \in ToSet(s) <=> \E i \in 1..2 : s[i] = x
      BY <1>1, Elements
    <2>. QED
      BY <2>1, <2>2, <2>3
  <1> HIDE DEF checked
  <1>10. CASE Mark(p, checked)
    BY <1>5, <1>7, <1>9, <1>10, MarkInv
  <1>11. CASE Mark(p, s)
    BY <1>5, <1>7, <1>11, MarkInv
  <1>12. CASE index <= child_count(p) /\ Adopt(p, index, s)
    <2>1. index \in 0..Len(m_children[p])
      BY <1>5, <1>12 DEF child_count
    <2>. QED
      BY <1>5, <1>6, <1>7, <1>12, <2>1, AdoptInv
  <1>13. CASE Undefined
    BY <1>13, SameInv DEF Undefined
  <1>. QED
    BY <1>3, <1>10, <1>11, <1>12, <1>13

\* emplace at a place of the vector, or out of it.
LEMMA EmplaceAtInv ==
    ASSUME Inv, NEW p \in Node, NEW n \in Node, NEW index \in Nat, emplace(p, index, n)
    PROVE  Inv'
  <1>1. p \in live /\ n \notin live
    BY DEF emplace, Usable
  <1>2. Len(m_children[p]) \in Nat
    BY Vectors DEF Inv
  <1>3. CASE index <= child_count(p)
    <2>1. index \in 0..Len(m_children[p])
      BY <1>2, <1>3 DEF child_count
    <2>2. /\ m_children' = [m_children EXCEPT ![p] = InsertAll(@, index, <<n>>), ![n] = <<>>]
          /\ m_parent' = [m_parent EXCEPT ![n] = p]
          /\ live' = live \cup {n} /\ held' = held
      BY <1>3 DEF emplace
    <2>. QED
      BY <1>1, <2>1, <2>2, EmplaceInv
  <1>4. CASE ~ index <= child_count(p)
    BY <1>4, SameInv DEF emplace, Undefined
  <1>. QED
    BY <1>3, <1>4

\* The truncated count is in the vector when the sum is a size_t.
LEMMA TruncatedIs ==
    ASSUME NEW p, NEW index \in Size, NEW count \in Size, Len(m_children[p]) \in Nat,
           index < child_count(p)
    PROVE  /\ Truncated(p, index, count) \in Nat
           /\ index + count <= SizeMax =>
                 Truncated(p, index, count) = IF index + count > child_count(p)
                                              THEN child_count(p) - index ELSE count
  <1>1. index \in Nat /\ count \in Nat /\ SizeMax \in Nat /\ child_count(p) \in Nat
    BY NodeAssumption DEF Size, child_count
  <1>2. index + count <= SizeMax => Plus(index, count) = index + count
    <2> SUFFICES ASSUME index + count <= SizeMax PROVE (index + count) % (SizeMax + 1) = index + count
      BY DEF Plus
    <2>. QED
      BY <1>1
  <1>. QED
    BY <1>1, <1>2 DEF Truncated

\* erase(index, count) keeps the invariant.
LEMMA EraseCountInv ==
    ASSUME Inv, NEW p \in Node, NEW index \in Size, NEW count \in Size,
           erase_count(p, index, count)
    PROVE  Inv'
  <1> DEFINE n == Truncated(p, index, count)
  <1>1. p \in live /\ index < child_count(p) /\ Len(m_children[p]) \in Nat
    BY Vectors DEF erase_count, Usable, Inv
  <1>2. IF index + n <= child_count(p) THEN DeleteChildren(p, index, n) ELSE Undefined
    BY DEF erase_count
  <1>3. n \in Nat /\ index \in Nat
    BY <1>1, TruncatedIs, NodeAssumption DEF Size
  <1> HIDE DEF n
  <1>4. CASE Undefined
    BY <1>4, SameInv DEF Undefined
  <1>5. CASE index + n <= child_count(p) /\ DeleteChildren(p, index, n)
    BY <1>1, <1>3, <1>5, EraseInv DEF child_count
  <1>. QED
    BY <1>2, <1>4, <1>5

\* Every step keeps the invariant.
LEMMA NextInv ==
    ASSUME Inv, [Next]_vars
    PROVE  Inv'
  <1>0. \A q \in Node : Len(m_children[q]) \in Nat
    BY Vectors DEF Inv
  <1>1. ASSUME NEW p \in Node, Create(p) PROVE Inv'
    BY <1>1, CreateInv
  <1>2. ASSUME NEW p \in Node, Destroy(p) PROVE Inv'
    BY <1>2, DestroyInv
  <1>3. ASSUME NEW p \in Node, pop_back(p) PROVE Inv'
    BY <1>3, PopInv
  <1>4. ASSUME NEW p \in Node, clear(p) PROVE Inv'
    <2>1. /\ p \in live /\ 0 \in Nat /\ Len(m_children[p]) \in Nat
          /\ 0 + Len(m_children[p]) <= Len(m_children[p])
          /\ DeleteChildren(p, 0, Len(m_children[p]))
      BY <1>0, <1>4 DEF clear, Usable, child_count
    <2>. QED
      BY <2>1, EraseInv
  <1>5. ASSUME NEW p \in Node, NEW n \in Node, push_back(p, n) PROVE Inv'
    <2>1. /\ p \in live /\ MayAdopt(p, <<n>>)
          /\ Adopt(p, Len(m_children[p]), <<n>>) \/ Mark(p, <<n>>)
      BY <1>5 DEF push_back, Usable, child_count
    <2>2. Len(m_children[p]) \in 0..Len(m_children[p])
      BY <1>0
    <2>. QED
      BY <2>1, <2>2, AdoptOneInv, MarkOneInv
  <1>6. ASSUME NEW p \in Node, NEW n \in Node, emplace_back(p, n) PROVE Inv'
    BY <1>0, <1>6, EmplaceAtInv DEF emplace_back, child_count
  <1>7. ASSUME NEW p \in Node, NEW i \in Size, NEW n \in Node, insert(p, i, n) PROVE Inv'
    <2>1. /\ p \in live /\ MayAdopt(p, <<n>>)
          /\ \/ i <= Len(m_children[p]) /\ Adopt(p, i, <<n>>)
             \/ Mark(p, <<n>>)
             \/ Undefined
      BY <1>7 DEF insert, Usable, child_count
    <2>2. i <= Len(m_children[p]) => i \in 0..Len(m_children[p])
      BY <1>0 DEF Size
    <2>. QED
      BY <2>1, <2>2, AdoptOneInv, MarkOneInv, SameInv DEF Undefined
  <1>8. ASSUME NEW p \in Node, NEW i \in Size, NEW n \in Node, emplace(p, i, n) PROVE Inv'
    <2>1. i \in Nat
      BY DEF Size
    <2>. QED
      BY <1>8, <2>1, EmplaceAtInv
  <1>9. ASSUME NEW p \in Node, NEW i \in Size, NEW n \in Node, NEW m \in Node, n # m,
               insert_range(p, i, <<n, m>>)
        PROVE  Inv'
    BY <1>9, InsertRangeInv
  <1>10. ASSUME NEW p \in Node, NEW i \in Size, erase(p, i) PROVE Inv'
    <2>1. p \in live /\ IF i < Len(m_children[p]) THEN DeleteChildren(p, i, 1) ELSE Undefined
      BY <1>10 DEF erase, Usable, child_count
    <2>2. CASE Undefined
      BY <2>2, SameInv DEF Undefined
    <2>3. CASE i < Len(m_children[p]) /\ DeleteChildren(p, i, 1)
      <3>1. i \in Nat /\ 1 \in Nat /\ i + 1 <= Len(m_children[p])
        BY <1>0, <2>3 DEF Size
      <3>. QED
        BY <2>1, <2>3, <3>1, EraseInv
    <2>. QED
      BY <2>1, <2>2, <2>3
  <1>11. ASSUME NEW p \in Node, NEW i \in Size, NEW c \in Size, erase_count(p, i, c) PROVE Inv'
    BY <1>11, EraseCountInv
  <1>12. CASE UNCHANGED vars
    BY <1>12, SameInv DEF vars
  <1>13. CASE Next
    <2>1. PICK p \in Node :
        \/ Create(p) \/ Destroy(p) \/ pop_back(p) \/ clear(p)
        \/ \E n \in Node : push_back(p, n) \/ emplace_back(p, n)
        \/ \E i \in Size, n \in Node : insert(p, i, n) \/ emplace(p, i, n)
        \/ \E i \in Size, n, m \in Node : n # m /\ insert_range(p, i, <<n, m>>)
        \/ \E i \in Size : erase(p, i)
        \/ \E i, c \in Size : erase_count(p, i, c)
      BY <1>13 DEF Next
    <2>. QED
      BY <1>1, <1>2, <1>3, <1>4, <1>5, <1>6, <1>7, <1>8, <1>9, <1>10, <1>11, <2>1
  <1>. QED
    BY <1>12, <1>13
-----------------------------------------------------------------------------
\* What the invariant says of the trees.

\* The nodes n is below of, and n.
Holders(n) == {p \in live : n \in Subtree(p)}

\* The node a child names is above it, and what is above that is above the child.
LEMMA ParentAbove ==
    ASSUME Inv, NEW n \in live, NEW p \in Holders(n), p \notin held
    PROVE  m_parent[p] \in Holders(n) /\ m_parent[p] # p /\ p \in Kids(m_parent[p])
  <1>1. Typed /\ Owners /\ Owned /\ Once /\ Ranked
    BY DEF Inv
  <1>2. p \in live \ held /\ n \in Subtree(p)
    BY DEF Holders
  <1>3. PICK q \in live : m_parent[p] = q /\ p \in Kids(q)
    BY <1>1, <1>2 DEF Owned
  <1>4. p \in Node /\ q \in Node
    BY <1>1, <1>2 DEF Typed
  <1>5. p \in Subtree(q)
    BY <1>1, <1>3, <1>4, SubtreeIs
  <1>6. Subtree(p) \subseteq Subtree(q)
    <2>1. Subtree(q) \in SUBSET Node /\ \A y \in Subtree(q) : Kids(y) \subseteq Subtree(q)
      BY <1>1, <1>4, SubtreeIs
    <2>. QED
      BY <1>1, <1>4, <1>5, <2>1, SubtreeIs
  <1>7. q # p
    <2>1. PICK rank \in [Node -> Nat] : Rising(rank)
      BY <1>1 DEF Ranked
    <2>2. rank[q] < rank[p] /\ rank[p] \in Nat
      BY <1>3, <1>4, <2>1 DEF Rising
    <2>. QED
      BY <2>2
  <1>. QED
    BY <1>2, <1>3, <1>6, <1>7 DEF Holders

\* The way up ends at a node of the caller, and at one only.
LEMMA HolderExists ==
    ASSUME Inv, NEW n \in live
    PROVE  \E h \in held : held \cap Holders(n) = {h}
  <1>1. Typed /\ Owners /\ Owned /\ Once /\ Ranked
    BY DEF Inv
  <1>2. PICK rank \in [Node -> Nat] : Rising(rank)
    BY <1>1 DEF Ranked
  <1>3. n \in Holders(n) /\ Holders(n) \subseteq Node
    BY <1>1, SubtreeIs DEF Holders, Typed
  <1> DEFINE W == {rank[p] : p \in Holders(n)}
  <1>4. W \in SUBSET Nat /\ W # {}
    BY <1>3
  <1>5. PICK least \in W : \A y \in W : least <= y
    BY <1>4, LeastNumber
  <1>6. PICK h \in Holders(n) : rank[h] = least
    BY <1>5
  <1>7. h \in held
    <2> SUFFICES ASSUME h \notin held PROVE FALSE
      OBVIOUS
    <2>1. m_parent[h] \in Holders(n) /\ h \in Kids(m_parent[h])
      BY <1>6, ParentAbove
    <2>2. /\ rank[m_parent[h]] < rank[h] /\ rank[m_parent[h]] \in Nat /\ rank[h] \in Nat
          /\ rank[h] <= rank[m_parent[h]]
      BY <1>2, <1>3, <1>5, <1>6, <2>1 DEF Rising
    <2>. QED
      BY <2>2
  <1>8. ASSUME NEW g \in held \cap Holders(n) PROVE g = h
    BY <1>1, <1>6, <1>7, <1>8, OneHolder DEF Holders
  <1>. QED
    BY <1>6, <1>7, <1>8

\* The caller's nodes are those that nothing is above.
LEMMA HeldIsTop ==
    ASSUME Inv, NEW n \in live
    PROVE  n \in held <=> Holders(n) = {n}
  <1>1. Typed /\ Owners
    BY DEF Inv
  <1>2. n \in Holders(n)
    BY <1>1, SubtreeIs DEF Holders, Typed
  <1>3. ASSUME n \in held, NEW p \in Holders(n) PROVE p = n
    BY <1>1, <1>3, Below DEF Holders
  <1>4. n \notin held => m_parent[n] \in Holders(n) /\ m_parent[n] # n
    BY <1>2, ParentAbove
  <1>. QED
    BY <1>2, <1>3, <1>4

\* A child is at one place of the vector of the node it names, the one that
\* index_within_parent finds, and in no other vector.
LEMMA IndexIs ==
    ASSUME Inv, NEW n \in live \ held
    PROVE  /\ m_children[m_parent[n]][index_within_parent(n) + 1] = n
           /\ \A p \in live : Cardinality({i \in DOMAIN m_children[p] : m_children[p][i] = n})
                                 = IF p = m_parent[n] THEN 1 ELSE 0
  <1>1. Typed /\ Owners /\ Owned /\ Once /\ Ranked
    BY DEF Inv
  <1>2. PICK q \in live : m_parent[n] = q /\ n \in Kids(q)
    BY <1>1 DEF Owned
  <1>3. q \in Node /\ q # Null
    BY <1>1, NodeAssumption DEF Typed
  <1>4. /\ Len(m_children[q]) \in Nat /\ DOMAIN m_children[q] = 1..Len(m_children[q])
        /\ \E i \in 1..Len(m_children[q]) : m_children[q][i] = n
    BY <1>1, <1>2, <1>3, Vectors
  <1>5. m_children[q][index_within_parent(n) + 1] = n
    <2> DEFINE at == {i \in 1 .. Len(m_children[q]) : m_children[q][i] = n}
    <2>1. at \in SUBSET Nat /\ at # {}
      BY <1>4
    <2>2. \E i \in at : \A j \in at : i <= j
      BY <2>1, LeastNumber
    <2>3. index_within_parent(n) = (CHOOSE i \in at : \A j \in at : i <= j) - 1
      BY <1>2, <1>3, <2>1 DEF index_within_parent, child_count
    <2> DEFINE k == CHOOSE i \in at : \A j \in at : i <= j
    <2>4. k \in at
      BY <2>2
    <2>5. k \in Nat /\ m_children[q][k] = n
      BY <2>4
    <2>6. index_within_parent(n) = k - 1
      BY <2>3
    <2> HIDE DEF k
    <2>7. index_within_parent(n) + 1 = k
      BY <2>5, <2>6
    <2>. QED
      BY <2>5, <2>7
  <1>6. ASSUME NEW p \in live
        PROVE  Cardinality({i \in DOMAIN m_children[p] : m_children[p][i] = n})
                  = IF p = q THEN 1 ELSE 0
    <2> DEFINE places == {i \in DOMAIN m_children[p] : m_children[p][i] = n}
    <2>1. p \in Node /\ Distinct(m_children[p])
      BY <1>1 DEF Typed, Once
    <2>2. CASE p = q
      <3>1. PICK i \in DOMAIN m_children[p] : m_children[p][i] = n
        BY <1>4, <2>2
      <3>2. places = {i}
        BY <2>1, <3>1 DEF Distinct
      <3>. QED
        BY <2>2, <3>2, FS_Singleton
    <2>3. CASE p # q
      <3>1. places = {}
        <4> SUFFICES ASSUME NEW i \in DOMAIN m_children[p], m_children[p][i] = n PROVE FALSE
          OBVIOUS
        <4>1. n \in Kids(p)
          BY DEF Kids, ToSet
        <4>. QED
          BY <1>1, <1>2, <2>1, <2>3, <4>1 DEF Owners
      <3>. QED
        BY <2>3, <3>1, FS_EmptySet
    <2>. QED
      BY <2>2, <2>3
  <1>. QED
    BY <1>2, <1>5, <1>6

\* When the caller's nodes name no parent, tree_depth counts the nodes above.
LEMMA DepthIs ==
    ASSUME Inv, NEW n \in live, \A h \in held : m_parent[h] = Null
    PROVE  tree_depth(n) = Cardinality(Holders(n) \ {n})
  <1>1. Typed /\ Owners /\ Owned /\ Once /\ Ranked
    BY DEF Inv
  <1> DEFINE D == Node \cup {Null}
             up == [m \in D |-> IF m = Null THEN {} ELSE {m_parent[m]}]
             way == Reached(n, up)
  <1>2. WayUp(n) = way
    BY DEF WayUp
  <1>3. DOMAIN up = D /\ n \in D /\ \A y \in D : up[y] = IF y = Null THEN {} ELSE {m_parent[y]}
    BY <1>1 DEF Typed
  <1>4. \A y \in D : up[y] \subseteq D
    BY <1>1, <1>3 DEF Typed
  <1> HIDE DEF up
  <1>5. /\ n \in way /\ way \subseteq D
        /\ \A y \in way : up[y] \subseteq way
        /\ \A S \in SUBSET D : n \in S /\ (\A y \in S : up[y] \subseteq S) => way \subseteq S
    BY ONLY <1>3, <1>4, ReachedIs
  <1> HIDE DEF way
  <1>6. n \in Holders(n) /\ Holders(n) \subseteq live /\ live \subseteq Node
    BY <1>1, SubtreeIs DEF Holders, Typed
  <1>7. Null \notin Node
    BY NodeAssumption
  <1>8. way \subseteq Holders(n) \cup {Null}
    <2> DEFINE S == Holders(n) \cup {Null}
    <2>1. S \in SUBSET D /\ n \in S
      BY <1>6
    <2>2. ASSUME NEW y \in S PROVE up[y] \subseteq S
      <3>1. CASE y = Null
        BY <1>3, <3>1
      <3>2. CASE y \in Holders(n) /\ y \in held
        <4>1. up[y] = {Null}
          BY <1>3, <1>6, <1>7, <3>2
        <4>. QED
          BY <4>1
      <3>3. CASE y \in Holders(n) /\ y \notin held
        <4>1. up[y] = {m_parent[y]} /\ m_parent[y] \in Holders(n)
          BY <1>3, <1>6, <1>7, <3>3, ParentAbove
        <4>. QED
          BY <4>1
      <3>. QED
        BY <3>1, <3>2, <3>3
    <2> HIDE DEF S
    <2>3. way \subseteq S
      BY <1>5, <2>1, <2>2
    <2>. QED
      BY <2>3 DEF S
  <1>9. ASSUME NEW p \in Holders(n) PROVE p \in way
    <2> DEFINE S == {x \in Subtree(p) : x \in way => p \in way}
    <2>1. /\ p \in live /\ p \in Node /\ n \in Subtree(p)
          /\ p \in Subtree(p) /\ Subtree(p) \subseteq Node
          /\ \A y \in Subtree(p) : Kids(y) \subseteq Subtree(p)
      BY <1>1, <1>6, SubtreeIs DEF Holders
    <2>2. S \in SUBSET Node /\ p \in S
      BY <2>1
    <2>3. ASSUME NEW y \in S, NEW c \in Kids(y) PROVE c \in S
      <3>1. y \in Node /\ c \in Subtree(p) /\ c \in Node
        BY <2>1
      <3>2. m_parent[c] = y
        BY <1>1, <3>1 DEF Owners
      <3>3. up[c] = {y}
        BY <1>3, <1>7, <3>1, <3>2
      <3>4. c \in way => y \in way
        BY <1>5, <3>3
      <3>. QED
        BY <3>1, <3>4
    <2>4. Subtree(p) \subseteq S
      <3> HIDE DEF S
      <3>1. \A y \in S : Kids(y) \subseteq S
        BY <2>3
      <3>. QED
        BY <1>1, <2>1, <2>2, <3>1, SubtreeIs
    <2>. QED
      BY <1>5, <2>1, <2>4
  <1>10. Null \in way
    <2>1. PICK h \in held : h \in Holders(n)
      BY HolderExists
    <2>2. h \in way /\ up[h] = {Null}
      BY <1>3, <1>6, <1>7, <1>9, <2>1
    <2>. QED
      BY <1>5, <2>2
  <1>11. way \ {n, Null} = Holders(n) \ {n}
    BY <1>6, <1>7, <1>8, <1>9
  <1>. QED
    BY <1>2, <1>10, <1>11 DEF tree_depth

\* The invariant is enough.
LEMMA InvSound ==
    ASSUME Inv
    PROVE  TreeSound
  <1> SUFFICES ASSUME NEW n \in live
               PROVE  LET above == {p \in live \ {n} : n \in Subtree(p)}
                      IN  /\ Cardinality(held \cap (above \cup {n})) = 1
                          /\ n \in held <=> above = {}
                          /\ n \notin held =>
                                /\ m_parent[n] \in above
                                /\ m_children[m_parent[n]][index_within_parent(n) + 1] = n
                                /\ \A p \in live : Cardinality({i \in DOMAIN m_children[p] :
                                      m_children[p][i] = n}) = (IF p = m_parent[n] THEN 1 ELSE 0)
                          /\ (\A h \in held : m_parent[h] = Null) => tree_depth(n) = Cardinality(above)
    BY DEF TreeSound
  <1> DEFINE above == {p \in live \ {n} : n \in Subtree(p)}
  <1>1. Typed
    BY DEF Inv
  <1>2. n \in Holders(n)
    BY <1>1, SubtreeIs DEF Holders, Typed
  <1>3. above = Holders(n) \ {n} /\ above \cup {n} = Holders(n)
    BY <1>2 DEF Holders
  <1> HIDE DEF above
  <1>4. Cardinality(held \cap (above \cup {n})) = 1
    <2>1. PICK h \in held : held \cap Holders(n) = {h}
      BY HolderExists
    <2>. QED
      BY <1>3, <2>1, FS_Singleton
  <1>5. n \in held <=> above = {}
    BY <1>2, <1>3, HeldIsTop
  <1>6. n \notin held => m_parent[n] \in above
    BY <1>2, <1>3, ParentAbove
  <1>7. n \notin held =>
            /\ m_children[m_parent[n]][index_within_parent(n) + 1] = n
            /\ \A p \in live : Cardinality({i \in DOMAIN m_children[p] : m_children[p][i] = n})
                                  = IF p = m_parent[n] THEN 1 ELSE 0
    BY IndexIs
  <1>8. (\A h \in held : m_parent[h] = Null) => tree_depth(n) = Cardinality(above)
    BY <1>3, DepthIs
  <1>. QED
    BY <1>4, <1>5, <1>6, <1>7, <1>8 DEF above

\* Trees stay trees: the inductive invariant.
THEOREM TreeInvariant == Spec => []Inv
  <1>1. Init => Inv
    BY InitInv
  <1>2. Inv /\ [Next]_vars => Inv'
    BY NextInv
  <1>. QED
    BY <1>1, <1>2, PTL DEF Spec

\* Whatever is inserted, taken out or erased and whichever insertion fails, every node
\* is owned once, by the caller or by the node it names as its parent, at the place
\* index_within_parent finds; and tree_depth counts the nodes above.
THEOREM TreesAreSound == Spec => []TreeSound
  <1>1. Inv => TreeSound
    BY InvSound
  <1>. QED
    BY <1>1, TreeInvariant, PTL

\* A range that begins in the vector and leaves it is the range up to its end.
LEMMA EraseToEnd ==
    ASSUME NEW T, NEW s \in Seq(T), NEW index \in Nat, NEW count \in Nat,
           index < Len(s), index + count > Len(s)
    PROVE  EraseRange(s, index, Len(s) - index) = EraseRange(s, index, count)
  <1>1. Len(s) \in Nat
    OBVIOUS
  <1>2. SubSeq(s, index + (Len(s) - index) + 1, Len(s)) = <<>>
    <2>1. /\ index + (Len(s) - index) + 1 \in Int /\ Len(s) \in Int
          /\ Len(s) < index + (Len(s) - index) + 1
      BY <1>1
    <2>. QED
      BY <2>1, SubSeqEmpty
  <1>3. SubSeq(s, index + count + 1, Len(s)) = <<>>
    <2>1. /\ index + count + 1 \in Int /\ Len(s) \in Int
          /\ Len(s) < index + count + 1
      BY <1>1
    <2>. QED
      BY <2>1, SubSeqEmpty
  <1>. QED
    BY <1>2, <1>3 DEF EraseRange

\* erase(index, count) erases what is there of the range, whenever index + count is a
\* size_t.
LEMMA EraseCuts ==
    ASSUME Inv, NEW p \in Node, NEW i \in Size, NEW c \in Size,
           erase_count(p, i, c), i + c <= SizeMax
    PROVE  m_children'[p] = EraseRange(m_children[p], i, c)
  <1> DEFINE n == Truncated(p, i, c)
             m == Len(m_children[p])
  <1>1. p \in live /\ i < m /\ m \in Nat /\ m_children[p] \in Seq(Node)
    BY Vectors DEF erase_count, Usable, child_count, Inv
  <1>2. IF i + n <= m THEN DeleteChildren(p, i, n) ELSE Undefined
    BY DEF erase_count, child_count
  <1>3. i \in Nat /\ c \in Nat
    BY NodeAssumption DEF Size
  <1>4. n = IF i + c > m THEN m - i ELSE c
    BY <1>1, TruncatedIs DEF child_count
  <1> HIDE DEF n, m
  <1>5. n \in Nat /\ i + n <= m
    BY <1>1, <1>3, <1>4
  <1>6. m_children'[p] = EraseRange(m_children[p], i, n)
    <2>1. DeleteChildren(p, i, n) /\ i + n <= Len(m_children[p])
      BY <1>2, <1>5 DEF m
    <2>. QED
      BY <1>1, <1>3, <1>5, <2>1, ErasedIs
  <1>7. EraseRange(m_children[p], i, n) = EraseRange(m_children[p], i, c)
    <2>1. CASE i + c > m
      BY <1>1, <1>3, <1>4, <2>1, EraseToEnd DEF m
    <2>2. CASE ~ i + c > m
      BY <1>4, <2>2
    <2>. QED
      BY <2>1, <2>2
  <1>. QED
    BY <1>6, <1>7

\* What the comment above erase(index, count) says, for every tree, index and count
\* whose sum is a size_t.
THEOREM ErasureIsTruncated == Spec => EraseTruncates
  <1> DEFINE A == \A p \in Node, i, c \in Size :
                      erase_count(p, i, c) /\ i + c <= SizeMax
                      => m_children'[p] = EraseRange(m_children[p], i, c)
  <1>1. Inv => A
    BY EraseCuts
  <1>2. Inv /\ [Next]_vars => [A]_vars
    BY <1>1
  <1> HIDE DEF A
  <1>3. Spec => [][A]_vars
    BY <1>2, TreeInvariant, PTL DEF Spec
  <1>. QED
    BY <1>3 DEF A, EraseTruncates
=============================================================================
