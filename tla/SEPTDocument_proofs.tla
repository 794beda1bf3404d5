------------------------ MODULE SEPTDocument_proofs ------------------------
(***************************************************************************)
(* SEPTDocument keeps its types, its items verified and the row counts it  *)
(* announces true, for any document and any number of items; it implements *)
(* NestedArrays.  First the tree of items, whatever arrays are nested in   *)
(* the document and wherever its elements are stored: every item points at *)
(* the element it stands for, and the items are those the document has.    *)
(* Then what the removals of one selection, one after the other, do to it. *)
(***************************************************************************)
EXTENDS SEPTDocument, SequenceTheorems, FiniteSetTheorems, WellFoundedInduction, TLAPS

(* Sequences ------------------------------------------------------------- *)

\* What std::vector::insert leaves behind: the elements before the place stay, the
\* ones from it on move by one.
LEMMA Inserting ==
    ASSUME NEW S, NEW s \in Seq(S), NEW k \in 1..(Len(s) + 1), NEW e \in S
    PROVE  /\ InsertAt(s, k, e) \in Seq(S)
           /\ Len(InsertAt(s, k, e)) = Len(s) + 1
           /\ \A j \in 1..(Len(s) + 1) : InsertAt(s, k, e)[j] =
                 IF j < k THEN s[j] ELSE IF j = k THEN e ELSE s[j - 1]
  <1> DEFINE front == SubSeq(s, 1, k - 1)
             back  == SubSeq(s, k, Len(s))
             most  == front \o <<e>>
  <1>1. Len(s) \in Nat /\ \A j \in 1..Len(s) : s[j] \in S
    BY LenProperties, ElementOfSeq
  <1>2. /\ front \in Seq(S) /\ Len(front) = k - 1
        /\ \A j \in 1..(k - 1) : front[j] = s[j]
    BY <1>1, SubSeqProperties, Z3
  <1>3. /\ back \in Seq(S) /\ Len(back) = Len(s) - k + 1
        /\ \A j \in 1..(Len(s) - k + 1) : back[j] = s[k + j - 1]
    BY <1>1, SubSeqProperties, Z3
  <1>4. <<e>> \in Seq(S) /\ Len(<<e>>) = 1 /\ <<e>>[1] = e
    OBVIOUS
  <1> HIDE DEF front, back
  <1>5. /\ most \in Seq(S) /\ Len(most) = k
        /\ \A j \in 1..k : most[j] = IF j < k THEN s[j] ELSE e
    <2>1. /\ most \in Seq(S) /\ Len(most) = Len(front) + Len(<<e>>)
          /\ \A j \in 1..(Len(front) + Len(<<e>>)) :
                 most[j] = IF j <= Len(front) THEN front[j] ELSE <<e>>[j - Len(front)]
      BY <1>2, <1>4, ConcatProperties
    <2>2. QED
      BY SMTT(60), <1>1, <1>2, <1>4, <2>1
  <1> HIDE DEF most
  <1>6. /\ most \o back \in Seq(S) /\ Len(most \o back) = Len(most) + Len(back)
        /\ \A j \in 1..(Len(most) + Len(back)) :
               (most \o back)[j] = IF j <= Len(most) THEN most[j] ELSE back[j - Len(most)]
    BY <1>3, <1>5, ConcatProperties
  <1>7. InsertAt(s, k, e) = most \o back
    BY DEF InsertAt, front, back, most
  <1> DEFINE t == InsertAt(s, k, e)
  <1>8. /\ t \in Seq(S) /\ Len(t) = Len(s) + 1
        /\ \A j \in 1..(Len(s) + 1) : t[j] = IF j <= k THEN most[j] ELSE back[j - k]
    BY <1>1, <1>3, <1>5, <1>6, <1>7
  <1> HIDE DEF t
  <1>9. ASSUME NEW j \in 1..(Len(s) + 1)
        PROVE  t[j] = IF j < k THEN s[j] ELSE IF j = k THEN e ELSE s[j - 1]
    <2>1. CASE j <= k
      BY <1>1, <1>5, <1>8, <2>1
    <2>2. CASE j > k
      <3>1. j - k \in 1..(Len(s) - k + 1) /\ k + (j - k) - 1 = j - 1
        BY <1>1, <2>2
      <3>2. t[j] = back[j - k]
        BY <1>1, <1>8, <2>2
      <3>3. back[j - k] = s[j - 1]
        BY <1>3, <3>1
      <3>4. QED
        BY <1>1, <2>2, <3>2, <3>3
    <2>3. QED
      BY <1>1, <2>1, <2>2
  <1>10. QED
    BY <1>8, <1>9 DEF t

\* An element is at one place still when one that was nowhere is inserted.
LEMMA InsertingOnce ==
    ASSUME NEW S, NEW s \in Seq(S), NEW k \in 1..(Len(s) + 1), NEW e \in S,
           \A i, j \in 1..Len(s) : s[i] = s[j] => i = j,
           \A i \in 1..Len(s) : s[i] # e,
           NEW i \in 1..(Len(s) + 1), NEW j \in 1..(Len(s) + 1),
           InsertAt(s, k, e)[i] = InsertAt(s, k, e)[j]
    PROVE  i = j
  <1> DEFINE t == InsertAt(s, k, e)
             n == Len(s)
  <1>1. n \in Nat /\ k \in 1..(n + 1) /\ i \in 1..(n + 1) /\ j \in 1..(n + 1)
    BY LenProperties
  <1>2. \A l \in 1..(n + 1) : t[l] = IF l < k THEN s[l] ELSE IF l = k THEN e ELSE s[l - 1]
    BY Inserting
  <1>3. t[i] = t[j]
    OBVIOUS
  <1> HIDE DEF t, n
  <1>4. ASSUME NEW l \in 1..(n + 1)
        PROVE  /\ l < k => l \in 1..n /\ t[l] = s[l]
               /\ l = k => t[l] = e
               /\ l > k => l - 1 \in 1..n /\ t[l] = s[l - 1]
    BY <1>1, <1>2
  <1>5. \A l \in 1..n : s[l] # e
    BY DEF n
  <1>6. \A l, m \in 1..n : s[l] = s[m] => l = m
    BY DEF n
  <1>7. CASE i < k
    <2>1. i \in 1..n /\ t[i] = s[i]
      BY <1>1, <1>4, <1>7
    <2>2. ~ (j = k)
      BY <1>1, <1>3, <1>4, <1>5, <2>1
    <2>3. ~ (j > k)
      <3>1. SUFFICES ASSUME j > k PROVE FALSE
        OBVIOUS
      <3>2. j - 1 \in 1..n /\ t[j] = s[j - 1]
        BY <1>1, <1>4, <3>1
      <3>3. i = j - 1
        BY <1>3, <1>6, <2>1, <3>2
      <3>4. QED
        BY <1>1, <1>7, <3>1, <3>3
    <2>4. j \in 1..n /\ t[j] = s[j]
      BY <1>1, <1>4, <2>2, <2>3
    <2>5. QED
      BY <1>3, <1>6, <2>1, <2>4
  <1>8. CASE i = k
    <2>1. t[i] = e
      BY <1>1, <1>4, <1>8
    <2>2. ~ (j < k) /\ ~ (j > k)
      BY <1>1, <1>3, <1>4, <1>5, <2>1
    <2>3. QED
      BY <1>1, <1>8, <2>2
  <1>9. CASE i > k
    <2>1. i - 1 \in 1..n /\ t[i] = s[i - 1]
      BY <1>1, <1>4, <1>9
    <2>2. ~ (j = k)
      BY <1>1, <1>3, <1>4, <1>5, <2>1
    <2>3. ~ (j < k)
      <3>1. SUFFICES ASSUME j < k PROVE FALSE
        OBVIOUS
      <3>2. j \in 1..n /\ t[j] = s[j]
        BY <1>1, <1>4, <3>1
      <3>3. j = i - 1
        BY <1>3, <1>6, <2>1, <3>2
      <3>4. QED
        BY <1>1, <1>9, <3>1, <3>3
    <2>4. j - 1 \in 1..n /\ t[j] = s[j - 1]
      BY <1>1, <1>4, <2>2, <2>3
    <2>5. i - 1 = j - 1
      BY <1>3, <1>6, <2>1, <2>4
    <2>6. QED
      BY <1>1, <2>5
  <1>10. QED
    BY <1>1, <1>7, <1>8, <1>9

\* What std::vector::erase leaves behind.
LEMMA Removing ==
    ASSUME NEW S, NEW s \in Seq(S), NEW k \in 1..Len(s)
    PROVE  /\ RemoveAt(s, k) \in Seq(S)
           /\ Len(RemoveAt(s, k)) = Len(s) - 1
           /\ \A j \in 1..(Len(s) - 1) : RemoveAt(s, k)[j] =
                 IF j < k THEN s[j] ELSE s[j + 1]
  <1> DEFINE front == SubSeq(s, 1, k - 1)
             back  == SubSeq(s, k + 1, Len(s))
             t     == RemoveAt(s, k)
  <1>1. Len(s) \in Nat /\ \A j \in 1..Len(s) : s[j] \in S
    BY LenProperties, ElementOfSeq
  <1>2. /\ front \in Seq(S) /\ Len(front) = k - 1
        /\ \A j \in 1..(k - 1) : front[j] = s[j]
    BY <1>1, SubSeqProperties, Z3
  <1>3. /\ back \in Seq(S) /\ Len(back) = Len(s) - k
        /\ \A j \in 1..(Len(s) - k) : back[j] = s[k + j]
    BY <1>1, SubSeqProperties, Z3
  <1>4. t = front \o back
    BY DEF RemoveAt
  <1> HIDE DEF front, back, t
  <1>5. /\ t \in Seq(S) /\ Len(t) = Len(front) + Len(back)
        /\ \A j \in 1..(Len(front) + Len(back)) :
               t[j] = IF j <= Len(front) THEN front[j] ELSE back[j - Len(front)]
    BY <1>2, <1>3, <1>4, ConcatProperties
  <1>6. /\ Len(t) = Len(s) - 1
        /\ \A j \in 1..(Len(s) - 1) : t[j] = IF j <= k - 1 THEN front[j] ELSE back[j - (k - 1)]
    <2>1. Len(front) = k - 1 /\ Len(front) + Len(back) = Len(s) - 1
      BY <1>1, <1>2, <1>3
    <2>2. QED
      BY <1>5, <2>1, Zenon
  <1>7. ASSUME NEW j \in 1..(Len(s) - 1)
        PROVE  t[j] = IF j < k THEN s[j] ELSE s[j + 1]
    <2>1. CASE j < k
      BY <1>1, <1>2, <1>6, <2>1
    <2>2. CASE j >= k
      <3>1. j - (k - 1) \in 1..(Len(s) - k) /\ k + (j - (k - 1)) = j + 1
        BY <1>1, <2>2
      <3>2. t[j] = back[j - (k - 1)]
        BY <1>1, <1>6, <2>2
      <3>3. back[j - (k - 1)] = s[j + 1]
        BY <1>3, <3>1
      <3>4. QED
        BY <1>1, <2>2, <3>2, <3>3
    <2>3. QED
      BY <1>1, <2>1, <2>2
  <1>8. QED
    BY <1>5, <1>6, <1>7 DEF t

(* What is reached ------------------------------------------------------- *)

\* The items below an item, the arrays nested in an array: what is reached holds the
\* start, next does not lead out of it, and it is in every such set.
LEMMA ReachedIs ==
    ASSUME NEW next, NEW x \in DOMAIN next,
           \A y \in DOMAIN next : next[y] \subseteq DOMAIN next
    PROVE  /\ Reached(x, next) \subseteq DOMAIN next
           /\ x \in Reached(x, next)
           /\ \A y \in Reached(x, next) : next[y] \subseteq Reached(x, next)
           /\ \A S : x \in S /\ (\A y \in S \cap DOMAIN next : next[y] \subseteq S)
                        => Reached(x, next) \subseteq S
  <1>1. Reached(x, next) \subseteq DOMAIN next /\ x \in Reached(x, next)
    BY DEF Reached
  <1>2. ASSUME NEW y \in Reached(x, next), NEW z \in next[y]
        PROVE  z \in Reached(x, next)
    BY <1>1, <1>2 DEF Reached
  <1>3. ASSUME NEW S, x \in S, \A y \in S \cap DOMAIN next : next[y] \subseteq S
        PROVE  Reached(x, next) \subseteq S
    <2> DEFINE T == S \cap DOMAIN next
    <2>1. T \in SUBSET DOMAIN next /\ x \in T /\ \A y \in T : next[y] \subseteq T
      BY <1>3
    <2>2. Reached(x, next) \subseteq T
      <3> HIDE DEF T
      <3> QED
        BY <2>1 DEF Reached
    <2>3. QED
      BY <2>2
  <1>4. QED
    BY <1>1, <1>2, <1>3

\* What is reached beyond the start is reached by one step from something reached.
LEMMA ReachedFrom ==
    ASSUME NEW next, NEW x \in DOMAIN next,
           \A y \in DOMAIN next : next[y] \subseteq DOMAIN next,
           NEW z \in Reached(x, next), z # x
    PROVE  \E y \in Reached(x, next) : z \in next[y]
  <1> DEFINE S == {x} \cup {w \in Reached(x, next) : \E y \in Reached(x, next) : w \in next[y]}
  <1>1. x \in S /\ \A y \in S \cap DOMAIN next : next[y] \subseteq S
    BY ReachedIs
  <1>2. Reached(x, next) \subseteq S
    <2> HIDE DEF S
    <2> QED
      BY <1>1, ReachedIs
  <1>3. QED
    BY <1>2

\* What is reached from something reached is reached.
LEMMA ReachedOn ==
    ASSUME NEW next, NEW x \in DOMAIN next,
           \A y \in DOMAIN next : next[y] \subseteq DOMAIN next,
           NEW y \in Reached(x, next)
    PROVE  Reached(y, next) \subseteq Reached(x, next)
  <1>1. y \in DOMAIN next /\ \A w \in Reached(x, next) : next[w] \subseteq Reached(x, next)
    BY ReachedIs
  <1>2. QED
    BY <1>1, ReachedIs

(* The tree of items ----------------------------------------------------- *)

\* The element item i stands for.
At(i) == Deref(ptr[i])

\* The part of TypeOK about the document and its items.
Made ==
    /\ elems \in [Array -> Seq(Cell)]
    /\ buffer \in [Array -> Buffer]
    /\ capacity \in [Array -> 0..MaxSize]
    /\ live \subseteq Item
    /\ ptr \in [Item -> Ptr]
    /\ children \in [Item -> Seq(Item)]

\* Item i points at an element, and has for each element of its array a child that
\* points at it.
Shadowing(i) ==
    /\ Valid(ptr[i])
    /\ At(i) \in Array =>
        /\ Len(children[i]) = Len(elems[At(i)])
        /\ \A k \in 1..Len(children[i]) :
               ptr[children[i][k]] = SlotPtr(At(i), buffer[At(i)], k - 1)
    /\ At(i) \notin Array => children[i] = <<>>

\* The arrays are owned once: no two items stand for one array, and an array that
\* has elements is the one of an item.
OwnedOnce ==
    /\ \A i, j \in live : At(i) \in Array /\ At(i) = At(j) => i = j
    /\ \A a \in Array : elems[a] # <<>> => \E i \in live : At(i) = a

Tree ==
    /\ Made
    /\ root \in live /\ ptr[root] = RootPtr
    /\ \A i \in live : Shadowing(i) /\ ToSet(children[i]) \subseteq live
    /\ live = Subtree(root)
    /\ OwnedOnce
    /\ \A i \in Item \ live : children[i] = <<>>
    /\ \A a \in Array : Len(elems[a]) <= MaxSize

\* No element is where m_root_data is.
LEMMA SlotIsNotRoot ==
    ASSUME Made, NEW a \in Array, NEW k
    PROVE  /\ SlotPtr(a, buffer[a], k) # RootPtr
           /\ Deref(SlotPtr(a, buffer[a], k)) = elems[a][k + 1]
  <1>1. SlotPtr(a, buffer[a], k).buffer # RootPtr.buffer
    BY DocumentAssumption DEF Made, SlotPtr, RootPtr, Null
  <1>2. SlotPtr(a, buffer[a], k) # RootPtr
    BY <1>1
  <1>3. QED
    BY <1>2 DEF Deref, SlotPtr

\* What the invariant says of one item.
LEMMA ItemIs ==
    ASSUME Tree, NEW i \in live
    PROVE  /\ i \in Item /\ children[i] \in Seq(live) /\ Len(children[i]) \in Nat
           /\ At(i) \in Array => Len(children[i]) = Len(elems[At(i)])
           /\ At(i) \notin Array => children[i] = <<>>
  <1>1. i \in Item /\ children[i] \in Seq(Item)
    BY DEF Tree, Made
  <1>2. \A k \in 1..Len(children[i]) : children[i][k] \in live
    BY <1>1, LenProperties DEF Tree, ToSet
  <1>3. children[i] \in Seq(live) /\ Len(children[i]) \in Nat
    BY <1>1, <1>2, LenProperties
  <1>4. QED
    BY <1>1, <1>3 DEF Tree, Shadowing

\* What the invariant says of one child: it points at its element.
LEMMA ChildIs ==
    ASSUME Tree, NEW i \in live, NEW k \in 1..Len(children[i])
    PROVE  /\ At(i) \in Array
           /\ children[i][k] \in live
           /\ ptr[children[i][k]] = SlotPtr(At(i), buffer[At(i)], k - 1)
           /\ At(children[i][k]) = elems[At(i)][k]
           /\ children[i][k] # root
  <1>1. children[i] \in Seq(live) /\ Len(children[i]) \in Nat
    BY ItemIs
  <1>2. children[i][k] \in live
    BY <1>1, ElementOfSeq
  <1>3. At(i) \in Array
    <2>1. children[i] # <<>>
      BY <1>1, EmptySeq
    <2>2. QED
      BY <2>1 DEF Tree, Shadowing
  <1>4. ptr[children[i][k]] = SlotPtr(At(i), buffer[At(i)], k - 1)
    BY <1>3 DEF Tree, Shadowing
  <1>5. Deref(SlotPtr(At(i), buffer[At(i)], k - 1)) = elems[At(i)][(k - 1) + 1]
    BY <1>3, SlotIsNotRoot DEF Tree
  <1>6. At(children[i][k]) = elems[At(i)][k]
    <2>1. (k - 1) + 1 = k
      BY <1>1
    <2>2. At(children[i][k]) = Deref(SlotPtr(At(i), buffer[At(i)], k - 1))
      BY <1>4 DEF At
    <2>3. QED
      BY <1>5, <2>1, <2>2
  <1>7. children[i][k] # root
    BY <1>3, <1>4, SlotIsNotRoot DEF Tree
  <1>8. QED
    BY <1>2, <1>3, <1>4, <1>6, <1>7

\* An item is a child of one item only, in one row.
LEMMA OneParent ==
    ASSUME Tree, NEW i \in live, NEW j \in live,
           NEW k \in 1..Len(children[i]), NEW l \in 1..Len(children[j]),
           children[i][k] = children[j][l]
    PROVE  i = j /\ k = l
  <1>1. /\ At(i) \in Array
        /\ ptr[children[i][k]] = SlotPtr(At(i), buffer[At(i)], k - 1)
        /\ ptr[children[j][l]] = SlotPtr(At(j), buffer[At(j)], l - 1)
    BY ChildIs
  <1>2. At(i) = At(j) /\ k - 1 = l - 1
    BY <1>1 DEF SlotPtr
  <1>3. QED
    <2>1. i = j
      BY <1>1, <1>2 DEF Tree, OwnedOnce
    <2>2. Len(children[i]) \in Nat
      BY ItemIs
    <2>3. QED
      BY <1>2, <2>1, <2>2

\* SEPTItem::parent and index_within_parent of a child.
LEMMA ParentIs ==
    ASSUME Tree, NEW p \in live, NEW k \in 1..Len(children[p])
    PROVE  Parent(children[p][k]) = p /\ Row(children[p][k]) = k - 1
  <1> DEFINE c == children[p][k]
  <1>1. p \in live /\ Contains(children[p], c)
    BY DEF Contains
  <1>2. \A q \in live : Contains(children[q], c) => q = p
    BY OneParent DEF Contains
  <1>3. Parent(c) = p
    <2> HIDE DEF c
    <2> QED
      BY <1>1, <1>2 DEF Parent
  <1>4. \A l \in 1..Len(children[p]) : children[p][l] = c => l = k
    BY OneParent
  <1>5. c # root
    BY ChildIs
  <1>6. (CHOOSE l \in 1..Len(children[p]) : children[p][l] = c) = k
    <2>1. children[p][k] = c
      OBVIOUS
    <2> HIDE DEF c
    <2> QED
      BY <1>4, <2>1
  <1>7. Row(c) = k - 1
    <2> HIDE DEF c
    <2> QED
      BY <1>3, <1>5, <1>6 DEF Row
  <1>8. QED
    BY <1>3, <1>7

\* The items reached from an item: they are live, the children of an item reached
\* are, they are in every set like that; and but for the start they are the children
\* of one reached.
LEMMA SubtreeIs ==
    ASSUME Tree, NEW i \in live
    PROVE  /\ Subtree(i) \subseteq live /\ i \in Subtree(i)
           /\ \A j \in Subtree(i) : ToSet(children[j]) \subseteq Subtree(i)
           /\ \A S : i \in S /\ (\A j \in S \cap live : ToSet(children[j]) \subseteq S)
                        => Subtree(i) \subseteq S
           /\ \A j \in Subtree(i) : j # i =>
                 \E q \in Subtree(i) : \E k \in 1..Len(children[q]) : children[q][k] = j
           /\ \A j \in Subtree(i) : Subtree(j) \subseteq Subtree(i)
  <1> DEFINE down == [j \in live |-> ToSet(children[j])]
  <1>1. Subtree(i) = Reached(i, down) /\ \A j : Subtree(j) = Reached(j, down)
    BY DEF Subtree
  <1>2. /\ DOMAIN down = live /\ \A j \in live : down[j] = ToSet(children[j])
        /\ \A j \in DOMAIN down : down[j] \subseteq DOMAIN down
    BY DEF Tree
  <1> HIDE DEF down
  <1>3. /\ Reached(i, down) \subseteq live
        /\ i \in Reached(i, down)
        /\ \A y \in Reached(i, down) : down[y] \subseteq Reached(i, down)
        /\ \A S : i \in S /\ (\A y \in S \cap live : down[y] \subseteq S)
                        => Reached(i, down) \subseteq S
    BY <1>2, ReachedIs
  <1>4. ASSUME NEW j \in Subtree(i), j # i
        PROVE  \E q \in Subtree(i) : \E k \in 1..Len(children[q]) : children[q][k] = j
    <2>1. PICK q \in Reached(i, down) : j \in down[q]
      BY <1>1, <1>2, <1>4, ReachedFrom
    <2>2. q \in live /\ j \in ToSet(children[q])
      BY <1>2, <1>3, <2>1
    <2>3. DOMAIN children[q] = 1..Len(children[q])
      BY <2>2, ItemIs, LenProperties
    <2>4. QED
      BY <1>1, <2>2, <2>3 DEF ToSet
  <1>5. \A j \in Subtree(i) : Subtree(j) \subseteq Subtree(i)
    BY <1>1, <1>2, ReachedOn
  <1>6. QED
    BY <1>1, <1>2, <1>3, <1>4, <1>5

\* Every item but the visible root is a child of one that lives.
LEMMA HasParent ==
    ASSUME Tree, NEW i \in live, i # root
    PROVE  /\ Parent(i) \in live /\ At(Parent(i)) \in Array
           /\ Row(i) \in 0..(Len(children[Parent(i)]) - 1)
           /\ children[Parent(i)][Row(i) + 1] = i
  <1>1. root \in live /\ i \in Subtree(root) /\ Subtree(root) \subseteq live
    BY DEF Tree
  <1>2. PICK q \in Subtree(root) : \E k \in 1..Len(children[q]) : children[q][k] = i
    BY <1>1, SubtreeIs
  <1>3. PICK k \in 1..Len(children[q]) : children[q][k] = i
    BY <1>2
  <1>4. Parent(i) = q /\ Row(i) = k - 1 /\ At(q) \in Array /\ Len(children[q]) \in Nat
    BY <1>1, <1>3, ParentIs, ChildIs, ItemIs
  <1>5. QED
    BY <1>1, <1>3, <1>4

\* An item is not below its own child: TreeNode_t's tree has no cycles.
LEMMA Acyclic ==
    ASSUME Tree, NEW p \in live, NEW k \in 1..Len(children[p])
    PROVE  p \notin Subtree(children[p][k])
  <1> DEFINE c == children[p][k]
             S == live \ Subtree(c)
  <1>1. c \in live /\ c # root
    BY ChildIs
  <1>2. SUFFICES ASSUME p \in Subtree(c) PROVE FALSE
    OBVIOUS
  <1>3. root \in S
    <2>1. root \in live
      BY DEF Tree
    <2>2. ASSUME root \in Subtree(c) PROVE FALSE
      <3>1. PICK q \in Subtree(c) : \E l \in 1..Len(children[q]) : children[q][l] = root
        BY <1>1, <2>2, SubtreeIs
      <3>2. q \in live
        BY <1>1, SubtreeIs
      <3>3. QED
        BY <3>1, <3>2, ChildIs
    <2>3. QED
      BY <2>1, <2>2
  <1>4. ASSUME NEW y \in S, NEW z \in ToSet(children[y]) PROVE z \in S
    <2>1. y \in live /\ y \notin Subtree(c)
      OBVIOUS
    <2>2. PICK l \in 1..Len(children[y]) : children[y][l] = z
      BY <2>1, ItemIs, LenProperties DEF ToSet
    <2>3. z \in live
      BY <2>1, <2>2, ChildIs
    <2>4. ASSUME z \in Subtree(c) PROVE FALSE
      <3>1. CASE z = c
        <4>1. y = p
          BY <2>1, <2>2, <3>1, OneParent
        <4>2. QED
          BY <1>2, <2>1, <4>1
      <3>2. CASE z # c
        <4>1. PICK q \in Subtree(c) : \E m \in 1..Len(children[q]) : children[q][m] = z
          BY <1>1, <2>4, <3>2, SubtreeIs
        <4>2. q \in live
          BY <1>1, SubtreeIs
        <4>3. q = y
          BY <2>1, <2>2, <4>1, <4>2, OneParent
        <4>4. QED
          BY <2>1, <4>3
      <3>3. QED
        BY <3>1, <3>2
    <2>5. QED
      BY <2>3, <2>4
  <1>5. Subtree(root) \subseteq S
    <2>1. root \in live
      BY DEF Tree
    <2> HIDE DEF S
    <2> QED
      BY <1>3, <1>4, <2>1, SubtreeIs
  <1>6. c \in Subtree(c) /\ c \in Subtree(root)
    BY <1>1, SubtreeIs DEF Tree
  <1>7. QED
    BY <1>5, <1>6

(* Inserting an element -------------------------------------------------- *)

\* insert_children on item p of array a, whose elements are all updated from row low on:
\* the children have one more, and each points at its row, wherever the vector is now.
\* The items that are not children of p keep their pointers.
LEMMA InsertedPtr ==
    ASSUME Tree, NEW p \in live, NEW a, a = At(p), a \in Array,
           NEW position \in 0..Len(children[p]),
           NEW new \in Item \ live, InsertChildren(p, position, new)
    PROVE  /\ children' \in [Item -> Seq(Item)]
           /\ Len(children'[p]) = Len(children[p]) + 1
           /\ \A k \in 1..(Len(children[p]) + 1) : children'[p][k] =
                 IF k < position + 1 THEN children[p][k]
                 ELSE IF k = position + 1 THEN new ELSE children[p][k - 1]
           /\ \A k \in 1..(Len(children[p]) + 1) :
                 ptr'[children'[p][k]] = SlotPtr(a, buffer'[a], k - 1)
           /\ \A i \in Item : i # new /\ i \notin ToSet(children[p]) => ptr'[i] = ptr[i]
  <1> DEFINE n    == Len(children[p])
             low  == IF Len(elems[a]) + 1 > capacity[a] THEN 0 ELSE position
             rows == low..n
  <1>1. n \in Nat /\ n = Len(elems[a]) /\ children[p] \in Seq(live) /\ p \in Item
    BY ItemIs
  <1>2. /\ ptr' = UpdatedPtr(p, a, rows)
        /\ children' = [children EXCEPT ![p] = InsertAt(@, position + 1, new)]
        /\ low = 0 \/ (low = position /\ buffer' = buffer)
    BY <1>1 DEF InsertChildren, InvalidatedRows, GrowVector, At
  <1>3. children[p] \in Seq(Item) /\ live \subseteq Item /\ children \in [Item -> Seq(Item)]
    BY DEF Tree, Made
  <1>4. /\ InsertAt(children[p], position + 1, new) \in Seq(Item)
        /\ Len(InsertAt(children[p], position + 1, new)) = n + 1
        /\ \A k \in 1..(n + 1) : InsertAt(children[p], position + 1, new)[k] =
              IF k < position + 1 THEN children[p][k]
              ELSE IF k = position + 1 THEN new ELSE children[p][k - 1]
    <2> DEFINE s  == children[p]
               at == position + 1
    <2>1. at \in 1..(Len(s) + 1) /\ s \in Seq(Item) /\ new \in Item
      BY <1>1, <1>3
    <2>2. /\ InsertAt(s, at, new) \in Seq(Item)
          /\ Len(InsertAt(s, at, new)) = Len(s) + 1
          /\ \A k \in 1..(Len(s) + 1) : InsertAt(s, at, new)[k] =
                IF k < at THEN s[k] ELSE IF k = at THEN new ELSE s[k - 1]
      <3> HIDE DEF s, n, at
      <3> QED
        BY ONLY <2>1, Inserting
    <2>3. QED
      BY <2>2
  <1>5. children' \in [Item -> Seq(Item)] /\ children'[p] = InsertAt(children[p], position + 1, new)
    BY <1>1, <1>2, <1>3, <1>4
  <1>6. /\ Len(children'[p]) = n + 1
        /\ \A k \in 1..(n + 1) : children'[p][k] =
              IF k < position + 1 THEN children[p][k]
              ELSE IF k = position + 1 THEN new ELSE children[p][k - 1]
    BY <1>4, <1>5
  <1>7. /\ \A k \in 1..n : children[p][k] \in live /\ children[p][k] # new
                           /\ ptr[children[p][k]] = SlotPtr(a, buffer[a], k - 1)
        /\ \A k, l \in 1..n : children[p][k] = children[p][l] => k = l
    BY ChildIs, OneParent
  <1>8. ASSUME NEW k \in 1..(n + 1), NEW l \in 1..(n + 1), children'[p][k] = children'[p][l]
        PROVE  k = l
    <2>1. position + 1 \in 1..(Len(children[p]) + 1) /\ new \in Item
      BY <1>1
    <2> DEFINE s == children[p]
    <2>2. /\ s \in Seq(Item) /\ position + 1 \in 1..(Len(s) + 1)
          /\ k \in 1..(Len(s) + 1) /\ l \in 1..(Len(s) + 1)
          /\ \A i, j \in 1..Len(s) : s[i] = s[j] => i = j
          /\ \A i \in 1..Len(s) : s[i] # new
          /\ InsertAt(s, position + 1, new)[k] = InsertAt(s, position + 1, new)[l]
      BY <1>3, <1>5, <1>7, <1>8, <2>1
    <2> HIDE DEF s, n
    <2>3. QED
      BY <2>1, <2>2, InsertingOnce
  <1>9. low \in Nat /\ low <= position
    BY <1>1
  <1> HIDE DEF n, low
  <1>10. ASSUME NEW k \in 1..(n + 1)
         PROVE  ptr'[children'[p][k]] = SlotPtr(a, buffer'[a], k - 1)
    <2> DEFINE c == children'[p][k]
    <2>1. c \in Item
      BY <1>1, <1>5, <1>6, ElementOfSeq
    <2>2. ptr'[c] = IF \E r \in rows : children'[p][r + 1] = c
                    THEN SlotPtr(a, buffer'[a], CHOOSE r \in rows : children'[p][r + 1] = c)
                    ELSE ptr[c]
      BY <1>2, <2>1 DEF UpdatedPtr
    <2>3. \A r \in rows : r \in 0..n /\ r + 1 \in 1..(n + 1)
      BY <1>1, <1>9
    <2>4. \A r \in rows : children'[p][r + 1] = c => r = k - 1
      <3>1. ASSUME NEW r \in rows, children'[p][r + 1] = c PROVE r = k - 1
        <4>1. r + 1 \in 1..(n + 1) /\ r \in 0..n
          BY <2>3
        <4>2. r + 1 = k
          BY <1>8, <3>1, <4>1
        <4>3. QED
          BY <1>1, <4>1, <4>2
      <3>2. QED
        BY <3>1
    <2>5. CASE k - 1 \in rows
      <3>1. children'[p][(k - 1) + 1] = c
        <4>1. (k - 1) + 1 = k
          BY <1>1
        <4>2. QED
          BY <4>1
      <3>2. (CHOOSE r \in rows : children'[p][r + 1] = c) = k - 1
        <4> HIDE DEF c, rows
        <4> QED
          BY <2>4, <2>5, <3>1
      <3>3. QED
        <4> HIDE DEF c, rows
        <4>1. ptr'[c] = SlotPtr(a, buffer'[a], k - 1)
          BY <2>2, <2>5, <3>1, <3>2
        <4>2. QED
          BY <4>1 DEF c
    <2>6. CASE k - 1 \notin rows
      <3>1. k - 1 < low
        BY <1>1, <1>9, <2>6
      <3>2. low = position /\ buffer' = buffer
        BY <1>1, <1>2, <1>9, <3>1
      <3>3. k < position + 1 /\ k \in 1..n
        BY <1>1, <1>9, <3>1, <3>2 DEF n
      <3>4. c = children[p][k]
        BY <1>6, <3>3
      <3>5. ptr'[c] = ptr[c]
        <4> HIDE DEF c, rows
        <4> QED
          BY <2>2, <2>4, <2>6
      <3>6. QED
        BY <1>7, <3>2, <3>3, <3>4, <3>5
    <2>7. QED
      BY <2>5, <2>6
  <1>11. ASSUME NEW i \in Item, i # new, i \notin ToSet(children[p])
         PROVE  ptr'[i] = ptr[i]
    <2>1. \A k \in 1..n : children[p][k] # i
      BY <1>1, <1>11, LenProperties DEF ToSet, n
    <2>2. \A r \in rows : children'[p][r + 1] # i
      <3>1. ASSUME NEW r \in rows PROVE children'[p][r + 1] # i
        <4>1. r + 1 \in 1..(n + 1) /\ r \in Nat /\ position \in Nat
          BY <1>1, <1>9
        <4>2. CASE r + 1 < position + 1
          <5>1. r + 1 \in 1..n
            BY <1>1, <4>1, <4>2 DEF n
          <5>2. QED
            BY <1>6, <2>1, <4>1, <4>2, <5>1
        <4>3. CASE r + 1 = position + 1
          BY <1>6, <1>11, <4>1, <4>3
        <4>4. CASE r + 1 > position + 1
          <5>1. (r + 1) - 1 \in 1..n /\ ~ (r + 1 < position + 1) /\ r + 1 # position + 1
            BY <1>1, <4>1, <4>4
          <5>2. children'[p][r + 1] = children[p][(r + 1) - 1]
            BY <1>6, <4>1, <5>1
          <5>3. QED
            BY <2>1, <5>1, <5>2
        <4>5. QED
          BY <4>1, <4>2, <4>3, <4>4
      <3>2. QED
        BY <3>1
    <2>3. QED
      <3> HIDE DEF rows
      <3> QED
        BY <1>2, <2>2 DEF UpdatedPtr
  <1>12. QED
    BY <1>5, <1>6, <1>10, <1>11 DEF n

\* The elements insert_children leaves behind.
LEMMA InsertedElems ==
    ASSUME Tree, NEW p \in live, NEW a, a = At(p), a \in Array,
           NEW position \in 0..Len(children[p]),
           NEW new \in Item \ live, InsertChildren(p, position, new)
    PROVE  /\ elems' \in [Array -> Seq(Cell)]
           /\ buffer' \in [Array -> Buffer] /\ capacity' \in [Array -> 0..MaxSize]
           /\ \A b \in Array \ {a} : elems'[b] = elems[b] /\ buffer'[b] = buffer[b]
           /\ Len(elems'[a]) = Len(elems[a]) + 1 /\ Len(elems'[a]) <= MaxSize
           /\ \A k \in 1..(Len(elems[a]) + 1) : elems'[a][k] =
                 IF k < position + 1 THEN elems[a][k]
                 ELSE IF k = position + 1 THEN Inserted ELSE elems[a][k - 1]
  <1>1. Len(elems[a]) = Len(children[p])
    BY ItemIs
  <1>2. /\ Len(elems[a]) < MaxSize /\ GrowVector(a)
        /\ elems' = [elems EXCEPT ![a] = InsertAt(@, position + 1, Inserted)]
    BY DEF InsertChildren, At
  <1>3. /\ elems \in [Array -> Seq(Cell)] /\ buffer \in [Array -> Buffer]
        /\ capacity \in [Array -> 0..MaxSize]
    BY DEF Tree, Made
  <1>4. Inserted \in Cell /\ MaxSize \in Nat
    BY DocumentAssumption DEF Cell
  <1> DEFINE s  == elems[a]
             at == position + 1
  <1>5. s \in Seq(Cell) /\ Len(s) \in Nat /\ at \in 1..(Len(s) + 1)
    BY <1>1, <1>3, LenProperties
  <1>6. /\ InsertAt(s, at, Inserted) \in Seq(Cell)
        /\ Len(InsertAt(s, at, Inserted)) = Len(s) + 1
        /\ \A k \in 1..(Len(s) + 1) : InsertAt(s, at, Inserted)[k] =
              IF k < at THEN s[k] ELSE IF k = at THEN Inserted ELSE s[k - 1]
    <2> HIDE DEF s, at
    <2> QED
      BY ONLY <1>4, <1>5, Inserting
  <1>7. elems'[a] = InsertAt(s, at, Inserted)
    BY <1>2, <1>3
  <1>8. elems' \in [Array -> Seq(Cell)] /\ \A b \in Array \ {a} : elems'[b] = elems[b]
    BY <1>2, <1>3, <1>6
  <1>9. /\ buffer' \in [Array -> Buffer] /\ capacity' \in [Array -> 0..MaxSize]
        /\ \A b \in Array \ {a} : buffer'[b] = buffer[b]
    <2>1. CASE Len(elems[a]) + 1 > capacity[a]
      <3>1. PICK b \in Buffer \ {buffer[a]}, c \in (Len(elems[a]) + 1)..MaxSize :
               /\ buffer' = [buffer EXCEPT ![a] = b]
               /\ capacity' = [capacity EXCEPT ![a] = c]
        BY <1>2, <2>1 DEF GrowVector
      <3>2. c \in 0..MaxSize
        BY <1>4, <1>5
      <3>3. QED
        BY <1>3, <3>1, <3>2
    <2>2. CASE ~ (Len(elems[a]) + 1 > capacity[a])
      BY <1>2, <1>3, <2>2 DEF GrowVector
    <2>3. QED
      BY <2>1, <2>2
  <1>10. Len(elems'[a]) = Len(elems[a]) + 1 /\ Len(elems'[a]) <= MaxSize
    BY <1>2, <1>4, <1>5, <1>6, <1>7
  <1>11. QED
    BY <1>6, <1>7, <1>8, <1>9, <1>10

\* insert_children keeps the tree: the items already there stand for what they stood
\* for, and the new one for the element inserted.
LEMMA InsertStep ==
    ASSUME Tree, NEW p \in live, At(p) \in Array,
           NEW position \in 0..Len(children[p]),
           NEW new \in Item \ live, InsertChildren(p, position, new)
    PROVE  /\ Tree'
           /\ live' = live \cup {new} /\ root' = root
           /\ children'[new] = <<>>
           /\ \A i \in live : At(i)' = At(i)
  <1> DEFINE a == At(p)
             n == Len(children[p])
  <1>1. n \in Nat /\ n = Len(elems[a]) /\ a \in Array /\ p \in Item /\ p # new
    BY ItemIs
  <1>2. /\ children' \in [Item -> Seq(Item)] /\ Len(children'[p]) = n + 1
        /\ \A k \in 1..(n + 1) : children'[p][k] =
              IF k < position + 1 THEN children[p][k]
              ELSE IF k = position + 1 THEN new ELSE children[p][k - 1]
        /\ \A k \in 1..(n + 1) : ptr'[children'[p][k]] = SlotPtr(a, buffer'[a], k - 1)
        /\ \A i \in Item : i # new /\ i \notin ToSet(children[p]) => ptr'[i] = ptr[i]
    BY <1>1, InsertedPtr
  <1>3. /\ elems' \in [Array -> Seq(Cell)]
        /\ buffer' \in [Array -> Buffer] /\ capacity' \in [Array -> 0..MaxSize]
        /\ \A b \in Array \ {a} : elems'[b] = elems[b] /\ buffer'[b] = buffer[b]
        /\ Len(elems'[a]) = n + 1 /\ Len(elems'[a]) <= MaxSize
        /\ \A k \in 1..(n + 1) : elems'[a][k] =
              IF k < position + 1 THEN elems[a][k]
              ELSE IF k = position + 1 THEN Inserted ELSE elems[a][k - 1]
    BY <1>1, InsertedElems
  <1>4. /\ live' = live \cup {new} /\ root' = root
        /\ \A i \in Item : i # p => children'[i] = children[i]
        /\ children[new] = <<>>
    BY DEF InsertChildren, Tree, Made
  <1>5. \A i \in live : children[i] \in Seq(live) /\ DOMAIN children[i] = 1..Len(children[i])
    BY ItemIs, LenProperties
  <1> HIDE DEF a, n
  <1>6. ASSUME NEW k \in 1..n
        PROVE  \E l \in 1..(n + 1) : /\ children'[p][l] = children[p][k]
                                     /\ elems'[a][l] = elems[a][k]
    <2>1. CASE k < position + 1
      <3>1. k \in 1..(n + 1)
        BY <1>1
      <3>2. children'[p][k] = children[p][k] /\ elems'[a][k] = elems[a][k]
        BY <1>2, <1>3, <2>1, <3>1
      <3>3. QED
        BY <3>1, <3>2
    <2>2. CASE ~ (k < position + 1)
      <3>1. /\ k + 1 \in 1..(n + 1) /\ (k + 1) - 1 = k
            /\ ~ (k + 1 < position + 1) /\ k + 1 # position + 1
        BY <1>1, <2>2
      <3>2. children'[p][k + 1] = children[p][k] /\ elems'[a][k + 1] = elems[a][k]
        BY <1>2, <1>3, <3>1
      <3>3. QED
        BY <3>1, <3>2
    <2>3. QED
      BY <2>1, <2>2
  <1>7. position + 1 \in 1..(n + 1) /\ children'[p][position + 1] = new
        /\ elems'[a][position + 1] = Inserted
    <2>1. position \in Nat /\ position + 1 \in 1..(n + 1)
      BY <1>1 DEF n
    <2>2. QED
      BY <1>2, <1>3, <2>1
  <1>8. \A l \in 1..(n + 1), i \in Item : children'[p][l] = i => At(i)' = elems'[a][l]
    <2>1. ASSUME NEW l \in 1..(n + 1), NEW i \in Item, children'[p][l] = i
          PROVE  At(i)' = elems'[a][l]
      <3>1. SlotPtr(a, buffer'[a], l - 1) # RootPtr
        <4>1. SlotPtr(a, buffer'[a], l - 1).buffer # RootPtr.buffer
          BY <1>1, <1>3, DocumentAssumption DEF SlotPtr, RootPtr, Null
        <4>2. QED
          BY <4>1
      <3>2. ptr'[i] = SlotPtr(a, buffer'[a], l - 1) /\ (l - 1) + 1 = l
        BY SMTT(60), <1>1, <1>2, <2>1
      <3>3. QED
        BY <3>1, <3>2 DEF At, Deref, SlotPtr
    <2>2. QED
      BY <2>1
  <1>9. ASSUME NEW i \in live
        PROVE  /\ At(i)' = At(i)
               /\ Valid(ptr[i])'
    <2>1. i \in Item /\ i # new
      BY DEF Tree, Made
    <2>2. CASE i \in ToSet(children[p])
      <3>1. PICK k \in 1..n : children[p][k] = i
        BY <1>5, <2>2 DEF ToSet, n
      <3>2. PICK l \in 1..(n + 1) : children'[p][l] = i /\ elems'[a][l] = elems[a][k]
        BY <1>6, <3>1
      <3>3. At(i) = elems[a][k]
        BY <3>1, ChildIs DEF a, n
      <3>4. At(i)' = elems'[a][l]
        BY <1>8, <2>1, <3>2
      <3>5. Valid(ptr[i])'
        <4>1. ptr'[i] = SlotPtr(a, buffer'[a], l - 1)
          BY <1>2, <3>2
        <4>2. l - 1 < Len(elems'[a])
          BY <1>1, <1>3, <3>2
        <4>3. QED
          BY <4>1, <4>2 DEF Valid, SlotPtr
      <3>6. QED
        BY <3>2, <3>3, <3>4, <3>5
    <2>3. CASE i \notin ToSet(children[p])
      <3>1. ptr'[i] = ptr[i]
        BY <1>2, <2>1, <2>3
      <3>2. CASE i = root
        <4>1. ptr[i] = RootPtr
          BY <3>2 DEF Tree
        <4>2. QED
          BY <3>1, <4>1 DEF At, Deref, Valid
      <3>3. CASE i # root
        <4> DEFINE q == Parent(i)
                   r == Row(i)
        <4>1. /\ q \in live /\ At(q) \in Array /\ r \in 0..(Len(children[q]) - 1)
              /\ children[q][r + 1] = i
          BY <3>3, HasParent
        <4>2. Len(children[q]) \in Nat /\ Len(children[q]) = Len(elems[At(q)])
          BY <4>1, ItemIs
        <4>3. r + 1 \in 1..Len(children[q]) /\ (r + 1) - 1 = r
          BY <4>1, <4>2
        <4>4. ptr[i] = SlotPtr(At(q), buffer[At(q)], r)
          BY <4>1, <4>3, ChildIs
        <4>5. q # p
          BY <1>5, <2>3, <4>1, <4>3 DEF ToSet
        <4>6. At(q) # a
          BY <4>1, <4>5 DEF a, Tree, OwnedOnce
        <4>7. elems'[At(q)] = elems[At(q)] /\ buffer'[At(q)] = buffer[At(q)]
          BY <1>3, <4>1, <4>6
        <4>8. ptr[i] # RootPtr
          BY <4>1, <4>4, SlotIsNotRoot DEF Tree
        <4> HIDE DEF q, r
        <4>9. /\ ptr[i].array = At(q) /\ ptr[i].slot = r
              /\ ptr[i].buffer = buffer[At(q)]
          BY <4>4 DEF SlotPtr
        <4>10. At(i)' = At(i)
          BY <3>1, <4>7, <4>8, <4>9 DEF At, Deref
        <4>11. Valid(ptr[i])'
          BY <3>1, <4>1, <4>2, <4>7, <4>9 DEF Valid
        <4>12. QED
          BY <4>10, <4>11
      <3>4. QED
        BY <3>2, <3>3
    <2>4. QED
      BY <2>2, <2>3
  <1>10. /\ At(new)' = Inserted /\ Valid(ptr[new])'
         /\ Inserted \notin Array
    <2>1. ptr'[new] = SlotPtr(a, buffer'[a], (position + 1) - 1)
      BY <1>2, <1>7
    <2>2. (position + 1) - 1 < Len(elems'[a])
      BY <1>1, <1>3, <1>7
    <2>3. At(new)' = Inserted
      BY <1>7, <1>8
    <2>4. Valid(ptr[new])'
      BY <2>1, <2>2 DEF Valid, SlotPtr
    <2>5. QED
      BY <2>3, <2>4, DocumentAssumption
  <1>11. ToSet(children'[p]) = ToSet(children[p]) \cup {new}
    <2>1. DOMAIN children'[p] = 1..(n + 1)
      BY <1>1, <1>2, LenProperties
    <2>2. DOMAIN children[p] = 1..n
      BY <1>5 DEF n
    <2>3. ASSUME NEW l \in 1..(n + 1)
          PROVE  children'[p][l] \in ToSet(children[p]) \cup {new}
      <3>1. CASE l < position + 1
        <4>1. l \in 1..n
          BY <1>1, <1>7, <3>1
        <4>2. children'[p][l] = children[p][l]
          BY <1>2, <3>1
        <4>3. QED
          BY <2>2, <4>1, <4>2 DEF ToSet
      <3>2. CASE l = position + 1
        BY <1>7, <3>2
      <3>3. CASE l > position + 1
        <4>1. l - 1 \in 1..n /\ ~ (l < position + 1) /\ l # position + 1
          BY <1>1, <3>3
        <4>2. children'[p][l] = children[p][l - 1]
          BY <1>2, <4>1
        <4>3. QED
          BY <2>2, <4>1, <4>2 DEF ToSet
      <3>4. QED
        BY <1>1, <3>1, <3>2, <3>3
    <2>4. QED
      BY <1>6, <1>7, <2>1, <2>2, <2>3 DEF ToSet
  <1>12. Made'
    <2>1. live' \subseteq Item
      BY <1>4 DEF Tree, Made
    <2>2. ptr' \in [Item -> Ptr]
      <3>1. \E rows : ptr' = UpdatedPtr(p, a, rows)
        BY DEF InsertChildren, a, At
      <3>2. ptr \in [Item -> Ptr]
        BY DEF Tree, Made
      <3>3. \A i \in Item : ptr'[i] \in Ptr
        <4>1. ASSUME NEW i \in Item PROVE ptr'[i] \in Ptr
          <5>1. CASE i \in ToSet(children'[p])
            <6>1. PICK l \in 1..(n + 1) : children'[p][l] = i
              <7>1. DOMAIN children'[p] = 1..(n + 1)
                BY <1>1, <1>2, LenProperties
              <7>2. QED
                BY <5>1, <7>1 DEF ToSet
            <6>2. ptr'[i] = SlotPtr(a, buffer'[a], l - 1)
              BY <1>2, <6>1
            <6>3. l - 1 \in 0..(MaxSize - 1)
              BY <1>1, <1>3, DocumentAssumption
            <6>4. QED
              BY <1>1, <1>3, <6>2, <6>3 DEF SlotPtr, Ptr
          <5>2. CASE i \notin ToSet(children'[p])
            BY <1>2, <1>11, <3>2, <5>2
          <5>3. QED
            BY <5>1, <5>2
        <4>2. QED
          BY <4>1
      <3>4. QED
        BY <3>1, <3>3 DEF UpdatedPtr
    <2>3. QED
      BY <1>2, <1>3, <2>1, <2>2 DEF Made
  <1>13. root' \in live' /\ ptr'[root'] = RootPtr
    <2>1. root \in live /\ ptr[root] = RootPtr /\ root \in Item /\ root # new
      BY DEF Tree, Made
    <2>2. root \notin ToSet(children[p])
      BY <1>5, ChildIs DEF ToSet
    <2>3. QED
      BY <1>2, <1>4, <2>1, <2>2
  <1>14. ASSUME NEW i \in live'
         PROVE  Shadowing(i)' /\ ToSet(children'[i]) \subseteq live'
    <2>1. CASE i = new
      <3>1. children'[i] = <<>>
        BY <1>1, <1>4, <2>1
      <3>2. QED
        BY <1>10, <2>1, <3>1 DEF Shadowing, ToSet
    <2>2. CASE i = p
      <3>1. At(i)' = a /\ Valid(ptr[i])'
        BY <1>9, <2>2 DEF a
      <3>2. ToSet(children[p]) \subseteq live
        BY DEF Tree
      <3>3. QED
        BY <1>1, <1>2, <1>3, <1>4, <1>11, <2>2, <3>1, <3>2 DEF Shadowing
    <2>3. CASE i # new /\ i # p
      <3>1. i \in live /\ i \in Item
        BY <1>4, <2>3 DEF Tree, Made
      <3>2. children'[i] = children[i]
        BY <1>4, <2>3, <3>1
      <3>3. At(i)' = At(i) /\ Valid(ptr[i])'
        BY <1>9, <3>1
      <3>4. Shadowing(i) /\ ToSet(children[i]) \subseteq live
        BY <3>1 DEF Tree
      <3>5. CASE At(i) \notin Array
        BY <1>4, <3>2, <3>3, <3>4, <3>5 DEF Shadowing
      <3>6. CASE At(i) \in Array
        <4>1. At(i) # a
          BY <2>3, <3>1, <3>6 DEF a, Tree, OwnedOnce
        <4>2. elems'[At(i)] = elems[At(i)] /\ buffer'[At(i)] = buffer[At(i)]
          BY <1>3, <3>6, <4>1
        <4>3. ASSUME NEW k \in 1..Len(children[i])
              PROVE  ptr'[children[i][k]] = SlotPtr(At(i), buffer[At(i)], k - 1)
          <5>1. /\ children[i][k] \in live
                /\ ptr[children[i][k]] = SlotPtr(At(i), buffer[At(i)], k - 1)
            BY <3>1, ChildIs
          <5>2. children[i][k] \notin ToSet(children[p])
            <6>1. ASSUME children[i][k] \in ToSet(children[p]) PROVE FALSE
              <7>1. PICK l \in 1..Len(children[p]) : children[p][l] = children[i][k]
                BY <1>5, <6>1 DEF ToSet
              <7>2. QED
                BY <2>3, <3>1, <7>1, OneParent
            <6>2. QED
              BY <6>1
          <5>3. QED
            BY <1>2, <5>1, <5>2 DEF Tree, Made
        <4>4. Len(children'[i]) = Len(elems'[At(i)'])
          BY <3>2, <3>3, <3>4, <3>6, <4>2 DEF Shadowing
        <4>5. \A k \in 1..Len(children'[i]) :
                 ptr'[children'[i][k]] = SlotPtr(At(i)', buffer'[At(i)'], k - 1)
          BY <3>2, <3>3, <4>2, <4>3
        <4>6. QED
          BY <1>4, <3>2, <3>3, <3>4, <3>6, <4>4, <4>5 DEF Shadowing
      <3>7. QED
        BY <3>5, <3>6
    <2>4. QED
      BY <2>1, <2>2, <2>3
  <1>15. live' = Subtree(root)'
    <2> DEFINE down == [i \in live' |-> ToSet(children'[i])]
    <2>1. Subtree(root)' = Reached(root', down)
      BY DEF Subtree
    <2>2. /\ root' \in DOMAIN down /\ DOMAIN down = live'
          /\ \A i \in DOMAIN down : down[i] = ToSet(children'[i])
          /\ \A i \in DOMAIN down : down[i] \subseteq DOMAIN down
      BY <1>13, <1>14
    <2> HIDE DEF down
    <2>3. /\ Reached(root', down) \subseteq live'
          /\ root' \in Reached(root', down)
          /\ \A i \in Reached(root', down) : down[i] \subseteq Reached(root', down)
      BY <2>2, ReachedIs
    <2> DEFINE S == Reached(root', down)
    <2>4. \A i \in S \cap live : ToSet(children[i]) \subseteq S
      <3>1. ASSUME NEW i \in S \cap live PROVE ToSet(children[i]) \subseteq S
        <4>1. ToSet(children[i]) \subseteq ToSet(children'[i])
          BY <1>4, <1>11, <3>1 DEF Tree, Made
        <4>2. ToSet(children'[i]) \subseteq S
          BY <2>2, <2>3, <3>1
        <4>3. QED
          BY <4>1, <4>2
      <3>2. QED
        BY <3>1
    <2>5. live \subseteq S
      <3>1. root \in live /\ live = Subtree(root)
        BY DEF Tree
      <3>2. root \in S
        BY <1>4, <2>3
      <3> HIDE DEF S
      <3>3. QED
        BY <2>4, <3>1, <3>2, SubtreeIs
    <2>6. new \in S
      BY <1>4, <1>11, <2>2, <2>3, <2>5
    <2>7. QED
      BY <1>4, <2>1, <2>3, <2>5, <2>6
  <1>16. OwnedOnce'
    <2>1. ASSUME NEW i \in live', NEW j \in live', At(i)' \in Array, At(i)' = At(j)'
          PROVE  i = j
      <3>1. i \in live /\ j \in live
        BY <1>4, <1>10, <2>1
      <3>2. At(i) \in Array /\ At(i) = At(j)
        BY <1>9, <2>1, <3>1
      <3>3. QED
        BY <3>1, <3>2 DEF Tree, OwnedOnce
    <2>2. ASSUME NEW b \in Array, elems'[b] # <<>>
          PROVE  \E i \in live' : At(i)' = b
      <3>1. CASE b = a
        BY <1>4, <1>9, <3>1 DEF a
      <3>2. CASE b # a
        <4>1. PICK i \in live : At(i) = b
          BY <1>3, <2>2, <3>2 DEF Tree, OwnedOnce
        <4>2. QED
          BY <1>4, <1>9, <4>1
      <3>3. QED
        BY <3>1, <3>2
    <2>3. QED
      BY <2>1, <2>2 DEF OwnedOnce
  <1>17. \A i \in Item \ live' : children'[i] = <<>>
    BY <1>4 DEF Tree
  <1>18. \A b \in Array : Len(elems'[b]) <= MaxSize
    BY <1>3 DEF Tree
  <1>19. Tree'
    BY <1>12, <1>13, <1>14, <1>15, <1>16, <1>17, <1>18 DEF Tree
  <1>20. QED
    BY <1>1, <1>4, <1>9, <1>19

(* Editing a value ------------------------------------------------------- *)

\* setData changes one value for another of no children: no item moves, and the items
\* that stand for arrays stand for the same ones.
LEMMA EditStep ==
    ASSUME Tree, NEW i \in Item, NEW leaf \in Settable, EditValue(i, leaf)
    PROVE  /\ Tree'
           /\ ptr[i].array \in Array /\ ptr[i].slot + 1 \in 1..Len(elems[ptr[i].array])
           /\ elems[ptr[i].array][ptr[i].slot + 1] \in Leaf
  <1>1. /\ i \in live /\ At(i) \in Settable
        /\ elems' = [elems EXCEPT ![ptr[i].array][ptr[i].slot + 1] = leaf]
        /\ UNCHANGED <<buffer, capacity, live, root, ptr, children, announced>>
    BY DEF EditValue, At, items
  <1>2. leaf \in Cell /\ leaf \notin Array /\ At(i) \in Leaf /\ At(i) \notin Array
    BY <1>1, DocumentAssumption DEF Cell
  <1>3. i # root
    <2>1. At(root) = Root
      BY DEF Tree, At, Deref
    <2>2. QED
      BY <1>2, <2>1, DocumentAssumption
  <1> DEFINE p == Parent(i)
             a == At(p)
             k == Row(i) + 1
  <1>4. p \in live /\ a \in Array /\ k \in 1..Len(elems[a]) /\ children[p][k] = i
        /\ k \in 1..Len(children[p])
    <2>1. /\ p \in live /\ At(p) \in Array /\ Row(i) \in 0..(Len(children[p]) - 1)
          /\ children[p][Row(i) + 1] = i
      BY <1>1, <1>3, HasParent
    <2>2. Len(children[p]) \in Nat /\ Len(children[p]) = Len(elems[At(p)])
      BY <2>1, ItemIs
    <2>3. Row(i) + 1 \in 1..Len(children[p])
      BY <2>1, <2>2
    <2>4. QED
      BY <2>1, <2>2, <2>3
  <1> HIDE DEF p, a, k
  <1>5. /\ ptr[i] = SlotPtr(a, buffer[a], k - 1) /\ At(i) = elems[a][k]
        /\ ptr[i].array = a /\ ptr[i].slot + 1 = k
    <2>1. ptr[i] = SlotPtr(a, buffer[a], k - 1) /\ At(i) = elems[a][k]
      BY <1>4, ChildIs DEF a
    <2>2. ptr[i].array = a /\ ptr[i].slot = k - 1
      BY <2>1 DEF SlotPtr
    <2>3. k \in Nat
      BY <1>4
    <2>4. QED
      BY <2>1, <2>2, <2>3
  <1>6. elems \in [Array -> Seq(Cell)] /\ elems[a] \in Seq(Cell)
    BY <1>4 DEF Tree, Made
  <1>7. /\ elems'[a] = [elems[a] EXCEPT ![k] = leaf]
        /\ \A b \in Array \ {a} : elems'[b] = elems[b]
        /\ DOMAIN elems' = Array
    BY <1>1, <1>4, <1>5, <1>6
  <1>8. /\ [elems[a] EXCEPT ![k] = leaf] \in Seq(Cell)
        /\ Len([elems[a] EXCEPT ![k] = leaf]) = Len(elems[a])
        /\ \A l \in 1..Len(elems[a]) : [elems[a] EXCEPT ![k] = leaf][l] =
              IF l = k THEN leaf ELSE elems[a][l]
    BY <1>2, <1>4, <1>6, ExceptSeq
  <1>9. /\ elems' \in [Array -> Seq(Cell)]
        /\ \A b \in Array : Len(elems'[b]) = Len(elems[b])
        /\ \A l \in 1..Len(elems[a]) : elems'[a][l] = IF l = k THEN leaf ELSE elems[a][l]
    <2>1. \A b \in Array : elems'[b] \in Seq(Cell)
      BY <1>6, <1>7, <1>8
    <2>2. elems' = [b \in Array |-> elems'[b]]
      BY <1>1, <1>6
    <2>3. QED
      BY <1>7, <1>8, <2>1, <2>2
  <1>10. ASSUME NEW j \in live
         PROVE  Valid(ptr[j])' /\ (At(j) # At(j)' => At(j) \notin Array /\ At(j)' \notin Array)
    <2>1. CASE j = root
      <3>1. ptr[j] = RootPtr
        BY <2>1 DEF Tree
      <3>2. QED
        BY <1>1, <3>1 DEF Valid, At, Deref
    <2>2. CASE j # root
      <3> DEFINE q == Parent(j)
                 r == Row(j)
      <3>1. /\ q \in live /\ At(q) \in Array /\ r \in 0..(Len(children[q]) - 1)
            /\ children[q][r + 1] = j
        BY <2>2, HasParent
      <3>2. Len(children[q]) \in Nat /\ Len(children[q]) = Len(elems[At(q)])
        BY <3>1, ItemIs
      <3>3. r + 1 \in 1..Len(children[q]) /\ (r + 1) - 1 = r
        BY <3>1, <3>2
      <3>4. ptr[j] = SlotPtr(At(q), buffer[At(q)], r) /\ At(j) = elems[At(q)][r + 1]
        BY <3>1, <3>3, ChildIs
      <3>5. ptr[j] # RootPtr
        BY <3>1, <3>4, SlotIsNotRoot DEF Tree
      <3> HIDE DEF q, r
      <3>6. At(j)' = elems'[At(q)][r + 1]
        <4>1. ptr[j].array = At(q) /\ ptr[j].slot = r
          BY <3>4 DEF SlotPtr
        <4>2. QED
          BY <1>1, <3>5, <4>1 DEF At, Deref
      <3>7. Valid(ptr[j])'
        BY <1>1, <1>9, <3>1, <3>2, <3>4, <3>5 DEF Valid, SlotPtr
      <3>8. At(j) # At(j)' => At(j) \notin Array /\ At(j)' \notin Array
        <4>1. CASE At(q) = a /\ r + 1 = k
          BY <1>2, <1>4, <1>5, <1>9, <3>4, <3>6, <4>1
        <4>2. CASE At(q) = a /\ r + 1 # k
          BY <1>9, <3>2, <3>3, <3>4, <3>6, <4>2
        <4>3. CASE At(q) # a
          BY <1>7, <3>1, <3>4, <3>6, <4>3
        <4>4. QED
          BY <4>1, <4>2, <4>3
      <3>9. QED
        BY <3>7, <3>8
    <2>3. QED
      BY <2>1, <2>2
  <1>11. Made'
    BY <1>1, <1>9 DEF Tree, Made
  <1>12. ASSUME NEW j \in live PROVE Shadowing(j)' /\ ToSet(children'[j]) \subseteq live
    <2>1. Shadowing(j) /\ ToSet(children[j]) \subseteq live
      BY DEF Tree
    <2>2. CASE At(j) = At(j)'
      BY <1>1, <1>9, <1>10, <2>1, <2>2 DEF Shadowing
    <2>3. CASE At(j) # At(j)'
      BY <1>1, <1>10, <2>1, <2>3 DEF Shadowing
    <2>4. QED
      BY <2>2, <2>3
  <1>13. live' = Subtree(root)'
    BY <1>1 DEF Tree, Subtree
  <1>14. OwnedOnce'
    <2>1. \A j, l \in live : At(j)' \in Array /\ At(j)' = At(l)' => j = l
      BY <1>10 DEF Tree, OwnedOnce
    <2>2. ASSUME NEW b \in Array, elems'[b] # <<>> PROVE \E j \in live : At(j)' = b
      <3>1. elems[b] # <<>>
        <4>1. elems'[b] \in Seq(Cell) /\ elems[b] \in Seq(Cell)
          BY <1>6, <1>9
        <4>2. Len(elems'[b]) # 0
          BY <2>2, <4>1, EmptySeq
        <4>3. QED
          BY <1>9, <4>2, EmptySeq
      <3>2. PICK j \in live : At(j) = b
        BY <3>1 DEF Tree, OwnedOnce
      <3>3. QED
        BY <1>10, <3>2
    <2>3. QED
      BY <1>1, <2>1, <2>2 DEF OwnedOnce
  <1>15. Tree'
    <2>1. root' \in live' /\ ptr'[root'] = RootPtr
      BY <1>1 DEF Tree
    <2>2. /\ \A j \in Item \ live' : children'[j] = <<>>
          /\ \A b \in Array : Len(elems'[b]) <= MaxSize
      BY <1>1, <1>9 DEF Tree
    <2>3. QED
      BY <1>1, <1>11, <1>12, <1>13, <1>14, <2>1, <2>2 DEF Tree
  <1>16. QED
    BY <1>2, <1>4, <1>5, <1>15

(* Removing an element --------------------------------------------------- *)

\* The arrays nested in an array: the array is one, those in the elements of one are,
\* and they are in every set like that.
LEMMA NestedIs ==
    ASSUME NEW a \in Array
    PROVE  /\ NestedIn(a) \subseteq Array /\ a \in NestedIn(a)
           /\ \A b \in NestedIn(a) : ToSet(elems[b]) \cap Array \subseteq NestedIn(a)
           /\ \A S : a \in S /\ (\A b \in S \cap Array : ToSet(elems[b]) \cap Array \subseteq S)
                        => NestedIn(a) \subseteq S
  <1> DEFINE next == [b \in Array |-> ToSet(elems[b]) \cap Array]
  <1>1. NestedIn(a) = Reached(a, next)
    BY DEF NestedIn
  <1>2. /\ DOMAIN next = Array /\ a \in DOMAIN next
        /\ \A b \in Array : next[b] = ToSet(elems[b]) \cap Array
        /\ \A b \in DOMAIN next : next[b] \subseteq DOMAIN next
    OBVIOUS
  <1> HIDE DEF next
  <1>3. QED
    BY <1>1, <1>2, ReachedIs

\* The arrays remove_children destroys are those of the items it destroys.
LEMMA FreedIsGone ==
    ASSUME Tree, NEW c \in live, NEW i \in live, At(i) \in Array
    PROVE  i \in Subtree(c) <=> At(c) \in Array /\ At(i) \in NestedIn(At(c))
  <1>1. CASE At(c) \notin Array
    <2>1. children[c] = <<>>
      BY <1>1, ItemIs
    <2>2. Subtree(c) \subseteq {c}
      <3>1. ToSet(children[c]) = {}
        BY <2>1 DEF ToSet
      <3>2. \A j \in {c} \cap live : ToSet(children[j]) \subseteq {c}
        BY <3>1
      <3>3. QED
        BY <3>2, SubtreeIs
    <2>3. QED
      BY <1>1, <2>2
  <1>2. CASE At(c) \in Array
    <2>1. \A j \in live : DOMAIN children[j] = 1..Len(children[j])
      BY ItemIs, LenProperties
    <2>2. ASSUME i \in Subtree(c) PROVE At(i) \in NestedIn(At(c))
      <3> DEFINE S == {j \in live : At(j) \in Array => At(j) \in NestedIn(At(c))}
      <3>1. c \in S
        BY <1>2, NestedIs
      <3>2. \A j \in S \cap live : ToSet(children[j]) \subseteq S
        <4>1. ASSUME NEW j \in S, NEW z \in ToSet(children[j]) PROVE z \in S
          <5>1. PICK k \in 1..Len(children[j]) : children[j][k] = z
            BY <2>1 DEF ToSet
          <5>2. z \in live /\ At(j) \in Array /\ At(z) = elems[At(j)][k]
            BY <5>1, ChildIs
          <5>3. Len(children[j]) = Len(elems[At(j)]) /\ elems[At(j)] \in Seq(Cell)
            BY <5>2, ItemIs DEF Tree, Made
          <5>4. At(z) \in ToSet(elems[At(j)])
            BY <5>2, <5>3, LenProperties DEF ToSet
          <5>5. QED
            BY <1>2, <5>2, <5>4, NestedIs
        <4>2. QED
          BY <4>1
      <3>3. Subtree(c) \subseteq S
        <4> HIDE DEF S
        <4> QED
          BY <3>1, <3>2, SubtreeIs
      <3>4. QED
        BY <2>2, <3>3
    <2>3. ASSUME At(i) \in NestedIn(At(c)) PROVE i \in Subtree(c)
      <3> DEFINE S == {b \in Array : \E j \in Subtree(c) : At(j) = b}
      <3>1. At(c) \in S
        BY <1>2, SubtreeIs
      <3>2. \A b \in S \cap Array : ToSet(elems[b]) \cap Array \subseteq S
        <4>1. ASSUME NEW b \in S, NEW e \in ToSet(elems[b]) \cap Array PROVE e \in S
          <5>1. PICK j \in Subtree(c) : At(j) = b
            OBVIOUS
          <5>2. j \in live /\ b \in Array /\ elems[b] \in Seq(Cell)
            BY SubtreeIs DEF Tree, Made
          <5>3. PICK k \in 1..Len(elems[b]) : elems[b][k] = e
            BY <5>2, LenProperties DEF ToSet
          <5>4. k \in 1..Len(children[j])
            BY <5>1, <5>2, ItemIs
          <5>5. At(children[j][k]) = e
            BY <5>1, <5>2, <5>3, <5>4, ChildIs
          <5>6. children[j][k] \in Subtree(c)
            BY <2>1, <5>2, <5>4, SubtreeIs DEF ToSet
          <5>7. QED
            BY <5>5, <5>6
        <4>2. QED
          BY <4>1
      <3>3. NestedIn(At(c)) \subseteq S
        <4> HIDE DEF S
        <4> QED
          BY <1>2, <3>1, <3>2, NestedIs
      <3>4. PICK j \in Subtree(c) : At(j) = At(i)
        BY <2>3, <3>3
      <3>5. j \in live
        BY SubtreeIs
      <3>6. QED
        BY <3>4, <3>5 DEF Tree, OwnedOnce
    <2>4. QED
      BY <1>2, <2>2, <2>3
  <1>3. QED
    BY <1>1, <1>2

\* remove_children destroys the item of the row with the items below it, and no other
\* child of an item that lives on.
LEMMA GoneIs ==
    ASSUME Tree, NEW p \in live, NEW r \in 1..Len(children[p]),
           NEW gone, gone = Subtree(children[p][r])
    PROVE  /\ children[p][r] \in gone /\ gone \subseteq live
           /\ p \notin gone /\ root \notin gone
           /\ \A i \in gone : ToSet(children[i]) \subseteq gone
           /\ \A i \in live \ gone : \A k \in 1..Len(children[i]) :
                 children[i][k] \in gone => i = p /\ k = r
  <1> DEFINE c == children[p][r]
  <1>1. c \in live /\ c # root
    BY ChildIs
  <1>2. c \in gone /\ gone \subseteq live /\ \A i \in gone : ToSet(children[i]) \subseteq gone
    BY <1>1, SubtreeIs
  <1>3. p \notin gone
    BY Acyclic
  <1>4. \A j \in gone : j # c =>
           \E q \in gone : \E k \in 1..Len(children[q]) : children[q][k] = j
    BY <1>1, SubtreeIs
  <1>5. root \notin gone
    <2>1. SUFFICES ASSUME root \in gone PROVE FALSE
      OBVIOUS
    <2>2. PICK q \in gone : \E k \in 1..Len(children[q]) : children[q][k] = root
      BY <1>1, <1>4, <2>1
    <2>3. QED
      BY <1>2, <2>2, ChildIs
  <1>6. ASSUME NEW i \in live \ gone, NEW k \in 1..Len(children[i]), children[i][k] \in gone
        PROVE  i = p /\ k = r
    <2>1. CASE children[i][k] = c
      BY <2>1, OneParent
    <2>2. CASE children[i][k] # c
      <3>1. PICK q \in gone : \E l \in 1..Len(children[q]) : children[q][l] = children[i][k]
        BY <1>4, <1>6, <2>2
      <3>2. q = i
        BY <1>2, <3>1, OneParent
      <3>3. QED
        BY <3>1, <3>2
    <2>3. QED
      BY <2>1, <2>2
  <1>7. QED
    BY <1>2, <1>3, <1>5, <1>6

\* The children remove_children leaves to item p: each points at its row, the others
\* keep their pointers.
LEMMA RemovedPtr ==
    ASSUME Tree, NEW p \in live, NEW a, a = At(p), a \in Array,
           NEW position \in 0..(Len(children[p]) - 1), NEW gone,
           gone = Subtree(children[p][position + 1]), RemoveChildren(p, position)
    PROVE  /\ children' \in [Item -> Seq(Item)]
           /\ Len(children'[p]) = Len(children[p]) - 1
           /\ \A k \in 1..(Len(children[p]) - 1) : children'[p][k] =
                 IF k < position + 1 THEN children[p][k] ELSE children[p][k + 1]
           /\ \A k \in 1..(Len(children[p]) - 1) :
                 ptr'[children'[p][k]] = SlotPtr(a, buffer[a], k - 1)
           /\ \A i \in Item \ gone : i \notin ToSet(children[p]) => ptr'[i] = ptr[i]
           /\ \A i \in Item : i # p => children'[i] = IF i \in gone THEN <<>> ELSE children[i]
  <1> DEFINE s    == children[p]
             n    == Len(children[p])
             r    == position + 1
             rows == position..(n - 2)
  <1>1. n \in Nat /\ n = Len(elems[a]) /\ s \in Seq(live) /\ p \in Item /\ r \in 1..n
    BY ItemIs
  <1>2. /\ children[p] \in Seq(Item) /\ live \subseteq Item /\ children \in [Item -> Seq(Item)]
        /\ s \in Seq(Item)
    BY DEF Tree, Made
  <1>3. /\ gone \subseteq live /\ p \notin gone /\ children[p][r] \in gone
        /\ \A k \in 1..n : children[p][k] \in gone => k = r
    BY <1>1, GoneIs
  <1>4. /\ buffer' = buffer
        /\ children' = [i \in Item |-> CASE i = p      -> RemoveAt(s, r)
                                         [] i \in gone -> <<>>
                                         [] OTHER      -> children[i]]
        /\ ptr' = [i \in Item |-> IF i \in gone THEN RootPtr ELSE UpdatedPtr(p, a, rows)[i]]
    <2>1. (n - 1) - 1 = n - 2
      BY <1>1
    <2>2. QED
      BY <1>1, <2>1 DEF RemoveChildren, ShiftedRows, At
  <1>5. /\ RemoveAt(s, r) \in Seq(Item) /\ Len(RemoveAt(s, r)) = n - 1
        /\ \A k \in 1..(n - 1) : RemoveAt(s, r)[k] = IF k < r THEN s[k] ELSE s[k + 1]
    <2>1. s \in Seq(Item) /\ r \in 1..Len(s)
      BY <1>1, <1>2
    <2>2. /\ RemoveAt(s, r) \in Seq(Item) /\ Len(RemoveAt(s, r)) = Len(s) - 1
          /\ \A k \in 1..(Len(s) - 1) : RemoveAt(s, r)[k] = IF k < r THEN s[k] ELSE s[k + 1]
      <3> HIDE DEF s, r
      <3> QED
        BY ONLY <2>1, Removing
    <2>3. QED
      BY <2>2
  <1>6. /\ children'[p] = RemoveAt(s, r)
        /\ \A i \in Item : i # p => children'[i] = IF i \in gone THEN <<>> ELSE children[i]
    <2> HIDE DEF s, r
    <2> QED
      BY <1>1, <1>3, <1>4
  <1>7. children' \in [Item -> Seq(Item)]
    <2>1. \A i \in Item : children'[i] \in Seq(Item)
      BY <1>2, <1>5, <1>6, EmptySeq
    <2>2. children' = [i \in Item |-> children'[i]]
      BY <1>4
    <2>3. QED
      BY <2>1, <2>2
  <1>8. /\ \A k \in 1..n : children[p][k] \in live
                           /\ ptr[children[p][k]] = SlotPtr(a, buffer[a], k - 1)
        /\ \A k, l \in 1..n : children[p][k] = children[p][l] => k = l
    BY ChildIs, OneParent
  <1> HIDE DEF s, n, r
  <1>9. ASSUME NEW k \in 1..(n - 1)
        PROVE  /\ k < r => k \in 1..n /\ children'[p][k] = children[p][k]
               /\ ~ (k < r) => k + 1 \in 1..n /\ children'[p][k] = children[p][k + 1]
    BY <1>1, <1>5, <1>6 DEF s
  <1>10. ASSUME NEW k \in 1..(n - 1), NEW l \in 1..(n - 1), children'[p][k] = children'[p][l]
         PROVE  k = l
    <2>1. CASE k < r /\ l < r
      BY <1>8, <1>9, <1>10, <2>1
    <2>2. CASE k < r /\ ~ (l < r)
      <3>1. k = l + 1
        BY <1>8, <1>9, <1>10, <2>2
      <3>2. QED
        BY <1>1, <2>2, <3>1
    <2>3. CASE ~ (k < r) /\ l < r
      <3>1. k + 1 = l
        BY <1>8, <1>9, <1>10, <2>3
      <3>2. QED
        BY <1>1, <2>3, <3>1
    <2>4. CASE ~ (k < r) /\ ~ (l < r)
      <3>1. k + 1 = l + 1
        BY <1>8, <1>9, <1>10, <2>4
      <3>2. QED
        BY <1>1, <3>1
    <2>5. QED
      BY <2>1, <2>2, <2>3, <2>4
  <1>11. ASSUME NEW k \in 1..(n - 1)
         PROVE  children'[p][k] \in live \ gone
    <2>1. CASE k < r
      BY <1>3, <1>8, <1>9, <2>1
    <2>2. CASE ~ (k < r)
      <3>1. k + 1 # r
        BY <1>1, <2>2
      <3>2. QED
        BY <1>3, <1>8, <1>9, <2>2, <3>1
    <2>3. QED
      BY <2>1, <2>2
  <1>12. ASSUME NEW i \in Item \ gone
         PROVE  ptr'[i] = IF \E k \in rows : children'[p][k + 1] = i
                          THEN SlotPtr(a, buffer[a], CHOOSE k \in rows : children'[p][k + 1] = i)
                          ELSE ptr[i]
    <2> HIDE DEF rows
    <2> QED
      BY <1>4, <1>12 DEF UpdatedPtr
  <1>13. \A k \in rows : k + 1 \in 1..(n - 1) /\ k \in Nat
    BY <1>1 DEF r
  <1>14. ASSUME NEW k \in 1..(n - 1)
         PROVE  ptr'[children'[p][k]] = SlotPtr(a, buffer[a], k - 1)
    <2> DEFINE c == children'[p][k]
    <2>1. c \in Item \ gone
      BY <1>2, <1>11
    <2>2. \A l \in rows : children'[p][l + 1] = c => l = k - 1
      <3>1. ASSUME NEW l \in rows, children'[p][l + 1] = c PROVE l = k - 1
        <4>1. l + 1 = k /\ l \in Nat
          BY <1>10, <1>13, <3>1
        <4>2. QED
          BY <1>1, <4>1
      <3>2. QED
        BY <3>1
    <2>3. CASE k - 1 \in rows
      <3>1. children'[p][(k - 1) + 1] = c
        <4>1. (k - 1) + 1 = k
          BY <1>1
        <4>2. QED
          BY <4>1
      <3>2. (CHOOSE l \in rows : children'[p][l + 1] = c) = k - 1
        <4> HIDE DEF c, rows
        <4> QED
          BY <2>2, <2>3, <3>1
      <3>3. ptr'[c] = SlotPtr(a, buffer[a], k - 1)
        <4> HIDE DEF c, rows
        <4> QED
          BY <1>12, <2>1, <2>3, <3>1, <3>2
      <3>4. QED
        BY <3>3
    <2>4. CASE k - 1 \notin rows
      <3>1. k < r
        BY <1>1, <2>4 DEF r
      <3>2. c = children[p][k] /\ k \in 1..n
        BY <1>9, <3>1
      <3>3. ptr'[c] = ptr[c]
        <4> HIDE DEF c, rows
        <4> QED
          BY <1>12, <2>1, <2>2, <2>4
      <3>4. QED
        BY <1>8, <3>2, <3>3
    <2>5. QED
      BY <2>3, <2>4
  <1>15. ASSUME NEW i \in Item \ gone, i \notin ToSet(children[p])
         PROVE  ptr'[i] = ptr[i]
    <2>1. \A k \in 1..n : children[p][k] # i
      BY <1>1, <1>15, LenProperties DEF ToSet, n, s
    <2>2. \A l \in rows : children'[p][l + 1] # i
      <3>1. ASSUME NEW l \in rows PROVE children'[p][l + 1] # i
        BY <1>9, <1>13, <2>1
      <3>2. QED
        BY <3>1
    <2>3. QED
      <3> HIDE DEF rows
      <3> QED
        BY <1>12, <2>2
  <1>16. QED
    BY <1>5, <1>6, <1>7, <1>9, <1>14, <1>15 DEF n, r, s

\* The elements remove_children leaves behind: those of the array but the one removed,
\* none in the arrays nested in that one.
LEMMA RemovedElems ==
    ASSUME Tree, NEW p \in live, NEW a, a = At(p), a \in Array,
           NEW position \in 0..(Len(children[p]) - 1), NEW gone,
           gone = Subtree(children[p][position + 1]), RemoveChildren(p, position)
    PROVE  /\ elems' \in [Array -> Seq(Cell)]
           /\ elems'[a] = RemoveAt(elems[a], position + 1)
           /\ Len(elems'[a]) = Len(elems[a]) - 1
           /\ \A k \in 1..(Len(elems[a]) - 1) : elems'[a][k] =
                 IF k < position + 1 THEN elems[a][k] ELSE elems[a][k + 1]
           /\ \A i \in live : At(i) \in Array \ {a} =>
                 elems'[At(i)] = IF i \in gone THEN <<>> ELSE elems[At(i)]
           /\ \A b \in Array : elems'[b] # <<>> => elems[b] # <<>> \/ b = a
           /\ \A b \in Array : Len(elems'[b]) <= Len(elems[b])
  <1> DEFINE s     == elems[a]
             r     == position + 1
             cell  == s[r]
             freed == IF cell \in Array THEN NestedIn(cell) ELSE {}
  <1>1. /\ Len(s) \in Nat /\ s \in Seq(Cell) /\ r \in 1..Len(s) /\ r \in 1..Len(children[p])
        /\ elems \in [Array -> Seq(Cell)]
    BY ItemIs, LenProperties DEF Tree, Made
  <1>2. elems' = [b \in Array |-> CASE b = a       -> RemoveAt(s, r)
                                    [] b \in freed -> <<>>
                                    [] OTHER       -> elems[b]]
    BY DEF RemoveChildren, At
  <1>3. cell = At(children[p][r]) /\ children[p][r] \in live
    BY <1>1, ChildIs
  <1>4. \A i \in live : At(i) \in Array => (i \in gone <=> At(i) \in freed)
    <2>1. \A i \in live : At(i) \in Array =>
             (i \in gone <=> cell \in Array /\ At(i) \in NestedIn(cell))
      BY <1>3, FreedIsGone
    <2>2. QED
      BY <2>1
  <1>5. p \notin gone
    BY <1>1, GoneIs
  <1>6. a \notin freed
    BY <1>4, <1>5
  <1>7. /\ RemoveAt(s, r) \in Seq(Cell) /\ Len(RemoveAt(s, r)) = Len(s) - 1
        /\ \A k \in 1..(Len(s) - 1) : RemoveAt(s, r)[k] = IF k < r THEN s[k] ELSE s[k + 1]
    <2> HIDE DEF s, r
    <2> QED
      BY ONLY <1>1, Removing
  <1>8. /\ elems'[a] = RemoveAt(s, r)
        /\ \A b \in Array \ {a} : elems'[b] = IF b \in freed THEN <<>> ELSE elems[b]
        /\ DOMAIN elems' = Array
    <2> HIDE DEF s, r, freed
    <2> QED
      BY <1>2, <1>6
  <1>9. elems' \in [Array -> Seq(Cell)]
    <2>1. \A b \in Array : elems'[b] \in Seq(Cell)
      <3> HIDE DEF freed, s, r
      <3> QED
        BY <1>1, <1>7, <1>8, EmptySeq
    <2>2. elems' = [b \in Array |-> elems'[b]]
      <3> HIDE DEF freed, s, r
      <3> QED
        BY <1>2
    <2>3. QED
      BY <2>1, <2>2
  <1>10. \A i \in live : At(i) \in Array \ {a} =>
            elems'[At(i)] = IF i \in gone THEN <<>> ELSE elems[At(i)]
    <2> HIDE DEF freed, s, r
    <2> QED
      BY <1>4, <1>8
  <1>11. \A b \in Array : Len(elems'[b]) <= Len(elems[b])
    <2>1. ASSUME NEW b \in Array PROVE Len(elems'[b]) <= Len(elems[b])
      <3>1. Len(elems[b]) \in Nat
        BY <1>1, LenProperties
      <3>2. CASE b = a
        BY <1>1, <1>7, <1>8, <3>2
      <3>3. CASE b # a
        <4> HIDE DEF freed, s, r
        <4> QED
          BY <1>8, <3>1, <3>3, EmptySeq
      <3>4. QED
        BY <3>2, <3>3
    <2>2. QED
      BY <2>1
  <1>12. \A b \in Array : elems'[b] # <<>> => elems[b] # <<>> \/ b = a
    <2> HIDE DEF freed, s, r
    <2> QED
      BY <1>8
  <1>13. QED
    BY <1>7, <1>8, <1>9, <1>10, <1>11, <1>12

\* remove_children keeps the tree: the items that are not destroyed stand for what they
\* stood for.
LEMMA RemoveStep ==
    ASSUME Tree, NEW p \in live, At(p) \in Array,
           NEW position \in 0..(Len(children[p]) - 1), NEW gone,
           gone = Subtree(children[p][position + 1]), RemoveChildren(p, position)
    PROVE  /\ Tree'
           /\ live' = live \ gone /\ root' = root
           /\ \A i \in live' : At(i)' = At(i)
  <1> DEFINE a == At(p)
             n == Len(children[p])
  <1>1. n \in Nat /\ n = Len(elems[a]) /\ a \in Array /\ p \in Item
        /\ position + 1 \in 1..n /\ position \in Nat
    BY ItemIs
  <1>2. /\ children[p][position + 1] \in gone /\ gone \subseteq live
        /\ p \notin gone /\ root \notin gone
        /\ \A i \in gone : ToSet(children[i]) \subseteq gone
        /\ \A i \in live \ gone : \A k \in 1..Len(children[i]) :
              children[i][k] \in gone => i = p /\ k = position + 1
    <2> DEFINE r == position + 1
    <2>1. r \in 1..Len(children[p]) /\ gone = Subtree(children[p][r])
      BY <1>1
    <2>2. /\ children[p][r] \in gone /\ gone \subseteq live
          /\ p \notin gone /\ root \notin gone
          /\ \A i \in gone : ToSet(children[i]) \subseteq gone
          /\ \A i \in live \ gone : \A k \in 1..Len(children[i]) :
                children[i][k] \in gone => i = p /\ k = r
      <3> HIDE DEF r
      <3> QED
        BY <2>1, GoneIs
    <2>3. QED
      BY <2>2
  <1>3. /\ children' \in [Item -> Seq(Item)] /\ Len(children'[p]) = n - 1
        /\ \A k \in 1..(n - 1) : children'[p][k] =
              IF k < position + 1 THEN children[p][k] ELSE children[p][k + 1]
        /\ \A k \in 1..(n - 1) : ptr'[children'[p][k]] = SlotPtr(a, buffer[a], k - 1)
        /\ \A i \in Item \ gone : i \notin ToSet(children[p]) => ptr'[i] = ptr[i]
        /\ \A i \in Item : i # p => children'[i] = IF i \in gone THEN <<>> ELSE children[i]
    <2>1. /\ children' \in [Item -> Seq(Item)]
          /\ Len(children'[p]) = Len(children[p]) - 1
          /\ \A k \in 1..(Len(children[p]) - 1) : children'[p][k] =
                IF k < position + 1 THEN children[p][k] ELSE children[p][k + 1]
          /\ \A k \in 1..(Len(children[p]) - 1) :
                ptr'[children'[p][k]] = SlotPtr(a, buffer[a], k - 1)
          /\ \A i \in Item \ gone : i \notin ToSet(children[p]) => ptr'[i] = ptr[i]
          /\ \A i \in Item : i # p => children'[i] = IF i \in gone THEN <<>> ELSE children[i]
      <3>1. a = At(p) /\ a \in Array
        BY <1>1
      <3> HIDE DEF a, n
      <3> QED
        BY <3>1, RemovedPtr
    <2>2. QED
      BY <2>1
  <1>4. /\ elems' \in [Array -> Seq(Cell)] /\ Len(elems'[a]) = n - 1
        /\ \A k \in 1..(n - 1) : elems'[a][k] =
              IF k < position + 1 THEN elems[a][k] ELSE elems[a][k + 1]
        /\ \A i \in live : At(i) \in Array \ {a} =>
              elems'[At(i)] = IF i \in gone THEN <<>> ELSE elems[At(i)]
        /\ \A b \in Array : elems'[b] # <<>> => elems[b] # <<>> \/ b = a
        /\ \A b \in Array : Len(elems'[b]) <= Len(elems[b])
    BY <1>1, RemovedElems
  <1>5. /\ live' = live \ gone /\ root' = root /\ buffer' = buffer /\ capacity' = capacity
        /\ \A i \in gone : ptr'[i] = RootPtr
        /\ DOMAIN ptr' = Item
    BY <1>2 DEF RemoveChildren, Tree, Made
  <1>6. \A i \in live : /\ i \in Item /\ children[i] \in Seq(live)
                        /\ DOMAIN children[i] = 1..Len(children[i])
    BY ItemIs, LenProperties
  <1>7. \A b \in Array : buffer[b] \in Buffer
    BY DEF Tree, Made
  <1> HIDE DEF a, n
  \* The children p keeps, by their row before and after.
  <1>8. ASSUME NEW k \in 1..n, children[p][k] \notin gone
        PROVE  \E l \in 1..(n - 1) : /\ children'[p][l] = children[p][k]
                                     /\ elems'[a][l] = elems[a][k]
    <2>1. k # position + 1
      BY <1>2, <1>8
    <2>2. CASE k < position + 1
      <3>1. k \in 1..(n - 1)
        BY <1>1, <2>2
      <3>2. QED
        BY <1>3, <1>4, <2>2, <3>1
    <2>3. CASE ~ (k < position + 1)
      <3>1. k - 1 \in 1..(n - 1) /\ (k - 1) + 1 = k /\ ~ (k - 1 < position + 1)
        BY <1>1, <2>1, <2>3
      <3>2. children'[p][k - 1] = children[p][k] /\ elems'[a][k - 1] = elems[a][k]
        BY <1>3, <1>4, <3>1
      <3>3. QED
        BY <3>1, <3>2
    <2>4. QED
      BY <2>2, <2>3
  <1>9. ToSet(children'[p]) \subseteq ToSet(children[p]) \ gone
    <2>1. DOMAIN children'[p] = 1..(n - 1)
      BY <1>1, <1>3, LenProperties
    <2>2. DOMAIN children[p] = 1..n /\ p \in live \ gone
      BY <1>2, <1>6 DEF n
    <2>3. ASSUME NEW l \in 1..(n - 1)
          PROVE  children'[p][l] \in ToSet(children[p]) \ gone
      <3>1. CASE l < position + 1
        <4>1. l \in 1..n /\ children'[p][l] = children[p][l] /\ l # position + 1
          <5>1. l \in 1..n /\ l # position + 1
            BY <1>1, <3>1
          <5>2. QED
            BY <1>3, <3>1, <5>1
        <4>2. QED
          BY <1>2, <2>2, <4>1 DEF ToSet, n
      <3>2. CASE ~ (l < position + 1)
        <4>1. l + 1 \in 1..n /\ children'[p][l] = children[p][l + 1] /\ l + 1 # position + 1
          BY <1>1, <1>3, <3>2
        <4>2. QED
          BY <1>2, <2>2, <4>1 DEF ToSet, n
      <3>3. QED
        BY <3>1, <3>2
    <2>4. QED
      BY <2>1, <2>3 DEF ToSet
  <1>10. ASSUME NEW i \in live'
         PROVE  /\ At(i)' = At(i)
                /\ Valid(ptr[i])'
    <2>1. i \in live /\ i \notin gone /\ i \in Item
      BY <1>5, <1>6
    <2>2. CASE i \in ToSet(children[p])
      <3>1. PICK k \in 1..n : children[p][k] = i
        BY <1>6, <2>2 DEF ToSet, n
      <3>2. PICK l \in 1..(n - 1) : children'[p][l] = i /\ elems'[a][l] = elems[a][k]
        BY <1>8, <2>1, <3>1
      <3>3. At(i) = elems[a][k]
        BY <3>1, ChildIs DEF a, n
      <3>4. ptr'[i] = SlotPtr(a, buffer[a], l - 1) /\ (l - 1) + 1 = l
        BY <1>1, <1>3, <3>2
      <3>5. SlotPtr(a, buffer[a], l - 1) # RootPtr
        BY <1>1, SlotIsNotRoot DEF Tree
      <3>6. At(i)' = elems'[a][l]
        BY <3>4, <3>5 DEF At, Deref, SlotPtr
      <3>7. Valid(ptr[i])'
        <4>1. l - 1 < Len(elems'[a])
          BY <1>1, <1>4, <3>2
        <4>2. QED
          BY <1>5, <3>4, <4>1 DEF Valid, SlotPtr
      <3>8. QED
        BY <3>2, <3>3, <3>6, <3>7
    <2>3. CASE i \notin ToSet(children[p])
      <3>1. ptr'[i] = ptr[i]
        BY <1>3, <2>1, <2>3
      <3>2. CASE i = root
        <4>1. ptr[i] = RootPtr
          BY <3>2 DEF Tree
        <4>2. QED
          BY <3>1, <4>1 DEF At, Deref, Valid
      <3>3. CASE i # root
        <4> DEFINE q == Parent(i)
                   r == Row(i)
        <4>1. /\ q \in live /\ At(q) \in Array /\ r \in 0..(Len(children[q]) - 1)
              /\ children[q][r + 1] = i
          BY <2>1, <3>3, HasParent
        <4>2. Len(children[q]) \in Nat /\ Len(children[q]) = Len(elems[At(q)])
          BY <4>1, ItemIs
        <4>3. r + 1 \in 1..Len(children[q]) /\ (r + 1) - 1 = r
          BY <4>1, <4>2
        <4>4. ptr[i] = SlotPtr(At(q), buffer[At(q)], r)
          BY <4>1, <4>3, ChildIs
        <4>5. q # p /\ q \notin gone
          <5>1. i \in ToSet(children[q])
            BY <1>6, <4>1, <4>3 DEF ToSet
          <5>2. QED
            BY <1>2, <2>1, <2>3, <5>1
        <4>6. At(q) # a
          BY <4>1, <4>5 DEF a, Tree, OwnedOnce
        <4>7. elems'[At(q)] = elems[At(q)]
          BY <1>4, <4>1, <4>5, <4>6
        <4>8. ptr[i] # RootPtr
          BY <4>1, <4>4, SlotIsNotRoot DEF Tree
        <4> HIDE DEF q, r
        <4>9. /\ ptr[i].array = At(q) /\ ptr[i].slot = r
              /\ ptr[i].buffer = buffer[At(q)]
          BY <4>4 DEF SlotPtr
        <4>10. At(i)' = At(i)
          BY <3>1, <4>7, <4>8, <4>9 DEF At, Deref
        <4>11. Valid(ptr[i])'
          BY <1>5, <3>1, <4>1, <4>2, <4>7, <4>9 DEF Valid
        <4>12. QED
          BY <4>10, <4>11
      <3>4. QED
        BY <3>2, <3>3
    <2>4. QED
      BY <2>2, <2>3
  <1>11. Made'
    <2>1. live' \subseteq Item
      BY <1>5 DEF Tree, Made
    <2>2. ptr' \in [Item -> Ptr]
      <3>1. ptr \in [Item -> Ptr] /\ RootPtr \in Ptr
        BY DEF Tree, Made, Ptr
      <3>2. ASSUME NEW i \in Item PROVE ptr'[i] \in Ptr
        <4>1. CASE i \in gone
          BY <1>5, <3>1, <4>1
        <4>2. CASE i \notin gone /\ i \notin ToSet(children[p])
          BY <1>3, <3>1, <4>2
        <4>3. CASE i \notin gone /\ i \in ToSet(children[p])
          <5>1. PICK k \in 1..n : children[p][k] = i
            BY <1>6, <4>3 DEF ToSet, n
          <5>2. PICK l \in 1..(n - 1) : children'[p][l] = i
            BY <1>8, <4>3, <5>1
          <5>3. ptr'[i] = SlotPtr(a, buffer[a], l - 1)
            BY <1>3, <5>2
          <5>4. n <= MaxSize
            BY <1>1 DEF Tree
          <5>5. l - 1 \in 0..(MaxSize - 1)
            BY <1>1, <5>4, DocumentAssumption
          <5>6. QED
            BY <1>1, <1>7, <5>3, <5>5 DEF SlotPtr, Ptr
        <4>4. QED
          BY <4>1, <4>2, <4>3
      <3>3. ptr' = [i \in Item |-> ptr'[i]]
        BY DEF RemoveChildren
      <3>4. QED
        BY <3>2, <3>3
    <2>3. QED
      BY <1>3, <1>4, <1>5, <2>1, <2>2 DEF Tree, Made
  <1>12. root' \in live' /\ ptr'[root'] = RootPtr
    <2>1. root \in live /\ ptr[root] = RootPtr /\ root \in Item
      BY DEF Tree, Made
    <2>2. root \notin ToSet(children[p])
      BY <1>6, ChildIs DEF ToSet
    <2>3. QED
      BY <1>2, <1>3, <1>5, <2>1, <2>2
  <1>13. ASSUME NEW i \in live'
         PROVE  Shadowing(i)' /\ ToSet(children'[i]) \subseteq live'
    <2>1. i \in live /\ i \notin gone /\ i \in Item
      BY <1>5, <1>6
    <2>2. At(i)' = At(i) /\ Valid(ptr[i])'
      BY <1>10
    <2>3. Shadowing(i) /\ ToSet(children[i]) \subseteq live
      BY <2>1 DEF Tree
    <2>4. CASE i = p
      <3>1. At(i)' = a
        BY <2>2, <2>4 DEF a
      <3>2. ToSet(children'[p]) \subseteq live'
        BY <1>5, <1>9, <2>3, <2>4
      <3>3. QED
        BY <1>1, <1>3, <1>4, <1>5, <2>2, <2>4, <3>1, <3>2 DEF Shadowing
    <2>5. CASE i # p
      <3>1. children'[i] = children[i]
        BY <1>3, <2>1, <2>5
      <3>2. ToSet(children'[i]) \subseteq live'
        <4>1. ASSUME NEW z \in ToSet(children[i]) PROVE z \notin gone
          BY <1>2, <1>6, <2>1, <2>5 DEF ToSet
        <4>2. QED
          BY <1>5, <2>3, <3>1, <4>1
      <3>3. CASE At(i) \notin Array
        BY <2>2, <2>3, <3>1, <3>2, <3>3 DEF Shadowing
      <3>4. CASE At(i) \in Array
        <4>1. At(i) # a
          BY <2>1, <2>5, <3>4 DEF a, Tree, OwnedOnce
        <4>2. elems'[At(i)] = elems[At(i)]
          BY <1>4, <2>1, <3>4, <4>1
        <4>3. ASSUME NEW k \in 1..Len(children[i])
              PROVE  ptr'[children[i][k]] = SlotPtr(At(i), buffer[At(i)], k - 1)
          <5>1. /\ children[i][k] \in live
                /\ ptr[children[i][k]] = SlotPtr(At(i), buffer[At(i)], k - 1)
            BY <2>1, ChildIs
          <5>2. children[i][k] \notin ToSet(children[p])
            <6>1. ASSUME children[i][k] \in ToSet(children[p]) PROVE FALSE
              <7>1. PICK l \in 1..Len(children[p]) : children[p][l] = children[i][k]
                BY <1>6, <6>1 DEF ToSet
              <7>2. QED
                BY <2>1, <2>5, <7>1, OneParent
            <6>2. QED
              BY <6>1
          <5>3. children[i][k] \notin gone
            BY <1>2, <2>1, <2>5
          <5>4. QED
            BY <1>3, <1>6, <5>1, <5>2, <5>3
        <4>4. Len(children'[i]) = Len(elems'[At(i)'])
          BY <2>2, <2>3, <3>1, <3>4, <4>2 DEF Shadowing
        <4>5. \A k \in 1..Len(children'[i]) :
                 ptr'[children'[i][k]] = SlotPtr(At(i)', buffer'[At(i)'], k - 1)
          BY <1>5, <2>2, <3>1, <4>3
        <4>6. QED
          BY <2>2, <3>2, <3>4, <4>4, <4>5 DEF Shadowing
      <3>5. QED
        BY <3>3, <3>4
    <2>6. QED
      BY <2>4, <2>5
  <1>14. live' = Subtree(root)'
    <2> DEFINE down == [i \in live' |-> ToSet(children'[i])]
               S    == Reached(root', down)
    <2>1. Subtree(root)' = S
      BY DEF Subtree
    <2>2. /\ root' \in DOMAIN down /\ DOMAIN down = live'
          /\ \A i \in DOMAIN down : down[i] = ToSet(children'[i])
          /\ \A i \in DOMAIN down : down[i] \subseteq DOMAIN down
      BY <1>12, <1>13
    <2>3. /\ S \subseteq live' /\ root' \in S
          /\ \A i \in S : ToSet(children'[i]) \subseteq S
      <3> HIDE DEF down
      <3> QED
        BY <2>2, ReachedIs
    <2> HIDE DEF S
    <2>4. \A i \in (S \cup gone) \cap live : ToSet(children[i]) \subseteq S \cup gone
      <3>1. ASSUME NEW i \in S, NEW z \in ToSet(children[i]) PROVE z \in S \cup gone
        <4>1. i \in live /\ i \notin gone /\ i \in Item
          BY <1>5, <1>6, <2>3
        <4>2. CASE i # p
          BY <1>3, <2>3, <3>1, <4>1, <4>2
        <4>3. CASE i = p /\ z \notin gone
          <5>1. PICK k \in 1..n : children[p][k] = z
            BY <1>6, <3>1, <4>3 DEF ToSet, n
          <5>2. PICK l \in 1..(n - 1) : children'[p][l] = z
            BY <1>8, <4>3, <5>1
          <5>3. DOMAIN children'[p] = 1..(n - 1)
            BY <1>1, <1>3, LenProperties
          <5>4. z \in ToSet(children'[p])
            BY <5>2, <5>3 DEF ToSet
          <5>5. QED
            BY <2>3, <4>3, <5>4
        <4>4. QED
          BY <4>2, <4>3
      <3>2. QED
        BY <1>2, <3>1
    <2>5. live \subseteq S \cup gone
      <3>1. root \in live /\ live = Subtree(root)
        BY DEF Tree
      <3>2. root \in S \cup gone
        BY <1>5, <2>3
      <3>3. QED
        BY <2>4, <3>1, <3>2, SubtreeIs
    <2>6. QED
      BY <1>5, <2>1, <2>3, <2>5
  <1>15. OwnedOnce'
    <2>1. ASSUME NEW i \in live', NEW j \in live', At(i)' \in Array, At(i)' = At(j)'
          PROVE  i = j
      <3>1. i \in live /\ j \in live /\ At(i) \in Array /\ At(i) = At(j)
        BY <1>5, <1>10, <2>1
      <3>2. QED
        BY <3>1 DEF Tree, OwnedOnce
    <2>2. ASSUME NEW b \in Array, elems'[b] # <<>>
          PROVE  \E i \in live' : At(i)' = b
      <3>1. CASE b = a
        BY <1>2, <1>5, <1>10, <3>1 DEF a
      <3>2. CASE b # a
        <4>1. PICK i \in live : At(i) = b
          BY <1>4, <2>2, <3>2 DEF Tree, OwnedOnce
        <4>2. i \notin gone
          BY <1>4, <2>2, <3>2, <4>1
        <4>3. QED
          BY <1>5, <1>10, <4>1, <4>2
      <3>3. QED
        BY <3>1, <3>2
    <2>3. QED
      BY <2>1, <2>2 DEF OwnedOnce
  <1>16. \A i \in Item \ live' : children'[i] = <<>>
    BY <1>2, <1>3, <1>5 DEF Tree
  <1>17. \A b \in Array : Len(elems'[b]) <= MaxSize
    <2>1. ASSUME NEW b \in Array PROVE Len(elems'[b]) <= MaxSize
      <3>1. /\ Len(elems'[b]) <= Len(elems[b]) /\ Len(elems[b]) <= MaxSize
            /\ Len(elems'[b]) \in Nat /\ Len(elems[b]) \in Nat
        BY <1>4, LenProperties DEF Tree, Made
      <3>2. QED
        BY <3>1, DocumentAssumption
    <2>2. QED
      BY <2>1
  <1>18. Tree'
    BY <1>11, <1>12, <1>13, <1>14, <1>15, <1>16, <1>17 DEF Tree
  <1>19. QED
    BY <1>5, <1>10, <1>18

(* The document opened ---------------------------------------------------- *)

\* There is a first place for the elements of a freshly made document.
LEMMA FirstBufferIs == FirstBuffer \in Buffer
  <1> DEFINE R == OpToRel(<, Nat)
  <1>1. IsWellFoundedOn(R, Nat)
    BY NatLessThanWellFounded
  <1>2. Buffer \subseteq Nat /\ Buffer # {}
    BY DocumentAssumption
  <1>3. \A x, y \in Nat : y < x => <<y, x>> \in R
    BY DEF OpToRel
  <1>4. PICK b \in Buffer : \A c \in Buffer : ~ (<<c, b>> \in R)
    <2> HIDE DEF R
    <2> QED
      BY <1>1, <1>2, WFMin
  <1>5. \A c \in Buffer : b <= c
    <2>1. ASSUME NEW c \in Buffer PROVE b <= c
      <3>1. ~ (c < b)
        BY <1>2, <1>3, <1>4
      <3>2. QED
        BY <1>2, <3>1
    <2>2. QED
      BY <2>1
  <1>6. QED
    BY <1>5 DEF FirstBuffer

\* The places populate() makes an item for: m_root_data, and the slot of each element.
LEMMA TakenIs ==
    /\ RootPtr \in Taken
    /\ \A a \in Array : \A k \in 1..Len(Contents[a]) : SlotPtr(a, FirstBuffer, k - 1) \in Taken
    /\ \A p \in Taken : p # RootPtr =>
          \E a \in Array : \E k \in 1..Len(Contents[a]) : p = SlotPtr(a, FirstBuffer, k - 1)
  <1>1. RootPtr \in Taken
    BY DEF Taken, Places
  <1>2. \A a \in Array : Len(Contents[a]) \in Nat /\ Len(Contents[a]) <= MaxSize
    BY DocumentAssumption, TreeAssumption, LenProperties
  <1>3. ASSUME NEW a \in Array, NEW k \in 1..Len(Contents[a])
        PROVE  SlotPtr(a, FirstBuffer, k - 1) \in Taken
    <2>1. k - 1 \in 0..MaxSize /\ k - 1 < Len(Contents[a])
      BY <1>2, DocumentAssumption
    <2>2. SlotPtr(a, FirstBuffer, k - 1) \in Places
      BY <2>1 DEF Places
    <2>3. /\ SlotPtr(a, FirstBuffer, k - 1).array = a
          /\ SlotPtr(a, FirstBuffer, k - 1).slot = k - 1
      BY DEF SlotPtr
    <2>4. QED
      BY <2>1, <2>2, <2>3 DEF Taken
  <1>4. ASSUME NEW p \in Taken, p # RootPtr
        PROVE  \E a \in Array : \E k \in 1..Len(Contents[a]) : p = SlotPtr(a, FirstBuffer, k - 1)
    <2>1. PICK a \in Array, m \in 0..MaxSize : p = SlotPtr(a, FirstBuffer, m)
      BY <1>4 DEF Taken, Places
    <2>2. m < Len(Contents[a])
      BY <1>4, <2>1 DEF Taken, SlotPtr
    <2>3. m + 1 \in 1..Len(Contents[a]) /\ (m + 1) - 1 = m
      BY <1>2, <2>2
    <2>4. QED
      BY <2>1, <2>3
  <1>5. QED
    BY <1>1, <1>3, <1>4

\* initialize_root_items makes the tree, at whatever addresses the items are.
LEMMA InitTree ==
    ASSUME Init
    PROVE  /\ Tree
           /\ root \in Item /\ announced = [i \in Item |-> Len(children[i])]
  <1> DEFINE contents(at, i) == IF \E p \in Taken : at[p] = i
                                THEN Deref(CHOOSE p \in Taken : at[p] = i) ELSE Inserted
  <1>1. PICK at \in [Taken -> Item] :
          /\ \A p, q \in Taken : p # q => at[p] # at[q]
          /\ live = {at[p] : p \in Taken}
          /\ root = at[RootPtr]
          /\ ptr = [i \in Item |-> IF \E p \in Taken : at[p] = i
                                   THEN CHOOSE p \in Taken : at[p] = i ELSE RootPtr]
          /\ children = [i \in Item |->
               IF contents(at, i) \notin Array THEN <<>>
               ELSE [k \in 1..Len(Contents[contents(at, i)]) |->
                       at[SlotPtr(contents(at, i), FirstBuffer, k - 1)]]]
          /\ announced = [i \in Item |-> Len(children[i])]
    BY DEF Init
  <1>2. /\ elems = Contents /\ buffer = [a \in Array |-> FirstBuffer]
        /\ capacity = [a \in Array |-> Len(Contents[a])]
    BY DEF Init
  <1>3. /\ \A a \in Array : /\ Contents[a] \in Seq(Cell) /\ Len(Contents[a]) \in Nat
                            /\ DOMAIN Contents[a] = 1..Len(Contents[a])
                            /\ Len(Contents[a]) <= MaxSize
        /\ Contents \in [Array -> Seq(Cell)] /\ FirstBuffer \in Buffer
    BY DocumentAssumption, TreeAssumption, FirstBufferIs, LenProperties
  <1>4. ASSUME NEW p \in Taken
        PROVE  /\ at[p] \in live /\ at[p] \in Item /\ ptr[at[p]] = p
               /\ contents(at, at[p]) = Deref(p) /\ At(at[p]) = Deref(p)
    <2>1. (CHOOSE q \in Taken : at[q] = at[p]) = p
      BY <1>1
    <2>2. at[p] \in live /\ at[p] \in Item
      BY <1>1
    <2>3. ptr[at[p]] = p
      BY <1>1, <2>1, <2>2
    <2>4. contents(at, at[p]) = Deref(p)
      BY <2>1
    <2>5. QED
      BY <2>2, <2>3, <2>4 DEF At
  <1>5. /\ RootPtr \in Taken
        /\ \A a \in Array : \A k \in 1..Len(Contents[a]) : SlotPtr(a, FirstBuffer, k - 1) \in Taken
        /\ \A p \in Taken : p # RootPtr =>
              \E a \in Array : \E k \in 1..Len(Contents[a]) : p = SlotPtr(a, FirstBuffer, k - 1)
    BY TakenIs
  <1>6. ASSUME NEW a \in Array, NEW k \in 1..Len(Contents[a])
        PROVE  /\ SlotPtr(a, FirstBuffer, k - 1) # RootPtr
               /\ Deref(SlotPtr(a, FirstBuffer, k - 1)) = Contents[a][k]
               /\ Valid(SlotPtr(a, FirstBuffer, k - 1))
    <2> DEFINE p == SlotPtr(a, FirstBuffer, k - 1)
    <2>1. p.buffer # RootPtr.buffer /\ p.buffer = FirstBuffer
      BY <1>3, DocumentAssumption DEF SlotPtr, RootPtr, Null
    <2>2. p # RootPtr /\ p.array = a /\ p.slot = k - 1 /\ (k - 1) + 1 = k
          /\ k - 1 < Len(Contents[a])
      BY <1>3, <2>1 DEF SlotPtr
    <2> HIDE DEF p
    <2>3. Deref(p) = Contents[a][k]
      BY <1>2, <2>2 DEF Deref
    <2>4. Valid(p)
      BY <1>2, <2>1, <2>2 DEF Valid
    <2>5. QED
      BY <2>2, <2>3, <2>4 DEF p
  <1>7. Deref(RootPtr) = Root /\ Valid(RootPtr) /\ Root \in Array
    BY DocumentAssumption DEF Deref, Valid
  <1>8. ASSUME NEW p \in Taken
        PROVE  /\ Deref(p) \notin Array => children[at[p]] = <<>>
               /\ Deref(p) \in Array =>
                    children[at[p]] = [k \in 1..Len(Contents[Deref(p)]) |->
                                         at[SlotPtr(Deref(p), FirstBuffer, k - 1)]]
    <2> HIDE DEF contents
    <2>1. children[at[p]] = IF contents(at, at[p]) \notin Array THEN <<>>
               ELSE [k \in 1..Len(Contents[contents(at, at[p])]) |->
                       at[SlotPtr(contents(at, at[p]), FirstBuffer, k - 1)]]
      BY <1>1, <1>4
    <2>2. contents(at, at[p]) = Deref(p)
      BY <1>4
    <2>3. QED
      BY <2>1, <2>2
  <1>9. ASSUME NEW i \in Item \ live PROVE children[i] = <<>> /\ ptr[i] = RootPtr
    <2>1. ~ \E p \in Taken : at[p] = i
      BY <1>1
    <2>2. contents(at, i) \notin Array
      BY <2>1, DocumentAssumption
    <2>3. ptr[i] = RootPtr
      BY <1>1, <2>1
    <2> HIDE DEF contents
    <2>4. QED
      BY <1>1, <2>2, <2>3
  <1> HIDE DEF contents
  <1>10. ASSUME NEW i \in live PROVE \E p \in Taken : at[p] = i
    BY <1>1
  <1>11. ASSUME NEW p \in Taken, Deref(p) \in Array
         PROVE  /\ children[at[p]] \in Seq(live)
                /\ Len(children[at[p]]) = Len(Contents[Deref(p)])
                /\ \A k \in 1..Len(Contents[Deref(p)]) :
                      children[at[p]][k] = at[SlotPtr(Deref(p), FirstBuffer, k - 1)]
    <2> DEFINE a == Deref(p)
               n == Len(Contents[a])
               s == [k \in 1..n |-> at[SlotPtr(a, FirstBuffer, k - 1)]]
    <2>1. a \in Array /\ n \in Nat /\ children[at[p]] = s
      BY <1>3, <1>8, <1>11
    <2>2. \A k \in 1..n : at[SlotPtr(a, FirstBuffer, k - 1)] \in live
      BY <1>4, <1>5, <2>1
    <2>3. s \in [1..n -> live]
      <3> HIDE DEF n, a
      <3> QED
        BY <2>2
    <2>4. s \in Seq(live) /\ Len(s) = n
      <3>1. DOMAIN s = 1..n
        OBVIOUS
      <3> HIDE DEF s, n
      <3>2. s \in Seq(live)
        BY <2>1, <2>3
      <3>3. QED
        BY <2>1, <3>1, <3>2, LenProperties
    <2>5. \A k \in 1..n : s[k] = at[SlotPtr(a, FirstBuffer, k - 1)]
      OBVIOUS
    <2> HIDE DEF s
    <2>6. QED
      BY <2>1, <2>4, <2>5
  <1>12. ASSUME NEW p \in Taken, NEW q \in Taken, Deref(p) \in Array, Deref(p) = Deref(q)
         PROVE  p = q
    <2>1. ASSUME NEW t \in Taken, t # RootPtr PROVE Deref(t) # Root
      <3>1. PICK a \in Array : \E k \in 1..Len(Contents[a]) : t = SlotPtr(a, FirstBuffer, k - 1)
        BY <1>5, <2>1
      <3>2. PICK k \in 1..Len(Contents[a]) : t = SlotPtr(a, FirstBuffer, k - 1)
        BY <3>1
      <3>3. Deref(t) \in ToSet(Contents[a])
        BY <1>3, <1>6, <3>2 DEF ToSet
      <3>4. QED
        BY <3>3, TreeAssumption
    <2>2. CASE p = RootPtr \/ q = RootPtr
      BY <1>7, <1>12, <2>1, <2>2
    <2>3. CASE p # RootPtr /\ q # RootPtr
      <3>1. PICK a \in Array : \E k \in 1..Len(Contents[a]) : p = SlotPtr(a, FirstBuffer, k - 1)
        BY <1>5, <2>3
      <3>2. PICK k \in 1..Len(Contents[a]) : p = SlotPtr(a, FirstBuffer, k - 1)
        BY <3>1
      <3>3. PICK b \in Array : \E l \in 1..Len(Contents[b]) : q = SlotPtr(b, FirstBuffer, l - 1)
        BY <1>5, <2>3
      <3>4. PICK l \in 1..Len(Contents[b]) : q = SlotPtr(b, FirstBuffer, l - 1)
        BY <3>3
      <3>5. Contents[a][k] = Contents[b][l] /\ Contents[a][k] \in Array
        BY <1>6, <1>12, <3>2, <3>4
      <3>6. a = b /\ k = l
        BY <3>5, TreeAssumption
      <3>7. QED
        BY <3>2, <3>4, <3>6
    <2>4. QED
      BY <2>2, <2>3
  <1>13. Made
    <2>1. \A i \in Item : children[i] \in Seq(Item) /\ ptr[i] \in Ptr
      <3>1. ASSUME NEW i \in Item PROVE children[i] \in Seq(Item) /\ ptr[i] \in Ptr
        <4>1. RootPtr \in Ptr /\ <<>> \in Seq(Item) /\ live \subseteq Item
          BY <1>1, EmptySeq DEF Ptr
        <4>2. CASE i \notin live
          BY <1>9, <4>1, <4>2
        <4>3. CASE i \in live
          <5>1. PICK p \in Taken : at[p] = i
            BY <1>10, <4>3
          <5>2. ptr[i] = p
            BY <1>4, <5>1
          <5>3. p \in Ptr
            <6>1. CASE p = RootPtr
              BY <4>1, <6>1
            <6>2. CASE p # RootPtr
              <7>1. PICK a \in Array :
                       \E k \in 1..Len(Contents[a]) : p = SlotPtr(a, FirstBuffer, k - 1)
                BY <1>5, <6>2
              <7>2. PICK k \in 1..Len(Contents[a]) : p = SlotPtr(a, FirstBuffer, k - 1)
                BY <7>1
              <7>3. k - 1 \in 0..(MaxSize - 1)
                BY <1>3, DocumentAssumption
              <7>4. QED
                BY <1>3, <7>2, <7>3 DEF Ptr, SlotPtr
            <6>3. QED
              BY <6>1, <6>2
          <5>4. children[i] \in Seq(Item)
            <6>1. CASE Deref(p) \in Array
              <7>1. children[i] \in Seq(live)
                BY <1>11, <5>1, <6>1
              <7>2. QED
                BY <4>1, <7>1, SeqMonotonic
            <6>2. CASE Deref(p) \notin Array
              BY <1>8, <4>1, <5>1, <6>2
            <6>3. QED
              BY <6>1, <6>2
          <5>5. QED
            BY <5>2, <5>3, <5>4
        <4>4. QED
          BY <4>2, <4>3
      <3>2. QED
        BY <3>1
    <2>2. children = [i \in Item |-> children[i]] /\ ptr = [i \in Item |-> ptr[i]]
      BY <1>1
    <2>3. children \in [Item -> Seq(Item)] /\ ptr \in [Item -> Ptr]
      BY <2>1, <2>2
    <2>4. live \subseteq Item
      BY <1>1
    <2>5. capacity \in [Array -> 0..MaxSize]
      BY <1>2, <1>3, DocumentAssumption
    <2>6. QED
      BY <1>2, <1>3, <2>3, <2>4, <2>5 DEF Made
  <1>14. root \in live /\ ptr[root] = RootPtr /\ root \in Item
    BY <1>1, <1>4, <1>5
  <1>15. ASSUME NEW i \in live
         PROVE  Shadowing(i) /\ ToSet(children[i]) \subseteq live
    <2>1. PICK p \in Taken : at[p] = i
      BY <1>10
    <2>2. At(i) = Deref(p) /\ ptr[i] = p
      BY <1>4, <2>1
    <2>3. Valid(ptr[i])
      <3>1. CASE p = RootPtr
        BY <1>7, <2>2, <3>1
      <3>2. CASE p # RootPtr
        BY <1>5, <1>6, <2>2, <3>2
      <3>3. QED
        BY <3>1, <3>2
    <2>4. CASE Deref(p) \notin Array
      <3>1. children[i] = <<>>
        BY <1>8, <2>1, <2>4
      <3>2. ToSet(children[i]) = {}
        BY <3>1 DEF ToSet
      <3>3. QED
        BY <2>2, <2>3, <2>4, <3>1, <3>2 DEF Shadowing
    <2>5. CASE Deref(p) \in Array
      <3>1. /\ children[i] \in Seq(live) /\ Len(children[i]) = Len(Contents[Deref(p)])
            /\ \A k \in 1..Len(Contents[Deref(p)]) :
                  children[i][k] = at[SlotPtr(Deref(p), FirstBuffer, k - 1)]
        BY <1>11, <2>1, <2>5
      <3>2. \A k \in 1..Len(children[i]) :
               ptr[children[i][k]] = SlotPtr(Deref(p), buffer[Deref(p)], k - 1)
        BY <1>2, <1>4, <1>5, <2>5, <3>1
      <3>3. ToSet(children[i]) \subseteq live
        BY <3>1, LenProperties DEF ToSet
      <3>4. QED
        BY <1>2, <2>2, <2>3, <2>5, <3>1, <3>2, <3>3 DEF Shadowing
    <2>6. QED
      BY <2>4, <2>5
  <1>16. live = Subtree(root)
    <2> DEFINE down == [i \in live |-> ToSet(children[i])]
               S    == Reached(root, down)
               next == [a \in Array |-> ToSet(Contents[a]) \cap Array]
               B    == {a \in Array : \E i \in S : At(i) = a}
    <2>1. Subtree(root) = S
      BY DEF Subtree
    <2>2. /\ root \in DOMAIN down /\ DOMAIN down = live
          /\ \A i \in DOMAIN down : down[i] = ToSet(children[i])
          /\ \A i \in DOMAIN down : down[i] \subseteq DOMAIN down
      BY <1>14, <1>15
    <2>3. S \subseteq live /\ root \in S /\ \A i \in S : ToSet(children[i]) \subseteq S
      <3> HIDE DEF down
      <3> QED
        BY <2>2, ReachedIs
    <2> HIDE DEF S
    <2>4. ASSUME NEW i \in S, At(i) \in Array, NEW k \in 1..Len(Contents[At(i)])
          PROVE  at[SlotPtr(At(i), FirstBuffer, k - 1)] \in S
      <3>1. PICK p \in Taken : at[p] = i
        BY <1>10, <2>3
      <3>2. Deref(p) = At(i)
        BY <1>4, <3>1
      <3>3. /\ children[i] \in Seq(live) /\ k \in 1..Len(children[i])
            /\ children[i][k] = at[SlotPtr(At(i), FirstBuffer, k - 1)]
        BY <1>11, <2>4, <3>1, <3>2
      <3>4. children[i][k] \in ToSet(children[i])
        BY <3>3, LenProperties DEF ToSet
      <3>5. QED
        BY <2>3, <3>3, <3>4
    <2>5. Root \in B
      <3>1. At(root) = Root
        BY <1>1, <1>4, <1>5, <1>7
      <3>2. QED
        BY <1>7, <2>3, <3>1
    <2>6. \A a \in B \cap DOMAIN next : next[a] \subseteq B
      <3>1. ASSUME NEW a \in B, NEW e \in ToSet(Contents[a]) \cap Array PROVE e \in B
        <4>1. PICK i \in S : At(i) = a
          OBVIOUS
        <4>2. a \in Array
          OBVIOUS
        <4>3. PICK k \in 1..Len(Contents[a]) : Contents[a][k] = e
          BY <1>3, <4>2 DEF ToSet
        <4>4. SlotPtr(a, FirstBuffer, k - 1) \in Taken
          BY <1>5, <4>2
        <4>5. At(at[SlotPtr(a, FirstBuffer, k - 1)]) = e
          BY <1>4, <1>6, <4>2, <4>3, <4>4
        <4>6. at[SlotPtr(a, FirstBuffer, k - 1)] \in S
          BY <2>4, <4>1, <4>2
        <4>7. QED
          BY <4>5, <4>6
      <3>2. QED
        BY <3>1
    <2>7. Array \subseteq B
      <3>1. /\ Root \in DOMAIN next /\ \A a \in DOMAIN next : next[a] \subseteq DOMAIN next
            /\ Reached(Root, next) = Array
        BY <1>7, TreeAssumption
      <3> HIDE DEF next, B
      <3>2. QED
        BY <2>5, <2>6, <3>1, ReachedIs
    <2>8. ASSUME NEW i \in live PROVE i \in S
      <3>1. PICK p \in Taken : at[p] = i
        BY <1>10
      <3>2. CASE p = RootPtr
        BY <1>1, <2>3, <3>1, <3>2
      <3>3. CASE p # RootPtr
        <4>1. PICK a \in Array : \E k \in 1..Len(Contents[a]) : p = SlotPtr(a, FirstBuffer, k - 1)
          BY <1>5, <3>3
        <4>2. PICK k \in 1..Len(Contents[a]) : p = SlotPtr(a, FirstBuffer, k - 1)
          BY <4>1
        <4>3. PICK j \in S : At(j) = a
          BY <2>7
        <4>4. QED
          BY <2>4, <3>1, <4>2, <4>3
      <3>4. QED
        BY <3>2, <3>3
    <2>9. QED
      BY <2>1, <2>3, <2>7, <2>8
  <1>17. OwnedOnce
    <2>1. ASSUME NEW i \in live, NEW j \in live, At(i) \in Array, At(i) = At(j) PROVE i = j
      <3>1. PICK p \in Taken : at[p] = i
        BY <1>10
      <3>2. PICK q \in Taken : at[q] = j
        BY <1>10
      <3>3. QED
        BY <1>4, <1>12, <2>1, <3>1, <3>2
    <2>2. ASSUME NEW a \in Array PROVE \E i \in live : At(i) = a
      <3>1. CASE a = Root
        BY <1>1, <1>4, <1>5, <1>7, <3>1
      <3>2. CASE a # Root
        <4> DEFINE next == [b \in Array |-> ToSet(Contents[b]) \cap Array]
        <4>1. /\ Root \in DOMAIN next /\ \A b \in DOMAIN next : next[b] \subseteq DOMAIN next
              /\ Reached(Root, next) = Array /\ DOMAIN next = Array
              /\ \A b \in Array : next[b] = ToSet(Contents[b]) \cap Array
          BY <1>7, TreeAssumption
        <4>2. PICK b \in Array : a \in ToSet(Contents[b])
          <5> HIDE DEF next
          <5>1. PICK b \in Reached(Root, next) : a \in next[b]
            BY <3>2, <4>1, ReachedFrom
          <5>2. QED
            BY <4>1, <5>1
        <4>3. PICK k \in 1..Len(Contents[b]) : Contents[b][k] = a
          BY <1>3, <4>2 DEF ToSet
        <4>4. QED
          BY <1>4, <1>5, <1>6, <4>3
      <3>3. QED
        BY <3>1, <3>2
    <2>3. QED
      BY <2>1, <2>2 DEF OwnedOnce
  <1>18. Tree
    BY <1>2, <1>3, <1>9, <1>13, <1>14, <1>15, <1>16, <1>17 DEF Tree
  <1>19. QED
    BY <1>1, <1>14, <1>18

(* The queue of one selection --------------------------------------------- *)

\* The items of the indices still to be deleted.
Queued == {queue[k].item : k \in 1..Len(queue)}

\* Those whose removal is announced as one of the rows of p.
Waiting(p) == Queued \cap ToSet(children[p])

\* How the announced row counts are kept from running below zero: an item is in the
\* queue once, and the view was told of as many rows of an item as removals of its
\* children are to come.
Counting ==
    /\ \A i \in Item \ live : announced[i] = 0
    /\ \A k, l \in 1..Len(queue) : queue[k].item = queue[l].item => k = l
    /\ mode = "idle" => queue = <<>>
    /\ mode = "collect" =>
        /\ Queued \subseteq selection /\ selection \subseteq live
        /\ \A i \in live : announced[i] = Len(children[i])
    /\ mode = "delete" =>
        /\ queue # <<>>
        /\ \A p \in live : Cardinality(Waiting(p)) <= announced[p]

Shape == TypeOK /\ Tree /\ Counting

(* Lists ----------------------------------------------------------------- *)

\* The loop takes the first index off the queue.
LEMMA TailIs ==
    ASSUME NEW S, NEW s \in Seq(S), s # <<>>
    PROVE  /\ Head(s) = s[1] /\ s[1] \in S /\ 1 \in 1..Len(s) /\ Len(s) \in Nat \ {0}
           /\ Tail(s) \in Seq(S) /\ Len(Tail(s)) = Len(s) - 1
           /\ \A k \in 1..(Len(s) - 1) : k + 1 \in 1..Len(s) /\ Tail(s)[k] = s[k + 1]
  <1>1. Len(s) \in Nat \ {0} /\ Head(s) = s[1]
    BY EmptySeq
  <1>2. 1 \in 1..Len(s)
    BY <1>1
  <1>3. s[1] \in S
    BY <1>2, ElementOfSeq
  <1>4. /\ Tail(s) \in Seq(S) /\ Len(Tail(s)) = Len(s) - 1
        /\ \A k \in 1..(Len(s) - 1) : Tail(s)[k] = s[k + 1]
    BY HeadTailProperties
  <1>5. \A k \in 1..(Len(s) - 1) : k + 1 \in 1..Len(s)
    BY <1>1
  <1>6. QED
    BY <1>1, <1>2, <1>3, <1>4, <1>5

\* A list has no more different elements than places.
LEMMA ListSize ==
    ASSUME NEW S, NEW s \in Seq(S)
    PROVE  IsFiniteSet(ToSet(s)) /\ Cardinality(ToSet(s)) <= Len(s)
  <1>1. Len(s) \in Nat /\ DOMAIN s = 1..Len(s) /\ s \in [1..Len(s) -> S]
    BY LenProperties
  <1>2. s \in Surjection(1..Len(s), ToSet(s))
    BY <1>1 DEF Surjection, ToSet
  <1>3. IsFiniteSet(1..Len(s)) /\ Cardinality(1..Len(s)) = Len(s)
    BY SMTT(60), <1>1, FS_Interval
  <1>4. QED
    BY <1>2, <1>3, FS_Surjection

(* The parts of a step ---------------------------------------------------- *)

\* What the invariant and the types say together of the items.
LEMMA TypesAre ==
    TypeOK <=> /\ Made /\ root \in Item /\ announced \in [Item -> Nat]
               /\ selection \subseteq Item /\ mixed \in BOOLEAN /\ queue \in Seq(Index)
               /\ mode \in {"idle", "collect", "delete", "dead"}
  BY DEF TypeOK, Made

\* What waits for an item is finite, as its children are.
LEMMA WaitingIsFinite ==
    ASSUME Tree, NEW p \in live
    PROVE  /\ IsFiniteSet(ToSet(children[p]))
           /\ Cardinality(ToSet(children[p])) <= Len(children[p])
  BY ItemIs, ListSize

\* initialize_root_items makes items of all parts of the invariant.
LEMMA ShapeInit == Init => Shape
  <1> SUFFICES ASSUME Init PROVE Shape
    OBVIOUS
  <1>1. Tree /\ root \in Item /\ announced = [i \in Item |-> Len(children[i])]
    BY InitTree
  <1>2. /\ selection = {} /\ mixed = FALSE /\ queue = <<>> /\ mode = "idle"
    BY DEF Init
  <1>3. \A i \in Item : children[i] \in Seq(Item)
    BY <1>1 DEF Tree, Made
  <1>4. announced \in [Item -> Nat]
    BY <1>1, <1>3, LenProperties
  <1>5. TypeOK
    BY <1>1, <1>2, <1>4, TypesAre, EmptySeq DEF Tree
  <1>6. \A i \in Item \ live : announced[i] = 0
    BY <1>1, EmptySeq DEF Tree
  <1>7. Counting
    BY <1>2, <1>6 DEF Counting
  <1>8. QED
    BY <1>1, <1>5, <1>7 DEF Shape

\* The item an insertion is asked at has a parent, and a row among its children.
LEMMA InsertPlace ==
    ASSUME Tree, NEW i \in live, i # root, NEW offset \in {0, 1}
    PROVE  /\ Parent(i) \in live /\ At(Parent(i)) \in Array
           /\ Row(i) + offset \in 0..Len(children[Parent(i)])
  <1>1. /\ Parent(i) \in live /\ At(Parent(i)) \in Array
        /\ Row(i) \in 0..(Len(children[Parent(i)]) - 1)
    BY HasParent
  <1>2. Len(children[Parent(i)]) \in Nat
    BY <1>1, ItemIs
  <1>3. QED
    BY <1>1, <1>2

\* insert_value keeps the items, and with it the view is told of one row more.
LEMMA InsertKeeps ==
    ASSUME Shape, NEW i \in Item, NEW offset \in {0, 1}, InsertValue(i, offset)
    PROVE  Shape'
  <1> DEFINE p == Parent(i)
  <1>1. /\ mode = "idle" /\ i \in live /\ i # root
        /\ announced' = [announced EXCEPT ![p] = AnnounceInsertion(@)]
        /\ UNCHANGED <<selection, mixed, queue, mode>>
    BY DEF InsertValue
  <1>2. PICK new \in Item \ live : InsertChildren(p, Row(i) + offset, new)
    BY DEF InsertValue
  <1>3. p \in live /\ At(p) \in Array /\ Row(i) + offset \in 0..Len(children[p])
    BY <1>1, InsertPlace DEF Shape
  <1> HIDE DEF p
  <1>4. Tree' /\ live' = live \cup {new} /\ root' = root
    BY <1>2, <1>3, InsertStep DEF Shape
  <1>5. announced' \in [Item -> Nat]
    BY SMTT(60), <1>1, <1>3 DEF Shape, TypeOK, AnnounceInsertion
  <1>6. TypeOK'
    BY <1>1, <1>4, <1>5, TypesAre DEF Shape, TypeOK, Tree, Made
  <1>7. Counting'
    <2>1. \A j \in Item \ live' : announced'[j] = 0
      BY <1>1, <1>3, <1>4, <1>5 DEF Shape, Counting, TypeOK
    <2>2. mode' = "idle" /\ queue' = <<>>
      BY <1>1 DEF Shape, Counting
    <2>3. QED
      BY <2>1, <2>2 DEF Counting
  <1>8. QED
    BY <1>4, <1>6, <1>7 DEF Shape

\* An edited value is another value in the same place.
LEMMA EditKeeps ==
    ASSUME Shape, NEW i \in Item, NEW leaf \in Settable, EditValue(i, leaf)
    PROVE  Shape'
  <1>1. Tree'
    BY EditStep DEF Shape
  <1>2. UNCHANGED <<live, root, children, announced, selection, mixed, queue, mode>>
    BY DEF EditValue, items
  <1>3. TypeOK'
    BY <1>1, <1>2 DEF Shape, TypeOK, Tree, Made
  <1>4. Counting'
    BY <1>2 DEF Shape, Counting, Queued, Waiting
  <1>5. QED
    BY <1>1, <1>3, <1>4 DEF Shape

\* A step that changes neither the document nor its items keeps the tree.
LEMMA TreeStays ==
    ASSUME Tree, UNCHANGED <<data, live, root, ptr, children>>
    PROVE  Tree'
  <1>1. /\ elems' = elems /\ buffer' = buffer /\ capacity' = capacity /\ live' = live
        /\ root' = root /\ ptr' = ptr /\ children' = children
    BY DEF data
  <1>2. \A i : At(i)' = At(i) /\ (Valid(ptr[i])' <=> Valid(ptr[i])) /\ Subtree(i)' = Subtree(i)
    BY <1>1 DEF At, Deref, Valid, Subtree
  <1>3. \A i : Shadowing(i)' <=> Shadowing(i)
    BY <1>1, <1>2 DEF Shadowing
  <1>4. Made' /\ OwnedOnce'
    BY <1>1, <1>2 DEF Tree, Made, OwnedOnce
  <1>5. QED
    BY <1>1, <1>2, <1>3, <1>4 DEF Tree

\* A deletion starts with a selection of items that live, and nothing queued.
LEMMA SelectKeeps ==
    ASSUME Shape, NEW S \in SUBSET live, DeleteSelected(S)
    PROVE  Shape'
  <1>1. /\ mode = "idle" /\ selection' = S /\ mode' = "collect"
        /\ mixed' = (mixed \/ \E i, j \in S : TreeDepth(i) # TreeDepth(j))
        /\ \A i \in live : announced[i] = Len(children[i])
        /\ UNCHANGED <<data, items, queue>>
    BY DEF DeleteSelected
  <1>2. Tree' /\ queue = <<>>
    BY <1>1, TreeStays DEF Shape, Counting, items
  <1>3. TypeOK'
    BY <1>1 DEF Shape, TypeOK, data, items
  <1>4. Counting'
    <2>1. Queued' = {}
      BY <1>1, <1>2 DEF Queued
    <2>2. QED
      BY <1>1, <1>2, <2>1 DEF Shape, Counting, items
  <1>5. QED
    BY <1>2, <1>3, <1>4 DEF Shape

\* The row of an item is one a QModelIndex can have.
LEMMA RowIs ==
    ASSUME Tree, NEW i \in live
    PROVE  Row(i) \in 0..MaxSize
  <1>1. CASE i = root
    BY <1>1, DocumentAssumption DEF Row
  <1>2. CASE i # root
    <2> DEFINE p == Parent(i)
    <2>1. p \in live /\ At(p) \in Array /\ Row(i) \in 0..(Len(children[p]) - 1)
      BY <1>2, HasParent
    <2>2. Len(children[p]) \in Nat /\ Len(children[p]) <= MaxSize
      BY <2>1, ItemIs DEF Tree
    <2>3. QED
      BY <2>1, <2>2, DocumentAssumption
  <1>3. QED
    BY <1>1, <1>2

\* The queue CollectIndex leaves behind: the indices there were, in the same order, and
\* the index of one more item of the selection.
LEMMA Collected ==
    ASSUME Shape, CollectIndex
    PROVE  \E i \in selection \ Queued : \E pos \in 1..(Len(queue) + 1) :
              LET index == [item |-> i, row |-> Row(i)]
              IN  /\ index \in Index /\ i \in live
                  /\ pos > 1 => OrderDescending(queue[pos - 1], index)
                  /\ pos <= Len(queue) => OrderDescending(index, queue[pos])
                  /\ queue' = InsertAt(queue, pos, index)
                  /\ queue' \in Seq(Index) /\ Len(queue') = Len(queue) + 1
                  /\ \A k \in 1..(Len(queue) + 1) : queue'[k] =
                        IF k < pos THEN queue[k] ELSE IF k = pos THEN index ELSE queue[k - 1]
                  /\ Queued' = Queued \cup {i}
  <1>1. queue \in Seq(Index) /\ Len(queue) \in Nat /\ DOMAIN queue = 1..Len(queue)
    BY LenProperties DEF Shape, TypeOK
  <1>2. PICK i \in selection \ Queued, pos \in 1..(Len(queue) + 1) :
           LET index == [item |-> i, row |-> Row(i)]
           IN  /\ pos > 1 => OrderDescending(queue[pos - 1], index)
               /\ pos <= Len(queue) => OrderDescending(index, queue[pos])
               /\ queue' = InsertAt(queue, pos, index)
    BY <1>1 DEF CollectIndex, Queued
  <1> DEFINE index == [item |-> i, row |-> Row(i)]
  <1>3. i \in live /\ i \in Item
    BY DEF CollectIndex, Shape, Counting, TypeOK
  <1>4. index \in Index
    BY <1>3, RowIs DEF Index, Shape
  <1>5. queue' = InsertAt(queue, pos, index) /\ index.item = i
    BY <1>2
  <1> HIDE DEF index
  <1>6. /\ queue' \in Seq(Index) /\ Len(queue') = Len(queue) + 1
        /\ \A k \in 1..(Len(queue) + 1) : queue'[k] =
              IF k < pos THEN queue[k] ELSE IF k = pos THEN index ELSE queue[k - 1]
    <2>1. queue \in Seq(Index) /\ index \in Index /\ pos \in 1..(Len(queue) + 1)
      BY <1>1, <1>4
    <2>2. /\ InsertAt(queue, pos, index) \in Seq(Index)
          /\ Len(InsertAt(queue, pos, index)) = Len(queue) + 1
          /\ \A k \in 1..(Len(queue) + 1) : InsertAt(queue, pos, index)[k] =
                IF k < pos THEN queue[k] ELSE IF k = pos THEN index ELSE queue[k - 1]
      BY ONLY <2>1, Inserting
    <2>3. QED
      BY <1>5, <2>2
  <1>7. Queued' = Queued \cup {i}
    <2>1. Queued' = {queue'[k].item : k \in 1..(Len(queue) + 1)}
      BY <1>6 DEF Queued
    <2>2. ASSUME NEW k \in 1..(Len(queue) + 1) PROVE queue'[k].item \in Queued \cup {i}
      <3>1. CASE k < pos
        <4>1. k \in 1..Len(queue) /\ queue'[k] = queue[k]
          BY <1>1, <1>6, <3>1
        <4>2. QED
          BY <4>1 DEF Queued
      <3>2. CASE k = pos
        BY <1>5, <1>6, <3>2
      <3>3. CASE k > pos
        <4>1. k - 1 \in 1..Len(queue) /\ queue'[k] = queue[k - 1]
          BY <1>1, <1>6, <3>3
        <4>2. QED
          BY <4>1 DEF Queued
      <3>4. QED
        BY <1>1, <3>1, <3>2, <3>3
    <2>3. ASSUME NEW k \in 1..Len(queue)
          PROVE  \E l \in 1..(Len(queue) + 1) : queue'[l].item = queue[k].item
      <3>1. CASE k < pos
        <4>1. k \in 1..(Len(queue) + 1) /\ queue'[k] = queue[k]
          BY <1>1, <1>6, <3>1
        <4>2. QED
          BY <4>1
      <3>2. CASE k >= pos
        <4>1. /\ k + 1 \in 1..(Len(queue) + 1) /\ ~ (k + 1 < pos) /\ k + 1 # pos
              /\ (k + 1) - 1 = k
          BY <1>1, <3>2
        <4>2. queue'[k + 1] = queue[k]
          BY <1>6, <4>1
        <4>3. QED
          BY <4>1, <4>2
      <3>3. QED
        BY <1>1, <3>1, <3>2
    <2>4. queue'[pos].item = i
      BY <1>5, <1>6
    <2>5. Queued' \subseteq Queued \cup {i}
      BY <2>1, <2>2
    <2>6. Queued \subseteq Queued'
      BY <2>1, <2>3 DEF Queued
    <2>7. i \in Queued'
      BY <2>1, <2>4
    <2>8. QED
      BY <2>5, <2>6, <2>7
  <1>8. QED
    BY <1>2, <1>3, <1>4, <1>6, <1>7 DEF index

\* An index put into the std::set is that of an item selected and not there yet; and
\* when all are, no more removals wait for an item than it has children.
LEMMA CollectKeeps ==
    ASSUME Shape, CollectIndex
    PROVE  Shape'
  <1>1. /\ mode = "collect" /\ mode' \in {"delete", "collect"}
        /\ UNCHANGED <<data, items, selection, mixed>>
    BY DEF CollectIndex
  <1>2. Tree' /\ live' = live /\ children' = children /\ announced' = announced
        /\ selection' = selection
    BY <1>1, TreeStays DEF Shape, items
  <1>3. PICK i \in selection \ Queued, pos \in 1..(Len(queue) + 1) :
          LET index == [item |-> i, row |-> Row(i)]
          IN  /\ queue' \in Seq(Index) /\ Len(queue') = Len(queue) + 1
              /\ \A k \in 1..(Len(queue) + 1) : queue'[k] =
                    IF k < pos THEN queue[k] ELSE IF k = pos THEN index ELSE queue[k - 1]
              /\ Queued' = Queued \cup {i}
    BY Collected
  <1> DEFINE index == [item |-> i, row |-> Row(i)]
  <1>4. /\ queue' \in Seq(Index) /\ Len(queue') = Len(queue) + 1 /\ Len(queue) \in Nat
        /\ \A k \in 1..(Len(queue) + 1) : queue'[k] =
              IF k < pos THEN queue[k] ELSE IF k = pos THEN index ELSE queue[k - 1]
        /\ Queued' = Queued \cup {i} /\ index.item = i
    BY <1>3, LenProperties DEF Shape, TypeOK
  <1> HIDE DEF index
  <1>5. TypeOK'
    BY <1>1, <1>4 DEF Shape, TypeOK, data, items
  <1>6. ASSUME NEW k \in 1..Len(queue'), NEW l \in 1..Len(queue'),
               queue'[k].item = queue'[l].item
        PROVE  k = l
    <2>1. \A m, o \in 1..Len(queue) : queue[m].item = queue[o].item => m = o
      BY DEF Shape, Counting
    <2>2. \A m \in 1..Len(queue) : queue[m].item # i
      BY DEF Queued
    <2>3. ASSUME NEW m \in 1..(Len(queue) + 1)
          PROVE  /\ m < pos => m \in 1..Len(queue) /\ queue'[m].item = queue[m].item
                 /\ m = pos => queue'[m].item = i
                 /\ m > pos => m - 1 \in 1..Len(queue) /\ queue'[m].item = queue[m - 1].item
      BY <1>4
    <2>4. k \in 1..(Len(queue) + 1) /\ l \in 1..(Len(queue) + 1)
      BY <1>4
    <2>5. CASE k = pos \/ l = pos
      BY SMTT(60), <1>4, <1>6, <2>2, <2>3, <2>4, <2>5
    <2>6. CASE k < pos /\ l < pos
      BY <1>6, <2>1, <2>3, <2>4, <2>6
    <2>7. CASE k < pos /\ l > pos
      <3>1. k = l - 1
        BY <1>6, <2>1, <2>3, <2>4, <2>7
      <3>2. QED
        BY <1>4, <2>4, <2>7, <3>1
    <2>8. CASE k > pos /\ l < pos
      <3>1. k - 1 = l
        BY <1>6, <2>1, <2>3, <2>4, <2>8
      <3>2. QED
        BY <1>4, <2>4, <2>8, <3>1
    <2>9. CASE k > pos /\ l > pos
      <3>1. k - 1 = l - 1
        BY <1>6, <2>1, <2>3, <2>4, <2>9
      <3>2. QED
        BY <1>4, <2>4, <3>1
    <2>10. QED
      BY <1>4, <2>4, <2>5, <2>6, <2>7, <2>8, <2>9
  <1>7. Queued' \subseteq selection' /\ selection' \subseteq live'
    BY <1>1, <1>2, <1>4 DEF Shape, Counting
  <1>8. queue' # <<>>
    BY <1>4, EmptySeq
  <1>9. ASSUME NEW p \in live' PROVE Cardinality(Waiting(p)') <= announced'[p]
    <2>1. p \in live
      BY <1>2
    <2>2. Waiting(p)' \in SUBSET ToSet(children[p])
      BY <1>2 DEF Waiting
    <2>3. /\ IsFiniteSet(ToSet(children[p]))
          /\ Cardinality(ToSet(children[p])) <= Len(children[p])
      BY <2>1, WaitingIsFinite DEF Shape
    <2>4. Cardinality(Waiting(p)') <= Cardinality(ToSet(children[p]))
      BY <2>2, <2>3, FS_Subset
    <2>5. announced'[p] = Len(children[p]) /\ Len(children[p]) \in Nat
      BY <1>1, <1>2, <2>1, ItemIs DEF Shape, Counting
    <2>6. /\ Cardinality(ToSet(children[p])) \in Nat
          /\ Cardinality(Waiting(p)') \in Nat
      BY <2>2, <2>3, FS_CardinalityType, FS_Subset
    <2>7. QED
      BY <2>3, <2>4, <2>5, <2>6
  <1>10. Counting'
    <2>1. \A j \in Item \ live' : announced'[j] = 0
      BY <1>2 DEF Shape, Counting
    <2>2. \A j \in live' : announced'[j] = Len(children'[j])
      BY <1>1, <1>2 DEF Shape, Counting
    <2>3. mode' # "idle"
      BY <1>1
    <2>4. QED
      BY <1>6, <1>7, <1>8, <1>9, <2>1, <2>2, <2>3 DEF Counting
  <1>11. QED
    BY <1>2, <1>5, <1>10 DEF Shape

\* The queue DeleteNext leaves behind.
LEMMA Dequeued ==
    ASSUME Shape, DeleteNext
    PROVE  /\ mode = "delete" /\ queue \in Seq(Index) /\ Len(queue) \in Nat \ {0}
           /\ Head(queue) = queue[1] /\ Head(queue) \in Index /\ 1 \in 1..Len(queue)
           /\ Head(queue).item \in live /\ Head(queue).item \in Queued
           /\ queue' \in Seq(Index) /\ Len(queue') = Len(queue) - 1
           /\ \A k \in 1..Len(queue') : k + 1 \in 1..Len(queue) /\ queue'[k] = queue[k + 1]
           /\ Queued' = Queued \ {Head(queue).item}
           /\ \A k, l \in 1..Len(queue') : queue'[k].item = queue'[l].item => k = l
           /\ mode' = IF Len(queue) = 1 THEN "idle" ELSE "delete"
           /\ selection' = IF Len(queue) = 1 THEN {} ELSE selection
           /\ mixed' = mixed
           /\ mode' = "idle" => queue' = <<>>
           /\ mode' = "delete" => queue' # <<>>
  <1>1. /\ mode = "delete" /\ queue' = Tail(queue) /\ Head(queue).item \in live
        /\ mode' = IF Len(queue) = 1 THEN "idle" ELSE "delete"
        /\ selection' = IF Len(queue) = 1 THEN {} ELSE selection
        /\ mixed' = mixed
    BY DEF DeleteNext
  <1>2. queue \in Seq(Index) /\ queue # <<>>
    BY <1>1 DEF Shape, TypeOK, Counting
  <1>3. /\ Head(queue) = queue[1] /\ queue[1] \in Index /\ 1 \in 1..Len(queue)
        /\ Len(queue) \in Nat \ {0}
        /\ queue' \in Seq(Index) /\ Len(queue') = Len(queue) - 1
        /\ \A k \in 1..(Len(queue) - 1) : k + 1 \in 1..Len(queue) /\ queue'[k] = queue[k + 1]
    BY <1>1, <1>2, TailIs
  <1>4. \A k, l \in 1..Len(queue) : queue[k].item = queue[l].item => k = l
    BY DEF Shape, Counting
  <1>5. Queued' = Queued \ {queue[1].item}
    <2>1. ASSUME NEW k \in 1..Len(queue')
          PROVE  queue'[k].item \in Queued /\ queue'[k].item # queue[1].item
      <3>1. k + 1 \in 1..Len(queue) /\ queue'[k] = queue[k + 1] /\ k + 1 # 1
        BY <1>3
      <3>2. QED
        BY <1>3, <1>4, <3>1 DEF Queued
    <2>2. ASSUME NEW k \in 1..Len(queue), queue[k].item # queue[1].item
          PROVE  \E l \in 1..Len(queue') : queue'[l].item = queue[k].item
      <3>1. k - 1 \in 1..(Len(queue) - 1) /\ (k - 1) + 1 = k
        BY <1>3, <2>2
      <3>2. k - 1 \in 1..Len(queue') /\ queue'[k - 1] = queue[k]
        BY <1>3, <3>1
      <3>3. QED
        BY <3>2
    <2>3. QED
      BY <2>1, <2>2 DEF Queued
  <1>6. ASSUME NEW k \in 1..Len(queue'), NEW l \in 1..Len(queue'),
               queue'[k].item = queue'[l].item
        PROVE  k = l
    <2>1. k + 1 = l + 1
      BY <1>3, <1>4, <1>6
    <2>2. QED
      BY <1>3, <2>1
  <1>7. queue[1].item \in Queued
    BY <1>3 DEF Queued
  <1>8. mode' = "idle" => queue' = <<>>
    BY <1>1, <1>3, EmptySeq
  <1>9. mode' = "delete" => queue' # <<>>
    <2>1. SUFFICES ASSUME mode' = "delete", queue' = <<>> PROVE FALSE
      OBVIOUS
    <2>2. Len(queue) - 1 = 0
      BY <1>3, <2>1, EmptySeq
    <2>3. QED
      BY <1>1, <1>3, <2>1, <2>2
  <1>10. QED
    BY <1>1, <1>2, <1>3, <1>5, <1>6, <1>7, <1>8, <1>9

\* What DeleteNext does to the items: nothing at the visible root; else an item goes with
\* what is below it, or, when the row is past the end, none.
LEMMA Deleted ==
    ASSUME Shape, DeleteNext, NEW c, c = Head(queue).item
    PROVE  \/ c = root /\ UNCHANGED <<data, items>>
           \/ /\ c # root
              /\ ~ (Head(queue).row < Len(children[Parent(c)]))
              /\ UNCHANGED <<data, live, root, ptr, children>>
              /\ announced' = [i \in Item |-> CASE i \notin live  -> 0
                                                [] i = Parent(c) -> announced[i] - 1
                                                [] OTHER         -> announced[i]]
           \/ /\ c # root
              /\ Parent(c) \in live /\ At(Parent(c)) \in Array
              /\ Head(queue).row \in 0..(Len(children[Parent(c)]) - 1)
              /\ RemoveChildren(Parent(c), Head(queue).row)
              /\ announced' = [i \in Item |-> CASE i \notin live' -> 0
                                                [] i = Parent(c) -> announced[i] - 1
                                                [] OTHER         -> announced[i]]
  <1>1. Head(queue) \in Index /\ c \in live
    BY Dequeued
  <1>2. Head(queue).row \in Nat
    BY <1>1, DocumentAssumption DEF Index
  <1>3. CASE c = root
    BY <1>3 DEF DeleteNext
  <1>4. CASE c # root
    <2>1. Parent(c) \in live /\ At(Parent(c)) \in Array /\ Len(children[Parent(c)]) \in Nat
      BY <1>1, <1>4, HasParent, ItemIs DEF Shape
    <2>2. /\ IF Head(queue).row < Len(children[Parent(c)])
             THEN RemoveChildren(Parent(c), Head(queue).row)
             ELSE UNCHANGED <<elems, buffer, capacity, live, root, ptr, children>>
          /\ announced' = [i \in Item |-> CASE i \notin live' -> 0
                                            [] i = Parent(c) -> announced[i] - 1
                                            [] OTHER         -> announced[i]]
      BY <1>4 DEF DeleteNext
    <2>3. CASE Head(queue).row < Len(children[Parent(c)])
      <3>1. Head(queue).row \in 0..(Len(children[Parent(c)]) - 1)
        BY <1>2, <2>1, <2>3
      <3>2. QED
        BY <1>4, <2>1, <2>2, <2>3, <3>1
    <2>4. CASE ~ (Head(queue).row < Len(children[Parent(c)]))
      <3>1. UNCHANGED <<data, live, root, ptr, children>>
        BY <2>2, <2>4 DEF data
      <3>2. live' = live
        BY <2>2, <2>4
      <3>3. QED
        BY <1>4, <2>2, <2>4, <3>1, <3>2
    <2>5. QED
      BY <2>3, <2>4
  <1>5. QED
    BY <1>3, <1>4

\* A removal that was announced is one of those to come: the row count of the item it
\* was announced for goes down by one, and so does what waits for that item.
LEMMA CountDown ==
    ASSUME Shape, NEW c \in Queued, NEW p \in live, c \in ToSet(children[p]),
           mode = "delete", NEW W \in SUBSET (Waiting(p) \ {c})
    PROVE  /\ announced[p] - 1 \in Nat
           /\ Cardinality(W) <= announced[p] - 1
  <1>1. IsFiniteSet(Waiting(p))
    <2>1. IsFiniteSet(ToSet(children[p])) /\ Waiting(p) \in SUBSET ToSet(children[p])
      BY WaitingIsFinite DEF Shape, Waiting
    <2>2. QED
      BY <2>1, FS_Subset
  <1>2. c \in Waiting(p)
    BY DEF Waiting
  <1>3. /\ IsFiniteSet(Waiting(p) \ {c})
        /\ Cardinality(Waiting(p) \ {c}) = Cardinality(Waiting(p)) - 1
    BY <1>1, <1>2, FS_RemoveElement
  <1>4. IsFiniteSet(W) /\ Cardinality(W) <= Cardinality(Waiting(p) \ {c})
    BY <1>3, FS_Subset
  <1>5. /\ Cardinality(Waiting(p)) \in Nat /\ Cardinality(W) \in Nat
        /\ Cardinality(Waiting(p) \ {c}) \in Nat
    BY <1>1, <1>3, <1>4, FS_CardinalityType
  <1>6. announced[p] \in Nat /\ Cardinality(Waiting(p)) <= announced[p]
    BY DEF Shape, TypeOK, Tree, Made, Counting
  <1>7. QED
    BY <1>3, <1>4, <1>5, <1>6

\* Less waits for an item when there are fewer indices and no more children.
LEMMA LessWaits ==
    ASSUME Shape, mode = "delete", NEW p \in live, NEW W \in SUBSET Waiting(p)
    PROVE  Cardinality(W) <= announced[p]
  <1>1. IsFiniteSet(Waiting(p))
    <2>1. IsFiniteSet(ToSet(children[p])) /\ Waiting(p) \in SUBSET ToSet(children[p])
      BY WaitingIsFinite DEF Shape, Waiting
    <2>2. QED
      BY <2>1, FS_Subset
  <1>2. IsFiniteSet(W) /\ Cardinality(W) <= Cardinality(Waiting(p))
    BY <1>1, FS_Subset
  <1>3. Cardinality(Waiting(p)) \in Nat /\ Cardinality(W) \in Nat
    BY <1>1, <1>2, FS_CardinalityType
  <1>4. announced[p] \in Nat /\ Cardinality(Waiting(p)) <= announced[p]
    BY DEF Shape, TypeOK, Tree, Made, Counting
  <1>5. QED
    BY <1>2, <1>3, <1>4

\* What remove_children leaves of the items: the item of the row is gone with what is
\* below it, and the others have no child they had not.
LEMMA RemovedIs ==
    ASSUME Tree, NEW p \in live, At(p) \in Array,
           NEW r \in 0..(Len(children[p]) - 1), RemoveChildren(p, r),
           NEW gone, gone = Subtree(children[p][r + 1])
    PROVE  /\ Tree' /\ live' = live \ gone /\ root' = root /\ p \in live'
           /\ children[p][r + 1] \in gone
           /\ \A i \in live' : ToSet(children'[i]) \subseteq ToSet(children[i])
           /\ \A i \in live' : i # p => children'[i] = children[i]
  <1> DEFINE n == Len(children[p])
  <1>1. n \in Nat /\ r + 1 \in 1..n /\ r \in Nat /\ children[p] \in Seq(live)
    BY ItemIs
  <1>2. Tree' /\ live' = live \ gone /\ root' = root
    BY RemoveStep
  <1>3. children[p][r + 1] \in gone /\ p \notin gone
    <2> DEFINE k == r + 1
    <2>1. k \in 1..Len(children[p]) /\ gone = Subtree(children[p][k])
      BY <1>1
    <2>2. children[p][k] \in gone /\ p \notin gone
      <3> HIDE DEF k
      <3> QED
        BY <2>1, GoneIs
    <2>3. QED
      BY <2>2
  <1>4. /\ children' \in [Item -> Seq(Item)]
        /\ Len(children'[p]) = Len(children[p]) - 1
        /\ \A k \in 1..(Len(children[p]) - 1) : children'[p][k] =
              IF k < r + 1 THEN children[p][k] ELSE children[p][k + 1]
        /\ \A i \in Item : i # p => children'[i] = IF i \in gone THEN <<>> ELSE children[i]
    <2> DEFINE a == At(p)
    <2>1. /\ Tree /\ p \in live /\ a = At(p) /\ a \in Array
          /\ r \in 0..(Len(children[p]) - 1) /\ RemoveChildren(p, r)
          /\ gone = Subtree(children[p][r + 1])
      OBVIOUS
    <2> HIDE DEF a, n
    <2>2. /\ children' \in [Item -> Seq(Item)]
          /\ Len(children'[p]) = Len(children[p]) - 1
          /\ \A k \in 1..(Len(children[p]) - 1) : children'[p][k] =
                IF k < r + 1 THEN children[p][k] ELSE children[p][k + 1]
          /\ \A k \in 1..(Len(children[p]) - 1) :
                ptr'[children'[p][k]] = SlotPtr(a, buffer[a], k - 1)
          /\ \A i \in Item \ gone : i \notin ToSet(children[p]) => ptr'[i] = ptr[i]
          /\ \A i \in Item : i # p => children'[i] = IF i \in gone THEN <<>> ELSE children[i]
      BY ONLY <2>1, RemovedPtr, SMTT(60)
    <2> QED
      BY ONLY <2>2
  <1>5. live \subseteq Item /\ p \in Item
    BY DEF Tree, Made
  <1>6. ToSet(children'[p]) \subseteq ToSet(children[p])
    <2>1. DOMAIN children'[p] = 1..(n - 1) /\ DOMAIN children[p] = 1..n
      BY <1>1, <1>4, <1>5, LenProperties
    <2>2. ASSUME NEW k \in 1..(n - 1) PROVE children'[p][k] \in ToSet(children[p])
      <3>1. k \in 1..n /\ k + 1 \in 1..n
        BY <1>1
      <3>2. children'[p][k] = children[p][k] \/ children'[p][k] = children[p][k + 1]
        BY <1>4
      <3>3. QED
        BY <2>1, <3>1, <3>2 DEF ToSet
    <2>3. QED
      BY <2>1, <2>2 DEF ToSet
  <1>7. \A i \in live' : i # p => children'[i] = children[i]
    BY <1>2, <1>4, <1>5
  <1>8. QED
    BY <1>2, <1>3, <1>6, <1>7

\* The rows remove_children leaves: those after the one removed move up.
LEMMA RemovedRows ==
    ASSUME Tree, NEW p \in live, At(p) \in Array,
           NEW r \in 0..(Len(children[p]) - 1), RemoveChildren(p, r)
    PROVE  /\ Len(children'[p]) = Len(children[p]) - 1
           /\ \A k \in 1..(Len(children[p]) - 1) : children'[p][k] =
                 IF k < r + 1 THEN children[p][k] ELSE children[p][k + 1]
           /\ elems'[At(p)] = RemoveAt(elems[At(p)], r + 1)
  <1> DEFINE a    == At(p)
             gone == Subtree(children[p][r + 1])
  <1>1. a = At(p) /\ a \in Array /\ gone = Subtree(children[p][r + 1])
    OBVIOUS
  <1> HIDE DEF a, gone
  <1>2. /\ Len(children'[p]) = Len(children[p]) - 1
        /\ \A k \in 1..(Len(children[p]) - 1) : children'[p][k] =
              IF k < r + 1 THEN children[p][k] ELSE children[p][k + 1]
    BY <1>1, RemovedPtr
  <1>3. elems'[a] = RemoveAt(elems[a], r + 1)
    BY <1>1, RemovedElems
  <1>4. QED
    BY <1>1, <1>2, <1>3

\* Every item but the visible root is in the list of its parent's children.
LEMMA ChildOfParent ==
    ASSUME Tree, NEW c \in live, c # root
    PROVE  Parent(c) \in live /\ c \in ToSet(children[Parent(c)])
  <1>1. /\ Parent(c) \in live /\ Row(c) \in 0..(Len(children[Parent(c)]) - 1)
        /\ children[Parent(c)][Row(c) + 1] = c
    BY HasParent
  <1>2. /\ Len(children[Parent(c)]) \in Nat
        /\ DOMAIN children[Parent(c)] = 1..Len(children[Parent(c)])
    BY <1>1, ItemIs, LenProperties
  <1>3. Row(c) + 1 \in DOMAIN children[Parent(c)]
    BY <1>1, <1>2
  <1>4. QED
    BY <1>1, <1>3 DEF ToSet

\* A turn of the loop takes an index off the queue, and counts down one row for it where it
\* was announced, whether or not a row was removed.
LEMMA DeleteKeeps ==
    ASSUME Shape, DeleteNext
    PROVE  Shape'
  <1> DEFINE c == Head(queue).item
             p == Parent(c)
  <1>1. /\ mode = "delete" /\ queue' \in Seq(Index) /\ c \in live /\ c \in Queued
        /\ Queued' = Queued \ {c}
        /\ \A k, l \in 1..Len(queue') : queue'[k].item = queue'[l].item => k = l
        /\ mode' \in {"idle", "delete"} /\ mixed' = mixed
        /\ selection' \in {selection, {}}
        /\ mode' = "idle" => queue' = <<>>
        /\ mode' = "delete" => queue' # <<>>
    BY Dequeued
  <1>2. /\ Tree' /\ live' \subseteq live /\ root' = root
        /\ \A i \in live' : ToSet(children'[i]) \subseteq ToSet(children[i])
        /\ \/ announced' = announced /\ live' = live
           \/ /\ c # root /\ p \in live'
              /\ announced' = [i \in Item |-> CASE i \notin live' -> 0
                                                [] i = p         -> announced[i] - 1
                                                [] OTHER         -> announced[i]]
    <2>1. CASE c = root /\ UNCHANGED <<data, items>>
      <3>1. UNCHANGED <<data, live, root, ptr, children>> /\ announced' = announced
        BY <2>1 DEF items
      <3>2. Tree'
        BY <3>1, TreeStays DEF Shape
      <3>3. QED
        BY <3>1, <3>2
    <2>2. CASE /\ c # root
               /\ UNCHANGED <<data, live, root, ptr, children>>
               /\ announced' = [i \in Item |-> CASE i \notin live  -> 0
                                                 [] i = Parent(c) -> announced[i] - 1
                                                 [] OTHER         -> announced[i]]
      <3>1. Tree'
        BY <2>2, TreeStays DEF Shape
      <3>2. Parent(c) \in live
        BY <1>1, <2>2, HasParent DEF Shape
      <3>3. QED
        BY <2>2, <3>1, <3>2
    <2>3. CASE /\ c # root
               /\ Parent(c) \in live /\ At(Parent(c)) \in Array
               /\ Head(queue).row \in 0..(Len(children[Parent(c)]) - 1)
               /\ RemoveChildren(Parent(c), Head(queue).row)
               /\ announced' = [i \in Item |-> CASE i \notin live' -> 0
                                                 [] i = Parent(c) -> announced[i] - 1
                                                 [] OTHER         -> announced[i]]
      <3> DEFINE r    == Head(queue).row
                 gone == Subtree(children[p][r + 1])
      <3>1. p \in live /\ At(p) \in Array /\ r \in 0..(Len(children[p]) - 1) /\ RemoveChildren(p, r)
        BY <2>3
      <3>2. /\ Tree' /\ live' = live \ gone /\ root' = root /\ p \in live'
            /\ \A i \in live' : ToSet(children'[i]) \subseteq ToSet(children[i])
        <4>1. Tree /\ gone = Subtree(children[p][r + 1])
          BY DEF Shape
        <4> HIDE DEF r, p, gone
        <4> QED
          BY ONLY <3>1, <4>1, RemovedIs
      <3>3. QED
        BY <2>3, <3>2
    <2>4. QED
      BY <2>1, <2>2, <2>3, Deleted
  <1>3. c # root => p \in live /\ c \in ToSet(children[p])
    BY <1>1, ChildOfParent DEF Shape
  <1> HIDE DEF c, p
  <1>4. ASSUME NEW i \in live'
        PROVE  /\ i \in live
               /\ Waiting(i)' \in SUBSET Waiting(i)
               /\ c \notin Waiting(i)'
    BY <1>1, <1>2 DEF Waiting
  <1>5. ASSUME NEW i \in live'
        PROVE  announced'[i] \in Nat /\ Cardinality(Waiting(i)') <= announced'[i]
    <2>1. i \in live /\ i \in Item /\ announced[i] \in Nat
      BY <1>4 DEF Shape, TypeOK
    <2>2. CASE announced' = announced
      <3>1. Cardinality(Waiting(i)') <= announced[i]
        BY <1>1, <1>4, <2>1, LessWaits
      <3>2. QED
        BY <2>1, <2>2, <3>1
    <2>3. CASE /\ c # root /\ p \in live'
               /\ announced' = [j \in Item |-> CASE j \notin live' -> 0
                                                 [] j = p         -> announced[j] - 1
                                                 [] OTHER         -> announced[j]]
      <3>1. CASE i = p
        <4>1. announced'[i] = announced[i] - 1
          BY <2>1, <2>3, <3>1
        <4>2. Waiting(i)' \in SUBSET (Waiting(i) \ {c})
          BY <1>4
        <4>3. announced[i] - 1 \in Nat /\ Cardinality(Waiting(i)') <= announced[i] - 1
          BY <1>1, <1>3, <2>1, <2>3, <3>1, <4>2, CountDown
        <4>4. QED
          BY <4>1, <4>3
      <3>2. CASE i # p
        <4>1. announced'[i] = announced[i]
          BY <2>1, <2>3, <3>2
        <4>2. Cardinality(Waiting(i)') <= announced[i]
          BY <1>1, <1>4, <2>1, LessWaits
        <4>3. QED
          BY <2>1, <4>1, <4>2
      <3>3. QED
        BY <3>1, <3>2
    <2>4. QED
      BY <1>2, <2>2, <2>3
  <1>6. ASSUME NEW i \in Item \ live'
        PROVE  announced'[i] = 0
    <2>1. CASE announced' = announced /\ live' = live
      BY <2>1 DEF Shape, Counting
    <2>2. CASE /\ p \in live'
               /\ announced' = [j \in Item |-> CASE j \notin live' -> 0
                                                 [] j = p         -> announced[j] - 1
                                                 [] OTHER         -> announced[j]]
      BY <2>2
    <2>3. QED
      BY <1>2, <2>1, <2>2
  <1>7. announced' \in [Item -> Nat]
    <2>1. announced' = [i \in Item |-> announced'[i]]
      BY <1>2 DEF Shape, TypeOK
    <2>2. \A i \in Item : announced'[i] \in Nat
      BY <1>5, <1>6
    <2>3. QED
      BY <2>1, <2>2
  <1>8. TypeOK'
    <2>1. Made'
      BY <1>2 DEF Tree
    <2>2. root' \in Item /\ mixed' \in BOOLEAN /\ selection' \subseteq Item
      BY <1>1, <1>2 DEF Shape, TypeOK
    <2>3. mode' \in {"idle", "collect", "delete", "dead"}
      BY <1>1
    <2>4. QED
      BY <1>1, <1>7, <2>1, <2>2, <2>3 DEF TypeOK, Made
  <1>9. Counting'
    <2>1. mode' # "collect"
      BY <1>1
    <2>2. QED
      BY <1>1, <1>5, <1>6, <2>1 DEF Counting
  <1>10. QED
    BY <1>2, <1>8, <1>9 DEF Shape

\* The application ends: what is kept is kept as it was.
LEMMA DeadKeeps ==
    ASSUME Shape, mode' = "dead", UNCHANGED <<data, items, selection, mixed, queue>>
    PROVE  Shape'
  <1>1. Tree'
    BY TreeStays DEF Shape, items
  <1>2. TypeOK'
    BY DEF Shape, TypeOK, data, items
  <1>3. Counting'
    BY DEF Shape, Counting, items
  <1>4. QED
    BY <1>1, <1>2, <1>3 DEF Shape

\* Every handler keeps the invariant.
LEMMA ShapeStep == Shape /\ [Next]_vars => Shape'
  <1> SUFFICES ASSUME Shape, [Next]_vars PROVE Shape'
    OBVIOUS
  <1>1. ASSUME NEW i \in Item, NEW offset \in {0, 1}, InsertValue(i, offset) PROVE Shape'
    BY <1>1, InsertKeeps
  <1>2. ASSUME NEW i \in Item, NEW leaf \in Settable, EditValue(i, leaf) PROVE Shape'
    BY <1>2, EditKeeps
  <1>3. ASSUME NEW i \in Item, EditThrows(i) PROVE Shape'
    BY <1>3, DeadKeeps DEF EditThrows
  <1>4. ASSUME NEW S \in SUBSET live \ {{}}, DeleteSelected(S) PROVE Shape'
    BY <1>4, SelectKeeps
  <1>5. CASE CollectIndex
    BY <1>5, CollectKeeps
  <1>6. CASE DeleteNext
    BY <1>6, DeleteKeeps
  <1>7. CASE DeleteFreed
    BY <1>7, DeadKeeps DEF DeleteFreed
  <1>8. CASE UNCHANGED vars
    <2>1. /\ UNCHANGED <<data, live, root, ptr, children>>
          /\ announced' = announced /\ selection' = selection /\ mixed' = mixed
          /\ queue' = queue /\ mode' = mode /\ live' = live /\ root' = root
          /\ children' = children
      BY <1>8 DEF vars, data
    <2>2. Tree'
      BY <2>1, TreeStays DEF Shape
    <2>3. TypeOK'
      BY <2>1, <2>2 DEF Shape, TypeOK, Tree, Made
    <2>4. Counting'
      BY <2>1 DEF Shape, Counting, Queued, Waiting
    <2>5. QED
      BY <2>2, <2>3, <2>4 DEF Shape
  <1>9. QED
    BY <1>1, <1>2, <1>3, <1>4, <1>5, <1>6, <1>7, <1>8 DEF Next

\* The document, its items and the queue of a deletion are what TypeOK says in every
\* state: no row count the view was told of ever runs below zero, and a deletion, even
\* of a mixed selection, leaves rows and items within their bounds.
THEOREM TypeCorrect == Spec => []TypeOK
  <1>1. Init => Shape
    BY ShapeInit
  <1>2. Shape /\ [Next]_vars => Shape'
    BY ShapeStep
  <1>3. Shape => TypeOK
    BY DEF Shape
  <1>4. QED
    BY <1>1, <1>2, <1>3, PTL DEF Spec

\* SEPTItem::verify finds nothing wrong at any time: each item points at the element it
\* stands for, in whatever buffer it is and whatever was inserted, edited or deleted.
THEOREM ItemsVerified == Spec => []Verified
  <1>1. Init => Shape
    BY ShapeInit
  <1>2. Shape /\ [Next]_vars => Shape'
    BY ShapeStep
  <1>3. Shape => Verified
    <2> SUFFICES ASSUME Shape PROVE Verified
      OBVIOUS
    <2>1. Tree
      BY DEF Shape
    <2>2. QED
      BY <2>1 DEF Tree, Shadowing, At, Verified
  <1>4. QED
    BY <1>1, <1>2, <1>3, PTL DEF Spec

(* Selections of one depth ------------------------------------------------ *)

\* What makes a deletion remove what was selected: while no selection mixes depths, the
\* indices in the queue name the rows of their items, the later rows come first, and no
\* item in the queue is below another.
Ordered == ~mixed =>
    /\ \A i \in live : announced[i] = Len(children[i])
    /\ \A k \in 1..Len(queue) : queue[k].item \in live /\ queue[k].row = Row(queue[k].item)
    /\ \A k, l \in 1..Len(queue) : k < l => queue[k].row >= queue[l].row
    /\ \A i, j \in Queued : i \in Subtree(j) => i = j
    /\ mode = "collect" => \A i, j \in selection : TreeDepth(i) = TreeDepth(j)
    /\ mode = "delete" => /\ Queued \subseteq selection
                          /\ selection \cap live \subseteq {root} \cup Queued

\* Two items that are below each other are one.
LEMMA BelowEachOther ==
    ASSUME Tree, NEW i \in live, NEW j \in live, i \in Subtree(j), j \in Subtree(i)
    PROVE  i = j
  <1>1. SUFFICES ASSUME i # j PROVE FALSE
    OBVIOUS
  <1>2. PICK q \in Subtree(j) : \E k \in 1..Len(children[q]) : children[q][k] = i
    BY <1>1, SubtreeIs
  <1>3. PICK k \in 1..Len(children[q]) : children[q][k] = i
    BY <1>2
  <1>4. q \in live /\ q \in Subtree(i)
    BY SubtreeIs
  <1>5. QED
    BY <1>3, <1>4, Acyclic

\* TreeNode_t::tree_depth tells an item from all items below it.
LEMMA DepthTells ==
    ASSUME Tree, NEW i \in live, NEW j \in live, i \in Subtree(j), TreeDepth(i) = TreeDepth(j)
    PROVE  i = j
  <1> DEFINE up == [z \in live |-> {p \in live : Contains(children[p], z)}]
             Above(x) == Reached(x, up)
  <1>1. SUFFICES ASSUME i # j PROVE FALSE
    OBVIOUS
  <1>2. /\ \A x : TreeDepth(x) = Cardinality(Above(x))
        /\ DOMAIN up = live /\ \A z \in DOMAIN up : up[z] \subseteq DOMAIN up
        /\ \A z \in live, p \in live : p \in up[z] <=> z \in ToSet(children[p])
    <2>1. \A p \in live : DOMAIN children[p] = 1..Len(children[p])
      BY ItemIs, LenProperties
    <2>2. QED
      BY <2>1 DEF TreeDepth, Contains, ToSet
  <1> HIDE DEF up
  <1>3. ASSUME NEW x \in live
        PROVE  /\ Above(x) \subseteq live /\ x \in Above(x)
               /\ \A y \in Above(x) : up[y] \subseteq Above(x)
               /\ \A S : x \in S /\ (\A y \in S \cap live : up[y] \subseteq S)
                            => Above(x) \subseteq S
               /\ \A y \in Above(x) : Above(y) \subseteq Above(x)
    BY <1>2, ReachedIs, ReachedOn
  <1> HIDE DEF Above
  <1>4. j \in Above(i)
    <2> DEFINE S == {z \in live : j \in Above(z)}
    <2>1. j \in S
      BY <1>3
    <2>2. \A y \in S \cap live : ToSet(children[y]) \subseteq S
      <3>1. ASSUME NEW y \in S, NEW z \in ToSet(children[y]) PROVE z \in S
        <4>1. z \in live /\ y \in live
          BY SubtreeIs DEF Tree
        <4>2. y \in up[z]
          BY <1>2, <4>1
        <4>3. y \in Above(z)
          BY <1>3, <4>1, <4>2
        <4>4. QED
          BY <1>3, <4>1, <4>3
      <3>2. QED
        BY <3>1
    <2>3. Subtree(j) \subseteq S
      <3> HIDE DEF S
      <3> QED
        BY <2>1, <2>2, SubtreeIs
    <2>4. QED
      BY <2>3
  <1>5. i \notin Above(j)
    <2>1. SUFFICES ASSUME i \in Above(j) PROVE FALSE
      OBVIOUS
    <2> DEFINE S == {z \in live : j \in Subtree(z)}
    <2>2. j \in S
      BY SubtreeIs
    <2>3. \A y \in S \cap live : up[y] \subseteq S
      <3>1. ASSUME NEW y \in S, NEW p \in up[y] PROVE p \in S
        <4>1. y \in live /\ p \in live
          BY <1>2
        <4>2. y \in Subtree(p)
          BY <1>2, <4>1, SubtreeIs
        <4>3. QED
          BY <4>1, <4>2, SubtreeIs
      <3>2. QED
        BY <3>1
    <2>4. Above(j) \subseteq S
      <3> HIDE DEF S
      <3> QED
        BY <1>3, <2>2, <2>3
    <2>5. j \in Subtree(i)
      BY <2>1, <2>4
    <2>6. QED
      BY <1>1, <2>5, BelowEachOther
  <1>6. IsFiniteSet(Above(i))
    <2>1. Above(i) \in SUBSET Item /\ IsFiniteSet(Item)
      BY <1>3, DocumentAssumption DEF Tree, Made
    <2>2. QED
      BY <2>1, FS_Subset
  <1>7. Above(j) \in SUBSET Above(i)
    BY <1>3, <1>4
  <1>8. Above(i) = Above(j)
    <2>1. Cardinality(Above(i)) = Cardinality(Above(j))
      BY <1>2
    <2>2. QED
      BY <1>6, <1>7, <2>1, FS_Subset
  <1>9. QED
    BY <1>3, <1>5, <1>8

\* tree_depth is a number: the items above an item are finitely many.
LEMMA DepthIs ==
    ASSUME Tree, NEW i \in live
    PROVE  TreeDepth(i) \in Nat
  <1> DEFINE up == [z \in live |-> {p \in live : Contains(children[p], z)}]
  <1>1. Reached(i, up) \in SUBSET live
    BY DEF Reached
  <1>2. live \in SUBSET Item /\ IsFiniteSet(Item)
    BY DocumentAssumption DEF Tree, Made
  <1>3. TreeDepth(i) = Cardinality(Reached(i, up))
    BY DEF TreeDepth
  <1> HIDE DEF up
  <1>4. IsFiniteSet(Reached(i, up))
    BY <1>1, <1>2, FS_Subset
  <1>5. QED
    BY <1>3, <1>4, FS_CardinalityType

\* initialize_root_items announces every row it makes.
LEMMA OrderedInit == Init => Ordered
  <1> SUFFICES ASSUME Init PROVE Ordered
    OBVIOUS
  <1>1. announced = [i \in Item |-> Len(children[i])] /\ Tree
    BY InitTree
  <1>2. queue = <<>> /\ mode = "idle"
    BY DEF Init
  <1>3. \A i \in live : announced[i] = Len(children[i])
    BY <1>1 DEF Tree, Made
  <1>4. Len(queue) = 0 /\ Queued = {}
    BY <1>2 DEF Queued
  <1>5. QED
    BY <1>2, <1>3, <1>4 DEF Ordered

\* An insertion is announced, while nothing is queued.
LEMMA InsertOrders ==
    ASSUME Shape, Ordered, NEW i \in Item, NEW offset \in {0, 1}, InsertValue(i, offset)
    PROVE  Ordered' /\ live \subseteq live' /\ mode' = "idle" /\ mode = "idle"
  <1> DEFINE p == Parent(i)
  <1>1. /\ mode = "idle" /\ i \in live /\ i # root
        /\ announced' = [announced EXCEPT ![p] = AnnounceInsertion(@)]
        /\ UNCHANGED <<selection, mixed, queue, mode>>
    BY DEF InsertValue
  <1>2. PICK new \in Item \ live : InsertChildren(p, Row(i) + offset, new)
    BY DEF InsertValue
  <1>3. /\ p \in live /\ At(p) \in Array /\ Row(i) + offset \in 0..Len(children[p])
        /\ p # new /\ live \subseteq Item /\ p \in Item
    BY <1>1, InsertPlace DEF Shape, Tree, Made
  <1> HIDE DEF p
  <1>4. live' = live \cup {new} /\ children'[new] = <<>>
    BY <1>2, <1>3, InsertStep DEF Shape
  <1>5. Len(children'[p]) = Len(children[p]) + 1
    BY <1>2, <1>3, InsertedPtr DEF Shape
  <1>6. \A j \in Item : j # p => children'[j] = children[j]
    BY <1>2 DEF InsertChildren, Shape, Tree, Made
  <1>7. announced \in [Item -> Nat] /\ announced[new] = 0
    BY DEF Shape, TypeOK, Counting
  <1>8. CASE mixed
    BY <1>1, <1>4, <1>8 DEF Ordered
  <1>9. CASE ~mixed
    <2>1. \A j \in live : announced[j] = Len(children[j])
      BY <1>9 DEF Ordered
    <2>2. ASSUME NEW j \in live' PROVE announced'[j] = Len(children'[j])
      <3>1. CASE j = new
        BY <1>1, <1>3, <1>4, <1>7, <3>1, EmptySeq
      <3>2. CASE j = p
        BY <1>1, <1>3, <1>5, <1>7, <2>1, <3>2 DEF AnnounceInsertion
      <3>3. CASE j # new /\ j # p
        <4>1. j \in live /\ j \in Item
          BY <1>3, <1>4, <3>3
        <4>2. announced'[j] = announced[j]
          BY <1>1, <1>3, <1>7, <3>3, <4>1
        <4>3. QED
          BY <1>6, <2>1, <3>3, <4>1, <4>2
      <3>4. QED
        BY <3>1, <3>2, <3>3
    <2>3. mode' = "idle" /\ queue' = <<>>
      BY <1>1 DEF Shape, Counting
    <2>4. Ordered'
      BY <2>2, <2>3 DEF Ordered, Queued
    <2>5. QED
      BY <1>1, <1>4, <2>4
  <1>10. QED
    BY <1>8, <1>9

\* Where no item comes or goes, rows, depths and what is below an item stay.
LEMMA SameItems ==
    ASSUME UNCHANGED <<live, root, children>>
    PROVE  \A i : /\ Row(i)' = Row(i) /\ Subtree(i)' = Subtree(i)
                  /\ TreeDepth(i)' = TreeDepth(i)
  BY DEF Row, Parent, Subtree, TreeDepth

\* What changes no items and no queue leaves the queue in order.
LEMMA StayOrders ==
    ASSUME Ordered,
           UNCHANGED <<live, root, children, announced, queue, selection, mixed>>,
           mode' \in {mode, "dead"}
    PROVE  Ordered'
  <1>1. \A i : Row(i)' = Row(i) /\ Subtree(i)' = Subtree(i) /\ TreeDepth(i)' = TreeDepth(i)
    BY SameItems
  <1>2. Queued' = Queued
    BY DEF Queued
  <1>3. (mode' = "collect" => mode = "collect") /\ (mode' = "delete" => mode = "delete")
    OBVIOUS
  <1>4. QED
    BY <1>1, <1>2, <1>3 DEF Ordered

\* A deletion starts while all rows are announced, with nothing queued.
LEMMA SelectOrders ==
    ASSUME Shape, Ordered, NEW S \in SUBSET live, DeleteSelected(S)
    PROVE  Ordered' /\ live' = live /\ mode = "idle" /\ mode' = "collect"
  <1>1. /\ mode = "idle" /\ selection' = S /\ mode' = "collect"
        /\ mixed' = (mixed \/ \E i, j \in S : TreeDepth(i) # TreeDepth(j))
        /\ \A i \in live : announced[i] = Len(children[i])
        /\ live' = live /\ root' = root /\ children' = children
        /\ announced' = announced /\ queue' = queue
    BY DEF DeleteSelected, items
  <1>2. queue = <<>>
    BY <1>1 DEF Shape, Counting
  <1>3. \A i : TreeDepth(i)' = TreeDepth(i)
    BY <1>1, SameItems
  <1>4. Len(queue') = 0 /\ Queued' = {}
    BY <1>1, <1>2 DEF Queued
  <1>5. ~mixed' => \A i, j \in selection' : TreeDepth(i)' = TreeDepth(j)'
    BY <1>1, <1>3
  <1>6. Ordered'
    BY <1>1, <1>4, <1>5 DEF Ordered
  <1>7. QED
    BY <1>1, <1>6

\* As many items as indices are queued.
LEMMA QueuedSize ==
    /\ queue \in Seq(Index)
    /\ \A k, l \in 1..Len(queue) : queue[k].item = queue[l].item => k = l
    => Cardinality(Queued) = Len(queue)
  <1> SUFFICES ASSUME queue \in Seq(Index),
                      \A k, l \in 1..Len(queue) : queue[k].item = queue[l].item => k = l
               PROVE  Cardinality(Queued) = Len(queue)
    OBVIOUS
  <1> DEFINE f == [k \in 1..Len(queue) |-> queue[k].item]
  <1>1. Len(queue) \in Nat
    BY LenProperties
  <1>2. f \in Surjection(1..Len(queue), Queued)
    BY DEF Surjection, Queued
  <1>3. f \in Injection(1..Len(queue), Queued)
    BY DEF Injection, IsInjective, Queued
  <1>4. IsFiniteSet(1..Len(queue)) /\ Cardinality(1..Len(queue)) = Len(queue)
    <2> DEFINE n == Len(queue)
    <2>1. n \in Nat
      BY <1>1
    <2> HIDE DEF n
    <2>2. IsFiniteSet(1..n) /\ Cardinality(1..n) = n
      BY ONLY <2>1, FS_Interval
    <2>3. QED
      BY <2>2 DEF n
  <1> HIDE DEF f
  <1>5. QED
    BY <1>2, <1>3, <1>4, FS_Surjection

\* An index finds its place in the std::set between one of a later row and one of an
\* earlier row, when all selected items are equally deep.
LEMMA CollectOrders ==
    ASSUME Shape, Ordered, CollectIndex, Shape'
    PROVE  Ordered' /\ live' = live /\ mode = "collect"
  <1>1. /\ mode = "collect"
        /\ mode' = IF Cardinality(selection) = Len(queue) + 1 THEN "delete" ELSE "collect"
        /\ live' = live /\ root' = root /\ children' = children /\ announced' = announced
        /\ selection' = selection /\ mixed' = mixed
    BY DEF CollectIndex, items
  <1>2. CASE mixed
    BY <1>1, <1>2 DEF Ordered
  <1>3. CASE ~mixed
    <2>1. PICK i \in selection \ Queued, pos \in 1..(Len(queue) + 1) :
            LET index == [item |-> i, row |-> Row(i)]
            IN  /\ index \in Index /\ i \in live
                /\ pos > 1 => OrderDescending(queue[pos - 1], index)
                /\ pos <= Len(queue) => OrderDescending(index, queue[pos])
                /\ queue' \in Seq(Index) /\ Len(queue') = Len(queue) + 1
                /\ \A k \in 1..(Len(queue) + 1) : queue'[k] =
                      IF k < pos THEN queue[k] ELSE IF k = pos THEN index ELSE queue[k - 1]
                /\ Queued' = Queued \cup {i}
      BY Collected
    <2> DEFINE index == [item |-> i, row |-> Row(i)]
               n     == Len(queue)
    <2>2. /\ index \in Index /\ i \in live /\ index.item = i /\ index.row = Row(i)
          /\ pos > 1 => OrderDescending(queue[pos - 1], index)
          /\ pos <= n => OrderDescending(index, queue[pos])
          /\ queue' \in Seq(Index) /\ Len(queue') = n + 1
          /\ \A k \in 1..(n + 1) : queue'[k] =
                IF k < pos THEN queue[k] ELSE IF k = pos THEN index ELSE queue[k - 1]
          /\ Queued' = Queued \cup {i}
          /\ pos \in 1..(n + 1)
      BY <2>1
    <2> HIDE DEF index
    <2>3. /\ \A k \in 1..n : /\ queue[k].item \in live /\ queue[k].item \in selection
                             /\ queue[k].row = Row(queue[k].item) /\ queue[k].row \in Nat
          /\ \A k, l \in 1..n : k < l => queue[k].row >= queue[l].row
          /\ \A j, l \in selection : TreeDepth(j) = TreeDepth(l)
          /\ n \in Nat /\ Row(i) \in Nat
      <3>1. queue \in Seq(Index) /\ n \in Nat /\ \A k \in 1..n : queue[k] \in Index
        BY LenProperties, ElementOfSeq DEF Shape, TypeOK
      <3>2. \A k \in 1..n : queue[k].row \in Nat
        BY <3>1, DocumentAssumption DEF Index
      <3>3. Row(i) \in Nat
        BY <2>2, RowIs, DocumentAssumption DEF Shape
      <3>4. Queued \subseteq selection
        BY <1>1 DEF Shape, Counting
      <3>5. \A k \in 1..n : queue[k].item \in selection
        BY <3>4 DEF Queued
      <3>6. QED
        BY <1>1, <1>3, <3>1, <3>2, <3>3, <3>5 DEF Ordered
    <2> HIDE DEF n
    <2>4. /\ \A k \in 1..n : k < pos => queue[k].row >= Row(i)
          /\ \A k \in 1..n : pos <= k => Row(i) >= queue[k].row
      <3>1. pos > 1 => queue[pos - 1].row >= Row(i) /\ pos - 1 \in 1..n
        <4>1. SUFFICES ASSUME pos > 1
                       PROVE  queue[pos - 1].row >= Row(i) /\ pos - 1 \in 1..n
          OBVIOUS
        <4>2. pos - 1 \in 1..n
          BY <2>2, <2>3, <4>1
        <4>3. queue[pos - 1].item \in selection /\ index.item \in selection
          BY <2>2, <2>3, <4>2
        <4>4. TreeDepth(queue[pos - 1].item) = TreeDepth(index.item)
          BY <2>3, <4>3
        <4>5. \/ TreeDepth(index.item) > TreeDepth(index.item)
              \/ queue[pos - 1].row > index.row \/ queue[pos - 1].row = index.row
          BY <2>2, <4>1, <4>4 DEF OrderDescending
        <4>6. TreeDepth(index.item) \in Nat
          BY <2>2, DepthIs DEF Shape
        <4>7. queue[pos - 1].row >= index.row
          BY <2>2, <2>3, <4>2, <4>5, <4>6
        <4>8. QED
          BY <2>2, <4>2, <4>7
      <3>2. pos <= n => Row(i) >= queue[pos].row
        <4>1. SUFFICES ASSUME pos <= n PROVE Row(i) >= queue[pos].row
          OBVIOUS
        <4>2. pos \in 1..n
          BY <2>2, <2>3, <4>1
        <4>3. queue[pos].item \in selection /\ index.item \in selection
          BY <2>2, <2>3, <4>2
        <4>4. TreeDepth(queue[pos].item) = TreeDepth(index.item)
          BY <2>3, <4>3
        <4>5. \/ TreeDepth(index.item) > TreeDepth(index.item)
              \/ index.row > queue[pos].row \/ index.row = queue[pos].row
          BY <2>2, <4>1, <4>4 DEF OrderDescending
        <4>6. TreeDepth(index.item) \in Nat
          BY <2>2, DepthIs DEF Shape
        <4>7. index.row >= queue[pos].row
          BY <2>2, <2>3, <4>2, <4>5, <4>6
        <4>8. QED
          BY <2>2, <4>7
      <3>3. ASSUME NEW k \in 1..n, k < pos PROVE queue[k].row >= Row(i)
        <4>1. pos > 1
          BY <2>2, <2>3, <3>3
        <4>2. CASE k = pos - 1
          BY <3>1, <4>1, <4>2
        <4>3. CASE k < pos - 1
          <5>1. queue[k].row >= queue[pos - 1].row
            BY <2>3, <3>1, <4>1, <4>3
          <5>2. QED
            BY <2>3, <3>1, <4>1, <5>1
        <4>4. QED
          BY <2>2, <2>3, <3>3, <4>2, <4>3
      <3>4. ASSUME NEW k \in 1..n, pos <= k PROVE Row(i) >= queue[k].row
        <4>1. pos <= n /\ pos \in 1..n
          BY <2>2, <2>3, <3>4
        <4>2. CASE k = pos
          BY <3>2, <4>1, <4>2
        <4>3. CASE pos < k
          <5>1. queue[pos].row >= queue[k].row
            BY <2>3, <4>1, <4>3
          <5>2. QED
            BY <2>3, <3>2, <4>1, <5>1
        <4>4. QED
          BY <2>2, <2>3, <3>4, <4>2, <4>3
      <3>5. QED
        BY <3>3, <3>4
    <2>5. ASSUME NEW k \in 1..(n + 1)
          PROVE  /\ k < pos => k \in 1..n /\ queue'[k] = queue[k]
                 /\ k = pos => queue'[k] = index
                 /\ k > pos => k - 1 \in 1..n /\ queue'[k] = queue[k - 1]
      BY <2>2, <2>3
    <2>6. \A k \in 1..(n + 1) : queue'[k].item \in live /\ queue'[k].row = Row(queue'[k].item)
      <3>1. ASSUME NEW k \in 1..(n + 1)
            PROVE  queue'[k].item \in live /\ queue'[k].row = Row(queue'[k].item)
        <4>1. CASE k < pos
          BY <2>3, <2>5, <4>1
        <4>2. CASE k = pos
          BY <2>2, <2>5, <4>2
        <4>3. CASE k > pos
          BY <2>3, <2>5, <4>3
        <4>4. QED
          BY <2>2, <2>3, <4>1, <4>2, <4>3
      <3>2. QED
        BY <3>1
    <2>7. ASSUME NEW k \in 1..(n + 1), NEW l \in 1..(n + 1), k < l
          PROVE  queue'[k].row >= queue'[l].row
      <3>1. CASE l < pos
        <4>1. k < pos
          BY <2>2, <2>3, <2>7, <3>1
        <4>2. QED
          BY <2>3, <2>5, <2>7, <3>1, <4>1
      <3>2. CASE l = pos
        <4>1. k < pos /\ k \in 1..n /\ queue'[k] = queue[k] /\ queue'[l].row = Row(i)
          BY <2>2, <2>5, <2>7, <3>2
        <4>2. QED
          BY <2>4, <4>1
      <3>3. CASE l > pos /\ k < pos
        <4>1. /\ k \in 1..n /\ queue'[k] = queue[k] /\ queue[k].row >= Row(i)
              /\ l - 1 \in 1..n /\ queue'[l] = queue[l - 1] /\ pos <= l - 1
          BY <2>2, <2>3, <2>4, <2>5, <3>3
        <4>2. Row(i) >= queue[l - 1].row
          BY <2>4, <4>1
        <4>3. QED
          BY <2>3, <4>1, <4>2
      <3>4. CASE l > pos /\ k = pos
        <4>1. /\ queue'[k].row = Row(i)
              /\ l - 1 \in 1..n /\ queue'[l] = queue[l - 1] /\ pos <= l - 1
          BY <2>2, <2>3, <2>5, <3>4
        <4>2. QED
          BY <2>4, <4>1
      <3>5. CASE k > pos
        <4>1. l > pos
          BY <2>2, <2>3, <2>7, <3>5
        <4>2. /\ k - 1 \in 1..n /\ queue'[k] = queue[k - 1]
              /\ l - 1 \in 1..n /\ queue'[l] = queue[l - 1] /\ k - 1 < l - 1
          BY <2>3, <2>5, <2>7, <3>5, <4>1
        <4>3. QED
          BY <2>3, <4>2
      <3>6. QED
        BY <2>2, <2>3, <3>1, <3>2, <3>3, <3>4, <3>5
    <2>8. Queued' \subseteq selection /\ selection \subseteq live
      BY <1>1, <2>2 DEF Shape, Counting
    <2>9. \A j, l \in Queued' : j \in Subtree(l) => j = l
      BY <2>3, <2>8, DepthTells DEF Shape
    <2>10. mode' = "delete" => selection = Queued'
      <3>1. SUFFICES ASSUME mode' = "delete" PROVE selection = Queued'
        OBVIOUS
      <3>2. Cardinality(selection) = n + 1
        BY <1>1, <3>1 DEF n
      <3>3. Cardinality(Queued') = n + 1
        <4>1. (/\ queue \in Seq(Index)
               /\ \A k, l \in 1..Len(queue) : queue[k].item = queue[l].item => k = l
               => Cardinality(Queued) = Len(queue))'
          BY QueuedSize, PTL
        <4>2. QED
          BY <2>2, <4>1 DEF Shape, Counting
      <3>4. IsFiniteSet(selection)
        <4>1. selection \in SUBSET Item /\ IsFiniteSet(Item)
          BY DocumentAssumption DEF Shape, TypeOK
        <4>2. QED
          BY <4>1, FS_Subset
      <3>5. Queued' \in SUBSET selection
        BY <2>8
      <3>6. QED
        BY <3>2, <3>3, <3>4, <3>5, FS_Subset
    <2>11. \A j : Row(j)' = Row(j) /\ Subtree(j)' = Subtree(j) /\ TreeDepth(j)' = TreeDepth(j)
      BY <1>1, SameItems
    <2>12. \A j \in live' : announced'[j] = Len(children'[j])
      BY <1>1 DEF Shape, Counting
    <2>13. \A k \in 1..Len(queue') :
              queue'[k].item \in live' /\ queue'[k].row = Row(queue'[k].item)
      BY <1>1, <2>2, <2>6
    <2>14. Ordered'
      <3>1. Row(i)' = Row(i)
        BY <2>11
      <3>2. \A k \in 1..Len(queue') : queue'[k].row = Row(queue[k].item)'
        BY <2>11, <2>13
      <3>3. \A k, l \in 1..Len(queue') : k < l => queue'[k].row >= queue'[l].row
        BY <2>2, <2>7
      <3>4. \A j, l \in Queued' : j \in Subtree(l)' => j = l
        BY <2>9, <2>11
      <3>5. \A j, l \in selection' : TreeDepth(j)' = TreeDepth(l)'
        BY <1>1, <2>3, <2>11
      <3>6. mode' = "delete" =>
               Queued' \subseteq selection' /\ selection' \cap live' \subseteq {root'} \cup Queued'
        BY <1>1, <2>10
      <3>7. QED
        BY <2>12, <2>13, <3>2, <3>3, <3>4, <3>5, <3>6 DEF Ordered
    <2>15. QED
      BY <1>1, <2>14
  <1>4. QED
    BY <1>1, <1>2, <1>3

\* index_within_parent of a child is its place in the list.
RowsTold == \A i \in live : \A l \in 1..Len(children[i]) : \A j : children[i][l] = j => Row(j) = l - 1

\* In a tree of items every item has one place.
LEMMA RowsAre == Tree => RowsTold
  BY ParentIs DEF RowsTold

\* What is below an item is in every set that holds it and the children of its items.
BelowIsLeast ==
    \A i \in live : \A T :
        i \in T /\ (\A k \in T \cap live : ToSet(children[k]) \subseteq T) => Subtree(i) \subseteq T

\* In a tree of items Subtree is the least set of that kind.
LEMMA SubtreeLeast == Tree => BelowIsLeast
  BY SubtreeIs DEF BelowIsLeast

\* Items that have lost children, and gained none, have lost items below them.
LEMMA LessBelow ==
    ASSUME Tree, Tree', live' \subseteq live,
           \A i \in live' : ToSet(children'[i]) \subseteq ToSet(children[i]), NEW j \in live'
    PROVE  Subtree(j)' \subseteq Subtree(j)
  <1> DEFINE S == Subtree(j)
  <1>1. j \in S /\ \A y \in S \cap live' : ToSet(children'[y]) \subseteq S
    BY SubtreeIs
  <1>2. BelowIsLeast'
    BY SubtreeLeast, PTL
  <1> HIDE DEF S
  <1>3. Subtree(j)' \subseteq S
    BY <1>1, <1>2 DEF BelowIsLeast
  <1>4. QED
    BY <1>3 DEF S

\* remove_children leaves an item in its row that is not destroyed: the child of another
\* item, or one in a row before the one removed.
LEMMA KeptRow ==
    ASSUME Tree, Tree', NEW p \in live, At(p) \in Array,
           NEW r \in 0..(Len(children[p]) - 1), RemoveChildren(p, r),
           NEW x \in live', x # root, Parent(x) = p => Row(x) < r
    PROVE  Row(x)' = Row(x)
  <1> DEFINE gone == Subtree(children[p][r + 1])
             q    == Parent(x)
             k    == Row(x) + 1
  <1>1. /\ live' = live \ gone
        /\ \A i \in live' : i # p => children'[i] = children[i]
    <2>1. gone = Subtree(children[p][r + 1])
      OBVIOUS
    <2> HIDE DEF gone
    <2>2. QED
      BY <2>1, RemovedIs
  <1>2. Len(children'[p]) = Len(children[p]) - 1
    BY RemovedRows
  <1>3. \A l \in 1..(Len(children[p]) - 1) : children'[p][l] =
            IF l < r + 1 THEN children[p][l] ELSE children[p][l + 1]
    BY RemovedRows
  <1>4. Len(children[p]) \in Nat /\ r \in Nat /\ r + 1 \in 1..Len(children[p])
    BY ItemIs
  <1>5. children[p][r + 1] \in live
    BY <1>4, ChildIs
  <1>6. x \in live /\ x \notin gone
    BY <1>1
  <1>7. q \in live /\ Row(x) \in 0..(Len(children[q]) - 1) /\ children[q][k] = x
    BY <1>6, HasParent
  <1>8. x \in ToSet(children[q])
    BY <1>6, ChildOfParent
  <1>9. q \in live'
    <2>1. \A i \in gone : ToSet(children[i]) \subseteq gone
      BY <1>5, SubtreeIs
    <2>2. QED
      BY <1>1, <1>6, <1>7, <1>8, <2>1
  <1>10. Len(children[q]) \in Nat
    BY <1>7, ItemIs
  <1>11. k \in 1..Len(children[q]) /\ k - 1 = Row(x)
    BY <1>7, <1>10
  <1>12. RowsTold'
    BY RowsAre, PTL
  <1>13. \A l \in 1..Len(children'[q]) : children'[q][l] = x => Row(x)' = l - 1
    BY <1>9, <1>12 DEF RowsTold
  <1> HIDE DEF gone, q, k
  <1>14. k \in 1..Len(children'[q]) /\ children'[q][k] = x
    <2>1. CASE q # p
      BY <1>1, <1>7, <1>9, <1>11, <2>1
    <2>2. CASE q = p
      <3>1. Row(x) < r
        BY <2>2 DEF q
      <3>2. k < r + 1 /\ k \in 1..(Len(children[p]) - 1)
        BY <1>4, <1>7, <1>11, <2>2, <3>1
      <3>3. QED
        BY <1>2, <1>3, <1>7, <2>2, <3>2
    <2>3. QED
      BY <2>1, <2>2
  <1>15. QED
    BY <1>11, <1>13, <1>14

\* The items that wait behind the first in the queue, in a selection of one depth: the
\* visible root, or one that is not below the first and is in an earlier row when they
\* have one parent.
LEMMA Behind ==
    ASSUME Shape, Ordered, ~mixed, queue # <<>>, NEW c, c = queue[1].item, c # root,
           NEW k \in 2..Len(queue), NEW x, x = queue[k].item
    PROVE  /\ x \in live /\ x \notin Subtree(c)
           /\ x # root => (Parent(x) = Parent(c) => Row(x) < Row(c))
  <1>1. queue \in Seq(Index) /\ Len(queue) \in Nat \ {0}
    BY TailIs DEF Shape, TypeOK
  <1>2. k \in 1..Len(queue) /\ 1 \in 1..Len(queue) /\ 1 < k /\ 1 # k
    BY <1>1
  <1>3. /\ c \in live /\ x \in live
        /\ queue[1].row = Row(c) /\ queue[k].row = Row(x) /\ queue[1].row >= queue[k].row
    BY <1>2 DEF Ordered
  <1>4. c \in Queued /\ x \in Queued
    BY <1>2 DEF Queued
  <1>5. x # c
    BY <1>2 DEF Shape, Counting
  <1>6. x \notin Subtree(c)
    BY <1>4, <1>5 DEF Ordered
  <1>7. ASSUME x # root, Parent(x) = Parent(c) PROVE Row(x) < Row(c)
    <2>1. /\ Row(x) \in 0..(Len(children[Parent(x)]) - 1)
          /\ children[Parent(x)][Row(x) + 1] = x
      BY <1>3, <1>7, HasParent DEF Shape
    <2>2. /\ Row(c) \in 0..(Len(children[Parent(c)]) - 1)
          /\ children[Parent(c)][Row(c) + 1] = c
      BY <1>3, HasParent DEF Shape
    <2>3. Row(x) # Row(c)
      BY <1>5, <1>7, <2>1, <2>2
    <2>4. Row(x) \in Int /\ Row(c) \in Int
      BY <2>1, <2>2
    <2>5. QED
      BY <1>3, <2>3, <2>4
  <1>8. QED
    BY <1>3, <1>6, <1>7

\* What a turn of the loop does in a selection of one depth: nothing at the visible root;
\* else it removes the item of the index it took, for its row is still the one queued.
LEMMA DeletedInRow ==
    ASSUME Shape, Ordered, ~mixed, DeleteNext, NEW c, c = Head(queue).item
    PROVE  \/ c = root /\ UNCHANGED <<data, items>>
           \/ /\ c # root /\ Parent(c) \in live /\ At(Parent(c)) \in Array
              /\ Row(c) \in 0..(Len(children[Parent(c)]) - 1)
              /\ children[Parent(c)][Row(c) + 1] = c
              /\ RemoveChildren(Parent(c), Row(c))
              /\ announced' = [i \in Item |-> CASE i \notin live' -> 0
                                                [] i = Parent(c) -> announced[i] - 1
                                                [] OTHER         -> announced[i]]
  <1>1. queue \in Seq(Index) /\ queue # <<>> /\ c \in live
    BY DEF DeleteNext, Shape, TypeOK, Counting
  <1>2. Head(queue) = queue[1] /\ 1 \in 1..Len(queue)
    BY <1>1, TailIs
  <1>3. Head(queue).row = Row(c)
    BY <1>2 DEF Ordered
  <1>4. CASE c = root
    BY <1>4 DEF DeleteNext
  <1>5. CASE c # root
    <2>1. /\ Parent(c) \in live /\ At(Parent(c)) \in Array
          /\ Row(c) \in 0..(Len(children[Parent(c)]) - 1)
          /\ children[Parent(c)][Row(c) + 1] = c
      BY <1>1, <1>5, HasParent DEF Shape
    <2>2. Row(c) < Len(children[Parent(c)])
      <3>1. Len(children[Parent(c)]) \in Nat
        BY <2>1, ItemIs DEF Shape
      <3>2. QED
        BY <2>1, <3>1
    <2>3. \/ ~ (Head(queue).row < Len(children[Parent(c)]))
          \/ /\ RemoveChildren(Parent(c), Head(queue).row)
             /\ announced' = [i \in Item |-> CASE i \notin live' -> 0
                                               [] i = Parent(c) -> announced[i] - 1
                                               [] OTHER         -> announced[i]]
      BY <1>5, Deleted
    <2>4. QED
      BY <1>3, <1>5, <2>1, <2>2, <2>3
  <1>6. QED
    BY <1>4, <1>5

\* What is left of a selection of one depth after a turn of the loop is still in its
\* rows, later rows first, and in the visible root's tree.
LEMMA RowsLeft ==
    ASSUME Shape, Ordered, ~mixed, DeleteNext, Shape'
    PROVE  /\ \A k \in 1..Len(queue') :
                 queue'[k].item \in live' /\ queue'[k].row = Row(queue[k].item)'
           /\ live' \subseteq live
           /\ \A i \in live' : ToSet(children'[i]) \subseteq ToSet(children[i])
           /\ \A i \in live' : announced'[i] = Len(children'[i])
           /\ live \ live' \subseteq Subtree(Head(queue).item)
           /\ Head(queue).item = root \/ Head(queue).item \notin live'
  <1> DEFINE c == Head(queue).item
             p == Parent(c)
             r == Row(c)
             n == Len(queue)
  <1>1. queue \in Seq(Index) /\ queue # <<>> /\ queue' = Tail(queue) /\ c \in live
    BY DEF DeleteNext, Shape, TypeOK, Counting
  <1>2. /\ Head(queue) = queue[1] /\ 1 \in 1..n /\ n \in Nat \ {0} /\ Len(queue') = n - 1
        /\ \A k \in 1..(n - 1) : k + 1 \in 1..n /\ queue'[k] = queue[k + 1]
    BY <1>1, TailIs
  <1>3. \A k \in 1..n : queue[k].item \in live /\ queue[k].row = Row(queue[k].item)
    BY DEF Ordered
  <1>4. \A i \in live : announced[i] = Len(children[i])
    BY DEF Ordered
  <1>5. CASE c = root /\ UNCHANGED <<data, items>>
    <2>1. live' = live /\ root' = root /\ children' = children /\ announced' = announced
      BY <1>5 DEF items
    <2>2. \A i : Row(i)' = Row(i)
      BY <2>1, SameItems
    <2>3. \A k \in 1..Len(queue') :
             queue'[k].item \in live' /\ queue'[k].row = Row(queue'[k].item)
      BY <1>2, <1>3, <2>1
    <2>4. \A k \in 1..Len(queue') :
             queue'[k].item \in live' /\ queue'[k].row = Row(queue[k].item)'
      <3>1. ASSUME NEW k \in 1..Len(queue'), NEW x, x = queue'[k].item
            PROVE  queue'[k].row = Row(x)'
        BY <2>2, <2>3, <3>1
      <3>2. QED
        BY <2>3, <3>1
    <2>5. QED
      BY <1>4, <1>5, <2>1, <2>4
  <1>6. CASE /\ c # root /\ p \in live /\ At(p) \in Array
             /\ r \in 0..(Len(children[p]) - 1)
             /\ children[p][r + 1] = c
             /\ RemoveChildren(p, r)
             /\ announced' = [i \in Item |-> CASE i \notin live' -> 0
                                               [] i = p         -> announced[i] - 1
                                               [] OTHER         -> announced[i]]
    <2> DEFINE gone == Subtree(c)
    <2>1. gone = Subtree(children[p][r + 1])
      BY <1>6
    <2>2. /\ Tree' /\ live' = live \ gone /\ root' = root /\ p \in live'
          /\ c \in gone
          /\ \A i \in live' : ToSet(children'[i]) \subseteq ToSet(children[i])
          /\ \A i \in live' : i # p => children'[i] = children[i]
      <3>1. Tree /\ children[p][r + 1] = c
        BY <1>6 DEF Shape
      <3> HIDE DEF gone, c, p, r
      <3>2. p \in live /\ At(p) \in Array /\ r \in 0..(Len(children[p]) - 1) /\ RemoveChildren(p, r)
        BY <1>6
      <3> QED
        BY ONLY <2>1, <3>1, <3>2, RemovedIs
    <2>3. Len(children'[p]) = Len(children[p]) - 1
      <3>1. Tree
        BY DEF Shape
      <3> HIDE DEF c, p, r
      <3> QED
        BY <1>6, <3>1, RemovedRows
    <2>4. ASSUME NEW i \in live' PROVE announced'[i] = Len(children'[i])
      <3>1. i \in live /\ i \in Item
        BY <2>2, <2>4 DEF Shape, TypeOK
      <3>2. announced[i] = Len(children[i])
        BY <1>4, <3>1
      <3> HIDE DEF gone, c, p, r
      <3>3. CASE i = p
        BY <1>6, <2>3, <2>4, <3>1, <3>2, <3>3
      <3>4. CASE i # p
        BY <1>6, <2>2, <2>4, <3>1, <3>2, <3>4
      <3>5. QED
        BY <3>3, <3>4
    <2>5. ASSUME NEW k \in 1..Len(queue'), NEW x, x = queue'[k].item
          PROVE  x \in live' /\ queue'[k].row = Row(x)'
      <3>1. k + 1 \in 2..n /\ k + 1 \in 1..n /\ queue'[k] = queue[k + 1]
        BY <1>2
      <3>2. x = queue[k + 1].item /\ queue[k + 1].row = Row(x) /\ c = queue[1].item
        BY <1>2, <1>3, <2>5, <3>1
      <3>3. /\ x \in live /\ x \notin Subtree(c)
            /\ x # root => (Parent(x) = Parent(c) => Row(x) < Row(c))
        <4> DEFINE l == k + 1
        <4>1. l \in 2..Len(queue) /\ x = queue[l].item /\ c = queue[1].item /\ c # root
          BY <1>6, <3>1, <3>2
        <4> HIDE DEF l, c
        <4>2. QED
          BY <1>1, <4>1, Behind
      <3>4. x \in live'
        BY <2>2, <3>3
      <3>5. CASE x = root
        <4>1. Row(x) = 0 /\ Row(x)' = 0
          BY <2>2, <3>5 DEF Row
        <4>2. QED
          BY <3>1, <3>2, <3>4, <4>1
      <3>6. CASE x # root
        <4>1. Parent(x) = p => Row(x) < r
          BY <3>3, <3>6
        <4>2. Row(x)' = Row(x)
          <5>1. Tree
            BY DEF Shape
          <5> HIDE DEF c, p, r, gone
          <5> QED
            BY <1>6, <2>2, <3>4, <3>6, <4>1, <5>1, KeptRow
        <4>3. QED
          BY <3>1, <3>2, <3>4, <4>2
      <3>7. QED
        BY <3>5, <3>6
    <2>6. \A k \in 1..Len(queue') :
             queue'[k].item \in live' /\ queue'[k].row = Row(queue[k].item)'
      BY <2>5
    <2>7. live \ live' \subseteq gone /\ c \notin live' /\ live' \subseteq live
      BY <2>2
    <2>8. QED
      BY <2>2, <2>4, <2>6, <2>7
  <1>7. QED
    BY <1>5, <1>6, DeletedInRow

\* Deleting the selected values leaves the rest of a selection of one depth in order, and
\* takes nothing but selected items with what is below them.
LEMMA DeleteOrders ==
    ASSUME Shape, Ordered, DeleteNext, Shape'
    PROVE  /\ Ordered'
           /\ ~mixed =>
                 /\ \A i \in live : i \notin live' => \E s \in selection \cap live : i \in Subtree(s)
                 /\ mode' = "idle" => live' \cap selection \subseteq {root}
  <1> DEFINE c == Head(queue).item
             n == Len(queue)
  <1>1. /\ mode = "delete" /\ queue' = Tail(queue) /\ c \in live /\ mixed' = mixed
        /\ mode' = IF n = 1 THEN "idle" ELSE "delete"
        /\ selection' = IF n = 1 THEN {} ELSE selection
    BY DEF DeleteNext
  <1>2. CASE mixed
    BY <1>1, <1>2 DEF Ordered
  <1>3. CASE ~mixed
    <2>1. /\ c \in Queued /\ Queued' = Queued \ {c}
          /\ mode' \in {"idle", "delete"} /\ (mode' = "idle" => queue' = <<>>)
      BY Dequeued
    <2>2. /\ queue \in Seq(Index) /\ n \in Nat \ {0} /\ Len(queue') = n - 1
          /\ \A k \in 1..(n - 1) : k + 1 \in 1..n /\ queue'[k] = queue[k + 1]
      BY <1>1, TailIs DEF Shape, TypeOK, Counting
    <2>3. /\ \A k \in 1..Len(queue') :
                queue'[k].item \in live' /\ queue'[k].row = Row(queue[k].item)'
          /\ live' \subseteq live
          /\ \A i \in live' : ToSet(children'[i]) \subseteq ToSet(children[i])
          /\ \A i \in live' : announced'[i] = Len(children'[i])
          /\ live \ live' \subseteq Subtree(c)
          /\ c = root \/ c \notin live'
      BY <1>3, RowsLeft
    <2>4. /\ Queued \subseteq selection /\ selection \cap live \subseteq {root} \cup Queued
          /\ \A i, j \in Queued : i \in Subtree(j) => i = j
          /\ \A k, l \in 1..n : k < l => queue[k].row >= queue[l].row
      BY <1>1, <1>3 DEF Ordered
    <2>5. Tree' /\ root' = root
      <3>1. root' = root
        BY <1>3, DeletedInRow DEF items, RemoveChildren
      <3>2. QED
        BY <3>1 DEF Shape
    <2> HIDE DEF c, n
    <2>6. ASSUME NEW k \in 1..Len(queue'), NEW l \in 1..Len(queue'), k < l
          PROVE  queue'[k].row >= queue'[l].row
      <3>1. /\ k + 1 \in 1..n /\ queue'[k] = queue[k + 1]
            /\ l + 1 \in 1..n /\ queue'[l] = queue[l + 1] /\ k + 1 < l + 1
        BY <2>2, <2>6
      <3>2. QED
        BY <2>4, <3>1
    <2>7. ASSUME NEW i \in Queued', NEW j \in Queued', i \in Subtree(j)' PROVE i = j
      <3>1. j \in live'
        BY <2>3 DEF Queued
      <3>2. i \in Subtree(j)
        BY <2>3, <2>5, <2>7, <3>1, LessBelow DEF Shape
      <3>3. QED
        BY <2>1, <2>4, <3>2
    <2>8. live' \cap selection \subseteq {root} \cup Queued'
      BY <2>1, <2>3, <2>4
    <2>9. Ordered'
      <3>1. \A i, j \in Queued' : i \in Subtree(j)' => i = j
        BY <2>7
      <3>2. \A k, l \in 1..Len(queue') : k < l => queue'[k].row >= queue'[l].row
        BY <2>6
      <3>3. mode' = "delete" => selection' = selection
        BY <1>1
      <3>4. mode' # "collect"
        BY <2>1
      <3>5. mode' = "delete" => /\ Queued' \subseteq selection'
                                /\ selection' \cap live' \subseteq {root'} \cup Queued'
        BY <2>1, <2>4, <2>5, <2>8, <3>3
      <3>6. QED
        BY <2>3, <3>1, <3>2, <3>4, <3>5 DEF Ordered
    <2>10. \A i \in live : i \notin live' => \E s \in selection \cap live : i \in Subtree(s)
      BY <1>1, <2>1, <2>3, <2>4
    <2>11. mode' = "idle" => live' \cap selection \subseteq {root}
      <3>1. SUFFICES ASSUME mode' = "idle" PROVE live' \cap selection \subseteq {root}
        OBVIOUS
      <3>2. Len(queue') = 0
        BY <2>1, <3>1, EmptySeq
      <3>3. Queued' = {}
        BY <3>2 DEF Queued
      <3>4. QED
        BY <2>8, <3>3
    <2>12. QED
      BY <1>3, <2>9, <2>10, <2>11
  <1>4. QED
    BY <1>2, <1>3

\* What a step may do to items and selection while no selection mixes depths.
Deletes == ~mixed =>
    /\ \A i \in live : i \notin live' => \E s \in selection \cap live : i \in Subtree(s)
    /\ mode = "delete" /\ mode' = "idle" => live' \cap selection \subseteq {root}

\* Every step keeps the queue in order, and takes no items but the selected ones with
\* what is below them.
LEMMA OrderedStep == Shape /\ Ordered /\ [Next]_vars => Ordered' /\ Deletes
  <1> SUFFICES ASSUME Shape, Ordered, [Next]_vars PROVE Ordered' /\ Deletes
    OBVIOUS
  <1>1. Shape'
    BY ShapeStep
  <1>2. ASSUME NEW i \in Item, NEW offset \in {0, 1}, InsertValue(i, offset)
        PROVE  Ordered' /\ Deletes
    <2>1. Ordered' /\ live \subseteq live' /\ mode = "idle"
      BY <1>2, InsertOrders
    <2>2. QED
      BY <2>1 DEF Deletes
  <1>3. ASSUME NEW i \in Item, NEW leaf \in Settable, EditValue(i, leaf)
        PROVE  Ordered' /\ Deletes
    <2>1. /\ UNCHANGED <<live, root, children, announced, queue, selection, mixed>>
          /\ mode' = mode /\ mode = "idle"
      BY <1>3 DEF EditValue, items
    <2>2. Ordered'
      BY <2>1, StayOrders
    <2>3. QED
      BY <2>1, <2>2 DEF Deletes
  <1>4. ASSUME \/ \E i \in Item : EditThrows(i)
               \/ DeleteFreed
        PROVE  Ordered' /\ Deletes
    <2>1. /\ UNCHANGED <<live, root, children, announced, queue, selection, mixed>>
          /\ mode' = "dead"
      BY <1>4 DEF EditThrows, DeleteFreed, items
    <2>2. Ordered'
      BY <2>1, StayOrders
    <2>3. QED
      BY <2>1, <2>2 DEF Deletes
  <1>5. ASSUME NEW S \in SUBSET live \ {{}}, DeleteSelected(S) PROVE Ordered' /\ Deletes
    <2>1. Ordered' /\ live' = live /\ mode = "idle"
      BY <1>5, SelectOrders
    <2>2. QED
      BY <2>1 DEF Deletes
  <1>6. CASE CollectIndex
    <2>1. Ordered' /\ live' = live /\ mode = "collect"
      BY <1>1, <1>6, CollectOrders
    <2>2. QED
      BY <2>1 DEF Deletes
  <1>7. CASE DeleteNext
    BY <1>1, <1>7, DeleteOrders DEF Deletes
  <1>8. CASE UNCHANGED vars
    <2>1. /\ UNCHANGED <<live, root, children, announced, queue, selection, mixed>>
          /\ mode' = mode
      BY <1>8 DEF vars
    <2>2. Ordered'
      BY <2>1, StayOrders
    <2>3. QED
      BY <2>1, <2>2 DEF Deletes
  <1>9. QED
    BY <1>2, <1>3, <1>4, <1>5, <1>6, <1>7, <1>8 DEF Next

\* beginRemoveRows never announces a row that is not removed: as long as no selection
\* mixes items of different depth, the view knows the rows there are, whatever is
\* selected, and in whatever order the std::set was filled.
THEOREM RowsAnnounced == Spec => []AnnouncedRows
  <1>1. Init => Shape /\ Ordered
    BY ShapeInit, OrderedInit
  <1>2. Shape /\ Ordered /\ [Next]_vars => Shape' /\ Ordered'
    BY ShapeStep, OrderedStep
  <1>3. Ordered => AnnouncedRows
    BY DEF Ordered, AnnouncedRows
  <1>4. QED
    BY <1>1, <1>2, <1>3, PTL DEF Spec

\* delete_selected_values deletes the selected values with what is nested in them, all of
\* them (but the visible root) and no others, although the rows of the ones still to be
\* deleted are not adjusted on the way.
THEOREM DeletesTheSelected == Spec => SelectedDeleted
  <1>1. Init => Shape /\ Ordered
    BY ShapeInit, OrderedInit
  <1>2. Shape /\ Ordered /\ [Next]_vars => Shape' /\ Ordered'
    BY ShapeStep, OrderedStep
  <1>3. Shape /\ Ordered /\ [Next]_vars =>
           [~mixed =>
              /\ \A i \in live : i \notin live' => \E s \in selection \cap live : i \in Subtree(s)
              /\ mode = "delete" /\ mode' = "idle" => live' \cap selection \subseteq {root}]_vars
    BY OrderedStep DEF Deletes
  <1>4. QED
    BY <1>1, <1>2, <1>3, PTL DEF Spec, SelectedDeleted

(* The document the items show --------------------------------------------- *)

\* Followed through their pointers, the items show the elements of every array.
ShownTrue == Shown = elems

\* Every array with elements is the one of an item, and its children stand for its
\* elements.
LEMMA ShownIs == Tree => ShownTrue
  <1> SUFFICES ASSUME Tree PROVE Shown = elems
    BY DEF ShownTrue
  <1>1. elems \in [Array -> Seq(Cell)]
    BY DEF Tree, Made
  <1>2. ASSUME NEW a \in Array PROVE Shown[a] = elems[a]
    <2>1. elems[a] \in Seq(Cell)
      BY <1>1
    <2>2. CASE \E i \in live : At(i) = a
      <3> DEFINE i == CHOOSE i \in live : Deref(ptr[i]) = a
      <3>1. i \in live /\ At(i) = a
        BY <2>2 DEF At
      <3>2. Shown[a] = [k \in 1..Len(children[i]) |-> Deref(ptr[children[i][k]])]
        BY <2>2 DEF Shown, At
      <3> HIDE DEF i
      <3>3. Len(children[i]) = Len(elems[a])
        BY <3>1, ItemIs
      <3>4. \A k \in 1..Len(children[i]) : Deref(ptr[children[i][k]]) = elems[a][k]
        BY <3>1, ChildIs DEF At
      <3>5. elems[a] = [k \in 1..Len(elems[a]) |-> elems[a][k]]
        BY <2>1, LenProperties
      <3>6. QED
        BY <3>2, <3>3, <3>4, <3>5
    <2>3. CASE ~ \E i \in live : At(i) = a
      <3>1. elems[a] = <<>>
        BY <2>3 DEF Tree, OwnedOnce
      <3>2. Shown[a] = <<>>
        BY <2>3 DEF Shown, At
      <3>3. QED
        BY <3>1, <3>2
    <2>4. QED
      BY <2>2, <2>3
  <1>3. Shown = [a \in Array |-> Shown[a]]
    BY DEF Shown
  <1>4. elems = [a \in Array |-> elems[a]]
    BY <1>1
  <1>5. QED
    BY <1>2, <1>3, <1>4

\* The arrays that go with an array are the ones nested in what the items show of it.
LEMMA NestedShown == ASSUME Shown = elems, NEW a \in Array PROVE Document!Nested(a) = NestedIn(a)
  <1> DEFINE next == [b \in Array |-> ToSet(elems[b]) \cap Array]
  <1>1. Document!Nested(a) = {b \in Array : \A S \in SUBSET Array :
            a \in S /\ (\A c \in S : ToSet(elems[c]) \cap Array \subseteq S) => b \in S}
    BY DEF Document!Nested, Document!ToSet, ToSet
  <1>2. DOMAIN next = Array /\ \A c \in Array : next[c] = ToSet(elems[c]) \cap Array
    OBVIOUS
  <1>3. NestedIn(a) = {b \in Array : \A S \in SUBSET Array :
            a \in S /\ (\A c \in S : next[c] \subseteq S) => b \in S}
    <2>1. NestedIn(a) = Reached(a, next)
      BY DEF NestedIn
    <2> HIDE DEF next
    <2>2. QED
      BY <1>2, <2>1 DEF Reached
  <1>4. \A S \in SUBSET Array : (\A c \in S : next[c] \subseteq S)
            <=> (\A c \in S : ToSet(elems[c]) \cap Array \subseteq S)
    BY <1>2
  <1> HIDE DEF next
  <1>5. QED
    BY <1>1, <1>3, <1>4

\* An insertion puts one leaf into one array.
LEMMA InsertShown ==
    ASSUME Shape, Shown = elems, Shown' = elems',
           NEW i \in Item, NEW offset \in {0, 1}, InsertValue(i, offset)
    PROVE  Document!Next
  <1> DEFINE p == Parent(i)
             a == At(p)
             k == Row(i) + offset + 1
  <1>1. i \in live /\ i # root /\ \E new \in Item \ live : InsertChildren(p, Row(i) + offset, new)
    BY DEF InsertValue
  <1>2. p \in live /\ a \in Array /\ Row(i) + offset \in 0..Len(children[p])
    BY <1>1, InsertPlace DEF Shape
  <1>3. Len(children[p]) = Len(elems[a]) /\ Len(children[p]) \in Nat
    BY <1>2, ItemIs DEF Shape
  <1>4. elems' = [elems EXCEPT ![a] = InsertAt(@, k, Inserted)]
    BY <1>1 DEF InsertChildren, At
  <1>5. k \in 1..(Len(elems[a]) + 1) /\ Inserted \in Leaf
    BY <1>2, <1>3, DocumentAssumption
  <1> HIDE DEF p, a, k
  <1>6. Document!InsertElement(a, k, Inserted)
    BY <1>4 DEF Document!InsertElement, Document!InsertAt, InsertAt
  <1>7. QED
    BY <1>2, <1>5, <1>6 DEF Document!Next

\* An edit replaces one leaf.
LEMMA EditShown ==
    ASSUME Shape, Shown = elems, Shown' = elems',
           NEW i \in Item, NEW leaf \in Settable, EditValue(i, leaf)
    PROVE  Document!Next
  <1> DEFINE a == ptr[i].array
             k == ptr[i].slot + 1
  <1>1. a \in Array /\ k \in 1..Len(elems[a]) /\ elems[a][k] \in Leaf
    BY EditStep DEF Shape
  <1>2. elems' = [elems EXCEPT ![a][k] = leaf]
    BY DEF EditValue
  <1>3. leaf \in Leaf
    BY DocumentAssumption
  <1> HIDE DEF a, k
  <1>4. Document!ReplaceLeaf(a, k, leaf)
    BY <1>1, <1>2 DEF Document!ReplaceLeaf
  <1>5. QED
    BY <1>1, <1>3, <1>4 DEF Document!Next

\* A turn of the loop removes one element with the arrays nested in it, or none.
LEMMA DeleteShown ==
    ASSUME Shape, Shown = elems, Shown' = elems', DeleteNext
    PROVE  Document!Next \/ elems' = elems
  <1> DEFINE c == Head(queue).item
             p == Parent(c)
             r == Head(queue).row
             a == At(p)
             k == r + 1
  <1>1. CASE UNCHANGED data
    BY <1>1 DEF data
  <1>2. CASE p \in live /\ a \in Array /\ r \in 0..(Len(children[p]) - 1) /\ RemoveChildren(p, r)
    <2>1. Len(children[p]) = Len(elems[a]) /\ Len(children[p]) \in Nat
      BY <1>2, ItemIs DEF Shape
    <2>2. k \in 1..Len(elems[a])
      BY <1>2, <2>1
    <2> DEFINE gone == IF elems[a][k] \in Array THEN NestedIn(elems[a][k]) ELSE {}
    <2>3. elems' = [b \in Array |-> CASE b = a      -> RemoveAt(elems[a], k)
                                      [] b \in gone -> <<>>
                                      [] OTHER      -> elems[b]]
      BY <1>2 DEF RemoveChildren, At
    <2>4. gone = IF elems[a][k] \in Array THEN Document!Nested(elems[a][k]) ELSE {}
      BY NestedShown
    <2> HIDE DEF c, p, r, a, k, gone
    <2>5. Document!RemoveElement(a, k)
      BY <2>3, <2>4 DEF Document!RemoveElement, Document!RemoveAt, RemoveAt
    <2>6. QED
      BY <1>2, <2>2, <2>5 DEF Document!Next
  <1>3. QED
    BY <1>1, <1>2, Deleted

\* What the items show is edited like a document: every insertion, edit and removal is
\* that of one element of one array, and no other handler changes what is shown.
THEOREM ImplementsNestedArrays == Spec => RefinesNestedArrays
  <1>1. Init => Shape
    BY ShapeInit
  <1>2. Shape /\ [Next]_vars => Shape'
    BY ShapeStep
  <1>3. Shape => ShownTrue
    BY ShownIs DEF Shape
  <1>4. Init /\ ShownTrue => Document!Init
    BY DEF Init, Document!Init, ShownTrue
  <1>5. Shape /\ ShownTrue /\ ShownTrue' /\ [Next]_vars => [Document!Next]_Shown
    <2> SUFFICES ASSUME Shape, Shown = elems, Shown' = elems', [Next]_vars
                 PROVE  Document!Next \/ elems' = elems
      BY DEF ShownTrue
    <2>1. ASSUME NEW i \in Item, NEW offset \in {0, 1}, InsertValue(i, offset)
          PROVE  Document!Next
      BY <2>1, InsertShown
    <2>2. ASSUME NEW i \in Item, NEW leaf \in Settable, EditValue(i, leaf)
          PROVE  Document!Next
      BY <2>2, EditShown
    <2>3. ASSUME NEW i \in Item, EditThrows(i) PROVE elems' = elems
      BY <2>3 DEF EditThrows, data
    <2>4. ASSUME NEW S \in SUBSET live \ {{}}, DeleteSelected(S) PROVE elems' = elems
      BY <2>4 DEF DeleteSelected, data
    <2>5. CASE CollectIndex
      BY <2>5 DEF CollectIndex, data
    <2>6. CASE DeleteNext
      BY <2>6, DeleteShown
    <2>7. CASE DeleteFreed
      BY <2>7 DEF DeleteFreed, data
    <2>8. CASE UNCHANGED vars
      BY <2>8 DEF vars, data
    <2>9. QED
      BY <2>1, <2>2, <2>3, <2>4, <2>5, <2>6, <2>7, <2>8 DEF Next
  <1>6. QED
    BY <1>1, <1>2, <1>3, <1>4, <1>5, PTL DEF Spec, RefinesNestedArrays, Document!Spec

=============================================================================
