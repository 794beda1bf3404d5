------------------------ MODULE DocumentViews_proofs ------------------------
(***************************************************************************)
(* Proofs about ElementExtraction, for sequences and indices of any kind,  *)
(* and about DocumentViews, for any number of views and documents.         *)
(***************************************************************************)
EXTENDS DocumentViews, SequenceTheorems, WellFoundedInduction, TLAPS

(* Sequences ------------------------------------------------------------- *)

\* A function on 1..n is a sequence of length n, whatever its elements are.
LEMMA SequenceOf ==
    ASSUME NEW n \in Nat, NEW s, s = [k \in 1..n |-> s[k]]
    PROVE  IsSequence(s) /\ Len(s) = n
  <1> DEFINE S == {s[k] : k \in DOMAIN s}
  <1>1. s \in [1..n -> S]
    OBVIOUS
  <1>2. s \in Seq(S)
    <2> HIDE DEF S
    <2> QED BY <1>1
  <1>3. QED
    BY <1>1, <1>2, LenProperties DEF IsSequence

\* What IsSequence gives.
LEMMA SequenceIs ==
    ASSUME NEW s, IsSequence(s)
    PROVE  /\ Len(s) \in Nat
           /\ DOMAIN s = 1..Len(s)
           /\ s = [k \in 1..Len(s) |-> s[k]]
  <1> DEFINE S == {s[k] : k \in DOMAIN s}
  <1>1. s \in Seq(S)
    BY DEF IsSequence
  <1> HIDE DEF S
  <1>2. QED
    BY <1>1, LenProperties

\* A set of positions that is not empty has a last one.
LEMMA LastPosition ==
    ASSUME NEW n \in Nat, NEW W \in SUBSET (1..n), W # {}
    PROVE  \E i \in W : \A j \in W : j <= i
  <1> DEFINE R == OpToRel(<, Nat)
             T == {m \in Nat : \E i \in W : m = n - i}
  <1>1. IsWellFoundedOn(R, Nat)
    BY NatLessThanWellFounded
  <1>2. T \subseteq Nat /\ T # {}
    <2>1. PICK i \in W : TRUE
      OBVIOUS
    <2>2. n - i \in Nat
      OBVIOUS
    <2>3. QED
      BY <2>1, <2>2
  <1>3. \A x, y \in Nat : y < x => <<y, x>> \in R
    BY DEF OpToRel
  <1>4. PICK x \in T : \A y \in T : ~ (<<y, x>> \in R)
    <2> HIDE DEF R, T
    <2> QED
      BY <1>1, <1>2, WFMin
  <1>5. PICK i \in W : x = n - i
    OBVIOUS
  <1>6. ASSUME NEW j \in W PROVE j <= i
    <2>1. n - j \in T
      OBVIOUS
    <2>2. ~ (n - j < x)
      BY <1>2, <1>3, <1>4, <2>1
    <2>3. QED
      BY <1>5, <2>2
  <1>7. QED
    BY <1>6

(* Extraction as a lens -------------------------------------------------- *)

\* embed keeps the size of the target.
LEMMA EmbedSize ==
    ASSUME NEW extracted, NEW indices, NEW target, IsSequence(target)
    PROVE  /\ IsSequence(Embed(extracted, indices, target))
           /\ Len(Embed(extracted, indices, target)) = Len(target)
  BY SequenceOf, SequenceIs DEF Embed

\* Where an index leads.
LEMMA PlaceType ==
    ASSUME NEW size \in Nat, size > 0, NEW index \in Int
    PROVE  Place(size, index) \in 1..size
  BY DEF Place, AbsoluteIndex

\* The writer whose element stays.
LEMMA LastWriterType ==
    ASSUME NEW size, NEW k, NEW indices \in Seq(Int), Writers(size, indices, k) # {}
    PROVE  /\ LastWriter(size, indices, k) \in 1..Len(indices)
           /\ Place(size, indices[LastWriter(size, indices, k)]) = k
  <1> DEFINE writers == Writers(size, indices, k)
  <1>1. writers \in SUBSET (1..Len(indices)) /\ Len(indices) \in Nat
    BY DEF Writers
  <1>2. \E i \in writers : \A j \in writers : j <= i
    <2> HIDE DEF writers
    <2>1. writers # {}
      BY DEF writers
    <2>2. QED
      BY <1>1, <2>1, LastPosition
  <1>3. LastWriter(size, indices, k) \in writers
    BY <1>2 DEF LastWriter
  <1>4. QED
    BY <1>3 DEF Writers

\* What was extracted and not changed can be embedded again without a change to the
\* array it came from, even if an index names an element twice: integrating a fresh
\* document is harmless.
THEOREM EmbedOfProject ==
    ASSUME NEW S, NEW array \in Seq(S), NEW indices \in Seq(Int)
    PROVE  Embed(Project(array, indices), indices, array) = array
  <1> DEFINE embedded == Embed(Project(array, indices), indices, array)
  <1>1. ASSUME NEW k \in 1..Len(array) PROVE embedded[k] = array[k]
    <2> DEFINE i == LastWriter(Len(array), indices, k)
    <2>1. CASE Writers(Len(array), indices, k) = {}
      BY <2>1 DEF Embed
    <2>2. CASE Writers(Len(array), indices, k) # {}
      <3>1. i \in 1..Len(indices) /\ Place(Len(array), indices[i]) = k
        BY <2>2, LastWriterType
      <3>2. embedded[k] = Project(array, indices)[i]
        BY <2>2 DEF Embed
      <3>3. QED
        BY <3>1, <3>2 DEF Project
    <2>3. QED
      BY <2>1, <2>2
  <1>2. embedded = [k \in 1..Len(array) |-> embedded[k]]
    BY DEF Embed
  <1>3. array = [k \in 1..Len(array) |-> array[k]]
    OBVIOUS
  <1>4. embedded = [k \in 1..Len(array) |-> array[k]]
    <2> HIDE DEF embedded
    <2>1. [k \in 1..Len(array) |-> embedded[k]] = [k \in 1..Len(array) |-> array[k]]
      BY <1>1
    <2>2. QED
      BY <1>2, <2>1
  <1>5. QED
    BY <1>3, <1>4

\* After embedding, projecting with the same indices gives what was embedded, for
\* any array with an element, unless two indices name the same element of it.
THEOREM ProjectOfEmbed ==
    ASSUME NEW S, NEW target \in Seq(S), Len(target) > 0,
           NEW indices \in Seq(Int), NEW extracted \in Seq(S),
           Len(extracted) = Len(indices), Distinct(Len(target), indices)
    PROVE  Project(Embed(extracted, indices, target), indices) = extracted
  <1> DEFINE embedded == Embed(extracted, indices, target)
             size == Len(target)
  <1>1. Len(embedded) = size
    <2>1. IsSequence(target)
      BY SMTT(60), SequenceOf
    <2>2. QED
      BY <2>1, EmbedSize
  <1>2. ASSUME NEW i \in 1..Len(indices) PROVE embedded[Place(size, indices[i])] = extracted[i]
    <2> DEFINE k == Place(size, indices[i])
    <2>1. k \in 1..size
      <3>1. size \in Nat /\ size > 0 /\ indices[i] \in Int
        OBVIOUS
      <3> HIDE DEF size
      <3>2. QED
        BY <3>1, PlaceType
    <2>2. i \in Writers(size, indices, k)
      BY DEF Writers
    <2>3. LastWriter(size, indices, k) = i
      <3>1. Writers(size, indices, k) # {}
        BY <2>2
      <3>2. /\ LastWriter(size, indices, k) \in 1..Len(indices)
            /\ Place(size, indices[LastWriter(size, indices, k)]) = k
        <4> HIDE DEF size, k
        <4> QED BY <3>1, LastWriterType
      <3>3. QED
        BY <3>2 DEF Distinct
    <2>4. QED
      BY <2>1, <2>2, <2>3 DEF Embed
  <1>3. Project(embedded, indices) = [i \in 1..Len(indices) |-> extracted[i]]
    <2> HIDE DEF embedded
    <2> QED BY <1>1, <1>2 DEF Project
  <1>4. extracted = [i \in 1..Len(indices) |-> extracted[i]]
    OBVIOUS
  <1>5. QED
    BY <1>3, <1>4

(* Paths ----------------------------------------------------------------- *)

\* The first steps of a path of at most three.
LEMMA FirstSteps ==
    ASSUME NEW a, NEW b, NEW c
    PROVE  /\ SubSeq(<<a>>, 1, 0) = <<>>
           /\ SubSeq(<<a, b>>, 1, 0) = <<>> /\ SubSeq(<<a, b>>, 1, 1) = <<a>>
           /\ SubSeq(<<a, b, c>>, 1, 0) = <<>> /\ SubSeq(<<a, b, c>>, 1, 1) = <<a>>
           /\ SubSeq(<<a, b, c>>, 1, 2) = <<a, b>>
  <1> DEFINE S == {a, b, c}
  <1>1. ASSUME NEW p \in Seq(S), NEW n \in 0..Len(p), NEW q \in Seq(S), Len(q) = n,
               \A i \in 1..n : q[i] = p[i]
        PROVE  SubSeq(p, 1, n) = q
    <2>1. \A i \in 1..n : p[i] \in S
      BY <1>1, LenProperties
    <2> HIDE DEF S
    <2>2. /\ SubSeq(p, 1, n) \in Seq(S)
          /\ Len(SubSeq(p, 1, n)) = IF 1 <= n THEN n - 1 + 1 ELSE 0
          /\ \A i \in 1..(n - 1 + 1) : SubSeq(p, 1, n)[i] = p[1 + i - 1]
      BY <1>1, <2>1, SubSeqProperties
    <2>3. Len(SubSeq(p, 1, n)) = n /\ \A i \in 1..n : SubSeq(p, 1, n)[i] = q[i]
      BY <1>1, <2>2
    <2>4. QED
      BY <1>1, <2>2, <2>3, SeqEqual
  <1>2. <<>> \in Seq(S) /\ <<a>> \in Seq(S) /\ <<a, b>> \in Seq(S) /\ <<a, b, c>> \in Seq(S)
    OBVIOUS
  <1>3. /\ Len(<<>>) = 0 /\ Len(<<a>>) = 1 /\ Len(<<a, b>>) = 2 /\ Len(<<a, b, c>>) = 3
        /\ <<a>>[1] = a /\ <<a, b>>[1] = a /\ <<a, b>>[2] = b
        /\ <<a, b, c>>[1] = a /\ <<a, b, c>>[2] = b
    OBVIOUS
  <1> HIDE DEF S
  <1>4. \A p \in Seq(S) : SubSeq(p, 1, 0) = <<>>
    <2> TAKE p \in Seq(S)
    <2>1. 0 \in 0..Len(p) /\ \A i \in 1..0 : <<>>[i] = p[i]
      BY LenProperties
    <2>2. QED
      BY <1>1, <1>2, <1>3, <2>1
  <1>5. SubSeq(<<a, b>>, 1, 1) = <<a>> /\ SubSeq(<<a, b, c>>, 1, 1) = <<a>>
    <2> DEFINE p == <<a, b>>
               q == <<a>>
               r == <<a, b, c>>
    <2>1. /\ p \in Seq(S) /\ q \in Seq(S) /\ r \in Seq(S) /\ Len(q) = 1
          /\ q[1] = p[1] /\ q[1] = r[1] /\ 1 \in 0..Len(p) /\ 1 \in 0..Len(r)
      BY <1>2, <1>3
    <2> HIDE DEF p, q, r
    <2>2. (\A i \in 1..1 : q[i] = p[i]) /\ (\A i \in 1..1 : q[i] = r[i])
      <3>1. \A i \in 1..1 : i = 1
        OBVIOUS
      <3>2. QED
        BY <2>1, <3>1
    <2>3. SubSeq(p, 1, 1) = q /\ SubSeq(r, 1, 1) = q
      BY <1>1, <2>1, <2>2
    <2>4. QED
      BY <2>3 DEF p, q, r
  <1>6. SubSeq(<<a, b, c>>, 1, 2) = <<a, b>>
    <2> DEFINE p == <<a, b, c>>
               q == <<a, b>>
    <2>1. /\ p \in Seq(S) /\ q \in Seq(S) /\ Len(q) = 2
          /\ q[1] = p[1] /\ q[2] = p[2] /\ 2 \in 0..Len(p)
      BY <1>2, <1>3
    <2> HIDE DEF p, q
    <2>2. \A i \in 1..2 : q[i] = p[i]
      BY <2>1
    <2>3. SubSeq(p, 1, 2) = q
      BY <1>1, <2>1, <2>2
    <2>4. QED
      BY <2>3 DEF p, q
  <1>7. QED
    BY <1>2, <1>4, <1>5, <1>6

\* One step more.
LEMMA NextStep ==
    ASSUME NEW a, NEW b, NEW c
    PROVE  /\ Append(<<>>, a) = <<a>> /\ Append(<<a>>, b) = <<a, b>>
           /\ Append(<<a, b>>, c) = <<a, b, c>>
  <1> DEFINE S == {a, b, c}
  <1>1. ASSUME NEW p \in Seq(S), NEW x \in S, NEW q \in Seq(S), Len(q) = Len(p) + 1,
               \A i \in 1..Len(p) : q[i] = p[i], q[Len(p) + 1] = x
        PROVE  Append(p, x) = q
    <2> HIDE DEF S
    <2>1. /\ Append(p, x) \in Seq(S) /\ Len(Append(p, x)) = Len(p) + 1
          /\ \A i \in 1..Len(p) : Append(p, x)[i] = p[i]
          /\ Append(p, x)[Len(p) + 1] = x
      BY <1>1, AppendProperties
    <2>2. Len(p) \in Nat /\ \A i \in 1..(Len(p) + 1) : i \in 1..Len(p) \/ i = Len(p) + 1
      BY <1>1, LenProperties
    <2>3. \A i \in 1..Len(q) : Append(p, x)[i] = q[i]
      BY <1>1, <2>1, <2>2
    <2>4. QED
      BY <1>1, <2>1, <2>3, SeqEqual
  <1>2. /\ <<>> \in Seq(S) /\ <<a>> \in Seq(S) /\ <<a, b>> \in Seq(S) /\ <<a, b, c>> \in Seq(S)
        /\ a \in S /\ b \in S /\ c \in S
    OBVIOUS
  <1>3. Append(<<>>, a) = <<a>>
    <2> DEFINE p == <<>>
               q == <<a>>
    <2>1. Len(p) = 0 /\ Len(q) = Len(p) + 1 /\ \A i \in 1..Len(p) : q[i] = p[i]
      OBVIOUS
    <2>2. q[Len(p) + 1] = a /\ p \in Seq(S) /\ q \in Seq(S)
      BY <1>2
    <2> HIDE DEF p, q, S
    <2>3. Append(p, a) = q
      BY <1>1, <1>2, <2>1, <2>2
    <2>4. QED
      BY <2>3 DEF p, q
  <1>4. Append(<<a>>, b) = <<a, b>>
    <2> DEFINE p == <<a>>
               q == <<a, b>>
    <2>1. Len(p) = 1 /\ Len(q) = 2 /\ q[1] = p[1] /\ q[2] = b
      OBVIOUS
    <2>2. p \in Seq(S) /\ q \in Seq(S)
      BY <1>2
    <2> HIDE DEF p, q, S
    <2>3. \A i \in 1..Len(p) : q[i] = p[i]
      BY <2>1
    <2>4. Len(q) = Len(p) + 1 /\ q[Len(p) + 1] = b /\ b \in S
      BY <1>2, <2>1
    <2>5. Append(p, b) = q
      BY <1>1, <2>2, <2>3, <2>4
    <2>6. QED
      BY <2>5 DEF p, q
  <1>5. Append(<<a, b>>, c) = <<a, b, c>>
    <2> DEFINE p == <<a, b>>
               q == <<a, b, c>>
    <2>1. Len(p) = 2 /\ Len(q) = 3 /\ q[1] = p[1] /\ q[2] = p[2] /\ q[3] = c
      OBVIOUS
    <2>2. p \in Seq(S) /\ q \in Seq(S)
      BY <1>2
    <2> HIDE DEF p, q, S
    <2>3. \A i \in 1..Len(p) : q[i] = p[i]
      <3>1. \A i \in 1..2 : i = 1 \/ i = 2
        OBVIOUS
      <3>2. QED
        BY <2>1, <3>1
    <2>4. Len(q) = Len(p) + 1 /\ q[Len(p) + 1] = c /\ c \in S
      BY <1>2, <2>1
    <2>5. Append(p, c) = q
      BY <1>1, <2>2, <2>3, <2>4
    <2>6. QED
      BY <2>5 DEF p, q
  <1>6. QED
    BY <1>3, <1>4, <1>5

\* One step of the walk along a path, and of putting back what is at its end.
Walked(data, path, f) ==
    [n \in 0..Len(path) |-> IF n = 0 THEN data ELSE f[n - 1].elems[path[n]]]
Replaced(data, path, new, f) ==
    [n \in 0..Len(path) |->
        IF n = Len(path) THEN new
        ELSE [ElementAt(data, SubSeq(path, 1, n)) EXCEPT !.elems[path[n + 1]] = f[n + 1]]]

\* What SEPTModel::index walks through is what some function walks through.
LEMMA ElementAtUnfolds ==
    ASSUME NEW data, NEW path, NEW g, g = Walked(data, path, g)
    PROVE  \E f : f = Walked(data, path, f) /\ ElementAt(data, path) = f[Len(path)]
  <1> DEFINE At == CHOOSE f : f = Walked(data, path, f)
  <1>1. At = Walked(data, path, At)
    OBVIOUS
  <1>2. ElementAt(data, path) = At[Len(path)]
    BY DEF ElementAt, Walked
  <1> HIDE DEF At
  <1>3. QED
    BY <1>1, <1>2

\* The same of what is put at the end of a path: the handler replaces it and all it is in.
LEMMA PutAtUnfolds ==
    ASSUME NEW data, NEW path, NEW new, NEW g, g = Replaced(data, path, new, g)
    PROVE  \E f : f = Replaced(data, path, new, f) /\ PutAt(data, path, new) = f[0]
  <1> DEFINE Put == CHOOSE f : f = Replaced(data, path, new, f)
  <1>1. Put = Replaced(data, path, new, Put)
    OBVIOUS
  <1>2. PutAt(data, path, new) = Put[0]
    BY DEF PutAt, Replaced
  <1> HIDE DEF Put
  <1>3. QED
    BY <1>1, <1>2

\* The element at the end of a path of no steps and of one.
LEMMA ElementAtNear ==
    ASSUME NEW data, NEW a
    PROVE  /\ ElementAt(data, <<>>) = data
           /\ ElementAt(data, <<a>>) = data.elems[a]
  <1>1. ElementAt(data, <<>>) = data
    <2> DEFINE p == <<>>
               g == [n \in 0..0 |-> data]
    <2>1. Len(p) = 0
      OBVIOUS
    <2> HIDE DEF p
    <2>2. g = Walked(data, p, g)
      BY <2>1 DEF Walked
    <2> HIDE DEF g
    <2>3. PICK f : f = Walked(data, p, f) /\ ElementAt(data, p) = f[Len(p)]
      BY <2>2, ElementAtUnfolds
    <2>4. f[0] = data
      BY <2>1, <2>3 DEF Walked
    <2>5. QED
      BY <2>1, <2>3, <2>4 DEF p
  <1>2. ElementAt(data, <<a>>) = data.elems[a]
    <2> DEFINE p == <<a>>
               g == [n \in 0..1 |-> IF n = 0 THEN data ELSE data.elems[a]]
    <2>1. Len(p) = 1 /\ p[1] = a
      OBVIOUS
    <2> HIDE DEF p
    <2>2. g = Walked(data, p, g)
      BY <2>1 DEF Walked
    <2> HIDE DEF g
    <2>3. PICK f : f = Walked(data, p, f) /\ ElementAt(data, p) = f[Len(p)]
      BY <2>2, ElementAtUnfolds
    <2>4. f[0] = data /\ f[1] = f[0].elems[a]
      BY <2>1, <2>3 DEF Walked
    <2>5. QED
      BY <2>1, <2>3, <2>4 DEF p
  <1>3. QED
    BY <1>1, <1>2

\* The element at the end of a path of two steps.
LEMMA ElementAtTwo ==
    ASSUME NEW data, NEW a, NEW b
    PROVE  ElementAt(data, <<a, b>>) = data.elems[a].elems[b]
  <1>1. ElementAt(data, <<a, b>>) = data.elems[a].elems[b]
    <2> DEFINE p == <<a, b>>
               g == [n \in 0..2 |-> IF n = 0 THEN data ELSE IF n = 1 THEN data.elems[a]
                                    ELSE data.elems[a].elems[b]]
    <2>1. Len(p) = 2 /\ p[1] = a /\ p[2] = b
      OBVIOUS
    <2> HIDE DEF p
    <2>2. g = Walked(data, p, g)
      BY <2>1 DEF Walked
    <2> HIDE DEF g
    <2>3. PICK f : f = Walked(data, p, f) /\ ElementAt(data, p) = f[Len(p)]
      BY <2>2, ElementAtUnfolds
    <2>4. f[0] = data /\ f[1] = f[0].elems[a] /\ f[2] = f[1].elems[b]
      BY <2>1, <2>3 DEF Walked
    <2>5. QED
      BY <2>1, <2>3, <2>4 DEF p
  <1>2. QED
    BY <1>1

\* data with new for its element k
WithElement(data, k, new) == [data EXCEPT !.elems[k] = new]

\* What is put at the root.
LEMMA PutAtRoot ==
    ASSUME NEW data, NEW new
    PROVE  PutAt(data, <<>>, new) =
             new
  <1> DEFINE p == <<>>
             At(q, n) == ElementAt(data, SubSeq(q, 1, n))
             g == [n \in 0..0 |-> new]
  <1>1. /\ Len(p) = 0
    OBVIOUS
  <1> HIDE DEF p, At
  <1>2. g = Replaced(data, p, new, g)
    <2>1. Replaced(data, p, new, g) =
            [n \in 0..Len(p) |-> IF n = Len(p) THEN new
                                 ELSE WithElement(At(p, n), p[n + 1], g[n + 1])]
      BY DEF Replaced, WithElement, At
    <2>2. QED
      BY <1>1, <2>1
  <1> HIDE DEF g
  <1>3. PICK f : f = Replaced(data, p, new, f) /\ PutAt(data, p, new) = f[0]
    BY <1>2, PutAtUnfolds
  <1>4. f = [n \in 0..Len(p) |-> IF n = Len(p) THEN new
                                 ELSE WithElement(At(p, n), p[n + 1], f[n + 1])]
    BY <1>3 DEF Replaced, WithElement, At
  <1>5. f[0] = new
    BY <1>1, <1>4
  <1>6. QED
    BY <1>3, <1>5 DEF p

\* What is put at a path of one step.
LEMMA PutAtOne ==
    ASSUME NEW data, NEW new, NEW a
    PROVE  PutAt(data, <<a>>, new) =
             WithElement(data, a, new)
  <1> DEFINE p == <<a>>
             At(q, n) == ElementAt(data, SubSeq(q, 1, n))
             g == [n \in 0..1 |-> IF n = 1 THEN new ELSE WithElement(data, a, new)]
  <1>1. /\ Len(p) = 1 /\ p[1] = a
        /\ At(p, 0) = data
    <2>1. Len(p) = 1 /\ p[1] = a
      OBVIOUS
    <2>2. At(p, 0) = data
      <3>1. SubSeq(p, 1, 0) = <<>>
        BY FirstSteps
      <3>2. ElementAt(data, <<>>) = data
        BY ElementAtNear
      <3>3. QED
        BY <3>1, <3>2
    <2>3. QED
      BY <2>1, <2>2
  <1> HIDE DEF p, At
  <1>2. g = Replaced(data, p, new, g)
    <2>1. Replaced(data, p, new, g) =
            [n \in 0..Len(p) |-> IF n = Len(p) THEN new
                                 ELSE WithElement(At(p, n), p[n + 1], g[n + 1])]
      BY DEF Replaced, WithElement, At
    <2>2. QED
      BY <1>1, <2>1
  <1> HIDE DEF g
  <1>3. PICK f : f = Replaced(data, p, new, f) /\ PutAt(data, p, new) = f[0]
    BY <1>2, PutAtUnfolds
  <1>4. f = [n \in 0..Len(p) |-> IF n = Len(p) THEN new
                                 ELSE WithElement(At(p, n), p[n + 1], f[n + 1])]
    BY <1>3 DEF Replaced, WithElement, At
  <1>5. f[1] = new /\ f[0] = WithElement(data, a, f[1])
    BY <1>1, <1>4
  <1>6. QED
    BY <1>3, <1>5 DEF p

\* What is put at a path of two steps.
LEMMA PutAtTwo ==
    ASSUME NEW data, NEW new, NEW a, NEW b
    PROVE  PutAt(data, <<a, b>>, new) =
             WithElement(data, a, WithElement(data.elems[a], b, new))
  <1> DEFINE p == <<a, b>>
             At(q, n) == ElementAt(data, SubSeq(q, 1, n))
             g1 == WithElement(data.elems[a], b, new)
             g == [n \in 0..2 |-> IF n = 2 THEN new ELSE IF n = 1 THEN g1
                                  ELSE WithElement(data, a, g1)]
  <1>1. /\ Len(p) = 2 /\ p[1] = a /\ p[2] = b
        /\ At(p, 0) = data /\ At(p, 1) = data.elems[a]
    <2>1. Len(p) = 2 /\ p[1] = a /\ p[2] = b
      OBVIOUS
    <2>2. At(p, 0) = data
      <3>1. SubSeq(p, 1, 0) = <<>>
        BY FirstSteps
      <3>2. ElementAt(data, <<>>) = data
        BY ElementAtNear
      <3>3. QED
        BY <3>1, <3>2
    <2>3. At(p, 1) = data.elems[a]
      <3>1. SubSeq(p, 1, 1) = <<a>>
        BY FirstSteps
      <3>2. ElementAt(data, <<a>>) = data.elems[a]
        BY ElementAtNear
      <3>3. QED
        BY <3>1, <3>2
    <2>4. QED
      BY <2>1, <2>2, <2>3
  <1> HIDE DEF p, At
  <1>2. g = Replaced(data, p, new, g)
    <2>1. Replaced(data, p, new, g) =
            [n \in 0..Len(p) |-> IF n = Len(p) THEN new
                                 ELSE WithElement(At(p, n), p[n + 1], g[n + 1])]
      BY DEF Replaced, WithElement, At
    <2>2. QED
      BY <1>1, <2>1
  <1> HIDE DEF g
  <1>3. PICK f : f = Replaced(data, p, new, f) /\ PutAt(data, p, new) = f[0]
    BY <1>2, PutAtUnfolds
  <1>4. f = [n \in 0..Len(p) |-> IF n = Len(p) THEN new
                                 ELSE WithElement(At(p, n), p[n + 1], f[n + 1])]
    BY <1>3 DEF Replaced, WithElement, At
  <1>5. /\ f[2] = new /\ f[1] = WithElement(data.elems[a], b, f[2])
        /\ f[0] = WithElement(data, a, f[1])
    BY <1>1, <1>4
  <1>6. QED
    BY <1>3, <1>5 DEF p

\* What is put at a path of three steps.
LEMMA PutAtThree ==
    ASSUME NEW data, NEW new, NEW a, NEW b, NEW c
    PROVE  PutAt(data, <<a, b, c>>, new) =
             WithElement(data, a,
                 WithElement(data.elems[a], b, WithElement(data.elems[a].elems[b], c, new)))
  <1> DEFINE p == <<a, b, c>>
             At(q, n) == ElementAt(data, SubSeq(q, 1, n))
             inner == WithElement(data.elems[a].elems[b], c, new)
             g1 == WithElement(data.elems[a], b, inner)
             g == [n \in 0..3 |-> IF n = 3 THEN new ELSE IF n = 2 THEN inner
                                  ELSE IF n = 1 THEN g1 ELSE WithElement(data, a, g1)]
  <1>1. /\ Len(p) = 3 /\ p[1] = a /\ p[2] = b /\ p[3] = c
        /\ At(p, 0) = data /\ At(p, 1) = data.elems[a] /\ At(p, 2) = data.elems[a].elems[b]
    <2>1. Len(p) = 3 /\ p[1] = a /\ p[2] = b /\ p[3] = c
      OBVIOUS
    <2>2. At(p, 0) = data
      <3>1. SubSeq(p, 1, 0) = <<>>
        BY FirstSteps
      <3>2. ElementAt(data, <<>>) = data
        BY ElementAtNear
      <3>3. QED
        BY <3>1, <3>2
    <2>3. At(p, 1) = data.elems[a]
      <3>1. SubSeq(p, 1, 1) = <<a>>
        BY FirstSteps
      <3>2. ElementAt(data, <<a>>) = data.elems[a]
        BY ElementAtNear
      <3>3. QED
        BY <3>1, <3>2
    <2>4. At(p, 2) = data.elems[a].elems[b]
      <3>1. SubSeq(p, 1, 2) = <<a, b>>
        BY FirstSteps
      <3>2. ElementAt(data, <<a, b>>) = data.elems[a].elems[b]
        BY ElementAtTwo
      <3>3. QED
        BY <3>1, <3>2
    <2>5. QED
      BY <2>1, <2>2, <2>3, <2>4
  <1> HIDE DEF p, At
  <1>2. g = Replaced(data, p, new, g)
    <2>1. Replaced(data, p, new, g) =
            [n \in 0..Len(p) |-> IF n = Len(p) THEN new
                                 ELSE WithElement(At(p, n), p[n + 1], g[n + 1])]
      BY DEF Replaced, WithElement, At
    <2>2. \A n \in 0..3 : g[n] = IF n = 3 THEN new ELSE WithElement(At(p, n), p[n + 1], g[n + 1])
      <3>1. g[3] = new /\ g[2] = inner /\ g[1] = g1 /\ g[0] = WithElement(data, a, g1)
        OBVIOUS
      <3>2. \A n \in 0..3 : n = 0 \/ n = 1 \/ n = 2 \/ n = 3
        OBVIOUS
      <3> HIDE DEF g
      <3>3. QED
        BY <1>1, <3>1, <3>2
    <2>3. Len(p) = 3 /\ g = [n \in 0..3 |-> g[n]]
      BY <1>1
    <2> HIDE DEF g
    <2>4. QED
      BY <2>1, <2>2, <2>3
  <1> HIDE DEF g
  <1>3. PICK f : f = Replaced(data, p, new, f) /\ PutAt(data, p, new) = f[0]
    BY <1>2, PutAtUnfolds
  <1>4. f = [n \in 0..Len(p) |-> IF n = Len(p) THEN new
                                 ELSE WithElement(At(p, n), p[n + 1], f[n + 1])]
    BY <1>3 DEF Replaced, WithElement, At
  <1>5. /\ f[3] = new /\ f[2] = WithElement(data.elems[a].elems[b], c, f[3])
        /\ f[1] = WithElement(data.elems[a], b, f[2])
        /\ f[0] = WithElement(data, a, f[1])
    BY <1>1, <1>4
  <1>6. QED
    BY <1>3, <1>5 DEF p

(* Well-formed documents --------------------------------------------------- *)

\* Data that are all of a known kind, and with each all that is nested in it.
Closed(G) ==
    \A x \in G : /\ IsLeaf(x) \/ IsInt64(x) \/ IsArray(x)
                 /\ \A k \in DOMAIN x.elems : x.elems[k] \in G

\* A Data that is of a known kind at any depth, and one that is an array besides.
WellFormed(data) == \E G : Closed(G) /\ data \in G
IsDocument(data) == IsArray(data) /\ WellFormed(data)

\* A sequence makes an array, of that sequence.
LEMMA ArrayOfSequence ==
    ASSUME NEW s, IsSequence(s)
    PROVE  IsArray(ArrayOf(s)) /\ ArrayOf(s).elems = s /\ ArrayOf(s).type = "array"
  BY DEF IsArray, ArrayOf

\* What IsArray gives.
LEMMA ArrayType ==
    ASSUME NEW data, IsArray(data)
    PROVE  data.type = "array" /\ IsSequence(data.elems)
  BY DEF IsArray, ArrayOf

\* The elements of what is no array.
LEMMA NoElements ==
    /\ IsSequence(<<>>) /\ DOMAIN <<>> = {}
    /\ \A x : LeafOf(x).elems = <<>> /\ LeafOf(x).value = x /\ IsLeaf(LeafOf(x))
    /\ \A n \in Int : Int64(n).elems = <<>> /\ Int64(n).value = n /\ IsInt64(Int64(n))
  <1>1. 0 \in Nat /\ <<>> = [k \in 1..0 |-> <<>>[k]] /\ DOMAIN <<>> = {}
    OBVIOUS
  <1>2. IsSequence(<<>>)
    BY <1>1 DEF IsSequence
  <1>3. QED
    BY <1>1, <1>2 DEF LeafOf, Int64, IsLeaf, IsInt64

\* What is well formed is of a known kind, and so is all that is nested in it.
LEMMA WellFormedElements ==
    ASSUME NEW data, WellFormed(data)
    PROVE  /\ IsLeaf(data) \/ IsInt64(data) \/ IsArray(data)
           /\ IsSequence(data.elems)
           /\ \A k \in DOMAIN data.elems : WellFormed(data.elems[k]) /\ IsArray(data)
  <1>1. PICK G : Closed(G) /\ data \in G
    BY DEF WellFormed
  <1>2. IsLeaf(data) \/ IsInt64(data) \/ IsArray(data)
    BY <1>1 DEF Closed
  <1>3. \A k \in DOMAIN data.elems : WellFormed(data.elems[k])
    BY <1>1 DEF Closed, WellFormed
  <1>4. IsLeaf(data) \/ IsInt64(data) => data.elems = <<>>
    BY DEF IsLeaf, IsInt64, LeafOf, Int64
  <1>5. IsArray(data) => IsSequence(data.elems)
    BY DEF IsArray
  <1>6. DOMAIN data.elems # {} => IsArray(data)
    BY <1>2, <1>4, NoElements
  <1>7. QED
    BY <1>2, <1>3, <1>4, <1>5, <1>6, NoElements

\* Leaves and integers are well formed.
LEMMA WellFormedAtoms ==
    (\A x : WellFormed(LeafOf(x))) /\ (\A n \in Int : WellFormed(Int64(n)))
  <1>1. ASSUME NEW d, IsLeaf(d) \/ IsInt64(d), d.elems = <<>> PROVE WellFormed(d)
    <2>1. Closed({d})
      BY <1>1, NoElements DEF Closed
    <2>2. QED
      BY <2>1 DEF WellFormed
  <1>2. QED
    BY <1>1, NoElements

\* An array of well-formed Data is well formed.
LEMMA WellFormedArray ==
    ASSUME NEW s, IsSequence(s), \A k \in DOMAIN s : WellFormed(s[k])
    PROVE  IsDocument(ArrayOf(s))
  <1> DEFINE Around(k) == CHOOSE G : Closed(G) /\ s[k] \in G
             G == {ArrayOf(s)} \cup UNION {Around(k) : k \in DOMAIN s}
  <1>1. \A k \in DOMAIN s : Closed(Around(k)) /\ s[k] \in Around(k)
    BY DEF WellFormed
  <1>2. IsArray(ArrayOf(s)) /\ ArrayOf(s).elems = s
    BY ArrayOfSequence
  <1> HIDE DEF Around
  <1>3. ASSUME NEW x \in G
        PROVE  /\ IsLeaf(x) \/ IsInt64(x) \/ IsArray(x)
               /\ \A k \in DOMAIN x.elems : x.elems[k] \in G
    <2>1. CASE x = ArrayOf(s)
      BY <1>1, <1>2, <2>1
    <2>2. ASSUME NEW k \in DOMAIN s, x \in Around(k)
          PROVE  /\ IsLeaf(x) \/ IsInt64(x) \/ IsArray(x)
                 /\ \A j \in DOMAIN x.elems : x.elems[j] \in G
      <3>1. \A j \in DOMAIN x.elems : x.elems[j] \in Around(k)
        BY <1>1, <2>2 DEF Closed
      <3>2. QED
        BY <1>1, <2>2, <3>1 DEF Closed
    <2>3. x = ArrayOf(s) \/ \E k \in DOMAIN s : x \in Around(k)
      OBVIOUS
    <2>4. QED
      <3> HIDE DEF G
      <3> QED BY <2>1, <2>2, <2>3
  <1>4. Closed(G) /\ ArrayOf(s) \in G
    <2>1. Closed(G)
      <3> HIDE DEF G
      <3> QED BY <1>3 DEF Closed
    <2>2. ArrayOf(s) \in G
      OBVIOUS
    <2>3. QED
      BY <2>1, <2>2
  <1>5. QED
    <2> HIDE DEF G
    <2> QED BY <1>2, <1>4 DEF WellFormed, IsDocument

\* A view that does not exist holds an empty array; a new document is well formed.
LEMMA FirstDocuments == IsDocument(ArrayOf(<<>>)) /\ IsDocument(ArrayOf(Content))
  <1>1. IsDocument(ArrayOf(<<>>))
    BY NoElements, WellFormedArray
  <1>2. \A d : IsLeaf(d) => WellFormed(d)
    BY WellFormedAtoms DEF IsLeaf
  <1>3. \A i \in DOMAIN Content : WellFormed(Content[i])
    <2> TAKE i \in DOMAIN Content
    <2> DEFINE d == Content[i]
    <2>1. CASE IsLeaf(d)
      BY <1>2, <2>1
    <2>2. CASE IsArray(d) /\ \A k \in DOMAIN d.elems : IsLeaf(d.elems[k])
      <3>1. IsSequence(d.elems) /\ \A k \in DOMAIN d.elems : WellFormed(d.elems[k])
        BY <1>2, <2>2 DEF IsArray
      <3>2. d = ArrayOf(d.elems)
        BY <2>2 DEF IsArray
      <3> DEFINE elems == d.elems
      <3>3. WellFormed(ArrayOf(elems))
        <4> HIDE DEF elems
        <4>1. IsSequence(elems) /\ \A k \in DOMAIN elems : WellFormed(elems[k])
          BY <3>1 DEF elems
        <4>2. QED
          BY <4>1, WellFormedArray DEF IsDocument
      <3>4. WellFormed(d)
        <4> HIDE DEF d
        <4> QED BY <3>2, <3>3
      <3>5. QED
        BY <3>4
    <2>3. QED
      BY <2>1, <2>2, ViewsAssumption
  <1>4. QED
    BY <1>1, <1>3, ViewsAssumption, WellFormedArray

\* Inserting into a sequence, and removing from it, gives a sequence of the same
\* elements and the one inserted.
LEMMA InsertRemoveSequence ==
    ASSUME NEW s, IsSequence(s), NEW i \in 1..(Len(s) + 1), NEW x, NEW S,
           \A k \in DOMAIN s : s[k] \in S, x \in S
    PROVE  InsertAt(s, i, x) \in Seq(S) /\ RemoveAt(s, i) \in Seq(S)
  <1>1. s \in Seq(S) /\ Len(s) \in Nat
    BY SequenceIs
  <1>2. \A m, n \in Int : 1 <= m /\ n <= Len(s) => SubSeq(s, m, n) \in Seq(S)
    <2> TAKE m, n \in Int
    <2> HAVE 1 <= m /\ n <= Len(s)
    <2>1. \A k \in m..n : s[k] \in S
      BY <1>1, ElementOfSeq
    <2>2. QED
      BY <2>1, SubSeqProperties
  <1>3. /\ SubSeq(s, 1, i - 1) \in Seq(S)
        /\ SubSeq(s, i, Len(s)) \in Seq(S)
        /\ SubSeq(s, i + 1, Len(s)) \in Seq(S)
        /\ <<x>> \in Seq(S)
    BY <1>1, <1>2
  <1>4. QED
    BY <1>3, ConcatProperties DEF InsertAt, RemoveAt

\* A sequence of well-formed Data makes a document.
LEMMA DocumentOf ==
    ASSUME NEW S, \A x \in S : WellFormed(x), NEW s \in Seq(S)
    PROVE  IsDocument(ArrayOf(s))
  <1>1. Len(s) \in Nat /\ s = [k \in 1..Len(s) |-> s[k]] /\ DOMAIN s = 1..Len(s)
    OBVIOUS
  <1>2. IsSequence(s)
    BY <1>1, SequenceOf
  <1>3. \A k \in DOMAIN s : WellFormed(s[k])
    BY <1>1, ElementOfSeq
  <1>4. QED
    BY <1>2, <1>3, WellFormedArray

\* A document stays one when a leaf is inserted into it or an element removed.
LEMMA InsertRemoveDocument ==
    ASSUME NEW s, IsSequence(s), \A k \in DOMAIN s : WellFormed(s[k]),
           NEW i \in 1..(Len(s) + 1), NEW x, WellFormed(x)
    PROVE  IsDocument(ArrayOf(InsertAt(s, i, x))) /\ IsDocument(ArrayOf(RemoveAt(s, i)))
  <1> DEFINE S == {s[k] : k \in DOMAIN s} \cup {x}
  <1>1. (\A k \in DOMAIN s : s[k] \in S) /\ x \in S /\ \A y \in S : WellFormed(y)
    OBVIOUS
  <1> HIDE DEF S
  <1>2. InsertAt(s, i, x) \in Seq(S) /\ RemoveAt(s, i) \in Seq(S)
    BY <1>1, InsertRemoveSequence
  <1>3. QED
    BY <1>1, <1>2, DocumentOf

\* Replacing an element of well-formed Data leaves a document.
LEMMA ReplaceElement ==
    ASSUME NEW data, WellFormed(data), NEW k \in DOMAIN data.elems, NEW new, WellFormed(new)
    PROVE  IsDocument(WithElement(data, k, new))
  <1> DEFINE t == [data.elems EXCEPT ![k] = new]
  <1>1. /\ IsArray(data) /\ IsSequence(data.elems)
        /\ \A j \in DOMAIN data.elems : WellFormed(data.elems[j])
    BY WellFormedElements
  <1>2. WithElement(data, k, new) = ArrayOf(t)
    BY <1>1 DEF IsArray, ArrayOf, WithElement
  <1>3. Len(data.elems) \in Nat /\ t = [j \in 1..Len(data.elems) |-> t[j]]
    BY <1>1, SequenceIs
  <1>4. DOMAIN t = DOMAIN data.elems /\ \A j \in DOMAIN t : WellFormed(t[j])
    BY <1>1
  <1>5. IsDocument(ArrayOf(t))
    <2> HIDE DEF t
    <2>1. IsSequence(t)
      BY <1>3, SequenceOf
    <2>2. QED
      BY <1>4, <2>1, WellFormedArray
  <1>6. QED
    BY <1>2, <1>5

(* Paths of a document ----------------------------------------------------- *)

\* path leads to an element of data, by at most two steps or by three.
LeadsNear(data, path) ==
    \/ path = <<>>
    \/ \E a \in DOMAIN data.elems : path = <<a>>
    \/ \E a \in DOMAIN data.elems : \E b \in DOMAIN data.elems[a].elems : path = <<a, b>>
LeadsFar(data, path) ==
    \E a \in DOMAIN data.elems : \E b \in DOMAIN data.elems[a].elems :
        \E c \in DOMAIN data.elems[a].elems[b].elems : path = <<a, b, c>>

\* Every path that an edit can be made at leads to an element.
LEMMA PathsLead ==
    ASSUME NEW data, NEW path \in Paths(data)
    PROVE  LeadsNear(data, path) \/ LeadsFar(data, path)
  <1> DEFINE rows   == Below(data, {<<>>})
             nested == Below(data, rows)
             inner  == Below(data, nested)
  <1>1. path = <<>> \/ path \in rows \/ path \in nested \/ path \in inner
    BY DEF Paths, PathsOf, Depths
  <1>2. \A p \in rows : \E a \in DOMAIN data.elems : p = <<a>>
    <2> TAKE p \in rows
    <2>1. PICK a \in DOMAIN ElementAt(data, <<>>).elems : p = Append(<<>>, a)
      BY DEF Below
    <2>2. ElementAt(data, <<>>) = data
      BY ElementAtNear
    <2>3. Append(<<>>, a) = <<a>>
      BY NextStep
    <2>4. QED
      BY <2>1, <2>2, <2>3
  <1>3. \A p \in nested : \E a \in DOMAIN data.elems :
                            \E b \in DOMAIN data.elems[a].elems : p = <<a, b>>
    <2> TAKE p \in nested
    <2>1. PICK q \in rows : \E b \in DOMAIN ElementAt(data, q).elems : p = Append(q, b)
      BY DEF Below
    <2> HIDE DEF rows, nested
    <2>2. PICK a \in DOMAIN data.elems : q = <<a>>
      BY <1>2
    <2>3. ElementAt(data, q) = data.elems[a]
      BY <2>2, ElementAtNear
    <2>4. PICK b \in DOMAIN data.elems[a].elems : p = Append(<<a>>, b)
      BY <2>1, <2>2, <2>3
    <2>5. Append(<<a>>, b) = <<a, b>>
      BY NextStep
    <2>6. QED
      BY <2>4, <2>5
  <1>4. \A p \in inner : LeadsFar(data, p)
    <2> TAKE p \in inner
    <2>1. PICK q \in nested : \E c \in DOMAIN ElementAt(data, q).elems : p = Append(q, c)
      BY DEF Below
    <2> HIDE DEF rows, nested, inner
    <2>2. PICK a \in DOMAIN data.elems : \E b \in DOMAIN data.elems[a].elems : q = <<a, b>>
      BY <1>3
    <2>3. PICK b \in DOMAIN data.elems[a].elems : q = <<a, b>>
      BY <2>2
    <2>4. ElementAt(data, q) = data.elems[a].elems[b]
      BY <2>3, ElementAtTwo
    <2>5. PICK c \in DOMAIN data.elems[a].elems[b].elems : p = Append(<<a, b>>, c)
      BY <2>1, <2>3, <2>4
    <2>6. Append(<<a, b>>, c) = <<a, b, c>>
      BY NextStep
    <2>7. QED
      BY <2>5, <2>6 DEF LeadsFar
  <1>5. QED
    <2> HIDE DEF rows, nested, inner
    <2> QED BY <1>1, <1>2, <1>3, <1>4 DEF LeadsNear

\* Where a path leads is what its last step leads to, from where the others lead.
LEMMA FrontLeads ==
    ASSUME NEW data, WellFormed(data), NEW path, LeadsNear(data, path) \/ LeadsFar(data, path),
           path # <<>>
    PROVE  /\ LeadsNear(data, Front(path))
           /\ WellFormed(ElementAt(data, Front(path)))
           /\ Last(path) \in DOMAIN ElementAt(data, Front(path)).elems
           /\ Last(path) \in Nat \ {0}
  <1>1. ASSUME NEW a \in DOMAIN data.elems
        PROVE  /\ WellFormed(data.elems[a]) /\ a \in Nat \ {0}
               /\ \A b \in DOMAIN data.elems[a].elems :
                    /\ WellFormed(data.elems[a].elems[b]) /\ b \in Nat \ {0}
                    /\ \A c \in DOMAIN data.elems[a].elems[b].elems : c \in Nat \ {0}
    <2>1. \A d : WellFormed(d) => \A k \in DOMAIN d.elems : WellFormed(d.elems[k]) /\ k \in Nat \ {0}
      BY WellFormedElements, SequenceIs
    <2>2. QED
      BY <2>1
  <1>2. CASE \E a \in DOMAIN data.elems : path = <<a>>
    <2>1. PICK a \in DOMAIN data.elems : path = <<a>>
      BY <1>2
    <2>2. Front(path) = <<>> /\ Last(path) = a
      <3>1. Len(path) = 1 /\ path[1] = a
        BY <2>1
      <3>2. Front(path) = SubSeq(<<a>>, 1, 0)
        BY <2>1, <3>1 DEF Front
      <3>3. QED
        BY <3>1, <3>2, FirstSteps DEF Last
    <2>3. QED
      BY <1>1, <2>2, ElementAtNear DEF LeadsNear
  <1>3. ASSUME NEW a \in DOMAIN data.elems, NEW b \in DOMAIN data.elems[a].elems, path = <<a, b>>
        PROVE  /\ LeadsNear(data, Front(path))
               /\ WellFormed(ElementAt(data, Front(path)))
               /\ Last(path) \in DOMAIN ElementAt(data, Front(path)).elems
               /\ Last(path) \in Nat \ {0}
    <2>1. Front(path) = <<a>> /\ Last(path) = b
      <3>1. Len(path) = 2 /\ path[2] = b
        BY <1>3
      <3>2. Front(path) = SubSeq(<<a, b>>, 1, 1)
        BY <1>3, <3>1 DEF Front
      <3>3. QED
        BY <3>1, <3>2, FirstSteps DEF Last
    <2>2. ElementAt(data, <<a>>) = data.elems[a]
      BY ElementAtNear
    <2>3. QED
      BY <1>1, <2>1, <2>2 DEF LeadsNear
  <1>4. ASSUME NEW a \in DOMAIN data.elems, NEW b \in DOMAIN data.elems[a].elems,
               NEW c \in DOMAIN data.elems[a].elems[b].elems, path = <<a, b, c>>
        PROVE  /\ LeadsNear(data, Front(path))
               /\ WellFormed(ElementAt(data, Front(path)))
               /\ Last(path) \in DOMAIN ElementAt(data, Front(path)).elems
               /\ Last(path) \in Nat \ {0}
    <2>1. Front(path) = <<a, b>> /\ Last(path) = c
      <3>1. Len(path) = 3 /\ path[3] = c
        BY <1>4
      <3>2. Front(path) = SubSeq(<<a, b, c>>, 1, 2)
        BY <1>4, <3>1 DEF Front
      <3>3. QED
        BY <3>1, <3>2, FirstSteps DEF Last
    <2>2. ElementAt(data, <<a, b>>) = data.elems[a].elems[b]
      BY ElementAtTwo
    <2>3. QED
      BY <1>1, <2>1, <2>2 DEF LeadsNear
  <1>5. QED
    BY <1>2, <1>3, <1>4 DEF LeadsNear, LeadsFar

\* An edit of an element leaves the whole a document.
LEMMA PutKeepsDocument ==
    ASSUME NEW data, WellFormed(data), NEW path, LeadsNear(data, path) \/ LeadsFar(data, path),
           NEW new, WellFormed(new), path = <<>> => IsDocument(new)
    PROVE  IsDocument(PutAt(data, path, new))
  <1>1. \A d, k, x : WellFormed(d) /\ k \in DOMAIN d.elems /\ WellFormed(x)
                     => IsDocument(WithElement(d, k, x)) /\ WellFormed(WithElement(d, k, x))
    BY ReplaceElement DEF IsDocument
  <1>2. \A d : WellFormed(d) => \A k \in DOMAIN d.elems : WellFormed(d.elems[k])
    BY WellFormedElements
  <1>3. CASE path = <<>>
    BY <1>3, PutAtRoot
  <1>4. ASSUME NEW a \in DOMAIN data.elems, path = <<a>> PROVE IsDocument(PutAt(data, path, new))
    <2>1. PutAt(data, <<a>>, new) = WithElement(data, a, new)
      BY PutAtOne
    <2>2. QED
      BY <1>1, <1>4, <2>1
  <1>5. ASSUME NEW a \in DOMAIN data.elems, NEW b \in DOMAIN data.elems[a].elems, path = <<a, b>>
        PROVE  IsDocument(PutAt(data, path, new))
    <2> DEFINE d == data.elems[a]
    <2>1. PutAt(data, <<a, b>>, new) = WithElement(data, a, WithElement(d, b, new))
      BY PutAtTwo
    <2>2. WellFormed(d) /\ b \in DOMAIN d.elems
      BY <1>2
    <2> HIDE DEF d
    <2>3. WellFormed(WithElement(d, b, new))
      BY <1>1, <2>2
    <2>4. QED
      BY <1>1, <1>5, <2>1, <2>3
  <1>6. ASSUME NEW a \in DOMAIN data.elems, NEW b \in DOMAIN data.elems[a].elems,
               NEW c \in DOMAIN data.elems[a].elems[b].elems, path = <<a, b, c>>
        PROVE  IsDocument(PutAt(data, path, new))
    <2> DEFINE d == data.elems[a]
               e == data.elems[a].elems[b]
    <2>1. PutAt(data, <<a, b, c>>, new) =
            WithElement(data, a, WithElement(d, b, WithElement(e, c, new)))
      BY PutAtThree
    <2>2. WellFormed(d) /\ b \in DOMAIN d.elems /\ WellFormed(e) /\ c \in DOMAIN e.elems
      BY <1>2
    <2> HIDE DEF d, e
    <2>3. WellFormed(WithElement(d, b, WithElement(e, c, new)))
      BY <1>1, <2>2
    <2>4. QED
      BY <1>1, <1>6, <2>1, <2>3
  <1>7. QED
    BY <1>3, <1>4, <1>5, <1>6 DEF LeadsNear, LeadsFar

(* Extraction keeps documents well formed ---------------------------------- *)

\* What project_with_complement makes is a document: two arrays, one of elements of
\* the source and one of indices.
LEMMA ExtractedIsDocument ==
    ASSUME NEW data, WellFormed(data), NEW n \in Nat, NEW rows \in [1..n -> Int],
           Indexable(Len(data.elems), rows)
    PROVE  IsDocument(ProjectWithComplement(data, rows))
  <1> DEFINE size == Len(data.elems)
             elements == Project(data.elems, rows)
             indices == [i \in 1..Len(rows) |-> Int64(rows[i])]
  <1>1. rows \in Seq(Int) /\ Len(rows) = n
    OBVIOUS
  <1>2. IsSequence(data.elems) /\ size \in Nat /\ DOMAIN data.elems = 1..size
    BY WellFormedElements, SequenceIs
  <1>3. \A k \in DOMAIN data.elems : WellFormed(data.elems[k])
    BY WellFormedElements
  <1>4. IsDocument(ArrayOf(elements))
    <2>1. elements = [i \in 1..n |-> data.elems[Place(size, rows[i])]]
      BY <1>1 DEF Project
    <2>2. \A i \in 1..n : WellFormed(elements[i])
      <3> TAKE i \in 1..n
      <3>1. size > 0
        <4>1. size > 0 \/ rows = <<>>
          BY DEF Indexable
        <4>2. rows = <<>> => Len(rows) = 0
          OBVIOUS
        <4>3. QED
          BY <1>1, <4>1, <4>2
      <3>2. Place(size, rows[i]) \in DOMAIN data.elems
        <4>1. rows[i] \in Int
          OBVIOUS
        <4> HIDE DEF size
        <4>2. QED
          BY <1>2, <3>1, <4>1, PlaceType
      <3>3. elements[i] = data.elems[Place(size, rows[i])]
        BY <2>1
      <3> HIDE DEF elements, size
      <3>4. QED
        BY <1>3, <3>2, <3>3
    <2>3. IsSequence(elements) /\ DOMAIN elements = 1..n
      <3>1. elements = [i \in 1..n |-> elements[i]] /\ DOMAIN elements = 1..n
        BY <2>1
      <3> HIDE DEF elements
      <3>2. QED
        BY <3>1, SequenceOf
    <2> HIDE DEF elements
    <2>4. QED
      BY <2>2, <2>3, WellFormedArray
  <1>5. IsDocument(ArrayOf(indices))
    <2>1. indices = [i \in 1..n |-> indices[i]] /\ DOMAIN indices = 1..n
      BY <1>1
    <2>2. \A i \in 1..n : WellFormed(indices[i])
      BY <1>1, WellFormedAtoms
    <2> HIDE DEF indices
    <2>3. IsSequence(indices)
      BY <2>1, SequenceOf
    <2>4. QED
      BY <2>1, <2>2, <2>3, WellFormedArray
  <1>6. ASSUME NEW a, NEW b, IsDocument(a), IsDocument(b) PROVE IsDocument(ArrayOf(<<a, b>>))
    <2>1. <<a, b>> \in Seq({a, b})
      OBVIOUS
    <2>2. QED
      BY <1>6, <2>1, DocumentOf DEF IsDocument
  <1>7. QED
    BY <1>4, <1>5, <1>6 DEF ProjectWithComplement

\* What embed takes from a well-formed document when it comes to its end: as many
\* integers as elements, and a target with an element unless there are none.
LEMMA EmbeddedParts ==
    ASSUME NEW pwc, WellFormed(pwc), NEW target, WellFormed(target), EmbedReturns(pwc, target)
    PROVE  /\ IndicesOf(pwc) \in Seq(Int)
           /\ IsSequence(ExtractedOf(pwc)) /\ Len(ExtractedOf(pwc)) = Len(IndicesOf(pwc))
           /\ \A i \in DOMAIN ExtractedOf(pwc) : WellFormed(ExtractedOf(pwc)[i])
           /\ Len(target.elems) > 0 \/ Len(IndicesOf(pwc)) = 0
  <1> DEFINE extracted == pwc.elems[1]
             indices == pwc.elems[2]
  <1>1. WellFormed(extracted) /\ WellFormed(indices)
    <2>1. 1 \in DOMAIN pwc.elems /\ 2 \in DOMAIN pwc.elems
      BY WellFormedElements, SequenceIs DEF EmbedReturns
    <2>2. QED
      BY <2>1, WellFormedElements
  <1>2. CASE indices.type = "int64"
    <2>1. IsInt64(indices)
      BY <1>1, <1>2, WellFormedElements DEF IsLeaf, IsArray, LeafOf, ArrayOf
    <2>2. indices.value \in Int
      BY <2>1 DEF IsInt64
    <2>3. IndicesOf(pwc) = <<indices.value>> /\ ExtractedOf(pwc) = <<extracted>>
      BY <1>2 DEF IndicesOf, ExtractedOf
    <2>4. Indexable(Len(target.elems), <<indices.value>>)
      BY <1>2 DEF EmbedReturns
    <2>5. Len(target.elems) > 0
      BY <2>4 DEF Indexable
    <2> HIDE DEF extracted, indices
    <2>6. <<indices.value>> \in Seq(Int) /\ Len(<<indices.value>>) = 1
      BY <2>2
    <2>7. /\ <<extracted>> = [i \in 1..1 |-> <<extracted>>[i]] /\ Len(<<extracted>>) = 1
          /\ DOMAIN <<extracted>> = 1..1 /\ \A i \in 1..1 : <<extracted>>[i] = extracted
      OBVIOUS
    <2>8. IsSequence(<<extracted>>)
      <3> DEFINE s == <<extracted>>
      <3>1. 1 \in Nat /\ s = [i \in 1..1 |-> s[i]]
        BY <2>7
      <3> HIDE DEF s
      <3>2. IsSequence(s)
        BY <3>1, SequenceOf
      <3>3. QED
        BY <3>2 DEF s
    <2>9. QED
      BY <1>1, <2>3, <2>5, <2>6, <2>7, <2>8
  <1>3. CASE indices.type # "int64"
    <2>1. /\ indices.type = "array" /\ extracted.type = "array"
          /\ Len(extracted.elems) = Len(indices.elems)
          /\ \A i \in 1..Len(indices.elems) : indices.elems[i].type = "int64"
          /\ Indexable(Len(target.elems), indices.elems)
      BY <1>3 DEF EmbedReturns
    <2>2. IndicesOf(pwc) = Values(indices) /\ ExtractedOf(pwc) = extracted.elems
      BY <1>3 DEF IndicesOf, ExtractedOf
    <2> HIDE DEF extracted, indices
    <2>3. /\ IsSequence(indices.elems) /\ IsSequence(extracted.elems)
          /\ Len(indices.elems) \in Nat /\ DOMAIN indices.elems = 1..Len(indices.elems)
      BY <1>1, WellFormedElements, SequenceIs
    <2>4. \A i \in 1..Len(indices.elems) : indices.elems[i].value \in Int
      <3> TAKE i \in 1..Len(indices.elems)
      <3> DEFINE d == indices.elems[i]
      <3>1. WellFormed(d) /\ d.type = "int64"
        BY <1>1, <2>1, <2>3, WellFormedElements
      <3> HIDE DEF d
      <3>2. IsInt64(d)
        BY <3>1, WellFormedElements DEF IsLeaf, IsArray, LeafOf, ArrayOf
      <3>3. d.value \in Int
        BY <3>2 DEF IsInt64
      <3>4. QED
        BY <3>3 DEF d
    <2>5. Values(indices) \in Seq(Int) /\ Len(Values(indices)) = Len(indices.elems)
      BY <2>3, <2>4 DEF Values
    <2>6. Len(target.elems) > 0 \/ Len(indices.elems) = 0
      BY <2>1, <2>3 DEF Indexable
    <2>7. \A i \in DOMAIN extracted.elems : WellFormed(extracted.elems[i])
      BY <1>1, WellFormedElements
    <2>8. QED
      BY <2>1, <2>2, <2>3, <2>5, <2>6, <2>7
  <1>4. QED
    BY <1>2, <1>3

\* embed leaves a document.
LEMMA EmbeddedIsDocument ==
    ASSUME NEW pwc, WellFormed(pwc), NEW target, WellFormed(target), EmbedReturns(pwc, target)
    PROVE  /\ IsDocument(Embedded(pwc, target))
           /\ Embedded(pwc, target).elems = Embed(ExtractedOf(pwc), IndicesOf(pwc), target.elems)
           /\ Len(Embedded(pwc, target).elems) = Len(target.elems)
  <1> DEFINE extracted == ExtractedOf(pwc)
             indices == IndicesOf(pwc)
             size == Len(target.elems)
             embedded == Embed(extracted, indices, target.elems)
  <1>1. /\ indices \in Seq(Int) /\ IsSequence(extracted) /\ Len(extracted) = Len(indices)
        /\ \A i \in DOMAIN extracted : WellFormed(extracted[i])
    BY EmbeddedParts
  <1>2. /\ IsSequence(target.elems) /\ size \in Nat /\ DOMAIN target.elems = 1..size
        /\ \A k \in DOMAIN target.elems : WellFormed(target.elems[k])
    BY WellFormedElements, SequenceIs
  <1>3. IsSequence(embedded) /\ Len(embedded) = size
    BY <1>2, EmbedSize
  <1>4. \A k \in DOMAIN embedded : WellFormed(embedded[k])
    <2> HIDE DEF extracted, indices
    <2> TAKE k \in DOMAIN embedded
    <2>1. k \in 1..size
      BY <1>3, SequenceIs
    <2>2. CASE Writers(size, indices, k) = {}
      BY <1>2, <2>1, <2>2 DEF Embed
    <2>3. CASE Writers(size, indices, k) # {}
      <3> DEFINE i == LastWriter(size, indices, k)
      <3>1. i \in 1..Len(indices)
        <4> HIDE DEF size
        <4> QED BY <1>1, <2>3, LastWriterType
      <3>2. i \in DOMAIN extracted
        BY <1>1, <3>1, SequenceIs
      <3>3. embedded[k] = extracted[i]
        BY <2>1, <2>3 DEF Embed
      <3> HIDE DEF i, embedded
      <3>4. QED
        BY <1>1, <3>2, <3>3
    <2>4. QED
      BY <2>2, <2>3
  <1>5. IsDocument(ArrayOf(embedded)) /\ ArrayOf(embedded).elems = embedded
    <2> HIDE DEF embedded
    <2> QED BY <1>3, <1>4, WellFormedArray, ArrayOfSequence
  <1>6. QED
    BY <1>3, <1>5 DEF Embedded

(* The invariant --------------------------------------------------------- *)

\* Every document is an array, and well formed at any depth.
DocumentsTyped == doc = [v \in View |-> doc[v]] /\ \A v \in View : IsDocument(doc[v])

\* The views that exist, and what they point at.
ViewsTyped ==
    /\ open \subseteq View
    /\ source \in [View -> View \cup {Null}]
    /\ active \in open \cup {Null}
    /\ current \subseteq open

\* The rest of the state.
BoundsTyped ==
    /\ enabled \in BOOLEAN
    /\ opened \in 0..MaxOpened /\ edits \in 0..MaxEdits
    /\ mode \in {"run", "asserted", "dead"}

\* Documents are arrays, so that embed's cast of its target never fails, and the
\* integers in them are the ones an extraction put there; the active view is
\* an open one, so that no pointer leads from a new view to itself.
Inv ==
    /\ DocumentsTyped
    /\ ViewsTyped
    /\ BoundsTyped
    /\ NotOwnSource
    /\ EnabledHasCurrent

\* The program starts without a document, which satisfies the invariant.
LEMMA InvInit == Init => Inv
  <1> SUFFICES ASSUME Init PROVE Inv
    OBVIOUS
  <1>2. DocumentsTyped
    BY FirstDocuments DEF Init, DocumentsTyped
  <1>3. ViewsTyped
    BY DEF Init, ViewsTyped
  <1>4. BoundsTyped
    <2>1. opened \in 0..MaxOpened /\ edits \in 0..MaxEdits
      BY ViewsAssumption DEF Init
    <2>2. QED
      BY <2>1 DEF Init, BoundsTyped
  <1>5. NotOwnSource /\ EnabledHasCurrent
    BY DEF Init, NotOwnSource, EnabledHasCurrent
  <1>6. QED
    BY <1>2, <1>3, <1>4, <1>5 DEF Inv

\* A document put in the place of another one, at any view.
LEMMA DocumentPut ==
    ASSUME DocumentsTyped, NEW v \in View, NEW data, IsDocument(data),
           doc' = [doc EXCEPT ![v] = data]
    PROVE  DocumentsTyped'
  <1>1. doc' = [w \in View |-> IF w = v THEN data ELSE doc[w]]
    BY DEF DocumentsTyped
  <1>2. \A w \in View : IsDocument(doc'[w])
    BY <1>1 DEF DocumentsTyped
  <1>3. doc' = [w \in View |-> doc'[w]]
    BY <1>1
  <1>4. QED
    BY <1>2, <1>3 DEF DocumentsTyped

\* A new view, opened by the active one or by File / New.
LEMMA OpenKeepsInv ==
    ASSUME Inv, NEW content, IsDocument(content), NEW extracted_from \in {active, Null},
           OpenDocument(content, extracted_from), UNCHANGED <<edits, mode>>
    PROVE  Inv'
  <1>1. PICK new \in View \ open :
            /\ open' = open \cup {new}
            /\ doc' = [doc EXCEPT ![new] = content]
            /\ source' = [source EXCEPT ![new] = extracted_from]
            /\ UNCHANGED current
            /\ Activate(new)
    BY DEF OpenDocument, SourceView
  <1>2. DocumentsTyped'
    BY <1>1, DocumentPut DEF Inv
  <1>3. ViewsTyped'
    BY <1>1 DEF Inv, ViewsTyped, Activate
  <1>4. BoundsTyped'
    BY <1>1, ViewsAssumption DEF Inv, BoundsTyped, OpenDocument, Activate, Enabled
  <1>5. NotOwnSource'
    <2>1. extracted_from # new
      BY <1>1, ViewsAssumption DEF Inv, ViewsTyped
    <2>2. QED
      BY <1>1, <2>1 DEF Inv, NotOwnSource, ViewsTyped
  <1>6. EnabledHasCurrent'
    BY <1>1 DEF EnabledHasCurrent, Activate, Enabled
  <1>7. QED
    BY <1>2, <1>3, <1>4, <1>5, <1>6 DEF Inv

\* The active view goes away, with what it pointed at.
LEMMA CloseKeepsInv ==
    ASSUME Inv, active # Null, NEW indexed \in SUBSET current, CloseSubwindow(indexed),
           DocumentsTyped', UNCHANGED <<opened, edits, mode>>
    PROVE  Inv'
  <1>1. PICK next \in NextActive : Activate(next)
    BY DEF CloseSubwindow
  <1>2. next \in (open \ {active}) \cup {Null}
    BY <1>1 DEF NextActive
  <1>3. ViewsTyped'
    BY <1>1, <1>2 DEF Inv, ViewsTyped, CloseSubwindow, Activate
  <1>4. BoundsTyped'
    BY <1>1 DEF Inv, BoundsTyped, Activate, Enabled
  <1>5. NotOwnSource'
    BY DEF Inv, NotOwnSource, ViewsTyped, CloseSubwindow
  <1>6. EnabledHasCurrent'
    BY <1>1 DEF EnabledHasCurrent, Activate, Enabled
  <1>7. QED
    BY <1>3, <1>4, <1>5, <1>6 DEF Inv

\* An edit of the active document that leaves it an array.
LEMMA EditKeepsInv ==
    ASSUME Inv, active # Null, NEW new_data, IsDocument(new_data), EditDocument(new_data)
    PROVE  Inv'
  <1>1. active \in View
    BY DEF Inv, ViewsTyped
  <1>2. DocumentsTyped'
    BY <1>1, DocumentPut DEF Inv, EditDocument
  <1>3. ViewsTyped'
    BY DEF Inv, ViewsTyped, EditDocument
  <1>4. BoundsTyped'
    <2>1. edits' \in 0..MaxEdits
      BY ViewsAssumption DEF Inv, BoundsTyped, EditDocument
    <2>2. QED
      BY <2>1 DEF Inv, BoundsTyped, EditDocument
  <1>5. NotOwnSource' /\ EnabledHasCurrent'
    BY DEF Inv, NotOwnSource, EnabledHasCurrent, EditDocument
  <1>6. QED
    BY <1>2, <1>3, <1>4, <1>5 DEF Inv

\* Whatever the user does in the active document, it stays one.
LEMMA EditActiveKeepsInv == Inv /\ EditActive => Inv'
  <1> SUFFICES ASSUME Inv, EditActive PROVE Inv'
    OBVIOUS
  <1> DEFINE data == doc[active]
  <1>1. active # Null /\ WellFormed(data) /\ data.type = "array"
    BY ArrayType DEF EditActive, Inv, ViewsTyped, DocumentsTyped, IsDocument
  <1>2. PICK path \in Paths(data) :
            \/ \E offset \in {0, 1} : InsertValue(path, offset)
            \/ DeleteSelectedValue(path)
            \/ \E x \in Value : EditValue(path, x)
            \/ EditIndexThrows(path)
    BY DEF EditActive
  <1>3. LeadsNear(data, path) \/ LeadsFar(data, path)
    BY PathsLead
  <1> DEFINE parent == ElementAt(data, Front(path))
             siblings == parent.elems
             row == Last(path)
  <1>4. ASSUME path # <<>>
        PROVE  /\ LeadsNear(data, Front(path))
               /\ IsSequence(siblings) /\ \A k \in DOMAIN siblings : WellFormed(siblings[k])
               /\ Len(siblings) \in Nat /\ row \in 1..Len(siblings)
    <2>1. LeadsNear(data, Front(path)) /\ WellFormed(parent) /\ row \in DOMAIN siblings
      <3> HIDE DEF data
      <3> QED BY <1>1, <1>3, <1>4, FrontLeads
    <2> HIDE DEF parent, row
    <2>2. QED
      BY <2>1, WellFormedElements, SequenceIs
  <1>5. ASSUME NEW array, IsDocument(array), path # <<>>
        PROVE  IsDocument(PutAt(data, Front(path), array))
    <2> HIDE DEF data
    <2>1. WellFormed(array)
      BY <1>5 DEF IsDocument
    <2>2. QED
      BY <1>1, <1>4, <1>5, <2>1, PutKeepsDocument
  <1>6. ASSUME NEW offset \in {0, 1}, InsertValue(path, offset) PROVE Inv'
    <2> DEFINE inserted == ArrayOf(InsertAt(siblings, row + offset, LeafOf(Inserted)))
    <2>1. path # <<>> /\ EditDocument(PutAt(data, Front(path), inserted))
      BY <1>6 DEF InsertValue
    <2>2. IsDocument(inserted)
      <3>1. row + offset \in 1..(Len(siblings) + 1)
        <4>1. Len(siblings) \in Nat /\ row \in 1..Len(siblings)
          BY <1>4, <2>1
        <4> HIDE DEF siblings, row
        <4>2. QED
          BY <4>1
      <3> HIDE DEF siblings, row
      <3>2. QED
        BY <1>4, <2>1, <3>1, WellFormedAtoms, InsertRemoveDocument
    <2> HIDE DEF inserted, data
    <2>3. IsDocument(PutAt(data, Front(path), inserted))
      BY <1>5, <2>1, <2>2
    <2>4. QED
      BY <1>1, <2>1, <2>3, EditKeepsInv DEF data
  <1>7. CASE DeleteSelectedValue(path)
    <2> DEFINE rest == ArrayOf(RemoveAt(siblings, row))
    <2>1. path # <<>> /\ EditDocument(PutAt(data, Front(path), rest))
      BY <1>7 DEF DeleteSelectedValue
    <2>2. IsDocument(rest)
      <3>1. row \in 1..(Len(siblings) + 1)
        <4>1. Len(siblings) \in Nat /\ row \in 1..Len(siblings)
          BY <1>4, <2>1
        <4> HIDE DEF siblings, row
        <4>2. QED
          BY <4>1
      <3>2. WellFormed(LeafOf(Inserted))
        BY WellFormedAtoms
      <3> HIDE DEF siblings, row
      <3>3. QED
        BY <1>4, <2>1, <3>1, <3>2, InsertRemoveDocument
    <2> HIDE DEF rest, data
    <2>3. IsDocument(PutAt(data, Front(path), rest))
      BY <1>5, <2>1, <2>2
    <2>4. QED
      BY <1>1, <2>1, <2>3, EditKeepsInv DEF data
  <1>8. ASSUME NEW x \in Value, EditValue(path, x) PROVE Inv'
    <2>1. path # <<>>
      <3>1. ElementAt(data, path).type = "leaf"
        BY <1>8 DEF EditValue
      <3>2. ElementAt(data, <<>>) = data
        BY ElementAtNear
      <3>3. QED
        BY <1>1, <3>1, <3>2
    <2>2. WellFormed(LeafOf(x))
      BY WellFormedAtoms
    <2>3. IsDocument(PutAt(data, path, LeafOf(x)))
      BY <1>1, <1>3, <2>1, <2>2, PutKeepsDocument
    <2>4. QED
      BY <1>1, <1>8, <2>3, EditKeepsInv DEF EditValue
  <1>9. CASE EditIndexThrows(path)
    BY <1>9 DEF EditIndexThrows, Inv, DocumentsTyped, ViewsTyped, BoundsTyped,
                NotOwnSource, EnabledHasCurrent
  <1>10. QED
    BY <1>2, <1>6, <1>7, <1>8, <1>9

\* Where an integration that returns puts the elements.
LEMMA IntegrationTyped ==
    ASSUME Inv, active # Null, Integrates(active)
    PROVE  /\ active \in open /\ source[active] \in open \ {active}
           /\ WellFormed(doc[active]) /\ IsDocument(doc[source[active]])
           /\ EmbedReturns(doc[active], doc[source[active]])
           /\ Integrate(active) = [doc EXCEPT ![source[active]] =
                                       Embedded(doc[active], doc[source[active]])]
           /\ IsDocument(Embedded(doc[active], doc[source[active]]))
  <1>1. active \in open /\ source[active] \in open \ {active}
    BY DEF Inv, ViewsTyped, Integrates, NotOwnSource
  <1>2. WellFormed(doc[active]) /\ IsDocument(doc[source[active]])
    BY <1>1 DEF Inv, ViewsTyped, DocumentsTyped, IsDocument
  <1>3. EmbedReturns(doc[active], doc[source[active]])
    BY DEF Integrates
  <1>4. QED
    BY <1>1, <1>2, <1>3, EmbeddedIsDocument DEF Integrate, IsDocument

\* Every handler keeps the invariant, and so does every step that does nothing.
LEMMA InvStep == Inv /\ [Next]_vars => Inv'
  <1> SUFFICES ASSUME Inv, [Next]_vars PROVE Inv'
    OBVIOUS
  <1>1. CASE CreateNewDocument
    BY <1>1, FirstDocuments, OpenKeepsInv DEF CreateNewDocument
  <1>2. ASSUME NEW v \in View, SubwindowActivated(v) PROVE Inv'
    <2>1. DocumentsTyped' /\ ViewsTyped'
      BY <1>2 DEF SubwindowActivated, Activate, Inv, DocumentsTyped, ViewsTyped
    <2>2. BoundsTyped'
      BY <1>2 DEF SubwindowActivated, Activate, Enabled, Inv, BoundsTyped
    <2>3. NotOwnSource' /\ EnabledHasCurrent'
      BY <1>2 DEF SubwindowActivated, Activate, Enabled, Inv, NotOwnSource, EnabledHasCurrent
    <2>4. QED
      BY <2>1, <2>2, <2>3 DEF Inv
  <1>3. CASE SelectCurrent
    BY <1>3 DEF SelectCurrent, Enabled, Inv, DocumentsTyped, ViewsTyped,
                BoundsTyped, NotOwnSource, EnabledHasCurrent
  <1>4. CASE CloseActiveSubwindow
    <2>1. active \in View
      BY <1>4 DEF CloseActiveSubwindow, Inv, ViewsTyped
    <2>2. DocumentsTyped'
      BY <1>4, <2>1, FirstDocuments, DocumentPut DEF CloseActiveSubwindow, Inv
    <2>3. QED
      BY <1>4, <2>2, CloseKeepsInv DEF CloseActiveSubwindow
  <1>5. CASE EditActive
    BY <1>5, EditActiveKeepsInv
  <1>6. CASE ExtractActive
    <2> DEFINE data == doc[active]
    <2>1. PICK depth \in Depths, size \in 0..MaxSelected :
              \E items \in [1..size -> PathsOf(data, depth)] : ExtractElements(items)
      BY <1>6 DEF ExtractActive
    <2>2. PICK items \in [1..size -> PathsOf(data, depth)] : ExtractElements(items)
      BY <2>1
    <2> DEFINE rows == [i \in DOMAIN items |-> RowOf(items[i])]
    <2>3. WellFormed(data) /\ size \in Nat
      BY <1>6, ViewsAssumption DEF ExtractActive, Inv, ViewsTyped, DocumentsTyped, IsDocument
    <2>4. rows \in [1..size -> Int]
      <3>1. \A path \in PathsOf(data, depth) : RowOf(path) \in Int
        <4> TAKE path \in PathsOf(data, depth)
        <4>1. path \in Paths(data)
          BY DEF Paths
        <4> HIDE DEF data
        <4>2. path # <<>> => Last(path) \in Nat \ {0}
          BY <2>3, <4>1, PathsLead, FrontLeads
        <4>3. QED
          BY <4>2 DEF RowOf
      <3>2. QED
        BY <3>1
    <2>5. CASE Indexable(Len(data.elems), rows)
      <3>1. OpenDocument(ProjectWithComplement(data, rows), active) /\ UNCHANGED <<edits, mode>>
        BY <2>2, <2>5 DEF ExtractElements
      <3>2. IsDocument(ProjectWithComplement(data, rows))
        <4> HIDE DEF data, rows
        <4> QED BY <2>3, <2>4, <2>5, ExtractedIsDocument
      <3> HIDE DEF data, rows
      <3>3. QED
        BY <3>1, <3>2, OpenKeepsInv
    <2>6. CASE ~Indexable(Len(data.elems), rows)
      BY <2>2, <2>6 DEF ExtractElements, Inv, DocumentsTyped, ViewsTyped, BoundsTyped,
                        NotOwnSource, EnabledHasCurrent
    <2>7. QED
      BY <2>5, <2>6
  <1>7. CASE IntegrateData
    <2>1. active # Null /\ Integrates(active)
      BY <1>7 DEF IntegrateData
    <2>2. DocumentsTyped'
      <3>1. source[active] \in View
        BY <2>1, IntegrationTyped DEF Inv, ViewsTyped
      <3>2. QED
        BY <1>7, <2>1, <3>1, IntegrationTyped, DocumentPut DEF IntegrateData, Inv
    <2>3. ViewsTyped' /\ BoundsTyped'
      BY <1>7 DEF IntegrateData, Enabled, Inv, ViewsTyped, BoundsTyped
    <2>4. NotOwnSource' /\ EnabledHasCurrent'
      BY <1>7 DEF IntegrateData, Enabled, Inv, NotOwnSource, EnabledHasCurrent
    <2>5. QED
      BY <2>2, <2>3, <2>4 DEF Inv
  <1>8. CASE IntegrateDataAndClose
    <2>1. active # Null /\ Integrates(active)
      BY <1>8 DEF IntegrateDataAndClose
    <2>2. DocumentsTyped'
      <3> DEFINE s == source[active]
                 embedded == Embedded(doc[active], doc[s])
      <3>1. active \in View /\ s \in View /\ IsDocument(embedded)
        BY <2>1, IntegrationTyped DEF Inv, ViewsTyped
      <3>2. doc' = [w \in View |-> IF w = active THEN ArrayOf(<<>>)
                                   ELSE IF w = s THEN embedded ELSE doc[w]]
        BY <1>8, <2>1, <3>1, IntegrationTyped
           DEF IntegrateDataAndClose, Inv, DocumentsTyped
      <3> HIDE DEF s, embedded
      <3>3. \A w \in View : IsDocument(doc'[w])
        BY <3>1, <3>2, FirstDocuments DEF Inv, DocumentsTyped
      <3>4. doc' = [w \in View |-> doc'[w]]
        BY <3>2
      <3>5. QED
        BY <3>3, <3>4 DEF DocumentsTyped
    <2>3. QED
      BY <1>8, <2>1, <2>2, CloseKeepsInv DEF IntegrateDataAndClose
  <1>9. CASE IntegrateFails \/ ProjectWithoutView
    BY <1>9 DEF IntegrateFails, ProjectWithoutView, Inv, DocumentsTyped, ViewsTyped,
                BoundsTyped, NotOwnSource, EnabledHasCurrent
  <1>10. CASE UNCHANGED vars
    BY <1>10 DEF vars, Inv, DocumentsTyped, ViewsTyped, BoundsTyped,
                 NotOwnSource, EnabledHasCurrent
  <1>11. QED
    BY <1>1, <1>2, <1>3, <1>4, <1>5, <1>6, <1>7, <1>8, <1>9, <1>10 DEF Next

\* The invariant holds in every reachable state.
LEMMA Invariance == Spec => []Inv
  BY InvInit, InvStep, PTL DEF Spec

(* Theorems -------------------------------------------------------------- *)

\* Every variable keeps its type; a document is always an array.
THEOREM TypeCorrect == Spec => []TypeOK
  <1>1. Inv => TypeOK
    BY ArrayType DEF Inv, DocumentsTyped, IsDocument, ViewsTyped, BoundsTyped, TypeOK
  <1>2. QED
    BY <1>1, Invariance, PTL

\* The handlers that insert and delete never run without an active view and a
\* current index.
THEOREM EnabledActionsHaveCurrent == Spec => []EnabledHasCurrent
  <1>1. Inv => EnabledHasCurrent
    BY DEF Inv
  <1>2. QED
    BY <1>1, Invariance, PTL

\* embed never reads the array it writes.
THEOREM NoViewIsItsSource == Spec => []NotOwnSource
  <1>1. Inv => NotOwnSource
    BY DEF Inv
  <1>2. QED
    BY <1>1, Invariance, PTL

\* What an integration does to the source's document, and to the others.
LEMMA IntegrationEffect ==
    ASSUME Inv, Integrating
    PROVE  LET v == active
               s == source[active]
           IN  /\ doc'[s] = Embedded(doc[v], doc[s])
               /\ \A w \in open \ {v, s} : doc'[w] = doc[w]
               /\ WellFormed(doc[v]) /\ IsDocument(doc[s]) /\ EmbedReturns(doc[v], doc[s])
  <1> DEFINE v == active
             s == source[active]
  <1>1. active # Null /\ Integrates(active)
    BY DEF Integrating, IntegrateData, IntegrateDataAndClose
  <1>2. /\ v \in View /\ s \in View /\ s # v
        /\ WellFormed(doc[v]) /\ IsDocument(doc[s]) /\ EmbedReturns(doc[v], doc[s])
        /\ Integrate(active) = [doc EXCEPT ![s] = Embedded(doc[v], doc[s])]
    BY <1>1, IntegrationTyped DEF Inv, ViewsTyped
  <1>3. \A w \in View \ {v} : doc'[w] = IF w = s THEN Embedded(doc[v], doc[s]) ELSE doc[w]
    BY <1>2 DEF Integrating, IntegrateData, IntegrateDataAndClose, Inv, DocumentsTyped
  <1>4. \A w \in open \ {v, s} : doc'[w] = doc[w]
    BY <1>3 DEF Inv, ViewsTyped
  <1>5. QED
    BY <1>2, <1>3, <1>4

\* An integration changes the named elements of one document and nothing else.
THEOREM IntegrationStaysLocal == Spec => IntegrationIsLocal
  <1> DEFINE v == active
             s == source[active]
             size == Len(doc[s].elems)
             named(k) == \E i \in 1..Len(IndicesOf(doc[v])) :
                             k = (IndicesOf(doc[v])[i] % size) + 1
             Local == /\ \A w \in open \ {v, s} : doc'[w] = doc[w]
                      /\ Len(doc'[s].elems) = size
                      /\ \A k \in 1..size : doc'[s].elems[k] # doc[s].elems[k] => named(k)
  <1>1. Inv /\ Integrating => Local
    <2> SUFFICES ASSUME Inv, Integrating PROVE Local
      OBVIOUS
    <2>1. /\ doc'[s] = Embedded(doc[v], doc[s])
          /\ \A w \in open \ {v, s} : doc'[w] = doc[w]
          /\ WellFormed(doc[v]) /\ WellFormed(doc[s]) /\ EmbedReturns(doc[v], doc[s])
      BY IntegrationEffect DEF IsDocument
    <2>2. /\ doc'[s].elems = Embed(ExtractedOf(doc[v]), IndicesOf(doc[v]), doc[s].elems)
          /\ Len(doc'[s].elems) = size
      BY <2>1, EmbeddedIsDocument
    <2>3. ASSUME NEW k \in 1..size, doc'[s].elems[k] # doc[s].elems[k] PROVE named(k)
      <3>1. Writers(size, IndicesOf(doc[v]), k) # {}
        BY <2>2, <2>3 DEF Embed
      <3>2. QED
        BY <3>1 DEF Writers, Place, AbsoluteIndex
    <2>4. QED
      BY <2>1, <2>2, <2>3
  <1>2. Inv /\ [Next]_vars => [Integrating => Local]_vars
    BY <1>1
  <1>3. QED
    BY <1>2, Invariance, PTL DEF Spec, IntegrationIsLocal

\* Once data was integrated the source holds it at the rows the indices name, for any
\* edits of either document that embed accepts, unless two indices have come to name
\* the same row.
THEOREM IntegrationReadsBack == Spec => IntegrationIsRead
  <1> DEFINE v == active
             s == source[active]
             indices == IndicesOf(doc[v])
             Read == Distinct(Len(doc[s].elems), indices) =>
                         Project(doc'[s].elems, indices) = ExtractedOf(doc[v])
  <1>1. Inv /\ Integrating => Read
    <2> SUFFICES ASSUME Inv, Integrating, Distinct(Len(doc[s].elems), indices)
                 PROVE  Project(doc'[s].elems, indices) = ExtractedOf(doc[v])
      OBVIOUS
    <2> DEFINE extracted == ExtractedOf(doc[v])
               target == doc[s].elems
               S == {extracted[i] : i \in DOMAIN extracted} \cup {target[k] : k \in DOMAIN target}
    <2>1. /\ doc'[s] = Embedded(doc[v], doc[s])
          /\ WellFormed(doc[v]) /\ WellFormed(doc[s]) /\ EmbedReturns(doc[v], doc[s])
      BY IntegrationEffect DEF IsDocument
    <2>2. doc'[s].elems = Embed(extracted, indices, target)
      BY <2>1, EmbeddedIsDocument
    <2>3. /\ indices \in Seq(Int) /\ IsSequence(extracted) /\ Len(extracted) = Len(indices)
          /\ Len(target) > 0 \/ Len(indices) = 0
          /\ IsSequence(target)
      BY <2>1, EmbeddedParts, WellFormedElements
    <2> HIDE DEF extracted, target, indices
    <2>4. extracted \in Seq(S) /\ target \in Seq(S)
      BY <2>3, SequenceIs
    <2>5. CASE Len(target) > 0
      <3>1. Project(Embed(extracted, indices, target), indices) = extracted
        <4>1. Distinct(Len(target), indices)
          BY DEF target
        <4> HIDE DEF S
        <4>2. QED
          BY <2>3, <2>4, <2>5, <4>1, ProjectOfEmbed
      <3>2. QED
        BY <2>2, <3>1 DEF extracted
    <2>6. CASE Len(indices) = 0
      <3>1. Project(doc'[s].elems, indices) = [i \in 1..0 |-> extracted[i]]
        BY <2>6 DEF Project
      <3>2. extracted = [i \in 1..0 |-> extracted[i]]
        BY <2>3, <2>6, SequenceIs
      <3>3. QED
        BY <3>1, <3>2 DEF extracted
    <2>7. QED
      BY <2>3, <2>5, <2>6
  <1>2. Inv /\ [Next]_vars => [Integrating => Read]_vars
    BY <1>1
  <1>3. QED
    BY <1>2, Invariance, PTL DEF Spec, IntegrationIsRead

\* Integrating what agrees with the source changes nothing, whatever the indices name
\* and however often.
THEOREM FreshIntegrationIsHarmless == Spec => FreshIntegration
  <1> DEFINE s == source[active]
             indices == IndicesOf(doc[active])
             Fresh == ExtractedOf(doc[active]) = Project(doc[s].elems, indices)
  <1>1. Inv /\ Integrating /\ Fresh => doc'[s] = doc[s]
    <2> SUFFICES ASSUME Inv, Integrating, Fresh PROVE doc'[s] = doc[s]
      OBVIOUS
    <2> DEFINE target == doc[s].elems
               S == {target[k] : k \in DOMAIN target}
    <2>1. /\ doc'[s] = Embedded(doc[active], doc[s])
          /\ WellFormed(doc[active]) /\ IsDocument(doc[s]) /\ EmbedReturns(doc[active], doc[s])
      BY IntegrationEffect
    <2>2. indices \in Seq(Int)
      BY <2>1, EmbeddedParts DEF IsDocument
    <2>3. target \in Seq(S) /\ doc[s] = ArrayOf(target)
      BY <2>1 DEF IsDocument, IsArray, IsSequence
    <2>4. Embed(Project(target, indices), indices, target) = target
      <3> HIDE DEF S, target, indices
      <3> QED BY <2>2, <2>3, EmbedOfProject
    <2>5. doc'[s] = ArrayOf(Embed(Project(target, indices), indices, target))
      BY <2>1 DEF Embedded
    <2>6. QED
      BY <2>3, <2>4, <2>5
  <1>2. Inv /\ [Next]_vars => [Integrating /\ Fresh => doc'[s] = doc[s]]_vars
    BY <1>1
  <1>3. QED
    BY <1>2, Invariance, PTL DEF Spec, FreshIntegration

=============================================================================
