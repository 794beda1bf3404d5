--------------------------- MODULE Interop_proofs ---------------------------
(***************************************************************************)
(* Proofs about Interop, for every script, any pipes and buffers, whatever *)
(* the user types, and any process that may be killed.  First lemmas about *)
(* serialized terms: how many terms are missing after the nodes of a       *)
(* stream, and where one term ends and the next one starts.  Then what     *)
(* front sees of the terms back writes: none is lost in a buffer, and a    *)
(* request for input and its answer stay in step.  Last, the buffers and   *)
(* the pipe from back to front are one channel of terms, however the       *)
(* stream is cut into nodes on the way: Interop implements TermChannel.    *)
(***************************************************************************)
EXTENDS Interop, SequenceTheorems, FunctionTheorems, FiniteSetTheorems, WellFoundedInduction, TLAPS

\* A node a process wrote.  The names in Interop are listed because the provers
\* do not know that they are strings.
Names == STRING \cup {"EndOfFile", "Output", "Array", "Uint64", "size", "Sint32"}
                \cup Char \cup {Garbage}
SerialNode == [sort : {"np", "bytes", "term"}, name : Names, args : Nat,
               fields : Seq(Use), elements : Seq(Use)]

\* Two parts of a stream, one after the other: what is first stays first.
LEMMA TwoParts ==
    ASSUME NEW S, NEW s \in Seq(S), NEW t \in Seq(S)
    PROVE  /\ s \o t \in Seq(S) /\ Len(s \o t) = Len(s) + Len(t)
           /\ s # <<>> => (s \o t)[1] = s[1]
  <1>1. /\ s \o t \in Seq(S) /\ Len(s \o t) = Len(s) + Len(t)
        /\ \A i \in 1..(Len(s) + Len(t)) :
               (s \o t)[i] = IF i <= Len(s) THEN s[i] ELSE t[i - Len(s)]
    BY ConcatProperties
  <1>2. Len(s) \in Nat /\ Len(t) \in Nat
    BY LenProperties
  <1>3. s # <<>> => Len(s) >= 1
    BY <1>2, EmptySeq
  <1>. QED
    BY <1>1, <1>2, <1>3

(* Counting -------------------------------------------------------------- *)

\* A sequence of nodes has finitely many places for arguments.
LEMMA SlotsFinite ==
    ASSUME NEW s \in Seq(SerialNode)
    PROVE  IsFiniteSet(Slots(s))
  <1> DEFINE f == [k \in 1..Len(s) |-> {k} \X (1..s[k].args)]
             T == {{k} \X (1..s[k].args) : k \in 1..Len(s)}
  <1>1. DOMAIN s = 1..Len(s) /\ Len(s) \in Nat
    BY LenProperties
  <1>2. f \in Surjection(1..Len(s), T)
    BY Fun_IsSurj
  <1>3. IsFiniteSet(T)
    BY <1>1, <1>2, FS_Interval, FS_Surjection
  <1>4. \A k \in 1..Len(s) : IsFiniteSet({k} \X (1..s[k].args))
    <2> TAKE k \in 1..Len(s)
    <2>1. s[k].args \in Int
      <3>1. s[k] \in SerialNode
        BY ElementOfSeq
      <3>. QED
        BY <3>1 DEF SerialNode
    <2>2. \A n \in Int : IsFiniteSet(1..n)
      BY FS_Interval
    <2>3. IsFiniteSet({k}) /\ IsFiniteSet(1..s[k].args)
      BY <2>1, <2>2, FS_Singleton, Zenon
    <2>. QED
      BY <2>3, FS_Product
  <1>. QED
    BY <1>1, <1>3, <1>4, FS_UNION DEF Slots

\* The number of missing terms is an integer: deserialize_data counts nodes.
LEMMA MissingType ==
    ASSUME NEW s \in Seq(SerialNode)
    PROVE  Missing(s) \in Int
  BY SlotsFinite, FS_CardinalityType, LenProperties DEF Missing

\* One term is missing before anything is read.
LEMMA MissingEmpty == Missing(<<>>) = 1
  <1>1. Slots(<<>>) = {}
    BY DEF Slots
  <1>. QED
    BY <1>1, FS_EmptySet DEF Missing

\* A node that stands alone is missing its arguments.
LEMMA MissingOne ==
    ASSUME NEW x \in SerialNode
    PROVE  Missing(<<x>>) = x.args
  <1>1. x.args \in Nat
    BY DEF SerialNode
  <1>2. Slots(<<x>>) = {1} \X (1..x.args)
    BY DEF Slots
  <1>3. Cardinality({1} \X (1..x.args)) = x.args
    <2> DEFINE A == {1}
               B == 1..x.args
    <2>1. IsFiniteSet(B) /\ Cardinality(B) = x.args
      <3>1. \A n \in Nat : IsFiniteSet(1..n) /\ Cardinality(1..n) = n
        BY FS_Interval
      <3>. QED
        BY <1>1, <3>1
    <2>2. IsFiniteSet(A) /\ Cardinality(A) = 1
      BY FS_Singleton
    <2> HIDE DEF A, B
    <2>3. Cardinality(A \X B) = 1 * x.args
      BY <2>1, <2>2, FS_Product
    <2>. QED
      BY <1>1, <2>3 DEF A, B
  <1>4. Len(<<x>>) = 1
    OBVIOUS
  <1>5. Missing(<<x>>) = 1 + x.args - 1
    BY <1>2, <1>3, <1>4, Zenon DEF Missing
  <1>. QED
    BY <1>1, <1>5

\* A stream in two parts: the places for arguments in it are those of the first
\* part and those of the second one, and the second part fills some of them.
LEMMA MissingParts ==
    ASSUME NEW r \in Seq(SerialNode), NEW s \in Seq(SerialNode), NEW t \in Seq(SerialNode),
           Len(r) = Len(s) + Len(t),
           \A i \in 1..Len(s) : r[i] = s[i],
           \A i \in 1..Len(t) : r[i + Len(s)] = t[i]
    PROVE  Missing(r) = Missing(s) + Missing(t) - 1
  <1> DEFINE n == Len(s)
             shift == [p \in Slots(t) |-> <<p[1] + n, p[2]>>]
             U == {<<p[1] + n, p[2]>> : p \in Slots(t)}
  <1>1. /\ Len(r) = n + Len(t)
        /\ n \in Nat /\ Len(t) \in Nat
        /\ DOMAIN s = 1..n /\ DOMAIN t = 1..Len(t) /\ DOMAIN r = 1..(n + Len(t))
        /\ \A i \in 1..n : r[i] = s[i]
        /\ \A i \in 1..Len(t) : r[i + n] = t[i]
    BY LenProperties
  <1>2. \A q \in Seq(SerialNode) : \A p : p \in Slots(q)
            <=> \E k \in 1..Len(q) : \E j \in 1..q[k].args : p = <<k, j>>
    BY LenProperties DEF Slots
  <1>3. \A p : p \in U <=> \E k \in 1..Len(t) : \E j \in 1..t[k].args : p = <<k + n, j>>
    <2> TAKE p
    <2>1. ASSUME NEW q \in Slots(t), p = <<q[1] + n, q[2]>>
          PROVE  \E k \in 1..Len(t) : \E j \in 1..t[k].args : p = <<k + n, j>>
      <3>1. PICK k \in 1..Len(t) : \E j \in 1..t[k].args : q = <<k, j>>
        BY <1>2
      <3>. QED
        BY <2>1, <3>1
    <2>2. ASSUME NEW k \in 1..Len(t), NEW j \in 1..t[k].args, p = <<k + n, j>>
          PROVE  p \in U
      <3>1. <<k, j>> \in Slots(t)
        BY <1>2
      <3>. QED
        BY <2>2, <3>1
    <2>. QED
      BY <2>1, <2>2
  <1> HIDE DEF U
  <1>4. Slots(r) = Slots(s) \cup U
    <2>1. Slots(r) \subseteq Slots(s) \cup U
      <3> SUFFICES ASSUME NEW p \in Slots(r)
                   PROVE  p \in Slots(s) \cup U
        OBVIOUS
      <3>1. PICK k \in 1..Len(r) : \E j \in 1..r[k].args : p = <<k, j>>
        BY <1>2
      <3>2. CASE k <= n
        <4>1. k \in 1..n /\ r[k] = s[k]
          BY <1>1, <3>2
        <4>. QED
          BY <1>2, <3>1, <4>1
      <3>3. CASE k > n
        <4> DEFINE i == k - n
        <4>1. i \in 1..Len(t) /\ k = i + n
          BY <1>1, <3>3
        <4>2. r[k] = t[i]
          BY <1>1, <4>1
        <4>. QED
          BY <1>3, <3>1, <4>1, <4>2
      <3>. QED
        BY <1>1, <3>2, <3>3
    <2>2. Slots(s) \subseteq Slots(r)
      <3> SUFFICES ASSUME NEW p \in Slots(s)
                   PROVE  p \in Slots(r)
        OBVIOUS
      <3>1. PICK k \in 1..n : \E j \in 1..s[k].args : p = <<k, j>>
        BY <1>2
      <3>2. k \in 1..(n + Len(t)) /\ r[k] = s[k]
        BY <1>1
      <3>. QED
        BY <1>1, <1>2, <3>1, <3>2
    <2>3. U \subseteq Slots(r)
      <3> SUFFICES ASSUME NEW p \in U
                   PROVE  p \in Slots(r)
        OBVIOUS
      <3>1. PICK k \in 1..Len(t) : \E j \in 1..t[k].args : p = <<k + n, j>>
        BY <1>3
      <3>2. k + n \in 1..(n + Len(t)) /\ r[k + n] = t[k]
        BY <1>1
      <3>. QED
        BY <1>1, <1>2, <3>1, <3>2
    <2>. QED
      BY <2>1, <2>2, <2>3
  <1>5. Slots(s) \cap U = {}
    <2> SUFFICES ASSUME NEW p \in Slots(s), p \in U
                 PROVE  FALSE
      OBVIOUS
    <2>1. PICK k \in 1..n : \E j \in 1..s[k].args : p = <<k, j>>
      BY <1>2
    <2>2. PICK h \in 1..Len(t) : \E i \in 1..t[h].args : p = <<h + n, i>>
      BY <1>3
    <2>. QED
      BY <1>1, <2>1, <2>2
  <1> USE DEF U
  <1>6. shift \in Bijection(Slots(t), U)
    <2>1. shift \in [Slots(t) -> U]
      OBVIOUS
    <2>2. ASSUME NEW p \in Slots(t), NEW q \in Slots(t), shift[p] = shift[q]
          PROVE  p = q
      <3>1. PICK k \in 1..Len(t) : \E j \in 1..t[k].args : p = <<k, j>>
        BY <1>2
      <3>2. PICK h \in 1..Len(t) : \E i \in 1..t[h].args : q = <<h, i>>
        BY <1>2
      <3>. QED
        BY <1>1, <2>2, <3>1, <3>2
    <2>3. \A u \in U : \E p \in Slots(t) : shift[p] = u
      OBVIOUS
    <2>. QED
      BY <2>1, <2>2, <2>3, Fun_IsBij
  <1>7. IsFiniteSet(U) /\ Cardinality(U) = Cardinality(Slots(t))
    BY <1>6, SlotsFinite, FS_Bijection DEF ExistsBijection
  <1> HIDE DEF U, shift, n
  <1>8. Cardinality(Slots(r)) = Cardinality(Slots(s)) + Cardinality(Slots(t))
    <2>1. IsFiniteSet(Slots(s)) /\ Cardinality(Slots(s)) \in Nat /\ Cardinality(U) \in Nat
      BY <1>7, SlotsFinite, FS_CardinalityType
    <2>2. Cardinality(Slots(s) \cap U) = 0
      BY <1>5, FS_EmptySet
    <2>3. Cardinality(Slots(s) \cup U)
            = Cardinality(Slots(s)) + Cardinality(U) - Cardinality(Slots(s) \cap U)
      BY <1>7, <2>1, FS_Union
    <2>. QED
      BY <1>4, <1>7, <2>1, <2>2, <2>3
  <1>9. Cardinality(Slots(s)) \in Nat /\ Cardinality(Slots(t)) \in Nat
    BY SlotsFinite, FS_CardinalityType
  <1>. QED
    BY <1>1, <1>8, <1>9 DEF Missing, n

\* What is read in two parts: the first part leaves terms missing that the second
\* one fills in.  deserialize_data counts the same wherever the stream is cut.
LEMMA MissingConcat ==
    ASSUME NEW s \in Seq(SerialNode), NEW t \in Seq(SerialNode)
    PROVE  /\ s \o t \in Seq(SerialNode)
           /\ Missing(s \o t) = Missing(s) + Missing(t) - 1
  <1>1. /\ s \o t \in Seq(SerialNode) /\ Len(s \o t) = Len(s) + Len(t)
        /\ \A i \in 1..Len(s) : (s \o t)[i] = s[i]
        /\ \A i \in 1..Len(t) : (s \o t)[i + Len(s)] = t[i]
    BY ConcatProperties, LenProperties
  <1>. QED
    BY <1>1, MissingParts

\* A function on 1..n is a sequence of length n.
LEMMA FunctionIsSeq ==
    ASSUME NEW S, NEW n \in Nat, NEW f \in [1..n -> S]
    PROVE  f \in Seq(S) /\ Len(f) = n
  <1>1. f \in Seq(S)
    BY SeqDef
  <1>2. DOMAIN f = 1..n /\ DOMAIN f = 1..Len(f) /\ Len(f) \in Nat
    BY <1>1, LenProperties
  <1>. QED
    BY <1>1, <1>2

(* Counting along a stream ----------------------------------------------- *)

\* The first k nodes of a stream.
LEMMA PrefixType ==
    ASSUME NEW S, NEW s \in Seq(S), NEW k \in 0..Len(s)
    PROVE  /\ SubSeq(s, 1, k) \in Seq(S) /\ Len(SubSeq(s, 1, k)) = k
           /\ \A i \in 1..k : SubSeq(s, 1, k)[i] = s[i]
  <1>1. Len(s) \in Nat /\ k \in Int /\ \A i \in 1..k : s[i] \in S
    BY LenProperties, ElementOfSeq
  <1>2. /\ SubSeq(s, 1, k) \in Seq(S)
        /\ Len(SubSeq(s, 1, k)) = IF 1 <= k THEN k - 1 + 1 ELSE 0
        /\ \A i \in 1..(k - 1 + 1) : SubSeq(s, 1, k)[i] = s[1 + i - 1]
    BY <1>1, SubSeqProperties
  <1>. QED
    BY <1>1, <1>2

\* Along the stream the number of missing terms is an integer.
LEMMA MissingAtType ==
    ASSUME NEW s \in Seq(SerialNode), NEW k \in 0..Len(s)
    PROVE  MissingAt(s, k) \in Int
  BY PrefixType, MissingType DEF MissingAt

\* Before the first node one term is missing; after the last one MissingAt is
\* Missing.
LEMMA MissingAtEnds ==
    ASSUME NEW s \in Seq(SerialNode)
    PROVE  MissingAt(s, 0) = 1 /\ MissingAt(s, Len(s)) = Missing(s)
  <1>1. SubSeq(s, 1, 0) = <<>>
    BY SubSeqEmpty
  <1>. QED
    BY <1>1, MissingEmpty, SubSeqFull DEF MissingAt

\* Counting along a stream in two parts: in the first part what follows does not
\* matter ...
LEMMA MissingAtFirst ==
    ASSUME NEW s \in Seq(SerialNode), NEW t \in Seq(SerialNode), NEW k \in 0..Len(s)
    PROVE  MissingAt(s \o t, k) = MissingAt(s, k)
  <1>1. /\ s \o t \in Seq(SerialNode) /\ Len(s \o t) = Len(s) + Len(t)
        /\ Len(s) \in Nat /\ Len(t) \in Nat
        /\ \A i \in 1..Len(s) : (s \o t)[i] = s[i]
    BY ConcatProperties, LenProperties
  <1>2. k \in 0..Len(s \o t)
    BY <1>1
  <1>3. /\ SubSeq(s \o t, 1, k) \in Seq(SerialNode) /\ Len(SubSeq(s \o t, 1, k)) = k
        /\ \A i \in 1..k : SubSeq(s \o t, 1, k)[i] = (s \o t)[i]
    BY <1>1, <1>2, PrefixType
  <1>4. /\ SubSeq(s, 1, k) \in Seq(SerialNode) /\ Len(SubSeq(s, 1, k)) = k
        /\ \A i \in 1..k : SubSeq(s, 1, k)[i] = s[i]
    BY PrefixType
  <1>5. SubSeq(s \o t, 1, k) = SubSeq(s, 1, k)
    BY <1>1, <1>3, <1>4, SeqEqual
  <1>. QED
    BY <1>5 DEF MissingAt

\* ... and in the second part the count goes on where the first part ended.
LEMMA MissingAtSecond ==
    ASSUME NEW s \in Seq(SerialNode), NEW t \in Seq(SerialNode), NEW k \in 0..Len(t)
    PROVE  MissingAt(s \o t, Len(s) + k) = Missing(s) + MissingAt(t, k) - 1
  <1> DEFINE r == SubSeq(s \o t, 1, Len(s) + k)
             u == SubSeq(t, 1, k)
  <1>1. /\ s \o t \in Seq(SerialNode) /\ Len(s \o t) = Len(s) + Len(t)
        /\ Len(s) \in Nat /\ Len(t) \in Nat
        /\ \A i \in 1..Len(s) : (s \o t)[i] = s[i]
        /\ \A i \in 1..Len(t) : (s \o t)[i + Len(s)] = t[i]
    BY ConcatProperties, LenProperties
  <1>2. Len(s) + k \in 0..Len(s \o t)
    BY <1>1
  <1>3. /\ r \in Seq(SerialNode) /\ Len(r) = Len(s) + k
        /\ \A i \in 1..(Len(s) + k) : r[i] = (s \o t)[i]
    BY <1>1, <1>2, PrefixType
  <1>4. u \in Seq(SerialNode) /\ Len(u) = k /\ \A i \in 1..k : u[i] = t[i]
    BY PrefixType
  <1>5. /\ Len(r) = Len(s) + Len(u)
        /\ \A i \in 1..Len(s) : r[i] = s[i]
        /\ \A i \in 1..Len(u) : r[i + Len(s)] = u[i]
    BY <1>1, <1>3, <1>4
  <1> HIDE DEF r, u
  <1>6. Missing(r) = Missing(s) + Missing(u) - 1
    BY <1>3, <1>4, <1>5, MissingParts
  <1>. QED
    BY <1>6 DEF MissingAt, r, u

\* Nodes without arguments, like the characters of a line, each fill a place.
LEMMA MissingAtLeaves ==
    ASSUME NEW t \in Seq(SerialNode), \A i \in 1..Len(t) : t[i].args = 0,
           NEW k \in 0..Len(t)
    PROVE  MissingAt(t, k) = 1 - k
  <1> DEFINE u == SubSeq(t, 1, k)
  <1>1. u \in Seq(SerialNode) /\ Len(u) = k /\ \A i \in 1..k : u[i] = t[i]
    BY PrefixType
  <1>2. DOMAIN u = 1..k /\ \A i \in 1..k : u[i].args = 0
    BY <1>1, LenProperties
  <1> HIDE DEF u
  <1>3. \A i \in DOMAIN u : {i} \X (1..u[i].args) = {}
    BY <1>2
  <1>4. Slots(u) = {}
    BY <1>3, Zenon DEF Slots
  <1>5. Missing(u) = 1 - k
    BY <1>1, <1>4, FS_EmptySet DEF Missing
  <1>. QED
    BY <1>5 DEF MissingAt, u

\* The next node fills a place and makes room for its arguments.
LEMMA MissingNext ==
    ASSUME NEW s \in Seq(SerialNode), NEW k \in 0..(Len(s) - 1)
    PROVE  MissingAt(s, k + 1) = MissingAt(s, k) + s[k + 1].args - 1
  <1> DEFINE p == SubSeq(s, 1, k)
             q == SubSeq(s, 1, k + 1)
             x == s[k + 1]
  <1>1. Len(s) \in Nat /\ k \in 0..Len(s) /\ k + 1 \in 0..Len(s) /\ k + 1 \in 1..Len(s)
    BY LenProperties
  <1>2. /\ p \in Seq(SerialNode) /\ Len(p) = k /\ \A j \in 1..k : p[j] = s[j]
        /\ q \in Seq(SerialNode) /\ Len(q) = k + 1 /\ \A j \in 1..(k + 1) : q[j] = s[j]
    BY <1>1, PrefixType
  <1>3. x \in SerialNode
    BY <1>1, ElementOfSeq
  <1> HIDE DEF p, q, x
  <1>4. <<x>> \in Seq(SerialNode) /\ Len(<<x>>) = 1 /\ <<x>>[1] = x
    BY <1>3
  <1>5. Missing(q) = Missing(p) + Missing(<<x>>) - 1
    <2>1. /\ Len(q) = Len(p) + Len(<<x>>)
          /\ \A j \in 1..Len(p) : q[j] = p[j]
          /\ \A j \in 1..Len(<<x>>) : q[j + Len(p)] = <<x>>[j]
      BY <1>1, <1>2, <1>4 DEF x
    <2>. QED
      BY <1>2, <1>4, <2>1, MissingParts
  <1>6. Missing(<<x>>) = x.args /\ x.args \in Nat
    BY <1>3, MissingOne DEF SerialNode
  <1>7. Missing(p) \in Int
    BY <1>2, MissingType
  <1>. QED
    BY <1>5, <1>6, <1>7 DEF MissingAt, p, q, x

\* A set of numbers that is not empty has a least one.
LEMMA LeastNumber ==
    ASSUME NEW W \in SUBSET Nat, W # {}
    PROVE  \E x \in W : \A y \in W : x <= y
  <1> DEFINE R == OpToRel(<, Nat)
  <1>1. IsWellFoundedOn(R, Nat)
    BY NatLessThanWellFounded
  <1>2. \A x, y \in Nat : y < x => <<y, x>> \in R
    BY DEF OpToRel
  <1>3. PICK x \in W : \A y \in W : ~ (<<y, x>> \in R)
    <2>1. W \subseteq Nat /\ W # {}
      OBVIOUS
    <2> HIDE DEF R
    <2>. QED
      BY <1>1, <2>1, WFMin
  <1> HIDE DEF R
  <1>4. ASSUME NEW y \in W PROVE x <= y
    <2>1. x \in Nat /\ y \in Nat /\ ~ (<<y, x>> \in R)
      BY <1>3
    <2>2. ~ (y < x)
      BY <1>2, <2>1
    <2>. QED
      BY <2>1, <2>2
  <1>. QED
    BY <1>4

(* One term -------------------------------------------------------------- *)

\* A term is not empty, and the terms back may write are typed.
LEMMA OneTermNonempty ==
    ASSUME NEW t \in Seq(SerialNode), OneTerm(t)
    PROVE  Len(t) \in Nat \ {0} /\ t # <<>> /\ t[1] \in SerialNode
  <1>1. t # <<>>
    BY MissingEmpty DEF OneTerm
  <1>2. Len(t) \in Nat \ {0}
    BY <1>1, EmptySeq
  <1>. QED
    BY <1>1, <1>2, ElementOfSeq

\* deserialize_data takes the next node: either it is still missing some, or it
\* has read exactly one term.
LEMMA ReadNode ==
    ASSUME NEW s \in Seq(SerialNode), Incomplete(s), NEW x \in SerialNode
    PROVE  /\ Append(s, x) \in Seq(SerialNode)
           /\ Complete(Append(s, x)) => OneTerm(Append(s, x))
           /\ ~Complete(Append(s, x)) => Incomplete(Append(s, x))
  <1> DEFINE t == Append(s, x)
  <1>1. t = s \o <<x>> /\ t \in Seq(SerialNode) /\ Len(t) = Len(s) + 1 /\ Len(s) \in Nat
    BY AppendIsConcat, AppendProperties, LenProperties
  <1>2. <<x>> \in Seq(SerialNode) /\ x.args \in Nat
    BY DEF SerialNode
  <1>3. Missing(t) = Missing(s) + x.args - 1
    BY <1>1, <1>2, MissingConcat, MissingOne
  <1>4. Missing(s) > 0 /\ Missing(s) \in Int
    BY <1>1, MissingAtEnds, MissingType DEF Incomplete
  <1>5. \A k \in 0..Len(s) : MissingAt(t, k) = MissingAt(s, k) /\ MissingAt(s, k) > 0
    <2>1. \A k \in 0..Len(s) : MissingAt(s, k) > 0
      BY <1>1 DEF Incomplete
    <2>2. \A k \in 0..Len(s) : MissingAt(s \o <<x>>, k) = MissingAt(s, k)
      BY <1>1, <1>2, MissingAtFirst
    <2>. QED
      BY <1>1, <2>1, <2>2
  <1>6. MissingAt(t, Len(t)) = Missing(t)
    BY <1>1, MissingAtEnds
  <1> HIDE DEF t
  <1>7. Complete(t) => OneTerm(t)
    BY <1>1, <1>5 DEF Complete, OneTerm
  <1>8. ~Complete(t) => Incomplete(t)
    <2> SUFFICES ASSUME ~Complete(t), NEW k \in 0..Len(t)
                 PROVE  MissingAt(t, k) > 0
      BY DEF Incomplete
    <2>1. CASE k = Len(t)
      BY <1>2, <1>3, <1>4, <1>6, <2>1 DEF Complete
    <2>2. CASE k # Len(t)
      BY <1>1, <1>5, <2>2
    <2>. QED
      BY <2>1, <2>2
  <1>. QED
    BY <1>1, <1>7, <1>8 DEF t

\* A node with n arguments followed by a sequence: what is missing on the way.
LEMMA MissingAtNode ==
    ASSUME NEW x \in SerialNode, NEW t \in Seq(SerialNode)
    PROVE  /\ <<x>> \o t \in Seq(SerialNode) /\ Len(<<x>> \o t) = Len(t) + 1
           /\ (<<x>> \o t)[1] = x
           /\ Missing(<<x>> \o t) = x.args + Missing(t) - 1
           /\ MissingAt(<<x>> \o t, 0) = 1
           /\ \A k \in 0..Len(t) : MissingAt(<<x>> \o t, k + 1) = x.args + MissingAt(t, k) - 1
  <1>1. <<x>> \in Seq(SerialNode) /\ Len(<<x>>) = 1 /\ <<x>>[1] = x /\ Len(t) \in Nat
    BY LenProperties
  <1>2. /\ <<x>> \o t \in Seq(SerialNode) /\ Len(<<x>> \o t) = Len(t) + 1
        /\ (<<x>> \o t)[1] = x
    BY <1>1, ConcatProperties
  <1>3. Missing(<<x>> \o t) = x.args + Missing(t) - 1
    BY <1>1, MissingConcat, MissingOne
  <1>4. ASSUME NEW k \in 0..Len(t)
        PROVE  MissingAt(<<x>> \o t, k + 1) = x.args + MissingAt(t, k) - 1
    <2>1. MissingAt(<<x>> \o t, Len(<<x>>) + k) = Missing(<<x>>) + MissingAt(t, k) - 1
      BY <1>1, MissingAtSecond
    <2>. QED
      BY <1>1, <2>1, MissingOne
  <1>5. MissingAt(<<x>> \o t, 0) = 1
    BY <1>2, MissingAtEnds
  <1>. QED
    BY <1>2, <1>3, <1>4, <1>5

\* The nodes of which every term in Interop is made.
LEMMA NodesAre ==
    /\ EndOfFile \in SerialNode /\ EndOfFile.args = 0 /\ EndOfFile.sort = "np"
    /\ Bytes(Garbage) \in SerialNode /\ Bytes(Garbage).args = 0
    /\ \A x \in Names : /\ NP(x) \in SerialNode /\ NP(x).args = 0
                        /\ Bytes(x) \in SerialNode /\ Bytes(x).args = 0
    /\ \A x \in Names : \A n \in Nat : \A f, e \in Seq(Use) :
           Parametric(x, n, f, e) \in SerialNode /\ Parametric(x, n, f, e).args = n
  <1>1. <<>> \in Seq(Use)
    OBVIOUS
  <1>2. Garbage \in Names /\ "EndOfFile" \in Names
    BY DEF Names
  <1>3. \A x \in Names : /\ NP(x) \in SerialNode /\ NP(x).args = 0 /\ NP(x).sort = "np"
                        /\ Bytes(x) \in SerialNode /\ Bytes(x).args = 0
    BY <1>1 DEF NP, Bytes, SerialNode
  <1>4. ASSUME NEW x \in Names, NEW n \in Nat, NEW f \in Seq(Use), NEW e \in Seq(Use)
        PROVE  Parametric(x, n, f, e) \in SerialNode /\ Parametric(x, n, f, e).args = n
    BY <1>4 DEF Parametric, SerialNode
  <1>. QED
    BY <1>2, <1>3, <1>4 DEF EndOfFile

\* What a reader makes of its arguments, as a sequence.
LEMMA UsesAre ==
    /\ <<>> \in Seq(Use) /\ <<"any">> \in Seq(Use)
    /\ \A u \in Use : <<"value", u>> \in Seq(Use)
  BY DEF Use

\* A node with one argument that is missing, a leaf and a term: one term.
LEMMA WrappedOneTerm ==
    ASSUME NEW x \in SerialNode, x.args = 2, NEW y \in SerialNode, y.args = 0,
           NEW t \in Seq(SerialNode), OneTerm(t)
    PROVE  /\ <<x, y>> \o t \in Seq(SerialNode) /\ OneTerm(<<x, y>> \o t)
           /\ (<<x, y>> \o t)[1] = x
  <1> DEFINE h == <<x, y>>
             r == h \o t
  <1>1. h \in Seq(SerialNode) /\ Len(h) = 2 /\ h[1] = x /\ h[2] = y /\ h # <<>>
    OBVIOUS
  <1> HIDE DEF h
  <1>2. MissingAt(h, 0) = 1 /\ MissingAt(h, 1) = 2 /\ MissingAt(h, 2) = 1 /\ Missing(h) = 1
    <2>1. h[1].args = 2 /\ h[2].args = 0
      BY <1>1
    <2>2. MissingAt(h, 0) = 1 /\ Missing(h) = MissingAt(h, 2)
      BY <1>1, MissingAtEnds
    <2>3. 0 \in 0..(Len(h) - 1) /\ 1 \in 0..(Len(h) - 1)
      BY <1>1
    <2>4. /\ MissingAt(h, 0 + 1) = MissingAt(h, 0) + h[0 + 1].args - 1
          /\ MissingAt(h, 1 + 1) = MissingAt(h, 1) + h[1 + 1].args - 1
      BY <1>1, <2>3, MissingNext
    <2>. QED
      BY <2>1, <2>2, <2>4
  <1>4. Len(t) \in Nat /\ r \in Seq(SerialNode) /\ Len(r) = 2 + Len(t) /\ r[1] = x
    <2>1. r \in Seq(SerialNode) /\ Len(r) = Len(h) + Len(t) /\ (h # <<>> => r[1] = h[1])
      BY <1>1, TwoParts
    <2>. QED
      BY <1>1, <2>1, LenProperties
  <1>5. \A k \in 0..2 : MissingAt(r, k) = MissingAt(h, k)
    <2>1. \A k \in 0..Len(h) : MissingAt(r, k) = MissingAt(h, k)
      BY <1>1, MissingAtFirst
    <2>. QED
      BY <1>1, <2>1
  <1>6. \A k \in 0..Len(t) : MissingAt(r, 2 + k) = Missing(h) + MissingAt(t, k) - 1
    <2>1. \A k \in 0..Len(t) : MissingAt(r, Len(h) + k) = Missing(h) + MissingAt(t, k) - 1
      BY <1>1, MissingAtSecond
    <2>. QED
      BY <1>1, <2>1
  <1>7. Missing(r) = Missing(h) + Missing(t) - 1
    BY <1>1, MissingConcat
  <1> HIDE DEF r
  <1>8. ASSUME NEW k \in 0..(Len(r) - 1)
        PROVE  MissingAt(r, k) > 0
    <2>1. CASE k \in {0, 1}
      BY <1>2, <1>5, <2>1
    <2>2. CASE k >= 2
      <3> DEFINE j == k - 2
      <3>1. j \in 0..(Len(t) - 1) /\ j \in 0..Len(t) /\ k = 2 + j
        BY <1>4, <2>2
      <3>2. MissingAt(t, j) > 0 /\ MissingAt(t, j) \in Int
        BY <3>1, MissingAtType DEF OneTerm
      <3>3. MissingAt(r, 2 + j) = Missing(h) + MissingAt(t, j) - 1
        BY <1>6, <3>1
      <3>. QED
        BY <1>2, <3>1, <3>2, <3>3
    <2>. QED
      BY <1>4, <2>1, <2>2
  <1>9. Missing(r) = 0
    BY <1>2, <1>7 DEF OneTerm
  <1>. QED
    BY <1>4, <1>8, <1>9 DEF OneTerm, r, h

\* ctl::Output(response) is one term.
LEMMA OutputOneTerm ==
    ASSUME NEW t \in Seq(SerialNode), OneTerm(t)
    PROVE  /\ Output(t) \in Seq(SerialNode) /\ OneTerm(Output(t))
           /\ Output(t)[1].sort = "term" /\ Output(t)[1].name = "Output"
  <1> DEFINE x == Parametric("Output", 2, <<"value", "any">>, <<>>)
             y == NP("Output")
  <1>1. /\ x \in SerialNode /\ x.args = 2 /\ y \in SerialNode /\ y.args = 0
        /\ x.sort = "term" /\ x.name = "Output"
    <2>1. "Output" \in Names /\ "any" \in Use /\ 2 \in Nat
      BY DEF Names, Use
    <2>2. <<"value", "any">> \in Seq(Use) /\ <<>> \in Seq(Use)
      BY <2>1, UsesAre
    <2>3. x \in SerialNode /\ x.args = 2
      BY <2>1, <2>2, NodesAre
    <2>4. y \in SerialNode /\ y.args = 0
      BY <2>1, NodesAre
    <2>. QED
      BY <2>3, <2>4 DEF Parametric
  <1>2. Output(t) = <<x, y>> \o t
    BY DEF Output, Unary
  <1> HIDE DEF x, y
  <1>. QED
    BY <1>1, <1>2, WrappedOneTerm

\* The nodes of a plain value.
LEMMA PODNodes ==
    ASSUME NEW type \in Names, NEW value \in Names
    PROVE  LET p == POD(type, value)
           IN  /\ p \in Seq(SerialNode) /\ Len(p) = 3
               /\ p[1].args = 2 /\ p[2].args = 0 /\ p[3].args = 0
  <1> DEFINE x == Parametric(type, 2, <<"value", "bytes">>, <<>>)
             y == NP(type)
             z == Bytes(value)
  <1>1. "bytes" \in Use
    BY DEF Use
  <1>2. <<"value", "bytes">> \in Seq(Use) /\ <<>> \in Seq(Use)
    BY <1>1, UsesAre
  <1>3. x \in SerialNode /\ x.args = 2
    <2> DEFINE f == <<"value", "bytes">>
               e == <<>>
    <2>1. 2 \in Nat /\ f \in Seq(Use) /\ e \in Seq(Use)
      BY <1>2
    <2>2. x = Parametric(type, 2, f, e)
      OBVIOUS
    <2> HIDE DEF x, f, e
    <2>. QED
      BY <2>1, <2>2, NodesAre
  <1>4. y \in SerialNode /\ y.args = 0 /\ z \in SerialNode /\ z.args = 0
    BY NodesAre
  <1>5. POD(type, value) = <<x, y>> \o <<z>>
    BY DEF POD, Unary
  <1> HIDE DEF x, y, z
  <1> DEFINE p == <<x, y>> \o <<z>>
  <1>6. p \in Seq(SerialNode) /\ Len(p) = 3 /\ p[1] = x /\ p[2] = y /\ p[3] = z
    BY <1>3, <1>4
  <1> HIDE DEF p
  <1>. QED
    BY <1>3, <1>4, <1>5, <1>6 DEF p

\* The head of an Array of n elements, and its size.
LEMMA ArrayHead ==
    ASSUME NEW n \in Nat
    PROVE  /\ Array(n) \in Seq(SerialNode) /\ Len(Array(n)) = 5
           /\ Array(n)[1].args = 2 + n /\ Array(n)[3].args = 2
           /\ Array(n)[2].args = 0 /\ Array(n)[4].args = 0 /\ Array(n)[5].args = 0
  <1> DEFINE x == Parametric("Array", 2 + n, <<"value", "value">>, <<"any">>)
             y == NP("Array")
             f == <<x, y>>
             g == POD("Uint64", "size")
             h == f \o g
  <1>1. "Array" \in Names /\ "Uint64" \in Names /\ "size" \in Names /\ 2 + n \in Nat
    BY DEF Names
  <1>2. <<"value", "value">> \in Seq(Use) /\ <<"any">> \in Seq(Use)
    <2>1. "value" \in Use
      BY DEF Use
    <2>. QED
      BY <2>1, UsesAre
  <1>3. x \in SerialNode /\ x.args = 2 + n
    <2> DEFINE f1 == <<"value", "value">>
               e1 == <<"any">>
               m == 2 + n
    <2>1. "Array" \in Names /\ m \in Nat /\ f1 \in Seq(Use) /\ e1 \in Seq(Use)
      BY <1>1, <1>2
    <2>2. x = Parametric("Array", m, f1, e1)
      OBVIOUS
    <2> HIDE DEF x, f1, e1, m
    <2>3. x \in SerialNode /\ x.args = m
      BY <2>1, <2>2, NodesAre
    <2>. QED
      BY <2>3 DEF m
  <1>4. y \in SerialNode /\ y.args = 0
    BY <1>1, NodesAre
  <1>5. /\ g \in Seq(SerialNode) /\ Len(g) = 3
        /\ g[1].args = 2 /\ g[2].args = 0 /\ g[3].args = 0
    BY <1>1, PODNodes
  <1>6. Array(n) = h
    BY DEF Array
  <1> HIDE DEF x, y, g
  <1>7. f \in Seq(SerialNode) /\ Len(f) = 2 /\ f[1] = x /\ f[2] = y
    BY <1>3, <1>4
  <1> HIDE DEF f
  <1>8. /\ h \in Seq(SerialNode) /\ Len(h) = 5
        /\ \A k \in 1..5 : h[k] = IF k <= 2 THEN f[k] ELSE g[k - 2]
    <2>1. /\ h \in Seq(SerialNode) /\ Len(h) = Len(f) + Len(g)
          /\ \A k \in 1..(Len(f) + Len(g)) : h[k] = IF k <= Len(f) THEN f[k] ELSE g[k - Len(f)]
      BY <1>5, <1>7, ConcatProperties
    <2>. QED
      BY <1>5, <1>7, <2>1
  <1> HIDE DEF h
  <1>9. h[1] = x /\ h[2] = y /\ h[3] = g[1] /\ h[4] = g[2] /\ h[5] = g[3]
    BY <1>7, <1>8
  <1>. QED
    BY <1>3, <1>4, <1>5, <1>6, <1>8, <1>9

\* The nodes of the characters of a line: the head of each, its type, its bytes.
LEMMA CharNodes ==
    ASSUME NEW line \in Seq(Char), NEW k \in 1..(3 * Len(line))
    PROVE  LET x == POD("Sint32", line[(k + 2) \div 3])[((k + 2) % 3) + 1]
           IN  x \in SerialNode /\ x.args = IF (k + 2) % 3 = 0 THEN 2 ELSE 0
  <1> DEFINE q == (k + 2) \div 3
             m == (k + 2) % 3
             p == POD("Sint32", line[q])
  <1>1. q \in 1..Len(line) /\ m \in {0, 1, 2}
    BY LenProperties
  <1>2. line[q] \in Names /\ "Sint32" \in Names
    BY <1>1, ElementOfSeq DEF Names
  <1>3. /\ p \in Seq(SerialNode) /\ Len(p) = 3
        /\ p[1].args = 2 /\ p[2].args = 0 /\ p[3].args = 0
    BY <1>2, PODNodes
  <1> HIDE DEF p, q, m
  <1>4. p[m + 1].args = IF m = 0 THEN 2 ELSE 0
    BY <1>1, <1>3
  <1>5. p[m + 1] \in SerialNode
    <2>1. m + 1 \in 1..Len(p)
      BY <1>1, <1>3
    <2>. QED
      BY <1>3, <2>1, ElementOfSeq
  <1>. QED
    BY <1>4, <1>5 DEF p, q, m

\* The reply to a request, an Array of characters, is one term.
LEMMA ArrayOneTerm ==
    ASSUME NEW line \in Seq(Char)
    PROVE  ArrayFromString(line) \in Seq(SerialNode) /\ OneTerm(ArrayFromString(line))
  <1> DEFINE n == Len(line)
             h == Array(n)
             e == [k \in 1..(3 * n) |-> POD("Sint32", line[(k + 2) \div 3])[((k + 2) % 3) + 1]]
             r == h \o e
             G(j) == n - (j \div 3) + (IF j % 3 = 1 THEN 1 ELSE 0)
  <1>1. n \in Nat
    BY LenProperties
  <1>2. ArrayFromString(line) = r
    BY DEF ArrayFromString
  <1>3. /\ e \in [1..(3 * n) -> SerialNode]
        /\ \A k \in 1..(3 * n) : e[k].args = IF (k + 2) % 3 = 0 THEN 2 ELSE 0
    <2>1. \A k \in 1..(3 * n) :
             LET x == POD("Sint32", line[(k + 2) \div 3])[((k + 2) % 3) + 1]
             IN  x \in SerialNode /\ x.args = IF (k + 2) % 3 = 0 THEN 2 ELSE 0
      BY CharNodes
    <2>. QED
      BY <2>1, Zenon
  <1>4. /\ h \in Seq(SerialNode) /\ Len(h) = 5 /\ h[1].args = 2 + n /\ h[3].args = 2
        /\ h[2].args = 0 /\ h[4].args = 0 /\ h[5].args = 0
    BY <1>1, ArrayHead
  <1> HIDE DEF n, h, e
  <1>5. e \in Seq(SerialNode) /\ Len(e) = 3 * n
    <2>1. 3 * n \in Nat
      BY <1>1
    <2>. QED
      BY <1>3, <2>1, FunctionIsSeq
  <1>6. /\ r \in Seq(SerialNode) /\ Len(r) = 5 + 3 * n
        /\ \A i \in 1..5 : r[i] = h[i]
        /\ \A i \in 1..(3 * n) : r[5 + i] = e[i]
    <2>1. /\ r \in Seq(SerialNode) /\ Len(r) = Len(h) + Len(e)
          /\ \A i \in 1..(Len(h) + Len(e)) : r[i] = IF i <= Len(h) THEN h[i] ELSE e[i - Len(h)]
      BY <1>4, <1>5, ConcatProperties
    <2>. QED
      BY <1>1, <1>4, <1>5, <2>1
  <1> HIDE DEF r
  <1>7. \A k \in 0..(4 + 3 * n) : MissingAt(r, k + 1) = MissingAt(r, k) + r[k + 1].args - 1
    <2>1. 0..(Len(r) - 1) = 0..(4 + 3 * n)
      BY <1>1, <1>6
    <2>. QED
      BY <1>6, <2>1, MissingNext
  <1>8. /\ MissingAt(r, 0) = 1 /\ MissingAt(r, 1) = 2 + n /\ MissingAt(r, 2) = 1 + n
        /\ MissingAt(r, 3) = 2 + n /\ MissingAt(r, 4) = 1 + n /\ MissingAt(r, 5) = n
    <2>1. \A k \in 0..4 : MissingAt(r, k + 1) = MissingAt(r, k) + h[k + 1].args - 1
      BY <1>1, <1>6, <1>7
    <2>2. MissingAt(r, 0) = 1
      BY <1>6, MissingAtEnds
    <2>3. MissingAt(r, 0 + 1) = 1 + (2 + n) - 1
      BY <1>4, <2>1, <2>2
    <2>4. MissingAt(r, 1 + 1) = (2 + n) + 0 - 1
      BY <1>1, <1>4, <2>1, <2>3
    <2>5. MissingAt(r, 2 + 1) = (1 + n) + 2 - 1
      BY <1>1, <1>4, <2>1, <2>4
    <2>6. MissingAt(r, 3 + 1) = (2 + n) + 0 - 1
      BY <1>1, <1>4, <2>1, <2>5
    <2>7. MissingAt(r, 4 + 1) = (1 + n) + 0 - 1
      BY <1>1, <1>4, <2>1, <2>6
    <2>. QED
      BY <1>1, <2>2, <2>3, <2>4, <2>5, <2>6, <2>7
  <1>9. ASSUME NEW j \in 0..(3 * n - 1), MissingAt(r, 5 + j) = G(j)
        PROVE  MissingAt(r, 5 + (j + 1)) = G(j + 1)
    <2>1. j + 1 \in 1..(3 * n) /\ 5 + j \in 0..(4 + 3 * n) /\ (5 + j) + 1 = 5 + (j + 1)
      BY <1>1
    <2>2. r[5 + (j + 1)].args = IF (j + 3) % 3 = 0 THEN 2 ELSE 0
      <3>1. (j + 1) + 2 = j + 3
        OBVIOUS
      <3>. QED
        BY <1>3, <1>6, <2>1, <3>1
    <2>3. MissingAt(r, 5 + (j + 1)) = G(j) + (IF (j + 3) % 3 = 0 THEN 2 ELSE 0) - 1
      BY <1>7, <1>9, <2>1, <2>2
    <2>. QED
      BY <1>1, <2>3
  <1>10a. G(0) = n
    BY <1>1
  <1>10. \A j \in 0..(3 * n) : MissingAt(r, 5 + j) = G(j)
    <2> HIDE DEF G
    <2> DEFINE W == {j \in 0..(3 * n) : MissingAt(r, 5 + j) # G(j)}
    <2>1. W = {}
      <3> SUFFICES ASSUME W # {}
                   PROVE  FALSE
        OBVIOUS
      <3>1. PICK x \in W : \A y \in W : x <= y
        <4>1. W \in SUBSET Nat
          BY <1>1
        <4> HIDE DEF W
        <4>. QED
          BY <4>1, LeastNumber
      <3>2. x # 0
        BY <1>1, <1>8, <1>10a
      <3>3. x - 1 \in 0..(3 * n - 1) /\ ~(x - 1 \in W) /\ (x - 1) + 1 = x
        <4>1. x \in 0..(3 * n)
          OBVIOUS
        <4>2. x - 1 \in 0..(3 * n - 1) /\ (x - 1) + 1 = x /\ ~(x <= x - 1)
          BY <1>1, <3>2, <4>1
        <4>. QED
          BY <3>1, <4>2
      <3>4. MissingAt(r, 5 + (x - 1)) = G(x - 1)
        <4>1. x - 1 \in 0..(3 * n)
          BY <1>1, <3>3
        <4>. QED
          BY <3>3, <4>1
      <3>5. MissingAt(r, 5 + ((x - 1) + 1)) = G((x - 1) + 1)
        BY <1>9, <3>3, <3>4
      <3>. QED
        BY <3>1, <3>3, <3>5
    <2>. QED
      BY <2>1
  <1>11. ASSUME NEW k \in 0..(Len(r) - 1)
         PROVE  MissingAt(r, k) > 0
    <2>1. CASE k < 5
      <3>1. k \in {0, 1, 2, 3, 4}
        BY <2>1
      <3>. QED
        BY <1>1, <1>8, <3>1
    <2>2. CASE k >= 5
      <3> DEFINE j == k - 5
      <3>1. j \in 0..(3 * n) /\ j < 3 * n /\ k = 5 + j
        BY <1>1, <1>6, <2>2
      <3>2. MissingAt(r, 5 + j) = G(j)
        BY <1>10, <3>1
      <3>. QED
        BY <1>1, <3>1, <3>2
    <2>. QED
      BY <2>1, <2>2
  <1>12. Missing(r) = 0
    <2>1. MissingAt(r, 5 + 3 * n) = G(3 * n)
      BY <1>1, <1>10
    <2>2. G(3 * n) = 0
      BY <1>1
    <2>. QED
      BY <1>6, <2>1, <2>2, MissingAtEnds
  <1>. QED
    BY <1>2, <1>6, <1>11, <1>12 DEF OneTerm

\* What deserialize_data makes of the end of a stream is one term, too: the nodes
\* it has read, and something for every node that is missing.
LEMMA EndOfStreamOneTerm ==
    ASSUME NEW s \in Seq(SerialNode), Incomplete(s)
    PROVE  LET t == AtEndOfStream(s)
           IN  /\ t \in Seq(SerialNode) /\ OneTerm(t)
               /\ s # <<>> => t[1] = s[1]
               /\ s = <<>> => t = <<EndOfFile>>
  <1> DEFINE m == Missing(s)
             e == [k \in 1..m |-> IF k = 1 /\ LacksBytes(s) THEN Bytes(Garbage) ELSE EndOfFile]
             t == s \o e
  <1>1. Len(s) \in Nat /\ m \in Nat \ {0}
    BY MissingType, MissingAtEnds, LenProperties DEF Incomplete
  <1>2. e \in [1..m -> SerialNode] /\ \A k \in 1..m : e[k].args = 0
    BY NodesAre
  <1>3. s = <<>> => m = 1 /\ ~LacksBytes(s)
    BY MissingEmpty DEF LacksBytes
  <1>4. s = <<>> => e[1] = EndOfFile
    BY <1>1, <1>3
  <1>5. AtEndOfStream(s) = t
    BY DEF AtEndOfStream
  <1> HIDE DEF e, m
  <1>6. e \in Seq(SerialNode) /\ Len(e) = m
    BY <1>1, <1>2, FunctionIsSeq
  <1>7. \A k \in 0..m : MissingAt(e, k) = 1 - k
    BY <1>2, <1>6, MissingAtLeaves
  <1>8. t \in Seq(SerialNode) /\ Len(t) = Len(s) + m /\ (s # <<>> => t[1] = s[1])
    BY <1>6, TwoParts
  <1>9. /\ \A k \in 0..Len(s) : MissingAt(t, k) = MissingAt(s, k)
        /\ \A k \in 0..m : MissingAt(t, Len(s) + k) = m - k
    <2>1. \A k \in 0..Len(s) : MissingAt(t, k) = MissingAt(s, k)
      BY <1>6, MissingAtFirst
    <2>2. \A k \in 0..m : MissingAt(t, Len(s) + k) = Missing(s) + MissingAt(e, k) - 1
      BY <1>6, MissingAtSecond
    <2>. QED
      BY <1>1, <1>7, <2>1, <2>2 DEF m
  <1>10. s = <<>> => t = <<EndOfFile>>
    <2> SUFFICES ASSUME s = <<>>
                 PROVE  t = <<EndOfFile>>
      OBVIOUS
    <2>1. t = e /\ Len(e) = 1
      BY <1>3, <1>6, ConcatEmptySeq DEF m
    <2>. QED
      BY <1>4, <1>6, <2>1
  <1> HIDE DEF t
  <1>11. Missing(t) = 0
    <2>1. MissingAt(t, Len(s) + m) = 0
      BY <1>1, <1>9
    <2>. QED
      BY <1>8, <2>1, MissingAtEnds
  <1>12. ASSUME NEW k \in 0..(Len(t) - 1)
         PROVE  MissingAt(t, k) > 0
    <2>1. CASE k <= Len(s)
      BY <1>1, <1>9, <2>1 DEF Incomplete
    <2>2. CASE k > Len(s)
      <3> DEFINE j == k - Len(s)
      <3>1. j \in 0..m /\ j < m /\ k = Len(s) + j
        BY <1>1, <1>8, <2>2
      <3>2. MissingAt(t, Len(s) + j) = m - j
        BY <1>9, <3>1
      <3>. QED
        BY <1>1, <3>1, <3>2
    <2>. QED
      BY <1>1, <1>8, <2>1, <2>2
  <1>. QED
    BY <1>5, <1>8, <1>10, <1>11, <1>12 DEF OneTerm

(* The terms of a stream ------------------------------------------------- *)

\* A term, not an argument of one, starts after the first k nodes.
Starts(s, k) == \A j \in 0..(k - 1) : MissingAt(s, j) > MissingAt(s, k)

\* The stream ends where a term ends.
Whole(s) == \A k \in 0..(Len(s) - 1) : MissingAt(s, k) > Missing(s)

\* None of the terms is EndOfFile.
NoEndOfFile(s) == \A k \in 0..(Len(s) - 1) : Starts(s, k) => s[k + 1] # EndOfFile

\* One of the terms is a request for input; no term follows on a request.
RequestAfter(s, k) == Starts(s, k) /\ IsRequest(s[k + 1])
HasRequest(s) == \E k \in 0..(Len(s) - 1) : RequestAfter(s, k)
RequestIsLast(s) ==
    \A k \in 0..(Len(s) - 1) : RequestAfter(s, k)
        => \A j \in k..(Len(s) - 1) : MissingAt(s, j) >= MissingAt(s, k)

\* A term that is appended to a stream starts where the stream ended, and nothing
\* that did not start before starts now.
LEMMA AppendedStarts ==
    ASSUME NEW s \in Seq(SerialNode), NEW t \in Seq(SerialNode), OneTerm(t),
           NEW k \in 0..(Len(s \o t) - 1), Starts(s \o t, k)
    PROVE  \/ k \in 0..(Len(s) - 1) /\ Starts(s, k) /\ (s \o t)[k + 1] = s[k + 1]
           \/ k = Len(s) /\ (s \o t)[k + 1] = t[1]
  <1>1. /\ s \o t \in Seq(SerialNode) /\ Len(s \o t) = Len(s) + Len(t)
        /\ Len(s) \in Nat /\ Len(t) \in Nat \ {0}
        /\ \A i \in 1..Len(s) : (s \o t)[i] = s[i]
        /\ \A i \in 1..Len(t) : (s \o t)[i + Len(s)] = t[i]
    BY ConcatProperties, LenProperties, OneTermNonempty
  <1>2. \A j \in 0..Len(s) : MissingAt(s \o t, j) = MissingAt(s, j)
    BY MissingAtFirst
  <1>3. \A j \in 0..Len(t) : MissingAt(s \o t, Len(s) + j) = Missing(s) + MissingAt(t, j) - 1
    BY MissingAtSecond
  <1>4. MissingAt(s, Len(s)) = Missing(s) /\ Missing(s) \in Int
    BY MissingAtEnds, MissingType
  <1>5. CASE k < Len(s)
    <2>1. k \in 0..(Len(s) - 1) /\ (s \o t)[k + 1] = s[k + 1]
      BY <1>1, <1>5
    <2>2. \A j \in 0..k : MissingAt(s \o t, j) = MissingAt(s, j)
      BY <1>1, <1>2, <2>1
    <2>. QED
      BY <2>1, <2>2 DEF Starts
  <1>6. CASE k = Len(s)
    <2>1. k + 1 = 1 + Len(s) /\ 1 \in 1..Len(t)
      BY <1>1, <1>6
    <2>. QED
      BY <1>1, <1>6, <2>1
  <1>7. CASE k > Len(s)
    <2> DEFINE i == k - Len(s)
    <2>1. i \in 0..Len(t) /\ i \in 0..(Len(t) - 1) /\ k = Len(s) + i
      BY <1>1, <1>7
    <2>2. MissingAt(t, i) > 0 /\ MissingAt(t, i) \in Int
      BY <2>1, MissingAtType DEF OneTerm
    <2> HIDE DEF i
    <2>3. MissingAt(s \o t, k) >= Missing(s)
      BY <1>3, <1>4, <2>1, <2>2
    <2>4. MissingAt(s \o t, Len(s)) = Missing(s)
      BY <1>1, <1>2, <1>4
    <2>5. MissingAt(s \o t, Len(s)) > MissingAt(s \o t, k)
      BY <1>1, <1>7 DEF Starts
    <2>6. MissingAt(s \o t, k) \in Int
      <3>1. k \in 0..Len(s \o t)
        BY <1>1
      <3>. QED
        BY <1>1, <3>1, MissingAtType
    <2>. QED
      BY <1>4, <2>3, <2>4, <2>5, <2>6
  <1>. QED
    BY <1>1, <1>5, <1>6, <1>7

\* back appends a term to what it has written: one more term, a whole number of
\* terms, and a request only if there was one or the term is one.
LEMMA TermWritten ==
    ASSUME NEW s \in Seq(SerialNode), NEW t \in Seq(SerialNode), OneTerm(t)
    PROVE  /\ s \o t \in Seq(SerialNode)
           /\ Missing(s \o t) = Missing(s) - 1
           /\ Whole(s) => Whole(s \o t)
           /\ NoEndOfFile(s) /\ t[1] # EndOfFile => NoEndOfFile(s \o t)
           /\ HasRequest(s \o t) => HasRequest(s) \/ Asks(t)
           /\ ~HasRequest(s) => RequestIsLast(s \o t)
  <1> DEFINE r == s \o t
  <1>1. /\ r \in Seq(SerialNode) /\ Len(r) = Len(s) + Len(t)
        /\ Len(s) \in Nat /\ Len(t) \in Nat \ {0}
    BY ConcatProperties, LenProperties, OneTermNonempty
  <1>2. /\ \A j \in 0..Len(s) : MissingAt(r, j) = MissingAt(s, j)
        /\ \A j \in 0..Len(t) : MissingAt(r, Len(s) + j) = Missing(s) + MissingAt(t, j) - 1
    BY MissingAtFirst, MissingAtSecond
  <1>3. Missing(r) = Missing(s) - 1
    <2>1. Missing(r) = Missing(s) + Missing(t) - 1
      BY MissingConcat
    <2>. QED
      BY <2>1, MissingType DEF OneTerm
  <1>4. MissingAt(s, Len(s)) = Missing(s) /\ Missing(s) \in Int
    BY MissingAtEnds, MissingType
  <1>5. \A k \in 0..(Len(r) - 1) : Starts(r, k) =>
            \/ k \in 0..(Len(s) - 1) /\ Starts(s, k) /\ r[k + 1] = s[k + 1]
            \/ k = Len(s) /\ r[k + 1] = t[1]
    BY AppendedStarts
  <1> HIDE DEF r
  <1>6. ASSUME NEW i \in 0..(Len(t) - 1)
        PROVE  MissingAt(r, Len(s) + i) >= Missing(s) /\ MissingAt(r, Len(s) + i) \in Int
    <2>1. i \in 0..Len(t)
      BY <1>1
    <2>2. MissingAt(t, i) > 0 /\ MissingAt(t, i) \in Int
      BY <2>1, MissingAtType DEF OneTerm
    <2>. QED
      BY <1>2, <1>4, <2>1, <2>2
  <1>7. ASSUME NEW k \in 0..(Len(r) - 1), k >= Len(s)
        PROVE  MissingAt(r, k) >= Missing(s) /\ MissingAt(r, k) \in Int
    <2> DEFINE i == k - Len(s)
    <2>1. i \in 0..(Len(t) - 1) /\ Len(s) + i = k
      BY <1>1, <1>7
    <2> HIDE DEF i
    <2>. QED
      BY <1>6, <2>1
  <1>8. ASSUME Whole(s)
        PROVE  Whole(r)
    <2> SUFFICES ASSUME NEW k \in 0..(Len(r) - 1)
                 PROVE  MissingAt(r, k) > Missing(r)
      BY DEF Whole
    <2>1. CASE k < Len(s)
      <3>1. k \in 0..(Len(s) - 1) /\ k \in 0..Len(s)
        BY <1>1, <2>1
      <3>2. MissingAt(s, k) > Missing(s) /\ MissingAt(s, k) \in Int
        BY <1>8, <3>1, MissingAtType DEF Whole
      <3>. QED
        BY <1>2, <1>3, <1>4, <3>1, <3>2
    <2>2. CASE k >= Len(s)
      BY <1>3, <1>4, <1>7, <2>2
    <2>. QED
      BY <1>1, <2>1, <2>2
  <1>9. NoEndOfFile(s) /\ t[1] # EndOfFile => NoEndOfFile(r)
    BY <1>5 DEF NoEndOfFile
  <1>10. HasRequest(r) => HasRequest(s) \/ Asks(t)
    BY <1>5 DEF HasRequest, RequestAfter, Asks
  <1>11. ASSUME ~HasRequest(s)
         PROVE  RequestIsLast(r)
    <2> SUFFICES ASSUME NEW k \in 0..(Len(r) - 1), RequestAfter(r, k),
                        NEW j \in k..(Len(r) - 1)
                 PROVE  MissingAt(r, j) >= MissingAt(r, k)
      BY DEF RequestIsLast
    <2>1. k = Len(s)
      BY <1>5, <1>11 DEF HasRequest, RequestAfter
    <2>2. MissingAt(r, k) = Missing(s)
      BY <1>1, <1>2, <1>4, <2>1
    <2>. QED
      BY <1>1, <1>7, <2>1, <2>2
  <1>. QED
    BY <1>1, <1>3, <1>8, <1>9, <1>10, <1>11 DEF r

\* front takes the first term of the stream: the others start where they started,
\* there is one term less, and nothing follows on a request.
LEMMA TermRead ==
    ASSUME NEW t \in Seq(SerialNode), OneTerm(t), NEW u \in Seq(SerialNode)
    PROVE  /\ Missing(u) = Missing(t \o u) + 1
           /\ Whole(t \o u) => Whole(u)
           /\ NoEndOfFile(t \o u) => NoEndOfFile(u) /\ t[1] # EndOfFile
           /\ HasRequest(u) \/ Asks(t) => HasRequest(t \o u)
           /\ RequestIsLast(t \o u) => RequestIsLast(u)
           /\ RequestIsLast(t \o u) /\ Asks(t) => u = <<>>
  <1> DEFINE r == t \o u
             n == Len(t)
  <1>1. /\ r \in Seq(SerialNode) /\ Len(r) = n + Len(u)
        /\ n \in Nat \ {0} /\ Len(u) \in Nat
        /\ \A i \in 1..n : r[i] = t[i]
        /\ \A i \in 1..Len(u) : r[i + n] = u[i]
    BY ConcatProperties, LenProperties, OneTermNonempty
  <1>2. /\ \A j \in 0..n : MissingAt(r, j) = MissingAt(t, j)
        /\ \A j \in 0..Len(u) : MissingAt(r, n + j) = MissingAt(u, j) - 1
    <2>1. \A j \in 0..Len(u) : MissingAt(r, n + j) = Missing(t) + MissingAt(u, j) - 1
      BY MissingAtSecond
    <2>2. Missing(t) = 0 /\ \A j \in 0..Len(u) : MissingAt(u, j) \in Int
      BY MissingAtType DEF OneTerm
    <2>. QED
      BY <2>1, <2>2, MissingAtFirst
  <1>3. Missing(u) = Missing(r) + 1 /\ Missing(u) \in Int /\ Missing(r) \in Int
    <2>1. Missing(r) = Missing(t) + Missing(u) - 1
      BY MissingConcat
    <2>. QED
      BY <2>1, MissingType DEF OneTerm
  <1>4. /\ MissingAt(u, 0) = 1 /\ MissingAt(r, 0) = 1 /\ MissingAt(r, n) = 0
        /\ \A j \in 0..(n - 1) : MissingAt(r, j) > 0
    <2>1. MissingAt(u, 0) = 1 /\ MissingAt(r, 0) = 1 /\ MissingAt(t, n) = 0
      BY <1>1, MissingAtEnds DEF OneTerm
    <2>. QED
      BY <1>1, <1>2, <2>1 DEF OneTerm
  <1>5. \A j \in 0..Len(u) : MissingAt(u, j) \in Int
    BY MissingAtType
  <1>6. \A j \in 0..Len(r) : MissingAt(r, j) \in Int
    BY <1>1, MissingAtType
  <1> HIDE DEF r, n
  <1>7. ASSUME NEW k \in 0..(Len(u) - 1)
        PROVE  /\ n + k \in 0..(Len(r) - 1) /\ r[n + k + 1] = u[k + 1]
               /\ Starts(u, k) => Starts(r, n + k)
    <2>1. k + 1 \in 1..Len(u) /\ n + k + 1 = k + 1 + n
      BY <1>1
    <2>2. n + k \in 0..(Len(r) - 1) /\ r[n + k + 1] = u[k + 1]
      BY <1>1, <2>1
    <2>3. ASSUME Starts(u, k), NEW j \in 0..(n + k - 1)
          PROVE  MissingAt(r, j) > MissingAt(r, n + k)
      <3>1. MissingAt(r, n + k) = MissingAt(u, k) - 1 /\ MissingAt(u, k) \in Int
        BY <1>1, <1>2, <1>5
      <3>2. CASE j < n
        <4>1. MissingAt(r, j) > 0
          BY <1>1, <1>4, <3>2
        <4>2. MissingAt(u, k) <= 1
          BY <1>4, <1>5, <2>3 DEF Starts
        <4>3. j \in 0..Len(r)
          BY <1>1
        <4>. QED
          BY <1>6, <3>1, <4>1, <4>2, <4>3
      <3>3. CASE j >= n
        <4> DEFINE i == j - n
        <4>1. i \in 0..(k - 1) /\ i \in 0..Len(u) /\ n + i = j
          BY <1>1, <3>3
        <4> HIDE DEF i
        <4>2. MissingAt(u, i) > MissingAt(u, k) /\ MissingAt(u, i) \in Int
          BY <1>5, <2>3, <4>1 DEF Starts
        <4>. QED
          BY <1>2, <3>1, <4>1, <4>2
      <3>. QED
        BY <1>1, <3>2, <3>3
    <2>4. ASSUME Starts(u, k)
          PROVE  Starts(r, n + k)
      <3>1. \A j \in 0..((n + k) - 1) : MissingAt(r, j) > MissingAt(r, n + k)
        BY <1>1, <2>3, <2>4
      <3>. QED
        BY <3>1 DEF Starts
    <2>. QED
      BY <2>2, <2>4
  <1>8. 0 \in 0..(Len(r) - 1) /\ Starts(r, 0) /\ r[1] = t[1]
    BY <1>1 DEF Starts
  <1>9. ASSUME Whole(r)
        PROVE  Whole(u)
    <2> SUFFICES ASSUME NEW k \in 0..(Len(u) - 1)
                 PROVE  MissingAt(u, k) > Missing(u)
      BY DEF Whole
    <2>1. MissingAt(r, n + k) > Missing(r)
      BY <1>7, <1>9 DEF Whole
    <2>2. MissingAt(r, n + k) = MissingAt(u, k) - 1 /\ MissingAt(u, k) \in Int
      BY <1>1, <1>2, <1>5
    <2>. QED
      BY <1>3, <2>1, <2>2
  <1>10. NoEndOfFile(r) => NoEndOfFile(u) /\ t[1] # EndOfFile
    <2>1. NoEndOfFile(r) => t[1] # EndOfFile
      BY <1>8 DEF NoEndOfFile
    <2>2. ASSUME NoEndOfFile(r), NEW k \in 0..(Len(u) - 1), Starts(u, k)
          PROVE  u[k + 1] # EndOfFile
      BY <1>7, <2>2 DEF NoEndOfFile
    <2>. QED
      BY <2>1, <2>2 DEF NoEndOfFile
  <1>11. HasRequest(u) => HasRequest(r)
    BY <1>7 DEF HasRequest, RequestAfter
  <1>12. Asks(t) => RequestAfter(r, 0) /\ HasRequest(r)
    BY <1>8 DEF HasRequest, RequestAfter, Asks
  <1>13. ASSUME RequestIsLast(r)
         PROVE  RequestIsLast(u)
    <2> SUFFICES ASSUME NEW k \in 0..(Len(u) - 1), RequestAfter(u, k),
                        NEW j \in k..(Len(u) - 1)
                 PROVE  MissingAt(u, j) >= MissingAt(u, k)
      BY DEF RequestIsLast
    <2>1. n + k \in 0..(Len(r) - 1) /\ RequestAfter(r, n + k)
      BY <1>7 DEF RequestAfter
    <2>2. n + j \in (n + k)..(Len(r) - 1)
      BY <1>1
    <2>3. MissingAt(r, n + j) >= MissingAt(r, n + k)
      BY <1>13, <2>1, <2>2 DEF RequestIsLast
    <2>4. k \in 0..Len(u) /\ j \in 0..Len(u)
      BY <1>1
    <2>5. /\ MissingAt(r, n + k) = MissingAt(u, k) - 1 /\ MissingAt(u, k) \in Int
          /\ MissingAt(r, n + j) = MissingAt(u, j) - 1 /\ MissingAt(u, j) \in Int
      BY <1>2, <1>5, <2>4
    <2>. QED
      BY <2>3, <2>5
  <1>14. ASSUME RequestIsLast(r), Asks(t), u # <<>>
         PROVE  FALSE
    <2>1. Len(u) > 0
      BY <1>14, EmptySeq
    <2>2. n \in 0..(Len(r) - 1)
      BY <1>1, <2>1
    <2>3. MissingAt(r, n) >= MissingAt(r, 0)
      BY <1>8, <1>12, <1>14, <2>2 DEF RequestIsLast
    <2>. QED
      BY <1>4, <2>3
  <1>. QED
    BY <1>3, <1>9, <1>10, <1>11, <1>12, <1>13, <1>14 DEF r

\* back is killed: of what it had yet to write nothing follows.
LEMMA StreamCut ==
    ASSUME NEW s \in Seq(SerialNode), NEW v \in Seq(SerialNode)
    PROVE  /\ HasRequest(s) => HasRequest(s \o v)
           /\ RequestIsLast(s \o v) => RequestIsLast(s)
  <1> DEFINE r == s \o v
  <1>1. /\ r \in Seq(SerialNode) /\ Len(r) = Len(s) + Len(v)
        /\ Len(s) \in Nat /\ Len(v) \in Nat
        /\ \A i \in 1..Len(s) : r[i] = s[i]
    BY ConcatProperties, LenProperties
  <1>2. \A j \in 0..Len(s) : MissingAt(r, j) = MissingAt(s, j)
    BY MissingAtFirst
  <1> HIDE DEF r
  <1>3. ASSUME NEW k \in 0..(Len(s) - 1), RequestAfter(s, k)
        PROVE  RequestAfter(r, k)
    <2>1. s[k + 1] = r[k + 1]
      BY <1>1
    <2>2. \A j \in 0..k : MissingAt(s, j) = MissingAt(r, j)
      BY <1>1, <1>2
    <2>. QED
      BY <1>3, <2>1, <2>2 DEF RequestAfter, Starts
  <1>4. HasRequest(s) => HasRequest(r)
    BY <1>1, <1>3 DEF HasRequest
  <1>5. ASSUME RequestIsLast(r)
        PROVE  RequestIsLast(s)
    <2> SUFFICES ASSUME NEW k \in 0..(Len(s) - 1), RequestAfter(s, k),
                        NEW j \in k..(Len(s) - 1)
                 PROVE  MissingAt(s, j) >= MissingAt(s, k)
      BY DEF RequestIsLast
    <2>1. /\ RequestAfter(r, k) /\ j \in 0..Len(s) /\ k \in 0..Len(s)
          /\ j \in k..(Len(r) - 1) /\ k \in 0..(Len(r) - 1)
      BY <1>1, <1>3
    <2>2. MissingAt(r, j) >= MissingAt(r, k)
      BY <1>5, <2>1 DEF RequestIsLast
    <2>. QED
      BY <1>2, <2>1, <2>2
  <1>. QED
    BY <1>4, <1>5 DEF r

\* A stream of which every part is missing something holds no complete term.
LEMMA NothingRead ==
    ASSUME NEW s \in Seq(SerialNode), Incomplete(s), Whole(s)
    PROVE  s = <<>>
  <1>1. Len(s) \in Nat /\ MissingAt(s, 0) = 1 /\ MissingAt(s, Len(s)) = Missing(s)
    BY LenProperties, MissingAtEnds
  <1>2. Missing(s) > 0 /\ Missing(s) \in Int
    BY <1>1, MissingType DEF Incomplete
  <1>3. ~(0 \in 0..(Len(s) - 1))
    BY <1>1, <1>2 DEF Whole
  <1>4. Len(s) = 0
    BY <1>1, <1>3
  <1>. QED
    BY <1>4, EmptySeq

\* Two terms, one of which starts with the other, are the same.
LEMMA SameTerm ==
    ASSUME NEW t \in Seq(SerialNode), NEW u \in Seq(SerialNode), OneTerm(t), OneTerm(t \o u)
    PROVE  u = <<>>
  <1>1. Len(t) \in Nat /\ Len(u) \in Nat /\ Len(t \o u) = Len(t) + Len(u)
    BY ConcatProperties, LenProperties
  <1>2. MissingAt(t \o u, Len(t)) = 0
    BY <1>1, MissingAtFirst, MissingAtEnds DEF OneTerm
  <1>3. ~(Len(t) \in 0..(Len(t \o u) - 1))
    BY <1>2 DEF OneTerm
  <1>4. Len(u) = 0
    BY <1>1, <1>3
  <1>. QED
    BY <1>4, EmptySeq

(* The inductive invariant ----------------------------------------------- *)

Typed ==
    /\ pc \in 1..(Len(Script) + 1)
    /\ todo \in Seq(SerialNode) /\ stdout \in Seq(SerialNode) /\ draining \in BOOLEAN
    /\ received \in Seq(SerialNode) /\ got \in Seq(SerialNode) /\ reply \in Seq(SerialNode)
    /\ responses \in Seq(Seq(SerialNode)) /\ answers \in Seq(Seq(SerialNode))
    /\ handled \in Seq(Seq(SerialNode))
    /\ toFront \in Seq(SerialNode) /\ toBack \in Seq(SerialNode)
    /\ back \in {"up", "exited", "crashed"}
    /\ front \in {"read", "ask", "write", "exited", "died"}

\* The buffers, and that nothing is left in those of a process that is gone.
Buffers ==
    /\ Len(stdout) <= BufferSize
    /\ Len(toFront) <= PipeSize /\ Len(toBack) <= PipeSize
    /\ draining => stdout # <<>>
    /\ front = "write" <=> FrontUp /\ reply # <<>>
    /\ back # "up" => todo = <<>> /\ stdout = <<>> /\ ~draining
    /\ back = "exited" => pc = Len(Script) + 1

\* Both programs have read whole terms, and part of the next one.
WholeTerms ==
    /\ \A k \in 1..Len(responses) : OneTerm(responses[k])
    /\ \A k \in 1..Len(answers) : OneTerm(answers[k])
    /\ Incomplete(got) /\ Incomplete(received)
    /\ (\E j \in 1..(pc - 1) : Script[j].op = "deserialize") => responses # <<>>

Shape == Typed /\ Buffers /\ WholeTerms

(* Steps ----------------------------------------------------------------- *)

\* The script is a sequence of operations, and what it serializes is typed.
LEMMA ScriptType ==
    /\ Len(Script) \in Nat /\ DOMAIN Script = 1..Len(Script)
    /\ \A k \in 1..Len(Script) : Script[k].op = "serialize" =>
          /\ Script[k].term \in Seq(SerialNode)
          /\ OneTerm(Script[k].term) /\ Script[k].term # <<EndOfFile>>
  <1>1. Len(Script) \in Nat /\ DOMAIN Script = 1..Len(Script)
    BY ScriptAssumption, LenProperties
  <1>2. ASSUME NEW k \in 1..Len(Script), Script[k].op = "serialize"
        PROVE  /\ Script[k].term \in Seq(SerialNode)
               /\ OneTerm(Script[k].term) /\ Script[k].term # <<EndOfFile>>
    <2>1. Script[k] \in Op
      BY ScriptAssumption, ElementOfSeq
    <2>2. Script[k].term \in Seq(Node)
      BY <1>2, <2>1 DEF Op
    <2>3. Node \subseteq SerialNode
      BY DEF Node, SerialNode, Names
    <2>4. Script[k].term \in Seq(SerialNode)
      BY <2>2, <2>3, SeqMonotonic
    <2>6. OneTerm(Script[k].term) /\ Script[k].term # <<EndOfFile>>
      BY <1>1, <1>2, ScriptAssumption
    <2>. QED
      BY <2>4, <2>6
  <1>. QED
    BY <1>1, <1>2

\* A process reads the node at the head of a pipe.
LEMMA PipeHead ==
    ASSUME NEW pipe \in Seq(SerialNode), pipe # <<>>
    PROVE  /\ Head(pipe) \in SerialNode
           /\ Tail(pipe) \in Seq(SerialNode) /\ Len(Tail(pipe)) = Len(pipe) - 1
  BY HeadTailProperties

\* Before a process has read anything it has not read a term.
LEMMA NothingYet == Incomplete(<<>>)
  <1>1. <<>> \in Seq(SerialNode) /\ Len(<<>>) = 0
    OBVIOUS
  <1>2. MissingAt(<<>>, 0) = 1
    BY <1>1, MissingAtEnds
  <1>. QED
    BY <1>1, <1>2 DEF Incomplete

\* deserialize_data takes a node from a pipe: then it has read a term, or it still
\* has not.
LEMMA TakeNode ==
    ASSUME NEW s \in Seq(SerialNode), Incomplete(s),
           NEW pipe \in Seq(SerialNode), pipe # <<>>
    PROVE  LET nodes == Append(s, Head(pipe))
           IN  /\ nodes \in Seq(SerialNode)
               /\ Complete(nodes) => OneTerm(nodes)
               /\ ~Complete(nodes) => Incomplete(nodes)
  <1> DEFINE x == Head(pipe)
             nodes == Append(s, x)
  <1>1. x \in SerialNode
    BY PipeHead
  <1> HIDE DEF x
  <1>. QED
    BY <1>1, ReadNode DEF x

\* One more term in a list of terms.
LEMMA OneMore ==
    ASSUME NEW s \in Seq(Seq(SerialNode)), \A k \in 1..Len(s) : OneTerm(s[k]),
           NEW t \in Seq(SerialNode), OneTerm(t)
    PROVE  /\ Append(s, t) \in Seq(Seq(SerialNode)) /\ Append(s, t) # <<>>
           /\ \A k \in 1..Len(Append(s, t)) : OneTerm(Append(s, t)[k])
  <1>1. /\ Append(s, t) \in Seq(Seq(SerialNode)) /\ Append(s, t) # <<>>
        /\ Len(Append(s, t)) = Len(s) + 1
        /\ \A i \in 1..Len(s) : Append(s, t)[i] = s[i]
        /\ Append(s, t)[Len(s) + 1] = t
    BY AppendProperties
  <1>2. ASSUME NEW k \in 1..(Len(s) + 1)
        PROVE  OneTerm(Append(s, t)[k])
    <2>1. CASE k = Len(s) + 1
      BY <1>1, <2>1
    <2>2. CASE k # Len(s) + 1
      <3>1. k \in 1..Len(s)
        BY <2>2, LenProperties
      <3>2. Append(s, t)[k] = s[k]
        BY <1>1, <3>1
      <3>. QED
        BY <3>1, <3>2
    <2>. QED
      BY <2>1, <2>2
  <1>. QED
    BY <1>1, <1>2

\* The operation back does next is one of the script.
LEMMA NextOperation ==
    ASSUME Typed, NEW name, Does(name)
    PROVE  /\ pc \in 1..Len(Script) /\ pc + 1 \in 1..(Len(Script) + 1)
           /\ Script[pc].op = name /\ Performs(pc, name)
           /\ (pc + 1) - 1 = pc
           /\ \A j \in 1..((pc + 1) - 1) : j = pc \/ j \in 1..(pc - 1)
  BY ScriptType DEF Does, Typed, Performs

\* A term back serializes, and the Output it echoes, are terms other than
\* EndOfFile.
LEMMA NewTerm ==
    ASSUME Shape
    PROVE  /\ BackSerialize => todo' \in Seq(SerialNode) /\ OneTerm(todo') /\ todo'[1] # EndOfFile
           /\ BackEcho => /\ todo' \in Seq(SerialNode) /\ OneTerm(todo')
                          /\ todo'[1].sort = "term" /\ todo'[1].name = "Output"
  <1>1. ASSUME BackSerialize
        PROVE  todo' \in Seq(SerialNode) /\ OneTerm(todo') /\ todo'[1] # EndOfFile
    <2> DEFINE t == Script[pc].term
    <2>1. t \in Seq(SerialNode) /\ OneTerm(t) /\ t # <<EndOfFile>>
      BY <1>1, ScriptType, NextOperation DEF Shape, BackSerialize
    <2>2. todo' = t
      BY <1>1 DEF BackSerialize
    <2> HIDE DEF t
    <2>3. t[1] # EndOfFile
      <3> SUFFICES ASSUME t[1] = EndOfFile PROVE FALSE
        OBVIOUS
      <3> DEFINE u == Tail(t)
      <3>1. t # <<>> /\ t = <<t[1]>> \o u /\ u \in Seq(SerialNode)
        <4>1. t # <<>>
          BY <2>1, OneTermNonempty
        <4>2. u \in Seq(SerialNode) /\ Head(t) = t[1]
          BY <2>1, <4>1, HeadTailProperties
        <4>. QED
          BY <2>1, <4>1, <4>2
      <3>2. EndOfFile \in SerialNode /\ EndOfFile.args = 0
        BY NodesAre
      <3>3. <<EndOfFile>> \in Seq(SerialNode) /\ OneTerm(<<EndOfFile>>)
        <4> DEFINE e == EndOfFile
        <4>1. e \in SerialNode /\ e.args = 0
          BY <3>2
        <4> HIDE DEF e
        <4>2. <<e>> \in Seq(SerialNode) /\ Len(<<e>>) = 1
          BY <4>1
        <4>3. Missing(<<e>>) = 0 /\ MissingAt(<<e>>, 0) = 1
          BY <4>1, <4>2, MissingOne, MissingAtEnds
        <4>4. OneTerm(<<e>>)
          BY <4>2, <4>3 DEF OneTerm
        <4>. QED
          BY <4>2, <4>4 DEF e
      <3>4. t = <<EndOfFile>> \o u
        BY <3>1
      <3>5. u = <<>>
        <4> HIDE DEF u
        <4>1. OneTerm(<<EndOfFile>> \o u)
          BY <2>1, <3>4, Zenon
        <4>. QED
          BY <3>1, <3>3, <4>1, SameTerm, Zenon
      <3>6. <<EndOfFile>> \o <<>> = <<EndOfFile>>
        BY <3>3, ConcatEmptySeq, Zenon
      <3>7. t = <<EndOfFile>>
        BY <3>4, <3>5, <3>6, Zenon
      <3>. QED
        BY <2>1, <3>7
    <2>. QED
      BY <2>1, <2>2, <2>3
  <1>2. ASSUME BackEcho
        PROVE  /\ todo' \in Seq(SerialNode) /\ OneTerm(todo')
               /\ todo'[1].sort = "term" /\ todo'[1].name = "Output"
    <2>1. pc \in DOMAIN Script /\ Script[pc].op = "echo"
      BY <1>2, ScriptType, NextOperation DEF Shape, BackEcho
    <2>2. responses # <<>>
      BY <2>1, ScriptAssumption DEF Shape, WholeTerms
    <2> DEFINE r == Last(responses)
    <2>3. r \in Seq(SerialNode) /\ OneTerm(r)
      <3>1. Len(responses) \in 1..Len(responses)
        BY <2>2, LenProperties, EmptySeq DEF Shape, Typed
      <3>. QED
        BY <3>1, ElementOfSeq DEF Shape, Typed, WholeTerms, Last
    <2> HIDE DEF r
    <2>4. todo' = Output(r)
      BY <1>2 DEF BackEcho, r
    <2>. QED
      BY <2>3, <2>4, OutputOneTerm
  <1>. QED
    BY <1>1, <1>2

(* Every step keeps the shape of the state -------------------------------- *)

\* back starts to serialize a term of the script.
LEMMA ShapeBackSerialize == Shape /\ BackSerialize => Shape'
  <1> SUFFICES ASSUME Shape, BackSerialize PROVE Shape'
    OBVIOUS
  <1>1. Typed'
    BY NextOperation, NewTerm DEF Shape, Typed, BackSerialize, frontVars
  <1>2. Buffers'
    BY DEF Shape, Buffers, BackSerialize, Does, FrontUp, frontVars
  <1>3. WholeTerms'
    BY NextOperation DEF Shape, WholeTerms, BackSerialize, frontVars
  <1>. QED
    BY <1>1, <1>2, <1>3 DEF Shape

\* back starts to serialize the Output that echoes a response.
LEMMA ShapeBackEcho == Shape /\ BackEcho => Shape'
  <1> SUFFICES ASSUME Shape, BackEcho PROVE Shape'
    OBVIOUS
  <1>1. Typed'
    BY NextOperation, NewTerm DEF Shape, Typed, BackEcho, frontVars
  <1>2. Buffers'
    BY DEF Shape, Buffers, BackEcho, Does, FrontUp, frontVars
  <1>3. WholeTerms'
    BY NextOperation DEF Shape, WholeTerms, BackEcho, frontVars
  <1>. QED
    BY <1>1, <1>2, <1>3 DEF Shape

\* A node goes to the buffer of std::cout, which is not full, or the buffer is
\* written first.
LEMMA ShapeBackBuffer == Shape /\ BackBuffer => Shape'
  <1> SUFFICES ASSUME Shape, BackBuffer PROVE Shape'
    OBVIOUS
  <1>1. /\ todo # <<>> /\ Head(todo) \in SerialNode /\ Tail(todo) \in Seq(SerialNode)
        /\ Append(stdout, Head(todo)) \in Seq(SerialNode)
        /\ Len(Append(stdout, Head(todo))) = Len(stdout) + 1
        /\ Len(stdout) \in Nat
    BY HeadTailProperties, AppendProperties, LenProperties DEF Shape, Typed, BackBuffer
  <1>2. Typed'
    BY <1>1 DEF Shape, Typed, BackBuffer, frontVars
  <1>3. Len(stdout') <= BufferSize
    <2>1. CASE Len(stdout) < BufferSize
      <3>1. stdout' = Append(stdout, Head(todo))
        BY <2>1 DEF BackBuffer
      <3>. QED
        BY <1>1, <2>1, <3>1, InteropAssumption
    <2>2. CASE ~(Len(stdout) < BufferSize)
      BY <2>2 DEF BackBuffer, Shape, Buffers
    <2>. QED
      BY <2>1, <2>2
  <1>4. draining' => stdout' # <<>>
    <2>1. CASE Len(stdout) < BufferSize
      BY <2>1 DEF BackBuffer
    <2>2. CASE ~(Len(stdout) < BufferSize)
      <3>1. stdout' = stdout /\ Len(stdout) > 0
        BY <1>1, <2>2, InteropAssumption DEF BackBuffer
      <3>. QED
        BY <3>1
    <2>. QED
      BY <2>1, <2>2
  <1>5. Buffers'
    BY <1>3, <1>4 DEF Shape, Buffers, BackBuffer, FrontUp, frontVars
  <1>6. WholeTerms'
    BY DEF Shape, WholeTerms, BackBuffer, frontVars
  <1>. QED
    BY <1>2, <1>5, <1>6 DEF Shape

\* back flushes std::cout.
LEMMA ShapeBackFlush == Shape /\ BackFlush => Shape'
  <1> SUFFICES ASSUME Shape, BackFlush PROVE Shape'
    OBVIOUS
  <1>1. Typed'
    BY NextOperation DEF Shape, Typed, BackFlush, StartDraining, frontVars
  <1>2. Buffers'
    BY DEF Shape, Buffers, BackFlush, StartDraining, Does, FrontUp, frontVars
  <1>3. WholeTerms'
    BY NextOperation DEF Shape, WholeTerms, BackFlush, frontVars
  <1>. QED
    BY <1>1, <1>2, <1>3 DEF Shape

\* A node is appended to a pipe.
LEMMA PipeAppend ==
    ASSUME NEW pipe \in Seq(SerialNode), NEW x \in SerialNode
    PROVE  Append(pipe, x) \in Seq(SerialNode) /\ Len(Append(pipe, x)) = Len(pipe) + 1
  BY AppendProperties

\* back writes a node of its buffer to the pipe, which is not full.
LEMMA ShapeBackDrain == Shape /\ BackDrain => Shape'
  <1> SUFFICES ASSUME Shape, BackDrain PROVE Shape'
    OBVIOUS
  <1>1. /\ stdout # <<>> /\ Head(stdout) \in SerialNode /\ Tail(stdout) \in Seq(SerialNode)
        /\ Len(Tail(stdout)) = Len(stdout) - 1 /\ Len(stdout) \in Nat
    BY HeadTailProperties, LenProperties DEF Shape, Typed, Buffers, BackDrain
  <1>2. toFront \in Seq(SerialNode) /\ Len(toFront) \in Nat
    BY LenProperties DEF Shape, Typed
  <1>3. toFront' \in Seq(SerialNode) /\ Len(toFront') = Len(toFront) + 1
    BY <1>1, <1>2, PipeAppend DEF BackDrain
  <1>4. Typed'
    BY <1>1, <1>3 DEF Shape, Typed, BackDrain, frontVars
  <1>5. Len(stdout') <= BufferSize
    BY <1>1, InteropAssumption DEF Shape, Buffers, BackDrain
  <1>6. Len(toFront') <= PipeSize
    BY <1>2, <1>3, InteropAssumption DEF BackDrain
  <1>7. Buffers'
    <2>1. back' = "up" /\ draining' = (stdout' # <<>>)
      BY DEF BackDrain
    <2>. QED
      BY <1>5, <1>6, <2>1 DEF Shape, Buffers, BackDrain, FrontUp, frontVars
  <1>8. WholeTerms'
    BY DEF Shape, WholeTerms, BackDrain, frontVars
  <1>. QED
    BY <1>4, <1>7, <1>8 DEF Shape

\* back ends, and its buffer with it.
LEMMA ShapeBackGone ==
    ASSUME Shape, NEW how \in {"exited", "crashed"},
           how = "exited" => pc = Len(Script) + 1, BackGone(how)
    PROVE  Shape'
  <1>1. Typed'
    <2>1. back' \in {"up", "exited", "crashed"} /\ <<>> \in Seq(SerialNode)
      BY DEF BackGone
    <2>. QED
      BY <2>1 DEF Shape, Typed, BackGone, frontVars
  <1>2. Len(<<>>) <= BufferSize
    BY InteropAssumption
  <1>3. Buffers'
    BY <1>2 DEF Shape, Buffers, BackGone, FrontUp, frontVars
  <1>4. WholeTerms'
    BY DEF Shape, WholeTerms, BackGone, frontVars
  <1>. QED
    BY <1>1, <1>3, <1>4 DEF Shape

\* back ends normally, is killed, breaks on the pipe nobody reads, or dies of what
\* is left of a response.
LEMMA ShapeBackEnds ==
    ASSUME Shape
    PROVE  /\ BackExit => Shape'
           /\ BackBrokenPipe => Shape'
           /\ BackCrash => Shape'
           /\ BackReadThrows => Shape'
  <1>1. ASSUME BackExit PROVE Shape'
    <2>1. BackGone("exited") /\ pc > Len(Script)
      BY <1>1 DEF BackExit, ReadyToExit
    <2>2. pc = Len(Script) + 1
      <3>1. pc \in 1..(Len(Script) + 1) /\ Len(Script) \in Nat
        BY ScriptType DEF Shape, Typed
      <3>. QED
        BY <2>1, <3>1
    <2>. QED
      BY <2>1, <2>2, ShapeBackGone
  <1>2. BackBrokenPipe \/ BackCrash \/ BackReadThrows => BackGone("crashed")
    BY DEF BackBrokenPipe, BackCrash, BackReadThrows
  <1>3. BackGone("crashed") => Shape'
    BY ShapeBackGone
  <1>. QED
    BY <1>1, <1>2, <1>3

\* The buffer is written once more before back exits.
LEMMA ShapeBackLastFlush == Shape /\ BackLastFlush => Shape'
  <1> SUFFICES ASSUME Shape, BackLastFlush PROVE Shape'
    OBVIOUS
  <1>1. Typed'
    BY DEF Shape, Typed, BackLastFlush, frontVars
  <1>2. Buffers'
    BY DEF Shape, Buffers, BackLastFlush, FrontUp, frontVars
  <1>3. WholeTerms'
    BY DEF Shape, WholeTerms, BackLastFlush, frontVars
  <1>. QED
    BY <1>1, <1>2, <1>3 DEF Shape

\* What back has of a response when it waits for one, and what it makes of the next
\* node in the pipe.
LEMMA ResponseNode ==
    ASSUME Shape, BackRead
    PROVE  LET nodes == Append(received, Head(toBack))
           IN  /\ toBack \in Seq(SerialNode) /\ toBack # <<>> /\ Head(toBack) \in SerialNode
               /\ toBack' = Tail(toBack) /\ toBack' \in Seq(SerialNode)
               /\ Len(toBack') = Len(toBack) - 1 /\ Len(toBack) \in Nat
               /\ nodes \in Seq(SerialNode)
               /\ Complete(nodes) => OneTerm(nodes)
               /\ ~Complete(nodes) => Incomplete(nodes)
  <1>1. /\ received \in Seq(SerialNode) /\ Incomplete(received)
        /\ toBack \in Seq(SerialNode) /\ toBack # <<>> /\ toBack' = Tail(toBack)
    BY DEF Shape, Typed, WholeTerms, BackRead
  <1>2. Len(toBack) \in Nat
    BY <1>1, LenProperties
  <1>. QED
    BY <1>1, <1>2, PipeHead, TakeNode

\* back takes a node of the response from the pipe.
LEMMA ShapeBackRead == Shape /\ BackRead => Shape'
  <1> SUFFICES ASSUME Shape, BackRead PROVE Shape'
    OBVIOUS
  <1> DEFINE nodes == Append(received, Head(toBack))
  <1>1. /\ toBack' \in Seq(SerialNode)
        /\ Len(toBack') = Len(toBack) - 1 /\ Len(toBack) \in Nat
        /\ nodes \in Seq(SerialNode)
        /\ Complete(nodes) => OneTerm(nodes)
        /\ ~Complete(nodes) => Incomplete(nodes)
    BY ResponseNode
  <1>2. Complete(nodes) => /\ received' = <<>> /\ responses' = Append(responses, nodes)
                           /\ pc' = pc + 1
    BY DEF BackRead
  <1>3. ~Complete(nodes) => received' = nodes /\ responses' = responses /\ pc' = pc
    BY DEF BackRead
  <1> HIDE DEF nodes
  <1>4. Complete(nodes) => /\ responses' \in Seq(Seq(SerialNode)) /\ responses' # <<>>
                           /\ \A k \in 1..Len(responses') : OneTerm(responses'[k])
    <2>1. responses \in Seq(Seq(SerialNode)) /\ \A k \in 1..Len(responses) : OneTerm(responses[k])
      BY DEF Shape, Typed, WholeTerms
    <2>. QED
      BY <1>1, <1>2, <2>1, OneMore
  <1>5. pc + 1 \in 1..(Len(Script) + 1)
    BY NextOperation DEF Shape, BackRead
  <1>6. <<>> \in Seq(SerialNode) /\ Incomplete(<<>>)
    BY NothingYet
  <1>7. Typed'
    BY <1>1, <1>2, <1>3, <1>4, <1>5, <1>6 DEF Shape, Typed, BackRead, frontVars
  <1>8. Buffers'
    <2>1. Len(toBack') <= PipeSize
      BY <1>1, InteropAssumption DEF Shape, Buffers
    <2>. QED
      BY <2>1 DEF Shape, Buffers, BackRead, Does, FrontUp, frontVars
  <1>9. WholeTerms'
    BY <1>1, <1>2, <1>3, <1>4, <1>6 DEF Shape, WholeTerms, BackRead, frontVars
  <1>. QED
    BY <1>7, <1>8, <1>9 DEF Shape

\* back finds the end of its input, and makes a term of what it has.
LEMMA ShapeBackReadEof == Shape /\ BackReadEof => Shape'
  <1> SUFFICES ASSUME Shape, BackReadEof PROVE Shape'
    OBVIOUS
  <1> DEFINE t == AtEndOfStream(received)
  <1>1. /\ responses' = Append(responses, t) /\ received' = <<>> /\ pc' = pc + 1
        /\ UNCHANGED <<todo, stdout, draining, back, toFront, toBack, frontVars>>
        /\ back = "up"
    BY DEF BackReadEof, Does
  <1>2. t \in Seq(SerialNode) /\ OneTerm(t)
    BY EndOfStreamOneTerm DEF Shape, Typed, WholeTerms
  <1> HIDE DEF t
  <1>3. /\ responses' \in Seq(Seq(SerialNode)) /\ responses' # <<>>
        /\ \A k \in 1..Len(responses') : OneTerm(responses'[k])
    <2>1. responses \in Seq(Seq(SerialNode)) /\ \A k \in 1..Len(responses) : OneTerm(responses[k])
      BY DEF Shape, Typed, WholeTerms
    <2>. QED
      BY <1>1, <1>2, <2>1, OneMore
  <1>4. pc + 1 \in 1..(Len(Script) + 1)
    BY NextOperation DEF Shape, BackReadEof
  <1>5. <<>> \in Seq(SerialNode) /\ Incomplete(<<>>)
    BY NothingYet
  <1>6. Typed'
    BY <1>1, <1>3, <1>4, <1>5 DEF Shape, Typed, frontVars
  <1>7. Buffers'
    BY <1>1 DEF Shape, Buffers, FrontUp, frontVars
  <1>8. WholeTerms'
    BY <1>1, <1>3, <1>5 DEF Shape, WholeTerms, frontVars
  <1>. QED
    BY <1>6, <1>7, <1>8 DEF Shape

\* What front makes of the next node of the stream.
LEMMA ValueNode ==
    ASSUME Shape, FrontRead
    PROVE  LET nodes == Append(got, Head(toFront))
           IN  /\ toFront \in Seq(SerialNode) /\ toFront # <<>> /\ Head(toFront) \in SerialNode
               /\ toFront' = Tail(toFront) /\ toFront' \in Seq(SerialNode)
               /\ Len(toFront') = Len(toFront) - 1 /\ Len(toFront) \in Nat
               /\ nodes \in Seq(SerialNode)
               /\ Complete(nodes) => OneTerm(nodes)
               /\ ~Complete(nodes) => Incomplete(nodes)
  <1>1. /\ got \in Seq(SerialNode) /\ Incomplete(got)
        /\ toFront \in Seq(SerialNode) /\ toFront # <<>> /\ toFront' = Tail(toFront)
    BY DEF Shape, Typed, WholeTerms, FrontRead
  <1>2. Len(toFront) \in Nat
    BY <1>1, LenProperties
  <1>. QED
    BY <1>1, <1>2, PipeHead, TakeNode

\* One turn of front's loop with a value of whole terms.
LEMMA ShapeHandleValue ==
    ASSUME Shape, front = "read", NEW value \in Seq(SerialNode), HandleValue(value),
           UNCHANGED <<backVars, toBack>>,
           toFront' \in Seq(SerialNode), Len(toFront') <= PipeSize
    PROVE  Shape'
  <1>1. /\ got' = <<>> /\ handled' = Append(handled, value) /\ reply' = reply /\ answers' = answers
        /\ front' \in {"exited", "ask", "read"}
    BY DEF HandleValue
  <1>2. <<>> \in Seq(SerialNode) /\ Incomplete(<<>>)
    BY NothingYet
  <1>3. handled' \in Seq(Seq(SerialNode))
    BY <1>1, AppendProperties DEF Shape, Typed
  <1>4. Typed'
    BY <1>1, <1>2, <1>3 DEF Shape, Typed, backVars
  <1>5. reply = <<>>
    BY DEF Shape, Buffers, FrontUp
  <1>6. Buffers'
    BY <1>1, <1>5 DEF Shape, Buffers, FrontUp, backVars
  <1>7. WholeTerms'
    BY <1>1, <1>2 DEF Shape, WholeTerms, backVars
  <1>. QED
    BY <1>4, <1>6, <1>7 DEF Shape

\* front takes a node of the stream from the pipe.
LEMMA ShapeFrontRead == Shape /\ FrontRead => Shape'
  <1> SUFFICES ASSUME Shape, FrontRead PROVE Shape'
    OBVIOUS
  <1> DEFINE nodes == Append(got, Head(toFront))
  <1>1. /\ toFront' \in Seq(SerialNode)
        /\ Len(toFront') = Len(toFront) - 1 /\ Len(toFront) \in Nat
        /\ nodes \in Seq(SerialNode)
        /\ ~Complete(nodes) => Incomplete(nodes)
    BY ValueNode
  <1>2. front = "read" /\ UNCHANGED <<backVars, toBack>>
    BY DEF FrontRead
  <1>3. Len(toFront') <= PipeSize
    BY <1>1, InteropAssumption DEF Shape, Buffers
  <1>4. CASE Complete(nodes)
    <2>1. HandleValue(nodes)
      BY <1>4 DEF FrontRead
    <2> HIDE DEF nodes
    <2>. QED
      BY <1>1, <1>2, <1>3, <2>1, ShapeHandleValue
  <1>5. CASE ~Complete(nodes)
    <2>1. got' = nodes /\ UNCHANGED <<reply, answers, handled, front>>
      BY <1>5 DEF FrontRead
    <2> HIDE DEF nodes
    <2>2. Typed'
      BY <1>1, <1>2, <2>1 DEF Shape, Typed, backVars
    <2>3. Buffers'
      BY <1>2, <1>3, <2>1 DEF Shape, Buffers, FrontUp, backVars
    <2>4. WholeTerms'
      BY <1>1, <1>2, <1>5, <2>1 DEF Shape, WholeTerms, backVars
    <2>. QED
      BY <2>2, <2>3, <2>4 DEF Shape
  <1>. QED
    BY <1>4, <1>5

\* What front makes of the end of the stream.
LEMMA LastValue ==
    ASSUME Shape
    PROVE  LET t == AtEndOfStream(got)
           IN  /\ t \in Seq(SerialNode) /\ OneTerm(t)
               /\ got # <<>> => t[1] = got[1]
               /\ got = <<>> => t = <<EndOfFile>>
  BY EndOfStreamOneTerm DEF Shape, Typed, WholeTerms

\* front finds the end of its input, and makes a term of what it has.
LEMMA ShapeFrontReadEof == Shape /\ FrontReadEof => Shape'
  <1> SUFFICES ASSUME Shape, FrontReadEof PROVE Shape'
    OBVIOUS
  <1> DEFINE t == AtEndOfStream(got)
  <1>1. /\ front = "read" /\ UNCHANGED <<backVars, toBack>> /\ HandleValue(t)
        /\ toFront' = toFront
    BY DEF FrontReadEof
  <1>2. t \in Seq(SerialNode)
    BY LastValue
  <1> HIDE DEF t
  <1>3. toFront' \in Seq(SerialNode) /\ Len(toFront') <= PipeSize
    BY <1>1 DEF Shape, Typed, Buffers
  <1>. QED
    BY <1>1, <1>2, <1>3, ShapeHandleValue

\* The reply front is about to write is an Array of what the user typed.
LEMMA NewReply ==
    ASSUME Shape, NEW line \in Lines, UserAnswers(line)
    PROVE  /\ reply' \in Seq(SerialNode) /\ OneTerm(reply') /\ reply' # <<>>
           /\ answers' = Append(answers, reply') /\ front = "ask" /\ front' = "write"
  <1>1. reply' = ArrayFromString(line) /\ answers' = Append(answers, reply') /\ front = "ask" /\ front' = "write"
    BY DEF UserAnswers, FlushReply
  <1>2. line \in Seq(Char)
    BY InteropAssumption
  <1>3. reply' \in Seq(SerialNode) /\ OneTerm(reply')
    BY <1>1, <1>2, ArrayOneTerm
  <1>. QED
    BY <1>1, <1>3, OneTermNonempty

\* The user enters a line.
LEMMA ShapeUserAnswers ==
    ASSUME NEW line \in Lines
    PROVE  Shape /\ UserAnswers(line) => Shape'
  <1> SUFFICES ASSUME Shape, UserAnswers(line) PROVE Shape'
    OBVIOUS
  <1>1. /\ reply' \in Seq(SerialNode) /\ OneTerm(reply') /\ reply' # <<>>
        /\ answers' = Append(answers, reply') /\ front = "ask" /\ front' = "write"
    BY NewReply
  <1>2. UNCHANGED <<got, handled, backVars, toFront, toBack>>
    BY DEF UserAnswers
  <1>3. /\ answers' \in Seq(Seq(SerialNode))
        /\ \A k \in 1..Len(answers') : OneTerm(answers'[k])
    BY <1>1, OneMore DEF Shape, Typed, WholeTerms
  <1>4. Typed'
    BY <1>1, <1>2, <1>3 DEF Shape, Typed, backVars
  <1>5. Buffers'
    BY <1>1, <1>2 DEF Shape, Buffers, FrontUp, backVars
  <1>6. WholeTerms'
    BY <1>2, <1>3 DEF Shape, WholeTerms, backVars
  <1>. QED
    BY <1>4, <1>5, <1>6 DEF Shape

\* front writes a node of its reply to the pipe, which is not full.
LEMMA ShapeFrontWrite == Shape /\ FrontWrite => Shape'
  <1> SUFFICES ASSUME Shape, FrontWrite PROVE Shape'
    OBVIOUS
  <1>1. /\ front = "write" /\ back = "up" /\ Len(toBack) < PipeSize /\ FrontUp /\ reply # <<>>
        /\ UNCHANGED <<got, answers, handled, backVars, toFront>>
        /\ toBack' = Append(toBack, Head(reply)) /\ reply' = Tail(reply)
        /\ front' = IF reply' = <<>> THEN "read" ELSE "write"
    BY DEF FrontWrite, Shape, Buffers, FrontUp
  <1>2. Head(reply) \in SerialNode /\ Tail(reply) \in Seq(SerialNode)
    BY <1>1, HeadTailProperties DEF Shape, Typed
  <1>3. toBack \in Seq(SerialNode) /\ Len(toBack) \in Nat
    BY LenProperties DEF Shape, Typed
  <1>4. toBack' \in Seq(SerialNode) /\ Len(toBack') = Len(toBack) + 1
    BY <1>1, <1>2, <1>3, PipeAppend
  <1>5. Typed'
    BY <1>1, <1>2, <1>4 DEF Shape, Typed, backVars
  <1>6. Len(toBack') <= PipeSize
    BY <1>1, <1>3, <1>4, InteropAssumption
  <1>7. Buffers'
    <2>1. front' = "write" <=> FrontUp' /\ reply' # <<>>
      BY <1>1 DEF FrontUp
    <2>. QED
      BY <1>1, <1>6, <2>1 DEF Shape, Buffers, backVars
  <1>8. WholeTerms'
    BY <1>1 DEF Shape, WholeTerms, backVars
  <1>. QED
    BY <1>5, <1>7, <1>8 DEF Shape

\* front dies, and leaves the pipes as they are.
LEMMA ShapeFrontDies ==
    ASSUME Shape, front' = "died", reply' = <<>>,
           UNCHANGED <<got, answers, handled, backVars, toFront, toBack>>
    PROVE  Shape'
  <1>1. <<>> \in Seq(SerialNode)
    OBVIOUS
  <1>2. Typed'
    BY <1>1 DEF Shape, Typed, backVars
  <1>3. Buffers'
    BY DEF Shape, Buffers, FrontUp, backVars
  <1>4. WholeTerms'
    BY DEF Shape, WholeTerms, backVars
  <1>. QED
    BY <1>2, <1>3, <1>4 DEF Shape

\* front breaks on the pipe nobody reads, is killed, or dies of what is left of a
\* term.
LEMMA ShapeFrontEnds ==
    ASSUME Shape
    PROVE  /\ FrontBrokenPipe => Shape'
           /\ FrontCrash => Shape'
           /\ FrontReadThrows => Shape'
  <1>1. FrontBrokenPipe \/ FrontCrash
           => /\ front' = "died" /\ reply' = <<>>
              /\ UNCHANGED <<got, answers, handled, backVars, toFront, toBack>>
    BY DEF FrontBrokenPipe, FrontCrash
  <1>2. FrontReadThrows
           => /\ front' = "died" /\ reply' = <<>>
              /\ UNCHANGED <<got, answers, handled, backVars, toFront, toBack>>
    BY DEF FrontReadThrows, Shape, Buffers, FrontUp
  <1>. QED
    BY <1>1, <1>2, ShapeFrontDies

\* Every state of the two programs has this shape: whole terms were read and
\* answered, and neither program holds more than part of the next one.
LEMMA ShapeStep == Shape /\ [Next]_vars => Shape'
  <1> SUFFICES ASSUME Shape, [Next]_vars PROVE Shape'
    OBVIOUS
  <1>1. CASE BackStep
    BY <1>1, ShapeBackSerialize, ShapeBackEcho, ShapeBackBuffer, ShapeBackFlush, ShapeBackDrain,
       ShapeBackEnds, ShapeBackRead, ShapeBackReadEof, ShapeBackLastFlush DEF BackStep
  <1>2. CASE FrontStep
    BY <1>2, ShapeFrontRead, ShapeFrontReadEof, ShapeFrontWrite, ShapeFrontEnds DEF FrontStep
  <1>3. CASE \E line \in Lines : UserAnswers(line)
    BY <1>3, ShapeUserAnswers
  <1>4. CASE BackCrash \/ FrontCrash
    BY <1>4, ShapeBackEnds, ShapeFrontEnds
  <1>5. CASE Finished \/ UNCHANGED vars
    <2>1. UNCHANGED <<backVars, frontVars, toFront, toBack>>
      BY <1>5 DEF Finished, vars
    <2>2. Typed'
      BY <2>1 DEF backVars, frontVars, Shape, Typed
    <2>3. Buffers'
      BY <2>1 DEF backVars, frontVars, Shape, Buffers, FrontUp
    <2>4. WholeTerms'
      BY <2>1 DEF backVars, frontVars, Shape, WholeTerms
    <2>. QED
      BY <2>2, <2>3, <2>4 DEF Shape
  <1>. QED
    BY <1>1, <1>2, <1>3, <1>4, <1>5 DEF Next

\* The programs start with empty buffers.
LEMMA ShapeInit == Init => Shape
  <1> SUFFICES ASSUME Init PROVE Shape
    OBVIOUS
  <1>1. /\ <<>> \in Seq(SerialNode) /\ <<>> \in Seq(Seq(SerialNode))
        /\ 1 \in 1..(Len(Script) + 1) /\ Len(<<>>) = 0 /\ Incomplete(<<>>)
        /\ Len(Script) \in Nat
    BY ScriptType, NothingYet
  <1>2. Typed
    BY <1>1 DEF Init, Typed
  <1>3. Buffers
    BY <1>1, InteropAssumption DEF Init, Buffers, FrontUp
  <1>4. WholeTerms
    BY <1>1 DEF Init, WholeTerms
  <1>. QED
    BY <1>2, <1>3, <1>4 DEF Shape

\* The invariant TypeOK: pc is in the script, no buffer and no pipe holds more than
\* it can, and neither program holds on to a term it has read completely, for every
\* script and every size of the pipes and the buffer.
THEOREM TypeCorrect == Spec => []TypeOK
  <1>1. Shape => TypeOK
    <2> SUFFICES ASSUME Shape PROVE TypeOK
      OBVIOUS
    <2>1. ASSUME NEW s \in Seq(SerialNode), Incomplete(s)
          PROVE  Missing(s) > 0
      <3>1. Len(s) \in Nat
        BY LenProperties
      <3>2. MissingAt(s, Len(s)) > 0
        BY <2>1, <3>1 DEF Incomplete
      <3>. QED
        BY <3>1, <3>2, MissingAtEnds
    <2>2. Missing(got) > 0 /\ Missing(received) > 0
      BY <2>1 DEF Shape, Typed, WholeTerms
    <2>. QED
      BY <2>2 DEF Shape, Typed, Buffers, TypeOK
  <1>. QED
    BY <1>1, ShapeInit, ShapeStep, PTL DEF Spec

(* The stream ------------------------------------------------------------ *)

\* Moving a node from the head of one buffer to the end of the one before leaves
\* the stream as it is.
LEMMA MoveNode ==
    ASSUME NEW s \in Seq(SerialNode), NEW t \in Seq(SerialNode), NEW u \in Seq(SerialNode), t # <<>>
    PROVE  /\ Append(s, Head(t)) \o Tail(t) = s \o t
           /\ Append(s, Head(t)) \o (Tail(t) \o u) = s \o (t \o u)
  <1> DEFINE x == Head(t)
             v == Tail(t)
             a == Append(s, x)
  <1>1. x \in SerialNode /\ v \in Seq(SerialNode) /\ t = <<x>> \o v /\ <<x>> \in Seq(SerialNode)
    BY HeadTailProperties
  <1> HIDE DEF x, v
  <1>2. a = s \o <<x>> /\ a \in Seq(SerialNode)
    BY <1>1, AppendIsConcat, AppendProperties
  <1> HIDE DEF a
  <1>3. (s \o <<x>>) \o v = s \o (<<x>> \o v)
    BY <1>1, ConcatAssociative
  <1>4. a \o v = s \o t
    BY <1>1, <1>2, <1>3, Zenon
  <1>5. (a \o v) \o u = a \o (v \o u)
    BY SMTT(60), <1>1, <1>2, ConcatAssociative
  <1>6. (s \o t) \o u = s \o (t \o u)
    BY ConcatAssociative
  <1>7. a \o (v \o u) = s \o (t \o u)
    BY <1>4, <1>5, <1>6, Zenon
  <1>. QED
    BY <1>4, <1>7 DEF a, x, v

\* The buffers and their parts are sequences of nodes.
LEMMA StreamType ==
    ASSUME Shape
    PROVE  /\ got \in Seq(SerialNode) /\ toFront \in Seq(SerialNode) /\ stdout \in Seq(SerialNode)
           /\ todo \in Seq(SerialNode) /\ stdout \o todo \in Seq(SerialNode)
           /\ toFront \o (stdout \o todo) \in Seq(SerialNode) /\ InTransit \in Seq(SerialNode)
           /\ Len(InTransit) \in Nat /\ Missing(InTransit) \in Int
  <1>1. /\ got \in Seq(SerialNode) /\ toFront \in Seq(SerialNode) /\ stdout \in Seq(SerialNode)
        /\ todo \in Seq(SerialNode)
    BY DEF Shape, Typed
  <1>2. stdout \o todo \in Seq(SerialNode)
    BY <1>1, ConcatProperties
  <1>3. toFront \o (stdout \o todo) \in Seq(SerialNode)
    BY <1>1, <1>2, ConcatProperties
  <1>4. InTransit \in Seq(SerialNode)
    BY <1>1, <1>3, ConcatProperties DEF InTransit
  <1>. QED
    BY <1>1, <1>2, <1>3, <1>4, LenProperties, MissingType

\* The term that back starts to write is appended to the stream.
LEMMA StreamWritten ==
    ASSUME Shape, BackSerialize \/ BackEcho
    PROVE  /\ InTransit' = InTransit \o todo'
           /\ todo' \in Seq(SerialNode) /\ OneTerm(todo') /\ todo'[1] # EndOfFile
           /\ Asks(todo') => AsksAt(pc)
           /\ pc' = pc + 1 /\ Script[pc].op \in {"serialize", "echo"} /\ back = "up"
           /\ UNCHANGED <<frontVars, received, responses, back, toBack>>
           /\ todo' # <<>>
  <1>1. /\ todo = <<>> /\ pc' = pc + 1 /\ Script[pc].op \in {"serialize", "echo"} /\ back = "up"
        /\ UNCHANGED <<frontVars, received, responses, back, toFront, toBack, stdout>>
    BY DEF BackSerialize, BackEcho, Does
  <1>2. todo' \in Seq(SerialNode) /\ OneTerm(todo') /\ todo'[1] # EndOfFile
    BY NewTerm, NodesAre
  <1>3. Asks(todo') => AsksAt(pc)
    <2>1. CASE BackSerialize
      <3>1. todo' = Script[pc].term /\ Performs(pc, "serialize")
        BY <2>1, NextOperation DEF BackSerialize, Shape
      <3>. QED
        BY <3>1 DEF AsksAt
    <2>2. CASE BackEcho
      BY <2>2, NewTerm DEF Asks, IsRequest
    <2>. QED
      BY <2>1, <2>2
  <1>4. InTransit' = InTransit \o todo'
    <2> DEFINE t == todo'
    <2>1. t \in Seq(SerialNode)
      BY <1>2
    <2>2. InTransit' = got \o (toFront \o (stdout \o t))
      BY <1>1 DEF InTransit, frontVars
    <2> HIDE DEF t
    <2>3. /\ got \in Seq(SerialNode) /\ toFront \in Seq(SerialNode) /\ stdout \in Seq(SerialNode)
          /\ toFront \o stdout \in Seq(SerialNode)
      BY StreamType, ConcatProperties
    <2>4. stdout \o todo = stdout
      BY <1>1, <2>3, ConcatEmptySeq, Zenon
    <2>5. InTransit = got \o (toFront \o stdout)
      BY <2>4 DEF InTransit
    <2>6. (toFront \o stdout) \o t = toFront \o (stdout \o t)
      BY <2>1, <2>3, ConcatAssociative
    <2> DEFINE q == toFront \o stdout
    <2>7. q \in Seq(SerialNode)
      BY <2>3
    <2> HIDE DEF q
    <2>8. (got \o q) \o t = got \o (q \o t)
      BY SMTT(60), <2>1, <2>3, <2>7, ConcatAssociative
    <2>. QED
      BY <2>2, <2>5, <2>6, <2>8, Zenon DEF t, q
  <1>. QED
    BY <1>1, <1>2, <1>3, <1>4, StreamType, OneTermNonempty

\* Steps that neither begin nor end a term, and do not lose one: nodes move from
\* one buffer to the next, or the answer moves.
Moves ==
    \/ BackBuffer \/ BackFlush \/ BackDrain \/ BackRead \/ BackReadEof \/ BackLastFlush
    \/ FrontRead /\ ~Complete(Append(got, Head(toFront)))
    \/ FrontWrite
    \/ \E line \in Lines : UserAnswers(line)

\* The stream is the same after such a step.
LEMMA StreamMoves ==
    ASSUME Shape, Moves
    PROVE  InTransit' = InTransit
  <1>1. CASE BackBuffer
    <2>1. UNCHANGED <<got, toFront>>
      BY <1>1 DEF BackBuffer, frontVars
    <2>2. stdout' \o todo' = stdout \o todo
      <3>1. CASE Len(stdout) < BufferSize
        <4>1. stdout' = Append(stdout, Head(todo)) /\ todo' = Tail(todo) /\ todo # <<>>
          BY <1>1, <3>1 DEF BackBuffer
        <4>2. Append(stdout, Head(todo)) \o Tail(todo) = stdout \o todo
          BY <4>1, StreamType, MoveNode
        <4>. QED
          BY <4>1, <4>2, Zenon
      <3>2. CASE ~(Len(stdout) < BufferSize)
        BY <1>1, <3>2 DEF BackBuffer
      <3>. QED
        BY <3>1, <3>2
    <2>. QED
      BY <2>1, <2>2, Zenon DEF InTransit
  <1>2. CASE BackDrain
    <2>1. /\ UNCHANGED <<got, todo>> /\ stdout # <<>>
          /\ toFront' = Append(toFront, Head(stdout)) /\ stdout' = Tail(stdout)
      BY <1>2 DEF BackDrain, frontVars, Shape, Buffers
    <2>2. Append(toFront, Head(stdout)) \o (Tail(stdout) \o todo) = toFront \o (stdout \o todo)
      BY SMTT(60), <2>1, StreamType, MoveNode
    <2>. QED
      BY <2>1, <2>2, Zenon DEF InTransit
  <1>3. CASE FrontRead /\ ~Complete(Append(got, Head(toFront)))
    <2>1. /\ UNCHANGED <<stdout, todo>> /\ toFront # <<>>
          /\ got' = Append(got, Head(toFront)) /\ toFront' = Tail(toFront)
      BY <1>3, ValueNode DEF FrontRead, backVars
    <2> DEFINE w == stdout \o todo
    <2>2. got \in Seq(SerialNode) /\ toFront \in Seq(SerialNode) /\ w \in Seq(SerialNode)
      BY StreamType
    <2> HIDE DEF w
    <2>3. Append(got, Head(toFront)) \o (Tail(toFront) \o w) = got \o (toFront \o w)
      BY <2>1, <2>2, MoveNode
    <2>4. w' = w
      BY <2>1 DEF w
    <2>. QED
      BY <2>1, <2>3, <2>4, Zenon DEF InTransit, w
  <1>4. CASE BackFlush \/ BackRead \/ BackLastFlush \/ BackReadEof
    <2>1. UNCHANGED <<got, toFront, stdout, todo>>
      BY <1>4 DEF BackFlush, BackRead, BackLastFlush, BackReadEof, frontVars
    <2>. QED
      BY <2>1 DEF InTransit
  <1>5. CASE FrontWrite \/ \E line \in Lines : UserAnswers(line)
    <2>1. UNCHANGED <<got, toFront, stdout, todo>>
      BY <1>5 DEF FrontWrite, UserAnswers, backVars
    <2>. QED
      BY <2>1 DEF InTransit
  <1>. QED
    BY <1>1, <1>2, <1>3, <1>4, <1>5 DEF Moves

\* front takes the first term of the stream.
LEMMA StreamRead ==
    ASSUME Shape, FrontRead, Complete(Append(got, Head(toFront)))
    PROVE  LET t == Append(got, Head(toFront))
           IN  /\ InTransit = t \o InTransit' /\ InTransit' \in Seq(SerialNode)
               /\ t \in Seq(SerialNode) /\ OneTerm(t) /\ HandleValue(t)
  <1> DEFINE t == Append(got, Head(toFront))
             w == stdout \o todo
             u == toFront' \o w
  <1>1. /\ toFront # <<>> /\ toFront' = Tail(toFront) /\ toFront' \in Seq(SerialNode)
        /\ t \in Seq(SerialNode) /\ OneTerm(t)
    BY ValueNode
  <1>2. HandleValue(t) /\ UNCHANGED <<stdout, todo>>
    BY DEF FrontRead, backVars
  <1>3. got' = <<>>
    BY <1>2 DEF HandleValue
  <1>4. u \in Seq(SerialNode)
    BY <1>1, StreamType, ConcatProperties
  <1>5. Append(got, Head(toFront)) \o (Tail(toFront) \o w) = got \o (toFront \o w)
    <2>1. got \in Seq(SerialNode) /\ toFront \in Seq(SerialNode) /\ w \in Seq(SerialNode)
      BY StreamType
    <2>2. toFront # <<>>
      BY <1>1
    <2> HIDE DEF w
    <2>. QED
      BY <2>1, <2>2, MoveNode, Zenon
  <1>6. InTransit = t \o u
    BY <1>1, <1>5, Zenon DEF InTransit
  <1>7. InTransit' = u
    <2>1. InTransit' = <<>> \o u
      BY <1>2, <1>3 DEF InTransit
    <2> HIDE DEF u
    <2>. QED
      BY <1>4, <2>1, ConcatEmptySeq, Zenon
  <1> HIDE DEF t, u
  <1>8. InTransit = t \o InTransit' /\ InTransit' \in Seq(SerialNode)
    BY <1>4, <1>6, <1>7, Zenon
  <1>. QED
    BY <1>1, <1>2, <1>8 DEF t

\* One turn of front's loop ends it, or asks the user, or goes on reading.
LEMMA ValueHandled ==
    ASSUME NEW value, HandleValue(value)
    PROVE  /\ handled' = Append(handled, value) /\ got' = <<>> /\ UNCHANGED <<reply, answers>>
           /\ value = <<EndOfFile>> => front' = "exited" /\ value[1] = EndOfFile /\ ~Asks(value)
           /\ value # <<EndOfFile>> /\ Asks(value) => front' = "ask"
           /\ value # <<EndOfFile>> /\ ~Asks(value) => front' = "read"
  <1>1. value = <<EndOfFile>> => value[1] = EndOfFile /\ ~Asks(value)
    BY DEF EndOfFile, NP, IsRequest, Asks
  <1>2. handled' = Append(handled, value) /\ got' = <<>> /\ UNCHANGED <<reply, answers>>
    BY DEF HandleValue
  <1>3. front' = CASE value = <<EndOfFile>> -> "exited" [] Asks(value) -> "ask" [] OTHER -> "read"
    BY DEF HandleValue
  <1>4. value = <<EndOfFile>> => front' = "exited"
    BY <1>1, <1>3
  <1>5. value # <<EndOfFile>> /\ Asks(value) => front' = "ask"
    BY <1>3
  <1>6. value # <<EndOfFile>> /\ ~Asks(value) => front' = "read"
    BY <1>3
  <1>. QED
    BY <1>1, <1>2, <1>4, <1>5, <1>6

(* No term is lost ------------------------------------------------------- *)

\* As long as both programs run, what front has handled and the stream are the
\* terms back has written so far, and the stream ends where a term ends.
Counted ==
    /\ back # "crashed" /\ FrontUp
         => /\ Whole(InTransit) /\ NoEndOfFile(InTransit)
            /\ Len(handled) = Cardinality(WritesBefore(pc)) - (1 - Missing(InTransit))
    /\ front = "exited" => back # "up"
    /\ front = "exited" /\ back = "exited" => Len(handled) = 1 + Cardinality(WritesBefore(pc))

\* Serializing a term and echoing a response write one term each, flushing and
\* reading write none.
LEMMA CountWrites ==
    ASSUME NEW n \in Nat \ {0}
    PROVE  /\ Cardinality(WritesBefore(n)) \in Nat
           /\ Script[n].op \in {"serialize", "echo"}
                => Cardinality(WritesBefore(n + 1)) = Cardinality(WritesBefore(n)) + 1
           /\ Script[n].op \notin {"serialize", "echo"} => WritesBefore(n + 1) = WritesBefore(n)
  <1>1. IsFiniteSet(1..(n - 1))
    BY FS_Interval
  <1>2. IsFiniteSet(WritesBefore(n)) /\ Cardinality(WritesBefore(n)) \in Nat
    <2>1. WritesBefore(n) \in SUBSET (1..(n - 1))
      BY DEF WritesBefore
    <2>. QED
      BY <1>1, <2>1, FS_Subset, FS_CardinalityType
  <1>3. n \notin WritesBefore(n)
    BY DEF WritesBefore
  <1>4. ASSUME Script[n].op \in {"serialize", "echo"}
        PROVE  Cardinality(WritesBefore(n + 1)) = Cardinality(WritesBefore(n)) + 1
    <2>1. WritesBefore(n + 1) = WritesBefore(n) \cup {n}
      BY <1>4 DEF WritesBefore
    <2>. QED
      BY <1>2, <1>3, <2>1, FS_AddElement
  <1>5. ASSUME Script[n].op \notin {"serialize", "echo"}
        PROVE  WritesBefore(n + 1) = WritesBefore(n)
    <2>1. ASSUME NEW k \in WritesBefore(n + 1)
          PROVE  k \in WritesBefore(n)
      BY <1>5, <2>1 DEF WritesBefore
    <2>2. ASSUME NEW k \in WritesBefore(n)
          PROVE  k \in WritesBefore(n + 1)
      BY <2>2 DEF WritesBefore
    <2>. QED
      BY <2>1, <2>2
  <1>. QED
    BY <1>2, <1>4, <1>5

\* Steps that move nodes neither write nor handle a term, and end neither program.
LEMMA MovesKeep ==
    ASSUME Shape, Moves
    PROVE  /\ UNCHANGED <<handled, back>> /\ FrontUp' = FrontUp
           /\ (front' = "exited") = (front = "exited")
           /\ WritesBefore(pc') = WritesBefore(pc)
  <1>1. UNCHANGED <<handled, back>>
    BY DEF Moves, BackBuffer, BackFlush, BackDrain, BackRead, BackLastFlush, BackReadEof, FrontRead,
           FrontWrite, UserAnswers, HandleValue, frontVars, backVars
  <1>2. FrontUp' = FrontUp /\ (front' = "exited") = (front = "exited")
    BY DEF Moves, BackBuffer, BackFlush, BackDrain, BackRead, BackLastFlush, BackReadEof, FrontRead,
           FrontWrite, UserAnswers, FlushReply, frontVars, backVars, FrontUp
  <1>3. pc' = pc \/ (pc' = pc + 1 /\ Script[pc].op \in {"flush", "deserialize"})
    BY DEF Moves, BackBuffer, BackFlush, BackDrain, BackRead, BackLastFlush, BackReadEof, FrontRead,
           FrontWrite, UserAnswers, frontVars, backVars, Does
  <1>4. WritesBefore(pc') = WritesBefore(pc)
    <2>1. pc \in Nat \ {0}
      BY ScriptType DEF Shape, Typed
    <2>2. CASE pc' = pc
      BY <2>2
    <2>3. CASE pc' = pc + 1 /\ Script[pc].op \in {"flush", "deserialize"}
      BY <2>1, <2>3, CountWrites
    <2>. QED
      BY <1>3, <2>2, <2>3
  <1>. QED
    BY <1>1, <1>2, <1>4

\* back writes a term.
LEMMA CountedWritten ==
    ASSUME Shape, Counted, BackSerialize \/ BackEcho
    PROVE  Counted'
  <1>1. /\ InTransit' = InTransit \o todo'
        /\ todo' \in Seq(SerialNode) /\ OneTerm(todo') /\ todo'[1] # EndOfFile
        /\ pc' = pc + 1 /\ Script[pc].op \in {"serialize", "echo"} /\ back = "up"
        /\ UNCHANGED <<frontVars, back>>
    BY StreamWritten
  <1> DEFINE t == todo'
  <1>2. t \in Seq(SerialNode) /\ OneTerm(t) /\ t[1] # EndOfFile /\ InTransit' = InTransit \o t
    BY <1>1
  <1> HIDE DEF t
  <1>3. InTransit \in Seq(SerialNode) /\ Missing(InTransit) \in Int
    BY StreamType
  <1>4. /\ Missing(InTransit \o t) = Missing(InTransit) - 1
        /\ Whole(InTransit) => Whole(InTransit \o t)
        /\ NoEndOfFile(InTransit) => NoEndOfFile(InTransit \o t)
    BY <1>2, <1>3, TermWritten
  <1>5. pc \in Nat \ {0}
    BY ScriptType DEF Shape, Typed
  <1>6. /\ Cardinality(WritesBefore(pc)) \in Nat
        /\ Cardinality(WritesBefore(pc')) = Cardinality(WritesBefore(pc)) + 1
    BY <1>1, <1>5, CountWrites
  <1>7. /\ Missing(InTransit') = Missing(InTransit) - 1
        /\ Whole(InTransit) => Whole(InTransit')
        /\ NoEndOfFile(InTransit) => NoEndOfFile(InTransit')
    BY <1>2, <1>4, Zenon
  <1>8. ASSUME FrontUp
        PROVE  Whole(InTransit') /\ NoEndOfFile(InTransit')
               /\ Len(handled) = Cardinality(WritesBefore(pc')) - (1 - Missing(InTransit'))
    <2>1. /\ Whole(InTransit) /\ NoEndOfFile(InTransit)
          /\ Len(handled) = Cardinality(WritesBefore(pc)) - (1 - Missing(InTransit))
      BY <1>1, <1>8 DEF Counted
    <2>2. Len(handled) = Cardinality(WritesBefore(pc')) - (1 - Missing(InTransit'))
      BY <1>3, <1>6, <1>7, <2>1
    <2>. QED
      BY <1>7, <2>1, <2>2
  <1>9. front # "exited"
    BY <1>1 DEF Counted
  <1>. QED
    BY <1>1, <1>8, <1>9 DEF Counted, FrontUp, frontVars

\* Nodes move.
LEMMA CountedMoves ==
    ASSUME Shape, Counted, Moves
    PROVE  Counted'
  <1>1. InTransit' = InTransit
    BY StreamMoves
  <1>2. /\ UNCHANGED <<handled, back>> /\ FrontUp' = FrontUp
        /\ (front' = "exited") = (front = "exited")
        /\ WritesBefore(pc') = WritesBefore(pc)
    BY MovesKeep
  <1>. QED
    BY <1>1, <1>2 DEF Counted

\* front handles a term.
LEMMA CountedRead ==
    ASSUME Shape, Counted, FrontRead, Complete(Append(got, Head(toFront)))
    PROVE  Counted'
  <1> DEFINE t == Append(got, Head(toFront))
             u == InTransit'
  <1>1. /\ InTransit = t \o u /\ u \in Seq(SerialNode)
        /\ t \in Seq(SerialNode) /\ OneTerm(t) /\ HandleValue(t)
    BY StreamRead
  <1>2. front = "read" /\ FrontUp /\ UNCHANGED backVars
    BY DEF FrontRead, FrontUp
  <1> HIDE DEF t, u
  <1>3. /\ Missing(u) = Missing(InTransit) + 1
        /\ Whole(InTransit) => Whole(u)
        /\ NoEndOfFile(InTransit) => NoEndOfFile(u) /\ t[1] # EndOfFile
    <2>1. /\ Missing(u) = Missing(t \o u) + 1
          /\ Whole(t \o u) => Whole(u)
          /\ NoEndOfFile(t \o u) => NoEndOfFile(u) /\ t[1] # EndOfFile
      BY <1>1, TermRead
    <2>. QED
      BY <1>1, <2>1, Zenon
  <1>4. Missing(InTransit) \in Int /\ Len(handled) \in Nat /\ Len(handled') = Len(handled) + 1
    <2>1. handled \in Seq(Seq(SerialNode)) /\ handled' = Append(handled, t)
      BY <1>1 DEF HandleValue, Shape, Typed
    <2>2. Missing(InTransit) \in Int
      BY StreamType
    <2>. QED
      BY <1>1, <2>1, <2>2, AppendProperties, LenProperties
  <1>5. front' = "exited" => t[1] = EndOfFile
    BY <1>1, ValueHandled
  <1>6. ASSUME back # "crashed"
        PROVE  /\ Whole(u) /\ NoEndOfFile(u) /\ front' # "exited"
               /\ Len(handled') = Cardinality(WritesBefore(pc)) - (1 - Missing(u))
    <2>1. /\ Whole(InTransit) /\ NoEndOfFile(InTransit)
          /\ Len(handled) = Cardinality(WritesBefore(pc)) - (1 - Missing(InTransit))
      BY <1>2, <1>6 DEF Counted
    <2>2. Cardinality(WritesBefore(pc)) \in Nat
      BY SMTT(60), ScriptType, CountWrites DEF Shape, Typed
    <2>3. Len(handled') = Cardinality(WritesBefore(pc)) - (1 - Missing(u))
      BY <1>3, <1>4, <2>1, <2>2
    <2>. QED
      BY <1>3, <1>5, <2>1, <2>3
  <1>7. UNCHANGED <<pc, back>>
    BY <1>2 DEF backVars
  <1>8. back' # "crashed" /\ FrontUp'
          => /\ Whole(InTransit') /\ NoEndOfFile(InTransit')
             /\ Len(handled') = Cardinality(WritesBefore(pc')) - (1 - Missing(InTransit'))
    BY <1>6, <1>7 DEF u, WritesBefore
  <1>9. front' = "exited" => back' = "crashed"
    BY <1>6, <1>7
  <1>. QED
    BY <1>8, <1>9 DEF Counted

\* front handles the end of the stream: it has handled every term.
LEMMA CountedReadEof ==
    ASSUME Shape, Counted, FrontReadEof
    PROVE  Counted'
  <1>1. front = "read" /\ FrontUp /\ back # "up" /\ UNCHANGED backVars
    BY DEF FrontReadEof, FrontUp, FrontInputClosed
  <1>2. UNCHANGED <<pc, back>>
    BY <1>1 DEF backVars
  <1>3. CASE back = "crashed"
    BY <1>1, <1>2, <1>3 DEF Counted
  <1>4. CASE back # "crashed"
    <2>1. toFront = <<>> /\ stdout = <<>> /\ todo = <<>>
      BY <1>1 DEF FrontReadEof, Shape, Buffers
    <2>2. InTransit = got
      <3>1. <<>> \o <<>> = <<>> /\ got \o <<>> = got
        BY StreamType, ConcatEmptySeq
      <3>. QED
        BY <2>1, <3>1, Zenon DEF InTransit
    <2>3. /\ Whole(InTransit)
          /\ Len(handled) = Cardinality(WritesBefore(pc)) - (1 - Missing(InTransit))
      BY <1>1, <1>4 DEF Counted
    <2>4. got = <<>>
      <3>1. Incomplete(got) /\ Whole(got) /\ got \in Seq(SerialNode)
        BY <2>2, <2>3, StreamType DEF Shape, WholeTerms
      <3>. QED
        BY <3>1, NothingRead
    <2> DEFINE t == AtEndOfStream(got)
    <2>5. t = <<EndOfFile>>
      BY <2>4, LastValue
    <2>6. HandleValue(t)
      BY DEF FrontReadEof
    <2> HIDE DEF t
    <2>7. front' = "exited" /\ handled' = Append(handled, t)
      BY <2>5, <2>6, ValueHandled
    <2>8. Len(handled') = Len(handled) + 1 /\ Len(handled) \in Nat
      BY <2>7, LenProperties DEF Shape, Typed
    <2>9. Len(handled) = Cardinality(WritesBefore(pc)) /\ Cardinality(WritesBefore(pc)) \in Nat
      <3>1. Missing(InTransit) = 1
        BY <2>2, <2>4, MissingEmpty
      <3>2. Cardinality(WritesBefore(pc)) \in Nat
        BY SMTT(60), ScriptType, CountWrites DEF Shape, Typed
      <3>. QED
        BY <2>3, <3>1, <3>2
    <2>10. Len(handled') = 1 + Cardinality(WritesBefore(pc))
      BY <2>8, <2>9
    <2>. QED
      BY <1>1, <1>2, <2>7, <2>10 DEF Counted, FrontUp, WritesBefore
  <1>. QED
    BY <1>3, <1>4

\* back ends: normally when everything is in the pipe, or it crashes.
LEMMA CountedBackEnds ==
    ASSUME Shape, Counted,
           BackExit \/ BackBrokenPipe \/ BackCrash \/ BackReadThrows
    PROVE  Counted'
  <1>1. back = "up" /\ front # "exited"
    BY DEF Counted, BackExit, BackBrokenPipe, BackCrash, BackReadThrows, Does
  <1>2. CASE BackExit
    <2>1. /\ UNCHANGED <<pc, got, toFront, handled, front>> /\ back' = "exited"
          /\ todo = <<>> /\ stdout = <<>> /\ todo' = <<>> /\ stdout' = <<>>
      BY <1>2 DEF BackExit, BackGone, ReadyToExit, frontVars
    <2>2. InTransit' = InTransit
      BY <2>1 DEF InTransit
    <2>. QED
      BY <1>1, <2>1, <2>2 DEF Counted, FrontUp, WritesBefore
  <1>3. CASE BackBrokenPipe \/ BackCrash \/ BackReadThrows
    <2>1. back' = "crashed" /\ front' = front
      BY <1>3 DEF BackBrokenPipe, BackCrash, BackReadThrows, BackGone, frontVars
    <2>. QED
      BY <1>1, <2>1 DEF Counted, FrontUp
  <1>. QED
    BY <1>2, <1>3

\* front dies.
LEMMA CountedFrontEnds ==
    ASSUME FrontBrokenPipe \/ FrontCrash \/ FrontReadThrows
    PROVE  Counted'
  BY DEF FrontBrokenPipe, FrontCrash, FrontReadThrows, Counted, FrontUp

\* The steps of the two programs, by what they do to the stream.
Ends == BackExit \/ BackBrokenPipe \/ BackCrash \/ BackReadThrows

\* A step writes a term, moves a node, reads a term or the end of the stream, or
\* ends one of the programs.
LEMMA StepKinds ==
    ASSUME [Next]_vars
    PROVE  \/ BackSerialize \/ BackEcho \/ Moves \/ Ends
           \/ FrontRead /\ Complete(Append(got, Head(toFront)))
           \/ FrontReadEof \/ FrontReadThrows \/ FrontBrokenPipe \/ FrontCrash
           \/ UNCHANGED vars
  BY Zenon DEF Next, BackStep, FrontStep, Moves, Ends, Finished

\* The count holds in every state.
LEMMA CountedStep == Shape /\ Counted /\ [Next]_vars => Counted'
  <1> SUFFICES ASSUME Shape, Counted, [Next]_vars PROVE Counted'
    OBVIOUS
  <1>1. CASE UNCHANGED vars
    <2>1. UNCHANGED <<pc, got, toFront, stdout, todo, handled, front, back>>
      BY <1>1 DEF vars, backVars, frontVars
    <2>. QED
      BY <2>1 DEF Counted, InTransit, FrontUp, WritesBefore
  <1>. QED
    BY <1>1, StepKinds, CountedWritten, CountedMoves, CountedRead, CountedReadEof, CountedBackEnds,
       CountedFrontEnds DEF Ends

\* ... beginning with the empty stream.
LEMMA CountedInit == Init => Counted
  <1> SUFFICES ASSUME Init PROVE Counted
    OBVIOUS
  <1>1. InTransit = <<>>
    <2>1. <<>> \o <<>> = <<>>
      OBVIOUS
    <2>. QED
      BY <2>1 DEF Init, InTransit
  <1>2. Missing(InTransit) = 1 /\ Len(InTransit) = 0
    BY <1>1, MissingEmpty
  <1>3. Whole(InTransit) /\ NoEndOfFile(InTransit)
    BY <1>2 DEF Whole, NoEndOfFile
  <1>4. Cardinality(WritesBefore(pc)) = 0
    <2>1. WritesBefore(pc) = {}
      BY DEF WritesBefore, Init
    <2>. QED
      BY <2>1, FS_EmptySet
  <1>. QED
    BY <1>2, <1>3, <1>4 DEF Init, Counted

\* The invariant NothingLost: when both programs have ended normally front has
\* handled every term that back wrote, and EndOfFile, for every script, pipe and
\* buffer.
THEOREM NoTermLost == Spec => []NothingLost
  <1>1. Shape /\ Counted => NothingLost
    BY DEF Shape, Buffers, Counted, NothingLost
  <1>2. Init => Shape /\ Counted
    BY ShapeInit, CountedInit
  <1>3. (Shape /\ Counted) /\ [Next]_vars => (Shape /\ Counted)'
    BY ShapeStep, CountedStep
  <1>. QED
    BY <1>1, <1>2, <1>3, PTL DEF Spec

(* Requests and answers -------------------------------------------------- *)

\* Nothing is under way from front to back, and back has had every answer; or front
\* has answered once more, back waits for the answer, and what back has of it,
\* what is in the pipe and what front has yet to write make up the answer.
Even ==
    responses = answers /\ received = <<>> /\ toBack = <<>> /\ reply = <<>>

Answering ==
    /\ answers # <<>> /\ responses = Front(answers)
    /\ received \o (toBack \o reply) = Last(answers)
    /\ InTransit = <<>> /\ (back = "up" => AsksAt(pc - 2))

InStep == FrontUp => Even \/ Answering

\* A request is the last thing back writes before it waits, and it does not stay in
\* the buffer.
LastRequest ==
    FrontUp =>
        /\ RequestIsLast(InTransit)
        /\ HasRequest(InTransit) => /\ Len(answers) = Len(responses)
                                    /\ back = "up" => AsksAt(pc - 1) \/ AsksAt(pc - 2)

Buffered ==
    back = "up" /\ AsksAt(pc - 1) => todo # <<>> \/ (stdout # <<>> /\ ~draining)

\* The user is asked when back has written the request and nothing else, and waits.
Quiet ==
    front = "ask" => /\ InTransit = <<>> /\ Len(answers) = Len(responses)
                     /\ back = "up" => AsksAt(pc - 2)

\* When front is gone the responses back has are front's answers, except perhaps the
\* last one; and then back does not come to read another one.
Agree(n) == \A k \in 1..n : k <= Len(answers) => responses[k] = answers[k]

AfterFront ==
    ~FrontUp => \/ Agree(Len(responses))
                \/ /\ Agree(Len(responses) - 1)
                   /\ back = "up" /\ AsksAt(pc - 2) => draining

Dialogue == InStep /\ LastRequest /\ Buffered /\ Quiet /\ AfterFront

\* A request is followed by a flush and the reading of the response, and nothing
\* else is read.
LEMMA ScriptOrder ==
    ASSUME NEW n \in 1..(Len(Script) + 1)
    PROVE  /\ AsksAt(n - 1) => Performs(n, "flush")
           /\ AsksAt(n - 2) <=> Performs(n, "deserialize")
  <1>1. Len(Script) \in Nat /\ DOMAIN Script = 1..Len(Script)
    BY ScriptType
  <1>2. AsksAt(n - 1) => Performs(n, "flush")
    <2>1. (n - 1) + 1 = n
      OBVIOUS
    <2>2. ASSUME AsksAt(n - 1) PROVE Performs(n, "flush")
      <3>1. n - 1 \in DOMAIN Script
        BY <2>2 DEF AsksAt, Performs
      <3>. QED
        BY <2>1, <2>2, <3>1, ScriptAssumption
    <2>. QED
      BY <2>2
  <1>3. AsksAt(n - 2) <=> Performs(n, "deserialize")
    <2>1. (n - 2) + 2 = n
      OBVIOUS
    <2>2. CASE n - 2 \in DOMAIN Script
      BY <2>1, <2>2, ScriptAssumption
    <2>3. CASE n - 2 \notin DOMAIN Script
      <3>1. ~AsksAt(n - 2)
        BY <2>3 DEF AsksAt, Performs
      <3>2. n = 1 \/ n = 2
        BY <1>1, <2>3
      <3>. QED
        BY <3>1, <3>2, ScriptAssumption
    <2>. QED
      BY <2>2, <2>3
  <1>. QED
    BY <1>2, <1>3

\* What the script says about the operation back does next.
LEMMA Doing ==
    ASSUME Shape, NEW name, Does(name)
    PROVE  /\ AsksAt(pc - 1) => name = "flush"
           /\ AsksAt(pc - 2) <=> name = "deserialize"
           /\ AsksAt(pc) => name = "serialize"
           /\ (pc + 1) - 1 = pc /\ (pc + 1) - 2 = pc - 1
           /\ back = "up" /\ todo = <<>> /\ ~draining
  <1>1. pc \in 1..(Len(Script) + 1) /\ Performs(pc, name) /\ Script[pc].op = name /\ pc \in Int
    BY ScriptType, NextOperation DEF Shape, Typed
  <1>2. (AsksAt(pc - 1) => Performs(pc, "flush")) /\ (AsksAt(pc - 2) <=> Performs(pc, "deserialize"))
    BY <1>1, ScriptOrder
  <1>. QED
    BY <1>1, <1>2 DEF Performs, AsksAt, Does

\* The first terms of a list and its last one.
LEMMA FrontAndLast ==
    ASSUME NEW S, NEW s \in Seq(S)
    PROVE  /\ s # <<>> => /\ Append(Front(s), Last(s)) = s /\ Last(s) \in S
                          /\ Front(s) \in Seq(S) /\ Len(Front(s)) = Len(s) - 1
                          /\ \A k \in 1..Len(Front(s)) : Front(s)[k] = s[k]
           /\ \A x \in S : Append(s, x) # <<>> /\ Front(Append(s, x)) = s /\ Last(Append(s, x)) = x
  <1>1. Len(s) \in Nat /\ \A i \in 1..Len(s) : s[i] \in S
    BY LenProperties, ElementOfSeq
  <1>2. ASSUME s # <<>>
        PROVE  /\ Append(Front(s), Last(s)) = s /\ Last(s) \in S
               /\ Front(s) \in Seq(S) /\ Len(Front(s)) = Len(s) - 1
               /\ \A k \in 1..Len(Front(s)) : Front(s)[k] = s[k]
    <2> DEFINE f == SubSeq(s, 1, Len(s) - 1)
    <2>1. Len(s) - 1 \in 0..Len(s) /\ Len(s) \in 1..Len(s)
      BY <1>1, <1>2, EmptySeq
    <2>2. /\ f \in Seq(S) /\ Len(f) = Len(s) - 1
          /\ \A i \in 1..(Len(s) - 1) : f[i] = s[i]
      BY <2>1, PrefixType
    <2> HIDE DEF f
    <2>3. Last(s) = s[Len(s)] /\ Last(s) \in S /\ Front(s) = f
      BY <1>1, <2>1 DEF Last, Front, f
    <2> DEFINE l == Last(s)
               a == Append(f, l)
    <2>4. l \in S /\ l = s[Len(s)]
      BY <2>3
    <2> HIDE DEF l
    <2>5. /\ a \in Seq(S) /\ Len(a) = Len(f) + 1
          /\ \A i \in 1..Len(f) : a[i] = f[i]
          /\ a[Len(f) + 1] = l
      BY <2>2, <2>4, AppendProperties
    <2> HIDE DEF a
    <2>6. Len(a) = Len(s)
      BY <1>1, <2>2, <2>5
    <2>7. ASSUME NEW i \in 1..Len(a)
          PROVE  a[i] = s[i]
      <3>1. CASE i = Len(s)
        BY <1>1, <2>2, <2>4, <2>5, <3>1
      <3>2. CASE i # Len(s)
        <4>1. i \in 1..(Len(s) - 1)
          BY <1>1, <2>6, <3>2
        <4>. QED
          BY <2>2, <2>5, <4>1
      <3>. QED
        BY <3>1, <3>2
    <2>8. a = s
      BY <2>5, <2>6, <2>7, SeqEqual
    <2>. QED
      BY <2>2, <2>3, <2>8 DEF a, l
  <1>3. ASSUME NEW x \in S
        PROVE  Append(s, x) # <<>> /\ Front(Append(s, x)) = s /\ Last(Append(s, x)) = x
    <2> DEFINE a == Append(s, x)
               f == SubSeq(a, 1, Len(s))
    <2>1. /\ a \in Seq(S) /\ a # <<>> /\ Len(a) = Len(s) + 1
          /\ \A i \in 1..Len(s) : a[i] = s[i]
          /\ a[Len(s) + 1] = x
      BY AppendProperties
    <2> HIDE DEF a
    <2>2. Len(s) \in 0..Len(a) /\ Len(a) - 1 = Len(s)
      BY <1>1, <2>1
    <2>3. f \in Seq(S) /\ Len(f) = Len(s) /\ \A i \in 1..Len(s) : f[i] = a[i]
      BY <2>1, <2>2, PrefixType
    <2> HIDE DEF f
    <2>4. f = s
      BY <2>1, <2>3, SeqEqual
    <2>. QED
      BY <2>1, <2>2, <2>4 DEF a, f, Front, Last
  <1>. QED
    BY <1>2, <1>3

\* There is no request in an empty stream.
LEMMA NoRequest == ~HasRequest(<<>>) /\ RequestIsLast(<<>>)
  <1>1. Len(<<>>) = 0
    OBVIOUS
  <1>. QED
    BY <1>1 DEF HasRequest, RequestIsLast

\* The stream is empty when its parts are.
LEMMA StreamEmpty ==
    ASSUME Shape
    PROVE  InTransit = <<>> <=> got = <<>> /\ toFront = <<>> /\ stdout = <<>> /\ todo = <<>>
  <1>1. stdout \o todo = <<>> <=> stdout = <<>> /\ todo = <<>>
    BY StreamType, ConcatEqualIffEmpty
  <1> DEFINE v == stdout \o todo
             w == toFront \o v
  <1>2. v \in Seq(SerialNode) /\ w \in Seq(SerialNode)
    BY StreamType
  <1>3. v = <<>> <=> stdout = <<>> /\ todo = <<>>
    BY <1>1
  <1> HIDE DEF v
  <1>4. w = <<>> <=> toFront = <<>> /\ v = <<>>
    BY <1>2, StreamType, ConcatEqualIffEmpty
  <1> HIDE DEF w
  <1>5. got \o w = <<>> <=> got = <<>> /\ w = <<>>
    BY <1>2, StreamType, ConcatEqualIffEmpty
  <1>. QED
    BY <1>3, <1>4, <1>5, Zenon DEF InTransit, w, v

\* As long as front is up, what back has are front's answers.
LEMMA InStepAgrees ==
    ASSUME Shape, FrontUp, InStep
    PROVE  /\ Agree(Len(responses)) /\ Len(responses) \in Nat
           /\ Even => Len(answers) = Len(responses)
           /\ Answering => Len(answers) = Len(responses) + 1
  <1>1. /\ answers \in Seq(Seq(SerialNode)) /\ Len(answers) \in Nat
        /\ responses \in Seq(Seq(SerialNode)) /\ Len(responses) \in Nat
    BY LenProperties DEF Shape, Typed
  <1>2. Even => Len(answers) = Len(responses) /\ Agree(Len(responses))
    BY DEF Even, Agree
  <1>3. ASSUME Answering
        PROVE  Len(answers) = Len(responses) + 1 /\ Agree(Len(responses))
    <2>1. /\ responses = Front(answers) /\ Len(Front(answers)) = Len(answers) - 1
          /\ \A k \in 1..Len(Front(answers)) : Front(answers)[k] = answers[k]
      BY <1>1, <1>3, FrontAndLast DEF Answering
    <2>. QED
      BY <1>1, <2>1 DEF Agree
  <1>. QED
    BY <1>1, <1>2, <1>3 DEF InStep

\* back writes a term: it does so only when no request is under way, so nothing
\* follows on one.
LEMMA DialogueWritten ==
    ASSUME Shape, Dialogue, BackSerialize \/ BackEcho
    PROVE  Dialogue'
  <1>1. /\ InTransit' = InTransit \o todo'
        /\ todo' \in Seq(SerialNode) /\ OneTerm(todo')
        /\ Asks(todo') => AsksAt(pc)
        /\ pc' = pc + 1 /\ back = "up" /\ todo' # <<>>
        /\ UNCHANGED <<frontVars, received, responses, back, toBack>>
    BY StreamWritten
  <1>2. ~AsksAt(pc - 1) /\ ~AsksAt(pc - 2) /\ pc' - 1 = pc /\ pc' - 2 = pc - 1
    BY <1>1, Doing DEF BackSerialize, BackEcho
  <1>3. UNCHANGED <<got, reply, answers, handled, front>> /\ FrontUp' = FrontUp
    BY <1>1 DEF frontVars, FrontUp
  <1>4. FrontUp => Even /\ ~HasRequest(InTransit) /\ Len(answers) = Len(responses)
    <2>1. FrontUp => Even /\ ~HasRequest(InTransit)
      BY <1>1, <1>2 DEF Dialogue, InStep, Answering, LastRequest
    <2>. QED
      BY <2>1 DEF Even
  <1>5. InStep'
    BY <1>1, <1>3, <1>4 DEF InStep, Even
  <1>6. ~HasRequest(InTransit) => RequestIsLast(InTransit') /\ (HasRequest(InTransit') => AsksAt(pc' - 1))
    <2> DEFINE t == todo'
    <2>1. /\ t \in Seq(SerialNode) /\ OneTerm(t) /\ InTransit' = InTransit \o t
          /\ (Asks(t) => AsksAt(pc' - 1)) /\ InTransit \in Seq(SerialNode)
      BY <1>1, <1>2, StreamType
    <2> HIDE DEF t
    <2>2. /\ HasRequest(InTransit \o t) => HasRequest(InTransit) \/ Asks(t)
          /\ ~HasRequest(InTransit) => RequestIsLast(InTransit \o t)
      BY <2>1, TermWritten
    <2>. QED
      BY <2>1, <2>2, Zenon
  <1>7. LastRequest'
    BY <1>1, <1>3, <1>4, <1>6 DEF LastRequest
  <1>8. Buffered'
    BY <1>1 DEF Buffered
  <1>9. Quiet'
    <2>1. front # "ask"
      BY <1>1, <1>2 DEF Dialogue, Quiet
    <2>. QED
      BY <1>3, <2>1 DEF Quiet
  <1>10. AfterFront'
    BY <1>1, <1>2, <1>3 DEF Dialogue, AfterFront, Agree
  <1>. QED
    BY <1>5, <1>7, <1>8, <1>9, <1>10 DEF Dialogue

\* back flushes: if it has written a request, all of it is in the buffer, and goes
\* to the pipe now.
LEMMA DialogueFlush ==
    ASSUME Shape, Dialogue, BackFlush
    PROVE  Dialogue'
  <1>1. /\ pc' = pc + 1 /\ draining' = (stdout # <<>>) /\ Does("flush")
        /\ UNCHANGED <<todo, stdout, received, responses, back, toFront, toBack, frontVars>>
    BY DEF BackFlush, StartDraining
  <1>2. /\ ~AsksAt(pc - 2) /\ ~AsksAt(pc) /\ pc' - 1 = pc /\ pc' - 2 = pc - 1
        /\ back = "up" /\ todo = <<>> /\ ~draining
    BY <1>1, Doing
  <1>3. UNCHANGED <<got, reply, answers, handled, front>> /\ FrontUp' = FrontUp
    BY <1>1 DEF frontVars, FrontUp
  <1>4. InTransit' = InTransit
    BY StreamMoves DEF Moves
  <1>5. InStep'
    BY <1>1, <1>2, <1>3 DEF Dialogue, InStep, Even, Answering
  <1>6. LastRequest'
    BY <1>1, <1>2, <1>3, <1>4 DEF Dialogue, LastRequest
  <1>7. Buffered'
    BY <1>1, <1>2 DEF Buffered
  <1>8. Quiet'
    <2>1. front # "ask"
      BY <1>2 DEF Dialogue, Quiet
    <2>. QED
      BY <1>3, <2>1 DEF Quiet
  <1>9. AfterFront'
    <2>1. AsksAt(pc - 1) => draining'
      BY <1>1, <1>2 DEF Dialogue, Buffered
    <2>. QED
      BY <1>1, <1>2, <1>3, <2>1 DEF Dialogue, AfterFront, Agree
  <1>. QED
    BY <1>5, <1>6, <1>7, <1>8, <1>9 DEF Dialogue

\* Nodes move towards front: what is in the stream, and what back does next, is the
\* same.
LEMMA DialogueMoves ==
    ASSUME Shape, Dialogue,
           \/ BackBuffer \/ BackDrain \/ BackLastFlush
           \/ FrontRead /\ ~Complete(Append(got, Head(toFront)))
    PROVE  Dialogue'
  <1>1. InTransit' = InTransit
    BY StreamMoves DEF Moves
  <1>2. /\ UNCHANGED <<pc, received, responses, back, toBack, reply, answers, front>>
        /\ FrontUp' = FrontUp
    BY DEF BackBuffer, BackDrain, BackLastFlush, FrontRead, frontVars, backVars, FrontUp
  <1>3. InStep' /\ LastRequest' /\ Quiet'
    BY <1>1, <1>2 DEF Dialogue, InStep, Even, Answering, LastRequest, Quiet
  <1>4. Buffered'
    <2>1. CASE BackBuffer
      <3>1. CASE Len(stdout) < BufferSize
        <4>1. stdout' = Append(stdout, Head(todo)) /\ draining' = draining /\ ~draining
          BY <2>1, <3>1 DEF BackBuffer
        <4>2. Append(stdout, Head(todo)) # <<>>
          <5>1. todo # <<>> /\ todo \in Seq(SerialNode) /\ stdout \in Seq(SerialNode)
            BY <2>1, StreamType DEF BackBuffer
          <5>2. Head(todo) \in SerialNode
            BY <5>1, HeadTailProperties
          <5>. QED
            BY <5>1, <5>2, AppendProperties
        <4>. QED
          BY <4>1, <4>2 DEF Buffered
      <3>2. CASE ~(Len(stdout) < BufferSize)
        BY <2>1, <3>2 DEF BackBuffer, Buffered
      <3>. QED
        BY <3>1, <3>2
    <2>2. CASE BackDrain
      BY <1>2, <2>2 DEF BackDrain, Dialogue, Buffered
    <2>3. CASE BackLastFlush
      <3>1. ~AsksAt(pc - 1)
        <4>1. pc \in 1..(Len(Script) + 1) /\ pc \notin DOMAIN Script
          BY <2>3, ScriptType DEF BackLastFlush, Shape, Typed
        <4>. QED
          BY <4>1, ScriptOrder DEF Performs
      <3>. QED
        BY <1>2, <3>1 DEF Buffered
    <2>4. CASE FrontRead
      <3>1. UNCHANGED <<todo, stdout, draining>>
        BY <2>4 DEF FrontRead, backVars
      <3>. QED
        BY <1>2, <3>1 DEF Dialogue, Buffered
    <2>. QED
      BY <2>1, <2>2, <2>3, <2>4
  <1>5. AfterFront'
    <2>1. draining => draining' \/ FrontUp
      BY DEF BackBuffer, BackDrain, BackLastFlush, FrontRead, backVars, FrontUp
    <2>. QED
      BY <1>2, <2>1 DEF Dialogue, AfterFront, Agree
  <1>. QED
    BY <1>3, <1>4, <1>5 DEF Dialogue

\* What back is about to read is the answer front gave last, if front is up; if it
\* is gone, all that back has read so far are answers.
LEMMA AboutToRead ==
    ASSUME Shape, Dialogue, Does("deserialize")
    PROVE  /\ AsksAt(pc - 2) /\ ~AsksAt(pc - 1) /\ ~AsksAt(pc)
           /\ (pc + 1) - 1 = pc /\ (pc + 1) - 2 = pc - 1
           /\ ~FrontUp => Agree(Len(responses))
  <1>1. /\ AsksAt(pc - 2) /\ ~AsksAt(pc - 1) /\ ~AsksAt(pc)
        /\ (pc + 1) - 1 = pc /\ (pc + 1) - 2 = pc - 1
        /\ back = "up" /\ ~draining
    BY Doing
  <1>. QED
    BY <1>1 DEF Dialogue, AfterFront

\* One more response, when front is gone: those before it are answers.
LEMMA OneMoreResponse ==
    ASSUME Shape, Agree(Len(responses)), NEW t \in Seq(SerialNode),
           responses' = Append(responses, t), UNCHANGED answers
    PROVE  Agree(Len(responses) - 1)' /\ Len(responses') - 1 = Len(responses)
  <1>1. /\ responses \in Seq(Seq(SerialNode)) /\ Len(responses) \in Nat
    BY LenProperties DEF Shape, Typed
  <1>2. Len(responses') = Len(responses) + 1 /\ \A i \in 1..Len(responses) : responses'[i] = responses[i]
    BY <1>1, AppendProperties
  <1>3. Len(responses') - 1 = Len(responses)
    BY <1>1, <1>2
  <1>4. \A k \in 1..Len(responses) : k <= Len(answers') => responses'[k] = answers'[k]
    BY <1>2 DEF Agree
  <1>. QED
    BY <1>3, <1>4 DEF Agree

\* back reads a node of a response.
LEMMA DialogueRead ==
    ASSUME Shape, Dialogue, BackRead
    PROVE  Dialogue'
  <1> DEFINE nodes == Append(received, Head(toBack))
  <1>1. /\ toBack \in Seq(SerialNode) /\ toBack # <<>> /\ toBack' = Tail(toBack)
        /\ toBack' \in Seq(SerialNode)
        /\ nodes \in Seq(SerialNode) /\ (Complete(nodes) => OneTerm(nodes))
    BY ResponseNode
  <1>2. /\ AsksAt(pc - 2) /\ ~AsksAt(pc - 1) /\ ~AsksAt(pc)
        /\ (pc + 1) - 1 = pc /\ (pc + 1) - 2 = pc - 1
        /\ ~FrontUp => Agree(Len(responses))
    BY AboutToRead DEF BackRead
  <1>3. /\ UNCHANGED <<todo, stdout, draining, back, toFront, got, reply, answers, handled, front>>
        /\ FrontUp' = FrontUp
    BY DEF BackRead, frontVars, FrontUp
  <1>4. InTransit' = InTransit
    BY StreamMoves DEF Moves
  <1>5. /\ Complete(nodes) => /\ received' = <<>> /\ responses' = Append(responses, nodes)
                              /\ pc' = pc + 1
        /\ ~Complete(nodes) => received' = nodes /\ UNCHANGED <<responses, pc>>
    BY DEF BackRead
  <1>6. received \in Seq(SerialNode) /\ reply \in Seq(SerialNode)
    BY DEF Shape, Typed
  <1>7. nodes \o (toBack' \o reply) = received \o (toBack \o reply)
    BY SMTT(60), <1>1, <1>6, MoveNode
  <1> HIDE DEF nodes
  <1>8. FrontUp => Answering
    BY <1>1 DEF Dialogue, InStep, Even
  <1>9. CASE Complete(nodes)
    <2>1. FrontUp => Even'
      <3> SUFFICES ASSUME FrontUp PROVE Even'
        OBVIOUS
      <3> DEFINE u == toBack' \o reply
      <3>1. Answering
        BY <1>8
      <3>2. u \in Seq(SerialNode) /\ nodes \in Seq(SerialNode)
        BY <1>1, <1>6, ConcatProperties
      <3>3. nodes \o u = Last(answers)
        BY <1>7, <3>1, Zenon DEF Answering
      <3>4. u = <<>> <=> toBack' = <<>> /\ reply = <<>>
        BY <1>1, <1>6, ConcatEqualIffEmpty
      <3> HIDE DEF u
      <3>5. /\ answers \in Seq(Seq(SerialNode)) /\ answers # <<>>
            /\ Last(answers) = answers[Len(answers)] /\ Len(answers) \in 1..Len(answers)
        BY <3>1, EmptySeq DEF Shape, Typed, Answering, Last
      <3>6. OneTerm(Last(answers))
        BY <3>5 DEF Shape, WholeTerms
      <3>7. u = <<>>
        <4>1. OneTerm(nodes \o u)
          BY <3>3, <3>6, Zenon
        <4>. QED
          BY <1>1, <1>9, <3>2, <4>1, SameTerm, Zenon
      <3>8. nodes = Last(answers)
        <4>1. nodes \o <<>> = nodes
          BY <3>2, ConcatEmptySeq, Zenon
        <4>. QED
          BY <3>3, <3>7, <4>1, Zenon
      <3>9. Append(Front(answers), Last(answers)) = answers
        BY <3>5, FrontAndLast
      <3>10. responses' = answers
        BY <1>5, <1>9, <3>1, <3>8, <3>9 DEF Answering
      <3>. QED
        BY <1>3, <1>5, <1>9, <3>4, <3>7, <3>10 DEF Even
    <2>2. InStep'
      BY <1>3, <2>1 DEF InStep
    <2>3. LastRequest'
      BY <1>3, <1>4, <1>8, NoRequest DEF LastRequest, Answering
    <2>4. Buffered'
      BY <1>2, <1>5, <1>9 DEF Buffered
    <2>5. Quiet'
      <3>1. front = "ask" => FALSE
        <4> SUFFICES ASSUME front = "ask" PROVE FALSE
          OBVIOUS
        <4>1. FrontUp /\ InStep /\ Len(answers) = Len(responses)
          BY DEF FrontUp, Dialogue, Quiet
        <4>. QED
          BY <1>8, <4>1, InStepAgrees
      <3>. QED
        BY <1>3, <3>1 DEF Quiet
    <2>6. AfterFront'
      <3>1. ~FrontUp => Agree(Len(responses) - 1)'
        BY <1>1, <1>2, <1>3, <1>5, <1>9, OneMoreResponse
      <3>2. ~AsksAt(pc' - 2)
        BY <1>2, <1>5, <1>9
      <3>. QED
        BY <1>3, <3>1, <3>2 DEF AfterFront
    <2>. QED
      BY <2>2, <2>3, <2>4, <2>5, <2>6 DEF Dialogue
  <1>10. CASE ~Complete(nodes)
    <2>1. received' = nodes /\ UNCHANGED <<responses, pc>>
      BY <1>5, <1>10
    <2>2. FrontUp => Answering'
      <3>1. received' \o (toBack' \o reply') = received \o (toBack \o reply)
        BY <1>3, <1>7, <2>1, Zenon
      <3>. QED
        BY <1>3, <1>4, <1>8, <2>1, <3>1 DEF Answering
    <2>3. InStep'
      BY <1>3, <2>2 DEF InStep
    <2>4. LastRequest' /\ Buffered' /\ Quiet' /\ AfterFront'
      BY <1>3, <1>4, <2>1 DEF Dialogue, LastRequest, Buffered, Quiet, AfterFront, Agree
    <2>. QED
      BY <2>3, <2>4 DEF Dialogue
  <1>. QED
    BY <1>9, <1>10

\* back reads the end of its input.
LEMMA DialogueReadEof ==
    ASSUME Shape, Dialogue, BackReadEof
    PROVE  Dialogue'
  <1> DEFINE t == AtEndOfStream(received)
  <1>1. /\ ~FrontUp /\ responses' = Append(responses, t) /\ pc' = pc + 1
        /\ UNCHANGED <<todo, stdout, draining, back, toFront, frontVars>>
    BY DEF BackReadEof, BackInputClosed
  <1>2. t \in Seq(SerialNode)
    BY EndOfStreamOneTerm DEF Shape, Typed, WholeTerms
  <1> HIDE DEF t
  <1>3. /\ ~AsksAt(pc - 1) /\ ~AsksAt(pc) /\ Agree(Len(responses))
        /\ (pc + 1) - 1 = pc /\ (pc + 1) - 2 = pc - 1
    BY <1>1, AboutToRead DEF BackReadEof
  <1>4. UNCHANGED <<answers, front>> /\ ~FrontUp'
    BY <1>1 DEF frontVars, FrontUp
  <1>5. Agree(Len(responses) - 1)'
    BY <1>1, <1>2, <1>3, <1>4, OneMoreResponse
  <1>6. Buffered'
    BY <1>1, <1>3 DEF Buffered
  <1>7. AfterFront'
    BY <1>1, <1>3, <1>5 DEF AfterFront
  <1>8. InStep' /\ LastRequest' /\ Quiet'
    BY <1>4 DEF InStep, LastRequest, Quiet, FrontUp
  <1>. QED
    BY <1>6, <1>7, <1>8 DEF Dialogue

\* front handles a term: if it is a request, nothing follows in the stream and back
\* is about to read the response.
LEMMA DialogueHandle ==
    ASSUME Shape, Dialogue, FrontRead, Complete(Append(got, Head(toFront)))
    PROVE  Dialogue'
  <1> DEFINE t == Append(got, Head(toFront))
             u == InTransit'
  <1>1. /\ InTransit = t \o u /\ u \in Seq(SerialNode)
        /\ t \in Seq(SerialNode) /\ OneTerm(t) /\ HandleValue(t)
    BY StreamRead
  <1>2. front = "read" /\ FrontUp /\ UNCHANGED <<backVars, toBack>>
    BY DEF FrontRead, FrontUp
  <1> HIDE DEF t, u
  <1>3. /\ UNCHANGED <<pc, todo, stdout, draining, received, responses, back, toBack, reply, answers>>
        /\ front' = "ask" => Asks(t)
        /\ front' \in {"exited", "ask", "read"}
    BY <1>1, <1>2, ValueHandled DEF backVars
  <1>4. InTransit # <<>>
    <2>1. t # <<>>
      BY <1>1, OneTermNonempty
    <2>2. t \o u # <<>>
      BY <1>1, <2>1, ConcatEqualIffEmpty
    <2>. QED
      BY <1>1, <2>2, Zenon
  <1>5. Even /\ Len(answers) = Len(responses)
    BY <1>2, <1>4 DEF Dialogue, InStep, Answering, Even
  <1>6. /\ HasRequest(u) \/ Asks(t) => HasRequest(InTransit)
        /\ RequestIsLast(InTransit) => RequestIsLast(u)
        /\ RequestIsLast(InTransit) /\ Asks(t) => u = <<>>
    <2>1. /\ HasRequest(u) \/ Asks(t) => HasRequest(t \o u)
          /\ RequestIsLast(t \o u) => RequestIsLast(u)
          /\ RequestIsLast(t \o u) /\ Asks(t) => u = <<>>
      BY <1>1, TermRead
    <2>. QED
      BY <1>1, <2>1, Zenon
  <1>7. /\ RequestIsLast(u)
        /\ HasRequest(u) \/ Asks(t) =>
            (back = "up" => AsksAt(pc - 1) \/ AsksAt(pc - 2))
    BY <1>2, <1>6 DEF Dialogue, LastRequest
  <1>8. InStep'
    BY <1>3, <1>5 DEF InStep, Even
  <1>9. LastRequest'
    BY <1>3, <1>5, <1>7 DEF LastRequest, u
  <1>10. Buffered'
    BY <1>3 DEF Dialogue, Buffered
  <1>11. Quiet'
    <2> SUFFICES ASSUME front' = "ask"
                 PROVE  /\ InTransit' = <<>> /\ Len(answers') = Len(responses')
                        /\ back' = "up" => AsksAt(pc' - 2)
      BY DEF Quiet, AsksAt, Performs
    <2>1. Asks(t)
      BY <1>3
    <2>2. u = <<>>
      BY <1>2, <1>6, <2>1 DEF Dialogue, LastRequest
    <2>3. todo = <<>> /\ stdout = <<>>
      <3>1. todo' = <<>> /\ stdout' = <<>>
        <4>1. Shape'
          BY ShapeFrontRead
        <4>2. Shape' => (InTransit = <<>> => todo = <<>> /\ stdout = <<>>)'
          BY StreamEmpty, PTL
        <4>. QED
          BY <2>2, <4>1, <4>2 DEF u
      <3>. QED
        BY <1>3, <3>1
    <2>4. back = "up" => AsksAt(pc - 2)
      BY <1>7, <2>1, <2>3 DEF Dialogue, Buffered
    <2>. QED
      BY <1>3, <1>5, <2>2, <2>4 DEF u
  <1>12. AfterFront'
    <2>1. Agree(Len(responses))
      BY <1>2, InStepAgrees DEF Dialogue
    <2>. QED
      BY <1>3, <2>1 DEF AfterFront, Agree
  <1>. QED
    BY <1>8, <1>9, <1>10, <1>11, <1>12 DEF Dialogue

\* front comes to the end of the stream.  What it makes of it is a request only if
\* the request was all there but for its argument.
LEMMA DialogueFrontEof ==
    ASSUME Shape, Dialogue, FrontReadEof
    PROVE  Dialogue'
  <1>1. front = "read" /\ FrontUp /\ back # "up" /\ UNCHANGED <<backVars, toBack>>
    BY DEF FrontReadEof, FrontInputClosed, FrontUp
  <1>2. /\ UNCHANGED <<pc, todo, stdout, draining, received, responses, back, toBack>>
        /\ todo = <<>> /\ stdout = <<>>
    BY <1>1 DEF backVars, Shape, Buffers
  <1>3. Agree(Len(responses))
    BY <1>1, InStepAgrees DEF Dialogue
  <1> DEFINE t == AtEndOfStream(got)
  <1>4. HandleValue(t) /\ toFront = <<>> /\ toFront' = <<>>
    BY DEF FrontReadEof
  <1>5. /\ got # <<>> => t[1] = got[1]
        /\ got = <<>> => t = <<EndOfFile>>
    BY LastValue
  <1> HIDE DEF t
  <1>6. /\ UNCHANGED <<reply, answers>> /\ got' = <<>>
        /\ front' = "ask" => Asks(t)
        /\ front' \in {"exited", "ask", "read"}
        /\ t = <<EndOfFile>> => ~Asks(t)
    BY <1>4, ValueHandled
  <1>7. InTransit' = <<>>
    <2>1. <<>> \o <<>> = <<>>
      OBVIOUS
    <2>. QED
      BY <1>2, <1>4, <1>6, <2>1, Zenon DEF InTransit
  <1>8. Asks(t) => HasRequest(InTransit)
    <2> SUFFICES ASSUME Asks(t) PROVE HasRequest(InTransit)
      OBVIOUS
    <2>1. got # <<>> /\ IsRequest(got[1])
      BY <1>5, <1>6 DEF Asks
    <2> DEFINE w == toFront \o (stdout \o todo)
    <2>2. w \in Seq(SerialNode) /\ got \in Seq(SerialNode)
      BY StreamType
    <2> HIDE DEF w
    <2>3. /\ InTransit = got \o w /\ Len(got \o w) = Len(got) + Len(w)
          /\ Len(got) \in Nat \ {0} /\ Len(w) \in Nat
          /\ \A i \in 1..Len(got) : (got \o w)[i] = got[i]
      BY <2>1, <2>2, ConcatProperties, LenProperties, EmptySeq DEF InTransit, w
    <2>4. InTransit[1] = got[1]
      BY <2>3
    <2>5. 0 \in 0..(Len(InTransit) - 1)
      BY <2>3
    <2>6. RequestAfter(InTransit, 0)
      BY <2>1, <2>4 DEF RequestAfter, Starts
    <2>. QED
      BY <2>5, <2>6 DEF HasRequest
  <1>9. InStep'
    BY <1>1, <1>2, <1>6, <1>7 DEF Dialogue, InStep, Even, Answering
  <1>10. LastRequest'
    BY <1>7, NoRequest DEF LastRequest
  <1>11. Buffered'
    BY <1>1, <1>2 DEF Buffered
  <1>12. Quiet'
    <2>1. Asks(t) => Len(answers) = Len(responses)
      BY <1>1, <1>8 DEF Dialogue, LastRequest
    <2>. QED
      BY <1>1, <1>2, <1>6, <1>7, <2>1 DEF Quiet
  <1>13. AfterFront'
    BY <1>2, <1>3, <1>6 DEF AfterFront, Agree
  <1>. QED
    BY <1>9, <1>10, <1>11, <1>12, <1>13 DEF Dialogue

\* The user answers: the response is under way.
LEMMA DialogueAnswers ==
    ASSUME Shape, Dialogue, NEW line \in Lines, UserAnswers(line)
    PROVE  Dialogue'
  <1>1. /\ reply' \in Seq(SerialNode) /\ answers' = Append(answers, reply')
        /\ front = "ask" /\ front' = "write" /\ FrontUp /\ FrontUp'
    BY NewReply DEF FrontUp
  <1>2. UNCHANGED <<pc, todo, stdout, draining, received, responses, back, got, handled, toFront, toBack>>
    BY DEF UserAnswers, backVars
  <1>3. InTransit' = InTransit
    BY StreamMoves DEF Moves
  <1>4. /\ InTransit = <<>> /\ Len(answers) = Len(responses)
        /\ back = "up" => AsksAt(pc - 2)
    BY <1>1 DEF Dialogue, Quiet
  <1>5. Even
    BY <1>1, <1>4, InStepAgrees DEF Dialogue, InStep
  <1>6. Answering'
    <2> DEFINE r == reply'
    <2>1. r \in Seq(SerialNode) /\ answers' = Append(answers, r)
      BY <1>1
    <2> HIDE DEF r
    <2>2. answers' # <<>> /\ Front(answers') = answers /\ Last(answers') = r
      <3>1. answers \in Seq(Seq(SerialNode))
        BY DEF Shape, Typed
      <3> DEFINE S == Seq(SerialNode)
      <3>2. answers \in Seq(S) /\ r \in S
        BY <2>1, <3>1
      <3> HIDE DEF S
      <3>3. Append(answers, r) # <<>> /\ Front(Append(answers, r)) = answers /\ Last(Append(answers, r)) = r
        BY ONLY <3>2, FrontAndLast
      <3>. QED
        BY <2>1, <3>3, Zenon
    <2>3. <<>> \o (<<>> \o r) = r
      BY <2>1, ConcatEmptySeq
    <2>4. received' = <<>> /\ toBack' = <<>> /\ responses' = answers
      BY <1>2, <1>5 DEF Even
    <2>5. received' \o (toBack' \o reply') = Last(answers')
      BY <2>2, <2>3, <2>4, Zenon DEF r
    <2>. QED
      BY <1>2, <1>3, <1>4, <2>2, <2>4, <2>5 DEF Answering
  <1>7. InStep'
    BY <1>6 DEF InStep
  <1>8. LastRequest'
    BY <1>3, <1>4, NoRequest DEF LastRequest
  <1>9. Buffered' /\ Quiet' /\ AfterFront'
    BY <1>1, <1>2 DEF Dialogue, Buffered, Quiet, AfterFront
  <1>. QED
    BY <1>7, <1>8, <1>9 DEF Dialogue

\* front writes a node of its answer.
LEMMA DialogueWrites ==
    ASSUME Shape, Dialogue, FrontWrite
    PROVE  Dialogue'
  <1>1. /\ front = "write" /\ FrontUp /\ reply # <<>> /\ FrontUp' /\ front' # "ask"
        /\ toBack' = Append(toBack, Head(reply)) /\ reply' = Tail(reply)
        /\ UNCHANGED <<pc, todo, stdout, draining, received, responses, back, got, answers, handled, toFront>>
    BY DEF FrontWrite, Shape, Buffers, FrontUp, backVars
  <1>2. InTransit' = InTransit
    BY StreamMoves DEF Moves
  <1>3. Answering
    BY <1>1 DEF Dialogue, InStep, Even
  <1>4. received' \o (toBack' \o reply') = received \o (toBack \o reply)
    <2>1. toBack \in Seq(SerialNode) /\ reply \in Seq(SerialNode)
      BY DEF Shape, Typed
    <2>2. Append(toBack, Head(reply)) \o Tail(reply) = toBack \o reply
      BY <1>1, <2>1, MoveNode
    <2>. QED
      BY <1>1, <2>2, Zenon
  <1>5. Answering'
    BY <1>1, <1>2, <1>3, <1>4 DEF Answering
  <1>6. InStep'
    BY <1>5 DEF InStep
  <1>7. LastRequest' /\ Buffered' /\ Quiet' /\ AfterFront'
    BY <1>1, <1>2 DEF Dialogue, LastRequest, Buffered, Quiet, AfterFront
  <1>. QED
    BY <1>6, <1>7 DEF Dialogue

\* front dies: what back has are front's answers.
LEMMA DialogueFrontEnds ==
    ASSUME Shape, Dialogue, FrontBrokenPipe \/ FrontCrash \/ FrontReadThrows
    PROVE  Dialogue'
  <1>1. /\ FrontUp /\ front' = "died" /\ ~FrontUp'
        /\ UNCHANGED <<pc, todo, stdout, draining, received, responses, back, answers>>
    BY DEF FrontBrokenPipe, FrontCrash, FrontReadThrows, FrontUp, backVars
  <1>2. Agree(Len(responses))
    BY <1>1, InStepAgrees DEF Dialogue
  <1>3. AfterFront'
    BY <1>1, <1>2 DEF AfterFront, Agree
  <1>4. InStep' /\ LastRequest' /\ Quiet' /\ Buffered'
    BY <1>1 DEF Dialogue, InStep, LastRequest, Quiet, Buffered
  <1>. QED
    BY <1>3, <1>4 DEF Dialogue

\* back ends, and what it had yet to write with it.
LEMMA DialogueBackEnds ==
    ASSUME Shape, Dialogue, Ends
    PROVE  Dialogue'
  <1>1. /\ back = "up" /\ back' # "up"
        /\ UNCHANGED <<received, responses, toFront, toBack, got, reply, answers, handled, front>>
        /\ FrontUp' = FrontUp /\ todo' = <<>> /\ stdout' = <<>>
    BY DEF Ends, BackExit, BackBrokenPipe, BackCrash, BackReadThrows, BackGone, Does, frontVars, FrontUp
  <1>2. /\ HasRequest(InTransit') => HasRequest(InTransit)
        /\ RequestIsLast(InTransit) => RequestIsLast(InTransit')
        /\ InTransit = <<>> => InTransit' = <<>>
    <2> DEFINE s == got \o toFront
               v == stdout \o todo
    <2>1. /\ got \in Seq(SerialNode) /\ toFront \in Seq(SerialNode)
          /\ s \in Seq(SerialNode) /\ v \in Seq(SerialNode)
      BY StreamType, ConcatProperties
    <2>2. InTransit = got \o (toFront \o v)
      BY DEF InTransit
    <2>3. <<>> \o <<>> = <<>> /\ toFront \o <<>> = toFront
      BY <2>1, ConcatEmptySeq
    <2>4. InTransit' = s
      BY <1>1, <2>3, Zenon DEF InTransit
    <2> HIDE DEF v
    <2>5. (got \o toFront) \o v = got \o (toFront \o v)
      BY <2>1, ConcatAssociative
    <2>6. InTransit = s \o v
      BY <2>2, <2>5, Zenon
    <2> HIDE DEF s
    <2>7. /\ HasRequest(s) => HasRequest(s \o v)
          /\ RequestIsLast(s \o v) => RequestIsLast(s)
          /\ s \o v = <<>> => s = <<>>
      BY <2>1, StreamCut, ConcatEqualIffEmpty
    <2>. QED
      BY <2>4, <2>6, <2>7, Zenon
  <1>3. InStep'
    BY <1>1, <1>2 DEF Dialogue, InStep, Even, Answering
  <1>4. LastRequest'
    BY <1>1, <1>2 DEF Dialogue, LastRequest
  <1>5. Quiet'
    BY <1>1, <1>2 DEF Dialogue, Quiet, FrontUp
  <1>6. Buffered' /\ AfterFront'
    BY <1>1 DEF Dialogue, Buffered, AfterFront, Agree
  <1>. QED
    BY <1>3, <1>4, <1>5, <1>6 DEF Dialogue

\* Request and answer stay in step in every state.
LEMMA DialogueStep == Shape /\ Dialogue /\ [Next]_vars => Dialogue'
  <1> SUFFICES ASSUME Shape, Dialogue, [Next]_vars PROVE Dialogue'
    OBVIOUS
  <1>1. CASE Moves
    BY <1>1, DialogueMoves, DialogueFlush, DialogueRead, DialogueReadEof, DialogueWrites,
       DialogueAnswers DEF Moves
  <1>2. CASE UNCHANGED vars
    <2>1. /\ UNCHANGED <<pc, todo, stdout, draining, received, responses, back>>
          /\ UNCHANGED <<toFront, toBack, got, reply, answers, front>>
      BY <1>2 DEF vars, backVars, frontVars
    <2>2. InTransit' = InTransit /\ FrontUp' = FrontUp
      BY <2>1 DEF InTransit, FrontUp
    <2>. QED
      BY <2>1, <2>2 DEF Dialogue, InStep, Even, Answering, LastRequest, Buffered, Quiet,
         AfterFront, Agree
  <1>. QED
    BY <1>1, <1>2, StepKinds, DialogueWritten, DialogueHandle, DialogueFrontEof,
       DialogueFrontEnds, DialogueBackEnds

\* ... beginning with no request.
LEMMA DialogueInit == Init => Dialogue
  <1> SUFFICES ASSUME Init PROVE Dialogue
    OBVIOUS
  <1>1. InTransit = <<>>
    <2>1. <<>> \o <<>> = <<>>
      OBVIOUS
    <2>. QED
      BY <2>1 DEF Init, InTransit
  <1>2. InStep
    BY DEF Init, InStep, Even
  <1>3. LastRequest
    BY <1>1, NoRequest DEF LastRequest
  <1>4. Buffered
    <2>1. ~AsksAt(pc - 1)
      BY ScriptType DEF Init, AsksAt, Performs
    <2>. QED
      BY <2>1 DEF Buffered
  <1>5. Quiet /\ AfterFront
    BY DEF Init, Quiet, AfterFront, FrontUp
  <1>. QED
    BY <1>2, <1>3, <1>4, <1>5 DEF Dialogue

\* The invariant ResponsesAreAnswers: a request for input and its answer do not get
\* out of step, whatever is in the buffers and the pipes, and whichever program is
\* killed at what moment.
THEOREM ResponsesCorrect == Spec => []ResponsesAreAnswers
  <1>1. Shape /\ Dialogue => ResponsesAreAnswers
    <2> SUFFICES ASSUME Shape, Dialogue PROVE ResponsesAreAnswers
      OBVIOUS
    <2>1. /\ answers \in Seq(Seq(SerialNode)) /\ Len(answers) \in Nat
          /\ responses \in Seq(Seq(SerialNode)) /\ Len(responses) \in Nat
      BY LenProperties DEF Shape, Typed
    <2>2. FrontUp => IsPrefix(responses, answers) /\ Len(answers) <= Len(responses) + 1
      <3> SUFFICES ASSUME FrontUp
                   PROVE  IsPrefix(responses, answers) /\ Len(answers) <= Len(responses) + 1
        OBVIOUS
      <3>1. /\ Agree(Len(responses))
            /\ Len(responses) <= Len(answers) /\ Len(answers) <= Len(responses) + 1
        BY <2>1, InStepAgrees DEF Dialogue, InStep
      <3> DEFINE p == SubSeq(responses, 1, Len(responses))
                 q == SubSeq(answers, 1, Len(responses))
      <3>2. /\ Len(responses) \in 0..Len(responses) /\ Len(responses) \in 0..Len(answers)
        BY <2>1, <3>1
      <3>3. /\ p \in Seq(Seq(SerialNode)) /\ Len(p) = Len(responses)
            /\ \A i \in 1..Len(responses) : p[i] = responses[i]
        BY <2>1, <3>2, PrefixType
      <3>4. /\ q \in Seq(Seq(SerialNode)) /\ Len(q) = Len(responses)
            /\ \A i \in 1..Len(responses) : q[i] = answers[i]
        BY <2>1, <3>2, PrefixType
      <3>5. \A i \in 1..Len(responses) : responses[i] = answers[i]
        BY <2>1, <3>1 DEF Agree
      <3> HIDE DEF p, q
      <3>6. p = q
        BY <3>3, <3>4, <3>5, SeqEqual
      <3>. QED
        BY <3>1, <3>6 DEF IsPrefix, p, q
    <2>3. ~FrontUp => Agree(Len(responses) - 1)
      BY <2>1 DEF Dialogue, AfterFront, Agree
    <2>4. front = "ask" /\ back = "up" => Does("deserialize") /\ toBack = <<>> /\ received = <<>>
      <3> SUFFICES ASSUME front = "ask", back = "up"
                   PROVE  Does("deserialize") /\ toBack = <<>> /\ received = <<>>
        OBVIOUS
      <3>1. FrontUp /\ InTransit = <<>> /\ Len(answers) = Len(responses) /\ AsksAt(pc - 2)
        BY DEF FrontUp, Dialogue, Quiet
      <3>2. stdout = <<>> /\ todo = <<>> /\ ~draining
        BY <3>1, StreamEmpty DEF Shape, Buffers
      <3>3. Performs(pc, "deserialize")
        BY <3>1, ScriptOrder DEF Shape, Typed
      <3>4. Does("deserialize")
        BY <3>2, <3>3, ScriptType DEF Does, Performs
      <3>5. Even
        BY <2>1, <3>1, InStepAgrees DEF Dialogue, InStep
      <3>. QED
        BY <3>4, <3>5 DEF Even
    <2>. QED
      BY <2>2, <2>3, <2>4 DEF ResponsesAreAnswers, Agree
  <1>2. Init => Shape /\ Dialogue
    BY ShapeInit, DialogueInit
  <1>3. (Shape /\ Dialogue) /\ [Next]_vars => (Shape /\ Dialogue)'
    BY ShapeStep, DialogueStep
  <1>. QED
    BY <1>1, <1>2, <1>3, PTL DEF Spec

-----------------------------------------------------------------------------
(* Where terms end ------------------------------------------------------- *)

\* After the first k nodes of s fewer terms are missing than ever before, i fewer
\* than at the start.
EndsAt(s, k, i) ==
    /\ k \in 0..Len(s) /\ MissingAt(s, k) = 1 - i
    /\ \A j \in 0..(k - 1) : MissingAt(s, j) > 1 - i

\* There are n terms in s: n fewer terms are missing at some place, and nowhere more.
Counts(s, n) ==
    /\ n \in 0..Len(s)
    /\ \E k \in 0..Len(s) : MissingAt(s, k) = 1 - n
    /\ \A k \in 0..Len(s) : MissingAt(s, k) >= 1 - n

\* A term has one end.
LEMMA EndIs ==
    ASSUME NEW s \in Seq(SerialNode), NEW i \in Int, NEW k, EndsAt(s, k, i)
    PROVE  EndOf(s, i) = k
  <1> DEFINE P(m) == MissingAt(s, m) = 1 - i /\ \A j \in 0..(m - 1) : MissingAt(s, j) > 1 - i
  <1>1. k \in 0..Len(s) /\ P(k) /\ Len(s) \in Nat
    BY LenProperties DEF EndsAt
  <1>2. \A m \in 0..Len(s) : P(m) => m = k
    <2> SUFFICES ASSUME NEW m \in 0..Len(s), P(m) PROVE m = k
      OBVIOUS
    <2>1. MissingAt(s, m) = 1 - i /\ MissingAt(s, k) = 1 - i
      BY <1>1
    <2>2. ~ (m < k)
      <3>1. m < k => m \in 0..(k - 1)
        BY <1>1
      <3>. QED
        BY <1>1, <2>1, <3>1
    <2>3. ~ (k < m)
      <3>1. k < m => k \in 0..(m - 1)
        BY <1>1
      <3>. QED
        BY <2>1, <3>1
    <2>. QED
      BY <1>1, <2>2, <2>3
  <1>3. EndOf(s, i) = CHOOSE m \in 0..Len(s) : P(m)
    BY DEF EndOf
  <1> HIDE DEF P
  <1>. QED
    BY <1>1, <1>2, <1>3

\* The number of terms is one number.
LEMMA CountIs ==
    ASSUME NEW s \in Seq(SerialNode), NEW n, Counts(s, n)
    PROVE  TermCount(s) = n
  <1> DEFINE P(m) == /\ \E k \in 0..Len(s) : MissingAt(s, k) = 1 - m
                     /\ \A k \in 0..Len(s) : MissingAt(s, k) >= 1 - m
  <1>1. n \in 0..Len(s) /\ P(n) /\ Len(s) \in Nat
    BY LenProperties DEF Counts
  <1>2. \A m \in 0..Len(s) : P(m) => m = n
    <2> SUFFICES ASSUME NEW m \in 0..Len(s), P(m) PROVE m = n
      OBVIOUS
    <2>1. PICK k \in 0..Len(s) : MissingAt(s, k) = 1 - m
      OBVIOUS
    <2>2. PICK l \in 0..Len(s) : MissingAt(s, l) = 1 - n
      BY <1>1
    <2>3. MissingAt(s, k) >= 1 - n /\ MissingAt(s, l) >= 1 - m
      BY <1>1
    <2>4. 1 - m >= 1 - n /\ 1 - n >= 1 - m
      BY <2>1, <2>2, <2>3
    <2>5. m \in Int /\ n \in Int
      BY <1>1
    <2>. QED
      BY <2>4, <2>5
  <1>3. TermCount(s) = CHOOSE m \in 0..Len(s) : P(m)
    BY DEF TermCount
  <1> HIDE DEF P
  <1>. QED
    BY <1>1, <1>2, <1>3

\* A node makes room for any number of terms and fills the place of one.
LEMMA MissingStep ==
    ASSUME NEW s \in Seq(SerialNode), NEW k \in 0..(Len(s) - 1)
    PROVE  MissingAt(s, k + 1) >= MissingAt(s, k) - 1
  <1>1. k + 1 \in 1..Len(s) /\ k \in 0..Len(s)
    BY LenProperties
  <1>2. s[k + 1] \in SerialNode
    BY <1>1, ElementOfSeq
  <1>3. s[k + 1].args \in Nat
    BY <1>2 DEF SerialNode
  <1>. QED
    BY <1>1, <1>3, MissingNext, MissingAtType

\* The places that are left are at most as many as there are nodes.
LEMMA MissingLeast ==
    ASSUME NEW s \in Seq(SerialNode), NEW k \in 0..Len(s)
    PROVE  MissingAt(s, k) >= 1 - k
  <1> DEFINE p == SubSeq(s, 1, k)
  <1>1. p \in Seq(SerialNode) /\ Len(p) = k
    BY PrefixType
  <1> HIDE DEF p
  <1>2. Cardinality(Slots(p)) \in Nat
    BY <1>1, SlotsFinite, FS_CardinalityType
  <1>. QED
    BY <1>1, <1>2 DEF Missing, MissingAt, p

\* The terms of a sequence of nodes can be counted.
LEMMA CountExists ==
    ASSUME NEW s \in Seq(SerialNode)
    PROVE  Counts(s, TermCount(s))
  <1> DEFINE W == {MissingAt(s, k) + Len(s) - 1 : k \in 0..Len(s)}
  <1>1. Len(s) \in Nat /\ \A k \in 0..Len(s) : MissingAt(s, k) \in Int /\ MissingAt(s, k) >= 1 - k
    BY LenProperties, MissingAtType, MissingLeast
  <1>2. \A k \in 0..Len(s) : MissingAt(s, k) + Len(s) - 1 \in Nat
    BY <1>1
  <1>3. W \subseteq Nat /\ MissingAt(s, 0) + Len(s) - 1 \in W
    BY <1>1, <1>2
  <1>4. PICK x \in W : \A y \in W : x <= y
    <2> HIDE DEF W
    <2>1. W \in SUBSET Nat /\ W # {}
      BY <1>3
    <2>. QED
      BY <2>1, LeastNumber
  <1>5. PICK k \in 0..Len(s) : x = MissingAt(s, k) + Len(s) - 1
    OBVIOUS
  <1> DEFINE n == Len(s) - x
  <1>6. x \in Nat /\ x <= Len(s)
    <2>1. x <= MissingAt(s, 0) + Len(s) - 1
      BY <1>3, <1>4
    <2>. QED
      BY <1>1, <1>3, <2>1, MissingAtEnds
  <1>7. MissingAt(s, k) = 1 - n /\ n \in 0..Len(s)
    <2>1. MissingAt(s, k) \in Int /\ Len(s) \in Nat
      BY <1>1
    <2>2. n = Len(s) - x /\ x = MissingAt(s, k) + Len(s) - 1 /\ x \in Nat /\ x <= Len(s)
      BY <1>5, <1>6
    <2> HIDE DEF n, W
    <2>. QED
      BY <2>1, <2>2
  <1>8. \A l \in 0..Len(s) : MissingAt(s, l) >= 1 - n
    <2>1. \A l \in 0..Len(s) : x <= MissingAt(s, l) + Len(s) - 1
      BY <1>4
    <2>. QED
      BY <1>1, <1>6, <2>1
  <1> HIDE DEF n
  <1>9. Counts(s, n)
    BY <1>7, <1>8 DEF Counts
  <1>. QED
    BY <1>9, CountIs

\* Every term that is counted has an end.
LEMMA EndExists ==
    ASSUME NEW s \in Seq(SerialNode), NEW i \in 0..TermCount(s)
    PROVE  EndsAt(s, EndOf(s, i), i)
  <1> DEFINE W == {k \in 0..Len(s) : MissingAt(s, k) <= 1 - i}
  <1>1. Len(s) \in Nat /\ TermCount(s) \in Nat /\ Counts(s, TermCount(s))
    BY CountExists, LenProperties DEF Counts
  <1>2. \A k \in 0..Len(s) : MissingAt(s, k) \in Int
    BY MissingAtType
  <1>3. W \subseteq Nat /\ W # {}
    <2>1. PICK k \in 0..Len(s) : MissingAt(s, k) = 1 - TermCount(s)
      BY <1>1 DEF Counts
    <2>2. k \in W
      BY <1>1, <1>2, <2>1
    <2>. QED
      BY <2>2
  <1>4. PICK k \in W : \A l \in W : k <= l
    <2> HIDE DEF W
    <2>1. W \in SUBSET Nat /\ W # {}
      BY <1>3
    <2>. QED
      BY <2>1, LeastNumber
  <1>5. k \in 0..Len(s) /\ MissingAt(s, k) <= 1 - i
    BY <1>4
  <1>6. \A j \in 0..(k - 1) : MissingAt(s, j) > 1 - i
    <2> TAKE j \in 0..(k - 1)
    <2>1. j \in 0..Len(s) /\ ~ (k <= j)
      BY <1>1, <1>5
    <2>2. j \notin W
      BY <1>4, <2>1
    <2>. QED
      BY <1>1, <1>2, <2>1, <2>2
  <1>7. MissingAt(s, k) = 1 - i
    <2>1. CASE k = 0
      BY <1>1, <1>5, <2>1, MissingAtEnds
    <2>2. CASE k # 0
      <3>1. k - 1 \in 0..(Len(s) - 1) /\ k - 1 \in 0..(k - 1) /\ (k - 1) + 1 = k
            /\ k - 1 \in 0..Len(s)
        BY <1>1, <1>5, <2>2
      <3>2. MissingAt(s, (k - 1) + 1) >= MissingAt(s, k - 1) - 1
        BY <3>1, MissingStep
      <3>3. MissingAt(s, k - 1) > 1 - i
        BY <1>6, <3>1
      <3>. QED
        BY <1>1, <1>2, <1>5, <3>1, <3>2, <3>3
    <2>. QED
      BY <2>1, <2>2
  <1>8. EndsAt(s, k, i) /\ i \in Int
    BY <1>1, <1>5, <1>6, <1>7 DEF EndsAt
  <1>. QED
    BY <1>8, EndIs

\* The nodes from one place to another.
LEMMA PartType ==
    ASSUME NEW S, NEW s \in Seq(S), NEW a \in 0..Len(s), NEW b \in a..Len(s)
    PROVE  /\ SubSeq(s, a + 1, b) \in Seq(S) /\ Len(SubSeq(s, a + 1, b)) = b - a
           /\ \A j \in 1..(b - a) : SubSeq(s, a + 1, b)[j] = s[a + j]
  <1>1. Len(s) \in Nat /\ a \in Int /\ b \in Int /\ a <= b /\ \A j \in (a + 1)..b : s[j] \in S
    BY LenProperties, ElementOfSeq
  <1>2. /\ SubSeq(s, a + 1, b) \in Seq(S)
        /\ Len(SubSeq(s, a + 1, b)) = IF a + 1 <= b THEN b - (a + 1) + 1 ELSE 0
        /\ \A j \in 1..(b - (a + 1) + 1) : SubSeq(s, a + 1, b)[j] = s[(a + 1) + j - 1]
    BY <1>1, SubSeqProperties
  <1>. QED
    BY <1>1, <1>2

\* What is missing at one place is what was missing at an earlier one, and what the
\* nodes in between make of it.
LEMMA MissingPart ==
    ASSUME NEW s \in Seq(SerialNode), NEW a \in 0..Len(s), NEW b \in a..Len(s)
    PROVE  MissingAt(s, b) = MissingAt(s, a) + Missing(SubSeq(s, a + 1, b)) - 1
  <1> DEFINE p == SubSeq(s, 1, a)
             q == SubSeq(s, 1, b)
             m == SubSeq(s, a + 1, b)
  <1>1. Len(s) \in Nat /\ b \in 0..Len(s) /\ a <= b
    BY LenProperties
  <1>2. /\ p \in Seq(SerialNode) /\ Len(p) = a /\ \A j \in 1..a : p[j] = s[j]
        /\ q \in Seq(SerialNode) /\ Len(q) = b /\ \A j \in 1..b : q[j] = s[j]
    BY <1>1, PrefixType
  <1>3. m \in Seq(SerialNode) /\ Len(m) = b - a /\ \A j \in 1..(b - a) : m[j] = s[a + j]
    BY PartType
  <1> HIDE DEF p, q, m
  <1>4. /\ Len(q) = Len(p) + Len(m)
        /\ \A j \in 1..Len(p) : q[j] = p[j]
        /\ \A j \in 1..Len(m) : q[j + Len(p)] = m[j]
    <2>1. Len(q) = Len(p) + Len(m)
      BY <1>1, <1>2, <1>3
    <2>2. \A j \in 1..Len(p) : q[j] = p[j]
      BY <1>1, <1>2
    <2>3. ASSUME NEW j \in 1..Len(m)
          PROVE  q[j + Len(p)] = m[j]
      <3>1. j \in 1..(b - a) /\ j + Len(p) \in 1..b /\ j + Len(p) = a + j
        BY <1>1, <1>2, <1>3
      <3>. QED
        BY <1>2, <1>3, <3>1
    <2>. QED
      BY <2>1, <2>2, <2>3
  <1>5. Missing(q) = Missing(p) + Missing(m) - 1
    BY <1>2, <1>3, <1>4, MissingParts
  <1>. QED
    BY <1>5 DEF MissingAt, p, q, m

\* The ends of the terms, one after the other.
LEMMA EndsAre ==
    ASSUME NEW s \in Seq(SerialNode)
    PROVE  /\ TermCount(s) \in 0..Len(s) /\ TermCount(s) \in Nat
           /\ \A i \in 0..TermCount(s) :
                 /\ EndOf(s, i) \in 0..Len(s) /\ MissingAt(s, EndOf(s, i)) = 1 - i
                 /\ \A j \in 0..(EndOf(s, i) - 1) : MissingAt(s, j) > 1 - i
           /\ \A i \in 1..TermCount(s) : i - 1 \in 0..TermCount(s) /\ EndOf(s, i - 1) < EndOf(s, i)
  <1>1. TermCount(s) \in 0..Len(s) /\ TermCount(s) \in Nat
    BY CountExists, LenProperties DEF Counts
  <1>2. ASSUME NEW i \in 0..TermCount(s)
        PROVE  /\ EndOf(s, i) \in 0..Len(s) /\ MissingAt(s, EndOf(s, i)) = 1 - i
               /\ \A j \in 0..(EndOf(s, i) - 1) : MissingAt(s, j) > 1 - i
    BY EndExists DEF EndsAt
  <1>3. ASSUME NEW i \in 1..TermCount(s)
        PROVE  i - 1 \in 0..TermCount(s) /\ EndOf(s, i - 1) < EndOf(s, i)
    <2> DEFINE a == EndOf(s, i - 1)
               b == EndOf(s, i)
    <2>1. i - 1 \in 0..TermCount(s) /\ i \in 0..TermCount(s)
      BY <1>1
    <2>2. /\ a \in 0..Len(s) /\ b \in 0..Len(s) /\ Len(s) \in Nat
          /\ MissingAt(s, a) = 1 - (i - 1) /\ MissingAt(s, b) = 1 - i
          /\ \A j \in 0..(a - 1) : MissingAt(s, j) > 1 - (i - 1)
      BY <1>2, <2>1, LenProperties
    <2> HIDE DEF a, b
    <2>3. a # b
      BY <2>1, <2>2
    <2>4. ~ (b < a)
      <3>1. b < a => b \in 0..(a - 1)
        BY <2>2
      <3>. QED
        BY <2>1, <2>2, <3>1
    <2>. QED
      BY <2>1, <2>2, <2>3, <2>4 DEF a, b
  <1>. QED
    BY <1>1, <1>2, <1>3

\* Each term of a sequence of nodes is complete.
LEMMA TermsAre ==
    ASSUME NEW s \in Seq(SerialNode)
    PROVE  /\ TermsOf(s) \in Seq(Seq(SerialNode)) /\ Len(TermsOf(s)) = TermCount(s)
           /\ \A i \in 1..TermCount(s) :
                 /\ TermsOf(s)[i] = SubSeq(s, EndOf(s, i - 1) + 1, EndOf(s, i))
                 /\ Missing(TermsOf(s)[i]) = 0
  <1> DEFINE f == TermsOf(s)
             n == TermCount(s)
             e(i) == EndOf(s, i)
  <1>1. /\ n \in Nat /\ Len(s) \in Nat
        /\ \A i \in 0..n : e(i) \in 0..Len(s) /\ MissingAt(s, e(i)) = 1 - i
        /\ \A i \in 1..n : i - 1 \in 0..n /\ i \in 0..n /\ e(i - 1) < e(i)
    BY EndsAre, LenProperties
  <1> HIDE DEF e
  <1>2. ASSUME NEW i \in 1..n
        PROVE  /\ SubSeq(s, e(i - 1) + 1, e(i)) \in Seq(SerialNode)
               /\ Missing(SubSeq(s, e(i - 1) + 1, e(i))) = 0
    <2> DEFINE a == e(i - 1)
               b == e(i)
    <2>1. a \in 0..Len(s) /\ b \in a..Len(s) /\ MissingAt(s, a) = 1 - (i - 1) /\ MissingAt(s, b) = 1 - i
      BY <1>1
    <2> HIDE DEF a, b
    <2>2. SubSeq(s, a + 1, b) \in Seq(SerialNode)
      BY <2>1, PartType
    <2>3. MissingAt(s, b) = MissingAt(s, a) + Missing(SubSeq(s, a + 1, b)) - 1
      BY <2>1, MissingPart
    <2>4. Missing(SubSeq(s, a + 1, b)) \in Int
      BY <2>2, MissingType
    <2>5. Missing(SubSeq(s, a + 1, b)) = 0
      BY <2>1, <2>3, <2>4
    <2>. QED
      BY <2>2, <2>5 DEF a, b
  <1>3. f = [i \in 1..n |-> SubSeq(s, e(i - 1) + 1, e(i))]
    BY DEF TermsOf, e
  <1> HIDE DEF f, n
  <1>4. f \in [1..n -> Seq(SerialNode)]
    BY <1>2, <1>3
  <1>5. f \in Seq(Seq(SerialNode)) /\ Len(f) = n
    BY <1>1, <1>4, FunctionIsSeq
  <1>6. \A i \in 1..n : f[i] = SubSeq(s, e(i - 1) + 1, e(i))
    BY <1>3
  <1>7. \A i \in 1..n : Missing(f[i]) = 0
    BY <1>2, <1>6
  <1>. QED
    BY <1>5, <1>6, <1>7 DEF f, n, e

\* What comes after the last complete term is not a term yet.
LEMMA LeftoverIs ==
    ASSUME NEW s \in Seq(SerialNode)
    PROVE  Leftover(s) \in Seq(SerialNode) /\ Incomplete(Leftover(s))
  <1> DEFINE n == TermCount(s)
             a == EndOf(s, n)
             t == Leftover(s)
  <1>1. /\ n \in Nat /\ Len(s) \in Nat /\ a \in 0..Len(s) /\ MissingAt(s, a) = 1 - n
    BY EndsAre, LenProperties
  <1>2. \A k \in 0..Len(s) : MissingAt(s, k) >= 1 - n
    BY CountExists DEF Counts
  <1>3. t = SubSeq(s, a + 1, Len(s))
    BY DEF Leftover
  <1> HIDE DEF n, a, t
  <1>4. /\ t \in Seq(SerialNode) /\ Len(t) = Len(s) - a
        /\ \A j \in 1..(Len(s) - a) : t[j] = s[a + j]
    <2>1. Len(s) \in a..Len(s)
      BY <1>1
    <2>. QED
      BY <1>1, <1>3, <2>1, PartType
  <1>5. ASSUME NEW k \in 0..Len(t)
        PROVE  MissingAt(t, k) > 0
    <2> DEFINE b == a + k
               u == SubSeq(t, 1, k)
               v == SubSeq(s, a + 1, b)
    <2>1. b \in 0..Len(s) /\ b \in a..Len(s) /\ b - a = k
      BY <1>1, <1>4
    <2>2. u \in Seq(SerialNode) /\ Len(u) = k /\ \A j \in 1..k : u[j] = t[j]
      BY <1>4, PrefixType
    <2> HIDE DEF b
    <2>3. v \in Seq(SerialNode) /\ Len(v) = b - a /\ \A j \in 1..(b - a) : v[j] = s[a + j]
      BY <1>1, <2>1, PartType
    <2>4. MissingAt(s, b) = MissingAt(s, a) + Missing(v) - 1
      BY <1>1, <2>1, MissingPart
    <2> HIDE DEF u, v
    <2>5. u = v
      <3>1. ASSUME NEW j \in 1..k
            PROVE  u[j] = v[j]
        <4>1. j \in 1..(b - a) /\ j \in 1..(Len(s) - a)
          BY <1>1, <1>4, <2>1
        <4>. QED
          BY <1>4, <2>2, <2>3, <4>1
      <3>. QED
        BY <2>1, <2>2, <2>3, <3>1, SeqEqual
    <2>6. MissingAt(s, b) >= 1 - n /\ Missing(v) \in Int
      BY <1>2, <2>1, <2>3, MissingType
    <2>7. Missing(u) > 0
      BY <1>1, <2>4, <2>5, <2>6
    <2>. QED
      BY <2>7 DEF MissingAt, u
  <1>. QED
    BY <1>4, <1>5 DEF Incomplete, t

(* The terms of a longer and of a shorter stream -------------------------- *)

\* What follows in the stream does not matter for the terms before it.
LEMMA PrefixTerms ==
    ASSUME NEW p \in Seq(SerialNode), NEW q \in Seq(SerialNode)
    PROVE  /\ TermCount(p) <= TermCount(p \o q)
           /\ \A i \in 0..TermCount(p) : EndOf(p \o q, i) = EndOf(p, i)
           /\ \A i \in 1..TermCount(p) : TermsOf(p \o q)[i] = TermsOf(p)[i]
  <1> DEFINE s == p \o q
             n == TermCount(p)
  <1>1. /\ s \in Seq(SerialNode) /\ Len(s) = Len(p) + Len(q) /\ Len(p) \in Nat /\ Len(q) \in Nat
        /\ \A j \in 1..Len(p) : s[j] = p[j]
    BY ConcatProperties, LenProperties
  <1>2. \A k \in 0..Len(p) : k \in 0..Len(s) /\ MissingAt(s, k) = MissingAt(p, k)
    BY <1>1, MissingAtFirst
  <1> HIDE DEF s
  <1>3. /\ n \in Nat
        /\ \A i \in 0..n :
              /\ EndOf(p, i) \in 0..Len(p) /\ MissingAt(p, EndOf(p, i)) = 1 - i
              /\ \A j \in 0..(EndOf(p, i) - 1) : MissingAt(p, j) > 1 - i
        /\ \A i \in 1..n : i - 1 \in 0..n /\ i \in 0..n /\ EndOf(p, i - 1) < EndOf(p, i)
    BY EndsAre
  <1> HIDE DEF n
  <1>4. n <= TermCount(s)
    <2>1. EndOf(p, n) \in 0..Len(p) /\ MissingAt(p, EndOf(p, n)) = 1 - n
      BY <1>3
    <2>2. EndOf(p, n) \in 0..Len(s) /\ MissingAt(s, EndOf(p, n)) = 1 - n
      BY <1>2, <2>1
    <2>3. 1 - n >= 1 - TermCount(s) /\ TermCount(s) \in Nat
      BY <1>1, <2>2, CountExists, EndsAre DEF Counts
    <2>. QED
      BY <1>3, <2>3
  <1>5. ASSUME NEW i \in 0..n
        PROVE  EndOf(s, i) = EndOf(p, i)
    <2> DEFINE e == EndOf(p, i)
    <2>1. /\ e \in 0..Len(p) /\ MissingAt(p, e) = 1 - i
          /\ \A j \in 0..(e - 1) : MissingAt(p, j) > 1 - i
      BY <1>3
    <2> HIDE DEF e
    <2>2. \A j \in 0..(e - 1) : j \in 0..Len(p)
      BY <1>1, <2>1
    <2>3. EndsAt(s, e, i) /\ i \in Int
      BY <1>2, <2>1, <2>2 DEF EndsAt
    <2>. QED
      BY <1>1, <2>3, EndIs DEF e
  <1>6. ASSUME NEW i \in 1..n
        PROVE  TermsOf(s)[i] = TermsOf(p)[i]
    <2> DEFINE a == EndOf(p, i - 1)
               b == EndOf(p, i)
    <2>1. /\ EndOf(s, i - 1) = a /\ EndOf(s, i) = b
          /\ a \in 0..Len(p) /\ b \in a..Len(p)
      BY <1>1, <1>3, <1>5
    <2>2. i \in 1..TermCount(s)
      <3>1. TermCount(s) \in Nat
        BY <1>1, EndsAre
      <3>. QED
        BY <1>3, <1>4, <3>1
    <2>3. TermsOf(s)[i] = SubSeq(s, a + 1, b)
      BY <1>1, <2>1, <2>2, TermsAre
    <2>4. TermsOf(p)[i] = SubSeq(p, a + 1, b)
      BY TermsAre DEF n
    <2> HIDE DEF a, b
    <2>5. a \in 0..Len(s) /\ b \in a..Len(s) /\ \A j \in 1..(b - a) : a + j \in 1..Len(p)
      BY <1>1, <2>1
    <2>6. /\ SubSeq(s, a + 1, b) \in Seq(SerialNode) /\ Len(SubSeq(s, a + 1, b)) = b - a
          /\ \A j \in 1..(b - a) : SubSeq(s, a + 1, b)[j] = s[a + j]
      BY <1>1, <2>5, PartType
    <2>7. /\ SubSeq(p, a + 1, b) \in Seq(SerialNode) /\ Len(SubSeq(p, a + 1, b)) = b - a
          /\ \A j \in 1..(b - a) : SubSeq(p, a + 1, b)[j] = p[a + j]
      BY <2>1, PartType
    <2>8. \A j \in 1..(b - a) : SubSeq(s, a + 1, b)[j] = SubSeq(p, a + 1, b)[j]
      BY <1>1, <2>5, <2>6, <2>7
    <2>9. SubSeq(s, a + 1, b) = SubSeq(p, a + 1, b)
      BY <2>6, <2>7, <2>8, SeqEqual
    <2>. QED
      BY <2>3, <2>4, <2>9
  <1>. QED
    BY <1>4, <1>5, <1>6 DEF s, n

\* A stream that ends where a term ends has nothing left over.
LEMMA WholeTermsOf ==
    ASSUME NEW s \in Seq(SerialNode), Whole(s)
    PROVE  /\ TermCount(s) = 1 - Missing(s) /\ EndOf(s, TermCount(s)) = Len(s)
           /\ Leftover(s) = <<>>
  <1> DEFINE n == 1 - Missing(s)
  <1>1. /\ Len(s) \in Nat /\ Missing(s) \in Int
        /\ MissingAt(s, 0) = 1 /\ MissingAt(s, Len(s)) = Missing(s)
        /\ \A k \in 0..Len(s) : MissingAt(s, k) \in Int /\ MissingAt(s, k) >= 1 - k
    BY LenProperties, MissingType, MissingAtEnds, MissingAtType, MissingLeast
  <1>2. \A k \in 0..(Len(s) - 1) : MissingAt(s, k) > Missing(s)
    BY DEF Whole
  <1>3. n \in 0..Len(s) /\ Missing(s) = 1 - n
    <2>1. Missing(s) >= 1 - Len(s)
      BY <1>1
    <2>2. Missing(s) <= 1
      <3>1. CASE Len(s) = 0
        BY <1>1, <3>1
      <3>2. CASE Len(s) # 0
        <4>1. 0 \in 0..(Len(s) - 1)
          BY <1>1, <3>2
        <4>. QED
          BY <1>1, <1>2, <4>1
      <3>. QED
        BY <3>1, <3>2
    <2>. QED
      BY <1>1, <2>1, <2>2
  <1> HIDE DEF n
  <1>4. Counts(s, n)
    <2>1. \A k \in 0..Len(s) : MissingAt(s, k) >= 1 - n
      <3> TAKE k \in 0..Len(s)
      <3>1. k = Len(s) \/ k \in 0..(Len(s) - 1)
        BY <1>1
      <3>. QED
        BY <1>1, <1>2, <1>3, <3>1
    <2>2. Len(s) \in 0..Len(s)
      BY <1>1
    <2>. QED
      BY <1>1, <1>3, <2>1, <2>2 DEF Counts
  <1>5. EndsAt(s, Len(s), n) /\ n \in Int
    BY <1>1, <1>2, <1>3 DEF EndsAt
  <1>6. TermCount(s) = n /\ EndOf(s, n) = Len(s)
    BY <1>4, <1>5, CountIs, EndIs
  <1>7. SubSeq(s, Len(s) + 1, Len(s)) = <<>>
    BY <1>1, SubSeqEmpty
  <1>. QED
    BY <1>6, <1>7 DEF Leftover, n

\* A term that is not complete is left over, and nothing else.
LEMMA IncompleteTermsOf ==
    ASSUME NEW s \in Seq(SerialNode), Incomplete(s)
    PROVE  TermsOf(s) = <<>> /\ Leftover(s) = s
  <1>1. /\ Len(s) \in Nat /\ MissingAt(s, 0) = 1
        /\ \A k \in 0..Len(s) : MissingAt(s, k) > 0 /\ MissingAt(s, k) \in Int
    BY LenProperties, MissingAtEnds, MissingAtType DEF Incomplete
  <1>2. Counts(s, 0)
    <2>1. \A k \in 0..Len(s) : MissingAt(s, k) >= 1 - 0
      BY <1>1
    <2>. QED
      BY <1>1, <2>1 DEF Counts
  <1>3. EndsAt(s, 0, 0)
    BY <1>1 DEF EndsAt
  <1>4. TermCount(s) = 0 /\ EndOf(s, 0) = 0
    BY <1>2, <1>3, CountIs, EndIs
  <1>5. TermsOf(s) = <<>>
    <2>1. TermsOf(s) \in Seq(Seq(SerialNode)) /\ Len(TermsOf(s)) = 0
      BY <1>4, TermsAre
    <2>. QED
      BY <2>1, EmptySeq
  <1>6. Leftover(s) = SubSeq(s, 1, Len(s))
    BY <1>4 DEF Leftover
  <1>. QED
    BY <1>5, <1>6, SubSeqFull


\* The nodes of the second part of a stream.
LEMMA SecondPart ==
    ASSUME NEW t \in Seq(SerialNode), NEW u \in Seq(SerialNode),
           NEW a \in 0..Len(u), NEW b \in a..Len(u)
    PROVE  SubSeq(t \o u, (Len(t) + a) + 1, Len(t) + b) = SubSeq(u, a + 1, b)
  <1> DEFINE s == t \o u
             x == Len(t) + a
             y == Len(t) + b
  <1>1. /\ s \in Seq(SerialNode) /\ Len(s) = Len(t) + Len(u) /\ Len(t) \in Nat /\ Len(u) \in Nat
        /\ \A i \in 1..(Len(t) + Len(u)) : s[i] = IF i <= Len(t) THEN t[i] ELSE u[i - Len(t)]
    BY ConcatProperties, LenProperties
  <1>2. /\ x \in 0..Len(s) /\ y \in x..Len(s) /\ y - x = b - a /\ b - a \in Nat
        /\ x = Len(t) + a
    BY <1>1
  <1> HIDE DEF s, x, y
  <1>3. /\ SubSeq(s, x + 1, y) \in Seq(SerialNode) /\ Len(SubSeq(s, x + 1, y)) = y - x
        /\ \A j \in 1..(y - x) : SubSeq(s, x + 1, y)[j] = s[x + j]
    BY ONLY SMTT(60), <1>1, <1>2, PartType
  <1>4. /\ SubSeq(u, a + 1, b) \in Seq(SerialNode) /\ Len(SubSeq(u, a + 1, b)) = b - a
        /\ \A j \in 1..(b - a) : SubSeq(u, a + 1, b)[j] = u[a + j]
    BY PartType
  <1>5. ASSUME NEW j \in 1..(b - a)
        PROVE  SubSeq(s, x + 1, y)[j] = SubSeq(u, a + 1, b)[j]
    <2>1. /\ x + j \in 1..(Len(t) + Len(u)) /\ ~ (x + j <= Len(t)) /\ (x + j) - Len(t) = a + j
          /\ j \in 1..(y - x)
      BY <1>1, <1>2
    <2>2. s[x + j] = u[(x + j) - Len(t)]
      BY <1>1, <2>1
    <2>. QED
      BY <1>3, <1>4, <2>1, <2>2
  <1>6. SubSeq(s, x + 1, y) = SubSeq(u, a + 1, b)
    <2> DEFINE p == SubSeq(s, x + 1, y)
               q == SubSeq(u, a + 1, b)
    <2>1. /\ p \in Seq(SerialNode) /\ q \in Seq(SerialNode) /\ Len(p) = Len(q)
          /\ \A j \in 1..Len(p) : p[j] = q[j]
      BY <1>2, <1>3, <1>4, <1>5
    <2> HIDE DEF p, q
    <2>2. p = q
      BY ONLY <2>1, SeqEqual
    <2>. QED
      BY <2>2 DEF p, q
  <1>. QED
    BY <1>6 DEF s, x, y

\* The ends of the terms after a first one.
LEMMA LaterEnds ==
    ASSUME NEW t \in Seq(SerialNode), OneTerm(t), NEW u \in Seq(SerialNode)
    PROVE  /\ TermCount(t \o u) = TermCount(u) + 1 /\ EndOf(t \o u, 0) = 0
           /\ \A i \in 0..TermCount(u) : EndOf(t \o u, i + 1) = Len(t) + EndOf(u, i)
           /\ EndOf(u, 0) = 0
  <1> DEFINE s == t \o u
             n == Len(t)
             m == TermCount(u)
  <1>1. /\ s \in Seq(SerialNode) /\ Len(s) = n + Len(u) /\ n \in Nat \ {0} /\ Len(u) \in Nat
    BY ConcatProperties, LenProperties, OneTermNonempty
  <1>2. \A k \in 0..(n - 1) : MissingAt(s, k) > 0 /\ MissingAt(s, k) \in Int
    <2> TAKE k \in 0..(n - 1)
    <2>1. k \in 0..Len(t) /\ k \in 0..Len(s)
      BY <1>1
    <2>2. MissingAt(s, k) = MissingAt(t, k) /\ MissingAt(t, k) > 0
      BY <2>1, MissingAtFirst DEF OneTerm
    <2>. QED
      BY <1>1, <2>1, <2>2, MissingAtType
  <1>3. \A j \in 0..Len(u) : MissingAt(s, n + j) = MissingAt(u, j) - 1 /\ MissingAt(u, j) \in Int
    <2> TAKE j \in 0..Len(u)
    <2>1. MissingAt(s, n + j) = Missing(t) + MissingAt(u, j) - 1
      BY MissingAtSecond
    <2>. QED
      BY <2>1, MissingAtType DEF OneTerm
  <1>4. /\ m \in Nat /\ m \in 0..Len(u)
        /\ \A i \in 0..m :
              /\ EndOf(u, i) \in 0..Len(u) /\ MissingAt(u, EndOf(u, i)) = 1 - i
              /\ \A j \in 0..(EndOf(u, i) - 1) : MissingAt(u, j) > 1 - i
        /\ \A k \in 0..Len(u) : MissingAt(u, k) >= 1 - m
    BY EndsAre, CountExists DEF Counts
  <1>5. MissingAt(s, 0) = 1 /\ MissingAt(u, 0) = 1
    BY <1>1, MissingAtEnds
  <1>6. EndOf(s, 0) = 0 /\ EndOf(u, 0) = 0
    <2>1. EndsAt(s, 0, 0) /\ EndsAt(u, 0, 0)
      BY <1>1, <1>5 DEF EndsAt
    <2>2. 0 \in Int /\ s \in Seq(SerialNode)
      BY <1>1
    <2> HIDE DEF s
    <2>. QED
      BY <2>1, <2>2, EndIs
  <1> HIDE DEF s, n, m
  <1>7. \A k \in 0..Len(s) : k \in 0..(n - 1) \/ (k - n \in 0..Len(u) /\ k = n + (k - n))
    <2> TAKE k \in 0..Len(s)
    <2>1. k \in Nat /\ k <= n + Len(u) /\ n \in Nat /\ Len(u) \in Nat
      BY <1>1
    <2>. QED
      BY ONLY <2>1
  <1>8. Counts(s, m + 1)
    <2>1. n + EndOf(u, m) \in 0..Len(s) /\ MissingAt(s, n + EndOf(u, m)) = 1 - (m + 1)
      <3> DEFINE e == EndOf(u, m)
      <3>1. m \in 0..m /\ m \in Nat
        BY <1>4
      <3>2. e \in 0..Len(u) /\ MissingAt(u, e) = 1 - m
        BY <1>4, <3>1
      <3> HIDE DEF e
      <3>3. n + e \in 0..Len(s) /\ MissingAt(s, n + e) = 1 - (m + 1)
        BY <1>1, <1>3, <3>1, <3>2
      <3>. QED
        BY <3>3 DEF e
    <2>2. \A k \in 0..Len(s) : MissingAt(s, k) >= 1 - (m + 1)
      <3> TAKE k \in 0..Len(s)
      <3>1. CASE k \in 0..(n - 1)
        BY <1>2, <1>4, <3>1
      <3>2. CASE k - n \in 0..Len(u) /\ k = n + (k - n)
        <4>1. MissingAt(s, k) = MissingAt(u, k - n) - 1 /\ MissingAt(u, k - n) >= 1 - m
              /\ MissingAt(u, k - n) \in Int
          BY <1>3, <1>4, <3>2
        <4>. QED
          BY <1>4, <4>1
      <3>. QED
        BY <1>7, <3>1, <3>2
    <2>3. m + 1 \in 0..Len(s)
      BY <1>1, <1>4
    <2>. QED
      BY <2>1, <2>2, <2>3 DEF Counts
  <1>9. ASSUME NEW i \in 0..m
        PROVE  EndOf(s, i + 1) = n + EndOf(u, i)
    <2> DEFINE e == EndOf(u, i)
    <2>1. e \in 0..Len(u) /\ MissingAt(u, e) = 1 - i /\ \A j \in 0..(e - 1) : MissingAt(u, j) > 1 - i
      BY <1>4
    <2> HIDE DEF e
    <2>2. n + e \in 0..Len(s) /\ MissingAt(s, n + e) = 1 - (i + 1)
      BY <1>1, <1>3, <1>4, <2>1
    <2>3. ASSUME NEW k \in 0..((n + e) - 1)
          PROVE  MissingAt(s, k) > 1 - (i + 1)
      <3>1. k \in 0..Len(s) /\ (k - n \in 0..Len(u) => k - n \in 0..(e - 1))
        BY <1>1, <2>1
      <3>2. CASE k \in 0..(n - 1)
        BY <1>2, <1>4, <3>2
      <3>3. CASE k - n \in 0..Len(u) /\ k = n + (k - n)
        <4>1. MissingAt(s, k) = MissingAt(u, k - n) - 1 /\ MissingAt(u, k - n) > 1 - i
              /\ MissingAt(u, k - n) \in Int
          BY <1>3, <2>1, <3>1, <3>3
        <4>. QED
          BY <1>4, <4>1
      <3>. QED
        BY <1>7, <3>1, <3>2, <3>3
    <2>4. EndsAt(s, n + e, i + 1) /\ i + 1 \in Int
      BY <1>4, <2>2, <2>3 DEF EndsAt
    <2>. QED
      BY <1>1, <2>4, EndIs DEF e
  <1>10. TermCount(s) = m + 1
    BY <1>1, <1>8, CountIs
  <1>. QED
    BY <1>6, <1>9, <1>10 DEF s, n, m

\* A term that stands before others is the first of them.
LEMMA FirstTerm ==
    ASSUME NEW t \in Seq(SerialNode), OneTerm(t), NEW u \in Seq(SerialNode)
    PROVE  /\ TermsOf(t \o u) \in Seq(Seq(SerialNode)) /\ TermsOf(u) \in Seq(Seq(SerialNode))
           /\ TermsOf(t \o u) # <<>> /\ Head(TermsOf(t \o u)) = t
           /\ Tail(TermsOf(t \o u)) = TermsOf(u) /\ Leftover(t \o u) = Leftover(u)
  <1> DEFINE s == t \o u
             n == Len(t)
             m == TermCount(u)
             f == TermsOf(t \o u)
             g == TermsOf(u)
  <1>1. /\ s \in Seq(SerialNode) /\ Len(s) = n + Len(u) /\ n \in Nat /\ Len(u) \in Nat
        /\ \A i \in 1..n : s[i] = t[i]
    BY ConcatProperties, LenProperties
  <1>2. /\ TermCount(s) = m + 1 /\ EndOf(s, 0) = 0 /\ EndOf(u, 0) = 0
        /\ \A i \in 0..m : EndOf(s, i + 1) = n + EndOf(u, i)
    BY LaterEnds
  <1>3. /\ m \in Nat /\ \A i \in 0..m : EndOf(u, i) \in 0..Len(u)
        /\ \A i \in 1..m : i - 1 \in 0..m /\ EndOf(u, i - 1) < EndOf(u, i)
    BY EndsAre
  <1>4. /\ g \in Seq(Seq(SerialNode)) /\ Len(g) = m
        /\ \A i \in 1..m : g[i] = SubSeq(u, EndOf(u, i - 1) + 1, EndOf(u, i))
    BY TermsAre
  <1>5. /\ f \in Seq(Seq(SerialNode)) /\ Len(f) = m + 1
        /\ \A i \in 1..(m + 1) : f[i] = SubSeq(s, EndOf(s, i - 1) + 1, EndOf(s, i))
    <2> HIDE DEF m
    <2>. QED
      BY <1>1, <1>2, TermsAre
  <1>6. f[1] = t
    <2>1. EndOf(s, 1) = n
      <3>1. 0 \in 0..m /\ 0 + 1 = 1
        BY <1>3
      <3>2. EndOf(s, 0 + 1) = n + EndOf(u, 0)
        BY <1>2, <3>1
      <3>. QED
        BY <1>1, <1>2, <3>2
    <2>2. 1 \in 1..(m + 1) /\ 1 - 1 = 0 /\ 0 + 1 = 1
      BY <1>3
    <2>3. f[1] = SubSeq(s, 1, n)
      <3>1. f[1] = SubSeq(s, EndOf(s, 1 - 1) + 1, EndOf(s, 1))
        BY <1>5, <2>2
      <3>. QED
        BY <1>2, <2>1, <2>2, <3>1
    <2> HIDE DEF s, n, f
    <2>4. n \in 0..Len(s)
      BY <1>1
    <2>5. SubSeq(s, 1, n) \in Seq(SerialNode) /\ Len(SubSeq(s, 1, n)) = n
          /\ \A i \in 1..n : SubSeq(s, 1, n)[i] = s[i]
      BY <1>1, <2>4, PrefixType
    <2>6. Len(SubSeq(s, 1, n)) = Len(t) /\ \A i \in 1..Len(t) : SubSeq(s, 1, n)[i] = t[i]
      BY <1>1, <2>5 DEF n
    <2>. QED
      BY <2>3, <2>5, <2>6, SeqEqual
  <1>7. ASSUME NEW i \in 1..m
        PROVE  f[i + 1] = g[i]
    <2> DEFINE a == EndOf(u, i - 1)
               b == EndOf(u, i)
    <2>1. i \in 0..m /\ i - 1 \in 0..m /\ (i - 1) + 1 = i /\ (i + 1) - 1 = i /\ i + 1 \in 1..(m + 1)
      BY <1>3
    <2>2. a \in 0..Len(u) /\ b \in a..Len(u)
      BY <1>1, <1>3, <2>1
    <2>3. EndOf(s, i + 1) = n + b /\ EndOf(s, (i - 1) + 1) = n + a
      BY <1>2, <2>1
    <2>4. f[i + 1] = SubSeq(s, EndOf(s, (i + 1) - 1) + 1, EndOf(s, i + 1))
      BY <1>5, <2>1
    <2>5. f[i + 1] = SubSeq(s, (n + a) + 1, n + b)
      BY <2>1, <2>3, <2>4
    <2>6. g[i] = SubSeq(u, a + 1, b)
      BY <1>4
    <2> HIDE DEF a, b, f, g
    <2>7. SubSeq(s, (n + a) + 1, n + b) = SubSeq(u, a + 1, b)
      BY <2>2, SecondPart
    <2>. QED
      BY <2>5, <2>6, <2>7
  <1>8. Leftover(s) = Leftover(u)
    <2> DEFINE e == EndOf(u, m)
    <2>1. m \in 0..m
      BY <1>3
    <2>2. EndOf(s, m + 1) = n + e /\ e \in 0..Len(u)
      BY <1>2, <1>3, <2>1
    <2>3. Len(u) \in e..Len(u)
      BY <1>1, <2>2
    <2>4. Leftover(s) = SubSeq(s, (n + e) + 1, n + Len(u))
      BY <1>1, <1>2, <2>2 DEF Leftover
    <2>5. Leftover(u) = SubSeq(u, e + 1, Len(u))
      BY DEF Leftover
    <2> HIDE DEF e, m
    <2>6. SubSeq(s, (n + e) + 1, n + Len(u)) = SubSeq(u, e + 1, Len(u))
      BY <2>2, <2>3, SecondPart
    <2>. QED
      BY <2>4, <2>5, <2>6
  <1>9. f # <<>> /\ Head(f) = t /\ Tail(f) = g
    <2> HIDE DEF f, g, m, s, n
    <2>1. f # <<>>
      <3>1. Len(f) # 0
        BY <1>3, <1>5
      <3>. QED
        BY <3>1, LenProperties
    <2>2. Head(f) = t
      BY <1>5, <1>6, <2>1
    <2>3. /\ Tail(f) \in Seq(Seq(SerialNode)) /\ Len(Tail(f)) = m
          /\ \A i \in 1..m : Tail(f)[i] = f[i + 1]
      <3>1. /\ Tail(f) \in Seq(Seq(SerialNode)) /\ Len(Tail(f)) = Len(f) - 1
            /\ \A i \in 1..Len(Tail(f)) : Tail(f)[i] = f[i + 1]
        BY <1>5, <2>1, HeadTailProperties
      <3>. QED
        BY <1>3, <1>5, <3>1
    <2>4. Tail(f) = g
      BY <1>4, <1>7, <2>3, SeqEqual
    <2>. QED
      BY <2>1, <2>2, <2>4
  <1>. QED
    BY <1>4, <1>5, <1>8, <1>9

\* A term written after whole terms is the last of them.
LEMMA LastTerm ==
    ASSUME NEW s \in Seq(SerialNode), Whole(s), NEW t \in Seq(SerialNode), OneTerm(t)
    PROVE  /\ Len(TermsOf(s \o t)) = Len(TermsOf(s)) + 1
           /\ SubSeq(TermsOf(s \o t), 1, Len(TermsOf(s))) = TermsOf(s)
           /\ IsTerm(TermsOf(s \o t)[Len(TermsOf(s \o t))])
  <1> DEFINE u == s \o t
             n == TermCount(s)
             f == TermsOf(u)
             g == TermsOf(s)
  <1>1. u \in Seq(SerialNode) /\ Whole(u) /\ Missing(u) = Missing(s) - 1
    BY TermWritten
  <1>2. n \in Nat /\ g \in Seq(Seq(SerialNode)) /\ Len(g) = n
    BY EndsAre, TermsAre
  <1>3. TermCount(u) = n + 1
    <2>1. n = 1 - Missing(s) /\ Missing(s) \in Int
      BY WholeTermsOf, MissingType
    <2> HIDE DEF u, n
    <2>2. TermCount(u) = 1 - Missing(u)
      BY <1>1, WholeTermsOf
    <2>. QED
      BY <1>1, <2>1, <2>2
  <1>4. /\ f \in Seq(Seq(SerialNode)) /\ Len(f) = n + 1
        /\ \A i \in 1..(n + 1) : Missing(f[i]) = 0
    <2> HIDE DEF u, n
    <2>. QED
      BY <1>1, <1>3, TermsAre
  <1>5. \A i \in 1..n : f[i] = g[i]
    BY PrefixTerms
  <1> HIDE DEF u, n, f, g
  <1>6. /\ SubSeq(f, 1, n) \in Seq(Seq(SerialNode)) /\ Len(SubSeq(f, 1, n)) = n
        /\ \A i \in 1..n : SubSeq(f, 1, n)[i] = f[i]
    <2>1. n \in 0..Len(f)
      BY <1>2, <1>4
    <2>. QED
      BY <1>4, <2>1, PrefixType
  <1>7. SubSeq(f, 1, n) = g
    <2> DEFINE h == SubSeq(f, 1, n)
    <2>1. /\ h \in Seq(Seq(SerialNode)) /\ g \in Seq(Seq(SerialNode)) /\ Len(h) = Len(g)
          /\ \A i \in 1..Len(h) : h[i] = g[i]
      BY <1>2, <1>5, <1>6
    <2> HIDE DEF h
    <2>2. h = g
      BY ONLY <2>1, SeqEqual
    <2>. QED
      BY <2>2 DEF h
  <1>8. Missing(f[n + 1]) = 0
    BY <1>2, <1>4
  <1>. QED
    BY <1>2, <1>4, <1>7, <1>8 DEF IsTerm, f, g, u

(* The terms in transit ---------------------------------------------------- *)

\* Unless back is killed the stream ends where a term ends.
WholeUp == back # "crashed" => Whole(InTransit)

\* Then the stream is whole terms, and no piece of one.
WholeIsNotTorn == Shape /\ WholeUp /\ back # "crashed" => ~Torn

LEMMA NotTorn == WholeIsNotTorn
  <1> SUFFICES ASSUME Shape, WholeUp, back # "crashed" PROVE ~Torn
    BY DEF WholeIsNotTorn
  <1>1. InTransit \in Seq(SerialNode) /\ Whole(InTransit)
    BY StreamType DEF WholeUp
  <1>2. Leftover(InTransit) = <<>>
    BY <1>1, WholeTermsOf
  <1>. QED
    BY <1>2 DEF Torn

\* A step that leaves back and the stream alone leaves the queue alone.
LEMMA TransitSame ==
    ASSUME InTransit' = InTransit, back' = back
    PROVE  TermsOf(InTransit)' = TermsOf(InTransit) /\ Torn' = Torn
  <1> DEFINE s == InTransit
  <1>1. TermsOf(InTransit') = TermsOf(InTransit) /\ Leftover(InTransit') = Leftover(InTransit)
    BY Zenon
  <1>. QED
    BY <1>1 DEF Torn

(* Steps ------------------------------------------------------------------ *)

\* When front dies what it has not read stays where it is.
LEMMA FrontGone ==
    ASSUME FrontBrokenPipe \/ FrontCrash \/ FrontReadThrows
    PROVE  InTransit' = InTransit /\ UNCHANGED <<back, handled>>
  <1>1. UNCHANGED <<got, toFront, stdout, todo, back, handled>>
    BY DEF FrontBrokenPipe, FrontCrash, FrontReadThrows, backVars
  <1>. QED
    BY <1>1 DEF InTransit

\* At the end of the stream front takes what there is.
LEMMA LastRead ==
    ASSUME Shape, FrontReadEof
    PROVE  /\ back # "up" /\ InTransit = got /\ InTransit' = <<>> /\ back' = back
           /\ handled' = Append(handled, AtEndOfStream(got))
  <1>1. /\ back # "up" /\ HandleValue(AtEndOfStream(got)) /\ toFront = <<>> /\ toFront' = <<>>
        /\ stdout' = stdout /\ todo' = todo /\ back' = back
    BY DEF FrontReadEof, FrontInputClosed, backVars
  <1>2. stdout = <<>> /\ todo = <<>>
    BY <1>1 DEF Shape, Buffers
  <1>3. got' = <<>> /\ handled' = Append(handled, AtEndOfStream(got))
    BY <1>1 DEF HandleValue
  <1>4. <<>> \o <<>> = <<>> /\ got \o <<>> = got
    BY StreamType, ConcatEmptySeq
  <1>5. InTransit = got
    BY <1>1, <1>2, <1>4, Zenon DEF InTransit
  <1>6. InTransit' = <<>>
    BY <1>1, <1>2, <1>3, <1>4, Zenon DEF InTransit
  <1>. QED
    BY <1>1, <1>3, <1>5, <1>6

\* The stream ends where a term ends, whatever the programs do, until back is killed.
LEMMA WholeUpStep == Shape /\ WholeUp /\ [Next]_vars => WholeUp'
  <1> SUFFICES ASSUME Shape, WholeUp, [Next]_vars, back' # "crashed"
               PROVE  Whole(InTransit')
    BY DEF WholeUp
  <1>1. CASE BackSerialize \/ BackEcho
    <2> DEFINE t == todo'
    <2>1. InTransit' = InTransit \o t /\ t \in Seq(SerialNode) /\ OneTerm(t) /\ back = "up"
      BY <1>1, StreamWritten
    <2>2. InTransit \in Seq(SerialNode) /\ Whole(InTransit)
      BY <2>1, StreamType DEF WholeUp
    <2> HIDE DEF t
    <2>3. Whole(InTransit \o t)
      BY <2>1, <2>2, TermWritten
    <2>. QED
      BY <2>1, <2>3, Zenon
  <1>2. CASE Moves
    BY <1>2, StreamMoves, MovesKeep DEF WholeUp
  <1>3. CASE Ends
    <2>1. BackExit
      BY <1>3 DEF Ends, BackBrokenPipe, BackCrash, BackReadThrows, BackGone
    <2>2. back = "up" /\ UNCHANGED <<got, toFront, stdout, todo>>
      BY <2>1 DEF BackExit, ReadyToExit, BackGone, frontVars
    <2>. QED
      BY <2>2 DEF InTransit, WholeUp
  <1>4. CASE FrontRead /\ Complete(Append(got, Head(toFront)))
    <2> DEFINE t == Append(got, Head(toFront))
    <2>1. InTransit = t \o InTransit' /\ InTransit' \in Seq(SerialNode) /\ t \in Seq(SerialNode) /\ OneTerm(t)
      BY <1>4, StreamRead
    <2>2. back' = back /\ Whole(InTransit)
      BY <1>4 DEF FrontRead, backVars, WholeUp
    <2> HIDE DEF t
    <2>3. Whole(t \o InTransit')
      BY <2>1, <2>2, Zenon
    <2>. QED
      BY <2>1, <2>3, TermRead
  <1>5. CASE FrontReadEof
    <2>1. InTransit' = <<>> /\ Len(<<>>) = 0
      BY <1>5, LastRead
    <2>. QED
      BY <2>1 DEF Whole
  <1>6. CASE FrontBrokenPipe \/ FrontCrash \/ FrontReadThrows
    BY <1>6, FrontGone DEF WholeUp
  <1>7. CASE UNCHANGED vars
    BY <1>7 DEF WholeUp, InTransit, vars, backVars, frontVars
  <1>. QED
    BY <1>1, <1>2, <1>3, <1>4, <1>5, <1>6, <1>7, StepKinds

\* A term back serializes goes to the end of the queue.
LEMMA SendStep ==
    ASSUME Shape, WholeUp, Shape', WholeUp', BackSerialize \/ BackEcho
    PROVE  Channel!Send
  <1> DEFINE t == todo'
             s == InTransit
  <1>1. /\ InTransit' = s \o t /\ t \in Seq(SerialNode) /\ OneTerm(t)
        /\ back = "up" /\ back' = "up" /\ handled' = handled
    BY StreamWritten DEF frontVars
  <1>2. s \in Seq(SerialNode) /\ Whole(s)
    BY <1>1, StreamType DEF WholeUp
  <1> HIDE DEF s, t
  <1> DEFINE q == TermsOf(s)
             r == TermsOf(s \o t)
  <1>4. Len(r) = Len(q) + 1 /\ SubSeq(r, 1, Len(q)) = q /\ IsTerm(r[Len(r)])
    BY <1>1, <1>2, LastTerm
  <1>5. TermsOf(InTransit)' = r
    BY <1>1, Zenon
  <1> HIDE DEF q, r
  <1>6. TermsOf(InTransit) = q
    BY DEF q, s
  <1>7. UNCHANGED <<handled, back, Torn>>
    BY <1>1 DEF Torn
  <1>. QED
    BY <1>1, <1>4, <1>5, <1>6, <1>7 DEF Channel!Send

\* A node that moves is in transit all the same.
LEMMA MoveStep ==
    ASSUME Shape, Moves
    PROVE  InTransit' = InTransit /\ UNCHANGED <<back, handled>>
  BY StreamMoves, MovesKeep

\* Every term front reads is the first one of the queue.
LEMMA ReadStep ==
    ASSUME Shape, FrontRead, Complete(Append(got, Head(toFront)))
    PROVE  Channel!Receive
  <1> DEFINE t == Append(got, Head(toFront))
             s == InTransit
             u == InTransit'
  <1>1. /\ s = t \o u /\ u \in Seq(SerialNode)
        /\ t \in Seq(SerialNode) /\ OneTerm(t) /\ HandleValue(t)
    BY StreamRead
  <1>2. handled' = Append(handled, t) /\ back' = back
    BY <1>1 DEF HandleValue, FrontRead, backVars
  <1> HIDE DEF t, s, u
  <1>3. /\ TermsOf(t \o u) # <<>> /\ Head(TermsOf(t \o u)) = t
        /\ Tail(TermsOf(t \o u)) = TermsOf(u) /\ Leftover(t \o u) = Leftover(u)
    BY <1>1, FirstTerm
  <1>4. /\ TermsOf(s) # <<>> /\ Head(TermsOf(s)) = t
        /\ Tail(TermsOf(s)) = TermsOf(u) /\ Leftover(s) = Leftover(u)
    BY <1>1, <1>3, Zenon
  <1>5. TermsOf(InTransit)' = Tail(TermsOf(InTransit)) /\ Leftover(InTransit)' = Leftover(InTransit)
    BY <1>4 DEF s, u
  <1>6. Torn' = Torn
    BY <1>2, <1>5 DEF Torn
  <1>. QED
    BY <1>2, <1>4, <1>5, <1>6 DEF Channel!Receive, s

\* At the end of the stream front gets EndOfFile, or a term made of the piece that
\* is left.
LEMMA EndStep ==
    ASSUME Shape, FrontReadEof
    PROVE  Channel!ReceiveTorn \/ Channel!ReceiveEnd
  <1> DEFINE x == AtEndOfStream(got)
  <1>1. /\ back # "up" /\ InTransit = got /\ InTransit' = <<>> /\ back' = back
        /\ handled' = Append(handled, x)
    BY LastRead
  <1>2. x \in Seq(SerialNode) /\ OneTerm(x) /\ (got = <<>> => x = <<EndOfFile>>)
    BY LastValue
  <1> HIDE DEF x
  <1>3. got \in Seq(SerialNode) /\ Incomplete(got) /\ <<>> \in Seq(SerialNode) /\ Incomplete(<<>>)
    BY StreamType, NothingYet DEF Shape, WholeTerms
  <1>4. /\ TermsOf(got) = <<>> /\ Leftover(got) = got
        /\ TermsOf(<<>>) = <<>> /\ Leftover(<<>>) = <<>>
    BY <1>3, IncompleteTermsOf
  <1>5. TermsOf(InTransit) = <<>> /\ TermsOf(InTransit)' = <<>>
    BY <1>1, <1>4
  <1>6. Torn = (got # <<>>) /\ Torn' = FALSE
    BY <1>1, <1>4 DEF Torn
  <1>7. CASE got = <<>>
    BY <1>1, <1>2, <1>5, <1>6, <1>7 DEF Channel!ReceiveEnd
  <1>8. CASE got # <<>>
    <2> DEFINE h == handled
               g == handled'
    <2>1. h \in Seq(Seq(SerialNode)) /\ g = Append(h, x) /\ Len(h) \in Nat
      BY <1>1, LenProperties DEF Shape, Typed
    <2> HIDE DEF h, g
    <2>2. /\ g \in Seq(Seq(SerialNode)) /\ Len(g) = Len(h) + 1
          /\ \A i \in 1..Len(h) : g[i] = h[i]
          /\ g[Len(h) + 1] = x
      BY <1>2, <2>1, AppendProperties
    <2> DEFINE f == SubSeq(g, 1, Len(h))
    <2>3. f \in Seq(Seq(SerialNode)) /\ Len(f) = Len(h) /\ \A i \in 1..Len(h) : f[i] = g[i]
      <3>1. Len(h) \in 0..Len(g)
        BY <2>1, <2>2
      <3>. QED
        BY <2>2, <3>1, PrefixType
    <2> HIDE DEF f
    <2>4. f = h
      BY <2>1, <2>2, <2>3, SeqEqual
    <2>5. IsTerm(g[Len(g)])
      BY <1>2, <2>2 DEF IsTerm, OneTerm
    <2>6. Len(handled') = Len(handled) + 1 /\ SubSeq(handled', 1, Len(handled)) = handled
          /\ IsTerm(handled'[Len(handled')])
      BY <2>2, <2>4, <2>5 DEF f, g, h
    <2>. QED
      BY <1>1, <1>5, <1>6, <1>8, <2>6 DEF Channel!ReceiveTorn
  <1>. QED
    BY <1>7, <1>8

\* When back ends normally its last term is on its way.
LEMMA CloseStep ==
    ASSUME Shape, WholeUp, Shape', WholeUp', BackExit
    PROVE  Channel!Close
  <1>1. /\ back = "up" /\ back' = "exited" /\ InTransit' = InTransit /\ handled' = handled
    BY DEF BackExit, ReadyToExit, BackGone, frontVars, InTransit
  <1>2. ~Torn /\ ~Torn'
    <2>1. WholeIsNotTorn /\ WholeIsNotTorn'
      BY NotTorn, PTL
    <2>. QED
      BY <1>1, <2>1 DEF WholeIsNotTorn
  <1>3. TermsOf(InTransit)' = TermsOf(InTransit)
    BY <1>1, Zenon
  <1>4. Torn' = Torn
    BY <1>2 DEF Torn
  <1>. QED
    BY <1>1, <1>3, <1>4 DEF Channel!Close

\* When back is killed front sees the first of the terms that were written, and a
\* piece of a term only if a term was lost.
LEMMA CrashStep ==
    ASSUME Shape, WholeUp, BackBrokenPipe \/ BackCrash \/ BackReadThrows
    PROVE  Channel!Crash
  <1> DEFINE p == got \o toFront
             v == stdout \o todo
             n == TermCount(p)
             q == TermsOf(p)
             r == TermsOf(p \o v)
  <1>1. /\ back = "up" /\ back' = "crashed" /\ UNCHANGED <<got, toFront, handled>>
        /\ stdout' = <<>> /\ todo' = <<>>
    BY DEF BackBrokenPipe, BackCrash, BackReadThrows, Does, BackGone, frontVars
  <1>2. got \in Seq(SerialNode) /\ toFront \in Seq(SerialNode) /\ v \in Seq(SerialNode)
    BY StreamType
  <1>3. p \in Seq(SerialNode) /\ p \o v \in Seq(SerialNode) /\ p \o v = InTransit
    <2>1. InTransit = got \o (toFront \o v)
      BY DEF InTransit
    <2> HIDE DEF v
    <2>2. p \in Seq(SerialNode)
      BY <1>2, ConcatProperties
    <2>3. (got \o toFront) \o v = got \o (toFront \o v)
      BY <1>2, ConcatAssociative
    <2>4. p \o v = InTransit
      BY <2>1, <2>3, Zenon DEF p
    <2> HIDE DEF p
    <2>. QED
      BY <1>2, <2>2, <2>4, ConcatProperties
  <1>4. InTransit' = p
    <2>1. <<>> \o <<>> = <<>> /\ toFront \o <<>> = toFront
      BY <1>2, ConcatEmptySeq
    <2>. QED
      BY <1>1, <2>1, Zenon DEF InTransit
  <1>5. Whole(p \o v)
    BY <1>1, <1>3, Zenon DEF WholeUp
  <1> HIDE DEF p, v
  <1>6. /\ n \in Nat /\ q \in Seq(Seq(SerialNode)) /\ Len(q) = n
    BY <1>3, EndsAre, TermsAre
  <1>7. /\ r \in Seq(Seq(SerialNode)) /\ Len(r) = TermCount(p \o v) /\ Len(r) \in Nat
        /\ n <= Len(r) /\ \A i \in 1..n : r[i] = q[i]
    <2>1. r \in Seq(Seq(SerialNode)) /\ Len(r) = TermCount(p \o v)
      BY <1>3, TermsAre
    <2>2. n <= TermCount(p \o v) /\ \A i \in 1..n : r[i] = q[i]
      BY <1>2, <1>3, PrefixTerms
    <2>3. r \in Seq(Seq(SerialNode)) => Len(r) \in Nat
      BY LenProperties
    <2>. QED
      BY <2>1, <2>2, <2>3
  <1>8. Leftover(p) # <<>> => n < Len(r)
    <2> SUFFICES ASSUME n = Len(r)
                 PROVE  Leftover(p) = <<>>
      BY <1>6, <1>7
    <2>1. EndOf(p \o v, n) = EndOf(p, n) /\ EndOf(p, n) \in 0..Len(p)
      <3>1. n \in 0..TermCount(p)
        BY <1>6
      <3>. QED
        BY <1>2, <1>3, <3>1, PrefixTerms, EndsAre
    <2>2. EndOf(p \o v, n) = Len(p \o v)
      BY <1>3, <1>5, <1>7, WholeTermsOf
    <2>3. Len(p \o v) = Len(p) + Len(v) /\ Len(p) \in Nat /\ Len(v) \in Nat
      BY <1>2, <1>3, ConcatProperties, LenProperties
    <2>4. EndOf(p, n) = Len(p)
      BY <2>1, <2>2, <2>3
    <2>5. Leftover(p) = SubSeq(p, Len(p) + 1, Len(p))
      BY <2>4 DEF Leftover
    <2>6. Len(SubSeq(p, Len(p) + 1, Len(p))) = Len(p) - Len(p) /\ SubSeq(p, Len(p) + 1, Len(p)) \in Seq(SerialNode)
      <3>1. Len(p) \in 0..Len(p) /\ Len(p) \in Len(p)..Len(p)
        BY <2>3
      <3>. QED
        BY <1>3, <3>1, PartType
    <2>. QED
      BY <2>3, <2>5, <2>6, EmptySeq
  <1> HIDE DEF q, r, n
  <1>9. q = SubSeq(r, 1, n)
    <2> DEFINE g == SubSeq(r, 1, n)
    <2>1. n \in 0..Len(r)
      BY <1>6, <1>7
    <2>2. g \in Seq(Seq(SerialNode)) /\ Len(g) = n /\ \A i \in 1..n : g[i] = r[i]
      BY <1>7, <2>1, PrefixType
    <2> HIDE DEF g
    <2>3. g = q
      BY <1>6, <1>7, <2>2, SeqEqual
    <2>. QED
      BY <2>3 DEF g
  <1>10. n \in 0..Len(r)
    BY <1>6, <1>7
  <1>11. TermsOf(InTransit)' = q /\ TermsOf(InTransit) = r
    BY <1>3, <1>4, Zenon DEF q, r
  <1>12. Torn' \in {FALSE, n < Len(r)}
    <2>1. Torn' = (Leftover(p) # <<>>)
      BY <1>1, <1>4 DEF Torn
    <2>. QED
      BY <1>8, <2>1
  <1>. QED
    BY <1>1, <1>9, <1>10, <1>11, <1>12 DEF Channel!Crash

(* The theorem ------------------------------------------------------------ *)

\* Every step of Interop is a step of the channel, or leaves it as it is.
LEMMA ChannelStep ==
    ASSUME Shape, WholeUp, Shape', WholeUp', [Next]_vars
    PROVE  [Channel!Next]_<<TermsOf(InTransit), handled, back, Torn>>
  <1>1. CASE BackSerialize \/ BackEcho
    BY <1>1, SendStep DEF Channel!Next
  <1>2. CASE Moves
    BY <1>2, MoveStep, TransitSame
  <1>3. CASE FrontRead /\ Complete(Append(got, Head(toFront)))
    BY <1>3, ReadStep DEF Channel!Next
  <1>4. CASE FrontReadEof
    BY <1>4, EndStep DEF Channel!Next
  <1>5. CASE Ends
    BY <1>5, CloseStep, CrashStep DEF Ends, Channel!Next
  <1>6. CASE FrontBrokenPipe \/ FrontCrash \/ FrontReadThrows
    BY <1>6, FrontGone, TransitSame
  <1>7. CASE UNCHANGED vars
    <2>1. InTransit' = InTransit /\ UNCHANGED <<back, handled>>
      BY <1>7 DEF InTransit, vars, backVars, frontVars
    <2>. QED
      BY <2>1, TransitSame
  <1>. QED
    BY <1>1, <1>2, <1>3, <1>4, <1>5, <1>6, <1>7, StepKinds

\* At first there is nothing in the channel.
LEMMA ChannelInit == Init => Channel!Init /\ WholeUp
  <1> SUFFICES ASSUME Init PROVE Channel!Init /\ WholeUp
    OBVIOUS
  <1>1. back = "up" /\ handled = <<>>
    BY DEF Init
  <1>2. InTransit = <<>>
    <2>1. <<>> \o <<>> = <<>>
      OBVIOUS
    <2>. QED
      BY <2>1 DEF Init, InTransit
  <1>3. WholeUp
    <2>1. Len(<<>>) = 0
      OBVIOUS
    <2>. QED
      BY <1>2, <2>1 DEF WholeUp, Whole
  <1>4. TermsOf(InTransit) = <<>>
    <2>1. <<>> \in Seq(SerialNode)
      OBVIOUS
    <2>. QED
      BY <1>2, <2>1, NothingYet, IncompleteTermsOf
  <1>5. Torn = FALSE
    BY <1>1 DEF Torn
  <1>. QED
    BY <1>1, <1>3, <1>4, <1>5 DEF Channel!Init

\* The buffers and the pipe from back to front together are a queue of terms: however
\* the stream is cut into pieces, front handles the terms back serialized, in order,
\* each once.  When back is killed in the middle of a term front gets one more, made
\* of the piece that is left, or dies of it.
THEOREM ImplementsTermChannel == Spec => RefinesTermChannel
  <1>1. Init => Shape /\ WholeUp /\ Channel!Init
    BY ShapeInit, ChannelInit
  <1>2. Shape /\ WholeUp /\ [Next]_vars => Shape' /\ WholeUp'
    BY ShapeStep, WholeUpStep
  <1>3. Shape /\ WholeUp /\ Shape' /\ WholeUp' /\ [Next]_vars
          => [Channel!Next]_<<TermsOf(InTransit), handled, back, Torn>>
    BY ChannelStep
  <1>. QED
    BY <1>1, <1>2, <1>3, PTL DEF Spec, RefinesTermChannel, Channel!Spec
=============================================================================
