----------------------------- MODULE TermOrder -----------------------------
(***************************************************************************)
(* Data of libsept as trees, the two functions that decide which of them   *)
(* are the same and which comes first, eq_data and compare_data (Data.cpp),*)
(* with the overloads they find in their registries, and what is built on  *)
(* compare_data: the std::map inside an ordered map.                       *)
(*                                                                         *)
(* A Data is a node: `kind' is its C++ type (the key of every registry),   *)
(* `num' a number it holds (the value of a POD, the size in an array       *)
(* type), `args' the Data it is made of.  Both functions call themselves   *)
(* on the args, and are written as recursive functions on the Data of a    *)
(* bounded height, so that they can be proved about.                       *)
(***************************************************************************)
EXTENDS Integers, Sequences

CONSTANTS
    NameAddress,  \* of each kind, where its type_info name is in memory
    MaxHeight     \* bound on the height of the Data compared

ASSUME NamesAreDistinct ==
    \A k, l \in DOMAIN NameAddress :
        /\ NameAddress[k] \in Nat
        /\ NameAddress[k] = NameAddress[l] => k = l

ASSUME HeightIsBounded == MaxHeight \in Nat

Node(kind, num, args) == [kind |-> kind, num |-> num, args |-> args]
Atom(kind) == Node(kind, 0, <<>>)

DataOf(S) == [kind : DOMAIN NameAddress, num : Int, args : Seq(S)]
Height[n \in 0 .. MaxHeight] == IF n = 0 THEN {} ELSE DataOf(Height[n - 1])
Data == Height[MaxHeight]

\* A container has its constraint in front of what it holds.
Content(x) == SubSeq(x.args, 2, Len(x.args))

\* An instance of the class BoolTerm_c, True or False at run time.
BoolTerm(b) == Node("BoolTerm_c", b, <<>>)
as_bool == [True_c |-> 1, False_c |-> 0]

(***************************************************************************)
(* eq_data.  Data of two kinds are never equal; an ordered map is equal to *)
(* another by its pairs alone, whatever their constraints; two unions are  *)
(* compared as sets, which assumes that neither has duplicates.            *)
(***************************************************************************)
EqSeq(eq, s, t) == /\ Len(s) = Len(t)
                   /\ \A i \in DOMAIN s : eq[<<s[i], t[i]>>]

Equal(eq, x, y) ==
    /\ x.kind = y.kind
    /\ CASE x.kind = "OrderedMapTerm_c" -> EqSeq(eq, Content(x), Content(y))
         [] x.kind = "UnionTerm_c" ->
               /\ Len(x.args) = Len(y.args)
               /\ \A i \in DOMAIN x.args :
                    \E j \in DOMAIN y.args : eq[<<x.args[i], y.args[j]>>]
         [] OTHER -> x.num = y.num /\ EqSeq(eq, x.args, y.args)

eq_data[p \in Data \X Data] == Equal(eq_data, p[1], p[2])
EqData(x, y) == eq_data[<<x, y>>]

(***************************************************************************)
(* compare_data.  Data of one kind are compared by what they are made of,  *)
(* in order, a proper prefix being less; data of two kinds by the address  *)
(* of the names of their kinds, which differs from build to build.  So are *)
(* two of a kind that has no comparison: they compare equal.  True and     *)
(* False have one with a BoolTerm_c behind them, but not in front of them. *)
(***************************************************************************)
Sign(n) == IF n < 0 THEN -1 ELSE IF n = 0 THEN 0 ELSE 1

Differing(compare, s, t) ==
    {i \in DOMAIN s \cap DOMAIN t : compare[<<s[i], t[i]>>] # 0}

First(indices) == CHOOSE i \in indices : \A j \in indices : i <= j

\* Sequences that agree on their common length taken for equal.
MutCommonLength(compare, s, t) ==
    LET i == First(Differing(compare, s, t))
    IN  IF Differing(compare, s, t) = {} THEN 0 ELSE compare[<<s[i], t[i]>>]

CompareSeq(compare, s, t) ==
    LET i == First(Differing(compare, s, t))
    IN  IF Differing(compare, s, t) = {} THEN Sign(Len(s) - Len(t))
        ELSE compare[<<s[i], t[i]>>]

Incomparable ==
    {"FormalTypeOf_Term_c", "PlaceholderTerm_c", "OutputTerm_c", "RequestSyncInputTerm_c"}

Compared(compare, x, y) ==
    CASE x.kind \in DOMAIN as_bool /\ y.kind = "BoolTerm_c" -> Sign(as_bool[x.kind] - y.num)
      [] x.kind = y.kind /\ x.kind = "OrderedMapTerm_c" ->
            CompareSeq(compare, Content(x), Content(y))
      [] x.kind = y.kind /\ x.kind \notin Incomparable \cup {"OrderedMapTerm_c"} ->
            LET c == CompareSeq(compare, x.args, y.args)
            IN  IF c # 0 THEN c ELSE Sign(x.num - y.num)
      [] OTHER -> Sign(NameAddress[x.kind] - NameAddress[y.kind])

compare_data[p \in Data \X Data] == Compared(compare_data, p[1], p[2])
CompareData(x, y) == compare_data[<<x, y>>]

(***************************************************************************)
(* The pairs of an ordered map (std::map ordered by compare_data): emplace *)
(* goes to the first pair that is not less, and keeps that one when its    *)
(* key compares equal.                                                     *)
(***************************************************************************)
Pair(key, value) == Node("pair", 0, <<key, value>>)
Key(pair) == pair.args[1]

NotLess(pairs, p) == {i \in DOMAIN pairs : CompareData(Key(pairs[i]), Key(p)) >= 0}
LowerBound(pairs, p) == First(NotLess(pairs, p) \cup {Len(pairs) + 1})

\* A new pair put behind the others.
MutEmplaceLast(pairs, p) ==
    IF \E i \in DOMAIN pairs : CompareData(Key(pairs[i]), Key(p)) = 0
    THEN pairs ELSE Append(pairs, p)

emplace(pairs, p) ==
    LET at == LowerBound(pairs, p)
    IN  IF at \in DOMAIN pairs /\ CompareData(Key(pairs[at]), Key(p)) = 0 THEN pairs
        ELSE [i \in 1 .. Len(pairs) + 1 |->
                CASE i < at -> pairs[i]
                  [] i = at -> p
                  [] i > at -> pairs[i - 1]]

make_ordered_map(args) ==
    LET filled[n \in 0 .. Len(args)] ==
            IF n = 0 THEN <<>> ELSE emplace(filled[n - 1], args[n])
    IN  filled[Len(args)]

(***************************************************************************)
(* What the order is to be good for.                                       *)
(***************************************************************************)
\* The keys of a map ascend, so that a lookup by halves finds each of them.
Ascending(pairs) ==
    \A i, j \in DOMAIN pairs : i < j => CompareData(Key(pairs[i]), Key(pairs[j])) < 0

\* A set of Data, and of what they are made of, without some kinds.
MadeWithout(kinds, P) ==
    /\ P \subseteq Data
    /\ \A x \in P : /\ x.kind \notin kinds
                    /\ \A i \in DOMAIN x.args : x.args[i] \in P

\* compare is a total preorder: its strict part is the strict weak order that
\* std::map asks of DataOrder.
Orders(compare, P) ==
    /\ \A x, y \in P : /\ compare[<<x, y>>] \in {-1, 0, 1}
                       /\ compare[<<x, y>>] = -compare[<<y, x>>]
    /\ \A x, y, z \in P :
         compare[<<x, y>>] <= 0 /\ compare[<<y, z>>] <= 0 => compare[<<x, z>>] <= 0
=============================================================================
