----------------------------- MODULE Containers -----------------------------
(***************************************************************************)
(* A program that builds a container term, changes it through its          *)
(* interface, or builds another term of one Data, writes it to a stream,   *)
(* and reads the stream back.                                              *)
(*                                                                         *)
(* An array or ordered map carries a constraint, the type it was made to   *)
(* inhabit.  Every operation that names a type verifies it; but the class  *)
(* also hands out its elements by reference (operator[], elements(),       *)
(* pairs()), and through those anything can be stored.                     *)
(***************************************************************************)
EXTENDS Calls

CONSTANTS
    Elements,    \* the Data put into arrays and tuples, and used as keys
    Values,      \* the Data that ordered maps have as values
    Contents,    \* the Data that the terms of one Data are made of
    Types,       \* the container types used as constraints
    Callees,     \* the Data called with a container
    MaxSize,     \* bound on the elements of a container
    MaxWrites    \* bound on the terms written

ASSUME BoundsAssumption == MaxSize \in Nat /\ MaxWrites \in Nat

\* A container of pairs is two higher than what is put into it.
Inputs == Elements \cup Values \cup Contents \cup Types \cup Callees
ASSUME InputsAreLow == MaxHeight >= 2 /\ Inputs \subseteq Height[MaxHeight - 2]

subterms[y \in Data] == {y} \cup UNION {subterms[y.args[i]] : i \in DOMAIN y.args}
Subterms(y) == subterms[y]

\* Data as its class makes it: with so many parts, or a constraint of its own sort
\* and ascending pairs, which are nowhere else.
Parts ==
    [bool |-> 0, uint64_t |-> 0, ArrayESTerm_c |-> 1, ArrayETerm_c |-> 1, ArraySTerm_c |-> 0,
     OrderedMapDCTerm_c |-> 2, OrderedMapDTerm_c |-> 1, OrderedMapCTerm_c |-> 1, pair |-> 2,
     FormalTypeOf_Term_c |-> 1, FreeVarTerm_c |-> 1, PlaceholderTerm_c |-> 1,
     OutputTerm_c |-> 1, RequestSyncInputTerm_c |-> 1]
Formed(y) ==
    /\ y.kind \in Kinds \ {"int64_t"}
    /\ y.kind \in Singletons => y.args = <<>>
    /\ y.kind \in DOMAIN Parts => Len(y.args) = Parts[y.kind]
    /\ y.kind = "ArrayTerm_c" => Constraint(y).kind \in ArrayTypes
    /\ y.kind = "OrderedMapTerm_c" =>
            Constraint(y).kind \in OrderedMapTypes /\ Ascending(Content(y))
    /\ \A i \in DOMAIN y.args :
            y.args[i].kind = "pair" <=> y.kind = "OrderedMapTerm_c" /\ i > 1
    /\ y.num \in Nat
    /\ y.kind \notin {"bool", "uint64_t", "ArrayESTerm_c", "ArraySTerm_c"} => y.num = 0
ASSUME InputsAreFormed ==
    \A x \in Inputs : x.kind # "pair" /\ \A y \in Subterms(x) : Formed(y)

\* Types are container types.
ASSUME TypesAreContainerTypes == \A t \in Types : t.kind \in ArrayTypes \cup OrderedMapTypes

VARIABLES
    term,        \* the container being worked on
    loose,       \* changed by reference since its constraint was verified, or
                 \* left with one that it was found to violate
    stream,      \* what was written and not yet read
    sent,        \* the terms written, in order
    got          \* the terms read, in order

vars == <<term, loose, stream, sent, got>>

ArrayTypesUsed == {t \in Types : t.kind \in ArrayTypes}
MapTypesUsed == {t \in Types : t.kind \in OrderedMapTypes}
Arguments == UNION {[1 .. n -> Elements] : n \in 0 .. MaxSize}
Pairs == {Pair(k, v) : k \in Elements, v \in Values}
PairArguments == UNION {[1 .. n -> Pairs] : n \in 0 .. MaxSize}

ArrayTerm_c == ArrayTerm(Array, <<>>)   \* the default constructor

IsArray == term.kind = "ArrayTerm_c"
IsMap == term.kind = "OrderedMapTerm_c"
Building == Len(sent) < MaxWrites
Fresh == Building /\ term = ArrayTerm_c
InMemory == UNCHANGED <<stream, sent, got>>

Init == /\ term = ArrayTerm_c
        /\ loose = FALSE
        /\ stream = <<>> /\ sent = <<>> /\ got = <<>>

\* T(e1, ..., en) for an array type T: the elements are verified first, and
\* nothing is constructed when they do not satisfy T.
ConstructArray(t, es) ==
    /\ Fresh
    /\ verify_constraint(t, es)
    /\ term' = ArrayTerm(t, es) /\ loose' = FALSE
    /\ InMemory

\* The same for an ordered map type, from pairs.
ConstructOrderedMap(t, ps) ==
    /\ Fresh
    /\ verify_constraint(t, make_ordered_map(ps))
    /\ term' = OrderedMapTerm(t, make_ordered_map(ps)) /\ loose' = FALSE
    /\ InMemory

\* A tuple has no constraint.
ConstructTuple(es) ==
    /\ Fresh
    /\ term' = Tuple(es) /\ loose' = FALSE
    /\ InMemory

\* FormalTypeOf(d), FreeVar(d), Placeholder(d), Output(d), RequestSyncInput(d).
ConstructOther(d) ==
    /\ Fresh
    /\ term' \in {FormalTypeOf(d), FreeVar(d), Placeholder(d), Output(d), RequestSyncInput(d)}
    /\ loose' = FALSE
    /\ InMemory

\* with_constraint as without_constraint is: nothing is verified.
MutUnverified(t) ==
    /\ Building
    /\ (IsArray /\ t \in ArrayTypesUsed) \/ (IsMap /\ t \in MapTypesUsed)
    /\ term' = [term EXCEPT !.args[1] = t] /\ loose' = FALSE
    /\ InMemory

\* term = term.with_constraint(t), for a const & term: throws, with term as it was, when
\* the constraint is not satisfied.  (Given as Data that holds Array, the
\* argument is ignored and an array keeps the constraint it has.)
WithConstraint(t) ==
    /\ Building
    /\ (IsArray /\ t \in ArrayTypesUsed) \/ (IsMap /\ t \in MapTypesUsed)
    /\ verify_constraint(t, Content(term))
    /\ term' = [term EXCEPT !.args[1] = t] /\ loose' = FALSE
    /\ InMemory

\* std::move(term).with_constraint(t) on an ordered map: the constraint is stored
\* before it is verified, so that term keeps it even when the call throws; it is
\* then as loose as after a change by reference.
MoveWithConstraint(t) ==
    /\ Building
    /\ IsMap /\ t \in MapTypesUsed
    /\ term' = [term EXCEPT !.args[1] = t]
    /\ loose' = ~verify_constraint(t, Content(term))
    /\ InMemory

WithoutConstraint ==
    /\ Building
    /\ IsArray \/ IsMap
    /\ term' = [term EXCEPT !.args[1] = IF IsArray THEN Array ELSE OrderedMap]
    /\ loose' = FALSE
    /\ InMemory

\* term[i] = e, and m[k] = v for a key of the map: nothing is verified.
SetElement(i, e) ==
    /\ Building
    /\ IsArray \/ IsMap
    /\ i \in 1 .. Size(term)
    /\ term' = IF IsArray THEN [term EXCEPT !.args[i + 1] = e]
               ELSE [term EXCEPT !.args[i + 1].args[2] = e]
    /\ loose' = TRUE
    /\ InMemory

\* term.elements().push_back(e)
PushBack(e) ==
    /\ Building
    /\ IsArray /\ Size(term) < MaxSize
    /\ term' = [term EXCEPT !.args = Append(@, e)] /\ loose' = TRUE
    /\ InMemory

\* term.pairs().emplace(k, v)
Emplace(p) ==
    /\ Building
    /\ IsMap /\ Size(term) < MaxSize
    /\ term' = OrderedMapTerm(Constraint(term), emplace(Content(term), p)) /\ loose' = TRUE
    /\ InMemory

\* serialize_data(term, stream), and whether it threw or not the program is then
\* done with term, and goes on with a new container.
Write ==
    /\ Building
    /\ stream' = stream \o Written(term)
    /\ sent' = Append(sent, term)
    /\ term' = ArrayTerm_c /\ loose' = FALSE
    /\ UNCHANGED got

\* deserialize_data(stream), until it throws or the stream is exhausted.  The
\* reader comes after the writer, as in a file.
Read ==
    /\ ~Building
    /\ stream # <<>>
    /\ \A i \in DOMAIN got : got[i] # Exception
    /\ LET r == Deserialize(stream)
       IN  got' = Append(got, r.data) /\ stream' = r.rest
    /\ UNCHANGED <<term, loose, sent>>

Next ==
    \/ \E t \in ArrayTypesUsed, es \in Arguments : ConstructArray(t, es)
    \/ \E t \in MapTypesUsed, ps \in PairArguments : ConstructOrderedMap(t, ps)
    \/ \E es \in Arguments : ConstructTuple(es)
    \/ \E d \in Contents : ConstructOther(d)
    \/ \E t \in Types : WithConstraint(t) \/ MoveWithConstraint(t)
    \/ WithoutConstraint
    \/ \E i \in 1 .. MaxSize, e \in Elements : SetElement(i, e)
    \/ \E e \in Elements : PushBack(e)
    \/ \E p \in Pairs : Emplace(p)
    \/ Write
    \/ Read

Spec == Init /\ [][Next]_vars
-----------------------------------------------------------------------------
(***************************************************************************)
(* Properties.                                                             *)
(***************************************************************************)
Serializable(y) == \A z \in Subterms(y) : z.kind \notin Unserializable

IsContainer(y) == y.kind \in {"ArrayTerm_c", "OrderedMapTerm_c"}
Satisfied(y) == IsContainer(y) => verify_constraint(Constraint(y), Content(y))

\* A union or a tuple cannot be read back, nor a container that does not satisfy
\* its constraint, nor what contains one.
Readable(y) ==
    /\ Serializable(y)
    /\ \A z \in Subterms(y) : z.kind \notin {"UnionTerm_c", "TupleTerm_c"} /\ Satisfied(z)

\* term is a container with a constraint of its own sort; the pairs of an ordered
\* map are in strictly ascending order of their keys, so that a lookup finds
\* each of them.
TypeOK ==
    /\ loose \in BOOLEAN
    /\ \/ IsArray /\ Constraint(term).kind \in ArrayTypes
       \/ IsMap /\ Constraint(term).kind \in OrderedMapTypes /\ Ascending(Content(term))
       \/ term.kind \in {"TupleTerm_c", "FreeVarTerm_c"} \cup Incomparable
    /\ Len(sent) <= MaxWrites

\* What a container holds satisfies its constraint, through every sequence of
\* constructions and changes of constraint, as long as it was not changed by
\* reference since ("ArrayConstraint is already satisfied by construction",
\* ArrayTerm.hpp:24).  The one operation that can throw and leave the
\* constraint violated is MoveWithConstraint.
ConstraintKept == ~loose => Satisfied(term)

\* The type of a tuple, and of a formal type, is made of the types of its parts.
typed_parts[y \in Data] == {y} \cup
    (IF y.kind \in {"TupleTerm_c", "FormalTypeOf_Term_c"}
     THEN UNION {typed_parts[y.args[i]] : i \in DOMAIN y.args} ELSE {})
TypedParts(y) == typed_parts[y]

\* NonParametricType is said to be the type of Term, Type and others, but only
\* VoidType is said to inhabit it.
HasOwnType(y) == AbstractType(y) = Atom("NonParametricType_c") => y.kind = "VoidType_c"

HoldsUnion(y) ==
    \E i \in DOMAIN Content(y) : \E z \in Subterms(Content(y)[i]) : z.kind = "UnionTerm_c"

\* A container whose constraint is satisfied inhabits its own abstract type, and
\* so does any other term, but for those whose type is said to be
\* NonParametricType (NPType.cpp:200) and the tuples and formal types made of
\* them.  No type a container is said to inhabit is contradicted by its elements:
\* the shortcuts of `inhabits' (equal element types, equal domains) are sound where
\* no element is or has a union in it, which is equal to another one as a set
\* but inhabits it in order (UnionTerm.cpp:17); an array that fits a type does inhabit
\* it.  Calling a type with a term gives the term itself, and only where it
\* inhabits the type; otherwise it throws, and the abort that tuples have for a
\* wrong element is never reached.
InhabitsIsSound ==
    /\ (\A z \in TypedParts(term) : Satisfied(z)) =>
           (Inhabits(term, AbstractType(term)) <=> \A z \in TypedParts(term) : HasOwnType(z))
    /\ IsContainer(term) /\ Satisfied(term) =>
         \A t \in Types :
            LET sort == (IsArray <=> t \in ArrayTypesUsed)
                fits == sort /\ verify_constraint(t, Content(term))
            IN  /\ Inhabits(term, t) => sort /\ (fits \/ HoldsUnion(term))
                /\ IsArray /\ fits => Inhabits(term, t)
    /\ \A t \in Callees :
        \/ Construct(t, term) = Exception
        \/ Construct(t, term) = term /\ Inhabits(term, t)

\* element_of_data finds every element: in an array or tuple of n elements by
\* an index from 0 to n - 1, or from -n to -1 counted from the end, and throws
\* for any other ("Do fancy `from the end' indexing", ArrayTerm.cpp:58); in an
\* ordered map the value of every key, however the map was changed, and throws
\* for what is no key.
ElementsFound ==
    IF IsMap
    THEN /\ \A i \in DOMAIN Content(term) :
                ElementOf(term, Content(term)[i].args[1]) = Content(term)[i].args[2]
         /\ \A e \in Elements :
                (\A i \in DOMAIN Content(term) : ~EqData(Content(term)[i].args[1], e))
                => ElementOf(term, e) = Exception
    ELSE LET es == CASE IsArray -> Content(term)
                     [] term.kind = "TupleTerm_c" -> term.args
                     [] OTHER -> <<>>
             n == Len(es)
         IN  \A i \in -n - 2 .. n + 1 :
                ElementOf(term, int64(i)) =
                    IF -n <= i /\ i < n THEN es[1 + (IF i < 0 THEN n + i ELSE i)]
                    ELSE Exception

\* As long as what was written can be read at all, the i-th term read is the
\* i-th term written, constraint included; and when all are read nothing is
\* left in the stream.
RoundTrip ==
    /\ \A i \in DOMAIN got :
         (\A j \in 1 .. i : j \in DOMAIN sent /\ Readable(sent[j])) => got[i] = sent[i]
    /\ Len(got) = MaxWrites /\ (\A j \in DOMAIN sent : Readable(sent[j])) => stream = <<>>

\* compare_data orders the terms: compared with term it is zero exactly for the
\* equal ones, changes sign when its arguments are swapped, and is transitive
\* where term is the one in the middle; and equal terms hash alike.  (Not for unions,
\* which are equal as sets, compared and hashed in order, nor for the terms
\* without a comparison, which never differ; and ordered maps of different
\* constraints are equal, but hash differently.)
CompareIsAnOrder ==
    LET terms == {y \in {term} \cup {sent[i] : i \in DOMAIN sent} \cup Elements \cup Values :
                    \A z \in Subterms(y) : z.kind \notin {"UnionTerm_c"} \cup Incomparable}
        HoldsMap(y) == \E z \in Subterms(y) : z.kind = "OrderedMapTerm_c"
    IN  term \in terms =>
          \A y \in terms :
            LET c == CompareData(term, y)
            IN  /\ c = 0 <=> EqData(term, y)
                /\ c = -CompareData(y, term)
                /\ c < 0 => \A z \in terms : CompareData(z, term) < 0 => CompareData(z, y) < 0
                /\ EqData(term, y) => Hash(term) = Hash(y) \/ HoldsMap(term)

\* Whatever can be written is read back as it was.
EveryTermReadsBack ==
    \A i \in DOMAIN got :
        (\A j \in DOMAIN sent : Satisfied(sent[j]) /\ Serializable(sent[j]))
            => got[i] = sent[i]
=============================================================================
