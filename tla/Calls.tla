-------------------------------- MODULE Calls --------------------------------
(***************************************************************************)
(* What a program does to Data by calling and indexing them: t(a), which   *)
(* construct_inhabitant_of_data dispatches, element_of_data, and hash_data *)
(* (Data.cpp), with the overloads for arrays, ordered maps, tuples and     *)
(* unions.  One signed type stands for the four that can index.            *)
(***************************************************************************)
EXTENDS TermStream

CONSTANT SizeValues   \* how many values a size_t has

ASSUME SizeValuesAssumption == SizeValues \in Nat \ {0}

int64(n) == Node("int64_t", n, <<>>)

\* What LVD_ABORT ends the program with.
Abort == Atom("abort")

-----------------------------------------------------------------------------
(***************************************************************************)
(* construct_inhabitant_of_data.  Types that are abstract only check that  *)
(* the argument is an inhabitant.                                          *)
(***************************************************************************)
IsAbstract(t, a) ==
    \/ t.kind \in {"ArrayESTerm_c", "ArrayETerm_c", "ArraySTerm_c"} /\ a.kind = "ArrayTerm_c"
    \/ t.kind = "Tuple_c" /\ a.kind = "TupleTerm_c"
    \/ t.kind = "UnionTerm_c"
    \/ t.kind = "FormalTypeOf_Term_c" /\ a.kind = "FormalTypeOf_Term_c"

\* A tuple of types is called element by element; it aborts if an element
\* made something that does not inhabit it.
ConstructTupleElements(construct, t, a) ==
    LET made == [i \in DOMAIN t.args |-> construct[<<t.args[i], a.args[i]>>]]
        failed == {i \in DOMAIN made : made[i] \in {Exception, Abort}}
        wrong == {i \in DOMAIN made \ failed : ~Inhabits(made[i], t.args[i])}
    IN  IF failed \cup wrong = {} THEN Tuple(made)
        ELSE LET i == CHOOSE i \in failed \cup wrong : \A j \in failed \cup wrong : i <= j
             IN  IF i \in failed THEN made[i] ELSE Abort

\* An abstract type that takes what it is given.
MutUnchecked(construct, t, a) ==
    CASE t = Term -> a
      [] t.kind = "Bool_c" /\ a.kind = "bool" -> a
      [] IsAbstract(t, a) -> a
      [] t.kind = "TupleTerm_c" /\ a.kind = "TupleTerm_c" ->
            IF Len(a.args) # Len(t.args) THEN Exception
            ELSE ConstructTupleElements(construct, t, a)
      [] OTHER -> Exception

Constructed(construct, t, a) ==
    CASE t = Term -> a
      [] t.kind = "Bool_c" /\ a.kind = "bool" -> a
      [] t.kind = "Uint64_c" /\ a.kind = "uint64_t" -> a
      [] IsAbstract(t, a) -> IF Inhabits(a, t) THEN a ELSE Exception
      [] t.kind = "TupleTerm_c" /\ a.kind = "TupleTerm_c" ->
            IF Len(a.args) # Len(t.args) THEN Exception
            ELSE ConstructTupleElements(construct, t, a)
      [] OTHER -> Exception

construct_inhabitant_of_data[p \in Data \X Data] ==
    Constructed(construct_inhabitant_of_data, p[1], p[2])
Construct(t, a) == construct_inhabitant_of_data[<<t, a>>]
-----------------------------------------------------------------------------
(***************************************************************************)
(* element_of_data.  A negative index counts from the end: as a size_t it  *)
(* is added to the size, and the sum wraps.                                *)
(***************************************************************************)
size_t(n) == n % SizeValues

\* Zero taken for an index from the end.
MutPosition(p, size) == IF p.num > 0 THEN p.num ELSE size_t(size + size_t(p.num))

Position(p, size) == IF p.num >= 0 THEN p.num ELSE size_t(size + size_t(p.num))

\* std::vector::at and std::map::at.
at(elements, i) == IF i < Len(elements) THEN elements[i + 1] ELSE Exception
ValueAt(pairs, key) ==
    LET found == {i \in DOMAIN pairs : CompareData(pairs[i].args[1], key) = 0}
    IN  IF found = {} THEN Exception
        ELSE pairs[CHOOSE i \in found : \A j \in found : i <= j].args[2]

ElementOf(c, p) ==
    CASE c.kind = "OrderedMapTerm_c" -> ValueAt(Content(c), p)
      [] c.kind = "ArrayTerm_c" /\ p.kind \in {"int64_t", "uint64_t"} ->
            at(Content(c), Position(p, Size(c)))
      [] c.kind \in {"TupleTerm_c", "UnionTerm_c"} /\ p.kind \in {"int64_t", "uint64_t"} ->
            at(c.args, Position(p, Len(c.args)))
      [] OTHER -> Exception
-----------------------------------------------------------------------------
(***************************************************************************)
(* hash_data.  The hash of a term stands for what is combined into it: its *)
(* C++ type, its numbers and the hashes of its parts, in order.  So two    *)
(* hashes differ here whenever they can.                                   *)
(***************************************************************************)
\* The keys and values of an ordered map are combined one after the other.
KeysAndValues(pairs) ==
    [i \in 1 .. 2 * Len(pairs) |-> pairs[(i + 1) \div 2].args[2 - (i % 2)]]

HashedParts(x) ==
    IF x.kind = "OrderedMapTerm_c" THEN <<Constraint(x)>> \o KeysAndValues(Content(x))
    ELSE x.args

hash_data[x \in Data] ==
    <<x.kind, x.num, [i \in DOMAIN HashedParts(x) |-> hash_data[HashedParts(x)[i]]]>>
Hash(x) == hash_data[x]
=============================================================================
