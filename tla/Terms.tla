------------------------------- MODULE Terms -------------------------------
(***************************************************************************)
(* The types of libsept, and the two functions the library dispatches on   *)
(* the types of a Data: abstract_type_of_data and inhabits_data            *)
(* (Data.cpp), with the overloads they find in their registries for        *)
(* arrays, ordered maps, unions, tuples, formal types, free variables,     *)
(* placeholders, control terms and their types.                            *)
(*                                                                         *)
(* Data, and the two functions that compare them, are those of TermOrder.  *)
(* One unsigned type stands for the ten numeric types; references, strings *)
(* and functions are not modelled, and of the class BoolTerm_c only its    *)
(* comparisons with True and False are (in TermOrder).                     *)
(***************************************************************************)
EXTENDS TermOrder

\* The non-parametric terms (NPTerm): one value each.
Singletons ==
    {"Term_c", "NonParametricTerm_c", "Type_c", "NonType_c",
     "NonParametricType_c", "Void_c", "True_c", "False_c", "VoidType_c",
     "TrueType_c", "FalseType_c", "EmptyType_c", "Bool_c", "Uint64_c",
     "BoolType_c", "Uint64Type_c", "UnionType_c", "Union_c", "ArrayType_c",
     "ArrayES_c", "ArrayE_c", "ArrayS_c", "Array_c", "OrderedMapType_c",
     "OrderedMapDC_c", "OrderedMapD_c", "OrderedMapC_c", "OrderedMap_c",
     "TupleType_c", "Tuple_c", "EndOfFileType_c", "EndOfFile_c",
     "FormalTypeOf_c", "FreeVarType_c", "FreeVar_c", "PlaceholderType_c",
     "Placeholder_c", "OutputType_c", "Output_c", "ClearOutputType_c",
     "ClearOutput_c", "RequestSyncInputType_c", "RequestSyncInput_c"}

Term == Atom("Term_c")
Array == Atom("Array_c")
OrderedMap == Atom("OrderedMap_c")

\* What a node is made of, by the place its kind has for it.
Part(x, i) == IF i \in DOMAIN x.args THEN x.args[i] ELSE Term

\* The plain values: bool and uint64_t (size_t).
bool(b) == Node("bool", b, <<>>)
uint64(n) == Node("uint64_t", n, <<>>)

\* The types with parameters.
ArrayES(t, n) == Node("ArrayESTerm_c", n, <<t>>)
ArrayE(t) == Node("ArrayETerm_c", 0, <<t>>)
ArrayS(n) == Node("ArraySTerm_c", n, <<>>)
OrderedMapDC(d, c) == Node("OrderedMapDCTerm_c", 0, <<d, c>>)
OrderedMapD(d) == Node("OrderedMapDTerm_c", 0, <<d>>)
OrderedMapC(c) == Node("OrderedMapCTerm_c", 0, <<c>>)
Union(ts) == Node("UnionTerm_c", 0, ts)
Tuple(ts) == Node("TupleTerm_c", 0, ts)

\* The terms made of one Data: the type whose only inhabitant it is, a variable
\* in a pattern, a numbered gap, and what back asks front to print or to read.
FormalTypeOf(term) == Node("FormalTypeOf_Term_c", 0, <<term>>)
FreeVar(free_var_id) == Node("FreeVarTerm_c", 0, <<free_var_id>>)
Placeholder(index) == Node("PlaceholderTerm_c", 0, <<index>>)
Output(value) == Node("OutputTerm_c", 0, <<value>>)
RequestSyncInput(requested_type) == Node("RequestSyncInputTerm_c", 0, <<requested_type>>)

ArrayTypes == {"Array_c", "ArrayESTerm_c", "ArrayETerm_c", "ArraySTerm_c"}
OrderedMapTypes == {"OrderedMap_c", "OrderedMapDCTerm_c",
                    "OrderedMapDTerm_c", "OrderedMapCTerm_c"}

\* Every kind that occurs.
Kinds == Singletons \cup ArrayTypes \cup OrderedMapTypes \cup
    {"bool", "uint64_t", "int64_t", "pair", "UnionTerm_c", "TupleTerm_c", "ArrayTerm_c",
     "OrderedMapTerm_c", "FreeVarTerm_c"} \cup Incomparable
ASSUME KindsHaveNames == Kinds \subseteq DOMAIN NameAddress

\* Containers carry their constraint, the type they were made to inhabit,
\* in front of what they hold.
ArrayTerm(type, elements) == Node("ArrayTerm_c", 0, <<type>> \o elements)
OrderedMapTerm(type, pairs) == Node("OrderedMapTerm_c", 0, <<type>> \o pairs)
Constraint(x) == Part(x, 1)
Size(x) == Len(x.args) - 1

element_type(t) ==
    IF t.kind \in {"ArrayESTerm_c", "ArrayETerm_c"} THEN Part(t, 1) ELSE Term
domain_of(t) ==
    IF t.kind \in {"OrderedMapDCTerm_c", "OrderedMapDTerm_c"}
    THEN Part(t, 1) ELSE Term
codomain_of(t) ==
    CASE t.kind = "OrderedMapDCTerm_c" -> Part(t, 2)
      [] t.kind = "OrderedMapCTerm_c" -> Part(t, 1)
      [] OTHER -> Term

(***************************************************************************)
(* abstract_type_of_data: singletons and plain values by their kind, the   *)
(* containers by what they carry, a tuple or formal type by the types of   *)
(* what it holds.                                                          *)
(***************************************************************************)
AbstractTypeOfSingleton ==
    [Void_c |-> "VoidType_c", True_c |-> "TrueType_c",
     False_c |-> "FalseType_c", Bool_c |-> "BoolType_c",
     Uint64_c |-> "Uint64Type_c", Union_c |-> "UnionType_c",
     ArrayES_c |-> "ArrayType_c", ArrayE_c |-> "ArrayType_c",
     ArrayS_c |-> "ArrayType_c", Array_c |-> "ArrayType_c",
     OrderedMapDC_c |-> "OrderedMapType_c",
     OrderedMapD_c |-> "OrderedMapType_c",
     OrderedMapC_c |-> "OrderedMapType_c",
     OrderedMap_c |-> "OrderedMapType_c", Tuple_c |-> "TupleType_c",
     EndOfFile_c |-> "EndOfFileType_c", FreeVar_c |-> "FreeVarType_c",
     Output_c |-> "OutputType_c", ClearOutput_c |-> "ClearOutputType_c",
     RequestSyncInput_c |-> "RequestSyncInputType_c"]

TypeOfKind ==
    [bool |-> "Bool_c", uint64_t |-> "Uint64_c", UnionTerm_c |-> "Union_c",
     ArrayESTerm_c |-> "ArrayES_c", ArrayETerm_c |-> "ArrayE_c",
     ArraySTerm_c |-> "ArrayS_c", OrderedMapDCTerm_c |-> "OrderedMapDC_c",
     OrderedMapDTerm_c |-> "OrderedMapD_c",
     OrderedMapCTerm_c |-> "OrderedMapC_c", FreeVarTerm_c |-> "FreeVar_c",
     OutputTerm_c |-> "Output_c", RequestSyncInputTerm_c |-> "RequestSyncInput_c"]

\* Placeholders are not registered.
NoAbstractType == {"PlaceholderType_c", "Placeholder_c", "PlaceholderTerm_c"}

TypeOf(abstract_type, x) ==
    CASE x.kind \in DOMAIN AbstractTypeOfSingleton ->
            Atom(AbstractTypeOfSingleton[x.kind])
      [] x.kind \in Singletons \ (NoAbstractType \cup DOMAIN AbstractTypeOfSingleton) ->
            Atom("NonParametricType_c")
      [] x.kind \in DOMAIN TypeOfKind -> Atom(TypeOfKind[x.kind])
      [] x.kind \in {"ArrayTerm_c", "OrderedMapTerm_c"} -> Constraint(x)
      [] x.kind \in {"TupleTerm_c", "FormalTypeOf_Term_c"} ->
            Node(x.kind, 0, [i \in DOMAIN x.args |-> abstract_type[x.args[i]]])
      [] OTHER -> Term   \* what is not registered

abstract_type_of_data[x \in Data] == TypeOf(abstract_type_of_data, x)
AbstractType(x) == abstract_type_of_data[x]

(***************************************************************************)
(* inhabits_data.  Everything is a Term.  Otherwise the two kinds decide   *)
(* (InhabitsByKind), or the overload found for them, or the one that takes *)
(* any Data, which unions, formal types and free variables have; without   *)
(* one the answer is no.                                                   *)
(***************************************************************************)
InhabitsByKind ==
    [VoidType_c |-> {"Void_c"},
     NonParametricTerm_c |-> {"Void_c", "VoidType_c"},
     NonType_c |-> {"Void_c"},
     NonParametricType_c |-> {"VoidType_c"},
     TrueType_c |-> {"True_c"}, FalseType_c |-> {"False_c"},
     Bool_c |-> {"True_c", "False_c", "bool"},
     BoolType_c |-> {"Bool_c", "TrueType_c", "FalseType_c"},
     Uint64_c |-> {"uint64_t"}, Uint64Type_c |-> {"Uint64_c"},
     Type_c |-> {"VoidType_c", "Term_c", "NonParametricTerm_c", "Type_c",
                 "NonType_c", "NonParametricType_c", "Union_c", "UnionType_c",
                 "Tuple_c", "TupleType_c", "ArrayES_c", "ArrayE_c",
                 "ArrayS_c", "Array_c", "OrderedMapDC_c", "OrderedMapD_c",
                 "OrderedMapC_c", "OrderedMap_c", "FormalTypeOf_c",
                 "FreeVarType_c", "FreeVar_c", "FreeVarTerm_c"},
     ArrayType_c |-> {"ArrayES_c", "ArrayE_c", "ArrayS_c", "Array_c"},
     OrderedMapType_c |-> {"OrderedMapDC_c", "OrderedMapD_c",
                           "OrderedMapC_c", "OrderedMap_c"},
     UnionType_c |-> {"Union_c"}, TupleType_c |-> {"Tuple_c"},
     ArrayES_c |-> {"ArrayESTerm_c"}, ArrayE_c |-> {"ArrayETerm_c"},
     ArrayS_c |-> {"ArraySTerm_c"}, Array_c |-> {"ArrayTerm_c"},
     OrderedMapDC_c |-> {"OrderedMapDCTerm_c"},
     OrderedMapD_c |-> {"OrderedMapDTerm_c"},
     OrderedMapC_c |-> {"OrderedMapCTerm_c"},
     OrderedMap_c |-> {"OrderedMapTerm_c"},
     Union_c |-> {"UnionTerm_c"}, Tuple_c |-> {"TupleTerm_c"},
     EndOfFileType_c |-> {"EndOfFile_c"}, FormalTypeOf_c |-> {"FormalTypeOf_Term_c"},
     FreeVarType_c |-> {"FreeVar_c"}, FreeVar_c |-> {"FreeVarTerm_c"},
     OutputType_c |-> {"Output_c"}, Output_c |-> {"OutputTerm_c"},
     ClearOutputType_c |-> {"ClearOutput_c"},
     RequestSyncInputType_c |-> {"RequestSyncInput_c"},
     RequestSyncInput_c |-> {"RequestSyncInputTerm_c"}]

\* Element by element, for data with as many elements.
InhabitsSeq(inhabits, s, t) == /\ Len(s) = Len(t)
                               /\ \A i \in DOMAIN s : inhabits[<<s[i], t[i]>>]

\* The constraint's kind compared, but not its element type.
MutSameKindOfType(inhabits, x, t) ==
    \/ Constraint(x).kind = t.kind
    \/ \A i \in DOMAIN Content(x) : inhabits[<<Content(x)[i], element_type(t)>>]

\* An array whose own constraint has the element type asked for is believed
\* to respect it; of another one every element is looked at.
ElementsInhabit(inhabits, x, t) ==
    \/ EqData(element_type(Constraint(x)), element_type(t))
    \/ \A i \in DOMAIN Content(x) : inhabits[<<Content(x)[i], element_type(t)>>]

\* An ordered map inhabits a type if its constraint names the same domain
\* and codomain, whatever its keys and values are.
SameDomain(x, t) == EqData(domain_of(Constraint(x)), domain_of(t))
SameCodomain(x, t) == EqData(codomain_of(Constraint(x)), codomain_of(t))

\* Everything inhabits a free variable.  A formal type has one inhabitant;
\* between two formal types it is that of their terms: if x : t, then
\* FormalTypeOf(x) : FormalTypeOf(t).
MutFormalTypeByEquality(inhabits, x, t) ==
    \/ t.kind = "FreeVarTerm_c"
    \/ t.kind = "FormalTypeOf_Term_c" /\ EqData(x, t.args[1])

InhabitsAny(inhabits, x, t) ==
    \/ t.kind = "FreeVarTerm_c"
    \/ /\ t.kind = "FormalTypeOf_Term_c"
       /\ IF x.kind = t.kind THEN inhabits[<<Part(x, 1), Part(t, 1)>>] ELSE EqData(x, Part(t, 1))

InhabitsGiven(inhabits, x, t) ==
    \/ t.kind = "Term_c"
    \/ InhabitsAny(inhabits, x, t)
    \/ t.kind \in DOMAIN InhabitsByKind /\ x.kind \in InhabitsByKind[t.kind]
    \/ x.kind = "bool" /\ t.kind = (IF x.num = 1 THEN "TrueType_c" ELSE "FalseType_c")
    \/ /\ x.kind = "ArrayTerm_c"
       /\ CASE t.kind = "ArrayESTerm_c" -> Size(x) = t.num /\ ElementsInhabit(inhabits, x, t)
            [] t.kind = "ArrayETerm_c" -> ElementsInhabit(inhabits, x, t)
            [] t.kind = "ArraySTerm_c" -> Size(x) = t.num
            [] t.kind = "ArrayTerm_c" -> InhabitsSeq(inhabits, Content(x), Content(t))
            [] OTHER -> FALSE
    \/ /\ x.kind = "OrderedMapTerm_c"
       /\ CASE t.kind = "OrderedMapDCTerm_c" -> SameDomain(x, t) /\ SameCodomain(x, t)
            [] t.kind = "OrderedMapDTerm_c" -> SameDomain(x, t)
            [] t.kind = "OrderedMapCTerm_c" -> SameCodomain(x, t)
            [] OTHER -> FALSE
    \/ /\ x.kind = t.kind
       /\ x.kind \in {"ArrayETerm_c", "OrderedMapDCTerm_c", "OrderedMapDTerm_c",
                      "OrderedMapCTerm_c", "UnionTerm_c", "TupleTerm_c"}
       /\ InhabitsSeq(inhabits, x.args, t.args)
    \/ /\ t.kind = "UnionTerm_c" /\ x.kind # "UnionTerm_c"
       /\ \E i \in DOMAIN t.args : inhabits[<<x, t.args[i]>>]

inhabits_data[p \in Data \X Data] == InhabitsGiven(inhabits_data, p[1], p[2])
Inhabits(x, t) == inhabits_data[<<x, t>>]

(***************************************************************************)
(* The constraints of containers, verified against what they hold.         *)
(***************************************************************************)
KeysInhabit(pairs, t) ==
    \A i \in DOMAIN pairs : Inhabits(pairs[i].args[1], domain_of(t))
ValuesInhabit(pairs, t) ==
    \A i \in DOMAIN pairs : Inhabits(pairs[i].args[2], codomain_of(t))

verify_constraint(t, content) ==
    CASE t.kind = "ArrayESTerm_c" ->
            /\ Len(content) = t.num
            /\ \A i \in DOMAIN content : Inhabits(content[i], element_type(t))
      [] t.kind = "ArrayETerm_c" ->
            \A i \in DOMAIN content : Inhabits(content[i], element_type(t))
      [] t.kind = "ArraySTerm_c" -> Len(content) = t.num
      [] t.kind = "OrderedMapDCTerm_c" ->
            KeysInhabit(content, t) /\ ValuesInhabit(content, t)
      [] t.kind = "OrderedMapDTerm_c" -> KeysInhabit(content, t)
      [] t.kind = "OrderedMapCTerm_c" -> ValuesInhabit(content, t)
      [] t.kind \in {"Array_c", "OrderedMap_c"} -> TRUE

=============================================================================
