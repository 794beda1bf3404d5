---------------------------- MODULE MCContainers ----------------------------
EXTENDS Containers

\* The addresses of the type names, in an order of no meaning.
MCNameOrder ==
    <<"Void_c", "ArrayTerm_c", "bool", "TupleTerm_c", "ArrayETerm_c",
      "OrderedMapTerm_c", "Bool_c", "ArraySTerm_c", "Array_c", "VoidType_c",
      "UnionTerm_c", "ArrayESTerm_c", "OrderedMap_c", "OrderedMapDCTerm_c",
      "OrderedMapCTerm_c", "Term_c", "uint64_t", "pair", "Tuple_c", "int64_t",
      "OutputTerm_c", "FreeVarTerm_c", "RequestSyncInputTerm_c",
      "FormalTypeOf_Term_c", "PlaceholderTerm_c",
      "NonParametricTerm_c", "Type_c", "NonType_c", "NonParametricType_c", "True_c",
      "False_c", "TrueType_c", "FalseType_c", "EmptyType_c", "Uint64_c", "BoolType_c",
      "Uint64Type_c", "UnionType_c", "Union_c", "ArrayType_c", "ArrayES_c", "ArrayE_c",
      "ArrayS_c", "OrderedMapType_c", "OrderedMapDC_c", "OrderedMapD_c", "OrderedMapC_c",
      "TupleType_c", "EndOfFileType_c", "EndOfFile_c", "FormalTypeOf_c", "FreeVarType_c",
      "FreeVar_c", "PlaceholderType_c", "Placeholder_c", "OutputType_c", "Output_c",
      "ClearOutputType_c", "ClearOutput_c", "RequestSyncInputType_c", "RequestSyncInput_c", "OrderedMapDTerm_c">>
MCNameAddress ==
    [k \in {MCNameOrder[i] : i \in DOMAIN MCNameOrder} |->
        CHOOSE i \in DOMAIN MCNameOrder : MCNameOrder[i] = k]

Bool == Atom("Bool_c")
BoolType == Atom("BoolType_c")
Type == Atom("Type_c")
Bools == ArrayTerm(ArrayE(Bool), <<bool(1)>>)

\* The union in MCElements inhabits the first of the two in MCTypes, and not the
\* second, which is equal to the first.  Term is not said to inhabit its type.
MCElements == {bool(1), Term, Union(<<Bool, Term>>)}
MCValues == {bool(1), Bools}
MCContents == MCElements \cup {Bools, FreeVar(Atom("Void_c"))}
MCTypes ==
    {Array, ArrayE(Bool), ArrayS(1), ArrayES(Bool, 1),
     ArrayE(Union(<<BoolType, Type>>)), ArrayE(Union(<<Type, BoolType>>)),
     OrderedMap, OrderedMapDC(Bool, ArrayE(Bool)), OrderedMapC(Bool)}

\* The array types, unions and tuples of them, and some that take no container.
MCCallees ==
    {t \in MCTypes : t.kind # "Array_c"} \cup
    {Term, Bool, Array, Atom("Tuple_c"), Tuple(<<>>), Tuple(<<Bool>>),
     Tuple(<<Bool, ArrayE(Bool)>>), Tuple(<<Term, Union(<<Bool, ArrayS(1)>>)>>),
     FreeVar(Bool), FormalTypeOf(Bool), FormalTypeOf(ArrayE(Bool)), FormalTypeOf(Bools),
     Union(<<ArrayE(Bool), Atom("Tuple_c")>>),
     Union(<<Tuple(<<Term>>), OrderedMapC(Bool)>>)}
=============================================================================
