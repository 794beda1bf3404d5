----------------------------- MODULE TermStream -----------------------------
(***************************************************************************)
(* The serialized form of Data: what the overloads of `serialize' write to *)
(* a stream for serialize_data, and how deserialize_data reads it back.    *)
(*                                                                         *)
(* A stream is a sequence of items: a top-level code (one byte), the       *)
(* number of a non-parametric term (one byte, here the term itself), or    *)
(* the bytes of a plain value (one item, whatever its width).  Nothing in  *)
(* a stream says where a term ends: the reader must find it.               *)
(***************************************************************************)
EXTENDS Terms, SequencesExt

\* What a function that threw is said to have returned.
Exception == Atom("exception")

NON_PARAMETRIC_TERM == Atom("NON_PARAMETRIC_TERM")
PARAMETRIC_TERM == Atom("PARAMETRIC_TERM")
Bytes(n) == Node("bytes", n, <<>>)
Item == [kind : Singletons \cup {"NON_PARAMETRIC_TERM", "PARAMETRIC_TERM", "bytes"},
         num : Nat, args : {<<>>}]

\* What a term with parameters is announced as.
Heading(x) ==
    CASE x.kind = "UnionTerm_c" -> Atom("UnionType_c")
      [] x.kind = "TupleTerm_c" -> Atom("TupleType_c")
      [] OTHER -> AbstractType(x)

\* The size left out for every array type with a parameter.
MutSizeLeftOut(x) ==
    CASE x.kind \in {"ArrayESTerm_c", "ArraySTerm_c"} ->
            x.args \o <<uint64(x.num)>>
      [] x.kind = "ArrayTerm_c" /\ Constraint(x).kind # "Array_c" -> Content(x)
      [] x.kind \in {"ArrayTerm_c", "OrderedMapTerm_c"} ->
            <<uint64(Size(x))>> \o Content(x)
      [] x.kind \in {"UnionTerm_c", "TupleTerm_c"} ->
            <<uint64(Len(x.args))>> \o x.args
      [] OTHER -> x.args

\* The terms written after it.  The size of an array is left out when its
\* type says it.
Fields(x) ==
    CASE x.kind \in {"ArrayESTerm_c", "ArraySTerm_c"} ->
            x.args \o <<uint64(x.num)>>
      [] x.kind \in {"ArrayETerm_c", "OrderedMapDCTerm_c",
                     "OrderedMapDTerm_c", "OrderedMapCTerm_c"} -> x.args
      [] x.kind = "ArrayTerm_c" ->
            IF Constraint(x).kind \in {"ArrayESTerm_c", "ArraySTerm_c"}
            THEN Content(x) ELSE <<uint64(Size(x))>> \o Content(x)
      [] x.kind = "OrderedMapTerm_c" -> <<uint64(Size(x))>> \o Content(x)
      [] x.kind \in {"UnionTerm_c", "TupleTerm_c"} ->
            <<uint64(Len(x.args))>> \o x.args
      [] x.kind \in {"OutputTerm_c", "RequestSyncInputTerm_c"} -> x.args
      [] OTHER -> <<>>   \* what no program here writes: int64_t and BoolTerm_c

\* The kinds with no overload of serialize: serialize_data throws.
Unserializable ==
    {"FormalTypeOf_c", "FormalTypeOf_Term_c", "FreeVarType_c", "FreeVar_c",
     "FreeVarTerm_c", "PlaceholderType_c", "Placeholder_c", "PlaceholderTerm_c"}

SerializedAll(serialize, terms) == FlattenSeq([i \in DOMAIN terms |-> serialize[terms[i]]])

Serialized(serialize, x) ==
    CASE x.kind \in Unserializable -> <<Exception>>
      [] x.kind \in Singletons \ Unserializable -> <<NON_PARAMETRIC_TERM, x>>
      [] x.kind \in {"bool", "uint64_t"} ->
            <<PARAMETRIC_TERM>> \o serialize[AbstractType(x)] \o <<Bytes(x.num)>>
      [] x.kind = "pair" -> SerializedAll(serialize, x.args)
      [] OTHER ->
            <<PARAMETRIC_TERM>> \o serialize[Heading(x)] \o SerializedAll(serialize, Fields(x))

serialize_data[x \in Data] == Serialized(serialize_data, x)
Serialize(x) == serialize_data[x]

\* What is in the stream after serialize_data: everything, or, when an overload
\* threw, what had been written up to then.
Written(x) ==
    LET written == Serialize(x)
        thrown == {i \in DOMAIN written : written[i] = Exception}
    IN  IF thrown = {} THEN written
        ELSE SubSeq(written, 1, (CHOOSE n \in thrown : \A m \in thrown : n <= m) - 1)

(***************************************************************************)
(* A reading is the term read, or Exception if one was thrown, and what is *)
(* then left of the stream.  An exhausted stream reads as EndOfFile.       *)
(***************************************************************************)
EndOfFile == Atom("EndOfFile_c")
Reading(data, rest) == [data |-> data, rest |-> rest]

Threw(terms) == \E i \in DOMAIN terms : terms[i] = Exception

\* The bytes that are next in a stream: in an exhausted one what the buffer happens
\* to hold.
NextItem(in) == IF in = <<>> THEN CHOOSE item \in Item : TRUE ELSE Head(in)
Rest(in) == IF in = <<>> THEN <<>> ELSE Tail(in)

\* n terms in a row, up to the first exception.
DeserializeN(deserialize, n, in) ==
    LET read[k \in 0 .. n] ==
            IF k = 0 THEN [terms |-> <<>>, rest |-> in]
            ELSE IF Threw(read[k - 1].terms) THEN read[k - 1]
            ELSE LET r == deserialize[read[k - 1].rest]
                 IN  [terms |-> Append(read[k - 1].terms, r.data), rest |-> r.rest]
    IN  read[n]

\* with_constraint, which throws if the constraint is not satisfied.
with_constraint(x) ==
    IF verify_constraint(Constraint(x), Content(x)) THEN x ELSE Exception

PairsOf(terms) ==
    [i \in 1 .. Len(terms) \div 2 |-> Pair(terms[2 * i - 1], terms[2 * i])]

(***************************************************************************)
(* The deserialize functions, by the abstract type that was read in front  *)
(* of the value: how many terms they read, and what they make of these.    *)
(***************************************************************************)
\* A size comes first, of elements or of pairs.
Counted == {"ArrayETerm_c", "Array_c", "Union_c", "Tuple_c"} \cup OrderedMapTypes

TermsPerElement(type) == IF type.kind \in OrderedMapTypes THEN 2 ELSE 1

\* The others read as many terms as the type says.
NumberOfTerms(type) ==
    CASE type.kind \in {"ArrayESTerm_c", "ArraySTerm_c"} -> type.num
      [] type.kind \in {"ArrayES_c", "OrderedMapDC_c"} -> 2
      [] type.kind \in {"ArrayE_c", "ArrayS_c", "OrderedMapD_c", "OrderedMapC_c",
                        "Output_c", "RequestSyncInput_c"} -> 1

\* The size in an array type must be a size_t.
MakeType(type, terms) ==
    CASE type.kind = "ArrayES_c" ->
            IF terms[2].kind = "uint64_t" THEN ArrayES(terms[1], terms[2].num) ELSE Exception
      [] type.kind = "ArrayE_c" -> ArrayE(terms[1])
      [] type.kind = "ArrayS_c" ->
            IF terms[1].kind = "uint64_t" THEN ArrayS(terms[1].num) ELSE Exception
      [] type.kind = "OrderedMapDC_c" -> OrderedMapDC(terms[1], terms[2])
      [] type.kind = "OrderedMapD_c" -> OrderedMapD(terms[1])
      [] type.kind = "OrderedMapC_c" -> OrderedMapC(terms[1])
      [] type.kind = "Output_c" -> Output(terms[1])
      [] type.kind = "RequestSyncInput_c" -> RequestSyncInput(terms[1])

Make(type, terms) ==
    CASE type.kind \in ArrayTypes -> with_constraint(ArrayTerm(type, terms))
      [] type.kind \in OrderedMapTypes ->
            with_constraint(OrderedMapTerm(type, make_ordered_map(PairsOf(terms))))
      [] type.kind = "Union_c" -> Union(terms)
      [] type.kind = "Tuple_c" -> Tuple(terms)
      [] OTHER -> MakeType(type, terms)

ReadAndMake(deserialize, type, n, in) ==
    LET read == DeserializeN(deserialize, n, in)
    IN  Reading(IF Threw(read.terms) THEN Exception ELSE Make(type, read.terms), read.rest)

ReadCounted(deserialize, type, in) ==
    LET size == deserialize[in]
    IN  IF size.data.kind # "uint64_t" THEN Reading(Exception, size.rest)
        ELSE ReadAndMake(deserialize, type, TermsPerElement(type) * size.data.num, size.rest)

DeserializeValue(deserialize, type, in) ==
    CASE type.kind = "Bool_c" -> Reading(bool(NextItem(in).num), Rest(in))
      [] type.kind = "Uint64_c" -> Reading(uint64(NextItem(in).num), Rest(in))
      [] type.kind \in Counted -> ReadCounted(deserialize, type, in)
      [] type.kind \in {"ArrayESTerm_c", "ArraySTerm_c", "ArrayES_c", "ArrayE_c",
                        "ArrayS_c", "OrderedMapDC_c", "OrderedMapD_c",
                        "OrderedMapC_c", "Output_c", "RequestSyncInput_c"} ->
            ReadAndMake(deserialize, type, NumberOfTerms(type), in)
      [] OTHER -> Reading(Exception, in)

\* What has no `serialize' is not read either, and any other number throws.
DeserializeNonParametric(in) ==
    IF in = <<>> THEN Reading(EndOfFile, in)
    ELSE Reading(IF Head(in).kind \in Singletons \ Unserializable THEN Head(in) ELSE Exception,
                 Tail(in))

DeserializeParametric(deserialize, in) ==
    LET type == deserialize[in]
    IN  IF type.data = Exception THEN type
        ELSE DeserializeValue(deserialize, type.data, type.rest)

DeserializedGiven(deserialize, in) ==
    IF in = <<>> THEN Reading(EndOfFile, in)
    ELSE CASE Head(in) = NON_PARAMETRIC_TERM -> DeserializeNonParametric(Tail(in))
           [] Head(in) = PARAMETRIC_TERM -> DeserializeParametric(deserialize, Tail(in))
           [] OTHER -> Reading(Exception, in)

\* Every call takes an item from the stream before it calls itself, and so the
\* calls go no deeper than the stream is long.
Deserialize(in) ==
    LET deserialize_data[depth \in 0 .. Len(in)] ==
            [s \in Seq(Item) |->
                IF depth = 0 THEN Reading(EndOfFile, s)
                ELSE DeserializedGiven(deserialize_data[depth - 1], s)]
    IN  deserialize_data[Len(in)][in]
=============================================================================
