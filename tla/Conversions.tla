---------------------------- MODULE Conversions ----------------------------
(***************************************************************************)
(* The built-in type conversions (type/Conversions.cpp): their quality     *)
(* checks and evaluations, convert_to, which refuses a conversion that     *)
(* would lose something, and the projection TypeFunctor, which embeds      *)
(* through them without looking.  The table is filled by a static          *)
(* initialiser, so the module begins with the loading of the library.      *)
(*                                                                         *)
(* The 64 bits of int64_t and size_t, the 53 of a mantissa and the 8 of    *)
(* char are the constants W, M and C.  A Data is its C++ type and the      *)
(* number it stands for, in halves: a half is any fraction.  The numbers   *)
(* of double are those of at most M significant bits up to 2^W, beyond     *)
(* every integer, the two infinities, and NaN, which is put above all of   *)
(* them: no check of the code tells it from a number that is out of range  *)
(* and has a fraction.                                                     *)
(***************************************************************************)
EXTENDS Integers, Sequences, FiniteSets

CONSTANTS
    W,         \* bits of int64_t
    M,         \* bits of the mantissa of double
    C,         \* bits of char
    Targets    \* types asked for

ASSUME WidthsAssumption ==
    /\ {W, M, C} \subseteq Nat
    /\ 2 <= C /\ C <= M + 1 /\ M < W - 1

VARIABLES
    phase,          \* "loading", then "main" or "terminated"
    loaded,         \* objects of LinkOrder whose initialisers have run
    m_conversions,  \* the rows of Conversions::SINGLETON
    data,           \* the Data that is converted
    origin,         \* its number when a loss was last accepted
    view            \* type a TypeFunctor projection of it shows

vars == <<phase, loaded, m_conversions, data, origin, view>>
-----------------------------------------------------------------------------
(***************************************************************************)
(* Types and the rows of the table.                                        *)
(***************************************************************************)
NPTypes ==
    {"Term", "Type", "NonType", "NonParametricType", "EmptyType", "VoidType",
     "TrueType", "FalseType", "Bool", "Sint8", "Sint16", "Sint32", "Sint64",
     "Uint8", "Uint16", "Uint32", "Uint64", "Float32", "Float64", "BoolType",
     "Sint8Type", "Sint16Type", "Sint32Type", "Sint64Type", "Uint8Type",
     "Uint16Type", "Uint32Type", "Uint64Type", "Float32Type", "Float64Type"}
ArrayTypes == {"ArrayType", "ArrayES", "ArrayE", "ArrayS", "Array"}
OrderedMapTypes ==
    {"OrderedMapType", "OrderedMapDC", "OrderedMapD", "OrderedMapC", "OrderedMap"}
IdentityTypes == NPTypes \cup ArrayTypes \cup OrderedMapTypes

ASSUME TargetsAssumption == Targets \subseteq IdentityTypes

\* Flags of a conversion.
IDENTITY == {"IS_SAME_TYPE", "INJECTIVE", "SURJECTIVE"}
INJECTIVE == {"INJECTIVE"}
CONDITIONALLY_LOSSY == {"CONDITIONALLY_LOSSY"}
SURJECTIVE_LOSSY == {"SURJECTIVE", "CONDITIONALLY_LOSSY"}

Row(s, t, flags) == [source |-> s, target |-> t, flags |-> flags]

Builtin ==
    {Row(t, t, IDENTITY) : t \in IdentityTypes} \cup
    {Row("Sint64", "Float64", CONDITIONALLY_LOSSY),
     Row("Sint64", "Sint8", SURJECTIVE_LOSSY),
     Row("Sint64", "Bool", SURJECTIVE_LOSSY),
     Row("Float64", "Sint64", CONDITIONALLY_LOSSY),
     Row("Float64", "Sint8", SURJECTIVE_LOSSY),
     Row("Float64", "Bool", SURJECTIVE_LOSSY),
     Row("Sint8", "Sint64", INJECTIVE),
     Row("Sint8", "Float64", INJECTIVE),
     Row("Sint8", "Bool", SURJECTIVE_LOSSY),
     Row("Bool", "Sint64", INJECTIVE),
     Row("Bool", "Float64", INJECTIVE),
     Row("Bool", "Sint8", INJECTIVE)}

Found(s, t) == {c \in m_conversions : c.source = s /\ c.target = t}
can_convert(s, t) == Found(s, t) # {}
-----------------------------------------------------------------------------
(***************************************************************************)
(* Numbers, in halves.                                                     *)
(***************************************************************************)
\* 2^n.
Pow2[n \in Nat] == IF n = 0 THEN 1 ELSE 2 * Pow2[n - 1]

Abs(n) == IF n < 0 THEN -n ELSE n
Sint(w) == {2 * n : n \in -Pow2[w - 1] .. Pow2[w - 1] - 1}

\* What k significant bits can hold.
Fits(n, k) == \E shift \in 0 .. W + 1, m \in 0 .. Pow2[k] - 1 : Abs(n) = m * Pow2[shift]

Finite == {n \in -Pow2[W + 1] .. Pow2[W + 1] : Fits(n, M)}
Infinity == Pow2[W + 2]
NaN == Infinity + 1
Double == Finite \cup {-Infinity, Infinity, NaN}

\* To the nearest, of two the one whose last bit is 0.
RoundToDouble(n) ==
    LET nearest == {x \in Finite : \A y \in Finite : Abs(n - x) <= Abs(n - y)}
    IN  CHOOSE x \in nearest : (\E y \in nearest : Fits(y, M - 1)) => Fits(x, M - 1)

trunc(x) == IF x < 0 THEN -(2 * ((-x) \div 2)) ELSE 2 * (x \div 2)

\* Of a number out of range the conversion of double to an integer is
\* undefined: it gives any.
DoubleToSint(x, w) == IF trunc(x) \in Sint(w) THEN {trunc(x)} ELSE Sint(w)

\* Cut to its size.
Wrap(n, w) == 2 * (((n \div 2 + Pow2[w - 1]) % Pow2[w]) - Pow2[w - 1])

(***************************************************************************)
(* The loops over the bits of a size_t.                                    *)
(***************************************************************************)
size_t == 0 .. Pow2[W] - 1

trailing_zero_bit_count[n \in size_t] ==
    IF n = 0 THEN W
    ELSE IF n % 2 = 1 THEN 0
    ELSE 1 + trailing_zero_bit_count[n \div 2]

leading_zero_bit_count[n \in size_t] ==
    IF n = 0 THEN W
    ELSE IF n >= Pow2[W - 1] THEN 0
    ELSE 1 + leading_zero_bit_count[2 * n]

\* The zeros at the end counted as significant.
MutSignificantBits(n) == IF n = 0 THEN 0 ELSE W - leading_zero_bit_count[n]

significant_bit_count(n) ==
    IF n = 0 THEN 0
    ELSE W - leading_zero_bit_count[n] - trailing_zero_bit_count[n]
-----------------------------------------------------------------------------
(***************************************************************************)
(* Data, and their conversion.  Type Sint8 is that of int8_t; char, which  *)
(* the conversions to Sint8 give and those from Sint8 ask for, is another  *)
(* C++ type, of which the library only knows that it is a Term.            *)
(***************************************************************************)
Value(cpp, n) == [cpp |-> cpp, num |-> n]

Values ==
    {Value("int64_t", n) : n \in Sint(W)} \cup
    {Value("int8_t", n) : n \in Sint(C)} \cup
    {Value("char", n) : n \in Sint(C)} \cup
    {Value("double", x) : x \in Double} \cup
    {Value("bool", b) : b \in {0, 2}} \cup
    {Value("Void_c", 0)}

TypeOfCpp ==
    [int64_t |-> "Sint64", int8_t |-> "Sint8", double |-> "Float64",
     bool |-> "Bool", Void_c |-> "VoidType", char |-> "Term"]
abstract_type_of(d) == TypeOfCpp[d.cpp]

\* The check of the upper bound of int64_t without the last `='.
MutNotLossy(t, d) ==
    CASE t = "Float64" ->
            /\ d.num # -Pow2[W]
            /\ significant_bit_count(Abs(d.num) \div 2) <= M
      [] t = "Sint64" -> /\ trunc(d.num) = d.num
                         /\ -Pow2[W] <= d.num
                         /\ d.num <= Pow2[W]
      [] t = "Sint8" -> -Pow2[C] <= d.num /\ d.num <= Pow2[C] - 2
      [] t = "Bool" -> d.num \in {0, 2}

\* The QualityCheck of the conversions that are CONDITIONALLY_LOSSY.
NotLossy(t, d) ==
    CASE t = "Float64" ->
            /\ d.num # -Pow2[W]
            /\ significant_bit_count(Abs(d.num) \div 2) <= M
      [] t = "Sint64" -> /\ trunc(d.num) = d.num
                         /\ -Pow2[W] <= d.num
                         /\ d.num < Pow2[W]
      [] t = "Sint8" -> -Pow2[C] <= d.num /\ d.num <= Pow2[C] - 2
      [] t = "Bool" -> d.num \in {0, 2}

\* The integer left as it is by the conversion to double.
MutEval(t, d) ==
    IF abstract_type_of(d) = t \/ t = "Float64" THEN {d}
    ELSE {Value("bool", 0), Value("bool", 2)}

\* What a conversion of d to t may give; nothing when it throws, as the cast
\* of an int8_t to char does.
Eval(t, d) ==
    CASE abstract_type_of(d) = t -> {d}
      [] abstract_type_of(d) # t /\ d.cpp = "int8_t" -> {}
      [] d.cpp # "int8_t" /\ t = "Bool" ->
            {Value("bool", IF d.num = 0 THEN 0 ELSE 2)}
      [] d.cpp \in {"int64_t", "bool"} /\ t = "Float64" ->
            {Value("double", RoundToDouble(d.num))}
      [] d.cpp \in {"int64_t", "bool"} /\ t = "Sint8" ->
            {Value("char", Wrap(d.num, C))}
      [] d.cpp = "bool" /\ t = "Sint64" -> {Value("int64_t", d.num)}
      [] d.cpp = "double" /\ t = "Sint64" ->
            {Value("int64_t", n) : n \in DoubleToSint(d.num, W)}
      [] d.cpp = "double" /\ t = "Sint8" ->
            {Value("char", n) : n \in DoubleToSint(d.num, C)}

\* Conversion::quality_check: the flags decide, then the QualityCheck.
quality_check(c, d) ==
    \/ c.flags \cap {"IS_SAME_TYPE", "INJECTIVE"} # {}
    \/ "CONDITIONALLY_LOSSY" \in c.flags /\ NotLossy(c.target, d)
-----------------------------------------------------------------------------
(***************************************************************************)
(* The library is loaded: the static initialisers of its source files run  *)
(* in the order the files are linked.  Those of the type modules register  *)
(* how their types are hashed; the one of type/Conversions.cpp puts types  *)
(* into a hashed set, and throws, before main, if one is not registered.   *)
(***************************************************************************)
\* Files of subdirectories first.
MutLinkOrder ==
    <<"type/Conversions.cpp", "ArrayType.cpp", "Data.cpp", "NPTerm.cpp",
      "NPType.cpp", "OrderedMapType.cpp">>

LinkOrder ==
    <<"ArrayType.cpp", "Data.cpp", "NPTerm.cpp", "NPType.cpp",
      "OrderedMapType.cpp", "type/Conversions.cpp">>

HashedBy(file) ==
    CASE file = "ArrayType.cpp" -> ArrayTypes
      [] file = "NPType.cpp" -> NPTypes
      [] file = "OrderedMapType.cpp" -> OrderedMapTypes
      [] OTHER -> {}
Hashable == UNION {HashedBy(LinkOrder[i]) : i \in 1 .. loaded}

Initialise ==
    /\ phase = "loading" /\ loaded < Len(LinkOrder)
    /\ loaded' = loaded + 1
    /\ IF LinkOrder[loaded'] # "type/Conversions.cpp"
       THEN UNCHANGED <<phase, m_conversions>>
       ELSE IF \A c \in Builtin : {c.source, c.target} \subseteq Hashable
       THEN m_conversions' = Builtin /\ UNCHANGED phase
       ELSE phase' = "terminated" /\ UNCHANGED m_conversions
    /\ UNCHANGED <<data, origin, view>>

EnterMain ==
    /\ phase = "loading" /\ loaded = Len(LinkOrder)
    /\ phase' = "main"
    /\ UNCHANGED <<loaded, m_conversions, data, origin, view>>

\* Another value to convert.
Assign(d) ==
    /\ phase = "main"
    /\ data' = d /\ origin' = d.num
    /\ UNCHANGED <<phase, loaded, m_conversions, view>>

\* Conversions::convert_to(t, data), by a caller who wants no loss.  A call
\* that throws, for want of a conversion, of quality or in it, has no effect.
ConvertTo(t) ==
    /\ phase = "main"
    /\ \E c \in Found(abstract_type_of(data), t) :
        /\ "CONDITIONALLY_LOSSY" \in c.flags => quality_check(c, data)
        /\ data' \in Eval(t, data)
    /\ UNCHANGED <<phase, loaded, m_conversions, origin, view>>

\* The same by a caller who accepts what comes.
ConvertLossy(t) ==
    /\ phase = "main" /\ can_convert(abstract_type_of(data), t)
    /\ data' \in Eval(t, data)
    /\ origin' = data'.num
    /\ UNCHANGED <<phase, loaded, m_conversions, view>>

(***************************************************************************)
(* TypeFunctor: the projection is the type of the data; embedding another  *)
(* type converts the data to it, whatever is lost.                         *)
(***************************************************************************)
project_with_complement ==
    /\ phase = "main"
    /\ view' = abstract_type_of(data)
    /\ UNCHANGED <<phase, loaded, m_conversions, data, origin>>

\* The user of the projection alters it.
AlterView(t) ==
    /\ phase = "main"
    /\ view' = t
    /\ UNCHANGED <<phase, loaded, m_conversions, data, origin>>

can_embed == can_convert(abstract_type_of(data), view)

embed ==
    /\ phase = "main" /\ can_embed
    /\ data' \in Eval(view, data)
    /\ origin' = data'.num
    /\ UNCHANGED <<phase, loaded, m_conversions, view>>
-----------------------------------------------------------------------------
Init ==
    /\ phase = "loading" /\ loaded = 0 /\ m_conversions = {}
    /\ data = Value("Void_c", 0) /\ origin = 0 /\ view = "VoidType"

Load == Initialise \/ EnterMain

Next ==
    \/ Load
    \/ \E d \in Values : Assign(d)
    \/ \E t \in Targets : ConvertTo(t)
    \/ \E t \in Targets : ConvertLossy(t)
    \/ project_with_complement
    \/ \E t \in Targets : AlterView(t)
    \/ embed

\* The loader runs the initialisers and main without being asked.
Spec == Init /\ [][Next]_vars /\ WF_vars(Load)
-----------------------------------------------------------------------------
\* The judgement on a value before it is converted (the QualityChecks) is
\* that of what comes out (the Evals): not lossy if and only if the number
\* stays the same.  Two judgements of the code are other: the least int64_t
\* is held for lossy as a double although it is a power of two, and a double
\* with a fraction for not lossy as a Sint8.
QualityIsExact ==
    \A c \in m_conversions :
        (c.source = abstract_type_of(data) /\ "CONDITIONALLY_LOSSY" \in c.flags)
        => \/ quality_check(c, data)
              <=> \A r \in Eval(c.target, data) : r.num = data.num
           \/ c.target = "Float64" /\ data.num = -Pow2[W]
           \/ /\ c.source = "Float64" /\ c.target = "Sint8"
              /\ trunc(data.num) # data.num
           \/ Eval(c.target, data) = {}

\* However many conversions that convert_to accepts follow each other, along
\* whichever types, the number is the one the chain began with (the diagram
\* that commutes of the comments).  Only as a char it may have lost its fraction,
\* which the check of conversions to Sint8 does not look at.
LosslessChain ==
    data.num = origin \/ (data.cpp = "char" /\ data.num = trunc(origin))

\* After embed a projection of the data shows the type that was embedded;
\* only with Sint8 it does not, for which the data becomes a char.
EmbedThenProject ==
    [][embed => abstract_type_of(data') = view \/ view = "Sint8"]_vars

\* The initialisers come to an end without an exception, and main finds all
\* the conversions: no type is hashed before it is registered.
StartsUp == <>(phase = "main" /\ m_conversions = Builtin)
=============================================================================
