----------------------------- MODULE MCInterop -----------------------------
(* TLC instances of Interop: scripts like the one of do_stuff.             *)
EXTENDS Interop

CONSTANTS c

Serialize(t) == [op |-> "serialize", term |-> t]
Do(name)     == [op |-> name]

\* ArrayES(Array,1)(Array()): the type says how many elements there are, and
\* each must be an Array
MCArrayES ==
    <<Parametric("ArrayES", 3, <<"value", "any", "value">>, <<>>), NP("ArrayES"), NP("Array")>> \o POD("Uint64", "1")
MCArrayOfArray == <<Parametric("ArrayESTerm", 2, <<"value">>, <<"kind">>)>> \o MCArrayES \o Array(0)

\* OrderedMapDC(VoidType,Term)(pair(Void,True))
MCMapDC ==
    <<Parametric("OrderedMapDC", 3, <<"value", "any", "any">>, <<>>), NP("OrderedMapDC"),
      NP("VoidType"), NP("Term")>>
MCMap ==
    <<Parametric("OrderedMapDCTerm", 4, <<"value", "kind">>, <<"kind", "any">>)>> \o MCMapDC \o POD("Uint64", "1")
        \o <<NP("Void"), NP("True")>>

MCClear   == <<NP("ClearOutput")>>
MCPair    == Array(2) \o POD("Float64", "e") \o <<NP("Void")>>
MCRequest == RequestSyncInput(<<NP("Sint32")>>)

\* Containers with a constraint, an Output, two requests, the last response in an
\* Output, and a term that is only flushed by returning from main
MCScript ==
    << Serialize(MCArrayOfArray), Serialize(MCMap), Serialize(Output(MCPair)), Do("flush"),
       Serialize(MCRequest), Do("flush"), Do("deserialize"),
       Serialize(MCRequest), Do("flush"), Do("deserialize"), Do("echo"), Serialize(MCClear) >>

MCLines == {<<>>, <<c>>}

=============================================================================
