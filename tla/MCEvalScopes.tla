---------------------------- MODULE MCEvalScopes ----------------------------
(* TLC instances of EvalScopes.  With functions: one variable symX, and a *)
(* library function symF whose parameter is symX.  Blocks only: both are   *)
(* variables.                                                              *)
EXTENDS EvalScopes

CONSTANTS symX, symF, one, square

MCParam    == [fn \in {square} |-> symX]
MCAccepted == [fn \in {square} |-> {one}]
MCLibrary  == [s \in Symbol |-> IF s = symF THEN square ELSE Undefined]

MCNoParam == <<>>
MCEmpty   == [s \in Symbol |-> Undefined]

=============================================================================
