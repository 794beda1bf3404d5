--------------------------- MODULE MCConversions ---------------------------
EXTENDS Conversions

MCTargets == {"Sint64", "Float64", "Sint8", "Bool", "Term", "Uint64"}
=============================================================================
