SPECIFICATION FairSpec
CONSTANTS
    symX = symX
    symF = symF
    one = one
    square = square
    Undefined = Undefined
    None = None
    Symbol = {symX, symF}
    Vars = {symX}
    Literal = {one, square}
    Fn = {square}
    Param <- MCParam
    Accepted <- MCAccepted
    Library <- MCLibrary
    MaxTables = 3
INVARIANTS TypeOK ScopesAgree
PROPERTIES ClosedScopesFrozen ResolvedForEver RefinesScopeStack UnwindReachesGlobal
CHECK_DEADLOCK FALSE
