SPECIFICATION Spec
CONSTANTS
    symX = symX
    symF = symF
    one = one
    square = square
    Undefined = Undefined
    None = None
    Symbol = {symX, symF}
    Vars = {symX, symF}
    Literal = {one}
    Fn = {}
    Param <- MCNoParam
    Accepted <- MCNoParam
    Library <- MCEmpty
    MaxTables = 2
INVARIANT DerefReturns
CHECK_DEADLOCK FALSE
