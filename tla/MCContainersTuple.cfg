CONSTANTS
    NameAddress <- MCNameAddress
    Elements <- MCElements
    Values <- MCValues
    Contents <- MCContents
    Types <- MCTypes
    Callees <- MCCallees
    MaxHeight = 8
    SizeValues = 32
    MaxSize = 2
    MaxWrites = 1
SPECIFICATION Spec
INVARIANT EveryTermReadsBack
CHECK_DEADLOCK FALSE
