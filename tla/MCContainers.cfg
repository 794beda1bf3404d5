CONSTANTS
    NameAddress <- MCNameAddress
    Elements <- MCElements
    Values <- MCValues
    Contents <- MCContents
    Types <- MCTypes
    Callees <- MCCallees
    MaxHeight = 8
    SizeValues = 32
    MaxSize = 2
    MaxWrites = 2
SPECIFICATION Spec
INVARIANT TypeOK
INVARIANT ConstraintKept
INVARIANT InhabitsIsSound
INVARIANT ElementsFound
INVARIANT RoundTrip
INVARIANT CompareIsAnOrder
CHECK_DEADLOCK FALSE
