SPECIFICATION Spec
CONSTANTS
    Null = Null
    NoValue = NoValue
    v1 = v1
    v2 = v2
    v3 = v3
    View = {v1, v2}
    five = five
    sixes = sixes
    Value = {five, sixes}
    Inserted = sixes
    Content <- MCContent
    MaxSize = 3
    MaxSelected = 2
    MaxOpened = 3
    MaxEdits = 0
SYMMETRY MCAddresses
INVARIANTS AssertionsHold
CHECK_DEADLOCK FALSE
