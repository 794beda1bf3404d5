CONSTANTS
    Node = {n1, n2, n3, n4, n5}
    Null = Null
    SizeMax = 7
SPECIFICATION Spec
SYMMETRY Addresses
INVARIANT TreeSound
PROPERTY EraseTruncates
CHECK_DEADLOCK FALSE
