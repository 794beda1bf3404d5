SPECIFICATION Spec
CONSTANTS
    outer = outer
    left = left
    right = right
    int = int
    int64 = int64
    flag = flag
    Root = outer
    Leaf = {int, int64}
    Settable = {int}
    Inserted = int
    Buffer = {1, 2}
    MaxSize = 3
    Array = {outer, left}
    Contents <- MCNest
    Item = {1, 2, 3, 4, 5}
    MixedSize = 2
INVARIANT ChildDeletedFirst
CHECK_DEADLOCK FALSE
