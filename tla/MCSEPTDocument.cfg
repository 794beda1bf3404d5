SPECIFICATION MCSpec
CONSTANTS
    outer = outer
    left = left
    right = right
    int = int
    int64 = int64
    flag = flag
    Root = outer
    Leaf = {int, int64}
    Settable = {int}
    Inserted = int64
    Buffer = {1, 2}
    MaxSize = 2
    Array = {outer, left, right}
    Contents <- MCPair
    Item = {1, 2, 3, 4, 5, 6}
    MixedSize = 2
INVARIANTS TypeOK Verified AnnouncedRows
PROPERTIES SelectedDeleted RefinesNestedArrays
CHECK_DEADLOCK FALSE
