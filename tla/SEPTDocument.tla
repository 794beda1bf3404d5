---------------------------- MODULE SEPTDocument ----------------------------
(***************************************************************************)
(* One document of the tree editor (bin/sept): the sept::Data it edits,    *)
(* the SEPTItem tree that shadows it with raw pointers, the row counts     *)
(* SEPTModel announces to the view, and the handlers of MainWindow that    *)
(* insert a value, delete the selected values and edit a value.            *)
(*                                                                         *)
(* An element of an array is a slot of a std::vector buffer, and an item   *)
(* points at its element's slot.  Inserting into a vector moves elements   *)
(* to other slots, or all of them to a new buffer; a nested array moves    *)
(* with the std::any that owns it and keeps its own buffer.                *)
(***************************************************************************)
EXTENDS Naturals, Sequences, FiniteSets, SequencesExt

CONSTANTS Array,        \* ArrayTerm_c objects of the document
          Root,         \* the one m_root_data holds
          Leaf,         \* values that are not arrays
          Settable,     \* leaves of a type set_data_as_QVariant can write
          Inserted,     \* the value insertRows inserts: sept::Data(666)
          Contents,     \* Contents[a]: the elements of a when it is opened
          Item,         \* bound: addresses a SEPTItem may be allocated at
          Buffer,       \* bound: addresses the elements of one array may move between
          MaxSize,      \* bound: elements of an array
          MixedSize     \* bound: rows of a selection that mixes rows of different depth

Cell    == Leaf \cup Array
RootPtr == [array |-> Root, buffer |-> 0, slot |-> 0]      \* &m_root_data
Ptr     == [array : Array, buffer : Buffer, slot : 0..(MaxSize - 1)] \cup {RootPtr}
Null    == 0
Index   == [item : Item, row : 0..MaxSize]                 \* QModelIndex

ASSUME DocumentAssumption ==
    /\ Root \in Array
    /\ Leaf \cap Array = {}
    /\ Settable \subseteq Leaf /\ Inserted \in Leaf
    /\ Contents \in [Array -> Seq(Cell)]
    /\ Item \subseteq Nat \ {Null} /\ IsFiniteSet(Item)
    /\ Buffer \subseteq Nat \ {Null} /\ Buffer # {}
    /\ MaxSize \in Nat \ {0} /\ MixedSize \in Nat

\* What is reached from x by following next as long as there is anything new: the
\* smallest set with x that next does not lead out of.
Reached(x, next) ==
    LET closed == {S \in SUBSET DOMAIN next : x \in S /\ \A y \in S : next[y] \subseteq S}
    IN  {y \in DOMAIN next : \A S \in closed : y \in S}

\* A sept::Data owns what is nested in it: the document is a tree of arrays.
ASSUME TreeAssumption ==
    /\ \A a \in Array : Len(Contents[a]) <= MaxSize
    /\ \A a, b \in Array : \A k \in 1..Len(Contents[a]), l \in 1..Len(Contents[b]) :
           Contents[a][k] = Contents[b][l] /\ Contents[a][k] \in Array => a = b /\ k = l
    /\ \A a \in Array : Root \notin ToSet(Contents[a])
    /\ Reached(Root, [a \in Array |-> ToSet(Contents[a]) \cap Array]) = Array

VARIABLES
    elems,      \* elems[a]: the elements of array a, <<>> once a is destroyed
    buffer,     \* buffer[a]: where they are stored
    capacity,   \* capacity[a]: how many fit there
    live,       \* the items that exist
    root,       \* m_visible_root_item
    ptr,        \* ptr[i]: SEPTItem::data()
    children,   \* children[i]: the items of the elements of i's array
    announced,  \* announced[i]: rows of i the view was told of
    selection,  \* the items whose deletion was asked for
    mixed,      \* a selection to be deleted has had rows of different depth
    queue,      \* DescendingRowIndexSet of delete_selected_values, in order
    mode        \* "idle", "collect", "delete", or "dead" (crash or uncaught exception)

data == <<elems, buffer, capacity>>
items == <<live, root, ptr, children, announced>>
vars == <<elems, buffer, capacity, live, root, ptr, children, announced,
          selection, mixed, queue, mode>>

TypeOK ==
    /\ elems \in [Array -> Seq(Cell)]
    /\ buffer \in [Array -> Buffer]
    /\ capacity \in [Array -> 0..MaxSize]
    /\ live \subseteq Item
    /\ root \in Item
    /\ ptr \in [Item -> Ptr]
    /\ children \in [Item -> Seq(Item)]
    /\ announced \in [Item -> Nat]
    /\ selection \subseteq Item /\ mixed \in BOOLEAN
    /\ queue \in Seq(Index)
    /\ mode \in {"idle", "collect", "delete", "dead"}

-----------------------------------------------------------------------------
(* Reading through a pointer, and the shape of the item tree               *)

\* The address of the element in slot k of array a (slots count from 0).
SlotPtr(a, b, k) == [array |-> a, buffer |-> b, slot |-> k]

\* p points at an element: the array still stores its elements in the buffer p
\* points into, and p is not past the end.
Valid(p) == p = RootPtr \/ (p.buffer = buffer[p.array] /\ p.slot < Len(elems[p.array]))

Deref(p) == IF p = RootPtr THEN Root ELSE elems[p.array][p.slot + 1]

\* i and all items below it
Subtree(i) == Reached(i, [j \in live |-> ToSet(children[j])])

\* a and all arrays nested in it
NestedIn(a) == Reached(a, [b \in Array |-> ToSet(elems[b]) \cap Array])

Parent(i) == CHOOSE p \in live : Contains(children[p], i)

\* TreeNode_t::index_within_parent
MutLastRow(i) == IF i = root THEN 0 ELSE Len(children[Parent(i)]) - 1
Row(i) == IF i = root THEN 0 ELSE (CHOOSE k \in 1..Len(children[Parent(i)]) :
                                      children[Parent(i)][k] = i) - 1

\* TreeNode_t::tree_depth counts the parents on the way up: 1 for the visible root,
\* whose parent is the invisible one.
TreeDepth(i) == Cardinality(Reached(i, [j \in live |-> {p \in live : Contains(children[p], j)}]))

-----------------------------------------------------------------------------
(* SEPTItem: changing the data and the items together                      *)

\* The rows whose element std::vector::insert puts at another address, the new
\* one among them: from position on, or all when the vector moves to a bigger
\* buffer.  (elems[a] is the vector before the insertion.)
MutNoReallocation(a, position) == position..Len(elems[a])
MutUntilOldSize(a, position) ==
    (IF Len(elems[a]) + 1 > capacity[a] THEN 0 ELSE position)..(Len(elems[a]) - 1)
InvalidatedRows(a, position) ==
    (IF Len(elems[a]) + 1 > capacity[a] THEN 0 ELSE position)..Len(elems[a])

\* std::vector::insert moves the elements when they no longer fit.
GrowVector(a) ==
    IF Len(elems[a]) + 1 > capacity[a]
    THEN \E b \in Buffer \ {buffer[a]}, c \in (Len(elems[a]) + 1)..MaxSize :
            /\ buffer' = [buffer EXCEPT ![a] = b]
            /\ capacity' = [capacity EXCEPT ![a] = c]
    ELSE UNCHANGED <<buffer, capacity>>

\* update() of the children of p whose row is in rows: the child in row k points
\* at slot k again.  A new child is in there too: it is made with that pointer.
MutPastSlot(p, a, rows) ==
    [i \in Item |-> IF \E k \in rows : children'[p][k + 1] = i
                    THEN SlotPtr(a, buffer'[a], 1 + CHOOSE k \in rows : children'[p][k + 1] = i)
                    ELSE ptr[i]]
UpdatedPtr(p, a, rows) ==
    [i \in Item |-> IF \E k \in rows : children'[p][k + 1] = i
                    THEN SlotPtr(a, buffer'[a], CHOOSE k \in rows : children'[p][k + 1] = i)
                    ELSE ptr[i]]

\* insert_children(position, 1, Data(666)) on item p; the new item is at address new.
InsertChildren(p, position, new) ==
    LET a == Deref(ptr[p])
    IN  /\ Len(elems[a]) < MaxSize
        /\ GrowVector(a)
        /\ elems' = [elems EXCEPT ![a] = InsertAt(@, position + 1, Inserted)]
        /\ live' = live \cup {new}
        /\ children' = [children EXCEPT ![p] = InsertAt(@, position + 1, new)]
        /\ ptr' = UpdatedPtr(p, a, InvalidatedRows(a, position))
        /\ UNCHANGED root

\* The rows whose pointers remove_children shifts down.
MutShiftedFromNext(position, size) == (position + 1)..(size - 1)
ShiftedRows(position, size) == position..(size - 1)

\* remove_children(position, 1) on item p
RemoveChildren(p, position) ==
    LET a     == Deref(ptr[p])
        cell  == elems[a][position + 1]
        freed == IF cell \in Array THEN NestedIn(cell) ELSE {}
        gone  == Subtree(children[p][position + 1])
    IN  /\ elems' = [b \in Array |-> CASE b = a       -> RemoveAt(elems[a], position + 1)
                                       [] b \in freed -> <<>>
                                       [] OTHER       -> elems[b]]
        /\ UNCHANGED <<buffer, capacity, root>>
        /\ live' = live \ gone
        /\ children' = [i \in Item |-> CASE i = p      -> RemoveAt(children[p], position + 1)
                                         [] i \in gone -> <<>>
                                         [] OTHER      -> children[i]]
        /\ ptr' = [i \in Item |-> IF i \in gone THEN RootPtr
                     ELSE UpdatedPtr(p, a, ShiftedRows(position, Len(elems[a]) - 1))[i]]

-----------------------------------------------------------------------------
(* MainWindow: what the user can do                                        *)

\* beginInsertRows and endInsertRows tell the view of one more row.
MutNotAnnounced(rows) == rows
AnnounceInsertion(rows) == rows + 1

\* insert_value with i as the current index: nothing happens at the visible
\* root, whose parent index is invalid.  offset is 0 for BEFORE, 1 for AFTER.
InsertValue(i, offset) ==
    /\ mode = "idle"
    /\ i \in live \ {root}
    /\ \E new \in Item \ live : InsertChildren(Parent(i), Row(i) + offset, new)
    /\ announced' = [announced EXCEPT ![Parent(i)] = AnnounceInsertion(@)]
    /\ UNCHANGED <<selection, mixed, queue, mode>>

\* SEPTModel::setData with the edit role
EditValue(i, leaf) ==
    /\ mode = "idle"
    /\ i \in live
    /\ Deref(ptr[i]) \in Settable
    /\ elems' = [elems EXCEPT ![ptr[i].array][ptr[i].slot + 1] = leaf]
    /\ UNCHANGED <<buffer, capacity, items, selection, mixed, queue, mode>>

\* is_editable lets the user edit a value of any other type than ArrayTerm_c;
\* for the types it does not know, set_data_as_QVariant throws in an event handler.
EditThrows(i) ==
    /\ mode = "idle"
    /\ i \in live
    /\ Deref(ptr[i]) \in Leaf \ Settable
    /\ mode' = "dead"
    /\ UNCHANGED <<data, items, selection, mixed, queue>>

\* delete_selected_values: the selected cells, by item (columns do not matter)
\* ...  Bound: a view that was told of a removal that did not take place shows
\* rows that do not exist, and what can be selected there is not modelled.
DeleteSelected(S) ==
    /\ mode = "idle"
    /\ \A i \in live : announced[i] = Len(children[i])
    /\ mixed' = (mixed \/ \E i, j \in S : TreeDepth(i) # TreeDepth(j))
    /\ mixed' => Cardinality(S) <= MixedSize
    /\ selection' = S
    /\ mode' = "collect"
    /\ UNCHANGED <<data, items, queue>>

\* RowIndexOrderDescending; an item is its address.
MutRowAscending(x, y) ==
    LET dx == TreeDepth(x.item)  dy == TreeDepth(y.item)
    IN  dx > dy \/ (dx = dy /\ x.row < y.row) \/ (x.row = y.row /\ x.item > y.item)
OrderDescending(x, y) ==
    LET dx == TreeDepth(x.item)  dy == TreeDepth(y.item)
    IN  dx > dy \/ (dx = dy /\ x.row > y.row) \/ (x.row = y.row /\ x.item > y.item)

\* ... are put into a std::set one by one.  The search ends between two
\* neighbours it compared the new index with: not before the left one, before
\* the right one.  For an order that is one there is exactly one such place.
CollectIndex ==
    /\ mode = "collect"
    /\ \E i \in selection \ {queue[k].item : k \in DOMAIN queue}, pos \in 1..(Len(queue) + 1) :
        LET index == [item |-> i, row |-> Row(i)]
        IN  /\ pos > 1 => ~OrderDescending(index, queue[pos - 1]) /\ OrderDescending(queue[pos - 1], index)
            /\ pos <= Len(queue) => OrderDescending(index, queue[pos])
            /\ queue' = InsertAt(queue, pos, index)
    /\ mode' = IF Cardinality(selection) = Len(queue) + 1 THEN "delete" ELSE "collect"
    /\ UNCHANGED <<data, items, selection, mixed>>

\* Each turn of the loop removes the row the next index names.  The indices
\* are plain copies: a removal does not adjust the ones still in the set.
DeleteNext ==
    LET index == Head(queue)
    IN  /\ mode = "delete"
        /\ index.item \in live
        /\ \/ /\ index.item = root            \* removeRows: the parent index is invalid
              /\ UNCHANGED <<data, items>>
           \/ /\ index.item # root
              /\ IF index.row < Len(children[Parent(index.item)])
                 THEN RemoveChildren(Parent(index.item), index.row)
                 ELSE UNCHANGED <<elems, buffer, capacity, live, root, ptr, children>>
              /\ announced' = [i \in Item |-> CASE i \notin live'         -> 0
                                                [] i = Parent(index.item) -> announced[i] - 1
                                                [] OTHER                  -> announced[i]]
        /\ queue' = Tail(queue)
        /\ mode' = IF Len(queue) = 1 THEN "idle" ELSE "delete"
        /\ selection' = IF Len(queue) = 1 THEN {} ELSE selection
        /\ UNCHANGED mixed

\* index.parent() reads the item the index points at, which is gone.
DeleteFreed ==
    /\ mode = "delete"
    /\ Head(queue).item \notin live
    /\ mode' = "dead"
    /\ UNCHANGED <<data, items, selection, mixed, queue>>

-----------------------------------------------------------------------------

\* Where the elements of a freshly made document are.
FirstBuffer == CHOOSE b \in Buffer : \A c \in Buffer : b <= c
Places == {RootPtr} \cup {SlotPtr(a, FirstBuffer, k) : a \in Array, k \in 0..MaxSize}
Taken  == {p \in Places : p = RootPtr \/ p.slot < Len(Contents[p.array])}

\* initialize_root_items: populate() makes one item for every element, at
\* whatever addresses the allocator has.
Init ==
    /\ elems = Contents
    /\ buffer = [a \in Array |-> FirstBuffer]
    /\ capacity = [a \in Array |-> Len(Contents[a])]
    /\ \E at \in {f \in [Taken -> Item] : \A p, q \in Taken : p # q => f[p] # f[q]} :
        LET contents(i) == IF \E p \in Taken : at[p] = i
                           THEN Deref(CHOOSE p \in Taken : at[p] = i) ELSE Inserted
        IN  /\ live = {at[p] : p \in Taken}
            /\ root = at[RootPtr]
            /\ ptr = [i \in Item |-> IF \E p \in Taken : at[p] = i
                                     THEN CHOOSE p \in Taken : at[p] = i ELSE RootPtr]
            /\ children = [i \in Item |->
                 IF contents(i) \notin Array THEN <<>>
                 ELSE [k \in 1..Len(Contents[contents(i)]) |->
                         at[SlotPtr(contents(i), FirstBuffer, k - 1)]]]
            /\ announced = [i \in Item |-> Len(children[i])]
    /\ selection = {} /\ mixed = FALSE
    /\ queue = <<>>
    /\ mode = "idle"

Next ==
    \/ \E i \in Item :
        \/ \E offset \in {0, 1} : InsertValue(i, offset)
        \/ \E leaf \in Settable : EditValue(i, leaf)
        \/ EditThrows(i)
    \/ \E S \in SUBSET live \ {{}} : DeleteSelected(S)
    \/ CollectIndex \/ DeleteNext \/ DeleteFreed

Spec == Init /\ [][Next]_vars

-----------------------------------------------------------------------------
(* Properties                                                              *)

\* SEPTItem::verify on the visible root: every item points at the element it
\* stands for, wherever vectors have moved their elements since, so that what
\* the view shows and edits is the document and never freed memory.
Verified ==
    /\ root \in live /\ ptr[root] = RootPtr
    /\ \A i \in live : Valid(ptr[i])
    /\ \A i \in live :
        LET a == Deref(ptr[i])
        IN  IF a \in Array
            THEN /\ Len(children[i]) = Len(elems[a])
                 /\ \A k \in 1..Len(children[i]) :
                        ptr[children[i][k]] = SlotPtr(a, buffer[a], k - 1)
            ELSE children[i] = <<>>
    /\ live = Subtree(root)

\* The rows the view was told of are the rows there are: no removal is announced
\* that does not take place.
AnnouncedRows == ~mixed => \A i \in live : announced[i] = Len(children[i])

\* No item goes but the selected ones and what is nested in them; and when the
\* loop is over all of these are gone, except the visible root.
SelectedDeleted ==
    [][~mixed =>
       /\ \A i \in live : i \notin live' => \E s \in selection \cap live : i \in Subtree(s)
       /\ mode = "delete" /\ mode' = "idle" => live' \cap selection \subseteq {root}]_vars

\* What the items show, followed through their pointers, is edited like a
\* document: one element at a time and no other element changes place or value.
Shown == [a \in Array |->
    IF \E i \in live : Deref(ptr[i]) = a
    THEN LET i == CHOOSE i \in live : Deref(ptr[i]) = a
         IN  [k \in 1..Len(children[i]) |-> Deref(ptr[children[i][k]])]
    ELSE <<>>]
Document == INSTANCE NestedArrays WITH doc <- Shown
RefinesNestedArrays == Document!Spec

\* RowIndexSet.hpp: "if a parent and a child are both selected to be deleted,
\* the child gets deleted first".  (Deleting the visible root has no effect.)
ChildDeletedFirst ==
    \A j, k \in DOMAIN queue :
        j < k /\ queue[j].item \in live \ {root} => queue[k].item \notin Subtree(queue[j].item)

=============================================================================
