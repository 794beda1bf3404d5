--------------------------- MODULE DocumentViews ----------------------------
(***************************************************************************)
(* The documents of the tree editor (bin/sept) and the views they are      *)
(* shown in: opening and closing, extracting elements of one document to a *)
(* new one, and integrating the new one into the document it came from.    *)
(*                                                                         *)
(* A view keeps a raw pointer to the view its document was extracted from. *)
(* A view is its address: once it is closed, another one may be made there.*)
(* What happens inside one document is SEPTDocument's; here an edit is     *)
(* what NestedArrays promises of it.                                       *)
(***************************************************************************)
EXTENDS ElementExtraction, FiniteSets, SequencesExt

CONSTANTS View,         \* bound: addresses of SEPTTreeView objects
          Null,         \* nullptr
          Value,        \* values of leaves the user can edit
          Inserted,     \* the one insertRows inserts: sept::Data(666)
          Content,      \* the elements of the document create_new_document makes
          NoValue,      \* an array has no value of its own
          MaxSize,      \* bound: elements an array can grow to by insertion
          MaxSelected,  \* bound: items selected at once
          MaxOpened,    \* bound: documents opened in all
          MaxEdits      \* bound: edits in all

LeafOf(x)  == [type |-> "leaf",  value |-> x,       elems |-> <<>>]
Int64(n)   == [type |-> "int64", value |-> n,       elems |-> <<>>]
ArrayOf(s) == [type |-> "array", value |-> NoValue, elems |-> s]

\* s is a sequence, whatever its elements are.
IsSequence(s) == s \in Seq({s[k] : k \in DOMAIN s})

\* What a Data can be here: a leaf, an integer that ElementExtraction made, an array.
IsLeaf(data)  == data = LeafOf(data.value)
IsInt64(data) == data = Int64(data.value) /\ data.value \in Int
IsArray(data) == data = ArrayOf(data.elems) /\ IsSequence(data.elems)

\* create_new_document makes leaves and arrays of leaves.
ASSUME ViewsAssumption ==
    /\ Null \notin View
    /\ IsSequence(Content)
    /\ \A i \in DOMAIN Content :
        \/ IsLeaf(Content[i])
        \/ IsArray(Content[i]) /\ \A k \in DOMAIN Content[i].elems : IsLeaf(Content[i].elems[k])
    /\ Inserted \in Value
    /\ MaxSize \in Nat /\ MaxSelected \in Nat /\ MaxOpened \in Nat /\ MaxEdits \in Nat

VARIABLES
    open,       \* the views that exist
    doc,        \* doc[v]: m_root_data of the model of view v
    source,     \* source[v]: m_source_view
    active,     \* the view of the active sub-window, Null if there is none
    current,    \* the views whose selection model has a current index
    enabled,    \* whether the actions that insert and delete are enabled
    opened,     \* bound: documents opened so far
    edits,      \* bound: edits so far
    mode        \* "run", "asserted" (an assertion failed), "dead" (crash or exception)

vars == <<open, doc, source, active, current, enabled, opened, edits, mode>>

TypeOK ==
    /\ open \subseteq View
    /\ \A v \in View : doc[v].type = "array"
    /\ source \in [View -> View \cup {Null}]
    /\ active \in open \cup {Null}
    /\ current \subseteq open
    /\ enabled \in BOOLEAN
    /\ opened \in 0..MaxOpened /\ edits \in 0..MaxEdits
    /\ mode \in {"run", "asserted", "dead"}

-----------------------------------------------------------------------------
(* The items of a document: a path of places leads from the root to one    *)

ElementAt(data, path) ==
    LET At[n \in 0..Len(path)] == IF n = 0 THEN data ELSE At[n - 1].elems[path[n]]
    IN  At[Len(path)]

\* data with new in the place of the element path leads to
PutAt(data, path, new) ==
    LET Put[n \in 0..Len(path)] ==
            IF n = Len(path) THEN new
            ELSE [ElementAt(data, SubSeq(path, 1, n)) EXCEPT !.elems[path[n + 1]] = Put[n + 1]]
    IN  Put[0]

\* The paths to the elements of what paths lead to.
Below(data, paths) ==
    UNION {{Append(p, k) : k \in DOMAIN ElementAt(data, p).elems} : p \in paths}

\* Bound: a document is looked into no deeper than an element of an array that was
\* extracted.
Depths == 0..3

PathsOf(data, depth) ==
    LET rows   == Below(data, {<<>>})
        nested == Below(data, rows)
    IN  CASE depth = 0 -> {<<>>}
          [] depth = 1 -> rows
          [] depth = 2 -> nested
          [] depth = 3 -> Below(data, nested)

Paths(data) == UNION {PathsOf(data, n) : n \in Depths}

\* QModelIndex::row of the item: the visible root is row 0 of the invisible one.
RowOf(path) == IF path = <<>> THEN 0 ELSE Last(path) - 1

-----------------------------------------------------------------------------
(* The main window                                                         *)

\* update_stuff
MutEnabledIfActive(view, indexed) == view # Null
Enabled(view, indexed) == view \in indexed

\* Qt activates a sub-window; subWindowActivated is connected to update_stuff.
Activate(v) ==
    /\ active' = v
    /\ enabled' = Enabled(v, current')

\* create_new_document_with_content: the new view is at any free address.
MutOwnSource(new, extracted_from) == new
SourceView(new, extracted_from) == extracted_from

OpenDocument(content, extracted_from) ==
    /\ opened < MaxOpened
    /\ opened' = opened + 1
    /\ \E new \in View \ open :
        /\ open' = open \cup {new}
        /\ doc' = [doc EXCEPT ![new] = content]
        /\ source' = [source EXCEPT ![new] = SourceView(new, extracted_from)]
        /\ UNCHANGED current
        /\ Activate(new)

\* File / New
CreateNewDocument ==
    /\ mode = "run"
    /\ OpenDocument(ArrayOf(Content), Null)
    /\ UNCHANGED <<edits, mode>>

\* The user brings another view to the front.
SubwindowActivated(v) ==
    /\ mode = "run"
    /\ v \in open \ {active}
    /\ UNCHANGED <<open, doc, source, current, opened, edits, mode>>
    /\ Activate(v)

\* The active view gets a current index.  selectionChanged is connected to
\* update_stuff, but the current index can change without the selection.
SelectCurrent ==
    /\ mode = "run"
    /\ active \in open \ current
    /\ current' = current \cup {active}
    /\ enabled' \in {enabled, Enabled(active, current')}
    /\ UNCHANGED <<open, doc, source, active, opened, edits, mode>>

\* The views one of which Qt activates when the active one is closed.
MutClosedStaysActive == open
NextActive == IF open = {active} THEN {Null} ELSE open \ {active}

\* QMdiArea::closeActiveSubWindow: the view is deleted.  indexed: the views that
\* have a current index by then.
CloseSubwindow(indexed) ==
    /\ open' = open \ {active}
    /\ source' = [source EXCEPT ![active] = Null]
    /\ current' = indexed \ {active}
    /\ \E next \in NextActive : Activate(next)

\* File / Close
CloseActiveSubwindow ==
    /\ mode = "run"
    /\ active # Null
    /\ CloseSubwindow(current)
    /\ doc' = [doc EXCEPT ![active] = ArrayOf(<<>>)]
    /\ UNCHANGED <<opened, edits, mode>>

-----------------------------------------------------------------------------
(* Editing the active document                                             *)

EditDocument(new_data) ==
    /\ mode = "run"
    /\ edits < MaxEdits
    /\ edits' = edits + 1
    /\ doc' = [doc EXCEPT ![active] = new_data]
    /\ UNCHANGED <<open, source, active, current, enabled, opened, mode>>

\* insert_value with the current index at path, before (0) or after (1) it
InsertValue(path, offset) ==
    LET siblings == ElementAt(doc[active], Front(path)).elems
    IN  /\ enabled
        /\ path # <<>>
        /\ Len(siblings) < MaxSize
        /\ EditDocument(PutAt(doc[active], Front(path),
                              ArrayOf(InsertAt(siblings, Last(path) + offset, LeafOf(Inserted)))))

\* delete_selected_values, one row: several rows are several such steps
DeleteSelectedValue(path) ==
    /\ enabled
    /\ path # <<>>
    /\ EditDocument(PutAt(doc[active], Front(path),
                          ArrayOf(RemoveAt(ElementAt(doc[active], Front(path)).elems, Last(path)))))

\* SEPTModel::setData
EditValue(path, x) ==
    /\ ElementAt(doc[active], path).type = "leaf"
    /\ EditDocument(PutAt(doc[active], path, LeafOf(x)))

\* set_data_as_QVariant does not know int64_t.
EditIndexThrows(path) ==
    /\ mode = "run"
    /\ ElementAt(doc[active], path).type = "int64"
    /\ mode' = "dead"
    /\ UNCHANGED <<open, doc, source, active, current, enabled, opened, edits>>

-----------------------------------------------------------------------------
(* Extracting and integrating                                              *)

\* Items in AscendingRowIndexSet's order: by row, whatever array they are rows of,
\* those of one row by address.
Ascending(items) ==
    /\ IsInjective(items)
    /\ \A i, j \in DOMAIN items : i < j => RowOf(items[i]) <= RowOf(items[j])

\* project_with_complement
ProjectWithComplement(data, rows) ==
    ArrayOf(<<ArrayOf(Project(data.elems, rows)),
              ArrayOf([i \in 1..Len(rows) |-> Int64(rows[i])])>>)

\* extract_elements, of the selected items in that order
ExtractElements(items) ==
    LET data == doc[active]
        rows == [i \in DOMAIN items |-> RowOf(items[i])]
    IN  /\ mode = "run"
        /\ \/ /\ Indexable(Len(data.elems), rows)
              /\ OpenDocument(ProjectWithComplement(data, rows), active)
              /\ UNCHANGED <<edits, mode>>
           \/ /\ ~Indexable(Len(data.elems), rows)        \* a division by zero
              /\ mode' = "dead"
              /\ UNCHANGED <<open, doc, source, active, current, enabled, opened, edits>>

Values(array) == [i \in 1..Len(array.elems) |-> array.elems[i].value]

\* embed comes to its end: no cast, check or remainder fails on the way.
EmbedReturns(pwc, target) ==
    /\ Len(pwc.elems) = 2
    /\ LET extracted == pwc.elems[1]  indices == pwc.elems[2]
       IN  \/ indices.type = "int64" /\ Indexable(Len(target.elems), <<indices.value>>)
           \/ /\ indices.type = "array" /\ extracted.type = "array"
              /\ Len(extracted.elems) = Len(indices.elems)
              /\ \A i \in 1..Len(indices.elems) : indices.elems[i].type = "int64"
              /\ Indexable(Len(target.elems), indices.elems)

\* The indices pwc names, and what it puts there.
IndicesOf(pwc) == IF pwc.elems[2].type = "int64" THEN <<pwc.elems[2].value>> ELSE Values(pwc.elems[2])
ExtractedOf(pwc) == IF pwc.elems[2].type = "int64" THEN <<pwc.elems[1]>> ELSE pwc.elems[1].elems

Embedded(pwc, target) == ArrayOf(Embed(ExtractedOf(pwc), IndicesOf(pwc), target.elems))

\* SEPTTreeView::integrate_data of the source view returns: the view is still
\* there, or another one at its address.
Integrates(v) == source[v] \in open /\ EmbedReturns(doc[v], doc[source[v]])

\* transform_root_data resets the model of the source view, and with it the
\* current index of the view.
Integrate(v) == [doc EXCEPT ![source[v]] = Embedded(doc[v], doc[source[v]])]

IntegrateData ==
    /\ mode = "run"
    /\ active # Null
    /\ source[active] # Null
    /\ Integrates(active)
    /\ doc' = Integrate(active)
    /\ current' = current \ {source[active]}
    /\ enabled' = Enabled(active, current')
    /\ UNCHANGED <<open, source, active, opened, edits, mode>>

IntegrateDataAndClose ==
    /\ mode = "run"
    /\ active # Null
    /\ source[active] # Null
    /\ Integrates(active)
    /\ doc' = [Integrate(active) EXCEPT ![active] = ArrayOf(<<>>)]
    /\ CloseSubwindow(current \ {source[active]})
    /\ UNCHANGED <<opened, edits, mode>>

\* Either of them: the source view is freed memory, or an exception leaves the
\* handler, or the remainder by 0 traps.
IntegrateFails ==
    /\ mode = "run"
    /\ active # Null
    /\ source[active] # Null
    /\ ~Integrates(active)
    /\ mode' = "dead"
    /\ UNCHANGED <<open, doc, source, active, current, enabled, opened, edits>>

\* The actions of the Project and Integrate menus are never disabled: their
\* handlers start with an assertion that there is an active view.
ProjectWithoutView ==
    /\ mode = "run"
    /\ active = Null
    /\ mode' = "asserted"
    /\ UNCHANGED <<open, doc, source, active, current, enabled, opened, edits>>

-----------------------------------------------------------------------------

\* The program starts without a document.
Init ==
    /\ open = {}
    /\ doc = [v \in View |-> ArrayOf(<<>>)]
    /\ source = [v \in View |-> Null]
    /\ active = Null
    /\ current = {}
    /\ enabled = FALSE
    /\ opened = 0
    /\ edits = 0
    /\ mode = "run"

EditActive ==
    /\ active # Null
    /\ \E path \in Paths(doc[active]) :
        \/ \E offset \in {0, 1} : InsertValue(path, offset)
        \/ DeleteSelectedValue(path)
        \/ \E x \in Value : EditValue(path, x)
        \/ EditIndexThrows(path)

\* Bound: the selected items are of one depth, so that AscendingRowIndexSet compares
\* them by row.
ExtractActive ==
    /\ active # Null
    /\ \E depth \in Depths, size \in 0..MaxSelected :
        \E items \in [1..size -> PathsOf(doc[active], depth)] :
            Ascending(items) /\ ExtractElements(items)

Next ==
    \/ CreateNewDocument
    \/ \E v \in View : SubwindowActivated(v)
    \/ SelectCurrent
    \/ CloseActiveSubwindow
    \/ EditActive
    \/ ExtractActive
    \/ IntegrateData \/ IntegrateDataAndClose \/ IntegrateFails
    \/ ProjectWithoutView

Spec == Init /\ [][Next]_vars

-----------------------------------------------------------------------------
(* Properties                                                              *)

Integrating == IntegrateData \/ IntegrateDataAndClose

\* The actions that insert and delete are enabled only while there is an active
\* view with a current index: what the assertions in their handlers rely on.
\* An integration takes the current index from a view, and a closed view takes
\* its own along, so update_stuff must have run after each of them.
EnabledHasCurrent == enabled => active \in current

\* No view integrates into itself, whatever addresses are used again: embed would
\* read the array it is writing.
NotOwnSource == \A v \in open : source[v] # v

\* An integration changes one document, that of the source view: the number of its
\* elements stays, and so does every element but the ones the indices name.
IntegrationIsLocal ==
    [][Integrating =>
        LET v == active  s == source[active]  size == Len(doc[s].elems)
        IN  /\ \A w \in open \ {v, s} : doc'[w] = doc[w]
            /\ Len(doc'[s].elems) = size
            /\ \A k \in 1..size : doc'[s].elems[k] # doc[s].elems[k] =>
                    \E i \in 1..Len(IndicesOf(doc[v])) : k = (IndicesOf(doc[v])[i] % size) + 1]_vars

\* After an integration the source holds what was integrated, at the rows it was
\* extracted from, even if the source was edited in between and has fewer rows;
\* unless two of the indices have come to name the same row.
IntegrationIsRead ==
    [][Integrating =>
        LET v == active  s == source[active]  indices == IndicesOf(doc[v])
        IN  Distinct(Len(doc[s].elems), indices) =>
                Project(doc'[s].elems, indices) = ExtractedOf(doc[v])]_vars

\* Integrating an extracted document that agrees with its source changes nothing,
\* even if an element was extracted twice.
FreshIntegration ==
    [][Integrating /\ ExtractedOf(doc[active])
                        = Project(doc[source[active]].elems, IndicesOf(doc[active]))
        => doc'[source[active]] = doc[source[active]]]_vars

\* MainWindow.cpp: "this should be impossible due to disabled actions"
AssertionsHold == mode # "asserted"

=============================================================================
