# Verification of sept

TLA+ modules for the programs of this repository: what they do, the TLC runs
that check it on small instances, and theorems that TLAPS checks for every value
of the constants. Paths are relative to `src/`.

    tlc -workers 2 -config MCEvalScopes.cfg MCEvalScopes      a run: PROJECT.json lists them
    tlapm EvalScopes_proofs.tla                               the proofs of a module

## 1. The system

sept is a C++ library of dynamically typed data in which types are data too
(`lib/sept`), and the programs built on it (`bin`).

| component | state | operations | who else touches it |
|---|---|---|---|
| Data and its registries (`lib/sept/Data*`) | a `std::any`; type-indexed dispatch tables filled at start-up | cast, compare, print, serialize, deserialize, `deref` | everything |
| Symbol tables and references (`SymbolTable`, `LocalSymRef`, `GlobalSymRef`, `MemRef`) | a symbol map, a shared pointer to the parent table | define, resolve, assign, push | the evaluator; a reference keeps its table alive |
| Evaluator (`bin/sept-ast`) | `EvalCtx::m_current_scope`, the scope guards on the C++ stack | blocks, calls, definitions, assignments, exceptions | symbol tables |
| Arrays, ordered maps (`ArrayTerm`, `OrderedMapTerm`) | elements or pairs and a constraint | construction, access, `with_constraint` | editor, interop, projections |
| Type algebra (`NPTerm`, `NPType`, `FormalTypeOf`, `TupleTerm`, `UnionTerm`, `FreeVar`, `Placeholder`) | none | `abstract_type_of`, `inhabits`, comparison | everything |
| Conversions (`type/Conversions`) | a table, filled by a static initialiser | conversion of numbers and its quality | sept-ast, `TypeFunctor` |
| Projections (`proj/`) | none | `project_with_complement`, `embed`; type functors | editor |
| Tree nodes (`TreeNode_t.hpp`) | children owned by a vector, a raw pointer to the parent | insert, erase, pop | the editor's items |
| Tree editor, one document (`SEPTItem`, `SEPTModel`, `RowIndexSet.hpp`, `MainWindow`) | the data, an item tree with raw pointers into it, the rows Qt was told of | insert, edit, delete selected values | Qt's views call back into the model |
| Tree editor, documents and views (`MainWindow`, `SEPTTreeView`) | sub-windows, raw pointers to source views, the enabled actions | open, close, activate, extract, integrate | Qt activates and deletes views |
| Tree editor, zoom, delegates, settings | geometry, radix, precision | display | - |
| interop (`bin/interop/front`, `back`) | two processes, two pipes, the buffer of `std::cout` | serialize, flush, deserialize, ask the user | each other, the user |
| sept-cat | none | deserialize and print | a stream |
| thinky (`bin/thinky`) | a set of beliefs | add, remove, derive by rules of inference, evaluate a predicate | uses arrays, tuples and symbol tables |

How they interact: the evaluator owns no data but its scope pointer: all bindings
are in shared tables that a value (a `LocalSymRef`) can carry out of the block that
made them. The editor's item tree shadows a `Data` it does not own by pointers into
`std::vector` buffers, and announces its rows to Qt; the items are tree nodes, which own each other. Editor and
evaluator ask the table of conversions what a value may become. A document extracted from
another one is tied to it only by a raw pointer to the view and by row numbers
stored as data. front and back share nothing but two pipes.

What is hard to get right, and to test: the order of pushes and pops on exception
paths; what a reference means after its block has ended; which pointers a
reallocation moves; the order in which several rows are removed; an action that is
enabled when what it needs is gone; a document that is integrated into a source
that was edited, or closed; a stream that stops in the middle of a term; two
processes each of which waits for the other; a loop that adds to the unordered set it
goes through; a table that is filled before `main`, in the order of the linker; the borders
of the number types; an insertion or a writing that fails half way. `hazards` in `PROJECT.json` lists
them at their lines, with the properties that cover them.

What makes each component correct:
 * tables and evaluator: an environment is a stack of maps, although it is made of
   tables on the heap; an exception takes exactly the open scopes away; a value
   handed out of a block does not change behind its owner's back;
 * one document: the items show the document and nothing else does, whatever moved;
   deleting a selection deletes that selection;
 * documents and views: an integration changes the elements it names, in one
   document, and the source then holds what was integrated; the handlers'
   assertions hold;
 * interop: terms arrive in order, each once, and an answer belongs to its request;
   no process waits for bytes that nobody can write;
 * conversions: a loss is announced, and no chain of conversions without one changes a
   number; the table is there when `main` begins;
 * tree nodes: whatever fails, every node has one owner, and it is the one it names;
 * thinky: from true statements and rules that hold nothing false is derived or
   answered, and a derivation leaves nothing out and ends;
 * arrays and ordered maps: a container satisfies the constraint it carries, which
   `inhabits` and the reader of a stream believe; a call makes only inhabitants; what is
   written is read back; the order of `compare` is one, or an ordered map loses its keys.

## 2. The modules

| module | what it is |
|---|---|
| `ScopeStack` | abstract: what scopes promise |
| `EvalScopes` | tables, references and the evaluator; implements `ScopeStack` |
| `EvalScopes_proofs` | its theorems |
| `NestedArrays` | abstract: what a document editor promises |
| `SEPTDocument` | data, items, rows and handlers of one document; implements `NestedArrays` |
| `SEPTDocument_proofs` | its theorems |
| `ElementExtraction` | the projection of `lib/sept/proj`, as a lens on sequences |
| `DocumentViews` | documents, views, extraction and integration; uses `ElementExtraction`; an edit is what `NestedArrays` allows |
| `DocumentViews_proofs` | theorems about both |
| `TermChannel` | abstract: what a stream of terms promises |
| `Interop` | front, back, pipes and buffers; implements `TermChannel` |
| `Interop_proofs` | its theorems: where a term ends, the shape of its states, the stream, requests and answers; that it implements `TermChannel` |
| `Predicates` | what thinky says: belief states, evaluation, De Morgan's laws, patterns, and what it means to be true |
| `Beliefs` | thinky's belief system: a set of predicates, rules and answers; extends `Predicates` |
| `Beliefs_proofs` | its theorems |
| `TermOrder` | data as trees, `eq` and `compare`, and the `std::map` that goes by `compare` |
| `Terms` | types, `abstract_type_of`, `inhabits`, constraints; extends `TermOrder` |
| `TermStream` | `serialize` and `deserialize`; extends `Terms` |
| `Calls` | what a term makes when it is called, indexed or hashed; extends `TermStream` |
| `Containers` | terms built, changed, called, written and read; extends `Calls` |
| `Containers_proofs` | theorems about the order of data, and about containers |
| `Conversions` | the table of conversions from its static initialisers on, `convert_to`, `TypeFunctor` |
| `Conversions_proofs` | its theorems |
| `TreeNodes` | nodes, who owns them and whom they name as parent |
| `TreeNodes_proofs` | its theorems |
| `MC...` | the values of constants for TLC |

An operator named `Mut...` stands before the definition it is a faulty variant of.
No specification uses one: each shows, put in the place of that definition, that a
property would notice the bug (`mutants` in `PROJECT.json`).

### EvalScopes (`lib/sept/SymbolTable.*`, `LocalSymRef.*`, `bin/sept-ast/EvalCtx.hpp`, `sem.cpp`)

A table is a number in the order of allocation, since nothing frees one that can still
be reached; `parent` and `map` are its two fields, `current` the scope pointer.
`frames` is the C++ stack as far as it matters: the calls that hold a scope guard,
with the statement that waits for their value. A program is not fixed: which
statement comes next, and which value stands on its right, is chosen at every step, so
TLC explores all programs within the bounds. One action per kind of step: `Evaluate`
(an expression without a scope of its own), `EnterBlock`, `EnterCall`, `LeaveScope`,
the three statements, and the ways out: `EvaluationThrows`, `ReturnFails`, then one
`Unwind` for each guard and `Catch`. `mode = "diverged"` is the unbounded recursion of
`Data::deref`, which a reference to itself causes: every place that dereferences (a
cast operand, a printed result, the result of a function, the text of an error) can
end there.

Values that are not references are model values; which functions exist, and which
arguments inhabit their parameter types, are constants (`Fn`, `Param`, `Accepted`).

### SEPTDocument (`bin/sept/SEPTItem.cpp`, `SEPTModel.cpp`, `RowIndexSet.hpp`, `MainWindow.cpp`)

A pointer into a vector is an array, a buffer and a slot; it is valid as long as the
array's elements are in that buffer. An insertion that does not fit moves the vector to
another buffer. Items are at addresses (`Item`), because the comparator of the row
sets compares addresses. `InsertValue` and `EditValue` are the two handlers as a whole.
`delete_selected_values` is a loop in the code and three actions here: `DeleteSelected`
(the selection), `CollectIndex` (one insertion in the `std::set`, which finds its place
by the comparator as written), `DeleteNext` (one turn of the loop). `DeleteFreed` is the
turn whose index names an item that is gone. `mixed` tells that a selection had rows of
different depth, and is read by no action. `announced` counts what `beginInsertRows`
and `beginRemoveRows` told the view, apart from what the item then does. What is below an
item (`Subtree`), the nodes above it (`TreeDepth`) and the arrays in an array (`NestedIn`) are
what following a pointer reaches: `Reached`, the least closed set, where the code recurses.
`TreeAssumption` says that the document a user opens is a tree, which a `Data` always is.

### DocumentViews and ElementExtraction (`bin/sept/MainWindow.cpp`, `SEPTTreeView.cpp`, `lib/sept/proj/ElementExtraction.cpp`)

A view is its address; a new view takes any free one, the address of a closed view
included, so that a source pointer can come to name a view it was never meant for.
`source` is the raw pointer, `active` the active sub-window, `current` the views whose
selection model has a current index, `enabled` the state of the insert and delete
actions. `update_stuff` runs where the code connects it: on activation, on a change of
selection, after an integration. An integration resets the model of the source and so
takes its view's current index. `IntegrateFails` gathers the ways an integration can
go wrong that the code knows nothing of: the source view was closed, the user edited
the document into something `embed` throws at, the source array is empty.
Documents are small trees; an index in an extracted document is an `int64_t` (which the
editor cannot edit, as `EditIndexThrows` has it), everything else a leaf or an array.
`embed` writes the elements one after another: `LastWriter` says which one stays.

### Interop (`bin/interop`, `lib/sept/Data.cpp`, `lib/sept/ctl`)

A term is its nodes in prefix order; a node knows its number of arguments, which is
all `deserialize_data` goes by. What back writes goes to the buffer of `std::cout`, to
the pipe when the buffer is full, flushed, or at the return from `main`; front flushes
each reply. The size of an array is an argument of its own, a term with a heading and
bytes, where its type does not say it (`Array`).

A stream that ends in a term yields what the reader makes of it, and readers differ:
the node of a parametric term says what its reader does with each argument (`Use`). An
argument that is not there at all is read as `EndOfFile`, which will not do for an abstract
type, for the size of a container, or for an element a constraint speaks of: there
`deserialize_data` throws (`Throws`). Of an argument that has begun something is made,
which may or may not do (`MayThrow`): bytes that are missing are what happens to be in
the uninitialized buffer (`LacksBytes`), and a size or a type made of such bytes may ask for more
than there is, for too little, or for the right thing. Whatever does not throw is a term, with
`EndOfFile` for all that is missing (`AtEndOfStream`). So front may go on with a term nobody
wrote (`FrontReadEof`) or die of an exception that nobody catches (`FrontReadThrows`), and
so may back. A crash may cut a node in two as well: of its first half the reader makes `EndOfFile`
for a non-parametric term (`Data.cpp:226`) and uninitialized bytes for a value, the same as for
a node that is missing. An ordered map reads a second `EndOfFile` key and drops it; how many elements
such a term has is nothing the model tells. A size of uninitialized bytes that is not too large for
memory but asks for very many keys keeps front in a loop over `EndOfFile` for as long; that it comes to its end is assumed.

End of file is seen when no process holds the write end, which is what closing the unused ends after
`fork` is for. `Missing` counts the arguments that nodes make room for (`Slots`) and are not
filled, where the code recurses into each. The script is a constant; `ScriptAssumption` is what
`do_stuff` gives: terms are serialized whole, a request for input is followed by
`flush` and by the reading of its response, nothing else is read, nothing is echoed before a response is there.

### Predicates and Beliefs (`bin/thinky/belief.cpp`, `ast.cpp`, `pattern.cpp`)

A predicate is data, and stays data here: a leaf or a tuple, so that matching,
substitution and De Morgan's laws are functions on sequences as they are in the code. What
the code computes by recursion is a recursive function on `Data` in `Predicates`, with one operator for
what a call does with the results for the parts (`EvaluateGiven`, `DemorganizedGiven`, `FitsGiven`,
`MeetsGiven`, `SubstitutedGiven`). `Sentence` tells what is made of statements `<<s, verb, o>>` by `Implies`,
`Not`, `And` and `Or`.
The program is run against a `world`, the set of statements that are true, which it
never reads: it is told predicates that are true in the world (`Facts`) and given rules
that are true in it for all values of their free variables (`Laws`). `AddBelief`,
`RemoveBelief` and `DeriveBeliefs` are the methods as a whole. `derive_beliefs_2` is
`DeriveBeliefs2`, one `DeriveFrom` for each turn of its loop, and `EndLoop`, which starts
over with the contrapositive or returns. The loop inserts into the `unordered_set` it
iterates over: a new belief comes before or behind the iterator, and when the
set is rehashed the beliefs are in any other order from there on (what the C++ library
in use does; by the standard the iterator is then invalid). The places where the
code gives up are actions that end the run: `LVD_ABORT` for an implication inside a
predicate and for a premise with a connective (`...Aborts`, mode `aborted`), and the
cast of a leaf to a tuple (`DeriveFromThrows`, mode `threw`).

### TermOrder, Terms, TermStream, Calls and Containers (`lib/sept/Data.cpp`, `NPType.*`, `Array*`, `OrderedMap*`, `Union*`, `Tuple*`, `FormalTypeOf.*`, `FreeVar.*`, `Placeholder.*`, `ctl/`)

A `Data` is a node: its C++ type, which is the key of all registries, a number and
the data it is made of. The four functions that dispatch on types have the
structure of the code's. `eq_data` and `compare_data` are in `TermOrder`, as functions on the `Data` of a bounded
height (`MaxHeight`): each is what `Equal` or `Compared` makes of the results for the args, which is what calling
itself through the registry comes to, and what a proof can go by. `CompareSeq` is the loop over two `DataVector`s, ended by the
first difference, `emplace` the search of `std::map` for the first pair that is not less. In
`Terms`, what `inhabits` decides by two types alone is a table
(`InhabitsByKind`), the overloads are its other disjuncts, a missing one means
no. Values of types without a comparison of their own are ordered by `NameAddress`, where
their names happen to be in memory: any injection; two values of one such type compare
equal (`Incomparable`). A type whose author registered no `abstract_type_of` has the type
`Term` (`NoAbstractType`). What the code computes by calling itself through a registry (`abstract_type_of_data`,
`inhabits_data`, `serialize_data`, `deserialize_data`, `construct_inhabitant_of_data`, `hash_data`) is a recursive function on `Data`, or
on streams, with one operator for what a call makes of the results of the calls in it (`TypeOf`, `InhabitsGiven`, `Serialized`,
`DeserializedGiven`, `Constructed`). A call of `deserialize_data` has taken an item from the stream before it calls itself, so
`Deserialize` goes by the depth of the calls, which is the length of the stream at most.
`TermStream` takes the term apart as the overloads of `serialize` do, the size of an
array included only when its type does not say it, and puts it together
again by the deserialize function found for the abstract type in front. A reading can
end in an exception, and nothing says how much of the stream it had taken then. `Interop`
models the same functions on a stream that can end anywhere; here the stream is complete
and its terms are of every kind, those without a `serialize` included: `serialize_data`
throws at the first one it comes to, and `Written` is what is in the stream by then.

`Calls` has the dispatch of `construct_inhabitant_of_data`, `element_of_data` and
`hash_data`. An exception and an abort are results (`Exception`, `Abort`). An index is added to
the size in a `size_t` of `SizeValues` values, wrap included. `Hash` keeps what is combined apart,
so that two hashes differ in the model whenever the code makes them differ at all.

`Containers` is a program around them. Every operation that names a type verifies it
(`ConstructArray`, `ConstructOrderedMap`, `WithConstraint`), and when it throws the state is
the one before, except for `MoveWithConstraint`. `SetElement`, `PushBack` and `Emplace` go
through the references the classes hand out and verify nothing: `loose` says that
this happened, and is not read by any action. `ConstructOther` makes a term of one Data.
What it builds with is as the classes make it (`InputsAreFormed`): as many parts as the class has, a constraint of its own
sort, the pairs of a map ascending. `Readable` says what `RoundTrip` is about: no kind without `serialize`, no union or
tuple (section 5), and no container that violates its constraint, anywhere in the term, for `with_constraint` throws when such a one is read.

### Conversions (`lib/sept/type/Conversions.cpp`, `Conversion.hpp`, `proj/TypeFunctor.cpp`)

The module begins before `main`: `Initialise` runs the static initialisers of the four files
involved in the order in which they are linked (`LinkOrder`, `CMakeLists.txt`); the one of
the table hashes the types it has conversions of, which throws, and ends the program,
for a type whose registration has not run. Then a value is chosen, and converted along any
chain (`ConvertTo`, which refuses a loss; `ConvertLossy`, which takes it) or through a
`TypeFunctor` projection. The rows of the table (`Builtin`), the checks (`NotLossy`) and the
evaluations (`Eval`) are the code's, with 64 bits, 53 and 8 scaled to `W`, `M` and `C` in the
same order. Numbers are counted in halves, so that a fraction is one number, and a double has
infinities and NaN. A cast the language leaves undefined may give anything (or throw, where
the code casts a `Data` to a type it does not hold). `origin` remembers the number at the last
loss that was accepted, and is read by no action.

### TreeNodes (`lib/sept/TreeNode_t.hpp`)

A node is an address; `held` are the nodes a caller owns, everything else is owned by the
vector it is in. Each operation comes with its failures: the parent is set
before the vector has taken the child, and the vector may fail to grow; a range is
checked and marked one child at a time. An index or count is any `size_t`, and what `std::vector`
leaves undefined ends the behaviour (`mode`).

### Modelled from their use

Not part of `src/`, modelled from how the code uses them and marked `external` where they
are definitions of their own: the order in which Qt's `QMdiArea` activates
sub-windows (any other one), POSIX pipes (bounded, in order, end of file), the buffer of
`std::cout`, growth of `std::vector` (to any larger capacity) and of `std::unordered_set`, the allocator (any free
address), `lvd::remainder` (never negative).

## 3. The runs

All sizes are bounds of the instance, not of the code.

| run | bounds | shows |
|---|---|---|
| `scopes` | 3 tables; one variable, one library function | `TypeOK`, `ScopesAgree`; `ClosedScopesFrozen`, `ResolvedForEver`; `RefinesScopeStack`; `UnwindReachesGlobal` |
| `scopes_deref` | 2 tables, 2 variables | violation of `DerefReturns` |
| `document` | two sibling arrays, at most 2 elements each, 6 item addresses; a selection that mixes depths has 2 rows | `TypeOK`, `Verified`, `AnnouncedRows`; `SelectedDeleted`; `RefinesNestedArrays` |
| `document_mixed` | a leaf beside an array, at most 3 elements, 5 item addresses, selections that mix depths | violation of `ChildDeletedFirst` |
| `interop` | an array and an ordered map with a constraint, an output, two requests, an echo and a term nobody flushes; pipe of 2 nodes, buffer of 3; either process may be killed | `TypeOK`, `ResponsesAreAnswers`, `NothingLost`, `RefinesTermChannel`; `AnswersReturn`, `BothEnd` |
| `views` | 3 view addresses, 3 documents opened, 1 edit, 2 selected items | `TypeOK`, `EnabledHasCurrent`; `IntegrationIsRead`, `FreshIntegration`, `IntegrationIsLocal` |
| `views_assert` | 2 views, no edit | violation of `AssertionsHold` |
| `beliefs` | 10 worlds of 7 statements, two of which are false; data of height 6 or less; 7 predicates to be told, 6 rules, 13 questions; 2 calls of `add_belief` or `remove_belief`; first rehash at the 4th belief | `TypeOK`, `BeliefsTrue`, `AnswersTrue`, `DerivesAll`; `AnswersKept`; `DerivationEnds` |
| `terms` | elements `true`, `Term` and a union, an array of bools as a value; 6 array types, two of them of equal unions, 3 map types; 5 kinds of terms of one Data, one of them of a term that cannot be written; 22 terms that are called; at most 2 elements; terms of height 8 or less; `size_t` of 32 values; 2 terms written | `TypeOK`, `ConstraintKept`, `InhabitsIsSound`, `ElementsFound`, `RoundTrip`, `CompareIsAnOrder` |
| `terms_tuple` | the same, 1 term written | violation of `EveryTermReadsBack` |
| `conversions` | integers of 6 bits, 3 bits of mantissa, `char` of 4; six target types; every number of every type | `QualityIsExact`, `LosslessChain`; `EmbedThenProject`; `StartsUp` |
| `tree` | 5 node addresses, `size_t` up to 7 | `TreeSound`; `EraseTruncates` |

Why these are enough. *scopes*: three tables make a scope in a scope, a closed scope that
a reference outlives while another one is open at the same depth, and shadowing over
two levels; what the code does at a scope depends on it, its parent and the nearest
binding only. *document*: an insertion in front of, behind and into an array that
has and has not room; two arrays so that a selection spans siblings, two levels so that
a parent and its child can be selected, which two rows are enough for. *interop*: both the buffer and the pipe are
smaller than a term and larger than a node, so that both fill up and every term
is cut in different places: in an element, a type, a key, the heading and the bytes of a size. *views*: a document extracted from a document extracted from
a document; a source closed and its address used again; an edit, so that the source
can shrink or the extracted document change. The symmetry of `views` permutes
view addresses, which the specification only compares for equality; none of the
properties checked there is a liveness property. *beliefs*: the rules feed themselves,
repeat a variable, have a free variable that only the contrapositive binds, a
tuple in the premise, a conjunction and an implication as conclusion; the predicates to be told need
each of De Morgan's laws; two told beliefs are enough for derivations of length
four, and for a rehash in the middle of the loop. *terms*: the types have every combination
of a known element type and a known size, one in a map type, and two unions; no term is higher than 8 (`MaxHeight`), or
TLC would stop at one outside of the functions' domain; the union among the elements inhabits one of two equal
unions and not the other, and `Term` has a type nothing says it inhabits; two elements make
a duplicate key and an order; the second term is what a reading out of step would
run into, and a loose array of fixed size, or an `Output` whose value cannot be written, makes
such readings happen; 32 values hold every size and index tried,
and an index from the end only comes out right by the wrap. *conversions*: every value of every type is converted, so the
borders are all there; 6, 3 and 4 keep the relations of 64, 53 and 8 that the checks depend on
(`WidthsAssumption`: a `char` fits a mantissa, an integer does not). *tree*: five nodes are
enough for a range of two inserted into a node that has children and a parent, one of the two
already marked by an insertion that failed; with 7 the largest `size_t`, `index + count` wraps
for counts that are larger and smaller than what is left. The symmetry of `tree` permutes
node addresses, which are only compared for equality.

`CHECK_DEADLOCK FALSE` stands where the modelled system may stop: the bounds on
tables, edits, documents and terms are used up, a program has diverged, aborted or thrown, or
met undefined behaviour.
`interop` checks deadlock: a state in which neither process can go
on is an error there, unless both are gone.

### Fairness

The user is never fair: no answer, edit or click need ever come.
`Interop!FairSpec` has weak fairness of each process: the operating system runs a
process that is not blocked, and a read or write is enabled in the model only when
it does not block. Crashes need not happen. `EvalScopes!FairSpec` has weak fairness of
`Unwind` and `Catch`: an exception that has been thrown runs the destructors up to its
handler without asking anyone. `Beliefs!FairSpec` has weak fairness of `Loop`: a call of
`derive_beliefs_2` that has been made goes on. `Conversions!Spec` has weak fairness of `Load`:
the loader runs the initialisers, and then `main`, unasked. Nothing makes a program come to its end.

## 4. The proofs

**EvalScopes_proofs** assumes `EvalAssumption` only: any number of tables, any finite or
infinite set of symbols and values, any library. The inductive invariant is `Inv`, the
conjunction of `TypeOK`, `ScopeDiscipline`, `ScopesNested` and `ParentsOlder`; the last three
together are `ScopesAgree`, which the run checks and `ScopesAlwaysAgree` proves. None of the
three is inductive alone: that a pop leads to the scope below needs the parent
links (`ScopeDiscipline`); that the walk up those links meets the open scopes and nothing else
needs their order (`ParentsOlder`), and a fresh table keeps the order because the
current scope is already allocated (`ScopesNested`). `ScopeSteps` reduces the actions to four
kinds of step: push, pop, define, assign; `ChainStep` describes the walk one level at a
time. From the invariant follow both action properties and the refinement: a push maps
to `Enter`, a pop to `Leave` (`PushEnters`, `PopLeaves`), a changed binding to
`Define` or `Assign`, everything else to a stutter.

**DocumentViews_proofs** assumes `ViewsAssumption`: any set of addresses, any values and
any bounds. `EmbedOfProject` and `ProjectOfEmbed` are the two lens laws of
`ElementExtraction` for arrays of any length and indices of any size, sign and
multiplicity; the second one needs that no two indices name one element, which is what
the code's loop order makes necessary. The invariant of the views is `Inv`:
`DocumentsTyped`, `ViewsTyped`, `BoundsTyped`, `NotOwnSource` and `EnabledHasCurrent`. `TypeOK`
says no more than that each document is an array; the induction needs to know that it is well formed
at every depth, through insertions and removals at any path
(`PathsLead` gives the paths an edit can be made at, `PutKeepsDocument` what an edit leaves),
through extraction (`ExtractedIsDocument`) and `embed` (`EmbeddedIsDocument`). `WellFormed`
is not a recursive definition, which a proof could not use: a Data is well formed if it is in some set
whose members are leaves, integers or arrays and which has the elements of its members as
members too (`Closed`). An array of well-formed Data is one of them because such sets can be united
(`WellFormedArray`). `NotOwnSource` needs that a new view's address is
free while its source is open. With `Inv` the two lens laws become properties of the
system, `IntegrationReadsBack` and `FreshIntegrationIsHarmless`: the indices of a document that `embed` accepts are
integers, as many as there are elements to put back (`EmbeddedParts`), whatever the user did to either document since.

**SEPTDocument_proofs** assumes `DocumentAssumption` and
`TreeAssumption`: any tree of arrays, any number of items and buffers, any capacities, any
selection. The inductive invariant is `Shape`: `TypeOK`, `Tree` and `Counting`. `Tree` is what
`Verified` needs: each item points at its element, and has one child for each element of
its array (`Shadowing`); no two items stand for one array (`OwnedOnce`), or an insertion that moves the
array's elements would leave the children of the other one behind; the items are those below the visible root,
or a removal would miss some. `Counting` keeps `announced` a number: an item is in the queue
once, and no more removals of rows wait for an item than rows were announced. That
part holds for mixed selections too, which the run can only try in two rows.
`AnnouncedRows` and `SelectedDeleted` need a second invariant, `Ordered`, for selections of
one depth: the queue has the items' own rows, later rows first, and none of its items is
below another (`DepthTells`: items of equal depth are not, which is what the comparator is for). Then a removal moves no row that
is still queued, and the loop may leave the rows in its queue as they are (`RowsLeft`).
For the refinement, `Shown`, what the items show, is the document itself (`ShownIs`); an
insertion, an edit and a removal change it in one array at one place, with what was
nested there (`NestedShown`).

**Interop_proofs** assumes
`ScriptAssumption` and `InteropAssumption`: any script, any capacity of the pipes and the buffer, any
line the user may type, either process killed at any point. The invariant `Shape` says what the
buffers are made of and that both programs have read whole terms and part of one (`WholeTerms`). `NothingLost` follows from
`Counted`: what front is reading, the pipe, the buffer and what back is serializing make up one
sequence, `InTransit`; while both programs run its terms and those handled are together as many as were
written, and it ends where a term ends. `ResponsesAreAnswers` follows from `Dialogue`: nothing follows a request in the stream
(`LastRequest`), a request does not stay in the buffer while back waits (`Buffered`), and so when front asks there is
nothing under way but that (`Quiet`); an answer is in parts in `reply`, the pipe and
`received` (`InStep`). When front dies, what it leaves behind is read as one wrong response at most
(`AfterFront`). That a term ends at the first node at which none is missing, wherever it
is cut, is proved first (`TermWritten`, `TermRead` and the lemmas before them).

That `Interop` implements `TermChannel` (`ImplementsTermChannel`) needs besides `Shape` that the
stream ends where a term ends until back is killed (`WholeUp`). The queue of the mapping,
`TermsOf(InTransit)`, finds terms by where they end: the i-th term ends with the first node after which
1 - i terms are missing (`EndOf`; that there is one, and only one, is `EndExists` and `EndIs`). Then a term serialized is
`Send` (`LastTerm`), a node on its way from buffer to pipe to front is a stutter (`MoveStep`), the last
node of a term is `Receive` (`FirstTerm`). At the end of the stream front has at most an incomplete term
(`Leftover`), which is what `Torn` is about: one more term nobody wrote is `ReceiveTorn`, the end is
`ReceiveEnd` (`EndStep`), and an exception front dies of leaves the channel as it is. When
back is killed what is left of the stream is a prefix, whose terms are the first of the terms written
(`PrefixTerms`), and its end is incomplete only if a term was lost (`CrashStep`).

**TreeNodes_proofs** assumes `NodeAssumption` only: any number of nodes, any size of a `size_t` that
can count them. The invariant `Inv` has five parts. `Owners` and `Owned` say that parents and children agree on
each other, as far as nodes the caller does not own are concerned: a failed insertion (`MarkInv`) leaves a wrong
parent in a node of the caller only. `Once` says that no vector has a child twice. That is not enough, for a
circle of nodes that own each other would agree on everything: `Ranked` says that there is a rank which grows on the
way down. An insertion raises the rank of what it inserts above that of the new parent, which is not in there
(`AdoptInv`; that is the caller's part, `MayAdopt`); an erasure deletes a set that contains the children of its members, and of the
erased node's siblings none (`GoneIs`, `DeleteInv`). `TreeSound` follows: the way up
ends, as the rank falls (`HolderExists`), at one node only (`OneHolder`), and `tree_depth` meets the nodes
above and no others (`DepthIs`). A subtree is defined as the least set closed under children, which is
what a proof can use in place of an induction (`SubtreeIs`). TLC cannot enumerate the ranks,
and checks `TreeSound` only.

**Conversions_proofs** assumes `WidthsAssumption`: any widths of integer, mantissa and char that fit in each
other as 64, 53 and 8 do, so the theorems are about the code's own widths, where TLC tries 6, 3 and
4. The provers know nothing of powers of two nor of recursion. So the powers are a recursive
function, `Pow2`, and for it and the two loops it is proved first that there is such a function
(`Pow2Def`, `TrailingStep`, `LeadingStep`, each by a least number at which there would be none; the
loop over the leading zeros goes up, and its proof down from `Pow2[W]`). A number is odd
but for its trailing zeros, and fills the word without its leading ones (`TrailingZeros`, `LeadingZeros`), so what is left
are its significant bits (`SignificantBits`), and an integer that needs more than `M` is no double (`SignificantFits`,
`OddTimesPower`). Each row of the table is then compared with its check (`Evaluations`, `Judged`, `Accepted`).
`LosslessChain` is inductive together with the ranges of the Data (`Inv`): what has become a char
stays one. That no initialiser throws is `TableIsComplete`; that `main` is reached stays liveness.

**Containers_proofs** is about `eq_data`, `compare_data`, the pairs of an ordered map, and the program of `Containers`. It assumes that no two type
names are at one address (`NamesAreDistinct`), that every kind has a name (`KindsHaveNames`) and that `MaxHeight` is a natural number: any addresses,
any Data of any height. `DataAreOrdered`: Data that are and hold no `BoolTerm_c` are ordered as
`std::map` requires. Data of a height are compared by their args, which have a smaller one, so the proof goes
up the heights (the least height with Data out of order has its args in order). At each, `compare` of two
`DataVector` is a lexicographic order if it orders the elements: where two sequences first differ decides, and of two such
places the first. Then what is compared after the args (the number) or instead of them (the addresses of the names of the kinds) is added.
`BoolTermIsNotOrdered`: with a `BoolTerm_c` it is no order, as two Data compare equal one way round and not the other,
wherever the names are. No run shows it, for the programs make no such Data.
`ZeroIsEqual`: zero means equal, without unions and what has no comparison. From the order follow `EmplaceKeepsOrder`
and `MapIsSorted`: however its arguments are ordered, `make_ordered_map` leaves one pair for each key, the first one given, in ascending
order, so that a lookup by halves finds every key.

For the program the constants are any elements, values, types and terms of one Data that are two lower than `MaxHeight` (`InputsAreLow`: a map of pairs
is two higher than its keys) and as their classes make them (`InputsAreFormed`, which leaves out `int64_t` and `BoolTerm_c`, of which no container is made
here), the types being types of containers (`TypesAreContainerTypes`);
any sizes, any number of terms written. That functions such as `inhabits_data` exist and solve their equations is one lemma about recursion
with a rank, `Recursion`: solutions for the Data of rank less than n are unique and go up n by one. The invariant `Inv` says of the term in hand and of those
written that they are among `TermsMade`: an array type or `Array` in front of elements, a map type or `OrderedMap` in front of ascending pairs, a tuple, or a
term of one Data; `TypeOK` alone is not inductive, as it does not say that the pairs of a map are pairs of elements, which is what `compare` orders.
From it follow `TypeCorrect` and `KeepsConstraint`, action by action (`ConstructArrayKeeps` to `SameKeeps`); `FindsElements`, for a `size_t` that holds the
positions and the index past them (`SizesFit`: with fewer values an index past the end would wrap into the array) and elements that
compare equal only if they are equal (`KeysAreExact`: of two keys that are different but compare equal a map keeps one);
and `ComparesInOrder`, from `DataAreOrdered`, `ZeroIsEqual` and the fact that what is equal without unions and maps is the same, and hashes alike (`EqualIsSame`).

`ReadsBack` is `RoundTrip` for any inputs, sizes and number of terms: what is written one after the other in one stream is read back
term by term, where nothing in the stream says where a term ends. What is written for a Data is written of a heading and
fields that are less deep (`Depth`: singletons 0, plain values 1, other Data by twice their height, so that the size of a container and its type
are below it; `NeedsAreShallower`), so `serialize_data` exists and every Data as the classes make them becomes a sequence of items (`WrittenItems`).
`FlattenSeq` is a fold; what is left in front of each field is a chain of streams, each the next field in front of the next stream (`FlattenChains`), and
`DeserializeN` goes down such a chain (`ReadsInARow`). `ReadsTerm` says of a Data that every reader deep enough, given what was written for it in front of any
rest, gives the Data and that rest. It is proved for each form: singletons (`SingletonIsRead`), plain values (`PlainIsRead`), types and control
terms (`FormIsRead`), arrays (`ArrayIsRead`) and maps (`MapIsRead`: the pairs are put together from keys and values, and
ascending pairs make the map they came from, `MapOfAscending`), from the same for what is less deep (`EveryTermIsRead`, by a least depth at which it fails). The terms in hand are as their classes make
them (`MadeIsFormed`). The invariant `StreamInv`, next to `Inv`, has the streams that were still to be read after each term (`Follows`): writing extends each of
them, reading goes to the next. It claims nothing from the first term on that cannot be read back, for the
reader is then out of step, as `terms_tuple` shows.

**Beliefs_proofs** proves that thinky is sound: `BelievesTruths`, `AnswersTruths`, `AnswersStand` (and `TypeCorrect`), for
any world, any set of predicates and rules, and any number of calls. The theorems have three hypotheses. `AllData`: `Data` is what can be
made of the leaves, and a tuple is higher than its elements. `AllIndividuals`: a
free variable may stand for anything that comes of replacing variables in data (an instance with fewer
individuals makes laws of rules that are none). `Sentences`: what is told, asked and given
as a rule has no exclusive or, which the code takes for an inclusive one. TLC cannot enumerate such
`Data`: the run has `Data` of height 6 or less and three individuals, and tries what is proved on them.
That the recursive functions of `Predicates` are functions, and solve their equations, is `HasSolution`: an equation
in which the value for a data depends on lower ones has a solution. `Lowest` does the inductions, by
the lowest data for which a statement fails. The argument then follows the code. A pattern that matches is
substituted to the belief it matched (`MatchSubstitutes`), and two substitutions are one
(`SubstitutionsCompose`), so the consequence of a law is true (`ConsequenceIsTrue`). `demorganize_data` keeps, and with negation turns
round, what holds under every assignment (`DualIsSound`), so the operands of a conjunction, which `add_belief` inserts in its
place, are true (`InsertedAreTrue`). The contrapositive of a law is one (`ContrapositiveIsLaw`). `evaluate_predicate` is
sound (`EvaluateIsSound`) although it reads element 1 of an implication as its conclusion: that is `Implies`, of which nothing is
ever known, so an implication which is not itself believed or denied is accepted, if at all, because its premise is denied.
What is not true under all assignments need not be false under all: an open sentence can be neither, which is why "Deny" means
that the negation is true. The invariant is `Inv`: the beliefs are finitely many true
sentences (`BeliefsInv`), and while `derive_beliefs_2` is under way, the rule its loop goes by is a law whose
premise has been demorganized, and what the iterator has yet to reach are beliefs (`LoopInv`). No part of it says in which
order beliefs are reached: soundness does not depend on the hashes.

Model-checked only:
 * liveness (`UnwindReachesGlobal`, `DerivationEnds`, `StartsUp`, and `AnswersReturn` and
   `BothEnd` of `Interop`);
 * `DerivesAll` of `Beliefs`, which holds for the rules of the run and not for all: a conclusion such as
   `~(p \/ (q /\ r))` is believed as `~p` and `~q \/ ~r`, from which `evaluate_predicate` does not
   get back to the conclusion;
 * `InhabitsIsSound` of `Containers`, with the two exemptions of section 5 (types nothing inhabits, and containers that hold
   unions), about what `inhabits_data` and the calls of types as functions compute by recursion:
   `Recursion` gives their equations, and the inductions over types are left to TLC.

## 5. Where code and comments disagree

 * `scopes_deref`: `Data::deref` (`lib/sept/Data.hpp:132`) "dereferences all wrapped
   RefTerm_c levels". A symbol defined as itself (`define x as x`) has no last level: the recursion does not end.
 * `document_mixed`: the comparator of `RowIndexSet.hpp:48` is not a strict weak
   order: its third disjunct does not ask for equal depth. A parent can come before
   its child, which line 12 rules out, and the loop then reads a freed item.
 * `views_assert`: extracting or integrating without a view "should be impossible due to
   disabled actions" (`bin/sept/MainWindow.cpp:142`). Nothing disables these actions.
 * `terms_tuple`: a union is written under the heading `UnionType`, and a tuple under
   `TupleType` (`lib/sept/UnionTerm.cpp:29`, `TupleTerm.cpp:19`), where the reader expects
   `Union` and `Tuple`: `deserialize_data` throws, for an array with a union in its type
   as well. "Make sure the round trip preserves the data"
   (`bin/test-libsept/test_serialization.cpp:85`) is tested for neither.

More, found on the way and not given a run:
 * `evaluate_predicate` (`bin/thinky/belief.cpp:65`) takes the operands of an exclusive or
   together with or; by `bin/thinky/ast.cpp:66` it is true iff an odd number of them is.
   The instance of `beliefs` has no exclusive or;
 * after a selection that mixes depths, for which `document_mixed` is a counterexample, rows
   are announced as removed that are not there, and other rows than the selected ones may go:
   `AnnouncedRows` and `SelectedDeleted` ask that there was none (`mixed`). The pointers
   of the items that are left are right even then (`Verified`);
 * `with_constraint` of an array, given `Array` as `Data`, ignores its argument and keeps the
   constraint there is (`ArrayTerm.hpp:71`); of an ordered map, on an rvalue,
   it keeps the new one when it throws (`OrderedMapTerm.hpp:179`, `MoveWithConstraint`);
 * `Term`, `Type`, `NonType` and most types of types have the abstract type `NonParametricType`, but `VoidType` alone
   inhabits it (`NPType.cpp:200`): they, and tuples and formal types made of them, do not inhabit their own
   types (`HasOwnType`);
 * unions are equal as sets, but a union inhabits another one member by member, in order (`UnionTerm.cpp:17`).
   So an array of unions that was made to inhabit `ArrayE(Union(A,B))` is said to inhabit
   `ArrayE(Union(B,A))`, which the same elements cannot be made to inhabit (`ArrayType.cpp:97` compares element
   types only), and likewise for maps (`HoldsUnion` exempts both);
 * unions are equal as sets but compared and hashed in order, against "0 if lhs == rhs"
   (`Data.hpp:589`); `CompareIsAnOrder` leaves them out. Terms without a comparison (formal
   types, placeholders, outputs, requests) compare equal, whatever they are made of: as keys of
   one ordered map all but the first are lost;
 * `BoolTerm_c` is compared with `True_c` and `False_c` in one order of the
   arguments only (`NPTerm.cpp:128`; theorem `BoolTermIsNotOrdered`), and `char` has no comparison, so that any two
   of them compare equal;
 * two maps that are equal but have different constraints have different hashes;
 * a term that cannot be written inside one that can leaves the heading of the outer one in the
   stream, and the reader takes the next term for the missing part (`Written`);
 * `ctl::Output(x)` and `ctl::RequestSyncInput(x)` move out of `x` when it is a variable
   (`BaseArray_S_t.hpp:27` moves its argument whatever it is): `response` is empty after
   `bin/interop/back/main.cpp:49`, where it is not used any more;
 * the least `int64_t` is held for lossy as a `double` although it is a power of two; a
   `double` with a fraction is held for not lossy as a `Sint8` (`Conversions.cpp:210`, against
   "undergoes no loss" `Conversion.hpp:42`); a conversion from `Sint8` always throws, for it casts to
   `char` what is an `int8_t`; and a conversion to `Sint8` gives a `char`, whose abstract type is
   `Term`. `QualityIsExact`, `LosslessChain` and `EmbedThenProject` name these exceptions;
 * `TreeNode_t::erase(index, count)` is undefined where `index + count` wraps, and `erase(index)` for an
   index out of range, against their comments (`TreeNode_t.hpp:169`, `174`); after a failed insertion
   a child names a parent that does not own it: it is refused everywhere from then on, and
   `tree_depth` follows the pointer, in a circle if it leads to one of its own children;
 * `add_belief` stores its argument and not its "canonical form" (`belief.hpp:88`) unless
   that is a conjunction;
 * `derive_beliefs` derives a conclusion that it then does not know, when the conclusion is a negated
   disjunction with a conjunction in it: `add_belief` inserts the operands of its canonical form, and `evaluate_predicate` looks for
   the disjunction. The run `beliefs` has no such rule (`DerivesAll`);
 * `matched_pattern__data` throws where its comment (`pattern.hpp:26`) says that it returns
   `nullopt`, when the pattern has a tuple where the term has a leaf.

## 6. Not modelled, and the plan

In `Beliefs`, patterns of arrays, maps, unions and formal types are left out, and the
hierarchy of verbs and adjectives. In `Terms`, references, strings and functions, and of the
numeric types all but one unsigned and, as an index, one signed type; the instances of placeholders;
the deserialize functions of free variables, as nothing writes one. `is_member` of singletons
(`Data.cpp:383`) is used by nothing in the library.

Left out for good: parsing of syntactical terms, printing and its cycle detection,
wording of messages, geometry and delegates of the editor, sept-cat (front's loop
without requests), tests. Hazards that no module reaches: tables that refer to each other
are never freed (`LocalSymRef.hpp:48`); the contrapositive of a rule may derive ever longer
beliefs (`belief.cpp:189`; the bounds of `beliefs` keep to rules that do not); a cast that
throws in the middle of a match (`pattern.cpp:54`) is modelled as the end of the run.

Planned, in this order:
 1. *Numbers in streams*: the ten numeric types with their widths in `TermStream`, and the overload of
    `serialize` that makes a number of a character.
 2. *Patterns*: those of arrays, maps and unions in `Beliefs`.
