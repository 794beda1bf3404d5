----------------------------- MODULE EvalScopes -----------------------------
(***************************************************************************)
(* Symbol tables, symbolic references and scopes of the expression         *)
(* evaluator: sept::SymbolTable and LocalSymRef (lib/sept) as driven by    *)
(* sem::EvalCtx and the statement executor of sept-ast (bin/sept-ast).     *)
(*                                                                         *)
(* Tables live on the heap, shared by pointer: a table outlives the block  *)
(* that pushed it for as long as a LocalSymRef names it.  A program is any *)
(* sequence of statements: which statement comes next, and which           *)
(* expression stands on its right, is chosen nondeterministically.         *)
(***************************************************************************)
EXTENDS Naturals, Sequences, FiniteSets, SequencesExt

CONSTANTS Symbol,      \* symbol ids (std::string in the code)
          Vars,        \* bound: the symbols that statements and operands name
          Literal,     \* values that are not references
          Fn,          \* the literals that are function literals
          Param,       \* Param[f]: the name of the parameter of function f
          Accepted,    \* Accepted[f]: the literals inhabiting f's parameter type
          Undefined,   \* marks a symbol that a SymbolMap does not hold
          None,        \* no statement is waiting to be carried out
          Library,     \* the SymbolMap of the global table at start-up
          MaxTables    \* bound: tables a behaviour may allocate

Table   == 1..MaxTables
Global  == 1           \* global_symbol_table()
NoTable == 0           \* a null m_parent_symbol_table

Ref   == [table : Table, sym : Symbol]     \* LocalSymRef(sym, table)
Value == Literal \cup Ref
SymbolMap == [Symbol -> Value \cup {Undefined}]
Empty     == [x \in Symbol |-> Undefined]

\* What becomes of an expression's value: it is bound to sym by a SymbolDefn or
\* an Assignment, it is the value of the innermost block or function body
\* ("return"), or it is an operand or the result of the program ("eval").
Stmt == [kind : {"define", "assign"}, sym : Vars] \cup [kind : {"return", "eval"}]

ASSUME EvalAssumption ==
    /\ MaxTables \in Nat \ {0}
    /\ Vars \subseteq Symbol
    /\ Fn \subseteq Literal
    /\ Param \in [Fn -> Symbol]
    /\ Accepted \in [Fn -> SUBSET Literal]
    /\ Undefined \notin Value
    /\ Library \in [Symbol -> Literal \cup {Undefined}]

VARIABLES
    allocated,  \* tables 1..allocated exist
    parent,     \* parent[t]: m_parent_symbol_table of table t
    map,        \* map[t]: m_symbol_map of table t
    current,    \* EvalCtx::m_current_scope
    frames,     \* the open C++ calls that hold a ScopeGuard, innermost last
    pending,    \* the statement whose right-hand side has just been evaluated
    mode        \* what the evaluator does next, see Modes

vars == <<allocated, parent, map, current, frames, pending, mode>>

\* "run": evaluate the next expression; "store": carry out the pending
\* statement; "unwind": an exception propagates; "diverged": a dereference
\* never returns (the recursion of Data::deref exhausts the stack).
Modes == {"run", "store", "unwind", "diverged"}

\* A call that is evaluating a BlockExpr or a FuncEval: the table made by its
\* push_scope, whether it is a FuncEval, and the statement that waits for it.
Frame   == [table : Table, isCall : BOOLEAN, stmt : Stmt]
Pending == [stmt : Stmt, value : Value]

TypeOK ==
    /\ allocated \in Table
    /\ parent \in [Table -> Table \cup {NoTable}]
    /\ map \in [Table -> SymbolMap]
    /\ current \in Table
    /\ frames \in Seq(Frame)
    /\ pending \in Pending \cup {None}
    /\ mode \in Modes
    /\ mode = "store" => pending \in Pending

-----------------------------------------------------------------------------
(* Symbol resolution and dereferencing                                     *)

\* The tables resolve_symbol_* may look into when asked at table t: t, its
\* parent, the parent's parent and so on (the least set closed under parent;
\* parents are older than their children, see ParentsOlder).
Chain(t) ==
    {s \in 1..t : \A S \in SUBSET (1..t) :
        (t \in S /\ \A r \in S : parent[r] # NoTable => parent[r] \in S) => s \in S}

Holds(t, x) == map[t][x] # Undefined

\* SymbolTable::symbol_is_defined
SymbolIsDefined(t, x) == \E s \in Chain(t) : Holds(s, x)

\* The outermost binding instead of the nearest.
MutResolvesOutermost(t, x, s) ==
    /\ s \in Chain(t)
    /\ Holds(s, x)
    /\ \A r \in Chain(t) : Holds(r, x) => r >= s

\* resolve_symbol_const and _nonconst find x in table s when asked at t: no
\* table nearer to t than s holds x (a parent is older than its children).
ResolvesIn(t, x, s) ==
    /\ s \in Chain(t)
    /\ Holds(s, x)
    /\ \A r \in Chain(t) : Holds(r, x) => r <= s

\* LocalSymRefTermImpl::referenced_data; Undefined when it throws.
ReferencedData(ref) ==
    IF SymbolIsDefined(ref.table, ref.sym)
    THEN map[CHOOSE s \in Table : ResolvesIn(ref.table, ref.sym, s)][ref.sym]
    ELSE Undefined

\* Data::deref follows a reference after another until it meets a value that
\* is none.  The outcome is a literal (deref returns it), Undefined
\* (resolve_symbol_const throws), or, after one hop per binding there is,
\* still a reference (deref never returns).
DerefOutcome(v) ==
    LET Follow[n \in Nat, w \in Value \cup {Undefined}] ==
            IF n = 0 \/ w \notin Ref THEN w ELSE Follow[n - 1, ReferencedData(w)]
    IN  Follow[MaxTables * Cardinality(Symbol) + 1, v]

DerefsTo(v, lit) == DerefOutcome(v) = lit
DerefDiverges(v) == DerefOutcome(v) \in Ref

-----------------------------------------------------------------------------
(* Scopes                                                                  *)

\* SymbolTable::push_symbol_table allocates a table that no call uses.
MutTableReused == allocated
NewTable == allocated + 1

\* EvalCtx::push_scope: a fresh table whose parent is the current scope (the
\* caller's, for a function: not the scope the function was defined in).
MutPushOnGlobal == Global
ParentOfNew == current

PushScope(isCall, stmt, bindings) ==
    /\ allocated < MaxTables
    /\ allocated' = NewTable
    /\ parent' = [parent EXCEPT ![NewTable] = ParentOfNew]
    /\ map' = [map EXCEPT ![NewTable] = bindings]
    /\ current' = NewTable
    /\ frames' = Append(frames, [table |-> NewTable, isCall |-> isCall, stmt |-> stmt])

\* Popping a scope sets m_current_scope to the parent of its table ...
MutPopTwo == parent[parent[current]]
MutPopNothing == current
ScopeAfterPop == parent[current]

\* ... and leaves the table as it was.
MutPopClears == [map EXCEPT ![current] = Empty]
MapAfterPop == map

\* EvalCtx::pop_scope, run by the destructor of the innermost ScopeGuard.
PopScope ==
    /\ frames # <<>>
    /\ parent[current] # NoTable
    /\ current' = ScopeAfterPop
    /\ map' = MapAfterPop
    /\ frames' = Front(frames)
    /\ UNCHANGED <<allocated, parent>>

ScopesUnchanged == UNCHANGED <<allocated, parent, map, current, frames>>

-----------------------------------------------------------------------------
(* Expressions                                                             *)

\* The values an expression without a block or a call can have in the current
\* scope: a literal (terminals, operators, constructions, elements), or for a
\* plain symbol a reference to it, resolved only when it is used.
ExprValue == (Literal \ Fn) \cup [table : {current}, sym : Vars]

Evaluate(stmt, v) ==
    /\ mode = "run"
    /\ stmt.kind = "return" => frames # <<>>
    /\ pending' = [stmt |-> stmt, value |-> v]
    /\ mode' = "store"
    /\ ScopesUnchanged

\* An operand is undefined or of the wrong type, or a call has the wrong
\* number of arguments: the expression throws.
EvaluationThrows ==
    /\ mode = "run"
    /\ mode' = "unwind"
    /\ UNCHANGED pending
    /\ ScopesUnchanged

\* An operand is a symbol whose references lead back to themselves.
EvaluationDiverges ==
    /\ mode = "run"
    /\ \E x \in Vars : DerefDiverges([table |-> current, sym |-> x])
    /\ mode' = "diverged"
    /\ UNCHANGED pending
    /\ ScopesUnchanged

\* evaluate_BlockExpr_Term up to its first statement
EnterBlock(stmt) ==
    /\ mode = "run"
    /\ stmt.kind = "return" => frames # <<>>
    /\ PushScope(FALSE, stmt, Empty)
    /\ UNCHANGED <<pending, mode>>

\* evaluate_FuncEval_Term up to the body: the argument is evaluated in the
\* caller's scope and bound, possibly as a reference, in the new one.
EnterCall(stmt, x, arg) ==
    /\ mode = "run"
    /\ stmt.kind = "return" => frames # <<>>
    /\ \E f \in Fn :
        /\ DerefsTo([table |-> current, sym |-> x], f)
        /\ \E lit \in Accepted[f] : DerefsTo(arg, lit)
        /\ PushScope(TRUE, stmt, [Empty EXCEPT ![Param[f]] = arg])
    /\ UNCHANGED <<pending, mode>>

\* The innermost block or function body has its value and the guard pops the
\* scope.  A function dereferences its result; a block hands a reference out
\* as it is, which keeps the popped table alive.
LeaveScope ==
    LET frame == Last(frames)
    IN  /\ mode = "store"
        /\ pending.stmt.kind = "return"
        /\ PopScope
        /\ \E result \in Value :
            /\ IF frame.isCall THEN result \in Literal /\ DerefsTo(pending.value, result)
                               ELSE result = pending.value
            /\ pending' = [stmt |-> frame.stmt, value |-> result]
        /\ UNCHANGED mode

\* A function's result is an undefined symbol or not of the declared type, or
\* dereferencing it never returns.
ReturnFails ==
    /\ mode = "store"
    /\ pending.stmt.kind = "return"
    /\ frames # <<>>
    /\ Last(frames).isCall
    /\ mode' = IF DerefDiverges(pending.value) THEN "diverged" ELSE "unwind"
    /\ pending' = None
    /\ ScopesUnchanged

-----------------------------------------------------------------------------
(* Statements                                                              *)

\* execute_stmt__as_SymbolDefn.  The message of the exception thrown for a
\* symbol the table already holds prints, and so dereferences, both values.
ExecuteSymbolDefn ==
    LET x == pending.stmt.sym
    IN  /\ mode = "store"
        /\ pending.stmt.kind = "define"
        /\ IF Holds(current, x)
           THEN /\ mode' = IF \E v \in {map[current][x], pending.value} : DerefDiverges(v)
                           THEN "diverged" ELSE "unwind"
                /\ UNCHANGED map
           ELSE /\ map' = [map EXCEPT ![current][x] = pending.value]
                /\ mode' = "run"
        /\ pending' = None
        /\ UNCHANGED <<allocated, parent, current, frames>>

\* execute_stmt__as_Assignment: replaces the value of the nearest binding;
\* a reference held there is replaced, not followed.
ExecuteAssignment ==
    LET x == pending.stmt.sym
    IN  /\ mode = "store"
        /\ pending.stmt.kind = "assign"
        /\ \/ /\ \E s \in Table : /\ ResolvesIn(current, x, s)
                                  /\ map' = [map EXCEPT ![s][x] = pending.value]
              /\ mode' = "run"
           \/ /\ ~SymbolIsDefined(current, x)
              /\ mode' = "unwind"
              /\ UNCHANGED map
        /\ pending' = None
        /\ UNCHANGED <<allocated, parent, current, frames>>

\* The value is an operand, which operators cast and so dereference, or the
\* result of the whole program, which is printed.
UseValue ==
    /\ mode = "store"
    /\ pending.stmt.kind = "eval"
    /\ mode' = CASE DerefDiverges(pending.value)             -> "diverged"
                 [] DerefOutcome(pending.value) = Undefined -> "unwind"
                 [] OTHER                                   -> "run"
    /\ pending' = None
    /\ ScopesUnchanged

\* The exception destroys the innermost ScopeGuard on its way out ...
Unwind ==
    /\ mode = "unwind"
    /\ PopScope
    /\ UNCHANGED <<pending, mode>>

\* ... and reaches the code that owns the EvalCtx, which may go on using it.
Catch ==
    /\ mode = "unwind"
    /\ frames = <<>>
    /\ mode' = "run"
    /\ UNCHANGED pending
    /\ ScopesUnchanged

-----------------------------------------------------------------------------

Init ==
    /\ allocated = 1
    /\ parent = [t \in Table |-> NoTable]
    /\ map = [t \in Table |-> IF t = Global THEN Library ELSE Empty]
    /\ current = Global
    /\ frames = <<>>
    /\ pending = None
    /\ mode = "run"

Next ==
    \/ \E stmt \in Stmt, v \in ExprValue : Evaluate(stmt, v)
    \/ \E stmt \in Stmt : EnterBlock(stmt)
    \/ \E stmt \in Stmt, x \in Symbol, arg \in ExprValue : EnterCall(stmt, x, arg)
    \/ LeaveScope \/ ReturnFails
    \/ EvaluationThrows \/ EvaluationDiverges
    \/ ExecuteSymbolDefn \/ ExecuteAssignment \/ UseValue
    \/ Unwind \/ Catch

Spec == Init /\ [][Next]_vars

\* The C++ runtime runs the destructors of an exception's path to the end.
FairSpec == Spec /\ WF_vars(Unwind) /\ WF_vars(Catch)

-----------------------------------------------------------------------------
(* Properties                                                              *)

\* The table of the i-th open scope; the 0th is the global table.
ScopeTable(i) == IF i = 0 THEN Global ELSE frames[i].table
OpenTables == {ScopeTable(i) : i \in 0..Len(frames)}

\* The scope pointer and the guards agree: walking m_parent_symbol_table from
\* the current scope meets the table of every open block and call, innermost
\* first, and nothing else before the global table.  An early pop, a missed
\* pop on an exception path or a wrong parent breaks it.
ScopeDiscipline ==
    /\ current = ScopeTable(Len(frames))
    /\ parent[Global] = NoTable
    /\ \A i \in 1..Len(frames) : parent[frames[i].table] = ScopeTable(i - 1)

\* Open scopes are nested: each is younger than the one around it, and what
\* symbols can be resolved in is exactly the open scopes, so that no symbol of
\* a closed block is visible and none of an open block is out of sight.
ScopesNested ==
    /\ \A i, j \in 0..Len(frames) : i < j => ScopeTable(i) < ScopeTable(j)
    /\ current <= allocated
    /\ Chain(current) = OpenTables

\* Parents are older than their children: the walk of resolve_symbol_* ends.
ParentsOlder == \A t \in Table : parent[t] < t /\ (t > allocated => parent[t] = NoTable)

\* All three at once: scope pointer, parent links and scope guards describe the
\* same nested scopes, however these are entered and left.
ScopesAgree == ScopeDiscipline /\ ScopesNested /\ ParentsOlder

\* No step ever changes the symbols of a table whose scope has been closed,
\* although references that left the block still reach it: a value handed out
\* of a block can change only through a table that is still open.
ClosedScopesFrozen ==
    [][\A t \in 1..allocated : t \notin OpenTables => map'[t] = map[t]]_vars

\* Once a symbol can be resolved at a table it can be resolved there for ever,
\* also after the block that made the table has ended: a reference that works
\* does not start to throw.
ResolvedForEver ==
    [][\A t \in 1..allocated, x \in Symbol :
        SymbolIsDefined(t, x) => SymbolIsDefined(t, x)']_vars

\* The heap of shared tables behaves as a stack of maps.
ScopeMaps == [i \in 1..(Len(frames) + 1) |-> map[ScopeTable(i - 1)]]
Scopes == INSTANCE ScopeStack WITH env <- ScopeMaps
RefinesScopeStack == Scopes!Spec

\* An exception unwinds every open scope: whoever catches it finds the
\* EvalCtx back at the global scope.
UnwindReachesGlobal == mode = "unwind" ~> (mode = "run" /\ current = Global /\ frames = <<>>)

\* Data.hpp says of deref(): "This dereferences all wrapped RefTerm_c levels".
\* It does so only if no reference leads back to itself.
DerefReturns == mode # "diverged"

=============================================================================
