------------------------- MODULE EvalScopes_proofs --------------------------
(***************************************************************************)
(* Proofs about EvalScopes, for any number of tables, symbols and values.  *)
(***************************************************************************)
EXTENDS EvalScopes, SequenceTheorems, TLAPS

(* Typing ---------------------------------------------------------------- *)

\* What a step appends to, or removes from, the open calls keeps them typed.
LEMMA FrontType ==
    ASSUME NEW S, NEW s \in Seq(S), s # <<>>
    PROVE  /\ Front(s) \in Seq(S)
           /\ Len(Front(s)) = Len(s) - 1
           /\ \A i \in 1..(Len(s) - 1) : Front(s)[i] = s[i]
           /\ Last(s) \in S
  <1> DEFINE n == Len(s) - 1
             t == SubSeq(s, 1, n)
  <1>1. n \in Nat /\ Len(s) = n + 1
    OBVIOUS
  <1>2. \A i \in 1..n : s[i] \in S
    BY <1>1
  <1>3. /\ t \in Seq(S)
        /\ Len(t) = IF 1 <= n THEN n - 1 + 1 ELSE 0
        /\ \A i \in 1..(n - 1 + 1) : t[i] = s[1 + i - 1]
    <2> HIDE DEF n
    <2> QED
      BY <1>1, <1>2, SubSeqProperties
  <1> HIDE DEF n, t
  <1>4. Len(t) = n /\ \A i \in 1..n : t[i] = s[i]
    <2>1. Len(t) = n
      BY <1>1, <1>3
    <2>2. \A i \in 1..n : t[i] = s[i]
      BY <1>1, <1>3
    <2>3. QED
      BY <2>1, <2>2
  <1>5. Last(s) \in S
    BY <1>1 DEF Last
  <1>6. QED
    BY <1>1, <1>3, <1>4, <1>5 DEF n, t, Front

\* A fresh table holds no symbols.
LEMMA EmptyType == Empty \in SymbolMap
  BY DEF Empty, SymbolMap

\* An expression has a value or a reference to a table that exists.
LEMMA ExprValueType == TypeOK => ExprValue \subseteq Value
  BY EvalAssumption DEF TypeOK, ExprValue, Value, Ref, Table

\* push_scope keeps every variable it touches typed.
LEMMA PushScopeType ==
    ASSUME TypeOK, NEW isCall \in BOOLEAN, NEW stmt \in Stmt, NEW bindings \in SymbolMap,
           PushScope(isCall, stmt, bindings)
    PROVE  /\ allocated' \in Table
           /\ parent' \in [Table -> Table \cup {NoTable}]
           /\ map' \in [Table -> SymbolMap]
           /\ current' \in Table
           /\ frames' \in Seq(Frame)
  <1>1. allocated + 1 \in Table
    BY EvalAssumption DEF PushScope, NewTable, Table, TypeOK
  <1>2. [table |-> allocated + 1, isCall |-> isCall, stmt |-> stmt] \in Frame
    BY <1>1 DEF Frame
  <1>3. QED
    BY <1>1, <1>2 DEF PushScope, NewTable, ParentOfNew, TypeOK

\* pop_scope keeps every variable it touches typed: the parent it goes to is a table.
LEMMA PopScopeType ==
    ASSUME TypeOK, PopScope
    PROVE  /\ allocated' \in Table
           /\ parent' \in [Table -> Table \cup {NoTable}]
           /\ map' \in [Table -> SymbolMap]
           /\ current' \in Table
           /\ frames' \in Seq(Frame)
  BY FrontType DEF PopScope, ScopeAfterPop, MapAfterPop, NoTable, TypeOK

\* The evaluator starts in the global scope, with everything typed.
LEMMA TypeInit == Init => TypeOK
  BY EvalAssumption, EmptyType
     DEF Init, TypeOK, Table, Global, Modes, SymbolMap, Value, NoTable

\* Every step keeps the types.
LEMMA TypeStep == TypeOK /\ [Next]_vars => TypeOK'
  <1> SUFFICES ASSUME TypeOK, [Next]_vars PROVE TypeOK'
    OBVIOUS
  <1>1. ASSUME NEW stmt \in Stmt, NEW v \in ExprValue, Evaluate(stmt, v) PROVE TypeOK'
    BY <1>1, ExprValueType DEF Evaluate, ScopesUnchanged, TypeOK, Pending, Modes
  <1>2. ASSUME NEW stmt \in Stmt, EnterBlock(stmt) PROVE TypeOK'
    BY <1>2, EmptyType, PushScopeType DEF EnterBlock, TypeOK
  <1>3. ASSUME NEW stmt \in Stmt, NEW x \in Symbol, NEW arg \in ExprValue,
               EnterCall(stmt, x, arg)
        PROVE  TypeOK'
    <2>1. PICK f \in Fn : PushScope(TRUE, stmt, [Empty EXCEPT ![Param[f]] = arg])
      BY <1>3 DEF EnterCall
    <2>2. [Empty EXCEPT ![Param[f]] = arg] \in SymbolMap
      BY EmptyType, ExprValueType DEF SymbolMap
    <2>3. QED
      BY <1>3, <2>1, <2>2, PushScopeType DEF EnterCall, TypeOK
  <1>4. CASE LeaveScope
    <2>1. PopScope
      BY <1>4 DEF LeaveScope
    <2>2. Last(frames) \in Frame
      BY <2>1, FrontType DEF TypeOK, PopScope
    <2>3. pending' \in Pending
      BY <1>4, <2>2 DEF LeaveScope, Pending, Frame
    <2>4. QED
      BY <1>4, <2>1, <2>3, PopScopeType DEF LeaveScope, TypeOK
  <1>5. CASE ReturnFails \/ EvaluationThrows \/ EvaluationDiverges \/ UseValue \/ Catch
    BY <1>5 DEF ReturnFails, EvaluationThrows, EvaluationDiverges, UseValue, Catch,
                ScopesUnchanged, TypeOK, Modes
  <1>6. CASE ExecuteSymbolDefn
    <2>1. pending.stmt.sym \in Symbol /\ pending.value \in Value
      BY <1>6, EvalAssumption DEF ExecuteSymbolDefn, TypeOK, Pending, Stmt
    <2>2. map' \in [Table -> SymbolMap]
      BY SMTT(60), <1>6, <2>1 DEF ExecuteSymbolDefn, TypeOK, SymbolMap
    <2>3. QED
      BY <1>6, <2>2 DEF ExecuteSymbolDefn, TypeOK, Modes
  <1>7. CASE ExecuteAssignment
    <2>1. pending.stmt.sym \in Symbol /\ pending.value \in Value
      BY <1>7, EvalAssumption DEF ExecuteAssignment, TypeOK, Pending, Stmt
    <2>2. map' \in [Table -> SymbolMap]
      BY <1>7, <2>1 DEF ExecuteAssignment, TypeOK, SymbolMap
    <2>3. QED
      BY <1>7, <2>2 DEF ExecuteAssignment, TypeOK, Modes
  <1>8. CASE Unwind
    BY <1>8, PopScopeType DEF Unwind, TypeOK
  <1>9. CASE UNCHANGED vars
    BY <1>9 DEF vars, TypeOK
  <1>10. QED
    BY <1>1, <1>2, <1>3, <1>4, <1>5, <1>6, <1>7, <1>8, <1>9 DEF Next

\* Every value the evaluator stores, and every scope it is in, has its type:
\* in particular the scope pointer of the EvalCtx is never null.
THEOREM TypeCorrect == Spec => []TypeOK
  BY TypeInit, TypeStep, PTL DEF Spec

(* What a step can do to the scopes ------------------------------------- *)

DefineSymbol(x, v) ==
    /\ ~Holds(current, x)
    /\ map' = [map EXCEPT ![current][x] = v]

AssignSymbol(x, v, s) ==
    /\ ResolvesIn(current, x, s)
    /\ map' = [map EXCEPT ![s][x] = v]

\* Every step pushes a scope, pops the innermost one, or leaves the scopes
\* alone and changes at most one binding.
LEMMA ScopeSteps ==
    ASSUME TypeOK, [Next]_vars
    PROVE  \/ \E isCall \in BOOLEAN, stmt \in Stmt, m \in Scopes!EntryMap :
                  PushScope(isCall, stmt, m)
           \/ PopScope
           \/ /\ UNCHANGED <<allocated, parent, current, frames>>
              /\ \/ UNCHANGED map
                 \/ \E x \in Symbol, v \in Value : DefineSymbol(x, v)
                 \/ \E x \in Symbol, v \in Value, s \in Table : AssignSymbol(x, v, s)
  <1> DEFINE Goal == \/ \E isCall \in BOOLEAN, stmt \in Stmt, m \in Scopes!EntryMap :
                            PushScope(isCall, stmt, m)
                     \/ PopScope
                     \/ /\ UNCHANGED <<allocated, parent, current, frames>>
                        /\ \/ UNCHANGED map
                           \/ \E x \in Symbol, v \in Value : DefineSymbol(x, v)
                           \/ \E x \in Symbol, v \in Value, s \in Table : AssignSymbol(x, v, s)
  <1> SUFFICES Goal
    OBVIOUS
  <1>1. ASSUME NEW stmt \in Stmt, NEW v \in ExprValue, Evaluate(stmt, v) PROVE Goal
    BY <1>1 DEF Evaluate, ScopesUnchanged
  <1>2. ASSUME NEW stmt \in Stmt, EnterBlock(stmt) PROVE Goal
    <2>1. Empty \in Scopes!EntryMap
      BY DEF Empty, Scopes!EntryMap
    <2>2. QED
      BY <1>2, <2>1 DEF EnterBlock
  <1>3. ASSUME NEW stmt \in Stmt, NEW x \in Symbol, NEW arg \in ExprValue,
               EnterCall(stmt, x, arg)
        PROVE  Goal
    <2>1. PICK f \in Fn : PushScope(TRUE, stmt, [Empty EXCEPT ![Param[f]] = arg])
      BY <1>3 DEF EnterCall
    <2>2. Param[f] \in Symbol /\ arg \in Value
      BY EvalAssumption, ExprValueType
    <2>3. [Empty EXCEPT ![Param[f]] = arg] \in Scopes!EntryMap
      BY <2>2 DEF Empty, Scopes!EntryMap
    <2>4. QED
      BY <2>1, <2>3
  <1>4. CASE LeaveScope \/ Unwind
    BY <1>4 DEF LeaveScope, Unwind
  <1>5. CASE ReturnFails \/ EvaluationThrows \/ EvaluationDiverges \/ UseValue \/ Catch
    BY <1>5 DEF ReturnFails, EvaluationThrows, EvaluationDiverges, UseValue, Catch,
                ScopesUnchanged
  <1>6. CASE ExecuteSymbolDefn
    <2>1. pending.stmt.sym \in Symbol /\ pending.value \in Value
      BY <1>6, EvalAssumption DEF ExecuteSymbolDefn, TypeOK, Pending, Stmt
    <2>2. QED
      BY <1>6, <2>1 DEF ExecuteSymbolDefn, DefineSymbol
  <1>7. CASE ExecuteAssignment
    <2>1. pending.stmt.sym \in Symbol /\ pending.value \in Value
      BY <1>7, EvalAssumption DEF ExecuteAssignment, TypeOK, Pending, Stmt
    <2>2. QED
      BY <1>7, <2>1 DEF ExecuteAssignment, AssignSymbol
  <1>8. CASE UNCHANGED vars
    BY <1>8 DEF vars
  <1>9. QED
    BY <1>1, <1>2, <1>3, <1>4, <1>5, <1>6, <1>7, <1>8 DEF Next

(* The tables a symbol is looked for in --------------------------------- *)

\* The chain of t holds t and, with a table, its parent.
LEMMA ChainClosed ==
    ASSUME TypeOK, ParentsOlder, NEW t \in Table
    PROVE  /\ t \in Chain(t)
           /\ Chain(t) \subseteq 1..t
           /\ \A r \in Chain(t) : parent[r] # NoTable => parent[r] \in Chain(t)
  <1>1. t \in 1..t
    BY DEF Table
  <1>2. ASSUME NEW r \in Chain(t), parent[r] # NoTable PROVE parent[r] \in Chain(t)
    <2>1. parent[r] \in 1..t
      BY <1>2, EvalAssumption DEF Chain, ParentsOlder, TypeOK, Table, NoTable
    <2>2. QED
      BY <1>2, <2>1 DEF Chain
  <1>3. QED
    BY <1>1, <1>2 DEF Chain

\* It holds nothing else.
LEMMA ChainLeast ==
    ASSUME NEW t \in Table, NEW S \in SUBSET (1..t), t \in S,
           \A r \in S : parent[r] # NoTable => parent[r] \in S
    PROVE  Chain(t) \subseteq S
  BY DEF Chain

\* One step up the chain.
LEMMA ChainStep ==
    ASSUME TypeOK, ParentsOlder, NEW t \in Table, parent[t] # NoTable
    PROVE  Chain(t) = {t} \cup Chain(parent[t])
  <1> DEFINE p == parent[t]
  <1>1. p \in Table /\ p < t /\ 1..p \subseteq 1..t
    BY EvalAssumption DEF TypeOK, ParentsOlder, Table, NoTable
  <1>2. {t} \cup Chain(p) \in SUBSET (1..t)
    BY <1>1, ChainClosed DEF Table
  <1>3. Chain(t) \subseteq {t} \cup Chain(p)
    <2>1. \A r \in {t} \cup Chain(p) : parent[r] # NoTable => parent[r] \in {t} \cup Chain(p)
      BY <1>1, ChainClosed
    <2>2. QED
      BY <1>2, <2>1, ChainLeast
  <1>4. Chain(p) \subseteq Chain(t)
    <2> SUFFICES ASSUME NEW s \in Chain(p), NEW S \in SUBSET (1..t), t \in S,
                        \A r \in S : parent[r] # NoTable => parent[r] \in S
                 PROVE  s \in S
      BY <1>1, ChainClosed DEF Chain
    <2>1. S \cap (1..p) \in SUBSET (1..p) /\ p \in S \cap (1..p)
      BY <1>1 DEF Table
    <2>2. ASSUME NEW r \in S \cap (1..p), parent[r] # NoTable
          PROVE  parent[r] \in S \cap (1..p)
      BY <1>1, <2>2, EvalAssumption DEF TypeOK, ParentsOlder, Table, NoTable
    <2>3. QED
      BY <1>1, <2>1, <2>2, ChainLeast
  <1>5. QED
    BY <1>3, <1>4, ChainClosed

\* The same in the next state.
ChainSteps ==
    TypeOK /\ ParentsOlder =>
        \A t \in Table : parent[t] # NoTable => Chain(t) = {t} \cup Chain(parent[t])

\* The same after a step.
LEMMA ChainStepNext == ChainSteps'
  <1>1. ChainSteps
    BY ChainStep DEF ChainSteps
  <1>2. QED
    BY <1>1, PTL

\* A chain does not change while the parents of its tables stay.
LEMMA ChainStable ==
    ASSUME NEW t \in Table, \A r \in 1..t : parent'[r] = parent[r]
    PROVE  Chain(t)' = Chain(t)
  BY DEF Chain

(* The scopes stay nested ------------------------------------------------ *)

Inv == TypeOK /\ ScopeDiscipline /\ ScopesNested /\ ParentsOlder

\* Every open scope has a table that exists.
LEMMA OpenTableType ==
    ASSUME Inv
    PROVE  /\ \A i \in 0..Len(frames) : ScopeTable(i) \in 1..allocated
           /\ OpenTables \subseteq 1..allocated
           /\ OpenTables \subseteq Table
           /\ 1..allocated \subseteq Table
  <1>1. allocated \in Nat /\ current \in 1..allocated /\ Len(frames) \in Nat
    BY EvalAssumption DEF Inv, TypeOK, ScopesNested, Table
  <1>2. \A i \in 0..Len(frames) : ScopeTable(i) \in Table
    <2>1. Global \in Table
      BY EvalAssumption DEF Global, Table
    <2>2. \A i \in 1..Len(frames) : frames[i].table \in Table
      <3>1. \A i \in 1..Len(frames) : frames[i] \in Frame
        BY DEF Inv, TypeOK
      <3>2. QED
        BY <3>1 DEF Frame
    <2>3. QED
      BY <1>1, <2>1, <2>2 DEF ScopeTable
  <1>3. \A i \in 0..Len(frames) : ScopeTable(i) <= current
    <2> SUFFICES ASSUME NEW i \in 0..Len(frames) PROVE ScopeTable(i) <= current
      OBVIOUS
    <2>1. current = ScopeTable(Len(frames))
      BY DEF Inv, ScopeDiscipline
    <2>2. CASE i = Len(frames)
      BY <1>1, <2>1, <2>2
    <2>3. CASE i # Len(frames)
      <3>1. i < Len(frames) /\ Len(frames) \in 0..Len(frames)
        BY <1>1, <2>3
      <3>2. ScopeTable(i) < ScopeTable(Len(frames))
        BY <3>1 DEF Inv, ScopesNested
      <3>3. QED
        BY <1>1, <1>2, <2>1, <3>2 DEF Table
    <2>4. QED
      BY <2>2, <2>3
  <1>4. \A i \in 0..Len(frames) : ScopeTable(i) \in 1..allocated
    BY <1>1, <1>2, <1>3 DEF Table
  <1>5. 1..allocated \subseteq Table
    BY EvalAssumption DEF Table, Inv, TypeOK
  <1>6. QED
    BY <1>4, <1>5 DEF OpenTables

\* The open scopes after a push are those before it and the new one.
LEMMA ScopesAfterPush ==
    ASSUME Inv, NEW isCall \in BOOLEAN, NEW stmt \in Stmt, NEW bindings \in SymbolMap,
           PushScope(isCall, stmt, bindings)
    PROVE  /\ allocated + 1 \in Table
           /\ Len(frames') = Len(frames) + 1
           /\ \A i \in 0..Len(frames) : ScopeTable(i)' = ScopeTable(i)
           /\ \A i \in {Len(frames) + 1} : ScopeTable(i)' = allocated + 1
           /\ OpenTables' = OpenTables \cup {allocated + 1}
  <1>1. allocated + 1 \in Table
    BY EvalAssumption DEF Inv, TypeOK, PushScope, NewTable, Table
  <1> DEFINE frame == [table |-> allocated + 1, isCall |-> isCall, stmt |-> stmt]
  <1>2. frames \in Seq(Frame) /\ frame \in Frame /\ frames' = Append(frames, frame)
    BY <1>1 DEF Inv, TypeOK, PushScope, NewTable, Frame
  <1>3. /\ Len(frames) \in Nat
        /\ Len(frames') = Len(frames) + 1
        /\ \A i \in 1..Len(frames) : frames'[i] = frames[i]
        /\ frames'[Len(frames) + 1] = frame
    <2> HIDE DEF frame
    <2> QED
      BY <1>2
  <1>4. \A i \in 0..Len(frames) : ScopeTable(i)' = ScopeTable(i)
    BY <1>3 DEF ScopeTable
  <1>5. \A i \in {Len(frames) + 1} : ScopeTable(i)' = allocated + 1
    BY <1>3 DEF ScopeTable
  <1>6. OpenTables' = OpenTables \cup {allocated + 1}
    <2>1. 0..(Len(frames) + 1) = (0..Len(frames)) \cup {Len(frames) + 1}
      BY <1>3
    <2>2. OpenTables' = {ScopeTable(i)' : i \in 0..(Len(frames) + 1)}
      BY <1>3 DEF OpenTables
    <2>3. QED
      BY <2>1, <2>2, <1>4, <1>5, Zenon DEF OpenTables
  <1>7. QED
    BY <1>1, <1>3, <1>4, <1>5, <1>6

\* The open scopes after a pop are those before it without the innermost.
LEMMA ScopesAfterPop ==
    ASSUME Inv, PopScope
    PROVE  /\ Len(frames) \in Nat \ {0}
           /\ Len(frames') = Len(frames) - 1
           /\ \A i \in 0..(Len(frames) - 1) : ScopeTable(i)' = ScopeTable(i)
           /\ OpenTables' = OpenTables \ {current}
  <1>1. frames \in Seq(Frame) /\ frames # <<>> /\ frames' = Front(frames)
    BY DEF Inv, TypeOK, PopScope
  <1>2. Len(frames) \in Nat \ {0}
    BY <1>1
  <1>3. /\ Len(frames') = Len(frames) - 1
        /\ \A i \in 1..(Len(frames) - 1) : frames'[i] = frames[i]
    BY <1>1, FrontType
  <1>4. \A i \in 0..(Len(frames) - 1) : ScopeTable(i)' = ScopeTable(i)
    BY <1>2, <1>3 DEF ScopeTable
  <1>5. OpenTables' = {ScopeTable(i) : i \in 0..(Len(frames) - 1)}
    <2>1. OpenTables' = {ScopeTable(i)' : i \in 0..(Len(frames) - 1)}
      BY <1>3 DEF OpenTables
    <2>2. QED
      BY <2>1, <1>4, Zenon
  <1>6. 0..Len(frames) = (0..(Len(frames) - 1)) \cup {Len(frames)}
    BY <1>2
  <1>7. \A i \in 0..(Len(frames) - 1) : ScopeTable(i) # current
    <2>1. \A i \in 0..(Len(frames) - 1) : i \in 0..Len(frames) /\ i < Len(frames)
      BY <1>2
    <2>2. \A i \in 0..(Len(frames) - 1) : ScopeTable(i) < ScopeTable(Len(frames))
      BY <2>1, <1>2 DEF Inv, ScopesNested
    <2>3. QED
      BY <2>1, <2>2, OpenTableType DEF Inv, ScopeDiscipline, TypeOK, Table
  <1>8. current = ScopeTable(Len(frames))
    BY DEF Inv, ScopeDiscipline
  <1>9. QED
    BY <1>2, <1>3, <1>4, <1>5, <1>6, <1>7, <1>8, Zenon DEF OpenTables

\* What a scope starts with, nothing or one parameter, is a symbol map.
LEMMA EntryMapType == Scopes!EntryMap \subseteq SymbolMap
  BY DEF Scopes!EntryMap, SymbolMap

\* A new table on top of the current scope keeps the scopes in order.
LEMMA PushKeepsInv ==
    ASSUME Inv, TypeOK', NEW isCall \in BOOLEAN, NEW stmt \in Stmt, NEW bindings \in SymbolMap,
           PushScope(isCall, stmt, bindings)
    PROVE  Inv'
  <1> DEFINE n == Len(frames)
             new == allocated + 1
  <1>1. n \in Nat /\ allocated \in Nat /\ current \in Table /\ current <= allocated
    BY EvalAssumption DEF Inv, TypeOK, ScopesNested, Table
  <1>2. /\ new \in Table /\ Len(frames') = n + 1
        /\ \A i \in 0..n : ScopeTable(i)' = ScopeTable(i)
        /\ \A i \in {n + 1} : ScopeTable(i)' = new
        /\ OpenTables' = OpenTables \cup {new}
    BY ScopesAfterPush
  <1>3. /\ current' = new /\ allocated' = new
        /\ parent' = [parent EXCEPT ![new] = current]
        /\ frames' = Append(frames, [table |-> new, isCall |-> isCall, stmt |-> stmt])
    BY DEF PushScope, NewTable, ParentOfNew
  <1>4. parent'[new] = current /\ \A t \in Table \ {new} : parent'[t] = parent[t]
    BY <1>2, <1>3 DEF Inv, TypeOK
  <1>5. \A i \in 0..n : ScopeTable(i) \in Table /\ ScopeTable(i) < new
    BY <1>1, OpenTableType
  <1>6. current = ScopeTable(n)
    BY DEF Inv, ScopeDiscipline
  <1>7. ParentsOlder'
    BY <1>1, <1>2, <1>3, <1>4 DEF Inv, ParentsOlder, Table
  <1>8. ScopeDiscipline'
    <2>1. current' = ScopeTable(Len(frames))'
      <3>1. \A i \in {n + 1} : i = Len(frames') => ScopeTable(i)' = new
        BY <1>2
      <3>2. ScopeTable(Len(frames))' = IF Len(frames') = 0 THEN Global ELSE frames'[Len(frames')].table
        BY DEF ScopeTable
      <3>3. \A i \in {n + 1} : ScopeTable(i)' = IF i = 0 THEN Global ELSE frames'[i].table
        BY DEF ScopeTable
      <3>4. QED
        BY <1>2, <1>3, <3>2, <3>3
    <2>2. parent'[Global] = NoTable
      BY <1>1, <1>4, EvalAssumption DEF Inv, ScopeDiscipline, Global, Table
    <2>3. ASSUME NEW i \in 1..(n + 1)
          PROVE  parent'[frames'[i].table] = ScopeTable(i - 1)'
      <3>1. CASE i = n + 1
        <4>1. frames'[i].table = new
          BY <1>1, <1>2, <3>1 DEF ScopeTable
        <4>2. ScopeTable(i - 1)' = ScopeTable(n)
          BY <1>1, <1>2, <3>1
        <4>3. QED
          BY <4>1, <4>2, <1>4, <1>6
      <3>2. CASE i # n + 1
        <4>1. i \in 1..n /\ i \in 0..n /\ i - 1 \in 0..n /\ i # 0
          BY <1>1, <3>2
        <4>2. frames'[i].table = frames[i].table /\ frames[i].table = ScopeTable(i)
          BY <1>2, <4>1 DEF ScopeTable
        <4>3. parent[frames[i].table] = ScopeTable(i - 1)
          BY <4>1 DEF Inv, ScopeDiscipline
        <4>4. ScopeTable(i) \in Table \ {new}
          BY <1>1, <1>5, <4>1
        <4>5. QED
          BY <1>2, <1>4, <4>1, <4>2, <4>3, <4>4
      <3>3. QED
        BY <3>1, <3>2
    <2>4. QED
      BY <1>2, <2>1, <2>2, <2>3 DEF ScopeDiscipline
  <1>9. ScopesNested'
    <2>1. ASSUME NEW i \in 0..(n + 1), NEW j \in 0..(n + 1), i < j
          PROVE  ScopeTable(i)' < ScopeTable(j)'
      <3>1. i \in 0..n
        BY <1>1, <2>1
      <3>2. CASE j = n + 1
        BY <1>2, <1>5, <3>1, <3>2
      <3>3. CASE j # n + 1
        <4>1. j \in 0..n
          BY <1>1, <3>3
        <4>2. ScopeTable(i) < ScopeTable(j)
          BY <2>1, <3>1, <4>1 DEF Inv, ScopesNested
        <4>3. QED
          BY <1>2, <3>1, <4>1, <4>2
      <3>4. QED
        BY <3>2, <3>3
    <2>2. Chain(current)' = OpenTables'
      <3>1. Chain(current)' = {new} \cup Chain(parent[current])'
        <4>1. current # NoTable
          BY EvalAssumption DEF Inv, TypeOK, Table, NoTable
        <4>2. QED
          BY <1>2, <1>3, <1>4, <1>7, <4>1, ChainStepNext DEF ChainSteps
      <3>2. Chain(parent[current])' = Chain(current)
        <4>1. \A r \in 1..current : parent'[r] = parent[r]
          BY <1>1, <1>4, EvalAssumption DEF Table
        <4>2. Chain(parent[current])' = {s \in 1..current : \A S \in SUBSET (1..current) :
                 (current \in S /\ \A r \in S : parent'[r] # NoTable => parent'[r] \in S) => s \in S}
          BY <1>3, <1>4 DEF Chain
        <4>3. QED
          BY <4>1, <4>2 DEF Chain
      <3>3. QED
        BY <1>2, <3>1, <3>2 DEF Inv, ScopesNested
    <2>3. QED
      BY <1>2, <1>3, <2>1, <2>2, OpenTableType DEF ScopesNested
  <1>10. QED
    BY <1>7, <1>8, <1>9 DEF Inv

\* Going back to the parent of the innermost table keeps the scopes in order.
LEMMA PopKeepsInv ==
    ASSUME Inv, TypeOK', PopScope
    PROVE  Inv'
  <1> DEFINE n == Len(frames)
  <1>1. n \in Nat \ {0} /\ allocated \in Nat /\ current \in Table /\ current <= allocated
    BY ScopesAfterPop, EvalAssumption DEF Inv, TypeOK, ScopesNested, Table
  <1>2. /\ Len(frames') = n - 1
        /\ \A i \in 0..(n - 1) : ScopeTable(i)' = ScopeTable(i)
        /\ OpenTables' = OpenTables \ {current}
    BY ScopesAfterPop
  <1>3. /\ current' = parent[current] /\ allocated' = allocated /\ parent' = parent
        /\ parent[current] # NoTable
    BY DEF PopScope, ScopeAfterPop
  <1>4. current = ScopeTable(n) /\ parent[current] = ScopeTable(n - 1)
    <2>1. current = ScopeTable(n)
      BY DEF Inv, ScopeDiscipline
    <2>2. n \in 1..n /\ ScopeTable(n) = frames[n].table
      BY <1>1 DEF ScopeTable
    <2>3. QED
      BY <2>1, <2>2 DEF Inv, ScopeDiscipline
  <1>5. parent[current] \in Table /\ parent[current] < current
    BY <1>1, <1>3, EvalAssumption DEF Inv, TypeOK, ParentsOlder, NoTable
  <1>6. ParentsOlder'
    BY <1>3 DEF Inv, ParentsOlder
  <1>7. ScopeDiscipline'
    <2>1. current' = ScopeTable(Len(frames))'
      <3>1. ScopeTable(Len(frames))' =
              IF Len(frames') = 0 THEN Global ELSE frames'[Len(frames')].table
        BY DEF ScopeTable
      <3>2. \A i \in 0..(n - 1) : ScopeTable(i)' = IF i = 0 THEN Global ELSE frames'[i].table
        BY DEF ScopeTable
      <3>3. n - 1 \in 0..(n - 1)
        BY <1>1
      <3>4. QED
        BY <1>2, <1>3, <1>4, <3>1, <3>2, <3>3
    <2>2. parent'[Global] = NoTable
      BY <1>3 DEF Inv, ScopeDiscipline
    <2>3. ASSUME NEW i \in 1..(n - 1)
          PROVE  parent'[frames'[i].table] = ScopeTable(i - 1)'
      <3>1. i \in 1..n /\ i \in 0..(n - 1) /\ i - 1 \in 0..(n - 1) /\ i # 0
        BY <1>1
      <3>2. frames'[i].table = frames[i].table
        BY <1>2, <3>1 DEF ScopeTable
      <3>3. parent[frames[i].table] = ScopeTable(i - 1)
        BY <3>1 DEF Inv, ScopeDiscipline
      <3>4. QED
        BY <1>2, <1>3, <3>1, <3>2, <3>3
    <2>4. QED
      BY <1>2, <2>1, <2>2, <2>3 DEF ScopeDiscipline
  <1>8. ScopesNested'
    <2>1. ASSUME NEW i \in 0..(n - 1), NEW j \in 0..(n - 1), i < j
          PROVE  ScopeTable(i)' < ScopeTable(j)'
      <3>1. i \in 0..n /\ j \in 0..n
        BY <1>1
      <3>2. QED
        BY <1>2, <2>1, <3>1 DEF Inv, ScopesNested
    <2>2. current' <= allocated'
      BY <1>1, <1>3, <1>5 DEF Table
    <2>3. Chain(current)' = OpenTables'
      <3>1. Chain(current)' = Chain(parent[current])
        BY <1>3 DEF Chain
      <3>2. Chain(current) = {current} \cup Chain(parent[current])
        BY <1>1, <1>3, ChainStep DEF Inv
      <3>3. current \notin Chain(parent[current])
        BY <1>1, <1>5, ChainClosed DEF Inv, Table
      <3>4. QED
        BY <1>2, <3>1, <3>2, <3>3 DEF Inv, ScopesNested
    <2>4. QED
      BY <1>2, <2>1, <2>2, <2>3 DEF ScopesNested
  <1>9. QED
    BY <1>6, <1>7, <1>8 DEF Inv

\* A step that leaves tables, parents and guards alone keeps the scopes in order.
LEMMA ScopesStay ==
    ASSUME Inv, TypeOK', UNCHANGED <<allocated, parent, current, frames>>
    PROVE  Inv'
  BY DEF Inv, ScopeDiscipline, ScopesNested, ParentsOlder, ScopeTable, OpenTables, Chain

\* At the start the only open scope is the global table.
LEMMA InvInit == Init => Inv
  <1> SUFFICES ASSUME Init PROVE Inv
    OBVIOUS
  <1>1. TypeOK
    BY TypeInit
  <1>2. Len(frames) = 0 /\ current = Global /\ Global \in Table
    BY EvalAssumption DEF Init, Global, Table
  <1>3. \A t \in Table : parent[t] = NoTable
    BY DEF Init
  <1>4. ScopeDiscipline /\ ParentsOlder
    BY <1>2, <1>3, EvalAssumption
       DEF ScopeDiscipline, ParentsOlder, ScopeTable, NoTable, Table
  <1>5. ScopesNested
    <2>1. OpenTables = {Global}
      BY <1>2 DEF OpenTables, ScopeTable
    <2>2. Chain(Global) = {Global}
      BY <1>1, <1>2, <1>4, ChainClosed DEF Global
    <2>3. QED
      BY <1>2, <2>1, <2>2 DEF ScopesNested, Init, Global
  <1>6. QED
    BY <1>1, <1>4, <1>5 DEF Inv

\* The three scope invariants, with the types, are inductive.
LEMMA InvStep == Inv /\ [Next]_vars => Inv'
  <1> SUFFICES ASSUME Inv, [Next]_vars PROVE Inv'
    OBVIOUS
  <1>1. TypeOK /\ TypeOK'
    BY TypeStep DEF Inv
  <1>2. ASSUME NEW isCall \in BOOLEAN, NEW stmt \in Stmt, NEW m \in Scopes!EntryMap,
               PushScope(isCall, stmt, m)
        PROVE  Inv'
    BY <1>1, <1>2, EntryMapType, PushKeepsInv
  <1>3. CASE PopScope
    BY <1>1, <1>3, PopKeepsInv
  <1>4. CASE UNCHANGED <<allocated, parent, current, frames>>
    BY <1>1, <1>4, ScopesStay
  <1>5. QED
    BY <1>1, <1>2, <1>3, <1>4, ScopeSteps

\* At every moment the scope pointer, the parent links of the tables and the
\* guards on the C++ stack agree, whatever blocks, calls and exceptions came before.
THEOREM ScopesDisciplined == Spec => []ScopeDiscipline
  <1>1. Inv => ScopeDiscipline
    BY DEF Inv
  <1>2. QED
    BY <1>1, InvInit, InvStep, PTL DEF Spec

\* Symbols are looked for in the open scopes, in all of them and nowhere else.
THEOREM ScopesAreNested == Spec => []ScopesNested
  <1>1. Inv => ScopesNested
    BY DEF Inv
  <1>2. QED
    BY <1>1, InvInit, InvStep, PTL DEF Spec

\* The walk up the parents always ends.
THEOREM ParentsAreOlder == Spec => []ParentsOlder
  <1>1. Inv => ParentsOlder
    BY DEF Inv
  <1>2. QED
    BY <1>1, InvInit, InvStep, PTL DEF Spec

\* Scope pointer, parent links and scope guards always describe the same nested
\* scopes, on every path out of a block or a call.
THEOREM ScopesAlwaysAgree == Spec => []ScopesAgree
  <1>1. ScopeDiscipline /\ ScopesNested /\ ParentsOlder => ScopesAgree
    BY DEF ScopesAgree
  <1>2. QED
    BY <1>1, ScopesDisciplined, ScopesAreNested, ParentsAreOlder, PTL

(* What leaves a scope stays as it is ----------------------------------- *)

\* A table whose scope has been closed never changes again, so the references
\* that left the block keep their meaning unless it lies in an open scope.
THEOREM ClosedScopesStayFrozen == Spec => ClosedScopesFrozen
  <1> DEFINE Frozen == \A t \in 1..allocated : t \notin OpenTables => map'[t] = map[t]
  <1>1. Inv /\ [Next]_vars => Frozen
    <2> SUFFICES ASSUME Inv, [Next]_vars, NEW t \in 1..allocated, t \notin OpenTables
                 PROVE  map'[t] = map[t]
      OBVIOUS
    <2>1. TypeOK /\ t \in Table
      BY OpenTableType DEF Inv
    <2>2. Chain(current) = OpenTables /\ current \in OpenTables
      BY <2>1, ChainClosed DEF Inv, ScopesNested, TypeOK
    <2>3. ASSUME NEW isCall \in BOOLEAN, NEW stmt \in Stmt, NEW m \in Scopes!EntryMap,
                 PushScope(isCall, stmt, m)
          PROVE  map'[t] = map[t]
      <3>1. t # allocated + 1
        BY <2>1, EvalAssumption DEF TypeOK, Table
      <3>2. QED
        BY <2>1, <2>3, <3>1 DEF PushScope, NewTable, TypeOK
    <2>4. CASE PopScope
      BY <2>4 DEF PopScope, MapAfterPop
    <2>5. ASSUME NEW x \in Symbol, NEW v \in Value, DefineSymbol(x, v) PROVE map'[t] = map[t]
      BY <2>1, <2>2, <2>5 DEF DefineSymbol, TypeOK
    <2>6. ASSUME NEW x \in Symbol, NEW v \in Value, NEW s \in Table, AssignSymbol(x, v, s)
          PROVE  map'[t] = map[t]
      BY <2>1, <2>2, <2>6 DEF AssignSymbol, ResolvesIn, TypeOK
    <2>7. QED
      BY <2>1, <2>3, <2>4, <2>5, <2>6, ScopeSteps
  <1>2. QED
    BY <1>1, InvInit, InvStep, PTL DEF Spec, ClosedScopesFrozen

\* A symbol that can be resolved at a table can be resolved there for ever.
THEOREM ResolutionPersists == Spec => ResolvedForEver
  <1> DEFINE Persists == \A t \in 1..allocated, x \in Symbol :
                            SymbolIsDefined(t, x) => SymbolIsDefined(t, x)'
  <1>1. Inv /\ [Next]_vars => Persists
    <2> SUFFICES ASSUME Inv, [Next]_vars, NEW t \in 1..allocated, NEW x \in Symbol,
                        NEW s \in Chain(t), Holds(s, x)
                 PROVE  SymbolIsDefined(t, x)'
      BY DEF SymbolIsDefined
    <2>1. TypeOK /\ t \in Table /\ s \in 1..t /\ s \in Table /\ allocated \in Nat
      BY OpenTableType, ChainClosed, EvalAssumption DEF Inv, Table, TypeOK
    <2>2. s \in Chain(t)' /\ Holds(s, x)' => SymbolIsDefined(t, x)'
      BY DEF SymbolIsDefined
    <2>3. ASSUME NEW isCall \in BOOLEAN, NEW stmt \in Stmt, NEW m \in Scopes!EntryMap,
                 PushScope(isCall, stmt, m)
          PROVE  Chain(t)' = Chain(t) /\ Holds(s, x)'
      <3>1. allocated + 1 \notin 1..t
        BY <2>1
      <3>2. \A r \in 1..t : parent'[r] = parent[r]
        BY <2>1, <2>3, <3>1, EvalAssumption DEF PushScope, NewTable, TypeOK, Table
      <3>3. map'[s] = map[s]
        BY <2>1, <2>3, <3>1 DEF PushScope, NewTable, TypeOK
      <3>4. QED
        BY <2>1, <3>2, <3>3, ChainStable DEF Holds
    <2>4. ASSUME PopScope PROVE Chain(t)' = Chain(t) /\ Holds(s, x)'
      BY <2>4 DEF PopScope, MapAfterPop, Chain, Holds
    <2>5. ASSUME UNCHANGED parent PROVE Chain(t)' = Chain(t)
      BY <2>5 DEF Chain
    <2>6. ASSUME NEW y \in Symbol, NEW v \in Value, NEW r \in Table,
                 map' = [map EXCEPT ![r][y] = v]
          PROVE  Holds(s, x)'
      <3>1. map'[s][x] \in {map[s][x], v}
        BY <2>1, <2>6 DEF TypeOK, SymbolMap
      <3>2. QED
        BY <3>1, EvalAssumption DEF Holds
    <2>7. ASSUME UNCHANGED map PROVE Holds(s, x)'
      BY <2>7 DEF Holds
    <2>8. QED
      BY <2>1, <2>2, <2>3, <2>4, <2>5, <2>6, <2>7, ScopeSteps
         DEF DefineSymbol, AssignSymbol, TypeOK
  <1>2. QED
    BY <1>1, InvInit, InvStep, PTL DEF Spec, ResolvedForEver

(* The tables on the heap implement a stack of maps ---------------------- *)

\* The maps of the open scopes, outermost first, are a sequence of symbol maps.
LEMMA ScopeMapsType ==
    ASSUME Inv
    PROVE  /\ Len(frames) \in Nat
           /\ ScopeMaps \in Seq(SymbolMap)
           /\ Len(ScopeMaps) = Len(frames) + 1
           /\ \A i \in 1..(Len(frames) + 1) : ScopeMaps[i] = map[ScopeTable(i - 1)]
           /\ ScopeMaps[Len(frames) + 1] = map[current]
  <1>1. Len(frames) \in Nat /\ map \in [Table -> SymbolMap]
    BY DEF Inv, TypeOK
  <1>2. \A i \in 1..(Len(frames) + 1) : map[ScopeTable(i - 1)] \in SymbolMap
    <2>1. \A i \in 1..(Len(frames) + 1) : i - 1 \in 0..Len(frames)
      BY <1>1
    <2>2. \A i \in 1..(Len(frames) + 1) : ScopeTable(i - 1) \in Table
      BY <2>1, OpenTableType
    <2>3. QED
      BY <1>1, <2>2
  <1>3. ScopeMaps \in Seq(SymbolMap) /\ Len(ScopeMaps) = Len(frames) + 1
    <2>1. ScopeMaps \in [1..(Len(frames) + 1) -> SymbolMap]
      BY <1>2 DEF ScopeMaps
    <2>2. QED
      BY <1>1, <2>1
  <1>4. Len(frames) + 1 \in 1..(Len(frames) + 1) /\ (Len(frames) + 1) - 1 = Len(frames)
    BY <1>1
  <1>5. QED
    BY <1>1, <1>3, <1>4 DEF ScopeMaps, Inv, ScopeDiscipline

ScopeMapsTyped == Inv => ScopeMaps \in Seq(SymbolMap) /\ Len(ScopeMaps) = Len(frames) + 1

\* The same after a step.
LEMMA ScopeMapsTypeNext == ScopeMapsTyped'
  <1>1. ScopeMapsTyped
    BY ScopeMapsType DEF ScopeMapsTyped
  <1>2. QED
    BY <1>1, PTL

\* A push enters a scope of the abstract stack.
LEMMA PushEnters ==
    ASSUME Inv, Inv', NEW isCall \in BOOLEAN, NEW stmt \in Stmt, NEW bindings \in SymbolMap,
           PushScope(isCall, stmt, bindings)
    PROVE  Scopes!Enter(bindings)
  <1> DEFINE n == Len(frames)
  <1>1. /\ n \in Nat /\ ScopeMaps \in Seq(SymbolMap) /\ Len(ScopeMaps) = n + 1
        /\ \A i \in 1..(n + 1) : ScopeMaps[i] = map[ScopeTable(i - 1)]
    BY ScopeMapsType
  <1>2. /\ Len(frames') = n + 1 /\ allocated + 1 \in Table
        /\ \A i \in 0..n : ScopeTable(i)' = ScopeTable(i)
        /\ \A i \in {n + 1} : ScopeTable(i)' = allocated + 1
    BY ScopesAfterPush
  <1>3. ScopeMaps' = [i \in 1..(n + 2) |-> map'[ScopeTable(i - 1)']]
    BY <1>1, <1>2 DEF ScopeMaps
  <1>4. map' = [map EXCEPT ![allocated + 1] = bindings] /\ map \in [Table -> SymbolMap]
    BY DEF PushScope, NewTable, Inv, TypeOK
  <1>5. \A i \in 0..n : ScopeTable(i) \in Table /\ ScopeTable(i) # allocated + 1
    BY OpenTableType, EvalAssumption DEF Inv, TypeOK, Table
  <1>6. \A i \in 1..(n + 1) : ScopeMaps'[i] = ScopeMaps[i]
    <2> SUFFICES ASSUME NEW i \in 1..(n + 1) PROVE ScopeMaps'[i] = ScopeMaps[i]
      OBVIOUS
    <2>1. i - 1 \in 0..n /\ i \in 1..(n + 2)
      BY <1>1
    <2>2. ScopeMaps'[i] = map'[ScopeTable(i - 1)]
      BY <1>2, <1>3, <2>1
    <2>3. QED
      BY <1>1, <1>4, <1>5, <2>1, <2>2
  <1>7. ScopeMaps'[n + 2] = bindings
    <2>1. n + 2 \in 1..(n + 2) /\ (n + 2) - 1 = n + 1
      BY <1>1
    <2>2. \A i \in {n + 2} : ScopeMaps'[i] = map'[ScopeTable(i - 1)']
      BY <1>3, <2>1
    <2>3. \A i \in {n + 2} : ScopeTable(i - 1)' = allocated + 1
      BY <1>2, <2>1
    <2>4. QED
      BY <1>2, <1>4, <2>2, <2>3
  <1>8. ScopeMaps' = Append(ScopeMaps, bindings)
    <2>1. /\ Append(ScopeMaps, bindings) \in Seq(SymbolMap)
          /\ Len(Append(ScopeMaps, bindings)) = n + 2
          /\ \A i \in 1..(n + 1) : Append(ScopeMaps, bindings)[i] = ScopeMaps[i]
          /\ Append(ScopeMaps, bindings)[n + 2] = bindings
      BY <1>1, AppendProperties
    <2>2. ScopeMaps' \in Seq(SymbolMap) /\ Len(ScopeMaps') = n + 2
      BY <1>1, <1>2, ScopeMapsTypeNext DEF ScopeMapsTyped
    <2>3. 1..(n + 2) = 1..(n + 1) \cup {n + 2}
      BY <1>1
    <2>4. \A i \in 1..(n + 2) : ScopeMaps'[i] = Append(ScopeMaps, bindings)[i]
      BY <2>1, <2>3, <1>6, <1>7
    <2>5. QED
      BY <2>1, <2>2, <2>4, SeqEqual
  <1>9. QED
    BY <1>8 DEF Scopes!Enter

\* A pop leaves the innermost scope of the abstract stack.
LEMMA PopLeaves ==
    ASSUME Inv, Inv', PopScope
    PROVE  Scopes!Leave
  <1> DEFINE n == Len(frames)
  <1>1. /\ n \in Nat \ {0} /\ ScopeMaps \in Seq(SymbolMap) /\ Len(ScopeMaps) = n + 1
        /\ \A i \in 1..(n + 1) : ScopeMaps[i] = map[ScopeTable(i - 1)]
    BY ScopeMapsType, ScopesAfterPop
  <1>2. Len(frames') = n - 1 /\ \A i \in 0..(n - 1) : ScopeTable(i)' = ScopeTable(i)
    BY ScopesAfterPop
  <1>3. ScopeMaps' = [i \in 1..n |-> map[ScopeTable(i - 1)']]
    BY <1>1, <1>2 DEF ScopeMaps, PopScope, MapAfterPop
  <1>4. \A i \in 1..n : ScopeMaps'[i] = ScopeMaps[i]
    <2> SUFFICES ASSUME NEW i \in 1..n PROVE ScopeMaps'[i] = ScopeMaps[i]
      OBVIOUS
    <2>1. i - 1 \in 0..(n - 1) /\ i \in 1..(n + 1)
      BY <1>1
    <2>2. QED
      BY <1>1, <1>2, <1>3, <2>1
  <1>5. ScopeMaps # <<>>
    BY <1>1
  <1>6. /\ Front(ScopeMaps) \in Seq(SymbolMap) /\ Len(Front(ScopeMaps)) = n
        /\ \A i \in 1..n : Front(ScopeMaps)[i] = ScopeMaps[i]
    <2>1. /\ Front(ScopeMaps) \in Seq(SymbolMap)
          /\ Len(Front(ScopeMaps)) = Len(ScopeMaps) - 1
          /\ \A i \in 1..(Len(ScopeMaps) - 1) : Front(ScopeMaps)[i] = ScopeMaps[i]
      BY <1>1, <1>5, FrontType
    <2>2. Len(ScopeMaps) - 1 = n
      BY <1>1
    <2>3. QED
      BY <2>1, <2>2
  <1>7. ScopeMaps' = Front(ScopeMaps)
    <2>1. ScopeMaps' \in Seq(SymbolMap) /\ Len(ScopeMaps') = n
      BY <1>1, <1>2, ScopeMapsTypeNext DEF ScopeMapsTyped
    <2>2. QED
      BY <2>1, <1>4, <1>6, SeqEqual
  <1>8. QED
    BY <1>1, <1>7 DEF Scopes!Leave, Scopes!Front, Front

\* Changing one binding of one open table changes one entry of the stack.
LEMMA BindingChanged ==
    ASSUME Inv, Inv', NEW x \in Symbol, NEW v \in Value, NEW k \in 0..Len(frames),
           UNCHANGED <<allocated, parent, current, frames>>,
           \A r \in Table : map'[r] = IF r = ScopeTable(k) THEN [map[r] EXCEPT ![x] = v]
                                                           ELSE map[r]
    PROVE  ScopeMaps' = [ScopeMaps EXCEPT ![k + 1][x] = v]
  <1> DEFINE n == Len(frames)
             w == [ScopeMaps EXCEPT ![k + 1][x] = v]
  <1>1. /\ n \in Nat /\ ScopeMaps \in Seq(SymbolMap) /\ Len(ScopeMaps) = n + 1
        /\ \A i \in 1..(n + 1) : ScopeMaps[i] = map[ScopeTable(i - 1)]
    BY ScopeMapsType
  <1>2. ScopeMaps' \in Seq(SymbolMap) /\ Len(ScopeMaps') = n + 1
    BY ScopeMapsTypeNext DEF ScopeMapsTyped
  <1>3. k + 1 \in 1..(n + 1)
    BY <1>1
  <1>4. [ScopeMaps[k + 1] EXCEPT ![x] = v] \in SymbolMap
    <2>1. ScopeMaps[k + 1] \in SymbolMap
      BY <1>1, <1>3
    <2>2. QED
      BY <2>1 DEF SymbolMap
  <1>5. /\ w \in Seq(SymbolMap) /\ Len(w) = n + 1
        /\ \A i \in 1..(n + 1) : w[i] = IF i = k + 1 THEN [ScopeMaps[k + 1] EXCEPT ![x] = v]
                                                     ELSE ScopeMaps[i]
    BY <1>1, <1>3, <1>4, ExceptSeq
  <1> HIDE DEF w
  <1>6. ASSUME NEW i \in 1..(n + 1)
        PROVE  ScopeMaps'[i] = w[i]
    <2>1. i - 1 \in 0..n /\ (i - 1 = k <=> i = k + 1)
      BY <1>1
    <2>2. ScopeTable(i - 1)' = ScopeTable(i - 1) /\ ScopeTable(i - 1) \in Table
      BY <2>1, OpenTableType DEF ScopeTable
    <2>3. ScopeMaps'[i] = map'[ScopeTable(i - 1)]
      BY <2>2 DEF ScopeMaps
    <2>4. ScopeTable(i - 1) = ScopeTable(k) <=> i - 1 = k
      <3>1. \A p, q \in 0..n : p < q => ScopeTable(p) < ScopeTable(q)
        BY DEF Inv, ScopesNested
      <3>2. \A p \in 0..n : ScopeTable(p) \in Nat
        BY OpenTableType, EvalAssumption DEF Table
      <3>3. i - 1 < k \/ i - 1 = k \/ k < i - 1
        BY <1>1, <2>1
      <3>4. QED
        BY <2>1, <3>1, <3>2, <3>3
    <2>5. CASE i = k + 1
      <3>1. ScopeMaps'[i] = [map[ScopeTable(k)] EXCEPT ![x] = v]
        BY <2>1, <2>2, <2>3, <2>5
      <3>2. ScopeMaps[k + 1] = map[ScopeTable(k)]
        BY <1>1, <2>1, <2>5
      <3>3. QED
        BY <1>5, <2>5, <3>1, <3>2
    <2>6. CASE i # k + 1
      <3>1. ScopeMaps'[i] = map[ScopeTable(i - 1)]
        BY <2>1, <2>2, <2>3, <2>4, <2>6
      <3>2. QED
        BY <1>1, <1>5, <2>6, <3>1
    <2>7. QED
      BY <2>5, <2>6
  <1>7. ScopeMaps' = w
    BY <1>2, <1>5, <1>6, SeqEqual
  <1>8. QED
    BY <1>7 DEF w

\* A definition in the current table defines in the top map of the stack.
LEMMA DefineDefines ==
    ASSUME Inv, Inv', NEW x \in Symbol, NEW v \in Value, DefineSymbol(x, v),
           UNCHANGED <<allocated, parent, current, frames>>
    PROVE  Scopes!Define(x, v)
  <1> DEFINE n == Len(frames)
  <1>1. /\ n \in Nat /\ ScopeMaps \in Seq(SymbolMap) /\ Len(ScopeMaps) = n + 1
        /\ \A i \in 1..(n + 1) : ScopeMaps[i] = map[ScopeTable(i - 1)]
        /\ ScopeMaps[n + 1] = map[current]
    BY ScopeMapsType
  <1>2. Last(ScopeMaps)[x] = Undefined
    BY <1>1 DEF Last, DefineSymbol, Holds
  <1>3. current = ScopeTable(n) /\ n \in 0..n
    BY <1>1 DEF Inv, ScopeDiscipline
  <1>4. \A s \in Table : map'[s] = IF s = ScopeTable(n) THEN [map[s] EXCEPT ![x] = v] ELSE map[s]
    BY <1>3 DEF DefineSymbol, Inv, TypeOK
  <1>5. ScopeMaps' = [ScopeMaps EXCEPT ![n + 1][x] = v]
    BY <1>3, <1>4, BindingChanged
  <1>6. QED
    BY <1>1, <1>2, <1>5 DEF Scopes!Define, Scopes!Last, Last

\* An assignment to the nearest binding of the tables assigns to the nearest one of the stack.
LEMMA AssignAssigns ==
    ASSUME Inv, Inv', NEW x \in Symbol, NEW v \in Value, NEW s \in Table, AssignSymbol(x, v, s),
           UNCHANGED <<allocated, parent, current, frames>>
    PROVE  Scopes!Assign(x, v)
  <1> DEFINE n == Len(frames)
  <1>1. /\ n \in Nat /\ ScopeMaps \in Seq(SymbolMap) /\ Len(ScopeMaps) = n + 1
        /\ \A i \in 1..(n + 1) : ScopeMaps[i] = map[ScopeTable(i - 1)]
    BY ScopeMapsType
  <1>2. /\ s \in OpenTables /\ Holds(s, x)
        /\ \A r \in OpenTables : Holds(r, x) => r <= s
    BY DEF AssignSymbol, ResolvesIn, Inv, ScopesNested
  <1>3. PICK k \in 0..n : s = ScopeTable(k)
    BY <1>2 DEF OpenTables
  <1>4. ScopeMaps' = [ScopeMaps EXCEPT ![k + 1][x] = v]
    <2>1. \A r \in Table :
              map'[r] = IF r = ScopeTable(k) THEN [map[r] EXCEPT ![x] = v] ELSE map[r]
      BY <1>3 DEF AssignSymbol, Inv, TypeOK
    <2>2. k \in 0..Len(frames)
      OBVIOUS
    <2> HIDE DEF n
    <2>3. QED
      BY ZenonT(60), <2>1, <2>2, BindingChanged
  <1>5. k + 1 \in 1..(n + 1) /\ ScopeMaps[k + 1][x] # Undefined
    <2>1. k + 1 \in 1..(n + 1) /\ (k + 1) - 1 = k
      BY <1>1
    <2>2. QED
      BY <1>1, <1>2, <1>3, <2>1 DEF Holds
  <1>6. ASSUME NEW j \in 1..(n + 1), ScopeMaps[j][x] # Undefined
        PROVE  j <= k + 1
    <2>1. j - 1 \in 0..n
      BY <1>1
    <2>2. ScopeTable(j - 1) \in OpenTables /\ Holds(ScopeTable(j - 1), x)
      BY <1>1, <1>6, <2>1 DEF OpenTables, Holds
    <2>3. ScopeTable(j - 1) <= ScopeTable(k)
      BY <1>2, <1>3, <2>2
    <2>4. ~(k < j - 1)
      <3>1. ScopeTable(k) \in Nat /\ ScopeTable(j - 1) \in Nat
        BY <2>1, OpenTableType, EvalAssumption DEF Table
      <3>2. k < j - 1 => ScopeTable(k) < ScopeTable(j - 1)
        BY <2>1 DEF Inv, ScopesNested
      <3>3. QED
        BY <2>3, <3>1, <3>2
    <2>5. QED
      BY <1>1, <2>1, <2>4
  <1>7. QED
    BY <1>1, <1>4, <1>5, <1>6 DEF Scopes!Assign

\* Every step of the tables is a step of the stack of maps, or a stutter: for a
\* program, blocks and calls are scopes that come and go, whatever references
\* between the tables survive.
THEOREM TablesImplementStack == Spec => RefinesScopeStack
  <1>1. Init => Scopes!Init
    <2> SUFFICES ASSUME Init PROVE ScopeMaps = <<Library>>
      BY DEF Scopes!Init
    <2>1. Len(frames) = 0 /\ ScopeTable(0) = Global /\ Global \in Table
      BY EvalAssumption DEF Init, ScopeTable, Global, Table
    <2>2. ScopeMaps = [i \in 1..1 |-> Library]
      BY <2>1 DEF ScopeMaps, Init
    <2>3. QED
      BY <2>2
  <1>2. Inv /\ Inv' /\ [Next]_vars => [Scopes!Next]_ScopeMaps
    <2> SUFFICES ASSUME Inv, Inv', [Next]_vars PROVE Scopes!Next \/ UNCHANGED ScopeMaps
      OBVIOUS
    <2>1. ASSUME NEW isCall \in BOOLEAN, NEW stmt \in Stmt, NEW m \in Scopes!EntryMap,
                 PushScope(isCall, stmt, m)
          PROVE  Scopes!Next
      BY <2>1, EntryMapType, PushEnters DEF Scopes!Next
    <2>2. ASSUME PopScope PROVE Scopes!Next
      BY <2>2, PopLeaves DEF Scopes!Next
    <2>3. ASSUME UNCHANGED <<allocated, parent, current, frames>>, UNCHANGED map
          PROVE  UNCHANGED ScopeMaps
      BY <2>3 DEF ScopeMaps, ScopeTable
    <2>4. ASSUME UNCHANGED <<allocated, parent, current, frames>>,
                 NEW x \in Symbol, NEW v \in Value, DefineSymbol(x, v)
          PROVE  Scopes!Next
      BY <2>4, DefineDefines DEF Scopes!Next
    <2>5. ASSUME UNCHANGED <<allocated, parent, current, frames>>,
                 NEW x \in Symbol, NEW v \in Value, NEW s \in Table, AssignSymbol(x, v, s)
          PROVE  Scopes!Next
      BY <2>5, AssignAssigns DEF Scopes!Next
    <2>6. QED
      BY <2>1, <2>2, <2>3, <2>4, <2>5, ScopeSteps DEF Inv
  <1>3. QED
    BY <1>1, <1>2, InvInit, InvStep, PTL DEF Spec, RefinesScopeStack, Scopes!Spec

=============================================================================
