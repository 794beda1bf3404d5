----------------------------- MODULE ScopeStack -----------------------------
(***************************************************************************)
(* What the scopes of an evaluator promise: an environment is a stack of   *)
(* symbol maps.  Entering a block or a function adds a map on top, leaving *)
(* it, normally or by an exception, takes exactly that map away; a         *)
(* definition adds to the top map only; an assignment replaces the nearest *)
(* binding and nothing else.                                               *)
(***************************************************************************)
EXTENDS Naturals, Sequences, SequencesExt

CONSTANTS Symbol, Value, Undefined, Library

VARIABLE env        \* env[1] holds the global symbols, the last map the innermost

Init == env = <<Library>>

Enter(m) == env' = Append(env, m)

Leave ==
    /\ Len(env) > 1
    /\ env' = Front(env)

Define(x, v) ==
    /\ Last(env)[x] = Undefined
    /\ env' = [env EXCEPT ![Len(env)][x] = v]

Assign(x, v) ==
    \E i \in 1..Len(env) :
        /\ env[i][x] # Undefined
        /\ \A j \in 1..Len(env) : env[j][x] # Undefined => j <= i
        /\ env' = [env EXCEPT ![i][x] = v]

\* A function enters its scope with its parameter bound, a block with nothing.
EntryMap ==
    LET empty == [x \in Symbol |-> Undefined]
    IN  {empty} \cup {[empty EXCEPT ![x] = v] : x \in Symbol, v \in Value}

Next ==
    \/ \E m \in EntryMap : Enter(m)
    \/ Leave
    \/ \E x \in Symbol, v \in Value : Define(x, v) \/ Assign(x, v)

Spec == Init /\ [][Next]_env

=============================================================================
