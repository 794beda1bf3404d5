----------------------------- MODULE Predicates ----------------------------
(***************************************************************************)
(* What thinky (bin/thinky) says and how it reasons: predicates, the       *)
(* states of belief, De Morgan's laws, patterns, and what it means that a  *)
(* predicate is true.                                                      *)
(*                                                                         *)
(* A predicate is data: a leaf, or a tuple of data such as <<s, verb, o>>, *)
(* <<Not, p>> or <<And, <<p, q>>>>.  A rule is a tuple <<p, Implies, q>>   *)
(* whose free variables stand for anything.  What the program computes     *)
(* from data by recursion is a recursive function on Data.                 *)
(***************************************************************************)
EXTENDS Naturals, Sequences, FiniteSets

CONSTANTS Name,            \* leaves that are not connectives (ThinkyNPTerm)
          Implies, Not, And, Or, Xor,
          FreeVar,         \* free variables
          Data,            \* bound: the leaves, and the tuples of data that are used
          Individual       \* bound: what a free variable may stand for

Connective == {And, Or, Xor}
Leaf       == Name \cup FreeVar \cup Connective \cup {Not, Implies}
IsTuple(p) == p \notin Leaf

\* inhabits_data with the predicate types of ast.cpp
IsImplication(p) == IsTuple(p) /\ Len(p) = 3 /\ p[2] = Implies
IsNot(p)         == IsTuple(p) /\ Len(p) = 2 /\ p[1] = Not
IsBoolBinOp(p)   == IsTuple(p) /\ Len(p) = 2 /\ p[1] \in Connective /\ IsTuple(p[2])
Is(op, p)        == IsBoolBinOp(p) /\ p[1] = op

ASSUME LeavesAssumption ==
    /\ Not \notin {Implies, And, Or, Xor} /\ Implies \notin Connective
    /\ And # Or /\ Xor \notin {And, Or}
    /\ FreeVar \cap (Name \cup Connective \cup {Not, Implies}) = {}
    /\ Name \cap (Connective \cup {Not, Implies}) = {}

-----------------------------------------------------------------------------
(* Belief states (belief.hpp)                                              *)

MutUnknownDenied(t) == IF t = "Deny" THEN "Accept" ELSE IF t = "Unknown" THEN "Accept" ELSE "Deny"
NotState(t) == CASE t = "Deny" -> "Accept" [] t = "Unknown" -> "Unknown" [] t = "Accept" -> "Deny"

AndState(s, t) ==
    IF "Unknown" \in {s, t} THEN "Unknown" ELSE IF {s, t} = {"Accept"} THEN "Accept" ELSE "Deny"
AnyOf(states) ==
    IF "Unknown" \in states THEN "Unknown" ELSE IF "Accept" \in states THEN "Accept" ELSE "Deny"
OrState(s, t) == AnyOf({s, t})

\* The operands of And and Or are evaluated up to the first that breaks away from the
\* identity; those of Xor all, and they are combined with or.
UpToBreak(identity, states) ==
    LET breaks == {k \in DOMAIN states : states[k] # identity}
    IN  IF breaks = {} THEN identity
        ELSE states[CHOOSE k \in breaks : \A l \in breaks : k <= l]

AndOf(states) == UpToBreak("Accept", [k \in DOMAIN states |-> AndState("Accept", states[k])])
OrOf(states)  == UpToBreak("Deny", [k \in DOMAIN states |-> OrState("Deny", states[k])])
XorOf(states) == AnyOf({states[k] : k \in DOMAIN states})

\* evaluate_predicate on what is neither believed nor denied, with what it returns for
\* the parts of p.  The conclusion of an implication is read from its second element,
\* which is Implies.
EvaluateParts(evaluate, p) ==
    LET operands == [k \in DOMAIN p[2] |-> evaluate[p[2][k]]]
    IN  CASE IsImplication(p) -> OrState(NotState(evaluate[p[1]]), evaluate[p[2]])
          [] IsNot(p)         -> NotState(evaluate[p[2]])
          [] Is(And, p)       -> AndOf(operands)
          [] Is(Or, p)        -> OrOf(operands)
          [] Is(Xor, p)       -> XorOf(operands)
          [] OTHER            -> "Unknown"

\* evaluate_predicate: what is believed, or denied, is looked up first.
EvaluateGiven(B, evaluate, p) ==
    CASE p \in B -> "Accept"
      [] p \notin B /\ <<Not, p>> \in B -> "Deny"
      [] p \notin B /\ <<Not, p>> \notin B -> EvaluateParts(evaluate, p)

Evaluate(B, p) ==
    LET evaluate[q \in Data] == EvaluateGiven(B, evaluate, q) IN evaluate[p]

-----------------------------------------------------------------------------
(* De Morgan's laws (ast.cpp)                                              *)

\* demorganize_data meets an implication, for which it aborts.
meets_implication[p \in Data] ==
    \/ IsImplication(p)
    \/ IsNot(p) /\ meets_implication[p[2]]
    \/ IsBoolBinOp(p) /\ \E k \in DOMAIN p[2] : meets_implication[p[2][k]]
MeetsImplication(p) == meets_implication[p]

\* demorganize_bool_bin_op
MutKeepsConnective(op) == op
DualConnective(op) == CASE op = And -> Or [] op = Or -> And [] op = Xor -> Xor

\* demorganize_data, with what it returns for the parts of p; with negate,
\* negated_demorganize_data
DemorganizedGiven(demorganized, p, negate) ==
    CASE IsNot(p) -> demorganized[<<p[2], ~negate>>]
      [] IsBoolBinOp(p) -> <<IF negate THEN DualConnective(p[1]) ELSE p[1],
                             [k \in DOMAIN p[2] |-> demorganized[<<p[2][k], negate>>]]>>
      [] OTHER -> IF negate THEN <<Not, p>> ELSE p

demorganized[x \in Data \X BOOLEAN] == DemorganizedGiven(demorganized, x[1], x[2])
Demorganize(p) == demorganized[<<p, FALSE>>]

-----------------------------------------------------------------------------
(* Patterns (pattern.cpp)                                                  *)

\* matched_pattern__TupleTerm_c casts the term to a tuple: the cast of a leaf throws.
\* All elements are gone through, even if one has not matched.
match_throws[x \in Data \X Data] ==
    LET pattern == x[1]
        term == x[2]
    IN  /\ IsTuple(pattern)
        /\ IsTuple(term) =>
             /\ Len(pattern) = Len(term)
             /\ \E k \in DOMAIN pattern : match_throws[<<pattern[k], term[k]>>]
MatchThrows(pattern, term) == match_throws[<<pattern, term>>]

\* matched_pattern__data, apart from the free variables: a tuple matches a tuple whose
\* elements match, any other data itself.
FitsGiven(fits, pattern, term) ==
    CASE pattern \in FreeVar -> TRUE
      [] IsTuple(pattern)    -> /\ IsTuple(term) /\ Len(pattern) = Len(term)
                                /\ \A k \in DOMAIN pattern : fits[<<pattern[k], term[k]>>]
      [] OTHER               -> term = pattern

fits[x \in Data \X Data] == FitsGiven(fits, x[1], x[2])
Fits(pattern, term) == fits[<<pattern, term>>]

\* What each free variable meets in the term.
MeetsGiven(meets, pattern, term) ==
    IF pattern \in FreeVar THEN {<<pattern, term>>}
    ELSE IF IsTuple(pattern) /\ IsTuple(term) /\ Len(pattern) = Len(term)
    THEN UNION {meets[<<pattern[k], term[k]>>] : k \in DOMAIN pattern}
    ELSE {}

meets[x \in Data \X Data] == MeetsGiven(meets, x[1], x[2])
Meets(pattern, term) == meets[<<pattern, term>>]

\* matched_pattern__FreeVarTerm_c: a variable that occurs again must meet the same.
MutFirstOccurrence(met) == TRUE
MeetsOne(met) == \A x, y \in met : x[1] = y[1] => x = y

\* matched_pattern: the pattern matches, and what its free variables then stand for
Matches(pattern, term) == Fits(pattern, term) /\ MeetsOne(Meets(pattern, term))
Assigned(pattern, term) ==
    LET met == Meets(pattern, term)
    IN  [x \in {m[1] : m \in met} |-> (CHOOSE m \in met : m[1] = x)[2]]

\* free_var_substitution__data: a variable that has no value stays.
SubstitutedGiven(substituted, p, assigned) ==
    CASE p \in DOMAIN assigned -> assigned[p]
      [] p \notin DOMAIN assigned /\ IsTuple(p) -> [k \in DOMAIN p |-> substituted[p[k]]]
      [] OTHER -> p

Substituted(p, assigned) ==
    LET substituted[q \in Data] == SubstitutedGiven(substituted, q, assigned) IN substituted[p]

-----------------------------------------------------------------------------
(* What is true, in a world w of true statements                           *)

HoldsGiven(w, holds, p) ==
    CASE IsImplication(p) -> holds[p[1]] => holds[p[3]]
      [] IsNot(p)         -> ~holds[p[2]]
      [] Is(And, p)       -> \A k \in DOMAIN p[2] : holds[p[2][k]]
      [] Is(Or, p)        -> \E k \in DOMAIN p[2] : holds[p[2][k]]
      [] Is(Xor, p)       -> Cardinality({k \in DOMAIN p[2] : holds[p[2][k]]}) % 2 = 1
      [] OTHER            -> p \in w

Holds(w, p) ==
    LET holds[q \in Data] == HoldsGiven(w, holds, q) IN holds[p]

\* p holds whatever its free variables stand for.
TrueIn(w, p) == \A assigned \in [FreeVar -> Individual] : Holds(w, Substituted(p, assigned))

\* p is made of <<s, verb, o>> by Implies, Not, And and Or.
SentenceGiven(sentence, p) ==
    CASE IsImplication(p) -> sentence[p[1]] /\ sentence[p[3]]
      [] IsNot(p)         -> sentence[p[2]]
      [] IsBoolBinOp(p)   -> p[1] # Xor /\ \A k \in DOMAIN p[2] : sentence[p[2][k]]
      [] OTHER            -> IsTuple(p) /\ Len(p) = 3 /\ p[2] \in Name

sentence[p \in Data] == SentenceGiven(sentence, p)
Sentence(p) == sentence[p]
=============================================================================
