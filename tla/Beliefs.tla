------------------------------ MODULE Beliefs -------------------------------
(***************************************************************************)
(* The belief system of thinky (bin/thinky): a set of predicates, added,   *)
(* removed, derived by rules of inference, and asked what it knows.        *)
(*                                                                         *)
(* The world says what is true: the program never sees it, and is told     *)
(* nothing but the truth.                                                  *)
(***************************************************************************)
EXTENDS Predicates, SequencesExt

CONSTANTS World,           \* bound: the worlds there may be, as sets of true statements
          Told,            \* bound: the predicates add_belief is called with
          Rule,            \* bound: the rules of inference that are tried
          Query,           \* bound: the predicates evaluate_predicate is asked
          FirstBuckets,    \* how many beliefs the set holds before its first rehash
          MaxCalls         \* bound: calls of add_belief and remove_belief

ASSUME BeliefsAssumption ==
    /\ \A r \in Rule : IsImplication(r)
    /\ FirstBuckets \in Nat \ {0} /\ MaxCalls \in Nat

VARIABLES
    world,      \* the statements that are true; never changes
    beliefs,    \* m_belief_set
    buckets,    \* how many it holds before it rehashes
    calls,      \* bound: calls of add_belief and remove_belief so far
    loop,       \* the call of derive_beliefs_2 that is under way
    mode        \* "idle", "derive", "aborted" (LVD_ABORT), "threw" (an exception)

vars == <<world, beliefs, buckets, calls, loop, mode>>

\* rule: what is derived by; premise: its premise, demorganized; also: whether its
\* contrapositive is still to come; ahead: the beliefs the iterator has yet to reach;
\* start: the beliefs there were when the loop began; rehashed: the set has been
\* rehashed since.
Idle == [rule |-> <<>>, premise |-> <<>>, also |-> FALSE,
         ahead |-> {}, start |-> {}, rehashed |-> FALSE]

TypeOK ==
    /\ world \in World
    /\ \A b \in beliefs : IsTuple(b)
    /\ Cardinality(beliefs) <= buckets
    /\ loop.ahead \subseteq beliefs /\ loop.start \subseteq beliefs
    /\ mode = "idle" => loop = Idle
    /\ mode \in {"idle", "derive", "aborted", "threw"}

-----------------------------------------------------------------------------
(* Adding and removing                                                     *)

\* What add_belief inserts: the operands of an And, everything else as it is.
MutFirstOperand(p) == {IF Is(And, Demorganize(p)) THEN Demorganize(p)[2][1] ELSE p}
InsertedBy(p) == IF Is(And, Demorganize(p)) THEN ToSet(Demorganize(p)[2]) ELSE {p}

\* std::unordered_set rehashes, to more than twice the buckets, when it is full.
MutNoGrowth(B) == buckets
BucketsFor(B) ==
    IF Cardinality(B) > buckets THEN Max({2 * buckets + 1, Cardinality(B)}) ELSE buckets

Insert(new) ==
    /\ beliefs' = beliefs \cup new
    /\ buckets' = BucketsFor(beliefs \cup new)

Abort == mode' = "aborted" /\ UNCHANGED <<world, beliefs, buckets, calls, loop>>

AddBelief(p) ==
    /\ mode = "idle"
    /\ calls < MaxCalls
    /\ ~MeetsImplication(p)
    /\ calls' = calls + 1
    /\ Insert(InsertedBy(p))
    /\ UNCHANGED <<world, loop, mode>>

\* demorganize_data aborts.
AddBeliefAborts(p) ==
    /\ mode = "idle"
    /\ MeetsImplication(p)
    /\ Abort

RemoveBelief(b) ==
    /\ mode = "idle"
    /\ calls < MaxCalls
    /\ calls' = calls + 1
    /\ beliefs' = beliefs \ {b}
    /\ UNCHANGED <<world, buckets, loop, mode>>

-----------------------------------------------------------------------------
(* Deriving                                                                *)

\* derive_beliefs: what the rule adds when its premise is accepted, and what its
\* contrapositive adds when, after that, its conclusion is denied.
DirectlyDerived(rule) == IF Evaluate(beliefs, rule[1]) = "Accept" THEN {rule[3]} ELSE {}
ContraDerived(rule) ==
    LET direct == UNION {InsertedBy(p) : p \in DirectlyDerived(rule)}
    IN  IF Evaluate(beliefs \cup direct, rule[3]) = "Deny" THEN {<<Not, rule[1]>>} ELSE {}

DeriveBeliefs(rule) ==
    LET derived == DirectlyDerived(rule) \cup ContraDerived(rule)
    IN  /\ mode = "idle"
        /\ \A p \in derived : ~MeetsImplication(p)
        /\ Insert(UNION {InsertedBy(p) : p \in derived})
        /\ UNCHANGED <<world, calls, loop, mode>>

\* An implication is to be added: demorganize_data aborts.
DeriveBeliefsAborts(rule) ==
    /\ mode = "idle"
    /\ \E p \in DirectlyDerived(rule) \cup ContraDerived(rule) : MeetsImplication(p)
    /\ Abort

Contrapositive(rule) == <<<<Not, rule[3]>>, Implies, <<Not, rule[1]>>>>

\* derive_beliefs_2 up to its loop: a premise that has a connective in it aborts.
BeginLoop(rule, also) ==
    IF MeetsImplication(rule[1]) \/ IsBoolBinOp(Demorganize(rule[1]))
    THEN Abort
    ELSE /\ loop' = [rule |-> rule, premise |-> Demorganize(rule[1]), also |-> also,
                     ahead |-> beliefs, start |-> beliefs, rehashed |-> FALSE]
         /\ mode' = "derive"
         /\ UNCHANGED <<world, beliefs, buckets, calls>>

DeriveBeliefs2(rule, also) ==
    /\ mode = "idle"
    /\ BeginLoop(rule, also)

\* The beliefs the iterator can come to after belief b.  A belief inserted in the loop
\* is put before or behind it; a rehash puts all the others in any order, so that the
\* iterator may skip some and come to some again.
MutStays(b, new, rehash) == {loop.ahead \cup S : S \in SUBSET new}
AheadAfter(b, new, rehash) ==
    IF rehash THEN SUBSET ((beliefs \cup new) \ {b})
    ELSE {(loop.ahead \ {b}) \cup S : S \in SUBSET new}

MatchedBy(b)   == Matches(loop.premise, b)
Consequence(b) == Substituted(loop.rule[3], Assigned(loop.premise, b))

\* One turn of the loop: the next belief is matched with the premise; if it matches,
\* the conclusion is believed.
DeriveFrom(b) ==
    LET new    == IF MatchedBy(b) THEN InsertedBy(Consequence(b)) \ beliefs ELSE {}
        rehash == Cardinality(beliefs \cup new) > buckets
    IN  /\ mode = "derive"
        /\ b \in loop.ahead
        /\ ~MatchThrows(loop.premise, b)
        /\ MatchedBy(b) => ~MeetsImplication(Consequence(b))
        /\ Insert(new)
        /\ \E ahead \in AheadAfter(b, new, rehash) :
             loop' = [loop EXCEPT !.ahead = ahead, !.rehashed = @ \/ rehash]
        /\ UNCHANGED <<world, calls, mode>>

\* The conclusion is an implication: demorganize_data aborts.
DeriveFromAborts(b) ==
    /\ mode = "derive"
    /\ b \in loop.ahead
    /\ ~MatchThrows(loop.premise, b) /\ MatchedBy(b)
    /\ MeetsImplication(Consequence(b))
    /\ Abort

DeriveFromThrows(b) ==
    /\ mode = "derive"
    /\ b \in loop.ahead
    /\ MatchThrows(loop.premise, b)
    /\ mode' = "threw"
    /\ UNCHANGED <<world, beliefs, buckets, calls, loop>>

\* The loop is over: the contrapositive, or the return.
EndLoop ==
    /\ mode = "derive"
    /\ loop.ahead = {}
    /\ IF loop.also THEN BeginLoop(Contrapositive(loop.rule), FALSE)
       ELSE /\ loop' = Idle
            /\ mode' = "idle"
            /\ UNCHANGED <<world, beliefs, buckets, calls>>

-----------------------------------------------------------------------------
\* What can be said, and which rules there are, in each world.
Facts == [w \in World |-> {p \in Told : TrueIn(w, p)}]
Laws  == [w \in World |-> {r \in Rule : TrueIn(w, r)}]

-----------------------------------------------------------------------------

Init ==
    /\ world \in World
    /\ beliefs = {}
    /\ buckets = FirstBuckets
    /\ calls = 0
    /\ loop = Idle
    /\ mode = "idle"

Loop == \/ \E b \in loop.ahead : DeriveFrom(b) \/ DeriveFromAborts(b) \/ DeriveFromThrows(b)
        \/ EndLoop

Next ==
    \/ \E p \in Facts[world] : AddBelief(p) \/ AddBeliefAborts(p)
    \/ \E b \in beliefs : RemoveBelief(b)
    \/ \E rule \in Laws[world] :
        DeriveBeliefs(rule) \/ DeriveBeliefsAborts(rule) \/ \E also \in BOOLEAN : DeriveBeliefs2(rule, also)
    \/ Loop

Spec == Init /\ [][Next]_vars

\* A call that has been made goes on until it returns.
FairSpec == Spec /\ WF_vars(Loop)

-----------------------------------------------------------------------------
(* Properties                                                              *)

\* Told nothing but the truth and given rules that hold, the system believes
\* nothing else, whatever was derived from what, in whatever order: matching,
\* substitution, De Morgan's laws and the contrapositive are sound together.
BeliefsTrue == \A b \in beliefs : TrueIn(world, b)

\* What it accepts is true and what it denies is false.
AnswersTrue ==
    \A p \in Query : /\ Evaluate(beliefs, p) = "Accept" => TrueIn(world, p)
                     /\ Evaluate(beliefs, p) = "Deny" => TrueIn(world, <<Not, p>>)

\* An answer once given stands: more beliefs never turn it into another one, nor
\* into Unknown, although And and Or stop at the first operand that is not known.
AnswersKept ==
    [][beliefs \subseteq beliefs' =>
        \A p \in Query : Evaluate(beliefs, p) # "Unknown" => Evaluate(beliefs', p) = Evaluate(beliefs, p)]_vars

\* The loop leaves nothing out: each belief there was at its beginning and that it has
\* passed has its consequence accepted, unless the set was rehashed on the way.
DerivesAll ==
    mode = "derive" /\ ~loop.rehashed =>
        \A b \in loop.start \ loop.ahead : MatchedBy(b) => Evaluate(beliefs, Consequence(b)) = "Accept"

\* derive_beliefs_2 comes to an end, although it adds to the set it goes through.
DerivationEnds == mode = "derive" ~> mode # "derive"

=============================================================================
