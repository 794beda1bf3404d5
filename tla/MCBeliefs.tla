----------------------------- MODULE MCBeliefs ------------------------------
(* TLC instances of Beliefs: two people, what they like and what they say.  *)
EXTENDS Beliefs

CONSTANTS a, b, person, vain, likes, isA, says, X, Y

Likes(s, o) == <<s, likes, o>>
IsA(s, o)   == <<s, isA, o>>
Says(s, p)  == <<s, says, p>>
Neg(p)      == <<Not, p>>
Both(p, q)  == <<And, <<p, q>>>>
Either(p, q) == <<Or, <<p, q>>>>
If(p, q)    == <<p, Implies, q>>

\* Data of height 6 or less.
Over(S)  == Leaf \cup Seq(S)
MCHeight2 == Over(Over(Leaf))
MCHeight4 == Over(Over(MCHeight2))
MCData    == Over(Over(MCHeight4))

MCSaid == Likes(b, a)
MCAtom == {Likes(a, b), Likes(b, a), Likes(a, a), IsA(a, person), IsA(b, person), IsA(a, vain),
           Says(a, MCSaid)}
MCWorlds == {w \in SUBSET MCAtom : /\ {IsA(a, person), Says(a, MCSaid)} \subseteq w
                                   /\ Cardinality(MCAtom \ w) = 2}
MCIndividual == {a, b, MCSaid}

MCRules == {
    If(Likes(X, Y), Likes(Y, X)),                  \* feeds itself
    If(Likes(X, Y), IsA(X, person)),               \* Y is free in the contrapositive
    If(Likes(X, X), IsA(X, vain)),                 \* X twice in the premise
    If(IsA(X, vain), Both(Likes(X, X), IsA(X, person))),
    If(Says(X, Likes(b, Y)), Likes(b, Y)),         \* a tuple in the premise
    If(IsA(a, vain), If(Likes(a, b), IsA(b, person)))}

MCTold == {Likes(a, b), Likes(a, a), Neg(IsA(b, person)), Says(a, MCSaid),
           Neg(Either(Likes(b, a), IsA(a, vain))), Neg(Both(Likes(a, b), IsA(a, vain))),
    If(IsA(a, vain), Likes(a, b))}

MCQuery == MCTold \cup {
    IsA(a, person), Neg(Likes(b, a)), IsA(a, vain),
    Both(Likes(a, b), IsA(a, vain)), Either(IsA(a, person), Likes(b, a)),
    If(Likes(a, b), Likes(b, a))}

\* The theorems about Beliefs are about sentences.
ASSUME \A p \in MCTold \cup MCRules \cup MCQuery : Sentence(p)

=============================================================================
