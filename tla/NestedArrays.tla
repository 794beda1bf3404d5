---------------------------- MODULE NestedArrays ----------------------------
(***************************************************************************)
(* What a document editor promises: the document is a set of arrays, each  *)
(* a sequence of leaves and of arrays nested in it.  An edit inserts one   *)
(* leaf, removes one element with all that is nested in it, or replaces    *)
(* one leaf; every other element stays where it is.                        *)
(***************************************************************************)
EXTENDS Naturals, Sequences, FiniteSets, SequencesExt

CONSTANTS Array, Leaf, Contents

VARIABLE doc          \* doc[a]: the elements of array a, <<>> once a is removed

\* a and the arrays nested in it, at any depth
Nested(a) ==
    {b \in Array : \A S \in SUBSET Array :
        a \in S /\ (\A c \in S : ToSet(doc[c]) \cap Array \subseteq S) => b \in S}

Init == doc = Contents

InsertElement(a, k, leaf) == doc' = [doc EXCEPT ![a] = InsertAt(@, k, leaf)]

RemoveElement(a, k) ==
    LET gone == IF doc[a][k] \in Array THEN Nested(doc[a][k]) ELSE {}
    IN  doc' = [b \in Array |-> CASE b = a    -> RemoveAt(doc[a], k)
                                  [] b \in gone -> <<>>
                                  [] OTHER      -> doc[b]]

ReplaceLeaf(a, k, leaf) ==
    /\ doc[a][k] \in Leaf
    /\ doc' = [doc EXCEPT ![a][k] = leaf]

Next ==
    \E a \in Array :
        \/ \E k \in 1..(Len(doc[a]) + 1), leaf \in Leaf : InsertElement(a, k, leaf)
        \/ \E k \in 1..Len(doc[a]) : RemoveElement(a, k) \/ \E leaf \in Leaf : ReplaceLeaf(a, k, leaf)

Spec == Init /\ [][Next]_doc

=============================================================================
