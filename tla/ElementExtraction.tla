------------------------- MODULE ElementExtraction --------------------------
(***************************************************************************)
(* sept::proj::ElementExtraction: taking elements out of an array and      *)
(* putting changed ones back, as a lens on sequences.  An index counts     *)
(* from 0 and is cyclic, an element of a sequence counts from 1.           *)
(***************************************************************************)
EXTENDS Integers, Sequences

\* compute_absolute_index: lvd::remainder is never negative.
MutNextIndex(size, index) == (index + 1) % size
AbsoluteIndex(size, index) == index % size

\* Where index leads in a sequence of that size.
Place(size, index) == AbsoluteIndex(size, index) + 1

\* The remainder exists: no index is looked up in an empty array.
Indexable(size, indices) == size > 0 \/ indices = <<>>

\* project with an array of indices
Project(array, indices) ==
    [i \in 1..Len(indices) |-> array[Place(Len(array), indices[i])]]

\* The positions in indices of those that lead to place k of a sequence.
Writers(size, indices, k) == {i \in 1..Len(indices) : Place(size, indices[i]) = k}

LastWriter(size, indices, k) ==
    CHOOSE i \in Writers(size, indices, k) : \A j \in Writers(size, indices, k) : j <= i

\* embed writes the extracted elements in turn, so that the last one to lead
\* to a place stays there.
MutUnwrapped(extracted, indices, target) ==
    [k \in 1..Len(target) |->
        IF \E i \in 1..Len(indices) : indices[i] + 1 = k
        THEN extracted[CHOOSE i \in 1..Len(indices) : indices[i] + 1 = k]
        ELSE target[k]]
MutAllTheFirst(extracted, indices, target) ==
    [k \in 1..Len(target) |->
        IF Writers(Len(target), indices, k) = {} THEN target[k] ELSE extracted[1]]
Embed(extracted, indices, target) ==
    [k \in 1..Len(target) |->
        IF Writers(Len(target), indices, k) = {} THEN target[k]
        ELSE extracted[LastWriter(Len(target), indices, k)]]

\* No two indices lead to the same place.
Distinct(size, indices) ==
    \A i, j \in 1..Len(indices) : Place(size, indices[i]) = Place(size, indices[j]) => i = j

=============================================================================
