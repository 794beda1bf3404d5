----------------------------- MODULE TreeNodes -----------------------------
(***************************************************************************)
(* The tree the editor's items are made of (TreeNode_t.hpp): a node owns   *)
(* its children by the unique_ptrs of a vector, and a child points back at *)
(* its parent.  Nodes outside of a tree are owned by a unique_ptr of the   *)
(* caller.                                                                 *)
(*                                                                         *)
(* A vector may fail to grow: what an operation did before that stays      *)
(* done.  Positions and counts are size_t, and sums of them wrap; what     *)
(* std::vector leaves undefined ends the behaviour.                        *)
(***************************************************************************)
EXTENDS Naturals, Sequences, FiniteSets, SequencesExt

CONSTANTS
    Node,       \* bound: addresses nodes may have
    Null,       \* nullptr
    SizeMax     \* largest size_t

ASSUME NodeAssumption ==
    /\ IsFiniteSet(Node) /\ Null \notin Node
    /\ SizeMax \in Nat /\ Cardinality(Node) <= SizeMax

VARIABLES
    live,        \* the nodes that exist
    held,        \* those of them the caller owns
    m_parent,    \* as the node says: it may be wrong
    m_children,  \* the vector of children, in order
    mode         \* "defined", or "undefined" once the behaviour is

vars == <<live, held, m_parent, m_children, mode>>

Size == 0 .. SizeMax
Plus(a, b) == (a + b) % (SizeMax + 1)
child_count(n) == Len(m_children[n])

\* What is reached from x by following next as long as there is anything new: the
\* smallest set with x that next does not lead out of.
Reached(x, next) ==
    LET closed == {S \in SUBSET DOMAIN next : x \in S /\ \A y \in S : next[y] \subseteq S}
    IN  {y \in DOMAIN next : \A S \in closed : y \in S}

\* n and what it owns, directly or not.
Subtree(n) == Reached(n, [p \in Node |-> ToSet(m_children[p])])

\* Positions count from 0.
InsertAll(s, index, t) == SubSeq(s, 1, index) \o t \o SubSeq(s, index + 1, Len(s))
EraseRange(s, index, count) == SubSeq(s, 1, index) \o SubSeq(s, index + count + 1, Len(s))

\* Behaviour of an operation that std::vector does not define.
Undefined == mode' = "undefined" /\ UNCHANGED <<live, held, m_parent, m_children>>

\* The nodes are deleted; what they said is no longer to be read.
Without(f, gone, none) == [n \in Node |-> IF n \in gone THEN none ELSE f[n]]

\* A caller that may touch p: it exists, and nothing went wrong before.
Usable(p) == mode = "defined" /\ p \in live
-----------------------------------------------------------------------------
\* std::make_unique.
Create(n) ==
    /\ mode = "defined" /\ n \notin live
    /\ live' = live \cup {n} /\ held' = held \cup {n}
    /\ m_parent' = [m_parent EXCEPT ![n] = Null]
    /\ m_children' = [m_children EXCEPT ![n] = <<>>]
    /\ UNCHANGED mode

\* The caller lets go of a node: it is deleted with all it owns.
Destroy(n) ==
    /\ mode = "defined" /\ n \in held
    /\ held' = held \ {n} /\ live' = live \ Subtree(n)
    /\ m_parent' = Without(m_parent, Subtree(n), Null)
    /\ m_children' = Without(m_children, Subtree(n), <<>>)
    /\ UNCHANGED mode

\* The children do not learn whose they are.
MutAdopt(p, index, s) ==
    /\ m_children' = [m_children EXCEPT ![p] = InsertAll(@, index, s)]
    /\ held' = held \ ToSet(s)
    /\ UNCHANGED <<live, m_parent, mode>>

\* The nodes of s become children of p, from index on.
Adopt(p, index, s) ==
    /\ m_children' = [m_children EXCEPT ![p] = InsertAll(@, index, s)]
    /\ held' = held \ ToSet(s)
    /\ m_parent' = [n \in Node |-> IF n \in ToSet(s) THEN p ELSE m_parent[n]]
    /\ UNCHANGED <<live, mode>>

\* The nodes of s, still with the caller, say that p is their parent.
Mark(p, s) ==
    /\ m_parent' = [n \in Node |-> IF n \in ToSet(s) THEN p ELSE m_parent[n]]
    /\ UNCHANGED <<live, held, m_children, mode>>

\* What the caller sees to: it does not put a node into its own subtree.
MayAdopt(p, s) == \A i \in DOMAIN s : s[i] \in held /\ p \notin Subtree(s[i])

\* insert(index, child).  A child that has a parent is refused; the parent is
\* set before the vector is given the child.
insert(p, index, n) ==
    /\ Usable(p) /\ MayAdopt(p, <<n>>)
    /\ m_parent[n] = Null
    /\ \/ index <= child_count(p) /\ Adopt(p, index, <<n>>)
       \/ index <= child_count(p) /\ Mark(p, <<n>>)         \* std::bad_alloc
       \/ index > child_count(p) /\ Undefined

push_back(p, n) ==
    /\ Usable(p) /\ MayAdopt(p, <<n>>)
    /\ m_parent[n] = Null
    /\ \/ Adopt(p, child_count(p), <<n>>)
       \/ Mark(p, <<n>>)                                    \* std::bad_alloc

\* insert(index, first, last): the parents are set one by one, up to a child
\* that has one, at which it throws.
insert_range(p, index, s) ==
    /\ Usable(p) /\ MayAdopt(p, s)
    /\ LET taken == {i \in DOMAIN s : m_parent[s[i]] # Null}
           checked == SubSeq(s, 1, (CHOOSE i \in 0 .. Len(s) :
                                       /\ i = Len(s) \/ i + 1 \in taken
                                       /\ taken \cap (1 .. i) = {}))
       IN  IF taken # {} THEN checked # <<>> /\ Mark(p, checked)
           ELSE \/ index <= child_count(p) /\ Adopt(p, index, s)
                \/ index <= child_count(p) /\ Mark(p, s)    \* std::bad_alloc
                \/ index > child_count(p) /\ Undefined

\* emplace: the child is made here, and deleted again when the vector fails.
emplace(p, index, n) ==
    /\ Usable(p) /\ n \notin live
    /\ IF index <= child_count(p)
       THEN /\ m_children' = [m_children EXCEPT ![p] = InsertAll(@, index, <<n>>),
                                               ![n] = <<>>]
            /\ m_parent' = [m_parent EXCEPT ![n] = p]
            /\ live' = live \cup {n}
            /\ UNCHANGED <<held, mode>>
       ELSE Undefined

emplace_back(p, n) == emplace(p, child_count(p), n)

\* The children from index on, count of them, are deleted with all they own.
DeleteChildren(p, index, count) ==
    LET gone == UNION {Subtree(n) : n \in ToSet(SubSeq(m_children[p], index + 1, index + count))}
        kept == [m_children EXCEPT ![p] = EraseRange(@, index, count)]
    IN  /\ live' = live \ gone
        /\ m_parent' = Without(m_parent, gone, Null)
        /\ m_children' = Without(kept, gone, <<>>)
        /\ UNCHANGED <<held, mode>>

erase(p, index) ==
    /\ Usable(p)
    /\ IF index < child_count(p) THEN DeleteChildren(p, index, 1) ELSE Undefined

\* The count that is left after the check of the range.
MutTruncated(p, index, count) ==
    IF count > child_count(p) THEN child_count(p) - index ELSE count
Truncated(p, index, count) ==
    IF Plus(index, count) > child_count(p) THEN child_count(p) - index ELSE count

\* erase(index, count): nothing when index is out of range.
erase_count(p, index, count) ==
    /\ Usable(p) /\ index < child_count(p)
    /\ LET n == Truncated(p, index, count)
       IN  IF index + n <= child_count(p) THEN DeleteChildren(p, index, n) ELSE Undefined

\* pop_back: the last child is the caller's again, and a root.
pop_back(p) ==
    /\ Usable(p) /\ m_children[p] # <<>>
    /\ LET n == Last(m_children[p])
       IN  /\ held' = held \cup {n}
           /\ m_parent' = [m_parent EXCEPT ![n] = Null]
    /\ m_children' = [m_children EXCEPT ![p] = Front(@)]
    /\ UNCHANGED <<live, mode>>

clear(p) == Usable(p) /\ DeleteChildren(p, 0, child_count(p))

\* index_within_parent; SizeMax when it throws.
index_within_parent(n) ==
    IF m_parent[n] = Null THEN 0
    ELSE LET at == {i \in 1 .. child_count(m_parent[n]) : m_children[m_parent[n]][i] = n}
         IN  IF at = {} THEN SizeMax ELSE (CHOOSE i \in at : \A j \in at : i <= j) - 1

\* tree_depth follows m_parent up to nullptr; SizeMax when that has no end, and the
\* call none either.
WayUp(n) == Reached(n, [m \in Node \cup {Null} |-> IF m = Null THEN {} ELSE {m_parent[m]}])
tree_depth(n) == IF Null \in WayUp(n) THEN Cardinality(WayUp(n) \ {n, Null}) ELSE SizeMax
-----------------------------------------------------------------------------
Init ==
    /\ live = {} /\ held = {} /\ mode = "defined"
    /\ m_parent = [n \in Node |-> Null]
    /\ m_children = [n \in Node |-> <<>>]

Next ==
    \E p \in Node :
        \/ Create(p) \/ Destroy(p) \/ pop_back(p) \/ clear(p)
        \/ \E n \in Node : push_back(p, n) \/ emplace_back(p, n)
        \/ \E i \in Size, n \in Node : insert(p, i, n) \/ emplace(p, i, n)
        \/ \E i \in Size, n, m \in Node : n # m /\ insert_range(p, i, <<n, m>>)
        \/ \E i \in Size : erase(p, i)
        \/ \E i, c \in Size : erase_count(p, i, c)

Spec == Init /\ [][Next]_vars
-----------------------------------------------------------------------------
\* Whatever failed before, every node is owned once, by the caller or by the
\* node it names as its parent, at the place index_within_parent finds: none
\* is deleted twice, leaks, or names a parent that is gone, but those a failed
\* insertion left with the caller.  As long as there are none of these,
\* tree_depth is the number of nodes above.
TreeSound ==
    \A n \in live :
        LET above == {p \in live \ {n} : n \in Subtree(p)}
        IN  /\ Cardinality(held \cap (above \cup {n})) = 1
            /\ n \in held <=> above = {}
            /\ n \notin held =>
                  /\ m_parent[n] \in above
                  /\ m_children[m_parent[n]][index_within_parent(n) + 1] = n
                  /\ \A p \in live : Cardinality({i \in DOMAIN m_children[p] :
                        m_children[p][i] = n}) = (IF p = m_parent[n] THEN 1 ELSE 0)
            /\ (\A h \in held : m_parent[h] = Null) => tree_depth(n) = Cardinality(above)

\* erase(index, count) deletes the children from index on, count of them or
\* as many as there are (the comment above it), whenever index + count is a
\* size_t; where the sum wraps the count is not cut and the erasure is
\* undefined.
EraseTruncates ==
    [][\A p \in Node, i, c \in Size :
        erase_count(p, i, c) /\ i + c <= SizeMax
        => m_children'[p] = EraseRange(m_children[p], i, c)]_vars
=============================================================================
