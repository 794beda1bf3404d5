--------------------------- MODULE MCSEPTDocument ---------------------------
(* TLC instances of SEPTDocument: two arrays of one leaf each, in an array  *)
(* or with one leaf beside one array.                                       *)
EXTENDS SEPTDocument

CONSTANTS outer, left, right, int, int64, flag

MCPair == [a \in Array |-> CASE a = outer -> <<left, right>>
                             [] a = left  -> <<int>>
                             [] OTHER     -> <<int64>>]
MCNest == [a \in Array |-> IF a = outer THEN <<int, left>> ELSE <<int>>]

\* Bound: the items of the opened document lie in memory in the order populate()
\* makes them.  Items made later take any free address.
Age(i) == IF i = root THEN 0
          ELSE IF Deref(ptr[i]) \in Array THEN 1 ELSE IF ptr[i].array = left THEN 2 ELSE 3
MCInit == Init /\ \A i, j \in live : Age(i) < Age(j) => i < j
MCSpec == MCInit /\ [][Next]_vars

=============================================================================
