-------------------------- MODULE MCDocumentViews ---------------------------
(* TLC instance of DocumentViews: a new document is a leaf and an array of  *)
(* one leaf.  The addresses of the views are interchangeable.               *)
EXTENDS DocumentViews

CONSTANTS v1, v2, v3, five, sixes

MCContent == <<LeafOf(five), ArrayOf(<<LeafOf(five)>>)>>

MCAddresses == Permutations(View)

=============================================================================
