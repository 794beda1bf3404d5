---------------------------- MODULE MCTreeNodes ----------------------------
EXTENDS TreeNodes, TLC

Addresses == Permutations(Node)
=============================================================================
