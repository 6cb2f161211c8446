--------------------------- MODULE MCHBaseUtility ---------------------------
EXTENDS HBaseUtility, TLC

Symmetry == Permutations(Clients)
=============================================================================
