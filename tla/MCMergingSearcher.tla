--------------------------- MODULE MCMergingSearcher ---------------------------
EXTENDS MergingSearcher, TLC

\* First is the only state the specification names.
Symmetry == Permutations(StateIds \ {First})
===============================================================================
