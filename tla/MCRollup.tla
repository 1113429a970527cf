------------------------------ MODULE MCRollup ------------------------------
EXTENDS Rollup, TLC
Symmetry == Permutations(Samples) \cup Permutations(Workers)
=============================================================================
