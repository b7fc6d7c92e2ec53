------------------------------- MODULE MCTrade -------------------------------
EXTENDS Trade, TLC
Symmetry == Permutations(Players) \cup Permutations(Items)
=============================================================================
