------------------------- MODULE MCBattlegroundQueue -------------------------
\* BattlegroundQueue for TLC.
EXTENDS BattlegroundQueue, TLC

Symmetry == Permutations(Players) \cup Permutations(Battlegrounds)
=============================================================================
