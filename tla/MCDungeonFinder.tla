--------------------------- MODULE MCDungeonFinder ---------------------------
\* Three players of one faction, for groups of three
EXTENDS DungeonFinder
=============================================================================
