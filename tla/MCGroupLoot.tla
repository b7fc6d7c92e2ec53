----------------------------- MODULE MCGroupLoot -----------------------------
\* GroupLoot for TLC.
EXTENDS GroupLoot
=============================================================================
