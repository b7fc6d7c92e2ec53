--------------------------- MODULE MCAuctionHouse ---------------------------
(* AuctionHouse on small instances. *)
EXTENDS AuctionHouse, TLC

Symmetry == Permutations(Players) \cup Permutations(Items)
=============================================================================
