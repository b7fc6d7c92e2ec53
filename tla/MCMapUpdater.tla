---------------------------- MODULE MCMapUpdater ----------------------------
(* MapUpdater on small instances. *)
EXTENDS MapUpdater, TLC

\* Threads and maps are interchangeable; used by runs without liveness.
Symmetry == Permutations(Threads) \cup Permutations(Maps)
=============================================================================
