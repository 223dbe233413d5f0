--------------------------- MODULE MCLiveUpdates ---------------------------
(* LiveUpdates on small instances.  A configuration gives the sets and the *)
(* bounds; subscriptions are interchangeable.                              *)
EXTENDS LiveUpdates, TLC

Symmetry == Permutations(Subs)
=============================================================================
