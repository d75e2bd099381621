---------------------------- MODULE MCRouteCache ----------------------------
(* RouteCache with interchangeable replicas, GETs and writes. *)
EXTENDS RouteCache, TLC

Symmetry == Permutations(Replicas) \cup Permutations(Gets) \cup Permutations(Writes)

=============================================================================
