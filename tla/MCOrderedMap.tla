---------------------------- MODULE MCOrderedMap ----------------------------
(* OrderedMap on small sets. *)
EXTENDS OrderedMapRefinement, TLC

Symmetry ==
  Permutations(Vars) \cup Permutations(Keys) \cup Permutations(Values)
=============================================================================
