--------------------------- MODULE MCDocPublishing ---------------------------
(* Instances of DocPublishing for TLC. *)
EXTENDS DocPublishing, TLC

DocSymmetry ==
  Permutations(Requests) \union Permutations(Objects) \union Permutations(Operators)
==============================================================================
