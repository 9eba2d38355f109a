--------------------------- MODULE MCPublishEngine ---------------------------
(* Instances of PublishEngine for TLC. *)
EXTENDS PublishEngine, TLC

Symmetry == Permutations(Requests) \union Permutations(Objects)
==============================================================================
