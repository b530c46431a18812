------------------------------ MODULE MCMeshLinks ------------------------------
(* Instances of MeshLinks for TLC. *)
EXTENDS MeshLinks

(* The devices of a kind are alike (used without liveness properties only). *)
Symmetry == Permutations(Bitchat) \cup Permutations(Other)
=============================================================================
