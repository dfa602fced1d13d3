--------------------------- MODULE MCMeshPairClient ---------------------------
(* An instance of MeshPairClient for TLC. *)
EXTENDS MeshPairClient

=============================================================================
