--------------------------- MODULE MCMeshScreenShare ---------------------------
(* A call with two remote peers. *)
EXTENDS MeshScreenShare

MCRemotes == {"near", "far"}

=============================================================================
