----------------------------- MODULE MCMeshSession -----------------------------
(* One tab; the bounds are given by the configuration. *)
EXTENDS MeshSession

=============================================================================
