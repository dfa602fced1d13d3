----------------------------- MODULE MCMeshChat -----------------------------
(***************************************************************************)
(* A small instance of the mesh chat: three peers in their admission order. *)
(***************************************************************************)
EXTENDS MeshChat

=============================================================================
