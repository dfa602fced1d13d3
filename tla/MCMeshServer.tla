---------------------------- MODULE MCMeshServer ----------------------------
(***************************************************************************)
(* Small instances of the mesh server.  Connections are interchangeable:   *)
(* no action and no property orders them.                                  *)
(***************************************************************************)
EXTENDS MeshServer, TLC

Symmetry == Permutations(Conns)

=============================================================================
