------------------------- MODULE MCMeshRosterClient -------------------------
(***************************************************************************)
(* Small instances of the mesh roster.  Connections are interchangeable,   *)
(* and so are room IDs: no action and no property orders them.             *)
(***************************************************************************)
EXTENDS MeshRosterClient, TLC

Symmetry == Permutations(Conns) \cup Permutations(RoomIds)

=============================================================================
