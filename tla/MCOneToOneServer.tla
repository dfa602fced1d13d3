-------------------------- MODULE MCOneToOneServer --------------------------
(***************************************************************************)
(* Small instances of the one-to-one server; its connections are           *)
(* interchangeable.                                                        *)
(***************************************************************************)
EXTENDS OneToOneServer, TLC

Symmetry == Permutations(Conns)

=============================================================================
