--------------------------- MODULE MCOneToOneCall ---------------------------
(***************************************************************************)
(* Instances of OneToOneCall: the bounds are numbers and sets of them, and *)
(* the configurations give them directly.                                  *)
(***************************************************************************)
EXTENDS OneToOneCall
=============================================================================
