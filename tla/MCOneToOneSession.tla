------------------------- MODULE MCOneToOneSession -------------------------
(***************************************************************************)
(* Instances of OneToOneSession: the bounds are numbers, which the         *)
(* configurations give directly.                                           *)
(***************************************************************************)
EXTENDS OneToOneSession
=============================================================================
