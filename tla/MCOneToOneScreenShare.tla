------------------------ MODULE MCOneToOneScreenShare ------------------------
(* Small instances of sharing the screen in one-to-one calls. *)
EXTENDS OneToOneScreenShare

=============================================================================
