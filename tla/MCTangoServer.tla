--------------------------- MODULE MCTangoServer ----------------------------
(***************************************************************************)
(* Instances of TangoServer for TLC.                                       *)
(***************************************************************************)
EXTENDS TangoServer

=============================================================================
