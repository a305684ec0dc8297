--------------------------- MODULE MCFileBackend ----------------------------
(***************************************************************************)
(* Instances of FileBackend for TLC.                                       *)
(***************************************************************************)
EXTENDS FileBackend

\* Commands of both kinds, and the operation that takes no lock.
FewOperations == {"switch_on", "assign_resources", "reset_state"}

=============================================================================
