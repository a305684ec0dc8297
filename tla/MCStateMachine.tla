--------------------------- MODULE MCStateMachine ---------------------------
(***************************************************************************)
(* Instances of StateMachine for TLC.                                      *)
(***************************************************************************)
EXTENDS StateMachine, TLC

\* Threads are interchangeable.
Symmetry == Permutations(Threads)

AllOperations == Operations

=============================================================================
