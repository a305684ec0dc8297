-------------------------- MODULE MCFastApiServer ---------------------------
(***************************************************************************)
(* Instances of FastApiServer for TLC.                                     *)
(***************************************************************************)
EXTENDS FastApiServer, TLC

\* Requests are interchangeable.
Symmetry == Permutations(Threads)

\* Every command the server offers; and few enough for two requests, of which
\* a race can leave an obs_state that allows one of them in a machine that is off.
AllCommands == SwitchCommands \cup ObsCommands
FewCommands == {"switch_on", "switch_off", "assign_resources", "configure"}

=============================================================================
