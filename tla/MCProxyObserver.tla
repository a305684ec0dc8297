-------------------------- MODULE MCProxyObserver ---------------------------
(***************************************************************************)
(* Instances of ProxyObserver for TLC.                                     *)
(***************************************************************************)
EXTENDS ProxyObserver

\* A server whose machine is on; a reset makes it one that was just started.
On == {Assign("ON", "EMPTY")}

\* On the way through these, both attributes return to earlier values.
FewCommands == {"switch_on", "switch_off", "scan", "reset_state"}

=============================================================================
