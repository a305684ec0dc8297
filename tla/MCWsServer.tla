----------------------------- MODULE MCWsServer -----------------------------
(***************************************************************************)
(* Instances of WsServer for TLC.                                          *)
(***************************************************************************)
EXTENDS WsServer, TLC

\* With two clients: a crowded pool, and one with a worker to spare.
TightAndSpare == {2, 3}

=============================================================================
