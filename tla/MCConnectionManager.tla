------------------------ MODULE MCConnectionManager -------------------------
(***************************************************************************)
(* Instances of ConnectionManager for TLC.  They have liveness properties, *)
(* for which symmetry would not be sound.                                  *)
(***************************************************************************)
EXTENDS ConnectionManager, TLC

\* A client that stays and one that comes and goes.
TwoWebsockets == {"w1", "w2"}

\* A server and the one started after it was stopped.
TwoServers == {"s1", "s2"}

=============================================================================
