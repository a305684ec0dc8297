-------------------------- MODULE MCRedisBackend ----------------------------
(***************************************************************************)
(* Instances of RedisBackend for TLC.                                      *)
(***************************************************************************)
EXTENDS RedisBackend, TLC

\* One command, which both replicas may carry out, the second time after a
\* first one that failed.
OneCommand == {"switch_on"}

\* A server that is stopped, in whatever place, and its successor.
TwoServers == 1..2

=============================================================================
