-------------------------- MODULE MCDaemonLifecycle --------------------------
(* Instance of DaemonLifecycle: two clients and two daemon processes. *)
EXTENDS DaemonLifecycle

CONSTANTS c1, c2, d1, d2

MCClients == {c1, c2}
MCDaemons == {d1, d2}
===============================================================================
