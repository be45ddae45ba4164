---------------------------- MODULE MCHookExchange ----------------------------
(* Instance of HookExchange: the daemon and two clients that draw. *)
EXTENDS HookExchange

CONSTANTS c1, c2

MCClients == {c1, c2}
===============================================================================
