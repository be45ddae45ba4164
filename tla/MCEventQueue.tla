----------------------------- MODULE MCEventQueue -----------------------------
(* Instance of EventQueue: one client. *)
EXTENDS EventQueue

CONSTANT x1

MCOne == {x1}
===============================================================================
