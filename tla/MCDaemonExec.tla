----------------------------- MODULE MCDaemonExec -----------------------------
(* Instance of DaemonExec: one process with two threads and one with one. *)
EXTENDS DaemonExec

CONSTANTS p1, p2, t1, t2, t3

MCProcs   == {p1, p2}
MCThreads == {t1, t2, t3}
MCProcOf  == [t \in MCThreads |-> IF t = t3 THEN p2 ELSE p1]
===============================================================================
