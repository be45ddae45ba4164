------------------------------ MODULE RemoteCall ------------------------------
(***************************************************************************)
(* What Daemon_exec promises the X functions that call it, free of         *)
(* semaphores and queues: a call a thread makes is executed by the daemon  *)
(* at most once, never before it was made and never after the caller has   *)
(* gone on; it is given up only before the daemon has seen it; and the     *)
(* calls of one process are executed one at a time.                        *)
(***************************************************************************)
CONSTANTS Procs, Threads, ProcOf

VARIABLE stage     \* where each thread's current call is

callvars == <<stage>>

Stages == {"none", "made", "accepted", "executed"}

Init == stage = [t \in Threads |-> "none"]

Begun(t) == stage[t] \in {"accepted", "executed"}

Make(t) == /\ stage[t] = "none"
           /\ stage' = [stage EXCEPT ![t] = "made"]

\* The connection of a process serves one call at a time.
Accept(t) == /\ stage[t] = "made"
             /\ \A u \in Threads : ProcOf[u] = ProcOf[t] => ~Begun(u)
             /\ stage' = [stage EXCEPT ![t] = "accepted"]

Execute(t) == /\ stage[t] = "accepted"
              /\ stage' = [stage EXCEPT ![t] = "executed"]

Return(t) == /\ stage[t] = "executed"
             /\ stage' = [stage EXCEPT ![t] = "none"]

GiveUp(t) == /\ stage[t] = "made"
             /\ stage' = [stage EXCEPT ![t] = "none"]

Next == \E t \in Threads :
            Make(t) \/ Accept(t) \/ Execute(t) \/ Return(t) \/ GiveUp(t)

Spec == Init /\ [][Next]_callvars
===============================================================================
