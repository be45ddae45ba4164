------------------------------ MODULE DaemonExec ------------------------------
(***************************************************************************)
(* The synchronous call of an X function into the daemon: Daemon_exec      *)
(* (xdaemon/lib/message.c) in the client's threads, and the part of        *)
(* pmhwndproc (xdaemon/app/ProcMessage.c) that takes the posted message,   *)
(* runs its handler and answers through postret and postsem.               *)
(*                                                                         *)
(* The threads of a process share one EB_Process: one mutex postmtx, one   *)
(* event semaphore postsem and one reply cell postret.  The semaphores are *)
(* those of OS/2: a wait on an event semaphore does not consume it, a      *)
(* mutex request can time out, and a process can post an event semaphore   *)
(* only while it holds an open handle to it.                               *)
(***************************************************************************)
EXTENDS Naturals, Sequences

CONSTANTS Procs,       \* client processes
          Threads,     \* their threads
          ProcOf,      \* the process of each thread
          NoThread,
          MaxExecs     \* bound: calls one thread makes

ASSUME ExecAssumption == /\ ProcOf \in [Threads -> Procs]
                         /\ NoThread \notin Threads
                         /\ MaxExecs \in Nat

VARIABLES
    pc,         \* where each thread is in Daemon_exec
    kind,       \* the message id of the thread's current or last call
    ncalls,     \* calls the thread has made, which numbers them
    returned,   \* what the thread's last call returned
    session,    \* EB_Process as XOpenDisplay and XCloseDisplay leave it
    postmtx,    \* owner of the process's postmtx
    postsem,    \* is the process's postsem posted?
    postret,    \* the process's reply cell: the call whose result is in it
    opened,     \* processes whose postsem the daemon holds open
    msgq,       \* the queue of the daemon's object window
    dpc,        \* where pmhwndproc is
    cur         \* the message pmhwndproc is working on

clientvars == <<pc, kind, ncalls, returned, session, postmtx>>
daemonvars == <<opened, dpc, cur>>
vars == <<clientvars, daemonvars, postsem, postret, msgq>>

\* UM_OPENHANDLES, UM_FREERESOURCES, and every other id an X function posts.
Kinds == {"UM_OPENHANDLES", "UM_FREERESOURCES", "UM_OTHER"}

Call == [thread : Threads, n : Nat]
Msg  == [thread : Threads, n : Nat, kind : Kinds]

\* scalloc clears EB_Process, so postret starts as nobody's result.
NoCall == [thread |-> NoThread, n |-> 0]
NoMsg  == [thread |-> NoThread, n |-> 0, kind |-> "none"]

CurrentCall(t) == [thread |-> t, n |-> ncalls[t]]
CallOf(m)      == [thread |-> m.thread, n |-> m.n]
Process(t)     == ProcOf[t]

Init ==
    /\ pc       = [t \in Threads |-> "out"]
    /\ kind     = [t \in Threads |-> "UM_OTHER"]
    /\ ncalls   = [t \in Threads |-> 0]
    /\ returned = [t \in Threads |-> NoCall]
    /\ session  = [p \in Procs |-> "new"]
    /\ postmtx  = [p \in Procs |-> NoThread]
    /\ postsem  = [p \in Procs |-> FALSE]
    /\ postret  = [p \in Procs |-> NoCall]
    /\ opened   = {}
    /\ msgq     = <<>>
    /\ dpc      = "getmsg"
    /\ cur      = NoMsg

-------------------------------------------------------------------------------
(* The client's threads.                                                   *)

Enter(t, k) ==
    /\ pc[t] = "out"
    /\ ncalls[t] < MaxExecs
    /\ pc'     = [pc EXCEPT ![t] = "lock"]
    /\ kind'   = [kind EXCEPT ![t] = k]
    /\ ncalls' = [ncalls EXCEPT ![t] = @ + 1]

\* XOpenDisplay has created postmtx and postsem and announces them.
OpenDisplay(t) ==
    /\ session[Process(t)] = "new"
    /\ Enter(t, "UM_OPENHANDLES")
    /\ session' = [session EXCEPT ![Process(t)] = "opening"]
    /\ UNCHANGED <<returned, postmtx, daemonvars, postsem, postret, msgq>>

\* An X function that needs the daemon.
XCall(t) ==
    /\ session[Process(t)] = "open"
    /\ Enter(t, "UM_OTHER")
    /\ UNCHANGED <<returned, session, postmtx, daemonvars, postsem, postret, msgq>>

CloseDisplay(t) ==
    /\ session[Process(t)] = "open"
    /\ Enter(t, "UM_FREERESOURCES")
    /\ session' = [session EXCEPT ![Process(t)] = "closing"]
    /\ UNCHANGED <<returned, postmtx, daemonvars, postsem, postret, msgq>>

Goto(t, from, to) == /\ pc[t] = from
                     /\ pc' = [pc EXCEPT ![t] = to]

\* Mutant: the lock is taken for granted.
LockUnguarded(t) ==
    /\ Goto(t, "lock", "reset")
    /\ postmtx' = [postmtx EXCEPT ![Process(t)] = t]
    /\ UNCHANGED <<kind, ncalls, returned, session, daemonvars, postsem, postret, msgq>>

\* EbLockMutexSem succeeds ...
Lock(t) ==
    /\ Goto(t, "lock", "reset")
    /\ postmtx[Process(t)] = NoThread
    /\ postmtx' = [postmtx EXCEPT ![Process(t)] = t]
    /\ UNCHANGED <<kind, ncalls, returned, session, daemonvars, postsem, postret, msgq>>

\* Mutant: the result of EbLockMutexSem is ignored, as in pmhwndproc.
LockTimeoutIgnored(t) ==
    /\ Goto(t, "lock", "reset")
    /\ postmtx[Process(t)] # NoThread
    /\ UNCHANGED <<kind, ncalls, returned, session, postmtx, daemonvars, postsem, postret, msgq>>

\* ... or has run out of its retries while another thread kept the mutex; the
\* call then goes straight to its return statement.
LockTimeout(t) ==
    /\ Goto(t, "lock", "return")
    /\ postmtx[Process(t)] # NoThread
    /\ UNCHANGED <<kind, ncalls, returned, session, postmtx, daemonvars, postsem, postret, msgq>>

\* Mutant: postsem is left as the call before left it.
ResetSemForgotten(t) ==
    /\ Goto(t, "reset", "post")
    /\ UNCHANGED <<kind, ncalls, returned, session, postmtx, daemonvars, postsem, postret, msgq>>

ResetSem(t) ==
    /\ Goto(t, "reset", "post")
    /\ postsem' = [postsem EXCEPT ![Process(t)] = FALSE]
    /\ UNCHANGED <<kind, ncalls, returned, session, postmtx, daemonvars, postret, msgq>>

PostMsg(t) ==
    /\ Goto(t, "post", "wait")
    /\ msgq' = Append(msgq, [thread |-> t, n |-> ncalls[t], kind |-> kind[t]])
    /\ UNCHANGED <<kind, ncalls, returned, session, postmtx, daemonvars, postsem, postret>>

\* SEM_INDEFINITE_WAIT
WaitSem(t) ==
    /\ Goto(t, "wait", "release")
    /\ postsem[Process(t)]
    /\ UNCHANGED <<kind, ncalls, returned, session, postmtx, daemonvars, postsem, postret, msgq>>

Release(t) ==
    /\ Goto(t, "release", "return")
    /\ postmtx' = [postmtx EXCEPT ![Process(t)] = NoThread]
    /\ UNCHANGED <<kind, ncalls, returned, session, daemonvars, postsem, postret, msgq>>

\* return process->postret: the cell is read after the mutex is released.
Return(t) ==
    /\ Goto(t, "return", "out")
    /\ returned' = [returned EXCEPT ![t] = postret[Process(t)]]
    /\ session'  = [session EXCEPT ![Process(t)] =
                        IF kind[t] = "UM_OPENHANDLES" THEN "open" ELSE @]
    /\ UNCHANGED <<kind, ncalls, postmtx, daemonvars, postsem, postret, msgq>>

-------------------------------------------------------------------------------
(* The daemon's PM thread.                                                 *)

\* Mutant: um_openHandles opens no event semaphore.
HandleOpensNothing ==
    /\ dpc = "getmsg"
    /\ msgq # <<>>
    /\ dpc'  = "answer"
    /\ cur'  = Head(msgq)
    /\ msgq' = Tail(msgq)
    /\ UNCHANGED <<clientvars, opened, postsem, postret>>

\* WinGetMsg, WinDispatchMsg and the switch of pmhwndproc: um_openHandles opens
\* the caller's postsem in the daemon, um_freeResources closes it again.
Handle ==
    /\ dpc = "getmsg"
    /\ msgq # <<>>
    /\ dpc'  = "answer"
    /\ cur'  = Head(msgq)
    /\ msgq' = Tail(msgq)
    /\ opened' = LET p == Process(Head(msgq).thread)
                     k == Head(msgq).kind
                 IN IF k = "UM_OPENHANDLES" THEN opened \cup {p}
                    ELSE IF k = "UM_FREERESOURCES" THEN opened \ {p}
                    ELSE opened
    /\ UNCHANGED <<clientvars, postsem, postret>>

\* process->postret = result
Answer ==
    /\ dpc = "answer"
    /\ dpc' = "postsem"
    /\ postret' = [postret EXCEPT ![Process(cur.thread)] = CallOf(cur)]
    /\ UNCHANGED <<clientvars, opened, cur, postsem, msgq>>

\* Mutant: the message is not done with after the answer.
PostSemKeepsCur ==
    /\ dpc = "postsem"
    /\ dpc' = "getmsg"
    /\ postsem' = [postsem EXCEPT ![Process(cur.thread)] =
                       @ \/ Process(cur.thread) \in opened]
    /\ UNCHANGED <<clientvars, opened, cur, postret, msgq>>

\* DosPostEventSem fails, unnoticed, when the daemon has closed the handle.
PostSem ==
    /\ dpc = "postsem"
    /\ dpc' = "getmsg"
    /\ cur' = NoMsg
    /\ postsem' = [postsem EXCEPT ![Process(cur.thread)] =
                       @ \/ Process(cur.thread) \in opened]
    /\ UNCHANGED <<clientvars, opened, postret, msgq>>

-------------------------------------------------------------------------------
Exec(t) == \/ Lock(t) \/ LockTimeout(t) \/ ResetSem(t) \/ PostMsg(t)
           \/ WaitSem(t) \/ Release(t) \/ Return(t)

Daemon == Handle \/ Answer \/ PostSem

Next == \/ \E t \in Threads :
              \/ OpenDisplay(t) \/ XCall(t) \/ CloseDisplay(t)
              \/ Exec(t)
        \/ Daemon

\* A thread inside Daemon_exec runs on, a mutex request that cannot be granted
\* times out, and the daemon's message loop keeps dispatching.  Nothing makes a
\* client call an X function.
Fairness == /\ \A t \in Threads : WF_vars(Exec(t))
            /\ WF_vars(Daemon)

Spec == Init /\ [][Next]_vars
FairSpec == Spec /\ Fairness

-------------------------------------------------------------------------------
(* Properties.                                                             *)

Pcs == {"out", "lock", "reset", "post", "wait", "release", "return"}

\* The types of the variables.
TypeOK ==
    /\ pc \in [Threads -> Pcs]
    /\ kind \in [Threads -> Kinds]
    /\ ncalls \in [Threads -> Nat]
    /\ returned \in [Threads -> Call \cup {NoCall}]
    /\ session \in [Procs -> {"new", "opening", "open", "closing"}]
    /\ postmtx \in [Procs -> Threads \cup {NoThread}]
    /\ postsem \in [Procs -> BOOLEAN]
    /\ postret \in [Procs -> Call \cup {NoCall}]
    /\ opened \subseteq Procs
    /\ msgq \in Seq(Msg)
    /\ dpc \in {"getmsg", "answer", "postsem"}
    /\ cur \in Msg \cup {NoMsg}
    /\ cur = NoMsg <=> dpc = "getmsg"

\* A thread that Daemon_exec's wait has let through finds the result of its
\* own call in postret as long as it keeps postmtx: neither a stale post of
\* postsem nor the answer to another thread's call can wake it.
OwnReply ==
    \A t \in Threads : pc[t] = "release" => postret[Process(t)] = CurrentCall(t)

\* Of the messages of one process the daemon has never more than one to work
\* on: the handlers' parameters and the reply cell belong to a single call.
Pending == 1..Len(msgq)
OneMessagePerProcess ==
    /\ \A i, j \in Pending :
           i # j => Process(msgq[i].thread) # Process(msgq[j].thread)
    /\ dpc # "getmsg" =>
           \A i \in Pending : Process(msgq[i].thread) # Process(cur.thread)

\* Daemon_exec comes back: every call other than the one of XCloseDisplay
\* ends, whatever the other threads of the process do.
ExecReturns ==
    \A t \in Threads :
        (pc[t] # "out" /\ kind[t] # "UM_FREERESOURCES") ~> (pc[t] = "out")

\* XCloseDisplay comes back to its caller, as samples/test/test.c relies on.
CloseReturns ==
    \A t \in Threads :
        (pc[t] # "out" /\ kind[t] = "UM_FREERESOURCES") ~> (pc[t] = "out")

\* An X function returns the result of the call it made, from whatever thread
\* of the process it was invoked (the head comment of xdaemon/lib/Thread.c).
ReturnsOwnResult ==
    \A t \in Threads :
        pc[t] = "out" /\ ncalls[t] > 0 => returned[t] = CurrentCall(t)

-------------------------------------------------------------------------------
(* The refinement of RemoteCall: a call is accepted when its thread has    *)
(* got postmtx, and executed when the handler has run.                     *)

Executed(t) == \/ pc[t] = "release"
               \/ /\ pc[t] = "wait"
                  /\ \A i \in Pending : msgq[i].thread # t

Stage(t) == IF pc[t] \in {"out", "return"} THEN "none"
            ELSE IF pc[t] = "lock" THEN "made"
            ELSE IF Executed(t) THEN "executed"
            ELSE "accepted"

Promise == INSTANCE RemoteCall WITH stage <- [t \in Threads |-> Stage(t)]

\* Daemon_exec and pmhwndproc keep the promise of RemoteCall.
KeepsPromise == Promise!Spec
===============================================================================
