--------------------------- MODULE DaemonExecProofs ---------------------------
(***************************************************************************)
(* Proofs that the safety properties of DaemonExec hold for any number of  *)
(* processes, threads and calls.                                           *)
(*                                                                         *)
(* Neither property is inductive.  That a thread let through by the wait   *)
(* finds its own result follows from a chain of facts: the mutex is held   *)
(* from the reset of postsem to the release, so that the messages a        *)
(* process has on their way belong to the one thread that holds it and     *)
(* waits; postsem stays reset as long as such a message is on its way; and *)
(* the daemon posts postsem only after it has written the result.          *)
(***************************************************************************)
EXTENDS DaemonExec, TLAPS

Holding == {"reset", "post", "wait", "release"}

\* A thread is between EbLockMutexSem and EbReleaseMutexSem exactly when it owns
\* the mutex.
HoldersOwn == \A t \in Threads : pc[t] \in Holding <=> postmtx[ProcOf[t]] = t

\* A message on its way is that of a waiting thread whose postsem is reset.
IsAwaited(m) == /\ pc[m.thread] = "wait"
                /\ m.n = ncalls[m.thread]
                /\ ~postsem[ProcOf[m.thread]]

QueuedAwaited == \A i \in 1..Len(msgq) : IsAwaited(msgq[i])
CurAwaited    == dpc # "getmsg" => IsAwaited(cur)

\* No thread has two messages on their way.
QueuedDistinct == \A i, j \in 1..Len(msgq) :
                      i # j => msgq[i].thread # msgq[j].thread
CurDistinct    == dpc # "getmsg" =>
                      \A i \in 1..Len(msgq) : msgq[i].thread # cur.thread

\* postsem is reset before the message is posted, and posted after the answer.
ResetBeforePost == \A t \in Threads : pc[t] = "post" => ~postsem[ProcOf[t]]
PostedAnswered  == \A t \in Threads :
    pc[t] = "wait" /\ postsem[ProcOf[t]] => postret[ProcOf[t]] = CurrentCall(t)
CurAnswered     == dpc = "postsem" => postret[ProcOf[cur.thread]] = CallOf(cur)

IInv == /\ HoldersOwn /\ QueuedAwaited /\ CurAwaited
        /\ QueuedDistinct /\ CurDistinct
        /\ ResetBeforePost /\ PostedAnswered /\ CurAnswered
        /\ OwnReply

-------------------------------------------------------------------------------
(* Type correctness.                                                       *)

\* NoMsg, the value of cur between two messages, is no message.
LEMMA NoMsgIsNoMsg == NoMsg \notin Msg /\ NoCall \notin Call
  BY ExecAssumption DEF NoMsg, Msg, NoCall, Call

\* Every step of a client's thread keeps the types.
LEMMA ThreadTypes ==
  ASSUME TypeOK, NEW t \in Threads,
         OpenDisplay(t) \/ XCall(t) \/ CloseDisplay(t) \/ Exec(t)
  PROVE  TypeOK'
<1> USE ExecAssumption DEF TypeOK, Pcs, Kinds, Call, NoCall, Process, daemonvars
<1>1. CASE OpenDisplay(t)
  BY <1>1 DEF OpenDisplay, Enter
<1>2. CASE XCall(t)
  BY <1>2 DEF XCall, Enter
<1>3. CASE CloseDisplay(t)
  BY <1>3 DEF CloseDisplay, Enter
<1>4. CASE Lock(t)
  BY <1>4 DEF Lock, Goto
<1>5. CASE LockTimeout(t)
  BY <1>5 DEF LockTimeout, Goto
<1>6. CASE ResetSem(t)
  BY <1>6 DEF ResetSem, Goto
<1>7. CASE PostMsg(t)
  <2>1. [thread |-> t, n |-> ncalls[t], kind |-> kind[t]] \in Msg
    BY DEF Msg
  <2>2. msgq' \in Seq(Msg)
    BY <1>7, <2>1 DEF PostMsg
  <2> QED
    BY <1>7, <2>2 DEF PostMsg, Goto
<1>8. CASE WaitSem(t)
  BY <1>8 DEF WaitSem, Goto
<1>9. CASE Release(t)
  BY <1>9 DEF Release, Goto
<1>10. CASE Return(t)
  BY <1>10 DEF Return, Goto
<1> QED
  BY <1>1, <1>2, <1>3, <1>4, <1>5, <1>6, <1>7, <1>8, <1>9, <1>10 DEF Exec

\* Every step of the daemon keeps the types.
LEMMA DaemonTypes == ASSUME TypeOK, Daemon PROVE TypeOK'
<1> USE ExecAssumption, NoMsgIsNoMsg DEF TypeOK, Process, clientvars
<1>1. CASE Handle
  <2>1. Head(msgq) \in Msg /\ msgq' \in Seq(Msg)
    BY <1>1 DEF Handle
  <2>2. opened' \subseteq Procs
    <3>1. ProcOf[Head(msgq).thread] \in Procs
      BY <2>1 DEF Msg
    <3> QED
      BY <1>1, <3>1 DEF Handle
  <2> QED
    BY <1>1, <2>1, <2>2 DEF Handle
<1>2. CASE Answer
  <2>1. cur \in Msg
    BY <1>2 DEF Answer
  <2>2. CallOf(cur) \in Call
    BY <2>1 DEF Msg, Call, CallOf
  <2> QED
    BY <1>2, <2>2 DEF Answer
<1>3. CASE PostSem
  BY <1>3 DEF PostSem
<1> QED
  BY <1>1, <1>2, <1>3 DEF Daemon

\* The variables of DaemonExec keep their types.
THEOREM TypeCorrect == Spec => []TypeOK
<1>1. Init => TypeOK
  BY ExecAssumption, NoMsgIsNoMsg DEF Init, TypeOK, Pcs, Kinds, NoCall
<1>2. TypeOK /\ [Next]_vars => TypeOK'
  <2> SUFFICES ASSUME TypeOK, [Next]_vars PROVE TypeOK'
    OBVIOUS
  <2>1. CASE Next
    BY <2>1, ThreadTypes, DaemonTypes DEF Next
  <2>2. CASE UNCHANGED vars
    BY <2>2 DEF TypeOK, vars, clientvars, daemonvars
  <2> QED
    BY <2>1, <2>2
<1> QED
  BY <1>1, <1>2, PTL DEF Spec
-------------------------------------------------------------------------------
(* The inductive invariant.                                                *)

\* The messages on their way are typed, and so are their threads.
LEMMA Outstanding ==
  ASSUME TypeOK
  PROVE  /\ \A i \in 1..Len(msgq) : msgq[i] \in Msg /\ msgq[i].thread \in Threads
         /\ dpc # "getmsg" => cur \in Msg /\ cur.thread \in Threads
<1>1. \A i \in 1..Len(msgq) : msgq[i] \in Msg
  BY DEF TypeOK
<1>2. dpc # "getmsg" => cur \in Msg
  BY DEF TypeOK
<1>3. \A m \in Msg : m.thread \in Threads
  BY DEF Msg
<1> QED
  BY <1>1, <1>2, <1>3

\* Two threads of a process do not hold its mutex.
LEMMA OneHolder ==
  ASSUME IInv, NEW t \in Threads, NEW u \in Threads,
         pc[t] \in Holding, pc[u] \in Holding, ProcOf[t] = ProcOf[u]
  PROVE  t = u
BY DEF IInv, HoldersOwn

\* Every step of a client's thread keeps the invariant.
LEMMA ThreadKeeps ==
  ASSUME TypeOK, IInv, NEW t \in Threads,
         OpenDisplay(t) \/ XCall(t) \/ CloseDisplay(t) \/ Exec(t)
  PROVE  IInv'
<1> USE ExecAssumption, Outstanding
    DEF IInv, HoldersOwn, QueuedAwaited, CurAwaited, QueuedDistinct, CurDistinct,
        ResetBeforePost, PostedAnswered, CurAnswered, OwnReply, IsAwaited,
        Holding, CurrentCall, Process, daemonvars
<1>1. CASE Enter(t, kind'[t]) /\ UNCHANGED <<postmtx, daemonvars, postsem, postret, msgq>>
  BY <1>1 DEF Enter, TypeOK
<1>2. CASE Lock(t)
  <2>1. ProcOf[t] \in Procs /\ postmtx[ProcOf[t]] = NoThread
    BY <1>2 DEF Lock
  <2>2. /\ pc' = [pc EXCEPT ![t] = "reset"] /\ pc[t] = "lock"
        /\ postmtx' = [postmtx EXCEPT ![ProcOf[t]] = t]
        /\ UNCHANGED <<kind, ncalls, postsem, postret, msgq, dpc, cur>>
    BY <1>2 DEF Lock, Goto
  <2>3. HoldersOwn'
    BY <2>1, <2>2 DEF TypeOK
  <2>4. QueuedAwaited' /\ CurAwaited' /\ QueuedDistinct' /\ CurDistinct'
    BY <2>2 DEF TypeOK
  <2>5. ResetBeforePost' /\ PostedAnswered' /\ CurAnswered' /\ OwnReply'
    BY <2>2 DEF TypeOK
  <2> QED
    BY <2>3, <2>4, <2>5
<1>3. CASE LockTimeout(t)
  BY <1>3 DEF LockTimeout, Goto, TypeOK
<1>4. CASE ResetSem(t)
  BY <1>4 DEF ResetSem, Goto, TypeOK
<1>5. CASE PostMsg(t)
  BY <1>5 DEF PostMsg, Goto, TypeOK
<1>6. CASE WaitSem(t)
  BY <1>6 DEF WaitSem, Goto, TypeOK
<1>7. CASE Release(t)
  BY <1>7 DEF Release, Goto, TypeOK
<1>8. CASE Return(t)
  BY <1>8 DEF Return, Goto, TypeOK
<1>9. OpenDisplay(t) \/ XCall(t) \/ CloseDisplay(t) =>
          Enter(t, kind'[t]) /\ UNCHANGED <<postmtx, daemonvars, postsem, postret, msgq>>
  BY DEF OpenDisplay, XCall, CloseDisplay, Enter, TypeOK
<1> QED
  BY <1>1, <1>2, <1>3, <1>4, <1>5, <1>6, <1>7, <1>8, <1>9 DEF Exec

\* Every step of the daemon keeps the invariant.
LEMMA DaemonKeeps == ASSUME TypeOK, IInv, Daemon PROVE IInv'
<1> USE ExecAssumption, Outstanding
    DEF IInv, HoldersOwn, QueuedAwaited, CurAwaited, QueuedDistinct, CurDistinct,
        ResetBeforePost, PostedAnswered, CurAnswered, OwnReply, IsAwaited,
        Holding, CurrentCall, CallOf, Process, clientvars
<1>1. CASE Handle
  BY <1>1 DEF Handle, TypeOK
<1>2. CASE Answer
  BY <1>2 DEF Answer, TypeOK
<1>3. CASE PostSem
  BY <1>3 DEF PostSem, TypeOK
<1> QED
  BY <1>1, <1>2, <1>3 DEF Daemon

\* A thread that Daemon_exec's wait has let through finds the result of its own
\* call in postret, and a process has at most one message on its way.
THEOREM InvariantHolds == Spec => []IInv
<1>1. Init => IInv
  <2> SUFFICES ASSUME Init PROVE IInv
    OBVIOUS
  <2>1. HoldersOwn
    BY ExecAssumption DEF Init, HoldersOwn, Holding
  <2> QED
    BY <2>1 DEF Init, IInv, QueuedAwaited, CurAwaited, QueuedDistinct, CurDistinct,
                ResetBeforePost, PostedAnswered, CurAnswered, OwnReply
<1>2. TypeOK /\ IInv /\ [Next]_vars => IInv'
  <2> SUFFICES ASSUME TypeOK, IInv, [Next]_vars PROVE IInv'
    OBVIOUS
  <2>1. CASE Next
    BY <2>1, ThreadKeeps, DaemonKeeps DEF Next
  <2>2. CASE UNCHANGED vars
    BY <2>2 DEF IInv, HoldersOwn, QueuedAwaited, CurAwaited, QueuedDistinct,
                CurDistinct, ResetBeforePost, PostedAnswered, CurAnswered, OwnReply,
                IsAwaited, CurrentCall, CallOf, Process, vars, clientvars, daemonvars
  <2> QED
    BY <2>1, <2>2
<1> QED
  BY <1>1, <1>2, TypeCorrect, PTL DEF Spec

\* The reply cell holds the waiting thread's own result until it gives the
\* mutex back.
THEOREM OwnReplyHolds == Spec => []OwnReply
<1>1. IInv => OwnReply
  BY DEF IInv
<1> QED
  BY <1>1, InvariantHolds, PTL

\* The daemon never has two messages of one process to work on.
THEOREM OneMessageHolds == Spec => []OneMessagePerProcess
<1>1. TypeOK /\ IInv => OneMessagePerProcess
  <2> SUFFICES ASSUME TypeOK, IInv PROVE OneMessagePerProcess
    OBVIOUS
  <2>1. \A m, n \in Msg : /\ m.thread \in Threads /\ n.thread \in Threads
                          /\ IsAwaited(m) /\ IsAwaited(n)
                          /\ ProcOf[m.thread] = ProcOf[n.thread]
                          => m.thread = n.thread
    BY OneHolder DEF IsAwaited, Holding
  <2>2. ASSUME NEW i \in Pending, NEW j \in Pending, i # j
        PROVE  Process(msgq[i].thread) # Process(msgq[j].thread)
    BY <2>1, <2>2, Outstanding DEF Pending, Process, IInv, QueuedAwaited, QueuedDistinct
  <2>3. ASSUME dpc # "getmsg", NEW i \in Pending
        PROVE  Process(msgq[i].thread) # Process(cur.thread)
    BY <2>1, <2>3, Outstanding
       DEF Pending, Process, IInv, QueuedAwaited, CurAwaited, CurDistinct
  <2> QED
    BY <2>2, <2>3 DEF OneMessagePerProcess
<1> QED
  BY <1>1, TypeCorrect, InvariantHolds, PTL

-------------------------------------------------------------------------------
(* The refinement.                                                         *)

\* What a step that changes the pc of one thread, and no message, does to the
\* stages.
LEMMA StageOfOthers ==
  ASSUME NEW t \in Threads, pc' = [pc EXCEPT ![t] = pc'[t]], TypeOK, msgq' = msgq,
         NEW u \in Threads, u # t
  PROVE  Stage(u)' = Stage(u)
BY DEF Stage, Executed, Pending, TypeOK

\* stage, as RemoteCall sees it.
Mapped == [t \in Threads |-> Stage(t)]

LEMMA MappedChange ==
  ASSUME NEW t \in Threads, \A u \in Threads \ {t} : Stage(u)' = Stage(u)
  PROVE  Mapped' = [Mapped EXCEPT ![t] = Stage(t)']
BY DEF Mapped

\* Every step of a client's thread is a step of RemoteCall, or none.
LEMMA ThreadRefines ==
  ASSUME TypeOK, IInv, NEW t \in Threads,
         OpenDisplay(t) \/ XCall(t) \/ CloseDisplay(t) \/ Exec(t)
  PROVE  [Promise!Next]_Mapped
<1> DEFINE Only == /\ pc' = [pc EXCEPT ![t] = pc'[t]]
                   /\ msgq' = msgq
<1>1. Only => Mapped' = [Mapped EXCEPT ![t] = Stage(t)']
  BY StageOfOthers, MappedChange
<1>2. CASE pc[t] = "out" /\ pc'[t] = "lock" /\ Only
  <2>1. Stage(t) = "none" /\ Stage(t)' = "made"
    BY <1>2 DEF Stage
  <2> QED
    BY <1>1, <1>2, <2>1 DEF Promise!Next, Promise!Make, Mapped
<1>3. CASE Lock(t)
  <2>1. Only /\ pc[t] = "lock" /\ pc'[t] = "reset"
    BY <1>3 DEF Lock, Goto, TypeOK
  <2>2. Stage(t) = "made" /\ Stage(t)' = "accepted"
    BY <2>1 DEF Stage, Executed
  <2>3. ASSUME NEW u \in Threads, ProcOf[u] = ProcOf[t] PROVE ~Promise!Begun(u)
    <3>1. pc[u] \notin Holding
      BY <1>3, <2>3, ExecAssumption DEF Lock, Process, IInv, HoldersOwn
    <3>2. pc[u] \in {"out", "lock", "return"}
      BY <3>1 DEF TypeOK, Pcs, Holding
    <3> QED
      BY <3>2 DEF Promise!Begun, Stage
  <2>4. Promise!Accept(t)
    BY <1>1, <2>1, <2>2, <2>3 DEF Promise!Accept, Mapped
  <2> QED
    BY <2>4 DEF Promise!Next
<1>4. CASE LockTimeout(t)
  <2>1. Only /\ pc[t] = "lock" /\ pc'[t] = "return"
    BY <1>4 DEF LockTimeout, Goto, TypeOK
  <2>2. Stage(t) = "made" /\ Stage(t)' = "none"
    BY <2>1 DEF Stage
  <2> QED
    BY <1>1, <2>1, <2>2 DEF Promise!Next, Promise!GiveUp, Mapped
<1>5. CASE ResetSem(t)
  <2>1. Only /\ pc[t] = "reset" /\ pc'[t] = "post"
    BY <1>5 DEF ResetSem, Goto, TypeOK
  <2>2. Stage(t)' = Stage(t)
    BY <2>1 DEF Stage, Executed
  <2> QED
    BY <1>1, <2>1, <2>2 DEF Mapped
<1>6. CASE PostMsg(t)
  <2> DEFINE m == [thread |-> t, n |-> ncalls[t], kind |-> kind[t]]
  <2>1. /\ pc[t] = "post" /\ pc' = [pc EXCEPT ![t] = "wait"]
        /\ msgq \in Seq(Msg) /\ msgq' = Append(msgq, m) /\ m \in Msg
        /\ pc \in [Threads -> Pcs]
    BY <1>6 DEF PostMsg, Goto, TypeOK, Msg
  <2>2. /\ Len(msgq') = Len(msgq) + 1 /\ Len(msgq) \in Nat
        /\ msgq'[Len(msgq) + 1].thread = t
        /\ \A i \in 1..Len(msgq) : msgq'[i] = msgq[i]
    BY <2>1
  <2>3. Stage(t)' = Stage(t)
    BY <2>1, <2>2 DEF Stage, Executed, Pending
  <2>4. ASSUME NEW u \in Threads, u # t PROVE Stage(u)' = Stage(u)
    <3>1. (\A i \in 1..Len(msgq') : msgq'[i].thread # u)
              <=> (\A i \in 1..Len(msgq) : msgq[i].thread # u)
      BY <2>2, <2>4
    <3> QED
      BY <2>1, <2>4, <3>1 DEF Stage, Executed, Pending
  <2> QED
    BY <2>3, <2>4 DEF Mapped
<1>7. CASE WaitSem(t)
  <2>1. Only /\ pc[t] = "wait" /\ pc'[t] = "release" /\ postsem[ProcOf[t]]
    BY <1>7 DEF WaitSem, Goto, TypeOK, Process
  <2>2. \A i \in Pending : msgq[i].thread # t
    BY <2>1 DEF Pending, IInv, QueuedAwaited, IsAwaited
  <2>3. Stage(t)' = Stage(t)
    BY <2>1, <2>2 DEF Stage, Executed
  <2> QED
    BY <1>1, <2>1, <2>3 DEF Mapped
<1>8. CASE Release(t)
  <2>1. Only /\ pc[t] = "release" /\ pc'[t] = "return"
    BY <1>8 DEF Release, Goto, TypeOK
  <2>2. Stage(t) = "executed" /\ Stage(t)' = "none"
    BY <2>1 DEF Stage, Executed
  <2> QED
    BY <1>1, <2>1, <2>2 DEF Promise!Next, Promise!Return, Mapped
<1>9. CASE Return(t)
  <2>1. Only /\ pc[t] = "return" /\ pc'[t] = "out"
    BY <1>9 DEF Return, Goto, TypeOK
  <2>2. Stage(t)' = Stage(t)
    BY <2>1 DEF Stage
  <2> QED
    BY <1>1, <2>1, <2>2 DEF Mapped
<1>10. OpenDisplay(t) \/ XCall(t) \/ CloseDisplay(t) =>
           pc[t] = "out" /\ pc'[t] = "lock" /\ Only
  BY DEF OpenDisplay, XCall, CloseDisplay, Enter, TypeOK
<1> QED
  BY <1>2, <1>3, <1>4, <1>5, <1>6, <1>7, <1>8, <1>9, <1>10 DEF Exec

\* Every step of the daemon is one, or none.
LEMMA DaemonRefines == ASSUME TypeOK, IInv, Daemon PROVE [Promise!Next]_Mapped
<1>1. CASE Handle
  <2>1. /\ msgq \in Seq(Msg) /\ msgq # <<>> /\ msgq' = Tail(msgq)
        /\ pc' = pc /\ Head(msgq) = msgq[1] /\ Len(msgq) \in Nat \ {0}
    BY <1>1 DEF Handle, TypeOK, clientvars
  <2>2. /\ Len(msgq') = Len(msgq) - 1
        /\ \A i \in 1..Len(msgq') : msgq'[i] = msgq[i + 1]
    BY <2>1
  <2>3. PICK t \in Threads : t = msgq[1].thread /\ pc[t] = "wait"
    BY <2>1, Outstanding DEF IInv, QueuedAwaited, IsAwaited
  <2>4. \A i \in 1..Len(msgq') : msgq'[i].thread # t
    BY <2>1, <2>2, <2>3 DEF IInv, QueuedDistinct
  <2>5. Stage(t) = "accepted" /\ Stage(t)' = "executed"
    <3>1. ~Executed(t)
      BY <2>1, <2>3 DEF Executed, Pending
    <3>2. Executed(t)'
      BY <2>1, <2>3, <2>4 DEF Executed, Pending
    <3> QED
      BY <2>1, <2>3, <3>1, <3>2 DEF Stage
  <2>6. ASSUME NEW u \in Threads, u # t PROVE Stage(u)' = Stage(u)
    <3>1. (\A i \in 1..Len(msgq') : msgq'[i].thread # u)
              <=> (\A i \in 1..Len(msgq) : msgq[i].thread # u)
      <4>1. ASSUME \A i \in 1..Len(msgq') : msgq'[i].thread # u,
                   NEW i \in 1..Len(msgq)
            PROVE  msgq[i].thread # u
        <5>1. CASE i = 1
          BY <2>3, <2>6, <5>1
        <5>2. CASE i # 1
          <6>1. i - 1 \in 1..Len(msgq') /\ msgq'[i - 1] = msgq[i]
            BY <2>1, <2>2, <5>2
          <6> QED
            BY <4>1, <6>1
        <5> QED
          BY <5>1, <5>2
      <4>2. ASSUME \A i \in 1..Len(msgq) : msgq[i].thread # u,
                   NEW i \in 1..Len(msgq')
            PROVE  msgq'[i].thread # u
        BY <2>1, <2>2, <4>2
      <4> QED
        BY <4>1, <4>2
    <3> QED
      BY <2>1, <3>1 DEF Stage, Executed, Pending
  <2>7. Mapped' = [Mapped EXCEPT ![t] = Stage(t)']
    BY <2>6, MappedChange
  <2>8. Promise!Execute(t)
    BY <2>3, <2>5, <2>7 DEF Promise!Execute, Mapped
  <2> QED
    BY <2>3, <2>8 DEF Promise!Next
<1>2. CASE Answer \/ PostSem
  BY <1>2 DEF Answer, PostSem, clientvars, Mapped, Stage, Executed, Pending
<1> QED
  BY <1>1, <1>2 DEF Daemon

\* Daemon_exec and pmhwndproc implement RemoteCall.
THEOREM PromiseKept == Spec => KeepsPromise
<1>1. Init => Promise!Init
  BY DEF Init, Promise!Init, Stage
<1>2. TypeOK /\ IInv /\ [Next]_vars => [Promise!Next]_(Promise!callvars)
  <2> SUFFICES ASSUME TypeOK, IInv, [Next]_vars PROVE [Promise!Next]_Mapped
    BY DEF Promise!callvars, Mapped
  <2>1. CASE Next
    BY <2>1, ThreadRefines, DaemonRefines DEF Next
  <2>2. CASE UNCHANGED vars
    BY <2>2 DEF vars, clientvars, Mapped, Stage, Executed, Pending
  <2> QED
    BY <2>1, <2>2
<1> QED
  BY <1>1, <1>2, TypeCorrect, InvariantHolds, PTL DEF Spec, KeepsPromise, Promise!Spec
===============================================================================
