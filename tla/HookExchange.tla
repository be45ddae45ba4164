----------------------------- MODULE HookExchange -----------------------------
(***************************************************************************)
(* The message hooks of ebhook.dll, the window procedures of the daemon    *)
(* they call, and the global lock both share with drawing clients.         *)
(*                                                                         *)
(* EbInstallHooks installs the hooks in the daemon's own message queue     *)
(* (USEAPPHOOK, HMQ_CURRENT), so hooks, window procedures and UM_ handlers *)
(* all run on the daemon's PM thread, nested in each other: a handler that *)
(* creates, shows or destroys a window sends a message, the send hook      *)
(* writes it into msgxchange and sends UM_HOOKMSG to pmhwndproc, which     *)
(* reads it back.  The nesting is the call stack below.  Clients run in    *)
(* their own processes and take global_lock around XCopyArea and           *)
(* XCopyPlane.                                                             *)
(***************************************************************************)
EXTENDS Naturals, Sequences

CONSTANTS Clients,     \* processes that draw
          Daemon,      \* the daemon, as an owner of mutexes
          Nobody,
          MaxMsgs,     \* bound: window messages and UM_ messages in a behaviour
          MaxDepth,    \* bound: nested calls on the daemon's stack
          MaxHooked,   \* requests one owner may have on an OS/2 mutex (65535)
          MaxRefused   \* bound: XCopyPlane calls with unusable arguments

ASSUME HookAssumption == /\ Daemon \notin Clients
                         /\ Nobody \notin Clients \cup {Daemon}
                         /\ {MaxMsgs, MaxDepth, MaxHooked, MaxRefused} \subseteq Nat
                         /\ MaxDepth > 0

VARIABLES
    stack,          \* the daemon's calls, the innermost last
    nmsgs,          \* messages so far, which numbers them
    handled,        \* UM_ messages handled to the end
    msgxchange,     \* the message handed over
    msgparameter,   \* pCtlData of the last WM_CREATE
    readAccess,     \* hevReadAccess is posted
    writeAccess,    \* hevWriteAccess is posted
    hmtxAccess,     \* requests the daemon has on hmtxAccess
    lock,           \* global_lock: owner and number of requests
    lockDead,       \* global_lock's owner died
    client,         \* where each client is
    refused         \* XCopyPlane calls so far that returned early

exchange == <<msgxchange, msgparameter, readAccess, writeAccess, hmtxAccess>>
lockvars == <<lock, lockDead>>
clientvars == <<client, refused>>
vars == <<stack, nmsgs, handled, exchange, lockvars, clientvars>>

NoFrame == [call |-> "none", pc |-> "none", msg |-> 0, create |-> FALSE,
            got |-> FALSE, arg |-> 0, param |-> 0]
Frame(call, pc, msg, create) ==
    [NoFrame EXCEPT !.call = call, !.pc = pc, !.msg = msg, !.create = create]

Top       == IF stack = <<>> THEN NoFrame ELSE stack[Len(stack)]
Under     == SubSeq(stack, 1, Len(stack) - 1)
SetTop(f) == stack' = Append(Under, f)
Pop       == stack' = Under
Push(f)   == stack' = Append(stack, f)

\* The message loop, a handler and hook_msg (WinUpdateWindow) may call window
\* procedures; what they dispatch or send may be of interest to a hook, except
\* for what hook_msg sends.
CanSend == Top.pc \in {"none", "body", "hookmsg"} /\ Len(stack) < MaxDepth
CanHook == Top.pc \in {"none", "body"} /\ Len(stack) < MaxDepth

Init ==
    /\ stack = <<>>
    /\ nmsgs = 0
    /\ handled = 0
    /\ msgxchange = 0
    /\ msgparameter = 0
    /\ readAccess = FALSE      \* main has called EbReleaseHookDataAccess
    /\ writeAccess = TRUE
    /\ hmtxAccess = 0
    /\ lock = [owner |-> Nobody, count |-> 0]
    /\ lockDead = FALSE
    /\ client = [c \in Clients |-> "idle"]
    /\ refused = 0

-------------------------------------------------------------------------------
(* OS/2 mutex semaphores, as sem.c uses them.                              *)

\* DosRequestMutexSem succeeds: nobody owns the mutex, or the caller does.
Request(who) ==
    /\ ~lockDead
    /\ lock.owner \in {Nobody, who}
    /\ lock' = [owner |-> who, count |-> lock.count + 1]

\* EbLockMutexSem returns FALSE: it ran out of retries, or the owner has died.
CannotRequest(who) == lockDead \/ lock.owner \notin {Nobody, who}

\* DosReleaseMutexSem; the error it returns to anyone but the owner is ignored.
Released(who) ==
    IF lockDead \/ lock.owner # who THEN lock
    ELSE IF lock.count = 1 THEN [owner |-> Nobody, count |-> 0]
    ELSE [lock EXCEPT !.count = @ - 1]

-------------------------------------------------------------------------------
(* The daemon's PM thread.                                                 *)

\* WinDispatchMsg calls pmhwndproc with a UM_ message of a client.
UmMessage ==
    /\ stack = <<>>
    /\ nmsgs < MaxMsgs
    /\ nmsgs' = nmsgs + 1
    /\ Push(Frame("um", "lock", nmsgs', FALSE))
    /\ UNCHANGED <<handled, exchange, lockvars, clientvars>>

\* A message reaches xpmwndproc, brdrwndproc, framewndproc or inputwndproc,
\* dispatched or sent, with no hook interested in it.
WindowMessage ==
    /\ CanSend
    /\ nmsgs < MaxMsgs
    /\ nmsgs' = nmsgs + 1
    /\ Push(Frame("wnd", "lock", nmsgs', FALSE))
    /\ UNCHANGED <<handled, exchange, lockvars, clientvars>>

\* Mutant: a handler inside another one does not request the lock again, though
\* it releases it like any other.
GetHookAccessOnce ==
    /\ Top.pc = "lock"
    /\ ~lockDead
    /\ lock.owner \in {Nobody, Daemon}
    /\ lock' = [owner |-> Daemon, count |-> IF lock.count = 0 THEN 1 ELSE lock.count]
    /\ SetTop([Top EXCEPT !.pc = "body", !.got = TRUE])
    /\ UNCHANGED <<nmsgs, handled, exchange, lockDead, clientvars>>

\* EbGetHookAccess at the top of every window procedure.
GetHookAccess ==
    /\ Top.pc = "lock"
    /\ Request(Daemon)
    /\ SetTop([Top EXCEPT !.pc = "body", !.got = TRUE])
    /\ UNCHANGED <<nmsgs, handled, exchange, lockDead, clientvars>>

\* EbGetHookAccess's result is ignored.
GetHookAccessFails ==
    /\ Top.pc = "lock"
    /\ CannotRequest(Daemon)
    /\ SetTop([Top EXCEPT !.pc = "body", !.got = FALSE])
    /\ UNCHANGED <<nmsgs, handled, exchange, lockvars, clientvars>>

\* Mutant: a handler that returns early when a hook has run inside it.
EndHandlerEarly ==
    /\ Top.pc = "body"
    /\ handled' = IF Top.call = "um" THEN handled + 1 ELSE handled
    /\ lock' = IF msgxchange > Top.msg THEN lock ELSE Released(Daemon)
    /\ Pop
    /\ UNCHANGED <<nmsgs, exchange, lockDead, clientvars>>

\* The end of the handler: for a UM_ message the caller is answered, then
\* EbReleaseHookAccess.
EndHandler ==
    /\ Top.pc = "body"
    /\ handled' = IF Top.call = "um" THEN handled + 1 ELSE handled
    /\ lock' = Released(Daemon)
    /\ Pop
    /\ UNCHANGED <<nmsgs, exchange, lockDead, clientvars>>

\* _inputQueueHook, for a message the message loop has got, and _sendMsgHook,
\* for WM_DESTROY, WM_SHOW and WM_SETFOCUS a handler sends.
Hook ==
    /\ CanHook
    /\ nmsgs < MaxMsgs
    /\ nmsgs' = nmsgs + 1
    /\ Push(Frame("hook", "write", nmsgs', FALSE))
    /\ UNCHANGED <<handled, exchange, lockvars, clientvars>>

\* Mutant: pCtlData is kept only by the outermost WM_CREATE.
CreateHookOnce ==
    /\ CanHook
    /\ stack # <<>>
    /\ nmsgs < MaxMsgs
    /\ nmsgs' = nmsgs + 1
    /\ msgparameter' = IF msgparameter = 0 THEN nmsgs' ELSE msgparameter
    /\ Push(Frame("hook", "write", nmsgs', TRUE))
    /\ UNCHANGED <<handled, msgxchange, readAccess, writeAccess, hmtxAccess,
                   lockvars, clientvars>>

\* _sendMsgHook for WM_CREATE keeps pCtlData aside before it asks for access.
CreateHook ==
    /\ CanHook
    /\ stack # <<>>
    /\ nmsgs < MaxMsgs
    /\ nmsgs' = nmsgs + 1
    /\ msgparameter' = nmsgs'
    /\ Push(Frame("hook", "write", nmsgs', TRUE))
    /\ UNCHANGED <<handled, msgxchange, readAccess, writeAccess, hmtxAccess,
                   lockvars, clientvars>>

\* Mutant: EbHookReleaseWriteAccess does not post hevReadAccess.
WriteMessageUnposted ==
    /\ Top.pc = "write"
    /\ writeAccess
    /\ msgxchange' = Top.msg
    /\ writeAccess' = FALSE
    /\ SetTop([Top EXCEPT !.pc = "read"])
    /\ UNCHANGED <<nmsgs, handled, msgparameter, readAccess, hmtxAccess, lockvars,
                   clientvars>>

\* EbHookGetWriteAccess(TRUE) finds hevWriteAccess posted; the message is
\* stored, EbHookReleaseWriteAccess resets hevWriteAccess and posts
\* hevReadAccess, and WinSendMsg calls pmhwndproc.  NeverWaitsForItself shows
\* that hevWriteAccess is always posted here: what _forceWriteAccess does when
\* it is not (kill the owner of global_lock) is not reached.
WriteMessage ==
    /\ Top.pc = "write"
    /\ writeAccess
    /\ msgxchange' = Top.msg
    /\ writeAccess' = FALSE
    /\ readAccess' = TRUE
    /\ SetTop([Top EXCEPT !.pc = "read"])
    /\ UNCHANGED <<nmsgs, handled, msgparameter, hmtxAccess, lockvars, clientvars>>

\* UM_HOOKMSG: EbGetHookDataAccess waits for hevReadAccess without a limit, and
\* the fields of msgxchange become the arguments of hook_msg.
ReadMessage ==
    /\ Top.pc = "read"
    /\ readAccess
    /\ SetTop([Top EXCEPT !.pc = "enter", !.arg = msgxchange])
    /\ UNCHANGED <<nmsgs, handled, exchange, lockvars, clientvars>>

\* Mutant: EbReleaseHookDataAccess is forgotten.
EnterHookMsgKeepsData ==
    /\ Top.pc = "enter"
    /\ hmtxAccess' = IF hmtxAccess < MaxHooked THEN hmtxAccess + 1 ELSE hmtxAccess
    /\ SetTop([Top EXCEPT !.pc = "hookmsg",
                          !.param = IF Top.create THEN msgparameter ELSE 0])
    /\ UNCHANGED <<nmsgs, handled, msgxchange, msgparameter, readAccess, writeAccess,
                   lockvars, clientvars>>


\* hook_msg begins with EbWaitForHookAccess, which requests hmtxAccess; nobody
\* else does, so it never has to wait, and beyond the limit the request fails
\* with an error that is not ERROR_TIMEOUT.  EbReleaseHookDataAccess then
\* resets hevReadAccess and posts hevWriteAccess.
EnterHookMsg ==
    /\ Top.pc = "enter"
    /\ hmtxAccess' = IF hmtxAccess < MaxHooked THEN hmtxAccess + 1 ELSE hmtxAccess
    /\ readAccess' = FALSE
    /\ writeAccess' = TRUE
    /\ SetTop([Top EXCEPT !.pc = "hookmsg",
                          !.param = IF Top.create THEN msgparameter ELSE 0])
    /\ UNCHANGED <<nmsgs, handled, msgxchange, msgparameter, lockvars, clientvars>>

\* hook_msg ends with EbReleaseHookAccess, which releases global_lock.
LeaveHookMsg ==
    /\ Top.pc = "hookmsg"
    /\ lock' = Released(Daemon)
    /\ Pop
    /\ UNCHANGED <<nmsgs, handled, exchange, lockDead, clientvars>>

-------------------------------------------------------------------------------
(* Clients that draw.                                                      *)

DrawBegin(c) ==
    /\ client[c] = "idle"
    /\ client' = [client EXCEPT ![c] = "lock"]
    /\ UNCHANGED <<stack, nmsgs, handled, exchange, lockvars, refused>>

DrawLock(c) ==
    /\ client[c] = "lock"
    /\ Request(c)
    /\ client' = [client EXCEPT ![c] = "draw"]
    /\ UNCHANGED <<stack, nmsgs, handled, exchange, lockDead, refused>>

\* The client draws all the same.
DrawLockFails(c) ==
    /\ client[c] = "lock"
    /\ CannotRequest(c)
    /\ client' = [client EXCEPT ![c] = "draw"]
    /\ UNCHANGED <<stack, nmsgs, handled, exchange, lockvars, refused>>

DrawEnd(c) ==
    /\ client[c] = "draw"
    /\ lock' = Released(c)
    /\ client' = [client EXCEPT ![c] = "idle"]
    /\ UNCHANGED <<stack, nmsgs, handled, exchange, lockDead, refused>>

\* XCopyPlane returns between EbGetHookAccess and EbReleaseHookAccess when a
\* drawable has no height or there is no GC.
CopyPlaneRefused(c) ==
    /\ client[c] = "draw"
    /\ refused < MaxRefused
    /\ refused' = refused + 1
    /\ client' = [client EXCEPT ![c] = "idle"]
    /\ UNCHANGED <<stack, nmsgs, handled, exchange, lockvars>>

\* The client's process ends; a mutex it owns dies with it.
Die(c) ==
    /\ client[c] # "dead"
    /\ client' = [client EXCEPT ![c] = "dead"]
    /\ lockDead' = (lockDead \/ lock.owner = c)
    /\ UNCHANGED <<stack, nmsgs, handled, exchange, lock, refused>>

-------------------------------------------------------------------------------
\* Something to do arrives at the daemon, or the innermost call goes on.
Arrival == UmMessage \/ WindowMessage \/ Hook \/ CreateHook
GoOn == \/ GetHookAccess \/ GetHookAccessFails \/ EndHandler
        \/ WriteMessage \/ ReadMessage \/ EnterHookMsg \/ LeaveHookMsg

ClientStep(c) == \/ DrawBegin(c) \/ DrawLock(c) \/ DrawLockFails(c)
                 \/ DrawEnd(c) \/ CopyPlaneRefused(c) \/ Die(c)

Next == Arrival \/ GoOn \/ \E c \in Clients : ClientStep(c)

Spec == Init /\ [][Next]_vars

\* The PM thread, which main makes time critical, runs as long as a call on its
\* stack can go on; its mutex requests time out.  Clients owe nothing, and no
\* message has to arrive.
FairSpec == Spec /\ WF_vars(GoOn)

-------------------------------------------------------------------------------
(* Properties.                                                             *)

TypeOK ==
    /\ stack \in Seq([call : {"um", "wnd", "hook"},
                      pc : {"lock", "body", "write", "read", "enter", "hookmsg"},
                      msg : 1..MaxMsgs, create : BOOLEAN, got : BOOLEAN,
                      arg : 0..MaxMsgs, param : 0..MaxMsgs])
    /\ Len(stack) <= MaxDepth
    /\ {nmsgs, handled, msgxchange, msgparameter} \subseteq 0..MaxMsgs
    /\ {readAccess, writeAccess, lockDead} \subseteq BOOLEAN
    /\ hmtxAccess \in 0..MaxHooked
    /\ lock \in [owner : Clients \cup {Daemon, Nobody}, count : Nat]
    /\ client \in [Clients -> {"idle", "lock", "draw", "dead"}]
    /\ refused \in 0..MaxRefused

\* A handler that has got global_lock has it to its end, whatever it nests and
\* whatever becomes of the clients, unless a hook has run inside it: hook_msg
\* releases a request that is not its own.  Messages are numbered as they come,
\* so that msgxchange shows whether a hook has run since the handler began.
HandlerKeepsLock ==
    \A i \in 1..Len(stack) :
        stack[i].got /\ msgxchange < stack[i].msg => lock.owner = Daemon /\ ~lockDead

\* hook_msg works on the message its own hook stored, and a WM_CREATE on the
\* parameter of its own window, however deep the calls are nested.
OwnMessage ==
    \A i \in 1..Len(stack) :
        /\ stack[i].pc \in {"enter", "hookmsg"} => stack[i].arg = stack[i].msg
        /\ stack[i].pc = "hookmsg" /\ stack[i].create =>
               stack[i].param = stack[i].msg

\* The PM thread never waits for itself: whenever a hook asks for write access
\* hevWriteAccess is posted, so that _forceWriteAccess neither waits nor kills
\* the owner of global_lock, and whenever pmhwndproc asks for read access
\* hevReadAccess is posted.
NeverWaitsForItself ==
    /\ Top.pc = "write" => writeAccess
    /\ Top.pc = "read" => readAccess

\* At its message loop the daemon has given global_lock back, so that clients
\* can draw, whatever its handlers nested and whichever requests failed.
IdleReleasesLock == stack = <<>> => lock.owner # Daemon \/ lockDead

\* A client's crash or a lock it keeps does not stop the daemon: each message
\* that pmhwndproc begins is handled to the end.
UmHandled == stack # <<>> ~> stack = <<>>
===============================================================================
