--------------------------- MODULE DaemonLifecycle ---------------------------
(***************************************************************************)
(* How the daemon comes up, takes clients, notices that they have gone and *)
(* goes down: xdaemon/lib/register.c, the reaper of xdaemon/lib/Thread.c,  *)
(* main of xdaemon/app/xdaemon.c and the client's side of it in            *)
(* lib/x11/OpenDisplay.c.                                                  *)
(*                                                                         *)
(* phase, daemonthread, processlist and checkProcesses are data of         *)
(* xdaemon.dll, which all processes share (SINGLE SHARED) and which is     *)
(* fresh when a first process loads the library.  Each section between     *)
(* EbGetHookAccess and EbReleaseHookAccess is one action, global_lock      *)
(* being held; the request may also fail, and then the code takes the path *)
(* it has for that, if it has one.                                         *)
(***************************************************************************)
EXTENDS Integers

CONSTANTS Clients,    \* processes that use X11.dll
          Daemons,    \* xdaemon.exe processes
          Nobody

ASSUME LifecycleAssumption == Nobody \notin Clients \cup Daemons

VARIABLES
    \* shared data of the libraries
    phase, daemonthread,
    anchored,        \* processlist # NULL
    members,         \* the processes in processlist
    checkProcesses,
    hookOwner,       \* the daemon whose hooks are installed (hookhab)
    fFinish,         \* ebhook's shutdown flag
    record,          \* the client's EB_Process, as its procres shows it
    died,            \* EB_Process.threadcount = -1
    \* processes
    client, daemon,  \* where each is
    killed,          \* clients Daemon_shutdown has killed
    cleaned,         \* clients whose resources um_freeResources has freed
    scan,            \* what is left of Daemon_doTasks's walk
    sawList          \* Daemon_shutdown's current # NULL

shared == <<phase, daemonthread, anchored, members, checkProcesses, hookOwner,
            fFinish, record, died>>
locals == <<client, daemon, killed, cleaned, scan, sawList>>
vars == <<shared, locals>>

MainThread == 1     \* *_threadid in main; -1 is no thread

Running(c)  == client[c] # "gone"
Up(d)       == daemon[d] \notin {"none", "ended"}
Attached    == \/ \E c \in Clients : Running(c)
               \/ \E d \in Daemons : Up(d)

Init ==
    /\ phase = 0
    /\ daemonthread = -1
    /\ anchored = FALSE
    /\ members = {}
    /\ checkProcesses = FALSE
    /\ hookOwner = Nobody
    /\ fFinish = FALSE
    /\ record = [c \in Clients |-> "none"]
    /\ died = [c \in Clients |-> FALSE]
    /\ client = [c \in Clients |-> "gone"]
    /\ daemon = [d \in Daemons |-> "none"]
    /\ killed = {}
    /\ cleaned = {}
    /\ scan = {}
    /\ sawList = FALSE

\* The data of the libraries, when no process had them loaded.
Fresh ==
    /\ phase' = 0
    /\ daemonthread' = -1
    /\ anchored' = FALSE
    /\ members' = {}
    /\ checkProcesses' = FALSE
    /\ hookOwner' = Nobody
    /\ fFinish' = FALSE
    /\ record' = [c \in Clients |-> "none"]
    /\ died' = [c \in Clients |-> FALSE]

-------------------------------------------------------------------------------
(* Clients.                                                                *)

Move(c, from, to) == /\ client[c] = from
                     /\ client' = [client EXCEPT ![c] = to]

\* A program linked with X11.dll starts; its pid is not that of a process still
\* listed.
StartClient(c) ==
    /\ Move(c, "gone", "out")
    /\ Attached => c \notin members
    /\ IF Attached
       THEN /\ record' = [record EXCEPT ![c] = "none"]
            /\ died' = [died EXCEPT ![c] = FALSE]
            /\ UNCHANGED <<phase, daemonthread, anchored, members, checkProcesses,
                           hookOwner, fFinish>>
       ELSE Fresh
    /\ killed' = killed \ {c}
    /\ cleaned' = cleaned \ {c}
    /\ UNCHANGED <<daemon, scan, sawList>>

\* XOpenDisplay, Daemon_getProcess: a daemon has been started, or is now.
\* startDaemon counts a session that DosStartSession created as a success.
FindDaemon(c) ==
    /\ Move(c, "out", "poll")
    /\ \/ /\ phase # 0
          /\ UNCHANGED <<phase, daemon>>
       \/ /\ phase = 0
          /\ phase' = 1
          /\ \E d \in Daemons : /\ ~Up(d)
                                /\ daemon' = [daemon EXCEPT ![d] = "main"]
    /\ UNCHANGED <<daemonthread, anchored, members, checkProcesses, hookOwner,
                   fFinish, record, died, killed, cleaned, scan, sawList>>

\* Mutant: a client that gives up takes its start of the daemon back.
GetProcessTakesBack(c) ==
    /\ Move(c, "poll", "out")
    /\ phase # 3
    /\ phase' = phase - 1
    /\ UNCHANGED <<daemonthread, anchored, members, checkProcesses, hookOwner, fFinish,
                   record, died, daemon, killed, cleaned, scan, sawList>>

\* Daemon_getProcess returns False: the daemon is not ready after the poll (40
\* times 25 ms), having come too late or gone.
GetProcessFails(c) ==
    /\ Move(c, "poll", "out")
    /\ phase # 3
    /\ UNCHANGED <<shared, daemon, killed, cleaned, scan, sawList>>

\* phase is read without global_lock.
SeeReady(c) ==
    /\ Move(c, "poll", "create")
    /\ phase = 3
    /\ UNCHANGED <<shared, daemon, killed, cleaned, scan, sawList>>

\* The result of this EbGetHookAccess is ignored, the EB_Process is allocated in
\* any case, and Daemon_getPMHandle fills in its pid.
CreateRecord(c) ==
    /\ Move(c, "create", "link")
    /\ record' = [record EXCEPT ![c] = IF @ = "none" THEN "live" ELSE @]
    /\ UNCHANGED <<phase, daemonthread, anchored, members, checkProcesses, hookOwner,
                   fFinish, died, daemon, killed, cleaned, scan, sawList>>

\* addResource(&processlist, *procres)
LinkRecord(c) ==
    /\ Move(c, "link", "connected")
    /\ anchored' = TRUE
    /\ members' = members \cup {c}
    /\ UNCHANGED <<phase, daemonthread, checkProcesses, hookOwner, fFinish, record,
                   died, daemon, killed, cleaned, scan, sawList>>

\* Without global_lock the process is not listed, and the call succeeds.
LinkFails(c) ==
    /\ Move(c, "link", "connected")
    /\ UNCHANGED <<shared, daemon, killed, cleaned, scan, sawList>>

\* The process ends, by itself or killed: ExitHandler calls Daemon_died, which
\* marks the EB_Process, if it still has one ...
MarkDied(c) ==
    /\ client[c] \in {"out", "poll", "create", "link", "connected"}
    /\ client' = [client EXCEPT ![c] = "dying"]
    /\ died' = [died EXCEPT ![c] = (record[c] = "live")]
    /\ UNCHANGED <<phase, daemonthread, anchored, members, checkProcesses, hookOwner,
                   fFinish, record, daemon, killed, cleaned, scan, sawList>>

\* ... and only then sets the flag the daemon polls.
RaiseFlag(c) ==
    /\ Move(c, "dying", "gone")
    /\ checkProcesses' = TRUE
    /\ UNCHANGED <<phase, daemonthread, anchored, members, hookOwner, fFinish,
                   record, died, daemon, killed, cleaned, scan, sawList>>

-------------------------------------------------------------------------------
(* xdaemon.exe.                                                            *)

Step(d, from, to) == /\ daemon[d] = from
                     /\ daemon' = [daemon EXCEPT ![d] = to]

\* Started by hand.
StartDaemonByHand(d) ==
    /\ ~Up(d)
    /\ daemon' = [daemon EXCEPT ![d] = "main"]
    /\ IF Attached THEN UNCHANGED shared ELSE Fresh
    /\ UNCHANGED <<client, killed, cleaned, scan, sawList>>

\* Mutant: Daemon_register does not ask whether a daemon is there.
RegisterAgain(d) ==
    /\ Step(d, "main", "registered")
    /\ daemonthread' = MainThread
    /\ phase' = 2
    /\ UNCHANGED <<anchored, members, checkProcesses, hookOwner, fFinish, record, died,
                   client, killed, cleaned, scan, sawList>>

\* Daemon_register, and the exit list entry main adds after it.
Register(d) ==
    /\ Step(d, "main", "registered")
    /\ daemonthread = -1
    /\ phase <= 1
    /\ daemonthread' = MainThread
    /\ phase' = 2
    /\ UNCHANGED <<anchored, members, checkProcesses, hookOwner, fFinish, record, died,
                   client, killed, cleaned, scan, sawList>>

\* Daemon_register returns FALSE, or the process ends before it: exit(1).
EndUnregistered(d) ==
    /\ Step(d, "main", "ended")
    /\ UNCHANGED <<shared, client, killed, cleaned, scan, sawList>>

\* Daemon_xinitialized, after initializePM.
XInitialized(d) ==
    /\ Step(d, "registered", "loop")
    /\ daemonthread = MainThread
    /\ phase = 2
    /\ hookOwner' = d
    /\ phase' = 3
    /\ UNCHANGED <<daemonthread, anchored, members, checkProcesses, fFinish, record,
                   died, client, killed, cleaned, scan, sawList>>

\* It returns FALSE without global_lock; main goes on all the same.
XInitializedFails(d) ==
    /\ Step(d, "registered", "loop")
    /\ UNCHANGED <<shared, client, killed, cleaned, scan, sawList>>

\* WM_TIMER: Daemon_doTasks takes the flag back before it walks the list.
DoTasks(d) ==
    /\ Step(d, "loop", "scan")
    /\ checkProcesses
    /\ checkProcesses' = FALSE
    /\ scan' = members
    /\ UNCHANGED <<phase, daemonthread, anchored, members, hookOwner, fFinish, record,
                   died, client, killed, cleaned, sawList>>

\* Mutant: the EB_Process is freed but stays listed.
DoTasksTurnKeepsListed(d) ==
    /\ daemon[d] = "scan"
    /\ \E c \in scan :
         /\ cleaned' = IF died[c] THEN cleaned \cup {c} ELSE cleaned
         /\ record'  = [record EXCEPT ![c] = "freed"]
         /\ died'    = [died EXCEPT ![c] = FALSE]
         /\ scan'    = scan \ {c}
    /\ UNCHANGED <<phase, daemonthread, anchored, members, checkProcesses, hookOwner,
                   fFinish, client, daemon, killed, sawList>>

\* One turn of its loop: um_freeResources for a process that died;
\* freeResource, which frees the EB_Process and takes it out of the list, is
\* outside that condition.
DoTasksTurn(d) ==
    /\ daemon[d] = "scan"
    /\ \E c \in scan :
         /\ cleaned' = IF died[c] THEN cleaned \cup {c} ELSE cleaned
         /\ record'  = [record EXCEPT ![c] = "freed"]
         /\ died'    = [died EXCEPT ![c] = FALSE]
         /\ members' = members \ {c}
         /\ scan'    = scan \ {c}
    /\ UNCHANGED <<phase, daemonthread, anchored, checkProcesses, hookOwner, fFinish,
                   client, daemon, killed, sawList>>

\* Mutant: the flag is taken back after the walk, not before it.
DoTasksEndClears(d) ==
    /\ scan = {}
    /\ Step(d, "scan", "loop")
    /\ checkProcesses' = FALSE
    /\ UNCHANGED <<phase, daemonthread, anchored, members, hookOwner, fFinish, record,
                   died, client, killed, cleaned, scan, sawList>>

DoTasksEnd(d) ==
    /\ scan = {}
    /\ Step(d, "scan", "loop")
    /\ UNCHANGED <<shared, client, killed, cleaned, scan, sawList>>

\* The message loop ends, or the process does and Xlib_ExitHandler runs.
\* Daemon_shutdown reads processlist before it asks for global_lock.
Quit(d) ==
    /\ daemon[d] \in {"registered", "loop", "scan"}
    /\ daemon' = [daemon EXCEPT ![d] = "shutdown"]
    /\ sawList' = anchored
    /\ scan' = {}
    /\ UNCHANGED <<shared, client, killed, cleaned>>

ShutDown(d) ==
    /\ Step(d, "shutdown", "ended")
    /\ daemonthread = MainThread
    /\ phase = 3
    /\ hookOwner' = Nobody
    /\ fFinish' = TRUE
    /\ killed' = IF sawList THEN killed \cup members ELSE killed
    /\ phase' = 4
    /\ UNCHANGED <<daemonthread, anchored, members, checkProcesses, record, died,
                   client, cleaned, scan, sawList>>

\* Daemon_shutdown returns FALSE: it has no global_lock, or the daemon had not
\* become ready.
ShutDownFails(d) ==
    /\ Step(d, "shutdown", "ended")
    /\ UNCHANGED <<shared, client, killed, cleaned, scan, sawList>>

-------------------------------------------------------------------------------
ClientStep(c) ==
    \/ StartClient(c) \/ FindDaemon(c) \/ GetProcessFails(c) \/ SeeReady(c)
    \/ CreateRecord(c) \/ LinkRecord(c) \/ LinkFails(c) \/ MarkDied(c) \/ RaiseFlag(c)

DaemonStep(d) ==
    \/ StartDaemonByHand(d) \/ Register(d) \/ EndUnregistered(d) \/ XInitialized(d)
    \/ XInitializedFails(d) \/ DoTasks(d) \/ DoTasksTurn(d) \/ DoTasksEnd(d)
    \/ Quit(d) \/ ShutDown(d) \/ ShutDownFails(d)

Next == \/ \E c \in Clients : ClientStep(c)
        \/ \E d \in Daemons : DaemonStep(d)

Spec == Init /\ [][Next]_vars

\* A dying process finishes its exit list, and the timer of a daemon in its
\* message loop keeps firing.
FairSpec ==
    /\ Spec
    /\ \A c \in Clients : WF_vars(RaiseFlag(c))
    /\ \A d \in Daemons : WF_vars(DoTasks(d) \/ DoTasksTurn(d) \/ DoTasksEnd(d))
-------------------------------------------------------------------------------
(* Properties.                                                             *)

TypeOK ==
    /\ phase \in 0..4
    /\ daemonthread \in {-1, MainThread}
    /\ anchored \in BOOLEAN
    /\ members \subseteq Clients
    /\ checkProcesses \in BOOLEAN
    /\ hookOwner \in Daemons \cup {Nobody}
    /\ fFinish \in BOOLEAN
    /\ record \in [Clients -> {"none", "live", "freed"}]
    /\ died \in [Clients -> BOOLEAN]
    /\ client \in [Clients ->
           {"gone", "out", "poll", "create", "link", "connected", "dying"}]
    /\ daemon \in [Daemons ->
           {"none", "main", "registered", "loop", "scan", "shutdown", "ended"}]
    /\ killed \subseteq Clients
    /\ cleaned \subseteq Clients
    /\ scan \subseteq Clients
    /\ sawList \in BOOLEAN

\* However many daemons are started, by clients or by hand, at most one gets
\* past Daemon_register: only one owns PM windows, hooks and processlist.
InCharge(d) == daemon[d] \in {"registered", "loop", "scan", "shutdown"}
OneDaemon == \A d, e \in Daemons : InCharge(d) /\ InCharge(e) => d = e

\* Whoever walks processlist, Daemon_doTasks or Daemon_shutdown, finds an
\* EB_Process behind each entry, though clients enter the list, end and come
\* back while the walk goes on; and no process is put in the list twice.
ListedHasRecord ==
    /\ \A c \in members : record[c] = "live"
    /\ scan \subseteq members
    /\ \A c \in Clients : client[c] = "link" => c \notin members

\* Everything um_freeResources has to free for a listed process that has ended
\* is freed, as long as the daemon is in its message loop: the order in which
\* checkProcesses is changed (head comment of Daemon_died) loses no death.
DeadAreReaped ==
    \A c \in Clients :
        (died[c] /\ c \in members) ~>
            (c \in cleaned \/ \A d \in Daemons : daemon[d] \notin {"loop", "scan"})

\* The reaper frees the processes that have died, and no other: a client that
\* is connected keeps its EB_Process.
LiveKeepsRecord ==
    \A c \in Clients : client[c] = "connected" => record[c] = "live"
===============================================================================
