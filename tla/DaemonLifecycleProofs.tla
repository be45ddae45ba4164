------------------------ MODULE DaemonLifecycleProofs ------------------------
(***************************************************************************)
(* Proofs that the safety properties of DaemonLifecycle hold for any       *)
(* number of clients and daemon processes.                                 *)
(*                                                                         *)
(* OneDaemon rests on daemonthread: it is set for as long as a daemon is   *)
(* in charge, because only the library's being loaded afresh takes it      *)
(* back, which no running daemon survives.  ListedHasRecord rests on a     *)
(* client not being listed before it has been given an EB_Process, and on  *)
(* the reaper's walk being that of the one daemon.                         *)
(***************************************************************************)
EXTENDS DaemonLifecycle, TLAPS

InChargeRegistered == \A d \in Daemons : InCharge(d) => daemonthread = MainThread

\* Only a walking daemon has a rest of the list to walk, and it is listed.
WalkIsDaemons == scan # {} => \E d \in Daemons : daemon[d] = "scan"

\* Clients that are not listed yet.
NotListedYet == \A c \in Clients :
    /\ client[c] \in {"out", "poll", "create", "link"} => c \notin members
    /\ client[c] \in {"out", "poll", "create"} => record[c] = "none"
    /\ client[c] = "link" => record[c] = "live"

LInv == InChargeRegistered /\ OneDaemon /\ WalkIsDaemons /\ NotListedYet /\ ListedHasRecord

-------------------------------------------------------------------------------
\* The variables of DaemonLifecycle keep their types.
THEOREM TypeCorrect == Spec => []TypeOK
<1> USE DEF TypeOK, MainThread
<1>1. Init => TypeOK
  <2> SUFFICES ASSUME Init PROVE TypeOK
    OBVIOUS
  <2>1. phase \in 0..4 /\ daemonthread \in {-1, 1}
    BY DEF Init
  <2>2. /\ anchored \in BOOLEAN /\ checkProcesses \in BOOLEAN
        /\ fFinish \in BOOLEAN /\ sawList \in BOOLEAN
    BY Zenon DEF Init
  <2>3. /\ record \in [Clients -> {"none", "live", "freed"}]
        /\ died \in [Clients -> BOOLEAN]
    BY DEF Init
  <2> QED
    BY <2>1, <2>2, <2>3 DEF Init
<1>2. ASSUME Fresh
      PROVE  /\ phase' \in 0..4 /\ daemonthread' \in {-1, 1} /\ members' = {}
             /\ anchored' \in BOOLEAN /\ checkProcesses' \in BOOLEAN
             /\ fFinish' \in BOOLEAN /\ hookOwner' = Nobody
             /\ record' \in [Clients -> {"none", "live", "freed"}]
             /\ died' \in [Clients -> BOOLEAN]
  <2>1. /\ anchored' \in BOOLEAN /\ checkProcesses' \in BOOLEAN /\ fFinish' \in BOOLEAN
    BY <1>2, Zenon DEF Fresh
  <2> QED
    BY <1>2, <2>1 DEF Fresh
<1>3. ASSUME TypeOK, NEW c \in Clients, ClientStep(c) PROVE TypeOK'
  <2> USE <1>3 DEF Move
  <2>1. CASE StartClient(c)
    <3>1. CASE Attached
      BY <2>1, <3>1 DEF StartClient
    <3>2. CASE ~Attached
      BY <2>1, <3>2, <1>2 DEF StartClient
    <3> QED
      BY <3>1, <3>2
  <2>2. CASE FindDaemon(c)
    BY <2>2 DEF FindDaemon
  <2>3. CASE GetProcessFails(c) \/ SeeReady(c) \/ LinkFails(c)
    BY <2>3 DEF GetProcessFails, SeeReady, LinkFails, shared
  <2>4. CASE CreateRecord(c) \/ LinkRecord(c)
    BY <2>4 DEF CreateRecord, LinkRecord
  <2>5. CASE MarkDied(c) \/ RaiseFlag(c)
    BY <2>5 DEF MarkDied, RaiseFlag
  <2> QED
    BY <2>1, <2>2, <2>3, <2>4, <2>5 DEF ClientStep
<1>4. ASSUME TypeOK, NEW d \in Daemons, DaemonStep(d) PROVE TypeOK'
  <2> USE <1>4 DEF Step
  <2>1. CASE StartDaemonByHand(d)
    <3>1. CASE Attached
      BY <2>1, <3>1 DEF StartDaemonByHand, shared
    <3>2. CASE ~Attached
      BY <2>1, <3>2, <1>2 DEF StartDaemonByHand
    <3> QED
      BY <3>1, <3>2
  <2>2. CASE Register(d) \/ XInitialized(d)
    BY <2>2 DEF Register, XInitialized
  <2>3. CASE EndUnregistered(d) \/ XInitializedFails(d) \/ DoTasksEnd(d) \/ ShutDownFails(d)
    BY <2>3 DEF EndUnregistered, XInitializedFails, DoTasksEnd, ShutDownFails, shared
  <2>4. CASE DoTasks(d) \/ DoTasksTurn(d)
    BY <2>4 DEF DoTasks, DoTasksTurn
  <2>5. CASE Quit(d)
    <3>1. sawList' \in BOOLEAN
      BY <2>5, Zenon DEF Quit
    <3> QED
      BY <2>5, <3>1 DEF Quit, shared
  <2>6. CASE ShutDown(d)
    <3>1. fFinish' \in BOOLEAN
      BY <2>6, Zenon DEF ShutDown
    <3> QED
      BY <2>6, <3>1 DEF ShutDown
  <2> QED
    BY <2>1, <2>2, <2>3, <2>4, <2>5, <2>6 DEF DaemonStep
<1>5. TypeOK /\ [Next]_vars => TypeOK'
  <2> SUFFICES ASSUME TypeOK, [Next]_vars PROVE TypeOK'
    OBVIOUS
  <2>1. CASE Next
    BY <2>1, <1>3, <1>4 DEF Next
  <2>2. CASE UNCHANGED vars
    BY <2>2 DEF vars, shared, locals
  <2> QED
    BY <2>1, <2>2
<1> QED
  BY <1>1, <1>5, PTL DEF Spec

-------------------------------------------------------------------------------
\* When nobody has the libraries loaded no daemon is in charge, no client is on
\* its way into the list, and nobody walks it.
LEMMA FreshInv == ASSUME LInv, ~Attached PROVE
    /\ scan = {}
    /\ \A d \in Daemons : ~InCharge(d)
    /\ \A c \in Clients : client[c] = "gone"
BY DEF LInv, Attached, Up, Running, InCharge, WalkIsDaemons

\* Every step of a client keeps the invariant.
LEMMA ClientKeeps == ASSUME TypeOK, LInv, NEW c \in Clients, ClientStep(c) PROVE LInv'
<1> USE DEF TypeOK, LInv, InChargeRegistered, OneDaemon, WalkIsDaemons, NotListedYet,
            ListedHasRecord, InCharge, Move
<1>1. CASE StartClient(c)
  <2>1. CASE Attached
    BY <1>1, <2>1 DEF StartClient
  <2>2. CASE ~Attached
    BY <1>1, <2>2, FreshInv DEF StartClient, Fresh
  <2> QED
    BY <2>1, <2>2
<1>2. CASE FindDaemon(c)
  BY <1>2 DEF FindDaemon, Up
<1>3. CASE GetProcessFails(c) \/ SeeReady(c) \/ LinkFails(c)
  BY <1>3 DEF GetProcessFails, SeeReady, LinkFails, shared
<1>4. CASE CreateRecord(c)
  BY <1>4 DEF CreateRecord
<1>5. CASE LinkRecord(c)
  BY <1>5 DEF LinkRecord
<1>6. CASE MarkDied(c) \/ RaiseFlag(c)
  BY <1>6 DEF MarkDied, RaiseFlag
<1> QED
  BY <1>1, <1>2, <1>3, <1>4, <1>5, <1>6 DEF ClientStep

\* Every step of a daemon keeps the invariant.
LEMMA DaemonKeeps == ASSUME TypeOK, LInv, NEW d \in Daemons, DaemonStep(d) PROVE LInv'
<1> USE DEF TypeOK, LInv, InChargeRegistered, OneDaemon, WalkIsDaemons, NotListedYet,
            ListedHasRecord, InCharge, Step, MainThread
<1>1. CASE StartDaemonByHand(d)
  <2>1. CASE Attached
    BY <1>1, <2>1 DEF StartDaemonByHand, Up, shared
  <2>2. CASE ~Attached
    BY <1>1, <2>2, FreshInv DEF StartDaemonByHand, Fresh
  <2> QED
    BY <2>1, <2>2
<1>2. CASE Register(d)
  BY <1>2 DEF Register
<1>3. CASE EndUnregistered(d)
  BY <1>3 DEF EndUnregistered, shared
<1>4. CASE XInitialized(d) \/ XInitializedFails(d)
  BY <1>4 DEF XInitialized, XInitializedFails, shared
<1>5. CASE DoTasks(d)
  BY <1>5 DEF DoTasks
<1>6. CASE DoTasksTurn(d)
  BY <1>6 DEF DoTasksTurn
<1>7. CASE DoTasksEnd(d)
  BY <1>7 DEF DoTasksEnd, shared
<1>8. CASE Quit(d)
  BY <1>8 DEF Quit, shared
<1>9. CASE ShutDown(d) \/ ShutDownFails(d)
  BY <1>9 DEF ShutDown, ShutDownFails, shared
<1> QED
  BY <1>1, <1>2, <1>3, <1>4, <1>5, <1>6, <1>7, <1>8, <1>9 DEF DaemonStep

\* The strengthened invariant holds in every behaviour.
THEOREM InvariantHolds == Spec => []LInv
<1>1. Init => LInv
  BY DEF Init, LInv, InChargeRegistered, OneDaemon, WalkIsDaemons, NotListedYet,
         ListedHasRecord, InCharge
<1>2. TypeOK /\ LInv /\ [Next]_vars => LInv'
  <2> SUFFICES ASSUME TypeOK, LInv, [Next]_vars PROVE LInv'
    OBVIOUS
  <2>1. CASE Next
    BY <2>1, ClientKeeps, DaemonKeeps DEF Next
  <2>2. CASE UNCHANGED vars
    BY <2>2 DEF LInv, InChargeRegistered, OneDaemon, WalkIsDaemons, NotListedYet,
                ListedHasRecord, InCharge, vars, shared, locals
  <2> QED
    BY <2>1, <2>2
<1> QED
  BY <1>1, <1>2, TypeCorrect, PTL DEF Spec

\* However many daemons are started, at most one is in charge.
THEOREM OneDaemonHolds == Spec => []OneDaemon
<1>1. LInv => OneDaemon
  BY DEF LInv
<1> QED
  BY <1>1, InvariantHolds, PTL

\* Every entry of processlist has its EB_Process behind it.
THEOREM ListedHasRecordHolds == Spec => []ListedHasRecord
<1>1. LInv => ListedHasRecord
  BY DEF LInv
<1> QED
  BY <1>1, InvariantHolds, PTL
===============================================================================
