---------------------------- MODULE MCClientData ----------------------------
(***************************************************************************)
(* What a client keeps for itself, in one run: the event queue of its      *)
(* display, its contexts, its regions and its resource database.  They     *)
(* share no state: a behaviour is one of one of them, chosen at the        *)
(* beginning out of Parts, while the others stay as they are.              *)
(***************************************************************************)
EXTENDS EventQueue, ContextTable, Regions, ResourceDatabase, TLC

CONSTANTS Parts,         \* those that the run is of
          x1, x2, k0, k1, k2, k3, k4, foo, Foo, bar

VARIABLE part

(* One client, and two that select the same events.                        *)
MCOne == {x1}
MCTwo == {x1, x2}
MCKeyHash == (k0 :> 0) @@ (k1 :> 1) @@ (k2 :> 2) @@ (k3 :> 4) @@ (k4 :> 6)

(* Three levels of a query, which may have the same name; specifiers of up *)
(* to three components, the longer ones with fewer names.                  *)
MCLevels == {[name |-> foo, class |-> Foo], [name |-> bar, class |-> Foo]}
MCQueries == UNION {[1 .. n -> MCLevels] : n \in 0 .. 3}
MCSpecifiers ==
  LET components == [tight : BOOLEAN, name : {foo, Foo, XrmQANY}]
  IN {s \in UNION {[1 .. n -> components] : n \in 1 .. 3} :
        CASE Len(s) = 1 -> s[1].name # XrmQANY
          [] Len(s) = 2 -> \/ s[2].name = foo
                           \/ s[2].name = Foo /\ s[1] = [tight |-> TRUE, name |-> foo]
          [] Len(s) = 3 -> /\ s[1].name = foo /\ s[2].name # Foo
                           /\ s[3] = [tight |-> TRUE, name |-> foo]}

Symmetry == Permutations(Threads) \cup Permutations(Data)

clientDataVars == <<part, vars, contextVars, regionVars, databaseVars>>

ClientInit ==
  /\ part \in Parts
  /\ Init /\ ContextInit /\ RegionInit /\ DatabaseInit

ClientNext ==
  \/ /\ part = "queue" /\ Next
     /\ UNCHANGED <<part, contextVars, regionVars, databaseVars>>
  \/ /\ part = "context" /\ ContextNext
     /\ UNCHANGED <<part, vars, regionVars, databaseVars>>
  \/ /\ part = "regions" /\ RegionNext
     /\ UNCHANGED <<part, vars, contextVars, databaseVars>>
  \/ /\ part = "database" /\ DatabaseNext
     /\ UNCHANGED <<part, vars, contextVars, regionVars>>

ClientSpec == ClientInit /\ [][ClientNext]_clientDataVars
ClientFairSpec == ClientSpec /\ EventFairness

(* One invariant for the types of all of them.                             *)
ClientTypeOK ==
  /\ part = "queue" => TypeOK
  /\ part = "context" => ContextTypeOK
  /\ part = "regions" => RegionTypeOK
  /\ part = "database" => DatabaseTypeOK
=============================================================================
