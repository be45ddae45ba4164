----------------------------- MODULE EventMasks -----------------------------
(***************************************************************************)
(* Who gets the events of a window.  A client that selects events on a     *)
(* window gets a pair of nodes: an EBEVENTMASK1 in the doubly linked chain *)
(* of the window and an EBEVENTMASK2 in the chain of its process, each     *)
(* with the address of the other.  XSelectInput runs in the client and     *)
(* writes the chains store by store, without a lock.  The daemon is time   *)
(* critical on one processor: it creates and destroys windows and frees    *)
(* what a process leaves between any two accesses of a client, but no      *)
(* client runs in the middle of that.                                      *)
(***************************************************************************)
EXTENDS Naturals, FiniteSetsExt

CONSTANTS MaskClients,      \* processes with a display, one thread each
          MaskWindows,      \* windows that can be created
          EventBits,        \* the kinds of events that are told apart
          KeyPressMask,     \* the one whose bit is 1
          Asked,            \* window -> the masks clients ask for there
          MaxPairs,         \* bound: pairs of nodes ever created
          NULL

ASSUME MaskAssumption ==
  /\ KeyPressMask \in EventBits
  /\ Asked \in [MaskWindows -> SUBSET SUBSET EventBits]
  /\ MaxPairs \in Nat \ {0}
  /\ MaskClients \cap MaskWindows = {}
  /\ NULL \notin MaskClients \cup MaskWindows

VARIABLES wlife,      \* EB_Window: "none", "live" or "gone"
          wowner,     \* the process that has the window in process->res
          wmask,      \* ebw->event_mask
          open,       \* processes with a usable EB_Process
          anchored,   \* windows and processes whose event_masks is not NULL
          links,      \* next and prev of all nodes
          em,         \* pair -> its window, its process and event_mask
          freed,      \* pairs of which one node is freed, the other void
          call,       \* client -> its place in Daemon_addEventMask
          selected,   \* history: what XSelectInput has last promised
          harm,       \* history: somebody used what another had changed
          crossed     \* history: windows with two XSelectInput at once

windows == <<wlife, wowner, wmask>>
chains == <<anchored, links, em, freed>>
maskVars == <<windows, chains, open, call, selected, harm, crossed>>
-----------------------------------------------------------------------------
Pairs == 1 .. MaxPairs
Anchor(x) == <<"anchor", x>>
Em1(m) == <<"em1", m>>
Em2(m) == <<"em2", m>>
ChainNodes == {Em1(m) : m \in Pairs} \cup {Em2(m) : m \in Pairs}
Anchors == {Anchor(x) : x \in MaskWindows \cup MaskClients}
MaskNodes == ChainNodes \cup Anchors
PairOf(n) == n[2]
PairType == [win : MaskWindows, proc : MaskClients, mask : SUBSET EventBits]

ASSUME NullAssumption == NULL \notin MaskNodes \cup PairType

Places == {"idle", "check", "find", "link", "anchor", "back", "publish",
           "or", "dead"}
Idle == [pc |-> "idle", w |-> NULL, mask |-> {}, cur |-> NULL, new |-> NULL,
         nxt |-> NULL]

(* A chain as a loop over next meets it, from its anchor: the nodes without*)
(* which no set has what follows on the anchor and on each of its own.     *)
Follows(l, x, S) ==
  /\ l.next[Anchor(x)] \in S \cup {NULL}
  /\ \A n \in S : l.next[n] \in S \cup {NULL}
NodesFrom(l, x) ==
  {n \in ChainNodes : \A S \in SUBSET (ChainNodes \ {n}) : ~Follows(l, x, S)}
Chain(x) == IF x \in anchored THEN NodesFrom(links, x) ELSE {}

UnChainResource(n, l) ==
  LET p == l.prev[n]
      q == l.next[n]
      unprev == IF q = NULL THEN l.prev ELSE [l.prev EXCEPT ![q] = p]
      unnext == IF p = NULL THEN l.next ELSE [l.next EXCEPT ![p] = q]
  IN [next |-> [unnext EXCEPT ![n] = NULL], prev |-> [unprev EXCEPT ![n] = NULL]]

(* createResource twice and addResource twice, with nobody in between.     *)
AddResource(x, n, l) ==
  LET first == IF x \in anchored THEN l.next[Anchor(x)] ELSE NULL
      back == [l.prev EXCEPT ![n] = Anchor(x)]
  IN [next |-> [l.next EXCEPT ![n] = first, ![Anchor(x)] = n],
      prev |-> IF first = NULL THEN back ELSE [back EXCEPT ![first] = n]]

\* Mutant: the other node of the pair stays in its chain.
FreeMetNodes(chain, l) == FoldSet(UnChainResource, l, chain)

(* Daemon_freeEventMask of a chain: of each pair that is met one node is   *)
(* given back to the heap, the other loses its ebresource, and both are    *)
(* unchained.                                                              *)
FreeEventMask(chain, l) ==
  FoldSet(UnChainResource, l,
          UNION {{Em1(PairOf(n)), Em2(PairOf(n))} : n \in chain})

Fresh == {m \in Pairs : em[m] = NULL}
NextPair == Min(Fresh)

(* The chain a client is adding to: first the window's, then its own.      *)
ChainOf(c) == IF call[c].new[1] = "em1" THEN call[c].w ELSE c
Between(c) == call[c].pc \in {"back", "publish"}
InCall(c) == call[c].pc \notin {"idle", "dead"}
NextOf(c) == IF call[c].cur = NULL THEN NULL ELSE links.next[call[c].cur]
Goto(c, place) == call' = [call EXCEPT ![c].pc = place]
-----------------------------------------------------------------------------
MasksInit ==
  /\ wlife = [w \in MaskWindows |-> "none"]
  /\ wowner = [w \in MaskWindows |-> NULL]
  /\ wmask = [w \in MaskWindows |-> {}]
  /\ open = MaskClients
  /\ anchored = {}
  /\ links = [next |-> [n \in MaskNodes |-> NULL], prev |-> [n \in MaskNodes |-> NULL]]
  /\ em = [m \in Pairs |-> NULL]
  /\ freed = {}
  /\ call = [c \in MaskClients |-> Idle]
  /\ selected = [w \in MaskWindows |-> [c \in MaskClients |-> {}]]
  /\ harm = FALSE
  /\ crossed = {}

\* Mutant: checkEventMask is always satisfied.
NeverCritical(w, mask) == {}

(* mask2 &= ((...) && current): what && yields is 0 or 1, so that of the   *)
(* mask only the bit 1 is left, which is KeyPressMask.                     *)
Critical(w, mask) == IF w \in anchored THEN mask \cap {KeyPressMask} ELSE {}
AnchorOrNull(x) == IF x \in anchored THEN Anchor(x) ELSE NULL

(* XSelectInput, up to the first look at the chain.                        *)
SelectInput(c, w, mask) ==
  /\ c \in open /\ call[c].pc = "idle"
  /\ wlife[w] = "live"
  /\ call' = [call EXCEPT ![c] =
       [pc |-> IF Critical(w, mask) # {} THEN "check" ELSE "find", w |-> w,
        mask |-> mask, cur |-> AnchorOrNull(w), new |-> NULL, nxt |-> NULL]]
  /\ crossed' = IF \E d \in MaskClients : InCall(d) /\ call[d].w = w
                THEN crossed \cup {w} ELSE crossed
  /\ UNCHANGED <<windows, chains, open, selected, harm>>

(* One turn of the loop in checkEventMask.                                 *)
CheckEventMask(c) ==
  LET n == NextOf(c)
      other == /\ n # NULL
               /\ em[PairOf(n)].mask \cap call[c].mask \cap {KeyPressMask} # {}
               /\ em[PairOf(n)].proc # c
  IN /\ call[c].pc = "check"
     /\ call' = [call EXCEPT ![c] =
          IF n = NULL THEN [@ EXCEPT !.pc = "find", !.cur = AnchorOrNull(call[c].w)]
          ELSE IF other THEN Idle                             \* BadAccess
          ELSE [@ EXCEPT !.cur = n]]
     /\ UNCHANGED <<windows, chains, open, selected, harm, crossed>>

(* One turn of the loop in Daemon_findEventMask that meets another         *)
(* client's mask.                                                          *)
FindOther(c) ==
  LET n == NextOf(c)
  IN /\ call[c].pc = "find"
     /\ n # NULL /\ em[PairOf(n)].proc # c
     /\ call' = [call EXCEPT ![c].cur = n]
     /\ UNCHANGED <<windows, chains, open, selected, harm, crossed>>

\* Mutant: the new mask is added to the one the client has.
FindOwnAndAdd(c) ==
  LET n == NextOf(c)
  IN /\ call[c].pc = "find"
     /\ n # NULL /\ em[PairOf(n)].proc = c
     /\ em' = [em EXCEPT ![PairOf(n)].mask = @ \cup call[c].mask]
     /\ Goto(c, "or")
     /\ UNCHANGED <<windows, open, anchored, links, freed, selected, harm, crossed>>

(* The client has a mask there already: it is replaced.                    *)
FindOwn(c) ==
  LET n == NextOf(c)
  IN /\ call[c].pc = "find"
     /\ n # NULL /\ em[PairOf(n)].proc = c
     /\ em' = [em EXCEPT ![PairOf(n)].mask = call[c].mask]
     /\ Goto(c, "or")
     /\ UNCHANGED <<windows, open, anchored, links, freed, selected, harm, crossed>>

(* It has none: the pair is created, which nobody else sees yet.           *)
FindNone(c) ==
  /\ call[c].pc = "find"
  /\ NextOf(c) = NULL
  /\ Fresh # {}
  /\ em' = [em EXCEPT ![NextPair] = [win |-> call[c].w, proc |-> c, mask |-> call[c].mask]]
  /\ call' = [call EXCEPT ![c].pc = "link", ![c].new = Em1(NextPair)]
  /\ UNCHANGED <<windows, open, anchored, links, freed, selected, harm, crossed>>

(* addResource finds no anchor and will create one ...                     *)
MissAnchor(c) ==
  /\ call[c].pc = "link" /\ ChainOf(c) \notin anchored
  /\ Goto(c, "anchor")
  /\ UNCHANGED <<windows, chains, open, selected, harm, crossed>>

(* ... and stores it, over the one that another client has stored.         *)
CreateAnchor(c) ==
  /\ call[c].pc = "anchor"
  /\ harm' = (ChainOf(c) \in anchored)
  /\ anchored' = anchored \cup {ChainOf(c)}
  /\ links' = [links EXCEPT !.next[Anchor(ChainOf(c))] = NULL]
  /\ Goto(c, "link")
  /\ UNCHANGED <<windows, open, em, freed, selected, crossed>>

\* Mutant: the anchor gets the new node before that has its next.
LinkEarly(c) ==
  LET first == links.next[Anchor(ChainOf(c))]
  IN /\ call[c].pc = "link" /\ ChainOf(c) \in anchored
     /\ links' = [links EXCEPT !.prev[call[c].new] = Anchor(ChainOf(c)),
                               !.next[Anchor(ChainOf(c))] = call[c].new]
     /\ call' = [call EXCEPT ![c].pc = "back", ![c].nxt = first]
     /\ harm' = \E d \in MaskClients \ {c} : Between(d) /\ ChainOf(d) = ChainOf(c)
     /\ UNCHANGED <<windows, open, anchored, em, freed, selected, crossed>>

(* new->prev = anchor; new->next = anchor->next                            *)
Link(c) ==
  LET first == links.next[Anchor(ChainOf(c))]
  IN /\ call[c].pc = "link" /\ ChainOf(c) \in anchored
     /\ links' = [links EXCEPT !.prev[call[c].new] = Anchor(ChainOf(c)),
                               !.next[call[c].new] = first]
     /\ call' = [call EXCEPT ![c].pc = "back", ![c].nxt = first]
     /\ harm' = \E d \in MaskClients \ {c} : Between(d) /\ ChainOf(d) = ChainOf(c)
     /\ UNCHANGED <<windows, open, anchored, em, freed, selected, crossed>>

(* if(new->next) new->next->prev = new                                     *)
BackLink(c) ==
  /\ call[c].pc = "back"
  /\ links' = IF call[c].nxt = NULL THEN links
              ELSE [links EXCEPT !.prev[call[c].nxt] = call[c].new]
  /\ Goto(c, "publish")
  /\ UNCHANGED <<windows, open, anchored, em, freed, selected, harm, crossed>>

(* new->prev->next = new, then addResource of the other node.              *)
Publish(c) ==
  LET n == call[c].new
  IN /\ call[c].pc = "publish"
     /\ links' = [links EXCEPT !.next[Anchor(ChainOf(c))] = n]
     /\ call' = [call EXCEPT ![c] =
          IF n[1] = "em1" THEN [@ EXCEPT !.pc = "link", !.new = Em2(PairOf(n)), !.nxt = NULL]
          ELSE [@ EXCEPT !.pc = "or"]]
     /\ UNCHANGED <<windows, open, anchored, em, freed, selected, harm, crossed>>

(* ebw->event_mask |= mask, one instruction; the call returns Success.     *)
OrMask(c) ==
  /\ call[c].pc = "or"
  /\ wmask' = [wmask EXCEPT ![call[c].w] = @ \cup call[c].mask]
  /\ selected' = [selected EXCEPT ![call[c].w][c] = call[c].mask]
  /\ call' = [call EXCEPT ![c] = Idle]
  /\ UNCHANGED <<wlife, wowner, chains, open, harm, crossed>>
-----------------------------------------------------------------------------
(* um_createWindow for a client that waits for it: Daemon_addEventMask on  *)
(* a window that has no chain yet, so that nothing is found.               *)
CreateWindow(c, w, mask) ==
  /\ c \in open /\ call[c].pc = "idle"
  /\ wlife[w] = "none"
  /\ wlife' = [wlife EXCEPT ![w] = "live"]
  /\ wowner' = [wowner EXCEPT ![w] = c]
  /\ \/ /\ mask = {}
        /\ UNCHANGED <<wmask, anchored, links, em, selected>>
     \/ /\ mask # {} /\ Fresh # {}
        /\ em' = [em EXCEPT ![NextPair] = [win |-> w, proc |-> c, mask |-> mask]]
        /\ links' = AddResource(c, Em2(NextPair), AddResource(w, Em1(NextPair), links))
        /\ anchored' = anchored \cup {w, c}
        /\ wmask' = [wmask EXCEPT ![w] = mask]
        /\ selected' = [selected EXCEPT ![w][c] = mask]
  /\ UNCHANGED <<open, freed, call, harm, crossed>>

(* A client that is in the middle of a call has read what is now freed:    *)
(* the window, a node it looks at, or the node it is linking.              *)
Hurts(c, gone, pairs) ==
  /\ InCall(c)
  /\ \/ call[c].w \in gone
     \/ /\ call[c].pc \in {"check", "find"} /\ call[c].cur \in ChainNodes
        /\ PairOf(call[c].cur) \in pairs
     \/ Between(c) /\ call[c].nxt # NULL /\ PairOf(call[c].nxt) \in pairs

(* Daemon_freeEventMask for windows and for processes.                     *)
FreeMasks(gone, procs) ==
  LET met == UNION {Chain(x) : x \in gone \cup procs}
      pairs == {PairOf(n) : n \in met}
  IN /\ links' = FreeEventMask(met, links)
     /\ freed' = freed \cup pairs
     /\ anchored' = anchored \ (gone \cup procs)
     /\ wlife' = [w \in MaskWindows |-> IF w \in gone THEN "gone" ELSE wlife[w]]
     /\ harm' = \E d \in MaskClients \ procs : Hurts(d, gone, pairs)
     /\ selected' = [w \in MaskWindows |-> [c \in MaskClients |->
                       IF w \in gone \/ c \in procs THEN {} ELSE selected[w][c]]]

(* XDestroyWindow by any client: um_destroyWindow.                         *)
DestroyWindow(c, w) ==
  /\ c \in open /\ call[c].pc = "idle"
  /\ wlife[w] = "live"
  /\ FreeMasks({w}, {})
  /\ UNCHANGED <<wowner, wmask, open, em, call, crossed>>

(* XCloseDisplay, or the reaper for a process that has died:               *)
(* um_freeResources destroys its windows and frees its masks.              *)
FreeResources(c) ==
  /\ c \in open /\ call[c].pc \in {"idle", "dead"}
  /\ FreeMasks({w \in MaskWindows : wlife[w] = "live" /\ wowner[w] = c}, {c})
  /\ open' = open \ {c}
  /\ call' = [call EXCEPT ![c] = Idle]
  /\ UNCHANGED <<wowner, wmask, em, crossed>>

(* The process ends wherever its thread is.  Daemon_freeEventMask cannot   *)
(* undo what it leaves with one of the two nodes in its chain, or with a   *)
(* back link to a node that is in none.                                    *)
DieInCall(c) ==
  /\ c \in open /\ InCall(c)
  /\ Goto(c, "dead")
  /\ harm' = \/ call[c].pc \in {"link", "anchor", "back", "publish"} /\ call[c].new[1] = "em2"
             \/ call[c].pc = "publish" /\ call[c].nxt # NULL
  /\ UNCHANGED <<windows, chains, open, selected, crossed>>

(* Once harm is done the program reads freed memory, and what it does then *)
(* is not described.                                                       *)
MasksNext ==
  /\ ~harm
  /\ \/ \E c \in MaskClients, w \in MaskWindows :
          \/ \E mask \in Asked[w] : SelectInput(c, w, mask)
          \/ \E mask \in Asked[w] \cup {{}} : CreateWindow(c, w, mask)
          \/ DestroyWindow(c, w)
     \/ \E c \in MaskClients :
          \/ CheckEventMask(c) \/ FindOther(c) \/ FindOwn(c) \/ FindNone(c)
          \/ MissAnchor(c) \/ CreateAnchor(c) \/ Link(c) \/ BackLink(c)
          \/ Publish(c) \/ OrMask(c) \/ FreeResources(c) \/ DieInCall(c)

MasksSpec == MasksInit /\ [][MasksNext]_maskVars
-----------------------------------------------------------------------------
MasksTypeOK ==
  /\ wlife \in [MaskWindows -> {"none", "live", "gone"}]
  /\ wowner \in [MaskWindows -> MaskClients \cup {NULL}]
  /\ wmask \in [MaskWindows -> SUBSET EventBits]
  /\ open \subseteq MaskClients
  /\ anchored \subseteq MaskWindows \cup MaskClients
  /\ links \in [next : [MaskNodes -> ChainNodes \cup {NULL}],
                prev : [MaskNodes -> MaskNodes \cup {NULL}]]
  /\ em \in [Pairs -> PairType \cup {NULL}]
  /\ freed \subseteq Pairs
  /\ call \in [MaskClients -> [pc : Places, w : MaskWindows \cup {NULL},
        mask : SUBSET EventBits, cur : MaskNodes \cup {NULL},
        new : ChainNodes \cup {NULL}, nxt : ChainNodes \cup {NULL}]]
  /\ selected \in [MaskWindows -> [MaskClients -> SUBSET EventBits]]
  /\ harm \in BOOLEAN
  /\ crossed \subseteq MaskWindows

(* Daemon_doEvent and Daemon_freeEventMask may walk a chain between any    *)
(* two stores of a client: they meet only nodes of their chain that are    *)
(* complete and not freed, of processes that still have an EB_Process.     *)
WalksAreSafe ==
  ~harm => \A x \in anchored : \A n \in Chain(x) :
    /\ PairOf(n) \notin freed
    /\ em[PairOf(n)].proc \in open
    /\ x = IF n[1] = "em1" THEN em[PairOf(n)].win ELSE em[PairOf(n)].proc

(* Nothing is lost: a pair of a process that has not left, which nobody is *)
(* adding and nobody has freed, is in both its chains, and prev leads back *)
(* to where next came from.                                                *)
ChainsIntact ==
  ~harm => \A m \in Pairs \ (freed \cup Fresh) : em[m].proc \in open =>
    \/ \E c \in MaskClients : call[c].new \in {Em1(m), Em2(m)}
    \/ /\ Em1(m) \in Chain(em[m].win) /\ Em2(m) \in Chain(em[m].proc)
       /\ \A n \in {Em1(m), Em2(m)} :
            \/ links.next[links.prev[n]] = n
            \/ \E c \in MaskClients : call[c].pc = "publish" /\ call[c].nxt = n

(* An event that Daemon_doEvent delivers goes to the clients that have     *)
(* selected it, once to each: those whose last XSelectInput to return has  *)
(* asked for it, whatever other clients and the daemon do meanwhile.       *)
Receivers(w, b) == {n \in Chain(w) : b \in em[PairOf(n)].mask}
SelectorsGetEvents ==
  ~harm => \A w \in MaskWindows : wlife[w] = "live" =>
    LET chain == Chain(w)
    IN \A b \in EventBits, c \in open : call[c].pc = "idle" =>
         LET mine == {n \in chain : em[PairOf(n)].proc = c /\ b \in em[PairOf(n)].mask}
         IN /\ b \in selected[w][c] => b \in wmask[w] /\ \E n \in mine : mine = {n}
            /\ b \notin selected[w][c] => mine = {}

(* What is left of checkEventMask: two clients have KeyPress of a window   *)
(* only if their calls have overlapped.                                    *)
OneKeyPressClient ==
  ~harm => \A w \in MaskWindows \ crossed :
    \A n1, n2 \in Receivers(w, KeyPressMask) : n1 = n2
=============================================================================
