-------------------------- MODULE EventMaskProofs --------------------------
(***************************************************************************)
(* The chains of event masks hold, for any number of clients, windows and  *)
(* pairs, while clients store into them without a lock and the daemon      *)
(* frees what it meets there.                                              *)
(*                                                                         *)
(* A chain is the least set of nodes that is closed under next, so that    *)
(* nothing is said of its order.  What is proved of the code that stores   *)
(* into chains comes first, for any links: a node that is put in front,    *)
(* and nodes that are unchained one after the other, which FoldSet does in *)
(* an order that nobody knows.  Then what holds between any two stores,    *)
(* called Sound: what is in a chain belongs there, prev leads back but for *)
(* the node that a client has redirected, a client that looks has met a    *)
(* part of the chain without itself in it, a pair is complete or somebody  *)
(* is adding it, the mask of a client is the one it has selected.  Each    *)
(* step of a client or of the daemon keeps that, in a lemma of its own.    *)
(***************************************************************************)
EXTENDS EventMasks, FiniteSetTheorems, WellFoundedInduction, TLAPS

Owners == MaskWindows \cup MaskClients
LinksType == [next : [MaskNodes -> ChainNodes \cup {NULL}],
              prev : [MaskNodes -> MaskNodes \cup {NULL}]]

(* prev leads back to where next came from, but for what a client has      *)
(* redirected to the node that it is about to put in front.                *)
Ring(l, x, B) ==
  \A n \in NodesFrom(l, x) \cup {Anchor(x)} : l.next[n] # NULL =>
    IF l.next[n] \in B THEN n = Anchor(x) ELSE l.prev[l.next[n]] = n

(* The nodes that a loop has met which stands at cur.                      *)
UpTo(l, x, met, cur) ==
  /\ cur \in met /\ l.next[Anchor(x)] \in met
  /\ \A n \in met \ {cur} : l.next[n] \in met
Made == Pairs \ Fresh
Enters(c) == call[c].pc \in {"link", "anchor", "back", "publish"}
ProcOf(n) == em[PairOf(n)].proc
Owner(n) == IF n[1] = "em1" THEN em[PairOf(n)].win ELSE ProcOf(n)
InChains == UNION {Chain(x) : x \in anchored}

(* First nodes of a chain whose prev leads to a node that is not there yet.*)
Redirected == {call[c].nxt : c \in {d \in MaskClients : call[d].pc = "publish"}} \ {NULL}

(* What is in a chain belongs there and is not freed.                      *)
NodesHold ==
  /\ freed \subseteq Made
  /\ \A x \in anchored : \A n \in Chain(x) :
       PairOf(n) \in Made \ freed /\ ProcOf(n) \in open /\ Owner(n) = x
RingsHold == \A x \in anchored : Ring(links, x, Redirected)
LivesHold == \A w \in MaskWindows \cap anchored : wlife[w] = "live"
OneMask ==
  \A w \in MaskWindows : \A n1, n2 \in Chain(w) : ProcOf(n1) = ProcOf(n2) => n1 = n2

(* A client that looks through a chain has met the nodes up to the one it  *)
(* stands at, or stands at the anchor, or has found no chain at all.       *)
Stands(c, met) ==
  LET w == call[c].w
  IN \/ call[c].cur = NULL /\ call[c].pc = "find" /\ met = Chain(w)
     \/ call[c].cur = Anchor(w) /\ w \in anchored /\ met = {}
     \/ call[c].cur \in ChainNodes /\ w \in anchored /\ UpTo(links, w, met, call[c].cur)
Met(c, met) ==
  /\ met \subseteq Chain(call[c].w) /\ Stands(c, met)
  /\ call[c].pc = "find" => \A n \in met : ProcOf(n) # c
  /\ call[c].pc = "check" /\ call[c].w \notin crossed =>
       \A n \in met : KeyPressMask \in em[PairOf(n)].mask => ProcOf(n) = c
LookHolds(c) ==
  call[c].pc \in {"check", "find"} =>
    /\ \E met \in SUBSET ChainNodes : Met(c, met)
    /\ call[c].pc = "check" => KeyPressMask \in call[c].mask

CallHolds(c) ==
  /\ call[c].pc # "idle" => c \in open
  /\ InCall(c) => call[c].w \in MaskWindows /\ wlife[call[c].w] = "live"
  /\ call[c].pc = "or" => \E n \in Chain(call[c].w) :
                            ProcOf(n) = c /\ em[PairOf(n)].mask = call[c].mask
  /\ call[c].pc \in {"idle", "check", "find"} => call[c].new = NULL
  /\ call[c].pc = "or" => call[c].new = NULL \/ call[c].new[1] = "em2"

(* The pair that a client is adding: first the window gets its node, then  *)
(* the process.  Nobody else knows a node that is in no chain.             *)
AddHolds(c) ==
  Enters(c) =>
    /\ call[c].new \in ChainNodes /\ PairOf(call[c].new) \in Made \ freed
    /\ em[PairOf(call[c].new)] = [win |-> call[c].w, proc |-> c, mask |-> call[c].mask]
    /\ call[c].new \notin InChains
    /\ call[c].new[1] = "em1" =>
         Em2(PairOf(call[c].new)) \notin InChains /\ \A n \in Chain(call[c].w) : ProcOf(n) # c
    /\ call[c].new[1] = "em2" => Em1(PairOf(call[c].new)) \in Chain(call[c].w)
BetweenHolds(c) ==
  Between(c) =>
    /\ ChainOf(c) \in anchored /\ links.next[Anchor(ChainOf(c))] = call[c].nxt
    /\ links.next[call[c].new] = call[c].nxt
    /\ links.prev[call[c].new] = Anchor(ChainOf(c))
    /\ call[c].pc = "publish" /\ call[c].nxt # NULL => links.prev[call[c].nxt] = call[c].new
DeadHolds(c) ==
  call[c].pc = "dead" /\ call[c].new # NULL /\ call[c].new[1] = "em1" =>
    /\ call[c].new \in ChainNodes /\ PairOf(call[c].new) \in Made
    /\ em[PairOf(call[c].new)].proc = c
    /\ call[c].new \notin InChains /\ Em2(PairOf(call[c].new)) \notin InChains
CallersHold ==
  \A c \in MaskClients :
    LookHolds(c) /\ CallHolds(c) /\ AddHolds(c) /\ BetweenHolds(c) /\ DeadHolds(c)
OneAtATime ==
  \A c, d \in MaskClients : Between(c) /\ Between(d) /\ ChainOf(c) = ChainOf(d) => c = d

(* A pair is in both chains, or somebody is adding it or has died before   *)
(* he had added anything.                                                  *)
Unfinished(m) ==
  \E c \in MaskClients : \/ Enters(c) /\ call[c].new \in {Em1(m), Em2(m)}
                         \/ call[c].pc = "dead" /\ call[c].new = Em1(m)
Complete(m) == Em1(m) \in Chain(em[m].win) /\ Em2(m) \in Chain(em[m].proc)
PairsHold == \A m \in Made \ freed : em[m].proc \in open => Unfinished(m) \/ Complete(m)

(* The mask of a client that is not adding or changing one is the one it   *)
(* has selected.                                                           *)
SelectedHold ==
  /\ \A w \in MaskWindows, c \in MaskClients : wlife[w] = "none" => selected[w][c] = {}
  /\ \A w \in MaskWindows, c \in open : wlife[w] = "live" =>
       /\ selected[w][c] \subseteq wmask[w]
       /\ call[c].w # w \/ call[c].pc \in {"idle", "check", "find"} =>
            /\ \A n \in Chain(w) : ProcOf(n) = c => em[PairOf(n)].mask = selected[w][c]
            /\ (\A n \in Chain(w) : ProcOf(n) # c) => selected[w][c] = {}

(* Calls that have not overlapped with another one.                        *)
Alone(w) ==
  /\ \A c, d \in MaskClients :
       InCall(c) /\ InCall(d) /\ call[c].w = w /\ call[d].w = w => c = d
  /\ \A n1, n2 \in Receivers(w, KeyPressMask) : n1 = n2
  /\ \A c \in MaskClients :
       InCall(c) /\ call[c].w = w /\ KeyPressMask \in call[c].mask /\ call[c].pc # "check" =>
         \A n \in Receivers(w, KeyPressMask) : ProcOf(n) = c
KeyPressHold == \A w \in MaskWindows \ crossed : Alone(w)

Sound == /\ NodesHold /\ RingsHold /\ LivesHold /\ OneMask /\ CallersHold
         /\ OneAtATime /\ PairsHold /\ SelectedHold /\ KeyPressHold
MaskInv == MasksTypeOK /\ (~harm => Sound)
-----------------------------------------------------------------------------
(* Nodes, anchors and NULL are apart, and a node tells its pair and kind.  *)
LEMMA NodeKinds ==
  /\ ChainNodes \subseteq MaskNodes /\ NULL \notin MaskNodes
  /\ \A x \in Owners : Anchor(x) \in MaskNodes
  /\ \A x : Anchor(x) \notin ChainNodes
  /\ \A x, y : Anchor(x) = Anchor(y) => x = y
  /\ \A m \in Pairs : /\ Em1(m) \in ChainNodes /\ Em2(m) \in ChainNodes
                      /\ PairOf(Em1(m)) = m /\ PairOf(Em2(m)) = m
                      /\ Em1(m)[1] = "em1" /\ Em2(m)[1] = "em2"
  /\ \A n \in ChainNodes : /\ PairOf(n) \in Pairs
                           /\ n[1] = "em1" => n = Em1(PairOf(n))
                           /\ n[1] # "em1" => n = Em2(PairOf(n)) /\ n[1] = "em2"
<1>1. NULL \notin MaskNodes
  BY NullAssumption
<1>2. \A x : Anchor(x) \notin ChainNodes
  BY DEF Anchor, ChainNodes, Em1, Em2
<1>3. \A x, y : Anchor(x) = Anchor(y) => x = y
  BY DEF Anchor
<1>4. \A m \in Pairs : /\ Em1(m) \in ChainNodes /\ Em2(m) \in ChainNodes
                       /\ PairOf(Em1(m)) = m /\ PairOf(Em2(m)) = m
                       /\ Em1(m)[1] = "em1" /\ Em2(m)[1] = "em2"
  BY DEF ChainNodes, Em1, Em2, PairOf
<1>5. \A n \in ChainNodes : /\ PairOf(n) \in Pairs
                            /\ n[1] = "em1" => n = Em1(PairOf(n))
                            /\ n[1] # "em1" => n = Em2(PairOf(n)) /\ n[1] = "em2"
  BY DEF ChainNodes, Em1, Em2, PairOf
<1>6. \A x \in Owners : Anchor(x) \in MaskNodes
  BY DEF Owners, Anchors, MaskNodes
<1> QED BY <1>1, <1>2, <1>3, <1>4, <1>5, <1>6 DEF MaskNodes

(* A chain is within every set that is closed under next.                  *)
LEMMA ReachedIsLeast ==
  ASSUME NEW l, NEW x, NEW S \in SUBSET ChainNodes, Follows(l, x, S)
  PROVE  NodesFrom(l, x) \subseteq S
<1>1. ASSUME NEW n \in NodesFrom(l, x), n \notin S PROVE FALSE
  <2>1. S \in SUBSET (ChainNodes \ {n})
    BY <1>1
  <2> QED BY <1>1, <2>1 DEF NodesFrom
<1> QED BY <1>1

(* A chain is closed under next, and the least set that is.                *)
LEMMA ReachedIsClosed ==
  ASSUME NEW l \in LinksType, NEW x \in Owners
  PROVE  NodesFrom(l, x) \subseteq ChainNodes /\ Follows(l, x, NodesFrom(l, x))
<1>1. NodesFrom(l, x) \subseteq ChainNodes
  BY DEF NodesFrom
<1>2. ASSUME NEW n \in NodesFrom(l, x) \cup {Anchor(x)}, l.next[n] # NULL
      PROVE  l.next[n] \in NodesFrom(l, x)
  <2>1. n \in MaskNodes /\ l.next[n] \in ChainNodes
    BY <1>1, <1>2, NodeKinds DEF LinksType
  <2>2. ASSUME NEW S \in SUBSET (ChainNodes \ {l.next[n]}), Follows(l, x, S) PROVE FALSE
    <3>1. l.next[n] \in S
      <4>1. CASE n = Anchor(x)
        BY <1>2, <2>2, <4>1 DEF Follows
      <4>2. CASE n \in NodesFrom(l, x)
        <5>1. NodesFrom(l, x) \subseteq S
          BY <2>2, ReachedIsLeast
        <5> QED BY <1>2, <2>2, <4>2, <5>1 DEF Follows
      <4> QED BY <1>2, <4>1, <4>2
    <3> QED BY <2>2, <3>1
  <2> QED BY <2>1, <2>2 DEF NodesFrom
<1> QED BY <1>1, <1>2 DEF Follows

(* Stores outside a chain do not change it.                                *)
LEMMA SameReached ==
  ASSUME NEW l \in LinksType, NEW k \in LinksType, NEW x \in Owners,
         \A n \in NodesFrom(l, x) \cup {Anchor(x)} : k.next[n] = l.next[n]
  PROVE  NodesFrom(k, x) = NodesFrom(l, x)
<1>1. /\ NodesFrom(l, x) \subseteq ChainNodes /\ Follows(l, x, NodesFrom(l, x))
      /\ NodesFrom(k, x) \subseteq ChainNodes /\ Follows(k, x, NodesFrom(k, x))
  BY ReachedIsClosed
<1>2. Follows(k, x, NodesFrom(l, x))
  BY <1>1 DEF Follows
<1>3. NodesFrom(k, x) \subseteq NodesFrom(l, x)
  BY <1>1, <1>2, ReachedIsLeast
<1>4. Follows(l, x, NodesFrom(k, x))
  BY <1>1, <1>3 DEF Follows
<1>5. NodesFrom(l, x) \subseteq NodesFrom(k, x)
  BY <1>1, <1>4, ReachedIsLeast
<1> QED BY <1>3, <1>5

(* An anchor without next is an empty chain.                               *)
LEMMA NothingReached ==
  ASSUME NEW l, NEW x, l.next[Anchor(x)] = NULL
  PROVE  NodesFrom(l, x) = {}
<1>1. Follows(l, x, {})
  BY DEF Follows
<1> QED BY <1>1, ReachedIsLeast

(* A node that is put in front of a chain.                                 *)
LEMMA InsertedFirst ==
  ASSUME NEW l \in LinksType, NEW k \in LinksType, NEW x \in Owners, NEW n \in ChainNodes,
         n \notin NodesFrom(l, x), k.next[Anchor(x)] = n, k.next[n] = l.next[Anchor(x)],
         \A m \in NodesFrom(l, x) : k.next[m] = l.next[m]
  PROVE  NodesFrom(k, x) = NodesFrom(l, x) \cup {n}
<1> DEFINE R == NodesFrom(l, x)
           Q == NodesFrom(k, x)
<1>1. /\ R \subseteq ChainNodes /\ Follows(l, x, R)
      /\ Q \subseteq ChainNodes /\ Follows(k, x, Q)
  BY ReachedIsClosed
<1>2. Follows(k, x, R \cup {n})
  <2>1. ASSUME NEW m \in R \cup {n} \cup {Anchor(x)}
        PROVE  k.next[m] \in R \cup {n} \cup {NULL}
    BY <1>1, <2>1 DEF Follows
  <2> QED BY <2>1 DEF Follows
<1>3. Q \subseteq R \cup {n}
  BY <1>1, <1>2, ReachedIsLeast
<1>4. n \in Q
  BY <1>1, NodeKinds DEF Follows
<1>5. Follows(l, x, Q \ {n})
  <2>1. ASSUME NEW m \in Q \ {n} PROVE l.next[m] \in (Q \ {n}) \cup {NULL}
    <3>1. m \in R
      BY <1>3, <2>1
    <3>2. l.next[m] \in R \cup {NULL} /\ k.next[m] \in Q \cup {NULL} /\ l.next[m] = k.next[m]
      BY <1>1, <2>1, <3>1 DEF Follows
    <3> QED BY <3>2
  <2>2. l.next[Anchor(x)] \in (Q \ {n}) \cup {NULL}
    <3>1. l.next[Anchor(x)] \in R \cup {NULL} /\ k.next[n] \in Q \cup {NULL}
      BY <1>1, <1>4 DEF Follows
    <3> QED BY <3>1
  <2> QED BY <2>1, <2>2 DEF Follows
<1>6. R \subseteq Q \ {n}
  BY <1>1, <1>5, ReachedIsLeast
<1> QED BY <1>3, <1>4, <1>6

(* A node of a chain follows on a node of it, or on the anchor.            *)
LEMMA HasPredecessor ==
  ASSUME NEW l \in LinksType, NEW x \in Owners, NEW n \in NodesFrom(l, x)
  PROVE  \E p \in NodesFrom(l, x) \cup {Anchor(x)} : p # n /\ l.next[p] = n
<1> DEFINE R == NodesFrom(l, x)
<1>1. R \subseteq ChainNodes /\ Follows(l, x, R)
  BY ReachedIsClosed
<1>2. SUFFICES ASSUME \A p \in R \cup {Anchor(x)} : p # n => l.next[p] # n PROVE FALSE
  BY Zenon
<1>3. Follows(l, x, R \ {n})
  <2>1. ASSUME NEW p \in (R \ {n}) \cup {Anchor(x)} PROVE l.next[p] \in (R \ {n}) \cup {NULL}
    <3>1. p \in R \cup {Anchor(x)} /\ p # n
      BY <1>1, <2>1, NodeKinds
    <3> QED BY <1>1, <1>2, <3>1 DEF Follows
  <2> QED BY <2>1 DEF Follows
<1>4. R \subseteq R \ {n}
  BY <1>1, <1>3, ReachedIsLeast
<1> QED BY <1>4
-----------------------------------------------------------------------------
(* k is l without n, which p led to and which led to q.                    *)
Cut(l, k, n, p, q) ==
  /\ k \in LinksType
  /\ \A m \in MaskNodes :
       /\ k.next[m] = IF m = n THEN NULL ELSE IF m = p THEN q ELSE l.next[m]
       /\ k.prev[m] = IF m = n THEN NULL ELSE IF m = q THEN p ELSE l.prev[m]
Around(l, x, n, p, q) ==
  /\ p \in NodesFrom(l, x) \cup {Anchor(x)} /\ q \in NodesFrom(l, x) \cup {NULL}
  /\ l.next[p] = n /\ p # n /\ l.next[n] = q /\ q # n
  /\ \A m \in NodesFrom(l, x) \cup {Anchor(x)} : l.next[m] = n => m = p

(* unChainResource of a node that nobody is about to put another one in    *)
(* front of: what follows on its predecessor is what followed on it.       *)
LEMMA UnChained ==
  ASSUME NEW l \in LinksType, NEW x \in Owners, NEW B \in SUBSET ChainNodes,
         Ring(l, x, B), NEW n \in NodesFrom(l, x), n \notin B
  PROVE  \E p, q : Around(l, x, n, p, q) /\ q \notin B
                   /\ Cut(l, UnChainResource(n, l), n, p, q)
<1> DEFINE R == NodesFrom(l, x)
           q == l.next[n]
           k == UnChainResource(n, l)
<1>1. R \subseteq ChainNodes /\ Follows(l, x, R)
  BY ReachedIsClosed
<1>2. PICK p \in R \cup {Anchor(x)} : p # n /\ l.next[p] = n
  BY HasPredecessor
<1>3. n \in ChainNodes /\ n \in MaskNodes /\ n # NULL /\ n # Anchor(x)
      /\ p \in MaskNodes /\ p # NULL
  BY <1>1, <1>2, NodeKinds
<1>4. l.prev[n] = p /\ \A m \in R \cup {Anchor(x)} : l.next[m] = n => m = p
  BY <1>2, <1>3 DEF Ring
<1>5. q \in R \cup {NULL} /\ q \in ChainNodes \cup {NULL}
  BY <1>1 DEF Follows
<1>6. q # n
  BY <1>2, <1>4
<1>7. q \notin B
  <2>1. q # NULL => q \notin B
    BY <1>3 DEF Ring
  <2> QED BY <2>1, NodeKinds
<1>8. Cut(l, k, n, p, q)
  <2>1. /\ l.next \in [MaskNodes -> ChainNodes \cup {NULL}]
        /\ l.prev \in [MaskNodes -> MaskNodes \cup {NULL}]
    BY DEF LinksType
  <2> DEFINE unprev == IF q = NULL THEN l.prev ELSE [l.prev EXCEPT ![q] = p]
             unnext == [l.next EXCEPT ![p] = q]
  <2>2. k = [next |-> [unnext EXCEPT ![n] = NULL], prev |-> [unprev EXCEPT ![n] = NULL]]
    BY <1>3, <1>4 DEF UnChainResource
  <2>3. /\ unprev \in [MaskNodes -> MaskNodes \cup {NULL}]
        /\ \A m \in MaskNodes : unprev[m] = IF m = q THEN p ELSE l.prev[m]
    BY <1>3, <1>5, <2>1, NodeKinds
  <2>4. /\ unnext \in [MaskNodes -> ChainNodes \cup {NULL}]
        /\ \A m \in MaskNodes : unnext[m] = IF m = p THEN q ELSE l.next[m]
    BY <1>3, <1>5, <2>1
  <2> HIDE DEF unprev, unnext, k
  <2>5. k \in LinksType
    BY <1>3, <2>2, <2>3, <2>4 DEF LinksType
  <2>6. \A m \in MaskNodes :
          /\ k.next[m] = IF m = n THEN NULL ELSE IF m = p THEN q ELSE l.next[m]
          /\ k.prev[m] = IF m = n THEN NULL ELSE IF m = q THEN p ELSE l.prev[m]
    BY <1>3, <2>2, <2>3, <2>4
  <2> QED BY <2>5, <2>6 DEF Cut
<1>9. Around(l, x, n, p, q)
  BY <1>2, <1>4, <1>5, <1>6 DEF Around
<1> QED BY <1>7, <1>8, <1>9

(* What is left of the chain is the chain without the node, ...            *)
LEMMA CutFromChain ==
  ASSUME NEW l \in LinksType, NEW k, NEW x \in Owners, NEW n \in NodesFrom(l, x),
         NEW p, NEW q, Around(l, x, n, p, q), Cut(l, k, n, p, q)
  PROVE  NodesFrom(k, x) = NodesFrom(l, x) \ {n}
<1> DEFINE R == NodesFrom(l, x)
           Q == NodesFrom(k, x)
<1>0. k \in LinksType
  BY DEF Cut
<1>1. /\ R \subseteq ChainNodes /\ Follows(l, x, R)
      /\ Q \subseteq ChainNodes /\ Follows(k, x, Q)
  BY <1>0, ReachedIsClosed
<1>2. /\ R \cup {Anchor(x)} \subseteq MaskNodes /\ n # Anchor(x) /\ Q \subseteq MaskNodes
  BY <1>1, NodeKinds
<1>3. \A m \in MaskNodes : k.next[m] = IF m = n THEN NULL ELSE IF m = p THEN q ELSE l.next[m]
  BY DEF Cut
<1>4. Follows(k, x, R \ {n})
  <2>1. ASSUME NEW m \in (R \ {n}) \cup {Anchor(x)} PROVE k.next[m] \in (R \ {n}) \cup {NULL}
    <3>1. m \in MaskNodes /\ m # n /\ m \in R \cup {Anchor(x)}
      BY <1>2, <2>1
    <3>2. CASE m = p
      BY <1>3, <3>1, <3>2 DEF Around
    <3>3. CASE m # p
      <4>1. k.next[m] = l.next[m] /\ l.next[m] # n
        BY <1>3, <3>1, <3>3 DEF Around
      <4>2. l.next[m] \in R \cup {NULL}
        BY <1>1, <3>1 DEF Follows
      <4> QED BY <4>1, <4>2
    <3> QED BY <3>2, <3>3
  <2> QED BY <2>1 DEF Follows
<1>5. Q \subseteq R \ {n}
  BY <1>1, <1>4, ReachedIsLeast
<1>6. p \in Q \cup {Anchor(x)}
  <2>1. SUFFICES ASSUME p \notin Q \cup {Anchor(x)} PROVE FALSE
    OBVIOUS
  <2>2. Follows(l, x, Q)
    <3>1. ASSUME NEW m \in Q \cup {Anchor(x)} PROVE l.next[m] \in Q \cup {NULL}
      <4>1. m \in MaskNodes /\ m # n /\ m # p
        BY <1>2, <1>5, <2>1
      <4> QED BY <1>1, <1>3, <4>1 DEF Follows
    <3> QED BY <3>1 DEF Follows
  <2>3. R \subseteq Q
    BY <1>1, <2>2, ReachedIsLeast
  <2> QED BY <2>1, <2>3 DEF Around
<1>7. Follows(l, x, Q \cup {n})
  <2>1. ASSUME NEW m \in Q \cup {Anchor(x)} PROVE l.next[m] \in Q \cup {n} \cup {NULL}
    <3>1. m \in MaskNodes /\ m # n
      BY <1>2, <1>5
    <3>2. k.next[m] \in Q \cup {NULL}
      BY <1>1 DEF Follows
    <3> QED BY <1>3, <3>1, <3>2 DEF Around
  <2>2. l.next[n] \in Q \cup {NULL}
    <3>1. k.next[p] \in Q \cup {NULL} /\ p \in MaskNodes /\ p # n
      BY <1>1, <1>2, <1>6 DEF Follows, Around
    <3> QED BY <1>3, <3>1 DEF Around
  <2> QED BY <2>1, <2>2 DEF Follows
<1>8. R \subseteq Q \cup {n}
  BY <1>1, <1>7, ReachedIsLeast
<1> QED BY <1>5, <1>8

(* ... prev still leads back to where next came from ...                   *)
LEMMA CutKeepsRing ==
  ASSUME NEW l \in LinksType, NEW k, NEW x \in Owners, NEW n \in NodesFrom(l, x),
         NEW B, Ring(l, x, B), NEW p, NEW q, q \notin B,
         Around(l, x, n, p, q), Cut(l, k, n, p, q)
  PROVE  Ring(k, x, B)
<1>1. NodesFrom(k, x) = NodesFrom(l, x) \ {n}
  BY CutFromChain
<1>2. NodesFrom(l, x) \cup {Anchor(x)} \subseteq MaskNodes /\ n # Anchor(x)
      /\ n \in MaskNodes /\ NULL \notin MaskNodes
  BY ReachedIsClosed, NodeKinds
<1>3. ASSUME NEW m \in NodesFrom(k, x) \cup {Anchor(x)}, k.next[m] # NULL
      PROVE  IF k.next[m] \in B THEN m = Anchor(x) ELSE k.prev[k.next[m]] = m
  <2>1. m \in NodesFrom(l, x) \cup {Anchor(x)} /\ m # n /\ m \in MaskNodes
    BY <1>1, <1>2, <1>3
  <2>2. CASE m = p
    <3>1. k.next[m] = q /\ q # n /\ q \in NodesFrom(l, x)
      BY <1>3, <2>1, <2>2 DEF Cut, Around
    <3>2. q \in MaskNodes
      BY <1>2, <3>1
    <3>3. k.prev[q] = p
      BY <3>1, <3>2 DEF Cut
    <3> QED BY <2>2, <3>1, <3>3
  <2>3. CASE m # p
    <3>1. k.next[m] = l.next[m] /\ l.next[m] # n
      BY <2>1, <2>3 DEF Cut, Around
    <3>2. CASE l.next[m] \in B
      BY <1>3, <2>1, <3>1, <3>2 DEF Ring
    <3>3. CASE l.next[m] \notin B
      <4>1. l.prev[l.next[m]] = m
        BY <1>3, <2>1, <3>1, <3>3 DEF Ring
      <4>2. l.next[m] # q
        <5>1. l.next[m] = q => l.prev[q] = n
          BY <1>3, <3>1, <3>3 DEF Ring, Around
        <5> QED BY <2>1, <4>1, <5>1
      <4>3. l.next[m] \in MaskNodes
        BY <1>3, <2>1, <3>1, NodeKinds DEF LinksType
      <4>4. k.prev[l.next[m]] = l.prev[l.next[m]]
        BY <3>1, <4>2, <4>3 DEF Cut
      <4> QED BY <3>1, <3>3, <4>1, <4>4
    <3> QED BY <3>2, <3>3
  <2> QED BY <2>2, <2>3
<1> QED BY <1>3 DEF Ring

(* ... and a loop that does not stand at the node goes on as before.       *)
LEMMA CutKeepsMet ==
  ASSUME NEW l \in LinksType, NEW k, NEW x \in Owners, NEW n \in NodesFrom(l, x),
         NEW p, NEW q, Around(l, x, n, p, q), Cut(l, k, n, p, q),
         NEW met \in SUBSET NodesFrom(l, x), NEW cur, UpTo(l, x, met, cur), cur # n
  PROVE  UpTo(k, x, met \ {n}, cur)
<1>1. NodesFrom(l, x) \cup {Anchor(x)} \subseteq MaskNodes /\ n # Anchor(x)
  BY ReachedIsClosed, NodeKinds
<1>2. \A m \in MaskNodes : k.next[m] = IF m = n THEN NULL ELSE IF m = p THEN q ELSE l.next[m]
  BY DEF Cut
<1>3. n \in met => q \in met \ {n}
  BY DEF UpTo, Around
<1>4. ASSUME NEW m \in NodesFrom(l, x) \cup {Anchor(x)}, m # n, l.next[m] \in met
      PROVE  k.next[m] \in met \ {n}
  <2>1. CASE m = p
    BY <1>1, <1>2, <1>3, <1>4, <2>1 DEF Around
  <2>2. CASE m # p
    <3>1. k.next[m] = l.next[m] /\ l.next[m] # n
      BY <1>1, <1>2, <1>4, <2>2 DEF Around
    <3> QED BY <1>4, <3>1
  <2> QED BY <2>1, <2>2
<1>5. k.next[Anchor(x)] \in met \ {n}
  BY <1>1, <1>4 DEF UpTo
<1>6. ASSUME NEW m \in (met \ {n}) \ {cur} PROVE k.next[m] \in met \ {n}
  BY <1>4, <1>6 DEF UpTo
<1> QED BY <1>5, <1>6 DEF UpTo

(* Chains without this node do not notice.                                 *)
LEMMA CutElsewhere ==
  ASSUME NEW l \in LinksType, NEW k, NEW x \in Owners, NEW n \in NodesFrom(l, x),
         NEW p, NEW q, Around(l, x, n, p, q), Cut(l, k, n, p, q),
         NEW y \in Owners, y # x, NodesFrom(l, x) \cap NodesFrom(l, y) = {}
  PROVE  /\ NodesFrom(k, y) = NodesFrom(l, y)
         /\ \A B : Ring(l, y, B) => Ring(k, y, B)
         /\ \A met \in SUBSET NodesFrom(l, y) : \A cur : UpTo(l, y, met, cur) => UpTo(k, y, met, cur)
<1> DEFINE R == NodesFrom(l, y)
<1>0. k \in LinksType
  BY DEF Cut
<1>1. R \cup {Anchor(y)} \subseteq MaskNodes /\ R \subseteq ChainNodes /\ Follows(l, y, R)
      /\ NodesFrom(l, x) \subseteq ChainNodes /\ NULL \notin MaskNodes
  BY ReachedIsClosed, NodeKinds
<1>2. n \notin R \cup {Anchor(y)} /\ p \notin R \cup {Anchor(y)}
  BY <1>1, NodeKinds DEF Around
<1>3. \A m \in R \cup {Anchor(y)} : k.next[m] = l.next[m]
  BY <1>1, <1>2 DEF Cut
<1>4. NodesFrom(k, y) = R
  BY <1>0, <1>3, SameReached
<1>5. \A m \in R : k.prev[m] = l.prev[m]
  <2>1. q \notin R
    BY <1>1 DEF Around
  <2> QED BY <1>1, <1>2, <2>1 DEF Cut
<1>6. ASSUME NEW B, Ring(l, y, B) PROVE Ring(k, y, B)
  <2>1. ASSUME NEW m \in R \cup {Anchor(y)}, k.next[m] # NULL
        PROVE  IF k.next[m] \in B THEN m = Anchor(y) ELSE k.prev[k.next[m]] = m
    <3>1. k.next[m] = l.next[m] /\ l.next[m] \in R
      BY <1>1, <1>3, <2>1 DEF Follows
    <3> QED BY <1>5, <1>6, <2>1, <3>1 DEF Ring
  <2> QED BY <1>4, <2>1 DEF Ring
<1>7. ASSUME NEW met \in SUBSET R, NEW cur, UpTo(l, y, met, cur) PROVE UpTo(k, y, met, cur)
  BY <1>3, <1>7 DEF UpTo
<1> QED BY <1>4, <1>6, <1>7
-----------------------------------------------------------------------------
Apart(l, X) == \A x, y \in X : NodesFrom(l, x) \cap NodesFrom(l, y) # {} => x = y

(* k is l after the nodes D have been unchained one after the other.       *)
Without(l, k, X, B, D) ==
  /\ k \in LinksType
  /\ \A x \in X : /\ NodesFrom(k, x) = NodesFrom(l, x) \ D
                  /\ Ring(k, x, B)
                  /\ l.next[Anchor(x)] \notin D => k.next[Anchor(x)] = l.next[Anchor(x)]
                  /\ \A met \in SUBSET NodesFrom(l, x), cur \in ChainNodes \ D :
                       UpTo(l, x, met, cur) => UpTo(k, x, met \ D, cur)
  /\ \A b \in B : k.prev[b] = l.prev[b]
  /\ \A n \in ChainNodes : (\A x \in X : n \notin NodesFrom(l, x)) =>
       k.next[n] = l.next[n] /\ k.prev[n] = l.prev[n]

(* One node more is unchained of some that are: all chains lose it.        *)
LEMMA OneMoreUnChained ==
  ASSUME NEW l \in LinksType, NEW X \in SUBSET Owners, NEW B \in SUBSET ChainNodes,
         Apart(l, X), NEW D, NEW k, Without(l, k, X, B, D),
         NEW z \in X, NEW n \in NodesFrom(l, z) \ D, n \notin B
  PROVE  Without(l, UnChainResource(n, k), X, B, D \cup {n})
<1> DEFINE h == UnChainResource(n, k)
<1>1. /\ k \in LinksType /\ Ring(k, z, B) /\ n \in NodesFrom(k, z) /\ z \in Owners
      /\ NodesFrom(k, z) \subseteq NodesFrom(l, z)
  BY DEF Without
<1>2. PICK p, q : Around(k, z, n, p, q) /\ q \notin B /\ Cut(k, h, n, p, q)
  BY <1>1, UnChained
<1> HIDE DEF h
<1>3. h \in LinksType
  BY <1>2 DEF Cut
<1>4. /\ NodesFrom(l, z) \subseteq ChainNodes /\ \A x \in X : Anchor(x) \in MaskNodes
      /\ \A x \in X : Anchor(x) \notin ChainNodes
      /\ ChainNodes \subseteq MaskNodes
  BY ReachedIsClosed, NodeKinds
<1>5. ASSUME NEW x \in X
      PROVE  /\ NodesFrom(h, x) = NodesFrom(l, x) \ (D \cup {n})
             /\ Ring(h, x, B)
             /\ \A met \in SUBSET NodesFrom(l, x), cur \in ChainNodes \ (D \cup {n}) :
                  UpTo(l, x, met, cur) => UpTo(h, x, met \ (D \cup {n}), cur)
  <2>1. /\ NodesFrom(k, x) = NodesFrom(l, x) \ D /\ Ring(k, x, B) /\ x \in Owners
        /\ \A met \in SUBSET NodesFrom(l, x), cur \in ChainNodes \ D :
             UpTo(l, x, met, cur) => UpTo(k, x, met \ D, cur)
    BY DEF Without
  <2>2. CASE x = z
    <3>1. NodesFrom(h, x) = NodesFrom(l, x) \ (D \cup {n})
      <4>1. NodesFrom(h, z) = NodesFrom(k, z) \ {n}
        BY <1>1, <1>2, CutFromChain
      <4> QED BY <2>1, <2>2, <4>1
    <3>2. Ring(h, x, B)
      BY <1>1, <1>2, <2>2, CutKeepsRing
    <3>3. ASSUME NEW met \in SUBSET NodesFrom(l, x), NEW cur \in ChainNodes \ (D \cup {n}),
                 UpTo(l, x, met, cur)
          PROVE  UpTo(h, x, met \ (D \cup {n}), cur)
      <4>1. UpTo(k, z, met \ D, cur) /\ cur # n /\ met \ D \in SUBSET NodesFrom(k, z)
        BY <2>1, <2>2, <3>3
      <4>2. UpTo(h, z, (met \ D) \ {n}, cur)
        BY <1>1, <1>2, <4>1, CutKeepsMet
      <4>3. (met \ D) \ {n} = met \ (D \cup {n})
        OBVIOUS
      <4> QED BY <2>2, <4>2, <4>3
    <3> QED BY <3>1, <3>2, <3>3
  <2>3. CASE x # z
    <3>1. NodesFrom(l, x) \cap NodesFrom(l, z) = {}
      BY <2>3 DEF Apart
    <3>2. NodesFrom(k, z) \cap NodesFrom(k, x) = {} /\ n \notin NodesFrom(l, x)
      BY <1>1, <2>1, <3>1
    <3>3. /\ NodesFrom(h, x) = NodesFrom(k, x)
          /\ \A A : Ring(k, x, A) => Ring(h, x, A)
          /\ \A met \in SUBSET NodesFrom(k, x) : \A cur : UpTo(k, x, met, cur) => UpTo(h, x, met, cur)
      BY <1>1, <1>2, <2>1, <2>3, <3>2, CutElsewhere
    <3>4. ASSUME NEW met \in SUBSET NodesFrom(l, x), NEW cur \in ChainNodes \ (D \cup {n}),
                 UpTo(l, x, met, cur)
          PROVE  UpTo(h, x, met \ (D \cup {n}), cur)
      <4>1. met \ D \in SUBSET NodesFrom(k, x) /\ met \ (D \cup {n}) = met \ D
        BY <2>1, <3>2
      <4>2. UpTo(k, x, met \ D, cur)
        BY <2>1, <3>4
      <4> QED BY <3>3, <4>1, <4>2
    <3> QED BY <2>1, <3>2, <3>3, <3>4
  <2> QED BY <2>2, <2>3
<1>6. ASSUME NEW x \in X, l.next[Anchor(x)] \notin D \cup {n}
      PROVE  h.next[Anchor(x)] = l.next[Anchor(x)]
  <2>1. k.next[Anchor(x)] = l.next[Anchor(x)] /\ l.next[Anchor(x)] # n
    BY <1>6 DEF Without
  <2>2. Anchor(x) # p /\ Anchor(x) # n /\ Anchor(x) \in MaskNodes
    BY <1>2, <1>4, <2>1 DEF Around
  <2> QED BY <1>2, <2>1, <2>2 DEF Cut
<1>7. ASSUME NEW b \in B PROVE h.prev[b] = l.prev[b]
  <2>1. b # n /\ b # q /\ b \in MaskNodes /\ k.prev[b] = l.prev[b]
    BY <1>2, <1>4 DEF Without
  <2> QED BY <1>2, <2>1 DEF Cut
<1>8. ASSUME NEW m \in ChainNodes, \A x \in X : m \notin NodesFrom(l, x)
      PROVE  h.next[m] = l.next[m] /\ h.prev[m] = l.prev[m]
  <2>1. k.next[m] = l.next[m] /\ k.prev[m] = l.prev[m]
    BY <1>8 DEF Without
  <2>2. m \notin NodesFrom(l, z) /\ m # n /\ m \in MaskNodes
    BY <1>4, <1>8
  <2>3. m # p /\ m # q
    BY <1>1, <1>2, <1>4, <2>2, NodeKinds DEF Around
  <2> QED BY <1>2, <2>1, <2>2, <2>3 DEF Cut
<1>9. QED
  BY <1>3, <1>5, <1>6, <1>7, <1>8 DEF Without, h
-----------------------------------------------------------------------------
(* Numbers have a least one among any of them.                             *)
LEMMA LeastNumber ==
  ASSUME NEW S, S \subseteq Nat, S # {}
  PROVE  \E n \in S : \A m \in S : n <= m
<1>1. PICK n \in S : \A m \in S : ~(<<m, n>> \in OpToRel(<, Nat))
  BY NatLessThanWellFounded, WFMin, Zenon
<1>2. ASSUME NEW m \in S PROVE n <= m
  <2>1. m \in Nat /\ n \in Nat
    OBVIOUS
  <2>2. ~(m < n)
    BY <1>1, <2>1 DEF OpToRel
  <2> QED BY <2>1, <2>2
<1> QED BY <1>2

Chosen(s) == CHOOSE n \in s : TRUE
Folding(g, D, l) ==
  g = [s \in D |-> IF s = {} THEN l ELSE UnChainResource(Chosen(s), g[s \ {Chosen(s)}])]
Small(S, n) == {s \in SUBSET S : Cardinality(s) <= n}

(* FoldSet is what its recursive function says: there is such a function   *)
(* on the sets of any size, because there is one on the smaller sets.      *)
LEMMA Fold ==
  ASSUME NEW S, IsFiniteSet(S), NEW l
  PROVE \E g : Folding(g, SUBSET S, l) /\ FoldSet(UnChainResource, l, S) = g[S]
<1>1. ASSUME NEW g, Folding(g, SUBSET S, l)
      PROVE \E f : Folding(f, SUBSET S, l) /\ FoldSet(UnChainResource, l, S) = f[S]
  <2>1. \E f : f = [s \in SUBSET S |->
                     IF s = {} THEN l
                     ELSE UnChainResource(CHOOSE n \in s : TRUE, f[s \ {CHOOSE n \in s : TRUE}])]
    BY <1>1 DEF Folding, Chosen
  <2>2. PICK f : f = CHOOSE h : h = [s \in SUBSET S |->
                     IF s = {} THEN l
                     ELSE UnChainResource(CHOOSE n \in s : TRUE, h[s \ {CHOOSE n \in s : TRUE}])]
    OBVIOUS
  <2>3. Folding(f, SUBSET S, l)
    BY <2>1, <2>2 DEF Folding, Chosen
  <2>4. FoldSet(UnChainResource, l, S) = f[S]
    BY <2>2 DEF FoldSet, MapThenFoldSet
  <2> QED BY <2>3, <2>4
<1>2. \E g : Folding(g, SUBSET S, l)
  <2> DEFINE Bad == {n \in Nat : ~ \E g : Folding(g, Small(S, n), l)}
  <2>1. ASSUME Bad # {} PROVE FALSE
    <3>1. PICK n \in Bad : \A m \in Bad : n <= m
      <4> HIDE DEF Bad
      <4>1. Bad \subseteq Nat
        BY DEF Bad
      <4> QED BY <2>1, <4>1, LeastNumber
    <3>2. n # 0
      <4>1. Small(S, 0) = {{}}
        <5>1. ASSUME NEW s \in Small(S, 0) PROVE s = {}
          BY FS_Subset, FS_EmptySet, FS_CardinalityType DEF Small
        <5>2. IsFiniteSet({}) /\ Cardinality({}) = 0
          BY FS_EmptySet
        <5>3. {} \in Small(S, 0)
          BY <5>2 DEF Small
        <5> QED BY <5>1, <5>3
      <4> DEFINE z == [s \in Small(S, 0) |-> l]
      <4>2. Folding(z, Small(S, 0), l)
        BY <4>1 DEF Folding
      <4> HIDE DEF z
      <4>3. \E g : Folding(g, Small(S, 0), l)
        BY <4>2
      <4>4. 0 \notin Bad
        BY <4>3
      <4> QED BY <3>1, <4>4
    <3>3. PICK g : Folding(g, Small(S, n - 1), l)
      BY <3>1, <3>2
    <3> DEFINE h == [s \in Small(S, n) |-> IF s = {} THEN l ELSE UnChainResource(Chosen(s), g[s \ {Chosen(s)}])]
    <3>4. ASSUME NEW s \in Small(S, n), s # {} PROVE s \ {Chosen(s)} \in Small(S, n - 1)
      <4>1. Chosen(s) \in s
        BY <3>4 DEF Chosen
      <4>2. IsFiniteSet(s) /\ Cardinality(s) \in Nat /\ Cardinality(s) <= n /\ s \subseteq S
        BY FS_Subset, FS_CardinalityType DEF Small
      <4>3. Cardinality(s \ {Chosen(s)}) = Cardinality(s) - 1
        BY <4>1, <4>2, FS_RemoveElement
      <4> QED BY <3>1, <4>2, <4>3 DEF Small
    <3>5. ASSUME NEW s \in Small(S, n - 1) PROVE s \in Small(S, n) /\ h[s] = g[s]
      <4>1. s \in Small(S, n)
        BY <3>1, FS_Subset, FS_CardinalityType DEF Small
      <4>2. g[s] = IF s = {} THEN l ELSE UnChainResource(Chosen(s), g[s \ {Chosen(s)}])
        BY <3>3 DEF Folding
      <4> QED BY <4>1, <4>2
    <3>6. Folding(h, Small(S, n), l)
      BY <3>4, <3>5 DEF Folding
    <3> HIDE DEF h
    <3>7. \E f : Folding(f, Small(S, n), l)
      BY <3>6
    <3>8. n \notin Bad
      BY <3>7
    <3> QED BY <3>1, <3>8
  <2>2. Cardinality(S) \in Nat /\ Small(S, Cardinality(S)) = SUBSET S
    BY FS_Subset, FS_CardinalityType DEF Small
  <2>3. Cardinality(S) \notin Bad
    <3> HIDE DEF Bad
    <3> QED BY <2>1
  <2>4. \E g : Folding(g, Small(S, Cardinality(S)), l)
    BY <2>2, <2>3
  <2> QED BY <2>2, <2>4
<1> QED BY <1>1, <1>2

(* What holds of no nodes and of one more holds of all of them; G is the   *)
(* relation of nodes and links for which it holds.                         *)
LEMMA FoldOver ==
  ASSUME NEW S, IsFiniteSet(S), NEW l, NEW G, <<{}, l>> \in G,
         \A D \in SUBSET S : \A n \in S \ D : \A k :
           <<D, k>> \in G => <<D \cup {n}, UnChainResource(n, k)>> \in G
  PROVE  <<S, FoldSet(UnChainResource, l, S)>> \in G
<1>1. PICK g : Folding(g, SUBSET S, l) /\ FoldSet(UnChainResource, l, S) = g[S]
  BY Fold
<1> DEFINE Bad == {n \in Nat : \E s \in SUBSET S : Cardinality(s) = n /\ <<s, g[s]>> \notin G}
<1>2. ASSUME Bad # {} PROVE FALSE
  <2>1. PICK n \in Bad : \A m \in Bad : n <= m
    <3> HIDE DEF Bad
    <3>1. Bad \subseteq Nat
      BY DEF Bad
    <3> QED BY <1>2, <3>1, LeastNumber
  <2>2. PICK s \in SUBSET S : Cardinality(s) = n /\ <<s, g[s]>> \notin G
    BY <2>1
  <2>3. g[s] = IF s = {} THEN l ELSE UnChainResource(Chosen(s), g[s \ {Chosen(s)}])
    BY <1>1 DEF Folding
  <2>4. s # {}
    BY <2>2, <2>3
  <2>5. Chosen(s) \in s
    BY <2>4 DEF Chosen
  <2> DEFINE D == s \ {Chosen(s)}
  <2>6. IsFiniteSet(s) /\ Cardinality(s) \in Nat
    BY FS_Subset, FS_CardinalityType
  <2>7. Cardinality(D) = Cardinality(s) - 1
    BY <2>5, <2>6, FS_RemoveElement
  <2>8. Cardinality(D) \in Nat
    BY <2>6, FS_Subset, FS_CardinalityType
  <2>9. Cardinality(D) \notin Bad
    <3> HIDE DEF Bad, D
    <3>1. n \in Nat
      BY <2>2, <2>6
    <3>2. ~(n <= Cardinality(D))
      BY <2>2, <2>7, <2>8, <3>1
    <3> QED BY <2>1, <3>2
  <2>10. D \in SUBSET S /\ Chosen(s) \in S \ D /\ D \cup {Chosen(s)} = s
    BY <2>5
  <2>11. <<D, g[D]>> \in G
    BY <2>8, <2>9, <2>10
  <2>12. <<D \cup {Chosen(s)}, UnChainResource(Chosen(s), g[D])>> \in G
    BY <2>10, <2>11
  <2> QED BY <2>2, <2>3, <2>4, <2>10, <2>12
<1>3. IsFiniteSet(S) /\ Cardinality(S) \in Nat
  BY FS_CardinalityType
<1>4. Cardinality(S) \notin Bad
  BY <1>2
<1>5. <<S, g[S]>> \in G
  BY <1>3, <1>4
<1> QED BY <1>1, <1>5

(* MaxPairs bounds the nodes, so that FoldSet comes to an end.             *)
LEMMA NodesAreFinite ==
  ASSUME NEW S \in SUBSET ChainNodes
  PROVE  IsFiniteSet(S)
<1>1. IsFiniteSet(Pairs)
  BY MaskAssumption, FS_Interval DEF Pairs
<1> DEFINE E1 == {Em1(m) : m \in Pairs}
           E2 == {Em2(m) : m \in Pairs}
           f1 == [n \in E1 |-> PairOf(n)]
           f2 == [n \in E2 |-> PairOf(n)]
<1>2. f1 \in Injection(E1, Pairs)
  BY DEF Injection, IsInjective, PairOf, Em1
<1>3. f2 \in Injection(E2, Pairs)
  BY DEF Injection, IsInjective, PairOf, Em2
<1>4. IsFiniteSet(E1) /\ IsFiniteSet(E2)
  BY <1>1, <1>2, <1>3, FS_Injection
<1>5. IsFiniteSet(ChainNodes)
  BY <1>4, FS_Union DEF ChainNodes
<1> QED BY <1>5, FS_Subset

(* Daemon_freeEventMask: all chains lose the nodes, in whatever order.     *)
LEMMA AllUnChained ==
  ASSUME NEW l \in LinksType, NEW X \in SUBSET Owners, NEW B \in SUBSET ChainNodes,
         Apart(l, X), \A x \in X : Ring(l, x, B),
         NEW U, \A n \in U : n \notin B /\ \E x \in X : n \in NodesFrom(l, x)
  PROVE  Without(l, FoldSet(UnChainResource, l, U), X, B, U)
<1> DEFINE G == {p \in (SUBSET U) \X LinksType : Without(l, p[2], X, B, p[1])}
<1>1. U \in SUBSET ChainNodes
  BY ReachedIsClosed
<1>2. IsFiniteSet(U)
  BY <1>1, NodesAreFinite
<1>3. Without(l, l, X, B, {})
  BY DEF Without
<1>4. <<{}, l>> \in G
  BY <1>3
<1>5. ASSUME NEW D \in SUBSET U, NEW n \in U \ D, NEW k, <<D, k>> \in G
      PROVE  <<D \cup {n}, UnChainResource(n, k)>> \in G
  <2>1. Without(l, k, X, B, D)
    BY <1>5
  <2>2. PICK z \in X : n \in NodesFrom(l, z)
    OBVIOUS
  <2>3. Without(l, UnChainResource(n, k), X, B, D \cup {n})
    BY <2>1, <2>2, OneMoreUnChained
  <2>4. UnChainResource(n, k) \in LinksType
    BY <2>3 DEF Without
  <2> QED BY <2>3, <2>4
<1> HIDE DEF G
<1>6. <<U, FoldSet(UnChainResource, l, U)>> \in G
  BY <1>2, <1>4, <1>5, FoldOver
<1> QED BY <1>6 DEF G
-----------------------------------------------------------------------------
(* No window is a client, and none of them is NULL.                        *)
LEMMA OwnersDiffer ==
  /\ \A w \in MaskWindows : w \in Owners /\ w \notin MaskClients /\ w # NULL
  /\ \A c \in MaskClients : c \in Owners /\ c \notin MaskWindows /\ c # NULL
BY MaskAssumption DEF Owners

(* The type of the links by its name.                                      *)
LEMMA LinksTyped == MasksTypeOK => links \in LinksType
BY DEF MasksTypeOK, LinksType

(* A pair that is made has a window, a process and a mask.                 *)
LEMMA MadeAreRecords ==
  ASSUME MasksTypeOK
  PROVE  /\ \A m \in Made : m \in Pairs /\ em[m] \in PairType /\ em[m] # NULL
         /\ \A m \in Pairs : em[m] \in PairType => m \in Made
         /\ \A m \in Pairs : m \notin Made => em[m] = NULL /\ m \in Fresh
         /\ \A m \in Made : /\ em[m].win \in MaskWindows /\ em[m].proc \in MaskClients
                            /\ em[m].mask \in SUBSET EventBits
<1>1. NULL \notin PairType
  BY NullAssumption
<1>2. \A m \in Made : m \in Pairs /\ em[m] \in PairType /\ em[m] # NULL
  BY DEF MasksTypeOK, Made, Fresh
<1>3. \A m \in Pairs : /\ em[m] \in PairType => m \in Made
                       /\ m \notin Made => em[m] = NULL /\ m \in Fresh
  BY <1>1 DEF MasksTypeOK, Made, Fresh
<1>4. ASSUME NEW r \in PairType
      PROVE  r.win \in MaskWindows /\ r.proc \in MaskClients /\ r.mask \in SUBSET EventBits
  BY DEF PairType
<1> QED BY <1>2, <1>3, <1>4

(* The types of what a client knows, one by one.                           *)
LEMMA CallTyped ==
  ASSUME MasksTypeOK, NEW c \in MaskClients
  PROVE  /\ call[c].pc \in Places /\ call[c].w \in MaskWindows \cup {NULL}
         /\ call[c].mask \in SUBSET EventBits /\ call[c].cur \in MaskNodes \cup {NULL}
         /\ call[c].new \in ChainNodes \cup {NULL} /\ call[c].nxt \in ChainNodes \cup {NULL}
         /\ call[c] = [pc |-> call[c].pc, w |-> call[c].w, mask |-> call[c].mask,
                       cur |-> call[c].cur, new |-> call[c].new, nxt |-> call[c].nxt]
BY DEF MasksTypeOK

(* The chain of an anchor is what its links reach; others are empty.       *)
LEMMA ChainsAreReached ==
  ASSUME MasksTypeOK
  PROVE  /\ \A x : Chain(x) \subseteq ChainNodes
         /\ \A x \in anchored : x \in Owners /\ Chain(x) = NodesFrom(links, x)
         /\ \A x : x \notin anchored => Chain(x) = {}
         /\ \A x \in anchored : Follows(links, x, Chain(x))
         /\ Redirected \subseteq ChainNodes
<1>1. \A x \in anchored : x \in Owners /\ Chain(x) = NodesFrom(links, x)
  BY DEF MasksTypeOK, Owners, Chain
<1>2. \A x : x \notin anchored => Chain(x) = {}
  BY DEF Chain
<1>3. \A x \in anchored : Chain(x) \subseteq ChainNodes /\ Follows(links, x, Chain(x))
  BY <1>1, LinksTyped, ReachedIsClosed
<1>4. Redirected \subseteq ChainNodes
  BY CallTyped DEF Redirected
<1> QED BY <1>1, <1>2, <1>3, <1>4, Zenon

(* Whose node a chain has.                                                 *)
LEMMA ChainsHaveOwn ==
  ASSUME MasksTypeOK, NodesHold, NEW x, NEW n \in Chain(x)
  PROVE  /\ x \in anchored /\ n \in ChainNodes /\ n \in InChains
         /\ PairOf(n) \in Made /\ PairOf(n) \notin freed
         /\ ProcOf(n) \in open /\ ProcOf(n) \in MaskClients
         /\ Owner(n) = x
         /\ x \in MaskWindows => n = Em1(PairOf(n)) /\ n[1] = "em1" /\ em[PairOf(n)].win = x
         /\ x \in MaskClients => n = Em2(PairOf(n)) /\ n[1] = "em2" /\ ProcOf(n) = x
<1>1. x \in anchored /\ n \in ChainNodes
  BY ChainsAreReached
<1>2. n \in InChains
  BY <1>1 DEF InChains
<1>3. PairOf(n) \in Made /\ PairOf(n) \notin freed /\ ProcOf(n) \in open /\ Owner(n) = x
  BY <1>1 DEF NodesHold
<1>4. ProcOf(n) \in MaskClients /\ em[PairOf(n)].win \in MaskWindows
  BY <1>3, MadeAreRecords DEF ProcOf
<1>5. n[1] = "em1" => n = Em1(PairOf(n)) /\ Owner(n) = em[PairOf(n)].win
  BY <1>1, NodeKinds DEF Owner
<1>6. n[1] # "em1" => n = Em2(PairOf(n)) /\ n[1] = "em2" /\ Owner(n) = ProcOf(n)
  BY <1>1, NodeKinds DEF Owner
<1> QED BY <1>1, <1>2, <1>3, <1>4, <1>5, <1>6, OwnersDiffer

(* No node is in two chains.                                               *)
LEMMA ChainsApart ==
  ASSUME MasksTypeOK, NodesHold
  PROVE  /\ \A x, y : Chain(x) \cap Chain(y) # {} => x = y
         /\ Apart(links, anchored)
<1>1. \A x, y : Chain(x) \cap Chain(y) # {} => x = y
  BY ChainsHaveOwn
<1>2. \A x \in anchored : Chain(x) = NodesFrom(links, x)
  BY ChainsAreReached
<1> QED BY <1>1, <1>2 DEF Apart

(* What follows on a node of a chain, or on its anchor, is in the chain.   *)
LEMMA NextInChain ==
  ASSUME MasksTypeOK, NEW x \in anchored, NEW n \in Chain(x) \cup {Anchor(x)},
         links.next[n] # NULL
  PROVE  links.next[n] \in Chain(x)
BY ChainsAreReached DEF Follows

(* What redirects the back link of a node is in its chain.                 *)
LEMMA RedirectedIsFirst ==
  ASSUME MasksTypeOK, CallersHold, NEW c \in MaskClients, Between(c), call[c].nxt # NULL
  PROVE  /\ ChainOf(c) \in anchored /\ call[c].nxt \in Chain(ChainOf(c))
         /\ links.next[Anchor(ChainOf(c))] = call[c].nxt
<1>1. ChainOf(c) \in anchored /\ links.next[Anchor(ChainOf(c))] = call[c].nxt
  BY DEF CallersHold, BetweenHolds
<1> QED BY <1>1, NextInChain

(* What holds of each client, and which chain one adds to.                 *)
LEMMA CallersAre ==
  ASSUME MasksTypeOK, CallersHold, NEW c \in MaskClients
  PROVE  /\ LookHolds(c) /\ CallHolds(c) /\ AddHolds(c) /\ BetweenHolds(c) /\ DeadHolds(c)
         /\ call[c].pc # "idle" => c \in open
         /\ InCall(c) => call[c].w \in MaskWindows /\ wlife[call[c].w] = "live"
         /\ Enters(c) => /\ InCall(c) /\ ChainOf(c) \in Owners
                         /\ call[c].new[1] = "em1" => /\ ChainOf(c) = call[c].w
                                                      /\ call[c].new = Em1(PairOf(call[c].new))
                         /\ call[c].new[1] # "em1" => /\ ChainOf(c) = c /\ call[c].new[1] = "em2"
                                                      /\ call[c].new = Em2(PairOf(call[c].new))
         /\ Between(c) => Enters(c)
<1>1. LookHolds(c) /\ CallHolds(c) /\ AddHolds(c) /\ BetweenHolds(c) /\ DeadHolds(c)
  BY DEF CallersHold
<1>2. Enters(c) => InCall(c) /\ call[c].new \in ChainNodes
  BY <1>1 DEF Enters, InCall, AddHolds
<1>3. InCall(c) => call[c].w \in MaskWindows /\ wlife[call[c].w] = "live"
  BY <1>1 DEF CallHolds
<1>4. ChainOf(c) = IF call[c].new[1] = "em1" THEN call[c].w ELSE c
  BY DEF ChainOf
<1>5. Between(c) => Enters(c)
  BY DEF Between, Enters
<1> QED BY <1>1, <1>2, <1>3, <1>4, <1>5, OwnersDiffer, NodeKinds DEF CallHolds

(* Two clients that are adding add different nodes of different pairs.     *)
LEMMA OwnPairs ==
  ASSUME MasksTypeOK, CallersHold, NEW c \in MaskClients, NEW d \in MaskClients,
         c # d, Enters(c), Enters(d)
  PROVE  PairOf(call[c].new) # PairOf(call[d].new) /\ call[c].new # call[d].new
<1>1. /\ em[PairOf(call[c].new)] = [win |-> call[c].w, proc |-> c, mask |-> call[c].mask]
      /\ em[PairOf(call[d].new)] = [win |-> call[d].w, proc |-> d, mask |-> call[d].mask]
  BY DEF CallersHold, AddHolds
<1>2. em[PairOf(call[c].new)].proc = c /\ em[PairOf(call[d].new)].proc = d
  BY <1>1
<1> QED BY <1>2
-----------------------------------------------------------------------------
(* Steps of a client c that leave the chains as they are.                  *)
Quiet(c) ==
  /\ UNCHANGED <<chains, open, wlife>>
  /\ crossed \subseteq crossed'
  /\ \A d \in MaskClients \ {c} : call'[d] = call[d]
  /\ call[c].pc = "publish" => call[c].nxt = NULL
  /\ call'[c].pc \notin {"back", "publish"}
  /\ Enters(c) => call'[c].new = call[c].new /\ call[c].new # NULL
                  /\ (Enters(c)' \/ (call'[c].pc = "dead" /\ call[c].new[1] = "em1"))
  /\ call[c].pc # "dead"

(* Chains depend on anchors and links only.                                *)
LEMMA SameChains ==
  ASSUME UNCHANGED chains
  PROVE  /\ anchored' = anchored /\ links' = links /\ em' = em /\ freed' = freed
         /\ \A x : Chain(x)' = Chain(x)
         /\ InChains' = InChains /\ Made' = Made
         /\ \A w, b : Receivers(w, b)' = Receivers(w, b)
BY DEF chains, Chain, InChains, Made, Fresh, Receivers

(* A step that leaves chains, windows and masks alone, and changes what    *)
(* one client knows: what holds of the others still does.                  *)
LEMMA QuietStep ==
  ASSUME MasksTypeOK, Sound, NEW c \in MaskClients, Quiet(c)
  PROVE  /\ NodesHold' /\ RingsHold' /\ LivesHold' /\ OneMask' /\ OneAtATime' /\ PairsHold'
         /\ BetweenHolds(c)'
         /\ \A d \in MaskClients \ {c} :
              LookHolds(d)' /\ CallHolds(d)' /\ AddHolds(d)' /\ BetweenHolds(d)' /\ DeadHolds(d)'
<1>1. /\ anchored' = anchored /\ links' = links /\ em' = em /\ freed' = freed
      /\ \A x : Chain(x)' = Chain(x)
      /\ InChains' = InChains /\ Made' = Made
  BY SameChains DEF Quiet
<1>2. /\ open' = open /\ wlife' = wlife /\ crossed \subseteq crossed'
      /\ \A d \in MaskClients \ {c} : call'[d] = call[d]
      /\ call'[c].pc \notin {"back", "publish"}
  BY DEF Quiet
<1>3. NodesHold'
  BY <1>1, <1>2 DEF Sound, NodesHold, ProcOf, Owner
<1>4. Redirected' = Redirected
  BY <1>2 DEF Redirected, Quiet
<1>5. RingsHold'
  BY <1>1, <1>4 DEF Sound, RingsHold
<1>6. LivesHold' /\ OneMask'
  BY <1>1, <1>2 DEF Sound, LivesHold, OneMask, ProcOf
<1>7. ~Between(c)' /\ \A d \in MaskClients \ {c} : (Between(d)' <=> Between(d)) /\ ChainOf(d)' = ChainOf(d)
  <2>1. ~Between(c)'
    BY <1>2 DEF Between
  <2>2. ASSUME NEW d \in MaskClients \ {c} PROVE (Between(d)' <=> Between(d)) /\ ChainOf(d)' = ChainOf(d)
    BY <1>2 DEF Between, ChainOf
  <2> QED BY <2>1, <2>2
<1>8. OneAtATime'
  BY <1>7 DEF Sound, OneAtATime
<1>9. BetweenHolds(c)'
  BY <1>7 DEF BetweenHolds
<1>10. ASSUME NEW m \in Made \ freed, em[m].proc \in open PROVE Unfinished(m)' \/ Complete(m)'
  <2>1. CASE Complete(m)
    BY <1>1, <2>1 DEF Complete
  <2>2. CASE ~Complete(m)
    <3>1. PICK d \in MaskClients : \/ Enters(d) /\ call[d].new \in {Em1(m), Em2(m)}
                                   \/ call[d].pc = "dead" /\ call[d].new = Em1(m)
      BY <1>10, <2>2 DEF Sound, PairsHold, Unfinished
    <3>2. CASE d # c
      BY <1>2, <3>1, <3>2 DEF Unfinished, Enters
    <3>3. CASE d = c
      <4>1. Enters(c) /\ call[c].new \in {Em1(m), Em2(m)}
        BY <3>1, <3>3 DEF Quiet
      <4>2. call'[c].new = call[c].new
        BY <4>1 DEF Quiet
      <4>3. CASE Enters(c)'
        BY <4>1, <4>2, <4>3 DEF Unfinished
      <4>4. CASE ~Enters(c)'
        <5>1. call'[c].pc = "dead" /\ call[c].new[1] = "em1"
          BY <4>1, <4>4 DEF Quiet
        <5>2. call[c].new = Em1(m)
          BY <4>1, <5>1, NodeKinds DEF Made
        <5> QED BY <4>2, <5>1, <5>2 DEF Unfinished
      <4> QED BY <4>3, <4>4
    <3> QED BY <3>2, <3>3
  <2> QED BY <2>1, <2>2
<1>11. PairsHold'
  BY <1>1, <1>2, <1>10 DEF PairsHold
<1>12. ASSUME NEW d \in MaskClients \ {c}
       PROVE  LookHolds(d)' /\ CallHolds(d)' /\ AddHolds(d)' /\ BetweenHolds(d)' /\ DeadHolds(d)'
  <2>1. LookHolds(d) /\ CallHolds(d) /\ AddHolds(d) /\ BetweenHolds(d) /\ DeadHolds(d)
    BY DEF Sound, CallersHold
  <2>2. LookHolds(d)'
    BY <1>1, <1>2, <2>1 DEF LookHolds, Met, Stands, ProcOf
  <2>3. CallHolds(d)'
    BY <1>1, <1>2, <2>1 DEF CallHolds, InCall, ProcOf
  <2>4. AddHolds(d)'
    BY <1>1, <1>2, <2>1 DEF AddHolds, Enters, ProcOf
  <2>5. BetweenHolds(d)'
    BY <1>1, <1>2, <2>1 DEF BetweenHolds, Between, ChainOf
  <2>6. DeadHolds(d)'
    BY <1>1, <1>2, <2>1 DEF DeadHolds
  <2> QED BY <2>2, <2>3, <2>4, <2>5, <2>6
<1> QED BY <1>3, <1>5, <1>6, <1>8, <1>9, <1>11, <1>12

(* What holds of each holds of all.                                        *)
LEMMA CallersPut ==
  ASSUME NEW c \in MaskClients,
         LookHolds(c)' /\ CallHolds(c)' /\ AddHolds(c)' /\ BetweenHolds(c)' /\ DeadHolds(c)',
         \A d \in MaskClients \ {c} :
           LookHolds(d)' /\ CallHolds(d)' /\ AddHolds(d)' /\ BetweenHolds(d)' /\ DeadHolds(d)'
  PROVE  CallersHold'
<1>1. \A d \in MaskClients :
        LookHolds(d)' /\ CallHolds(d)' /\ AddHolds(d)' /\ BetweenHolds(d)' /\ DeadHolds(d)'
  BY Zenon
<1> QED BY <1>1 DEF CallersHold
-----------------------------------------------------------------------------
(* Where a client goes that looks through a chain: to a node of the chain, *)
(* or it has met all of them.                                              *)
LEMMA Looking ==
  ASSUME MasksTypeOK, Sound, NEW c \in MaskClients, call[c].pc \in {"check", "find"}
  PROVE  /\ call[c].w \in MaskWindows
         /\ \E met \in SUBSET ChainNodes :
              /\ Met(c, met)
              /\ NextOf(c) = NULL =>
                   met = Chain(call[c].w) /\ (call[c].pc = "check" => call[c].w \in anchored)
              /\ NextOf(c) # NULL =>
                   /\ call[c].w \in anchored /\ NextOf(c) \in Chain(call[c].w)
                   /\ UpTo(links, call[c].w, met \cup {NextOf(c)}, NextOf(c))
<1> DEFINE w == call[c].w
           cur == call[c].cur
           n == NextOf(c)
<1>1. w \in MaskWindows
  BY CallersAre DEF Sound, InCall
<1>2. PICK met \in SUBSET ChainNodes : Met(c, met)
  BY CallersAre DEF Sound, LookHolds
<1>3. met \subseteq Chain(w) /\ Stands(c, met)
  BY <1>2 DEF Met
<1>4. CASE cur = NULL
  BY <1>1, <1>2, <1>3, <1>4, NodeKinds, OwnersDiffer DEF Stands, NextOf
<1>5. CASE cur # NULL /\ cur = Anchor(w)
  <2>1. w \in anchored /\ met = {}
    BY <1>1, <1>3, <1>5, NodeKinds DEF Stands
  <2>2. n = links.next[Anchor(w)]
    BY <1>5 DEF NextOf
  <2>3. n = NULL => Chain(w) = {}
    BY <2>1, <2>2, NothingReached, ChainsAreReached
  <2>4. n # NULL => n \in Chain(w)
    BY <2>1, <2>2, NextInChain
  <2>5. UpTo(links, w, {n}, n)
    BY <2>2 DEF UpTo
  <2> QED BY <1>1, <1>2, <2>1, <2>3, <2>4, <2>5
<1>6. CASE cur # NULL /\ cur # Anchor(w)
  <2>1. w \in anchored /\ UpTo(links, w, met, cur) /\ cur \in met
    BY <1>3, <1>6 DEF Stands, UpTo
  <2>2. n = links.next[cur]
    BY <1>6 DEF NextOf
  <2>3. ASSUME n = NULL PROVE Chain(w) = met
    <3>1. Follows(links, w, met)
      BY <2>1, <2>2, <2>3 DEF Follows, UpTo
    <3>2. Chain(w) \subseteq met
      BY <2>1, <3>1, ReachedIsLeast, ChainsAreReached
    <3> QED BY <1>3, <3>2
  <2>4. n # NULL => n \in Chain(w)
    BY <1>3, <2>1, <2>2, NextInChain
  <2>5. UpTo(links, w, met \cup {n}, n)
    BY <2>1, <2>2 DEF UpTo
  <2> QED BY <1>1, <1>2, <2>1, <2>3, <2>4, <2>5
<1> QED BY <1>4, <1>5, <1>6

(* XSelectInput begins to look: where nobody has selected yet, for nothing.*)
LEMMA SelectInputKeeps ==
  ASSUME MasksTypeOK, Sound, NEW c \in MaskClients, NEW w \in MaskWindows,
         NEW mask \in Asked[w], SelectInput(c, w, mask)
  PROVE  Sound'
<1>1. /\ c \in open /\ call[c].pc = "idle" /\ wlife[w] = "live"
      /\ UNCHANGED <<windows, chains, open, selected, harm>>
      /\ crossed' = IF \E d \in MaskClients : InCall(d) /\ call[d].w = w
                    THEN crossed \cup {w} ELSE crossed
  BY DEF SelectInput
<1>2. /\ call'[c] = [pc |-> IF Critical(w, mask) # {} THEN "check" ELSE "find", w |-> w,
                     mask |-> mask, cur |-> AnchorOrNull(w), new |-> NULL, nxt |-> NULL]
      /\ \A d \in MaskClients \ {c} : call'[d] = call[d]
  BY DEF SelectInput, MasksTypeOK
<1>3. /\ call'[c].pc \in {"check", "find"} /\ call'[c].w = w /\ call'[c].mask = mask
      /\ call'[c].cur = AnchorOrNull(w) /\ call'[c].new = NULL
      /\ call'[c].pc = "check" <=> Critical(w, mask) # {}
  BY <1>2
<1>4. Quiet(c)
  BY <1>1, <1>2, <1>3 DEF Quiet, windows, Enters
<1>5. /\ NodesHold' /\ RingsHold' /\ LivesHold' /\ OneMask' /\ OneAtATime' /\ PairsHold'
      /\ BetweenHolds(c)'
      /\ \A d \in MaskClients \ {c} :
           LookHolds(d)' /\ CallHolds(d)' /\ AddHolds(d)' /\ BetweenHolds(d)' /\ DeadHolds(d)'
  BY <1>4, QuietStep
<1>6. /\ anchored' = anchored /\ links' = links /\ em' = em /\ open' = open
      /\ wlife' = wlife /\ wmask' = wmask /\ selected' = selected
      /\ \A x : Chain(x)' = Chain(x)
      /\ \A v, b : Receivers(v, b)' = Receivers(v, b)
  BY <1>1, SameChains DEF windows, chains
<1>7. /\ call'[c].pc = "check" => w \in anchored /\ KeyPressMask \in mask
      /\ KeyPressMask \in mask /\ call'[c].pc # "check" => w \notin anchored
  BY <1>3 DEF Critical
<1>8. LookHolds(c)'
  <2>1. CASE w \in anchored
    <3>1. Stands(c, {})'
      BY <1>3, <1>6, <2>1 DEF Stands, AnchorOrNull
    <3>2. Met(c, {})'
      BY <3>1 DEF Met
    <3> QED BY <1>3, <1>7, <3>2 DEF LookHolds
  <2>2. CASE w \notin anchored
    <3>1. Chain(w) = {} /\ call'[c].pc = "find" /\ call'[c].cur = NULL
      BY <1>3, <1>7, <2>2, ChainsAreReached DEF AnchorOrNull
    <3>2. Stands(c, {})'
      BY <1>3, <1>6, <3>1 DEF Stands
    <3>3. Met(c, {})'
      BY <3>2 DEF Met
    <3> QED BY <3>1, <3>3 DEF LookHolds
  <2> QED BY <2>1, <2>2
<1>9. CallHolds(c)' /\ AddHolds(c)' /\ DeadHolds(c)'
  BY <1>1, <1>3, <1>6 DEF CallHolds, InCall, AddHolds, Enters, DeadHolds
<1>10. CallersHold'
  BY <1>5, <1>8, <1>9, CallersPut
<1>11. SelectedHold'
  <2>1. ASSUME NEW v \in MaskWindows, NEW d \in open, wlife[v] = "live",
               call'[d].w # v \/ call'[d].pc \in {"idle", "check", "find"}
        PROVE  call[d].w # v \/ call[d].pc \in {"idle", "check", "find"}
    BY <1>1, <1>2, <2>1 DEF MasksTypeOK
  <2> QED BY <1>6, <2>1 DEF Sound, SelectedHold, ProcOf
<1>12. KeyPressHold'
  <2>1. ASSUME NEW v \in MaskWindows \ crossed' PROVE Alone(v)'
    <3>1. v \notin crossed /\ Alone(v)
      BY <1>1, <2>1 DEF Sound, KeyPressHold
    <3>2. \A d \in MaskClients : InCall(d)' /\ call'[d].w = v =>
            (d # c /\ InCall(d) /\ call[d].w = v) \/ (d = c /\ v = w)
      BY <1>2, <1>3 DEF InCall
    <3>3. v = w => \A d \in MaskClients : ~(InCall(d) /\ call[d].w = w)
      BY <1>1, <2>1
    <3>4. \A d, e \in MaskClients :
            InCall(d)' /\ InCall(e)' /\ call'[d].w = v /\ call'[e].w = v => d = e
      BY <3>1, <3>2, <3>3 DEF Alone
    <3>5. ASSUME NEW d \in MaskClients, InCall(d)', call'[d].w = v,
                 KeyPressMask \in call'[d].mask, call'[d].pc # "check",
                 NEW n \in Receivers(v, KeyPressMask)
          PROVE  ProcOf(n) = d
      <4>1. CASE d = c
        <5>1. Chain(v) = {}
          BY <1>3, <1>7, <3>5, <4>1, ChainsAreReached
        <5> QED BY <5>1 DEF Receivers
      <4>2. CASE d # c
        BY <1>2, <3>1, <3>2, <3>5, <4>2 DEF Alone
      <4> QED BY <4>1, <4>2
    <3> QED BY <1>6, <3>1, <3>4, <3>5 DEF Alone, ProcOf
  <2> QED BY <2>1 DEF KeyPressHold
<1> QED BY <1>5, <1>10, <1>11, <1>12 DEF Sound
-----------------------------------------------------------------------------
(* What a step says that goes on looking, or stops.                        *)
LEMMA QuietCaller ==
  ASSUME MasksTypeOK, Sound, NEW c \in MaskClients, Quiet(c), ~Enters(c), InCall(c),
         UNCHANGED <<wmask, selected>>, crossed' = crossed,
         LookHolds(c)', CallHolds(c)', ~Enters(c)', ~(call'[c].pc = "dead"),
         call'[c].pc \in {"idle", "check", "find"}, call[c].pc \in {"check", "find"},
         InCall(c)' => call'[c].w = call[c].w /\ call'[c].mask = call[c].mask,
         call'[c].pc = "find" =>
           \/ call[c].pc = "find"
           \/ call[c].w \notin crossed =>
                \A n \in Receivers(call[c].w, KeyPressMask) : ProcOf(n) = c
  PROVE  Sound'
<1>1. /\ NodesHold' /\ RingsHold' /\ LivesHold' /\ OneMask' /\ OneAtATime' /\ PairsHold'
      /\ BetweenHolds(c)'
      /\ \A d \in MaskClients \ {c} :
           LookHolds(d)' /\ CallHolds(d)' /\ AddHolds(d)' /\ BetweenHolds(d)' /\ DeadHolds(d)'
  BY QuietStep
<1>2. /\ em' = em /\ open' = open /\ wlife' = wlife /\ wmask' = wmask /\ selected' = selected
      /\ \A x : Chain(x)' = Chain(x)
      /\ \A v, b : Receivers(v, b)' = Receivers(v, b)
      /\ \A d \in MaskClients \ {c} : call'[d] = call[d]
  BY SameChains DEF Quiet
<1>3. CallersHold'
  <2>1. AddHolds(c)' /\ DeadHolds(c)'
    BY DEF AddHolds, DeadHolds
  <2> QED BY <1>1, <2>1, CallersPut
<1>4. SelectedHold'
  <2>1. ASSUME NEW v \in MaskWindows, NEW d \in open, wlife[v] = "live",
               call'[d].w # v \/ call'[d].pc \in {"idle", "check", "find"}
        PROVE  call[d].w # v \/ call[d].pc \in {"idle", "check", "find"}
    BY <1>2, <2>1 DEF MasksTypeOK
  <2> QED BY <1>2, <2>1 DEF Sound, SelectedHold, ProcOf
<1>5. KeyPressHold'
  <2>1. ASSUME NEW v \in MaskWindows \ crossed' PROVE Alone(v)'
    <3>1. v \notin crossed /\ Alone(v)
      BY <2>1 DEF Sound, KeyPressHold
    <3>2. \A d \in MaskClients : InCall(d)' /\ call'[d].w = v => InCall(d) /\ call[d].w = v
      BY <1>2 DEF InCall
    <3>3. ASSUME NEW d \in MaskClients, InCall(d)', call'[d].w = v,
                 KeyPressMask \in call'[d].mask, call'[d].pc # "check",
                 NEW n \in Receivers(v, KeyPressMask)
          PROVE  ProcOf(n) = d
      <4>1. CASE d = c
        <5>1. call'[c].pc = "find" /\ call[c].w = v /\ KeyPressMask \in call[c].mask
          BY <3>2, <3>3, <4>1 DEF InCall
        <5>2. CASE call[c].pc = "find"
          BY <3>1, <3>2, <3>3, <4>1, <5>1, <5>2 DEF Alone
        <5>3. CASE call[c].pc # "find"
          BY <3>1, <3>3, <4>1, <5>1, <5>3
        <5> QED BY <5>2, <5>3
      <4>2. CASE d # c
        BY <1>2, <3>1, <3>2, <3>3, <4>2 DEF Alone
      <4> QED BY <4>1, <4>2
    <3>4. \A d, e \in MaskClients :
            InCall(d)' /\ InCall(e)' /\ call'[d].w = v /\ call'[e].w = v => d = e
      BY <3>1, <3>2 DEF Alone
    <3> QED BY <1>2, <3>1, <3>3, <3>4 DEF Alone, ProcOf
  <2> QED BY <2>1 DEF KeyPressHold
<1> QED BY <1>1, <1>3, <1>4, <1>5 DEF Sound

(* The loops of checkEventMask and Daemon_findEventMask go on.             *)
LEMMA CheckEventMaskKeeps ==
  ASSUME MasksTypeOK, Sound, NEW c \in MaskClients, CheckEventMask(c)
  PROVE  Sound'
<1>0. PICK n : n = NextOf(c)
  OBVIOUS
<1> DEFINE w == call[c].w
           other == /\ n # NULL
                    /\ em[PairOf(n)].mask \cap call[c].mask \cap {KeyPressMask} # {}
                    /\ em[PairOf(n)].proc # c
<1>1. /\ call[c].pc = "check"
      /\ UNCHANGED <<windows, chains, open, selected, harm, crossed>>
      /\ \A d \in MaskClients \ {c} : call'[d] = call[d]
  BY DEF CheckEventMask, MasksTypeOK
<1>2. call'[c] = IF n = NULL THEN [call[c] EXCEPT !.pc = "find", !.cur = AnchorOrNull(w)]
                 ELSE IF other THEN Idle
                 ELSE [call[c] EXCEPT !.cur = n]
  BY <1>0 DEF CheckEventMask, MasksTypeOK
<1>3. call[c] = [pc |-> call[c].pc, w |-> call[c].w, mask |-> call[c].mask,
                 cur |-> call[c].cur, new |-> call[c].new, nxt |-> call[c].nxt]
  BY CallTyped
<1>4. PICK met \in SUBSET ChainNodes :
        /\ Met(c, met)
        /\ n = NULL => met = Chain(w) /\ w \in anchored
        /\ n # NULL => /\ w \in anchored /\ n \in Chain(w)
                       /\ UpTo(links, w, met \cup {n}, n)
  BY <1>0, <1>1, Looking
<1>5. /\ w \in MaskWindows /\ c \in open /\ wlife[w] = "live" /\ call[c].new = NULL
      /\ KeyPressMask \in call[c].mask
  BY <1>1, CallersAre DEF Sound, InCall, CallHolds, LookHolds
<1>6. /\ anchored' = anchored /\ links' = links /\ em' = em /\ open' = open
      /\ wlife' = wlife /\ wmask' = wmask /\ selected' = selected /\ crossed' = crossed
      /\ \A x : Chain(x)' = Chain(x)
  BY <1>1, SameChains DEF windows, chains
<1>7. met \subseteq Chain(w) /\ w \notin crossed =>
        \A m \in met : KeyPressMask \in em[PairOf(m)].mask => ProcOf(m) = c
  BY <1>1, <1>4 DEF Met
<1>8. CASE n = NULL
  <2>1. /\ call'[c].pc = "find" /\ call'[c].cur = Anchor(w) /\ call'[c].w = w
        /\ call'[c].mask = call[c].mask /\ call'[c].new = NULL
    BY <1>2, <1>3, <1>4, <1>5, <1>8 DEF AnchorOrNull
  <2>2. Met(c, {})'
    BY <1>4, <1>6, <1>8, <2>1 DEF Met, Stands
  <2>3. LookHolds(c)' /\ CallHolds(c)'
    BY <1>5, <1>6, <2>1, <2>2 DEF LookHolds, CallHolds, InCall
  <2>4. w \notin crossed => \A m \in Receivers(w, KeyPressMask) : ProcOf(m) = c
    BY <1>4, <1>7, <1>8 DEF Receivers, Met
  <2>5. Quiet(c) /\ ~Enters(c) /\ InCall(c) /\ ~Enters(c)'
    BY <1>1, <1>6, <2>1 DEF Quiet, Enters, InCall
  <2> QED BY <1>1, <1>6, <2>1, <2>3, <2>4, <2>5, QuietCaller
<1>9. CASE n # NULL /\ other
  <2>1. call'[c].pc = "idle" /\ call'[c].new = NULL
    BY <1>2, <1>9 DEF Idle
  <2>2. LookHolds(c)' /\ CallHolds(c)'
    BY <2>1 DEF LookHolds, CallHolds, InCall
  <2>3. Quiet(c) /\ ~Enters(c) /\ InCall(c) /\ ~Enters(c)' /\ ~InCall(c)'
    BY <1>1, <1>6, <2>1 DEF Quiet, Enters, InCall
  <2> QED BY <1>1, <1>6, <2>1, <2>2, <2>3, QuietCaller
<1>10. CASE n # NULL /\ ~other
  <2>1. /\ call'[c].pc = "check" /\ call'[c].cur = n /\ call'[c].w = w
        /\ call'[c].mask = call[c].mask /\ call'[c].new = NULL
    BY <1>1, <1>2, <1>3, <1>5, <1>10
  <2>2. KeyPressMask \in em[PairOf(n)].mask => ProcOf(n) = c
    BY <1>5, <1>10 DEF ProcOf
  <2>3. n \in ChainNodes
    BY <1>4, <1>10, ChainsAreReached
  <2>4. Met(c, met \cup {n})'
    <3>1. Stands(c, met \cup {n})'
      BY <1>4, <1>6, <1>10, <2>1, <2>3 DEF Stands
    <3>2. met \cup {n} \subseteq Chain(w)
      BY <1>4, <1>10 DEF Met
    <3>3. w \notin crossed =>
            \A m \in met \cup {n} : KeyPressMask \in em[PairOf(m)].mask => ProcOf(m) = c
      BY <1>1, <1>4, <2>2 DEF Met
    <3> QED BY <1>6, <2>1, <3>1, <3>2, <3>3 DEF Met, ProcOf
  <2>5. LookHolds(c)' /\ CallHolds(c)'
    <3>1. met \cup {n} \in SUBSET ChainNodes
      BY <2>3
    <3>2. LookHolds(c)'
      BY <1>5, <2>1, <2>4, <3>1 DEF LookHolds
    <3>3. CallHolds(c)'
      BY <1>5, <1>6, <2>1 DEF CallHolds, InCall
    <3> QED BY <3>2, <3>3
  <2>6. Quiet(c) /\ ~Enters(c) /\ InCall(c) /\ ~Enters(c)'
    BY <1>1, <1>6, <2>1 DEF Quiet, Enters, InCall
  <2> QED BY <1>1, <1>6, <2>1, <2>5, <2>6, QuietCaller
<1> QED BY <1>8, <1>9, <1>10

(* The client meets a mask of another one, and goes on.                    *)
LEMMA FindOtherKeeps ==
  ASSUME MasksTypeOK, Sound, NEW c \in MaskClients, FindOther(c)
  PROVE  Sound'
<1>0. PICK n : n = NextOf(c)
  OBVIOUS
<1> DEFINE w == call[c].w
<1>1. /\ call[c].pc = "find" /\ n # NULL /\ em[PairOf(n)].proc # c
      /\ UNCHANGED <<windows, chains, open, selected, harm, crossed>>
      /\ call' = [call EXCEPT ![c].cur = n]
  BY <1>0 DEF FindOther
<1>2. /\ \A d \in MaskClients \ {c} : call'[d] = call[d]
      /\ call'[c] = [call[c] EXCEPT !.cur = n]
  BY <1>1 DEF MasksTypeOK
<1>3. call[c] = [pc |-> call[c].pc, w |-> call[c].w, mask |-> call[c].mask,
                 cur |-> call[c].cur, new |-> call[c].new, nxt |-> call[c].nxt]
  BY CallTyped
<1>4. PICK met \in SUBSET ChainNodes :
        Met(c, met) /\ w \in anchored /\ n \in Chain(w) /\ UpTo(links, w, met \cup {n}, n)
  BY <1>0, <1>1, Looking
<1>5. w \in MaskWindows /\ c \in open /\ wlife[w] = "live" /\ call[c].new = NULL
  BY <1>1, CallersAre DEF Sound, InCall, CallHolds
<1>6. /\ anchored' = anchored /\ links' = links /\ em' = em /\ open' = open
      /\ wlife' = wlife /\ wmask' = wmask /\ selected' = selected /\ crossed' = crossed
      /\ \A x : Chain(x)' = Chain(x)
  BY <1>1, SameChains DEF windows, chains
<1>7. /\ call'[c].pc = "find" /\ call'[c].cur = n /\ call'[c].w = w
      /\ call'[c].mask = call[c].mask /\ call'[c].new = NULL
  BY <1>1, <1>2, <1>3, <1>5
<1>8. n \in ChainNodes
  BY <1>4, ChainsAreReached
<1>9. Met(c, met \cup {n})'
  <2>1. Stands(c, met \cup {n})'
    BY <1>4, <1>6, <1>7, <1>8 DEF Stands
  <2>2. met \cup {n} \subseteq Chain(w) /\ \A m \in met \cup {n} : ProcOf(m) # c
    BY <1>1, <1>4 DEF Met, ProcOf
  <2> QED BY <1>6, <1>7, <2>1, <2>2 DEF Met, ProcOf
<1>10. LookHolds(c)' /\ CallHolds(c)'
  <2>1. met \cup {n} \in SUBSET ChainNodes
    BY <1>8
  <2>2. LookHolds(c)'
    BY <1>7, <1>9, <2>1 DEF LookHolds
  <2>3. CallHolds(c)'
    BY <1>5, <1>6, <1>7 DEF CallHolds, InCall
  <2> QED BY <2>2, <2>3
<1>11. Quiet(c) /\ ~Enters(c) /\ InCall(c) /\ ~Enters(c)'
  BY <1>1, <1>2, <1>6, <1>7 DEF Quiet, Enters, InCall
<1> QED BY <1>1, <1>6, <1>7, <1>10, <1>11, QuietCaller
-----------------------------------------------------------------------------
(* What is said of masks and of calls that are alone stays, if the client  *)
(* does not stop adding or changing its mask.                              *)
LEMMA MasksKeep ==
  ASSUME MasksTypeOK, Sound, NEW c \in MaskClients, Quiet(c), crossed' = crossed,
         UNCHANGED <<wmask, selected>>,
         call'[c].w = call[c].w, call'[c].mask = call[c].mask,
         call'[c].pc \notin {"idle", "check", "find"}, InCall(c),
         InCall(c)' => call[c].pc # "check"
  PROVE  SelectedHold' /\ KeyPressHold'
<1>1. /\ em' = em /\ open' = open /\ wlife' = wlife
      /\ \A x : Chain(x)' = Chain(x)
      /\ \A v, b : Receivers(v, b)' = Receivers(v, b)
      /\ \A d \in MaskClients \ {c} : call'[d] = call[d]
  BY SameChains DEF Quiet
<1>2. SelectedHold'
  <2>1. ASSUME NEW v \in MaskWindows, NEW d \in open, wlife[v] = "live",
               call'[d].w # v \/ call'[d].pc \in {"idle", "check", "find"}
        PROVE  call[d].w # v \/ call[d].pc \in {"idle", "check", "find"}
    BY <1>1, <2>1 DEF MasksTypeOK
  <2> QED BY <1>1, <2>1 DEF Sound, SelectedHold, ProcOf
<1>3. KeyPressHold'
  <2>1. ASSUME NEW v \in MaskWindows \ crossed' PROVE Alone(v)'
    <3>1. Alone(v)
      BY <2>1 DEF Sound, KeyPressHold
    <3>2. \A d \in MaskClients : InCall(d)' /\ call'[d].w = v => InCall(d) /\ call[d].w = v
      BY <1>1 DEF InCall
    <3>3. ASSUME NEW d \in MaskClients, InCall(d)', call'[d].w = v,
                 KeyPressMask \in call'[d].mask, call'[d].pc # "check",
                 NEW n \in Receivers(v, KeyPressMask)
          PROVE  ProcOf(n) = d
      <4>1. KeyPressMask \in call[d].mask /\ call[d].pc # "check"
        BY <1>1, <3>3
      <4> QED BY <3>1, <3>2, <3>3, <4>1 DEF Alone
    <3>4. \A d, e \in MaskClients :
            InCall(d)' /\ InCall(e)' /\ call'[d].w = v /\ call'[e].w = v => d = e
      BY <3>1, <3>2 DEF Alone
    <3> QED BY <1>1, <3>1, <3>3, <3>4 DEF Alone, ProcOf
  <2> QED BY <2>1 DEF KeyPressHold
<1> QED BY <1>2, <1>3

(* addResource finds no anchor.                                            *)
LEMMA MissAnchorKeeps ==
  ASSUME MasksTypeOK, Sound, NEW c \in MaskClients, MissAnchor(c)
  PROVE  Sound'
<1>1. /\ call[c].pc = "link" /\ call' = [call EXCEPT ![c].pc = "anchor"]
      /\ UNCHANGED <<windows, chains, open, selected, harm, crossed>>
  BY DEF MissAnchor, Goto
<1>2. /\ \A d \in MaskClients \ {c} : call'[d] = call[d]
      /\ call'[c] = [call[c] EXCEPT !.pc = "anchor"]
  BY <1>1 DEF MasksTypeOK
<1>3. call[c] = [pc |-> call[c].pc, w |-> call[c].w, mask |-> call[c].mask,
                 cur |-> call[c].cur, new |-> call[c].new, nxt |-> call[c].nxt]
  BY CallTyped
<1>4. /\ call'[c].pc = "anchor" /\ call'[c].w = call[c].w /\ call'[c].mask = call[c].mask
      /\ call'[c].new = call[c].new
  BY <1>2, <1>3
<1>5. Enters(c) /\ Enters(c)' /\ InCall(c)
  BY <1>1, <1>4 DEF Enters, InCall
<1>6. /\ AddHolds(c) /\ CallHolds(c) /\ call[c].new \in ChainNodes
  BY <1>5, CallersAre DEF Sound, AddHolds
<1>7. Quiet(c)
  BY <1>1, <1>2, <1>4, <1>5, <1>6, NodeKinds DEF Quiet, windows
<1>8. /\ anchored' = anchored /\ em' = em /\ open' = open /\ freed' = freed
      /\ wlife' = wlife /\ wmask' = wmask /\ selected' = selected /\ crossed' = crossed
      /\ \A x : Chain(x)' = Chain(x)
      /\ InChains' = InChains /\ Made' = Made
  BY <1>1, SameChains DEF windows, chains
<1>9. AddHolds(c)'
  BY <1>4, <1>5, <1>6, <1>8 DEF AddHolds, ProcOf
<1>10. CallHolds(c)' /\ LookHolds(c)' /\ DeadHolds(c)'
  BY <1>1, <1>4, <1>5, <1>6, <1>8 DEF CallHolds, LookHolds, DeadHolds, InCall
<1>11. /\ NodesHold' /\ RingsHold' /\ LivesHold' /\ OneMask' /\ OneAtATime' /\ PairsHold'
       /\ CallersHold'
  BY <1>7, <1>9, <1>10, QuietStep, CallersPut
<1>12. SelectedHold' /\ KeyPressHold'
  BY <1>1, <1>4, <1>5, <1>7, <1>8, MasksKeep
<1> QED BY <1>11, <1>12 DEF Sound

(* A process that ends leaves nothing half done, or the step does harm.    *)
LEMMA DieInCallKeeps ==
  ASSUME MasksTypeOK, Sound, NEW c \in MaskClients, DieInCall(c), ~harm'
  PROVE  Sound'
<1>1. /\ c \in open /\ InCall(c) /\ call' = [call EXCEPT ![c].pc = "dead"]
      /\ UNCHANGED <<windows, chains, open, selected, crossed>>
      /\ Enters(c) => call[c].new[1] # "em2"
      /\ call[c].pc = "publish" => call[c].nxt = NULL
  BY DEF DieInCall, Goto, Enters
<1>2. /\ \A d \in MaskClients \ {c} : call'[d] = call[d]
      /\ call'[c] = [call[c] EXCEPT !.pc = "dead"]
  BY <1>1 DEF MasksTypeOK
<1>3. call[c] = [pc |-> call[c].pc, w |-> call[c].w, mask |-> call[c].mask,
                 cur |-> call[c].cur, new |-> call[c].new, nxt |-> call[c].nxt]
  BY CallTyped
<1>4. /\ call'[c].pc = "dead" /\ call'[c].w = call[c].w /\ call'[c].mask = call[c].mask
      /\ call'[c].new = call[c].new
  BY <1>2, <1>3
<1>5. ~Enters(c)' /\ ~InCall(c)'
  BY <1>4 DEF Enters, InCall
<1>6. /\ AddHolds(c) /\ CallHolds(c)
      /\ Enters(c) => /\ call[c].new \in ChainNodes /\ call[c].new[1] = "em1"
                      /\ call[c].new = Em1(PairOf(call[c].new))
  BY <1>1, CallersAre, NodeKinds DEF Sound, AddHolds
<1>7. Quiet(c)
  BY <1>1, <1>2, <1>4, <1>6, NodeKinds DEF Quiet, windows, InCall
<1>8. /\ anchored' = anchored /\ em' = em /\ open' = open /\ freed' = freed
      /\ wlife' = wlife /\ wmask' = wmask /\ selected' = selected /\ crossed' = crossed
      /\ \A x : Chain(x)' = Chain(x)
      /\ InChains' = InChains /\ Made' = Made
  BY <1>1, SameChains DEF windows, chains
<1>9. DeadHolds(c)'
  <2>1. ASSUME call[c].new # NULL, call[c].new[1] = "em1" PROVE Enters(c)
    <3>1. call[c].pc \notin {"idle", "check", "find", "or", "dead"}
      BY <1>1, <1>6, <2>1 DEF InCall, CallHolds
    <3>2. call[c].pc \in Places
      BY CallTyped
    <3> QED BY <3>1, <3>2 DEF Enters, Places
  <2>2. ASSUME Enters(c)
        PROVE  /\ em[PairOf(call[c].new)].proc = c /\ PairOf(call[c].new) \in Made
               /\ call[c].new \notin InChains /\ Em2(PairOf(call[c].new)) \notin InChains
    <3>1. em[PairOf(call[c].new)] = [win |-> call[c].w, proc |-> c, mask |-> call[c].mask]
      BY <1>6, <2>2 DEF AddHolds
    <3> QED BY <1>6, <2>2, <3>1 DEF AddHolds
  <2> QED BY <1>4, <1>6, <1>8, <2>1, <2>2 DEF DeadHolds
<1>10. CallHolds(c)' /\ LookHolds(c)' /\ AddHolds(c)'
  BY <1>1, <1>4, <1>5, <1>8 DEF CallHolds, LookHolds, AddHolds
<1>11. /\ NodesHold' /\ RingsHold' /\ LivesHold' /\ OneMask' /\ OneAtATime' /\ PairsHold'
       /\ CallersHold'
  BY <1>7, <1>9, <1>10, QuietStep, CallersPut
<1>12. SelectedHold' /\ KeyPressHold'
  BY <1>1, <1>4, <1>5, <1>7, <1>8, MasksKeep
<1> QED BY <1>11, <1>12 DEF Sound

(* The call returns: the client's node in the window's chain has the mask. *)
LEMMA OrMaskKeeps ==
  ASSUME MasksTypeOK, Sound, NEW c \in MaskClients, OrMask(c)
  PROVE  Sound'
<1>1. /\ call[c].pc = "or" /\ call' = [call EXCEPT ![c] = Idle]
      /\ wmask' = [wmask EXCEPT ![call[c].w] = @ \cup call[c].mask]
      /\ selected' = [selected EXCEPT ![call[c].w][c] = call[c].mask]
      /\ UNCHANGED <<wlife, wowner, chains, open, harm, crossed>>
  BY DEF OrMask
<1>2. /\ \A d \in MaskClients \ {c} : call'[d] = call[d]
      /\ call'[c].pc = "idle" /\ call'[c].new = NULL
  BY <1>1 DEF MasksTypeOK, Idle
<1>3. Quiet(c) /\ ~Enters(c) /\ ~Enters(c)' /\ ~InCall(c)'
  BY <1>1, <1>2 DEF Quiet, Enters, InCall
<1>4. /\ em' = em /\ open' = open /\ wlife' = wlife /\ crossed' = crossed
      /\ \A x : Chain(x)' = Chain(x)
      /\ \A v, b : Receivers(v, b)' = Receivers(v, b)
  BY <1>1, SameChains DEF chains
<1>5. LookHolds(c)' /\ CallHolds(c)' /\ AddHolds(c)' /\ DeadHolds(c)'
  BY <1>2, <1>3 DEF LookHolds, CallHolds, AddHolds, DeadHolds
<1>6. /\ NodesHold' /\ RingsHold' /\ LivesHold' /\ OneMask' /\ OneAtATime' /\ PairsHold'
      /\ CallersHold'
  BY <1>3, <1>5, QuietStep, CallersPut
<1>7. PICK w \in MaskWindows : w = call[c].w /\ wlife[w] = "live"
  BY <1>1, CallersAre DEF Sound, InCall
<1>8. PICK n \in Chain(w) : ProcOf(n) = c /\ em[PairOf(n)].mask = call[c].mask
  BY <1>1, <1>7, CallersAre DEF Sound, CallHolds
<1>9. /\ \A v \in MaskWindows : v # w => wmask'[v] = wmask[v] /\ selected'[v] = selected[v]
      /\ wmask'[w] = wmask[w] \cup call[c].mask
      /\ selected'[w][c] = call[c].mask
      /\ \A d \in MaskClients \ {c} : selected'[w][d] = selected[w][d]
  BY <1>1, <1>7 DEF MasksTypeOK
<1>10. SelectedHold'
  <2>1. ASSUME NEW v \in MaskWindows, NEW d \in MaskClients, wlife[v] = "none"
        PROVE  selected'[v][d] = {}
    <3>1. v # w
      BY <1>7, <2>1
    <3> QED BY <1>9, <2>1, <3>1 DEF Sound, SelectedHold
  <2>2. ASSUME NEW v \in MaskWindows, NEW d \in open, wlife[v] = "live"
        PROVE  /\ selected'[v][d] \subseteq wmask'[v]
               /\ call'[d].w # v \/ call'[d].pc \in {"idle", "check", "find"} =>
                    /\ \A m \in Chain(v) : ProcOf(m) = d => em[PairOf(m)].mask = selected'[v][d]
                    /\ (\A m \in Chain(v) : ProcOf(m) # d) => selected'[v][d] = {}
    <3>1. d \in MaskClients
      BY DEF MasksTypeOK
    <3>2. /\ selected[v][d] \subseteq wmask[v]
          /\ call[d].w # v \/ call[d].pc \in {"idle", "check", "find"} =>
               /\ \A m \in Chain(v) : ProcOf(m) = d => em[PairOf(m)].mask = selected[v][d]
               /\ (\A m \in Chain(v) : ProcOf(m) # d) => selected[v][d] = {}
      BY <2>2 DEF Sound, SelectedHold
    <3>3. CASE d # c
      <4>1. selected'[v][d] = selected[v][d] /\ wmask[v] \subseteq wmask'[v] /\ call'[d] = call[d]
        BY <1>2, <1>9, <3>1, <3>3
      <4> QED BY <3>2, <4>1
    <3>4. CASE d = c /\ v # w
      BY <1>7, <1>9, <3>2, <3>4
    <3>5. CASE d = c /\ v = w
      <4>1. \A m \in Chain(w) : ProcOf(m) = c => m = n
        BY <1>8 DEF Sound, OneMask
      <4> QED BY <1>8, <1>9, <3>5, <4>1
    <3> QED BY <3>3, <3>4, <3>5
  <2> QED BY <1>4, <2>1, <2>2 DEF SelectedHold, ProcOf
<1>11. KeyPressHold'
  <2>1. ASSUME NEW v \in MaskWindows \ crossed PROVE Alone(v)'
    <3>1. Alone(v)
      BY <2>1 DEF Sound, KeyPressHold
    <3>2. \A d \in MaskClients : InCall(d)' => call'[d] = call[d] /\ InCall(d)
      BY <1>2, <1>3 DEF InCall
    <3> QED BY <1>4, <3>1, <3>2 DEF Alone, ProcOf
  <2> QED BY <1>4, <2>1 DEF KeyPressHold
<1> QED BY <1>6, <1>10, <1>11 DEF Sound
-----------------------------------------------------------------------------
(* Steps of a client that adds or changes a mask and leaves the chains as  *)
(* long as they are.                                                       *)
Beside(c) ==
  /\ \A x : Chain(x)' = Chain(x)
  /\ InChains' = InChains
  /\ anchored \subseteq anchored'
  /\ UNCHANGED <<freed, open, wlife, wmask, selected, crossed>>
  /\ \A d \in MaskClients \ {c} : call'[d] = call[d]
  /\ InCall(c) /\ call[c].pc # "check" /\ call'[c].pc \notin {"idle", "check", "find", "dead"}
  /\ call'[c].w = call[c].w /\ call'[c].mask = call[c].mask
  /\ Enters(c) => Enters(c)' /\ call'[c].new = call[c].new
  /\ Made \subseteq Made' /\ \A m \in Made' \ Made : Unfinished(m)'
  /\ \A m \in Made : /\ em'[m].proc = em[m].proc /\ em'[m].win = em[m].win
                     /\ em'[m] = em[m] \/ (em[m].proc = c /\ em[m].win = call[c].w)
  /\ \A x \in anchored : \A n \in Chain(x) \cup {Anchor(x)} : links'.next[n] = links.next[n]
  /\ \A d \in MaskClients \ {c} : Enters(d) =>
       /\ links'.next[call[d].new] = links.next[call[d].new]
       /\ links'.prev[call[d].new] = links.prev[call[d].new]
       /\ call[d].pc = "publish" /\ call[d].nxt # NULL =>
            links'.prev[call[d].nxt] = links.prev[call[d].nxt]
  /\ Between(c)' => \A d \in MaskClients \ {c} : ~(Between(d) /\ ChainOf(d) = ChainOf(c)')

(* What a client has met of a chain that is not changed, it has still met. *)
LEMMA BesideOther ==
  ASSUME MasksTypeOK, Sound, NEW c \in MaskClients, Beside(c), NEW d \in MaskClients \ {c}
  PROVE  LookHolds(d)' /\ CallHolds(d)' /\ AddHolds(d)' /\ BetweenHolds(d)' /\ DeadHolds(d)'
<1>1. /\ LookHolds(d) /\ CallHolds(d) /\ AddHolds(d) /\ BetweenHolds(d) /\ DeadHolds(d)
      /\ NodesHold /\ CallersHold
  BY DEF Sound, CallersHold
<1>2. call'[d] = call[d] /\ d # c
  BY DEF Beside
<1>3. /\ \A x : Chain(x)' = Chain(x)
      /\ InChains' = InChains /\ anchored \subseteq anchored' /\ Made \subseteq Made'
      /\ freed' = freed /\ open' = open /\ wlife' = wlife /\ crossed' = crossed
  BY DEF Beside
<1>4. /\ \A m \in Made : em'[m].proc = em[m].proc /\ em'[m].win = em[m].win
      /\ \A m \in Made : em[m].proc # c => em'[m] = em[m]
      /\ \A m \in Made : em[m].win # call[c].w => em'[m] = em[m]
  BY DEF Beside
<1>5. /\ \A x : \A n \in Chain(x) : PairOf(n) \in Made
      /\ \A x \in MaskWindows : \A n \in Chain(x) : em[PairOf(n)].win = x
  BY <1>1, ChainsHaveOwn
<1>6. \A x : \A n \in Chain(x) : ProcOf(n)' = ProcOf(n)
  BY <1>4, <1>5 DEF ProcOf
<1>7. LookHolds(d)'
  <2>1. SUFFICES ASSUME call[d].pc \in {"check", "find"} PROVE LookHolds(d)'
    BY <1>2 DEF LookHolds
  <2>2. PICK w \in MaskWindows : w = call[d].w
    BY <1>1, <2>1, CallersAre DEF InCall
  <2>3. PICK met \in SUBSET ChainNodes : Met(d, met)
    BY <1>1, <2>1 DEF LookHolds
  <2>4. met \subseteq Chain(w)
    BY <2>2, <2>3 DEF Met
  <2>5. Stands(d, met)'
    <3>1. \A cur : w \in anchored /\ UpTo(links, w, met, cur) => UpTo(links', w, met, cur)
      <4>1. w \in anchored => \A n \in Chain(w) \cup {Anchor(w)} : links'.next[n] = links.next[n]
        BY DEF Beside
      <4> QED BY <2>4, <4>1 DEF UpTo
    <3> QED BY <1>2, <1>3, <2>2, <2>3, <3>1 DEF Stands, Met
  <2>6. ASSUME call[d].pc = "check", w \notin crossed PROVE \A n \in met : em'[PairOf(n)] = em[PairOf(n)]
    <3>1. w # call[c].w
      <4>1. InCall(c) /\ InCall(d)
        BY <2>1 DEF Beside, InCall
      <4>2. Alone(w)
        BY <2>6 DEF Sound, KeyPressHold
      <4> QED BY <1>2, <2>2, <4>1, <4>2 DEF Alone
    <3> QED BY <1>4, <1>5, <2>4, <3>1
  <2>7. Met(d, met)'
    <3>1. /\ call[d].pc = "find" => \A n \in met : ProcOf(n) # d
          /\ call[d].pc = "check" /\ w \notin crossed =>
               \A n \in met : KeyPressMask \in em[PairOf(n)].mask => ProcOf(n) = d
      BY <2>2, <2>3 DEF Met
    <3>2. \A n \in met : ProcOf(n)' = ProcOf(n)
      BY <1>6, <2>4
    <3>3. call[d].pc = "check" /\ w \notin crossed =>
            \A n \in met : KeyPressMask \in em'[PairOf(n)].mask => ProcOf(n)' = d
      BY <2>6, <3>1, <3>2
    <3> QED BY <1>2, <1>3, <2>2, <2>4, <2>5, <3>1, <3>2, <3>3 DEF Met
  <2> QED BY <1>1, <1>2, <2>7 DEF LookHolds
<1>8. CallHolds(d)'
  <2>1. ASSUME NEW n \in Chain(call[d].w), ProcOf(n) = d, em[PairOf(n)].mask = call[d].mask
        PROVE  ProcOf(n)' = d /\ em'[PairOf(n)].mask = call[d].mask
    <3>1. em'[PairOf(n)] = em[PairOf(n)]
      BY <1>2, <1>4, <1>5, <2>1 DEF ProcOf
    <3> QED BY <2>1, <3>1 DEF ProcOf
  <2> QED BY <1>1, <1>2, <1>3, <2>1 DEF CallHolds, InCall
<1>9. AddHolds(d)'
  <2>1. SUFFICES ASSUME Enters(d) PROVE AddHolds(d)'
    BY <1>2 DEF AddHolds, Enters
  <2>2. /\ PairOf(call[d].new) \in Made
        /\ em[PairOf(call[d].new)] = [win |-> call[d].w, proc |-> d, mask |-> call[d].mask]
    BY <1>1, <2>1 DEF AddHolds
  <2>3. em[PairOf(call[d].new)].proc = d
    BY <2>2
  <2>4. em'[PairOf(call[d].new)] = em[PairOf(call[d].new)]
    BY <1>2, <1>4, <2>2, <2>3
  <2>5. \A n \in Chain(call[d].w) : ProcOf(n)' = ProcOf(n)
    BY <1>6
  <2> QED BY <1>1, <1>2, <1>3, <2>1, <2>2, <2>4, <2>5 DEF AddHolds
<1>10. BetweenHolds(d)'
  <2>1. SUFFICES ASSUME Between(d) PROVE BetweenHolds(d)'
    BY <1>2 DEF BetweenHolds, Between
  <2>2. Enters(d)
    BY <2>1 DEF Between, Enters
  <2>3. /\ links'.next[call[d].new] = links.next[call[d].new]
        /\ links'.prev[call[d].new] = links.prev[call[d].new]
        /\ call[d].pc = "publish" /\ call[d].nxt # NULL =>
             links'.prev[call[d].nxt] = links.prev[call[d].nxt]
    BY <2>2 DEF Beside
  <2>4. PICK x : x = ChainOf(d)
    OBVIOUS
  <2>5. x \in anchored /\ ChainOf(d)' = x
    BY <1>1, <1>2, <2>1, <2>4 DEF BetweenHolds, ChainOf
  <2>6. links'.next[Anchor(x)] = links.next[Anchor(x)]
    BY <2>5 DEF Beside
  <2> QED BY <1>1, <1>2, <1>3, <2>1, <2>3, <2>4, <2>5, <2>6 DEF BetweenHolds
<1>11. DeadHolds(d)'
  <2>1. SUFFICES ASSUME call[d].pc = "dead", call[d].new # NULL, call[d].new[1] = "em1"
                 PROVE  DeadHolds(d)'
    BY <1>2 DEF DeadHolds
  <2>2. /\ call[d].new \in ChainNodes /\ PairOf(call[d].new) \in Made
        /\ em[PairOf(call[d].new)].proc = d
        /\ call[d].new \notin InChains /\ Em2(PairOf(call[d].new)) \notin InChains
    BY <1>1, <2>1 DEF DeadHolds
  <2>3. em'[PairOf(call[d].new)].proc = d
    BY <1>4, <2>2
  <2> QED BY <1>2, <1>3, <2>2, <2>3 DEF DeadHolds
<1> QED BY <1>7, <1>8, <1>9, <1>10, <1>11

(* A step of one client beside the calls of the others: what they have     *)
(* read is still so, and what is in their way is left alone.               *)
LEMMA BesideStep ==
  ASSUME MasksTypeOK, Sound, NEW c \in MaskClients, Beside(c)
  PROVE  /\ NodesHold' /\ OneMask' /\ OneAtATime' /\ PairsHold' /\ SelectedHold'
         /\ (\A m \in Made : em'[m] = em[m]) => KeyPressHold'
<1>1. NodesHold
  BY DEF Sound
<1>2. /\ \A d \in MaskClients \ {c} : call'[d] = call[d]
      /\ \A x : Chain(x)' = Chain(x)
      /\ anchored \subseteq anchored' /\ Made \subseteq Made'
      /\ freed' = freed /\ open' = open /\ wlife' = wlife /\ wmask' = wmask
      /\ selected' = selected /\ crossed' = crossed
  BY DEF Beside
<1>3. /\ \A m \in Made : em'[m].proc = em[m].proc /\ em'[m].win = em[m].win
      /\ \A m \in Made : em[m].proc # c => em'[m] = em[m]
      /\ \A m \in Made : em[m].win # call[c].w => em'[m] = em[m]
  BY DEF Beside
<1>4. /\ \A x : \A n \in Chain(x) : x \in anchored /\ PairOf(n) \in Made
      /\ \A x \in MaskWindows : \A n \in Chain(x) : em[PairOf(n)].win = x
  BY <1>1, ChainsHaveOwn
<1>5. \A x : \A n \in Chain(x) : ProcOf(n)' = ProcOf(n) /\ Owner(n)' = Owner(n)
  BY <1>3, <1>4 DEF ProcOf, Owner
<1>6. NodesHold'
  <2>1. ASSUME NEW x \in anchored', NEW n \in Chain(x)
        PROVE  PairOf(n) \in (Made \ freed)' /\ ProcOf(n)' \in open /\ Owner(n)' = x
    BY <1>1, <1>2, <1>4, <1>5 DEF NodesHold
  <2>2. freed' \subseteq Made'
    BY <1>1, <1>2 DEF NodesHold
  <2> QED BY <1>2, <2>1, <2>2 DEF NodesHold
<1>7. OneMask'
  <2>1. ASSUME NEW w \in MaskWindows, NEW n1 \in Chain(w), NEW n2 \in Chain(w),
               ProcOf(n1)' = ProcOf(n2)'
        PROVE  n1 = n2
    BY <1>5, <2>1 DEF Sound, OneMask
  <2> QED BY <1>2, <2>1 DEF OneMask
<1>8. OneAtATime'
  <2>1. \A d \in MaskClients \ {c} : (Between(d)' <=> Between(d)) /\ ChainOf(d)' = ChainOf(d)
    BY <1>2 DEF Between, ChainOf
  <2>2. Between(c)' => \A d \in MaskClients \ {c} : ~(Between(d) /\ ChainOf(d) = ChainOf(c)')
    BY DEF Beside
  <2>3. ASSUME NEW d \in MaskClients, NEW e \in MaskClients,
               Between(d)', Between(e)', ChainOf(d)' = ChainOf(e)'
        PROVE  d = e
    <3>1. CASE d # c /\ e # c
      BY <2>1, <2>3, <3>1 DEF Sound, OneAtATime
    <3>2. CASE d = c /\ e # c
      BY <2>1, <2>2, <2>3, <3>2
    <3>3. CASE d # c /\ e = c
      BY <2>1, <2>2, <2>3, <3>3
    <3> QED BY <3>1, <3>2, <3>3
  <2> QED BY <2>3 DEF OneAtATime
<1>9. PairsHold'
  <2>1. ASSUME NEW m \in Made \ freed, em[m].proc \in open PROVE Unfinished(m)' \/ Complete(m)'
    <3>1. CASE Complete(m)
      <4>1. em'[m].win = em[m].win /\ em'[m].proc = em[m].proc
        BY <1>3
      <4> QED BY <1>2, <3>1, <4>1 DEF Complete
    <3>2. CASE ~Complete(m)
      <4>1. PICK d \in MaskClients : \/ Enters(d) /\ call[d].new \in {Em1(m), Em2(m)}
                                     \/ call[d].pc = "dead" /\ call[d].new = Em1(m)
        BY <2>1, <3>2 DEF Sound, PairsHold, Unfinished
      <4>2. CASE d # c
        BY <1>2, <4>1, <4>2 DEF Unfinished, Enters
      <4>3. CASE d = c
        <5>1. Enters(c) /\ call[c].new \in {Em1(m), Em2(m)}
          BY <4>1, <4>3 DEF Beside, InCall
        <5>2. Enters(c)' /\ call'[c].new = call[c].new
          BY <5>1 DEF Beside
        <5> QED BY <5>1, <5>2 DEF Unfinished
      <4> QED BY <4>2, <4>3
    <3> QED BY <3>1, <3>2
  <2>2. ASSUME NEW m \in Made' \ freed', em'[m].proc \in open' PROVE Unfinished(m)' \/ Complete(m)'
    <3>1. CASE m \in Made
      <4>1. em[m].proc \in open /\ m \notin freed
        BY <1>2, <1>3, <2>2, <3>1
      <4> QED BY <2>1, <3>1, <4>1
    <3>2. CASE m \notin Made
      BY <2>2, <3>2 DEF Beside
    <3> QED BY <3>1, <3>2
  <2> QED BY <2>2 DEF PairsHold
<1>10. SelectedHold'
  <2>1. ASSUME NEW w \in MaskWindows, NEW d \in open, wlife[w] = "live",
               call'[d].w # w \/ call'[d].pc \in {"idle", "check", "find"}
        PROVE  /\ call[d].w # w \/ call[d].pc \in {"idle", "check", "find"}
               /\ \A n \in Chain(w) : ProcOf(n) = d => em'[PairOf(n)] = em[PairOf(n)]
    <3>1. d \in MaskClients
      BY DEF MasksTypeOK
    <3>2. CASE d = c
      <4>1. call[c].w # w
        BY <2>1, <3>2 DEF Beside
      <4> QED BY <1>3, <1>4, <3>2, <4>1
    <3>3. CASE d # c
      <4>1. call'[d] = call[d]
        BY <1>2, <3>1, <3>3
      <4>2. \A n \in Chain(w) : ProcOf(n) = d => em'[PairOf(n)] = em[PairOf(n)]
        BY <1>3, <1>4, <3>3 DEF ProcOf
      <4> QED BY <2>1, <4>1, <4>2
    <3> QED BY <3>2, <3>3
  <2>2. ASSUME NEW w \in MaskWindows, NEW d \in open, wlife[w] = "live"
        PROVE  /\ selected[w][d] \subseteq wmask[w]
               /\ call'[d].w # w \/ call'[d].pc \in {"idle", "check", "find"} =>
                    /\ \A n \in Chain(w) : ProcOf(n)' = d => em'[PairOf(n)].mask = selected[w][d]
                    /\ (\A n \in Chain(w) : ProcOf(n)' # d) => selected[w][d] = {}
    <3>1. /\ selected[w][d] \subseteq wmask[w]
          /\ call[d].w # w \/ call[d].pc \in {"idle", "check", "find"} =>
               /\ \A n \in Chain(w) : ProcOf(n) = d => em[PairOf(n)].mask = selected[w][d]
               /\ (\A n \in Chain(w) : ProcOf(n) # d) => selected[w][d] = {}
      BY <2>2 DEF Sound, SelectedHold
    <3>2. \A n \in Chain(w) : ProcOf(n)' = ProcOf(n)
      BY <1>5
    <3> QED BY <2>1, <2>2, <3>1, <3>2
  <2>3. \A w \in MaskWindows, d \in MaskClients : wlife[w] = "none" => selected[w][d] = {}
    BY DEF Sound, SelectedHold
  <2> QED BY <1>2, <2>2, <2>3 DEF SelectedHold
<1>11. ASSUME \A m \in Made : em'[m] = em[m] PROVE KeyPressHold'
  <2>1. ASSUME NEW w \in MaskWindows \ crossed PROVE Alone(w)'
    <3>1. Alone(w)
      BY <2>1 DEF Sound, KeyPressHold
    <3>2. Receivers(w, KeyPressMask)' = Receivers(w, KeyPressMask)
      BY <1>2, <1>4, <1>11 DEF Receivers
    <3>3. \A d \in MaskClients : /\ InCall(d)' /\ call'[d].w = w => InCall(d) /\ call[d].w = w
                                 /\ call'[d].mask = call[d].mask
                                 /\ call'[d].pc # "check" => call[d].pc # "check"
      BY <1>2 DEF InCall, Beside
    <3>4. \A n \in Receivers(w, KeyPressMask) : ProcOf(n)' = ProcOf(n)
      BY <1>5 DEF Receivers
    <3>5. ASSUME NEW d \in MaskClients, InCall(d)', call'[d].w = w,
                 KeyPressMask \in call'[d].mask, call'[d].pc # "check",
                 NEW n \in Receivers(w, KeyPressMask)
          PROVE  ProcOf(n)' = d
      BY <3>1, <3>3, <3>4, <3>5 DEF Alone
    <3>6. \A d, e \in MaskClients :
            InCall(d)' /\ InCall(e)' /\ call'[d].w = w /\ call'[e].w = w => d = e
      BY <3>1, <3>3 DEF Alone
    <3> QED BY <3>1, <3>2, <3>5, <3>6 DEF Alone
  <2> QED BY <1>2, <2>1 DEF KeyPressHold
<1> QED BY <1>6, <1>7, <1>8, <1>9, <1>10, <1>11

(* The client finds its own node: only its mask is changed.                *)
LEMMA FindOwnKeeps ==
  ASSUME MasksTypeOK, Sound, NEW c \in MaskClients, FindOwn(c)
  PROVE  Sound'
<1>0. PICK n : n = NextOf(c)
  OBVIOUS
<1>1. PICK p : p = PairOf(n)
  OBVIOUS
<1>2. /\ call[c].pc = "find" /\ n # NULL /\ em[p].proc = c
      /\ em' = [em EXCEPT ![p].mask = call[c].mask]
      /\ call' = [call EXCEPT ![c].pc = "or"]
      /\ UNCHANGED <<windows, open, anchored, links, freed, selected, harm, crossed>>
  BY <1>0, <1>1 DEF FindOwn, Goto
<1>3. PICK w \in MaskWindows : w = call[c].w /\ n \in Chain(w)
  BY <1>0, <1>2, Looking
<1>4. NodesHold /\ OneMask /\ CallersHold
  BY DEF Sound
<1>5. /\ p \in Made /\ em[p].win = w /\ n \in InChains /\ p \in Pairs
      /\ em[p] \in PairType /\ ProcOf(n) = c
  BY <1>1, <1>2, <1>3, <1>4, ChainsHaveOwn, MadeAreRecords DEF ProcOf
<1>6. /\ c \in open /\ wlife[w] = "live" /\ InCall(c) /\ call[c].new = NULL
      /\ ~Enters(c) /\ call[c].mask \in SUBSET EventBits
  BY <1>2, <1>3, <1>4, CallersAre, CallTyped DEF InCall, CallHolds, Enters
<1>7. /\ \A d \in MaskClients \ {c} : call'[d] = call[d]
      /\ call'[c] = [call[c] EXCEPT !.pc = "or"]
  BY <1>2 DEF MasksTypeOK
<1>8. call[c] = [pc |-> call[c].pc, w |-> call[c].w, mask |-> call[c].mask,
                 cur |-> call[c].cur, new |-> call[c].new, nxt |-> call[c].nxt]
  BY CallTyped
<1>9. /\ call'[c].pc = "or" /\ call'[c].w = w /\ call'[c].mask = call[c].mask
      /\ call'[c].new = NULL
  BY <1>3, <1>6, <1>7, <1>8
<1>10. /\ \A m \in Pairs : m # p => em'[m] = em[m]
       /\ em'[p] = [em[p] EXCEPT !.mask = call[c].mask]
  BY <1>2, <1>5 DEF MasksTypeOK
<1>11. /\ em'[p].mask = call[c].mask /\ em'[p].proc = c /\ em'[p].win = w
       /\ em'[p] \in PairType
  BY <1>2, <1>5, <1>6, <1>10 DEF PairType
<1>12. /\ \A x : Chain(x)' = Chain(x)
       /\ InChains' = InChains
  BY <1>2 DEF Chain, InChains
<1>13. Made' = Made
  <2>1. p \notin Fresh /\ em'[p] # NULL
    BY <1>5, <1>11, NullAssumption DEF Made
  <2>2. Fresh' = Fresh
    BY <1>10, <2>1 DEF Fresh
  <2> QED BY <2>2 DEF Made
<1>14. ~Enters(c)' /\ ~Between(c)'
  BY <1>9 DEF Enters, Between
<1>15. \A m \in Made : /\ em'[m].proc = em[m].proc /\ em'[m].win = em[m].win
                       /\ em'[m] = em[m] \/ (em[m].proc = c /\ em[m].win = call[c].w)
  BY <1>2, <1>3, <1>5, <1>10, <1>11 DEF Made
<1>16. /\ call[c].pc # "check" /\ call'[c].pc \notin {"idle", "check", "find", "dead"}
       /\ call'[c].w = call[c].w /\ call'[c].mask = call[c].mask
  BY <1>2, <1>3, <1>9
<1>17. /\ UNCHANGED <<freed, open, wlife, wmask, selected, crossed>>
       /\ links' = links /\ anchored' = anchored
  BY <1>2 DEF windows
<1>18. Beside(c)
  BY <1>6, <1>7, <1>12, <1>13, <1>14, <1>15, <1>16, <1>17 DEF Beside
<1>19. RingsHold' /\ LivesHold'
  <2>1. Redirected' = Redirected
    BY <1>2, <1>7, <1>9 DEF Redirected
  <2> QED BY <1>17, <2>1 DEF Sound, RingsHold, LivesHold
<1>20. LookHolds(c)' /\ CallHolds(c)' /\ AddHolds(c)' /\ BetweenHolds(c)' /\ DeadHolds(c)'
  <2>1. \E m \in Chain(w) : ProcOf(m)' = c /\ em'[PairOf(m)].mask = call[c].mask
    BY <1>1, <1>3, <1>11 DEF ProcOf
  <2>2. CallHolds(c)'
    BY <1>6, <1>9, <1>12, <1>17, <2>1 DEF CallHolds, InCall
  <2> QED BY <1>9, <1>14, <2>2 DEF LookHolds, AddHolds, BetweenHolds, DeadHolds
<1>21. CallersHold'
  BY <1>18, <1>20, BesideOther, CallersPut
<1>22. KeyPressHold'
  <2>1. ASSUME NEW v \in MaskWindows \ crossed PROVE Alone(v)'
    <3>1. Alone(v)
      BY <2>1 DEF Sound, KeyPressHold
    <3>2. \A d \in MaskClients : /\ InCall(d)' /\ call'[d].w = v => InCall(d) /\ call[d].w = v
                                 /\ call'[d].mask = call[d].mask
                                 /\ call'[d].pc # "check" => call[d].pc # "check"
      BY <1>6, <1>7, <1>16 DEF InCall
    <3>3. \A d, e \in MaskClients :
            InCall(d)' /\ InCall(e)' /\ call'[d].w = v /\ call'[e].w = v => d = e
      BY <3>1, <3>2 DEF Alone
    <3>4. \A m \in Chain(v) : ProcOf(m)' = ProcOf(m) /\ PairOf(m) \in Pairs
      BY <1>4, <1>15, ChainsHaveOwn DEF ProcOf, Made
    <3>5. \A m \in Chain(v) : m # n => em'[PairOf(m)] = em[PairOf(m)]
      <4>1. ASSUME NEW m \in Chain(v), PairOf(m) = p PROVE m = n
        <5>1. em[p].win = v /\ m = Em1(p)
          BY <1>4, <4>1, ChainsHaveOwn
        <5>2. n = Em1(p)
          BY <1>1, <1>3, <1>4, ChainsHaveOwn
        <5> QED BY <5>1, <5>2
      <4> QED BY <1>10, <3>4, <4>1
    <3>6. CASE v # w
      <4>1. n \notin Chain(v)
        BY <1>3, <1>4, <3>6, ChainsApart
      <4>2. Receivers(v, KeyPressMask)' = Receivers(v, KeyPressMask)
        BY <1>12, <3>5, <4>1 DEF Receivers
      <4>3. \A m \in Receivers(v, KeyPressMask) : ProcOf(m)' = ProcOf(m)
        BY <3>4 DEF Receivers
      <4>4. ASSUME NEW d \in MaskClients, InCall(d)', call'[d].w = v,
                   KeyPressMask \in call'[d].mask, call'[d].pc # "check",
                   NEW m \in Receivers(v, KeyPressMask)
            PROVE  ProcOf(m)' = d
        BY <3>1, <3>2, <4>3, <4>4 DEF Alone
      <4> QED BY <3>1, <3>3, <4>2, <4>4 DEF Alone
    <3>7. CASE v = w /\ KeyPressMask \notin call[c].mask
      <4>1. Receivers(w, KeyPressMask)' \subseteq Receivers(w, KeyPressMask)
        BY <1>1, <1>11, <1>12, <3>5, <3>7 DEF Receivers
      <4>2. ASSUME NEW d \in MaskClients, InCall(d)', call'[d].w = v,
                   KeyPressMask \in call'[d].mask, call'[d].pc # "check"
            PROVE  FALSE
        <5>1. InCall(d) /\ call[d].w = w /\ call[d].mask = call'[d].mask
          BY <3>2, <3>7, <4>2
        <5>2. d = c
          BY <1>3, <1>6, <3>1, <3>7, <5>1 DEF Alone
        <5> QED BY <3>7, <4>2, <5>1, <5>2
      <4> QED BY <3>1, <3>3, <3>7, <4>1, <4>2 DEF Alone
    <3>8. CASE v = w /\ KeyPressMask \in call[c].mask
      <4>1. \A m \in Receivers(w, KeyPressMask) : ProcOf(m) = c
        BY <1>2, <1>3, <1>6, <3>1, <3>8 DEF Alone
      <4>2. ASSUME NEW m \in Receivers(w, KeyPressMask)' PROVE m = n
        <5>1. m \in Chain(w) /\ KeyPressMask \in em'[PairOf(m)].mask
          BY <1>12, <4>2 DEF Receivers
        <5>2. CASE m # n
          <6>1. m \in Receivers(w, KeyPressMask)
            BY <3>5, <3>8, <5>1, <5>2 DEF Receivers
          <6> QED BY <1>3, <1>4, <1>5, <4>1, <5>1, <6>1 DEF OneMask
        <5> QED BY <5>2
      <4>3. ASSUME NEW d \in MaskClients, InCall(d)', call'[d].w = v PROVE d = c
        BY <1>3, <1>6, <3>1, <3>2, <3>8, <4>3 DEF Alone
      <4>4. ProcOf(n)' = c
        BY <1>1, <1>11 DEF ProcOf
      <4> QED BY <3>3, <3>8, <4>2, <4>3, <4>4 DEF Alone
    <3> QED BY <3>6, <3>7, <3>8
  <2> QED BY <1>17, <2>1 DEF KeyPressHold
<1> QED BY <1>18, <1>19, <1>21, <1>22, BesideStep DEF Sound
-----------------------------------------------------------------------------
(* The pair that is made next is one that is not made yet.                 *)
LEMMA NextPairIsFresh ==
  ASSUME Fresh # {}
  PROVE  NextPair \in Fresh /\ NextPair \in Pairs /\ NextPair \notin Made
<1>1. Fresh \subseteq Nat /\ Fresh \subseteq Pairs
  BY MaskAssumption DEF Fresh, Pairs
<1>2. \E n \in Fresh : \A m \in Fresh : n <= m
  BY <1>1, LeastNumber
<1>3. NextPair \in Fresh
  BY <1>2 DEF NextPair, Min
<1> QED BY <1>1, <1>3 DEF Made

(* The client finds none: nobody knows the nodes of the pair that it makes.*)
LEMMA FindNoneKeeps ==
  ASSUME MasksTypeOK, Sound, NEW c \in MaskClients, FindNone(c)
  PROVE  Sound'
<1>1. PICK p : p = NextPair
  OBVIOUS
<1>2. /\ call[c].pc = "find" /\ NextOf(c) = NULL /\ Fresh # {}
      /\ em' = [em EXCEPT ![p] = [win |-> call[c].w, proc |-> c, mask |-> call[c].mask]]
      /\ call' = [call EXCEPT ![c].pc = "link", ![c].new = Em1(p)]
      /\ UNCHANGED <<windows, open, anchored, links, freed, selected, harm, crossed>>
  BY <1>1 DEF FindNone
<1>3. p \in Pairs /\ p \notin Made /\ p \in Fresh
  BY <1>1, <1>2, NextPairIsFresh
<1>4. NodesHold /\ CallersHold
  BY DEF Sound
<1>5. PICK w \in MaskWindows : w = call[c].w /\ \A n \in Chain(w) : ProcOf(n) # c
  <2>1. PICK met \in SUBSET ChainNodes : Met(c, met) /\ met = Chain(call[c].w)
    BY <1>2, Looking
  <2>2. \A n \in Chain(call[c].w) : ProcOf(n) # c
    BY <1>2, <2>1 DEF Met
  <2>3. call[c].w \in MaskWindows
    BY <1>2, Looking
  <2> QED BY <2>2, <2>3
<1>6. /\ c \in open /\ wlife[w] = "live" /\ InCall(c) /\ ~Enters(c)
      /\ call[c].mask \in SUBSET EventBits
  BY <1>2, <1>4, <1>5, CallersAre, CallTyped DEF InCall, CallHolds, Enters
<1>7. /\ \A d \in MaskClients \ {c} : call'[d] = call[d]
      /\ call'[c] = [call[c] EXCEPT !.pc = "link", !.new = Em1(p)]
  BY <1>2 DEF MasksTypeOK
<1>8. call[c] = [pc |-> call[c].pc, w |-> call[c].w, mask |-> call[c].mask,
                 cur |-> call[c].cur, new |-> call[c].new, nxt |-> call[c].nxt]
  BY CallTyped
<1>9. /\ call'[c].pc = "link" /\ call'[c].w = w /\ call'[c].mask = call[c].mask
      /\ call'[c].new = Em1(p)
  BY <1>5, <1>7, <1>8
<1>10. /\ \A m \in Pairs : m # p => em'[m] = em[m]
       /\ em'[p] = [win |-> w, proc |-> c, mask |-> call[c].mask]
  BY <1>2, <1>3, <1>5 DEF MasksTypeOK
<1>11. /\ \A x : Chain(x)' = Chain(x)
       /\ InChains' = InChains
  BY <1>2 DEF Chain, InChains
<1>12. Made' = Made \cup {p}
  <2>1. em'[p] \in PairType
    BY <1>5, <1>6, <1>10 DEF PairType
  <2>2. em'[p] # NULL
    BY <2>1, NullAssumption
  <2> QED BY <1>3, <1>10, <2>2 DEF Made, Fresh
<1>13. /\ Em1(p) \in ChainNodes /\ Em2(p) \in ChainNodes /\ Em1(p) # NULL
       /\ PairOf(Em1(p)) = p /\ Em1(p)[1] = "em1" /\ PairOf(Em2(p)) = p
  BY <1>3, NodeKinds
<1>14. Em1(p) \notin InChains /\ Em2(p) \notin InChains
  <2>1. \A n \in InChains : PairOf(n) \in Made
    BY <1>4, ChainsHaveOwn DEF InChains
  <2> QED BY <1>3, <1>13, <2>1
<1>15. p \notin freed
  BY <1>3, <1>4 DEF NodesHold
<1>16. Enters(c)' /\ ~Between(c)'
  BY <1>9 DEF Enters, Between
<1>17. Unfinished(p)'
  BY <1>9, <1>16 DEF Unfinished
<1>18. \A m \in Made : em'[m] = em[m]
  BY <1>3, <1>10 DEF Made
<1>19. /\ call[c].pc # "check" /\ call'[c].pc \notin {"idle", "check", "find", "dead"}
       /\ call'[c].w = call[c].w /\ call'[c].mask = call[c].mask
  BY <1>2, <1>5, <1>9
<1>20. /\ UNCHANGED <<freed, open, wlife, wmask, selected, crossed>>
       /\ links' = links /\ anchored' = anchored
  BY <1>2 DEF windows
<1>21. Beside(c)
  BY <1>6, <1>7, <1>11, <1>12, <1>16, <1>17, <1>18, <1>19, <1>20 DEF Beside
<1>22. RingsHold' /\ LivesHold'
  <2>1. Redirected' = Redirected
    <3>1. call[c].pc # "publish" /\ call'[c].pc # "publish"
      BY <1>2, <1>9
    <3>2. {d \in MaskClients : call'[d].pc = "publish"} = {d \in MaskClients : call[d].pc = "publish"}
      BY <1>7, <3>1
    <3>3. \A d \in {e \in MaskClients : call[e].pc = "publish"} : call'[d].nxt = call[d].nxt
      BY <1>7, <3>1
    <3> QED BY <3>2, <3>3 DEF Redirected
  <2> QED BY <1>20, <2>1 DEF Sound, RingsHold, LivesHold
<1>23. AddHolds(c)'
  <2>1. \A n \in Chain(w) : ProcOf(n)' # c
    <3>1. ASSUME NEW n \in Chain(w) PROVE ProcOf(n)' = ProcOf(n)
      BY <1>4, <1>18, ChainsHaveOwn DEF ProcOf
    <3> QED BY <1>5, <3>1
  <2> QED BY <1>9, <1>10, <1>11, <1>12, <1>13, <1>14, <1>15, <1>20, <2>1 DEF AddHolds
<1>24. LookHolds(c)' /\ CallHolds(c)' /\ BetweenHolds(c)' /\ DeadHolds(c)'
  <2>1. CallHolds(c)'
    BY <1>6, <1>9, <1>20 DEF CallHolds, InCall
  <2> QED BY <1>9, <1>16, <2>1 DEF LookHolds, BetweenHolds, DeadHolds
<1>25. CallersHold'
  BY <1>21, <1>23, <1>24, BesideOther, CallersPut
<1> QED BY <1>18, <1>21, <1>22, <1>25, BesideStep DEF Sound

(* The anchor is stored where there is none: the chain stays empty.        *)
LEMMA CreateAnchorKeeps ==
  ASSUME MasksTypeOK, Sound, NEW c \in MaskClients, CreateAnchor(c), ~harm'
  PROVE  Sound'
<1>1. PICK x : x = ChainOf(c)
  OBVIOUS
<1>2. /\ call[c].pc = "anchor" /\ x \notin anchored
      /\ anchored' = anchored \cup {x}
      /\ links' = [links EXCEPT !.next[Anchor(x)] = NULL]
      /\ call' = [call EXCEPT ![c].pc = "link"]
      /\ UNCHANGED <<windows, open, em, freed, selected, crossed>>
  BY <1>1 DEF CreateAnchor, Goto
<1>3. NodesHold /\ CallersHold
  BY DEF Sound
<1>4. /\ Enters(c) /\ InCall(c) /\ x \in Owners
      /\ x \in MaskWindows => wlife[x] = "live"
  <2>1. Enters(c)
    BY <1>2 DEF Enters
  <2> QED BY <1>1, <1>3, <2>1, CallersAre, OwnersDiffer
<1>5. /\ \A d \in MaskClients \ {c} : call'[d] = call[d]
      /\ call'[c] = [call[c] EXCEPT !.pc = "link"]
  BY <1>2 DEF MasksTypeOK
<1>6. call[c] = [pc |-> call[c].pc, w |-> call[c].w, mask |-> call[c].mask,
                 cur |-> call[c].cur, new |-> call[c].new, nxt |-> call[c].nxt]
  BY CallTyped
<1>7. /\ call'[c].pc = "link" /\ call'[c].w = call[c].w /\ call'[c].mask = call[c].mask
      /\ call'[c].new = call[c].new
  BY <1>5, <1>6
<1>8. /\ Anchor(x) \in MaskNodes /\ Anchor(x) \notin ChainNodes
      /\ \A y : Anchor(y) = Anchor(x) => y = x
  BY <1>4, NodeKinds
<1>9. /\ links'.next[Anchor(x)] = NULL
      /\ \A n \in MaskNodes : n # Anchor(x) => links'.next[n] = links.next[n]
      /\ links'.prev = links.prev
      /\ links' \in LinksType
  BY <1>2, <1>8, LinksTyped DEF LinksType
<1>10. Chain(x) = {} /\ Chain(x)' = {}
  BY <1>2, <1>9, NothingReached, ChainsAreReached DEF Chain
<1>11. ASSUME NEW y \in anchored
       PROVE  /\ \A n \in Chain(y) \cup {Anchor(y)} : links'.next[n] = links.next[n]
              /\ Chain(y)' = Chain(y)
  <2>1. y # x /\ y \in Owners /\ Chain(y) = NodesFrom(links, y) /\ Chain(y) \subseteq ChainNodes
    BY <1>2, ChainsAreReached
  <2>2. Anchor(y) \in MaskNodes /\ Anchor(y) # Anchor(x) /\ ChainNodes \subseteq MaskNodes
    BY <1>8, <2>1, NodeKinds
  <2>3. \A n \in Chain(y) \cup {Anchor(y)} : links'.next[n] = links.next[n]
    BY <1>8, <1>9, <2>1, <2>2
  <2>4. NodesFrom(links', y) = NodesFrom(links, y)
    BY <1>9, <2>1, <2>3, LinksTyped, SameReached
  <2>5. Chain(y)' = NodesFrom(links', y)
    BY <1>2 DEF Chain
  <2> QED BY <2>1, <2>3, <2>4, <2>5
<1>12. \A y : Chain(y)' = Chain(y)
  <2>1. ASSUME NEW y, y \notin anchored, y # x PROVE Chain(y)' = Chain(y)
    BY <1>2, <2>1 DEF Chain
  <2> QED BY <1>10, <1>11, <2>1
<1>13. InChains' = InChains
  BY <1>2, <1>10, <1>12 DEF InChains
<1>14. /\ UNCHANGED <<freed, open, wlife, wmask, selected, crossed>>
       /\ em' = em /\ Made' = Made
  BY <1>2 DEF windows, Made, Fresh
<1>15. Enters(c)' /\ ~Between(c)' /\ ~Between(c)
  BY <1>2, <1>7 DEF Enters, Between
<1>16. \A d \in MaskClients \ {c} : Enters(d) =>
         /\ links'.next[call[d].new] = links.next[call[d].new]
         /\ links'.prev[call[d].new] = links.prev[call[d].new]
         /\ call[d].pc = "publish" /\ call[d].nxt # NULL =>
              links'.prev[call[d].nxt] = links.prev[call[d].nxt]
  <2>1. \A d \in MaskClients : Enters(d) => call[d].new \in ChainNodes
    BY <1>3 DEF CallersHold, AddHolds
  <2> QED BY <1>8, <1>9, <2>1, NodeKinds
<1>17. Beside(c)
  <2>1. call[c].pc # "check" /\ call'[c].pc \notin {"idle", "check", "find", "dead"}
    BY <1>2, <1>7
  <2> QED BY <1>2, <1>4, <1>5, <1>7, <1>11, <1>12, <1>13, <1>14, <1>15, <1>16, <2>1 DEF Beside
<1>18. RingsHold'
  <2>1. Redirected' = Redirected
    BY <1>2, <1>5, <1>7 DEF Redirected
  <2>2. ASSUME NEW y \in anchored PROVE Ring(links', y, Redirected)
    <3>1. Ring(links, y, Redirected) /\ NodesFrom(links, y) = Chain(y)
      BY ChainsAreReached DEF Sound, RingsHold
    <3>2. NodesFrom(links', y) = Chain(y)
      BY <1>2, <1>11 DEF Chain
    <3> QED BY <1>9, <1>11, <3>1, <3>2 DEF Ring
  <2>3. Ring(links', x, Redirected)
    <3>1. NodesFrom(links', x) = {}
      BY <1>9, NothingReached
    <3> QED BY <1>9, <3>1 DEF Ring
  <2> QED BY <1>2, <2>1, <2>2, <2>3 DEF RingsHold
<1>19. LivesHold'
  BY <1>2, <1>4, <1>14 DEF Sound, LivesHold
<1>20. LookHolds(c)' /\ CallHolds(c)' /\ AddHolds(c)' /\ BetweenHolds(c)' /\ DeadHolds(c)'
  <2>1. CallHolds(c) /\ AddHolds(c)
    BY <1>3 DEF CallersHold
  <2>2. CallHolds(c)'
    BY <1>2, <1>4, <1>7, <1>14, <2>1 DEF CallHolds, InCall
  <2>3. AddHolds(c)'
    BY <1>4, <1>7, <1>12, <1>13, <1>14, <2>1 DEF AddHolds, ProcOf
  <2> QED BY <1>7, <1>15, <2>2, <2>3 DEF LookHolds, BetweenHolds, DeadHolds
<1>21. CallersHold'
  BY <1>17, <1>20, BesideOther, CallersPut
<1> QED BY <1>14, <1>17, <1>18, <1>19, <1>21, BesideStep DEF Sound

(* new->prev and new->next are stored, of a node that is in no chain.      *)
LEMMA LinkKeeps ==
  ASSUME MasksTypeOK, Sound, NEW c \in MaskClients, Link(c), ~harm'
  PROVE  Sound'
<1>1. PICK x : x = ChainOf(c)
  OBVIOUS
<1>2. PICK n : n = call[c].new
  OBVIOUS
<1>3. PICK first : first = links.next[Anchor(x)]
  OBVIOUS
<1>4. /\ call[c].pc = "link" /\ x \in anchored
      /\ links' = [links EXCEPT !.prev[n] = Anchor(x), !.next[n] = first]
      /\ call' = [call EXCEPT ![c].pc = "back", ![c].nxt = first]
      /\ \A d \in MaskClients \ {c} : ~(Between(d) /\ ChainOf(d) = x)
      /\ UNCHANGED <<windows, open, anchored, em, freed, selected, crossed>>
  BY <1>1, <1>2, <1>3 DEF Link
<1>5. NodesHold /\ CallersHold
  BY DEF Sound
<1>6. /\ Enters(c) /\ InCall(c) /\ x \in Owners /\ n \in ChainNodes /\ n \notin InChains
      /\ n \in MaskNodes /\ n # NULL
  <2>1. Enters(c)
    BY <1>4 DEF Enters
  <2>2. n \in ChainNodes /\ n \notin InChains
    BY <1>2, <1>5, <2>1 DEF CallersHold, AddHolds
  <2>3. InCall(c) /\ x \in Owners
    BY <1>1, <1>5, <2>1, CallersAre
  <2> QED BY <2>1, <2>2, <2>3, NodeKinds
<1>7. /\ \A d \in MaskClients \ {c} : call'[d] = call[d]
      /\ call'[c] = [call[c] EXCEPT !.pc = "back", !.nxt = first]
  BY <1>4 DEF MasksTypeOK
<1>8. call[c] = [pc |-> call[c].pc, w |-> call[c].w, mask |-> call[c].mask,
                 cur |-> call[c].cur, new |-> call[c].new, nxt |-> call[c].nxt]
  BY CallTyped
<1>9. /\ call'[c].pc = "back" /\ call'[c].w = call[c].w /\ call'[c].mask = call[c].mask
      /\ call'[c].new = n /\ call'[c].nxt = first
  BY <1>2, <1>7, <1>8
<1>10. /\ Anchor(x) \in MaskNodes /\ Anchor(x) \notin ChainNodes /\ Anchor(x) # n
  BY <1>6, NodeKinds
<1>11. first \in ChainNodes \cup {NULL}
  BY <1>3, <1>10, LinksTyped DEF LinksType
<1>12. /\ links'.next[n] = first /\ links'.prev[n] = Anchor(x)
       /\ \A m \in MaskNodes : m # n => links'.next[m] = links.next[m] /\ links'.prev[m] = links.prev[m]
       /\ links' \in LinksType
  BY <1>4, <1>6, <1>10, <1>11, LinksTyped DEF LinksType
<1>13. ASSUME NEW y \in anchored
       PROVE  /\ \A m \in Chain(y) \cup {Anchor(y)} : m \in MaskNodes /\ m # n
              /\ \A m \in Chain(y) \cup {Anchor(y)} : links'.next[m] = links.next[m]
              /\ Chain(y)' = Chain(y)
  <2>1. y \in Owners /\ Chain(y) = NodesFrom(links, y) /\ Chain(y) \subseteq ChainNodes
    BY ChainsAreReached
  <2>2. n \notin Chain(y) /\ Anchor(y) # n /\ Anchor(y) \in MaskNodes /\ ChainNodes \subseteq MaskNodes
    BY <1>6, <2>1, NodeKinds DEF InChains
  <2>3. \A m \in Chain(y) \cup {Anchor(y)} : m \in MaskNodes /\ m # n
    BY <2>1, <2>2
  <2>4. \A m \in Chain(y) \cup {Anchor(y)} : links'.next[m] = links.next[m]
    BY <1>12, <2>3
  <2>5. NodesFrom(links', y) = NodesFrom(links, y)
    BY <1>12, <2>1, <2>4, LinksTyped, SameReached
  <2>6. Chain(y)' = NodesFrom(links', y)
    BY <1>4 DEF Chain
  <2> QED BY <2>1, <2>3, <2>4, <2>5, <2>6
<1>14. \A y : Chain(y)' = Chain(y)
  <2>1. ASSUME NEW y, y \notin anchored PROVE Chain(y)' = Chain(y)
    BY <1>4, <2>1 DEF Chain
  <2> QED BY <1>13, <2>1
<1>15. InChains' = InChains
  BY <1>4, <1>14 DEF InChains
<1>16. /\ UNCHANGED <<freed, open, wlife, wmask, selected, crossed>>
       /\ em' = em /\ Made' = Made /\ anchored' = anchored
  BY <1>4 DEF windows, Made, Fresh
<1>17. Enters(c)' /\ Between(c)' /\ ChainOf(c)' = x
  BY <1>1, <1>2, <1>9 DEF Enters, Between, ChainOf
<1>18. ASSUME NEW d \in MaskClients \ {c}, Enters(d)
       PROVE  /\ links'.next[call[d].new] = links.next[call[d].new]
              /\ links'.prev[call[d].new] = links.prev[call[d].new]
              /\ call[d].pc = "publish" /\ call[d].nxt # NULL =>
                   links'.prev[call[d].nxt] = links.prev[call[d].nxt]
  <2>1. call[d].new \in MaskNodes /\ call[d].new # n
    <3>1. call[d].new \in ChainNodes
      BY <1>5, <1>18 DEF CallersHold, AddHolds
    <3> QED BY <1>2, <1>5, <1>6, <1>18, <3>1, OwnPairs, NodeKinds
  <2>2. call[d].pc = "publish" /\ call[d].nxt # NULL => call[d].nxt \in MaskNodes /\ call[d].nxt # n
    <3>1. SUFFICES ASSUME call[d].pc = "publish", call[d].nxt # NULL
                   PROVE  call[d].nxt \in MaskNodes /\ call[d].nxt # n
      OBVIOUS
    <3>2. ChainOf(d) \in anchored /\ call[d].nxt \in Chain(ChainOf(d))
      BY <1>5, <3>1, RedirectedIsFirst DEF Between
    <3> QED BY <1>13, <3>2
  <2> QED BY <1>12, <2>1, <2>2
<1>19. Beside(c)
  <2>1. call[c].pc # "check" /\ call'[c].pc \notin {"idle", "check", "find", "dead"}
    BY <1>4, <1>9
  <2>2. call'[c].w = call[c].w /\ call'[c].mask = call[c].mask /\ call'[c].new = call[c].new
    BY <1>2, <1>9
  <2> QED BY <1>4, <1>6, <1>7, <1>13, <1>14, <1>15, <1>16, <1>17, <1>18, <2>1, <2>2 DEF Beside
<1>20. RingsHold'
  <2>1. Redirected' = Redirected
    <3>1. call[c].pc # "publish" /\ call'[c].pc # "publish"
      BY <1>4, <1>9
    <3>2. {d \in MaskClients : call'[d].pc = "publish"} = {d \in MaskClients : call[d].pc = "publish"}
      BY <1>7, <3>1
    <3>3. \A d \in {e \in MaskClients : call[e].pc = "publish"} : call'[d].nxt = call[d].nxt
      BY <1>7, <3>1
    <3> QED BY <3>2, <3>3 DEF Redirected
  <2>2. ASSUME NEW y \in anchored PROVE Ring(links', y, Redirected)
    <3>1. Ring(links, y, Redirected) /\ NodesFrom(links, y) = Chain(y)
      BY ChainsAreReached DEF Sound, RingsHold
    <3>2. NodesFrom(links', y) = Chain(y)
      BY <1>4, <1>13 DEF Chain
    <3>3. ASSUME NEW m \in Chain(y) \cup {Anchor(y)}, links'.next[m] # NULL
          PROVE  IF links'.next[m] \in Redirected THEN m = Anchor(y) ELSE links'.prev[links'.next[m]] = m
      <4>1. links'.next[m] = links.next[m] /\ links.next[m] \in Chain(y)
        BY <1>13, <3>3, NextInChain
      <4>2. links'.prev[links.next[m]] = links.prev[links.next[m]]
        BY <1>12, <1>13, <4>1
      <4> QED BY <3>1, <3>3, <4>1, <4>2 DEF Ring
    <3> QED BY <3>2, <3>3 DEF Ring
  <2> QED BY <1>4, <2>1, <2>2 DEF RingsHold
<1>21. LivesHold'
  BY <1>16 DEF Sound, LivesHold
<1>22. LookHolds(c)' /\ CallHolds(c)' /\ AddHolds(c)' /\ BetweenHolds(c)' /\ DeadHolds(c)'
  <2>1. CallHolds(c) /\ AddHolds(c)
    BY <1>5 DEF CallersHold
  <2>2. CallHolds(c)'
    BY <1>4, <1>6, <1>9, <1>16, <2>1 DEF CallHolds, InCall
  <2>3. AddHolds(c)'
    BY <1>2, <1>6, <1>9, <1>14, <1>15, <1>16, <2>1 DEF AddHolds, ProcOf
  <2>4. links'.next[Anchor(x)] = first
    BY <1>3, <1>10, <1>12
  <2>5. BetweenHolds(c)'
    BY <1>4, <1>9, <1>12, <1>17, <2>4 DEF BetweenHolds
  <2> QED BY <1>9, <2>2, <2>3, <2>5 DEF LookHolds, DeadHolds
<1>23. CallersHold'
  BY <1>19, <1>22, BesideOther, CallersPut
<1> QED BY <1>16, <1>19, <1>20, <1>21, <1>23, BesideStep DEF Sound

(* The first node of the chain gets a back link to the new one, to which   *)
(* nothing leads yet.                                                      *)
LEMMA BackLinkKeeps ==
  ASSUME MasksTypeOK, Sound, NEW c \in MaskClients, BackLink(c)
  PROVE  Sound'
<1>1. PICK x : x = ChainOf(c)
  OBVIOUS
<1>2. PICK n : n = call[c].new
  OBVIOUS
<1>3. PICK q : q = call[c].nxt
  OBVIOUS
<1>4. /\ call[c].pc = "back"
      /\ links' = IF q = NULL THEN links ELSE [links EXCEPT !.prev[q] = n]
      /\ call' = [call EXCEPT ![c].pc = "publish"]
      /\ UNCHANGED <<windows, open, anchored, em, freed, selected, harm, crossed>>
  BY <1>2, <1>3 DEF BackLink, Goto
<1>5. NodesHold /\ CallersHold
  BY DEF Sound
<1>6. /\ Enters(c) /\ Between(c) /\ InCall(c) /\ x \in Owners /\ x \in anchored
      /\ n \in ChainNodes /\ n \notin InChains /\ n \in MaskNodes /\ n # NULL
      /\ links.next[Anchor(x)] = q /\ links.next[n] = q /\ links.prev[n] = Anchor(x)
      /\ q # NULL => q \in Chain(x)
  <2>1. Enters(c) /\ Between(c)
    BY <1>4 DEF Enters, Between
  <2>2. AddHolds(c) /\ BetweenHolds(c)
    BY <1>5 DEF CallersHold
  <2>3. q # NULL => q \in Chain(x)
    BY <1>1, <1>3, <1>5, <2>1, RedirectedIsFirst
  <2> QED BY <1>1, <1>2, <1>3, <1>5, <2>1, <2>2, <2>3, CallersAre, NodeKinds DEF AddHolds, BetweenHolds
<1>7. /\ \A d \in MaskClients \ {c} : call'[d] = call[d]
      /\ call'[c] = [call[c] EXCEPT !.pc = "publish"]
  BY <1>4 DEF MasksTypeOK
<1>8. call[c] = [pc |-> call[c].pc, w |-> call[c].w, mask |-> call[c].mask,
                 cur |-> call[c].cur, new |-> call[c].new, nxt |-> call[c].nxt]
  BY CallTyped
<1>9. /\ call'[c].pc = "publish" /\ call'[c].w = call[c].w /\ call'[c].mask = call[c].mask
      /\ call'[c].new = n /\ call'[c].nxt = q
  BY <1>2, <1>3, <1>7, <1>8
<1>10. q # NULL => q \in ChainNodes /\ q \in MaskNodes /\ q # n
  BY <1>6, ChainsAreReached, NodeKinds DEF InChains
<1>11. /\ links'.next = links.next
       /\ q # NULL => links'.prev[q] = n
       /\ \A m \in MaskNodes : m # q => links'.prev[m] = links.prev[m]
       /\ links' \in LinksType
  <2>1. CASE q = NULL
    BY <1>4, <2>1, LinksTyped
  <2>2. CASE q # NULL
    BY <1>4, <1>6, <1>10, <2>2, LinksTyped DEF LinksType
  <2> QED BY <2>1, <2>2
<1>12. \A y \in anchored : NodesFrom(links', y) = NodesFrom(links, y)
  <2>1. \A y \in anchored : y \in Owners
    BY ChainsAreReached
  <2> QED BY <1>11, <2>1, LinksTyped, SameReached
<1>13. \A y : Chain(y)' = Chain(y)
  BY <1>4, <1>12 DEF Chain
<1>14. InChains' = InChains
  BY <1>4, <1>13 DEF InChains
<1>15. /\ UNCHANGED <<freed, open, wlife, wmask, selected, crossed>>
       /\ em' = em /\ Made' = Made /\ anchored' = anchored
  BY <1>4 DEF windows, Made, Fresh
<1>16. Enters(c)' /\ ChainOf(c)' = x
  BY <1>1, <1>2, <1>9 DEF Enters, ChainOf
<1>17. \A d \in MaskClients \ {c} : ~(Between(d) /\ ChainOf(d) = x)
  BY <1>1, <1>6 DEF Sound, OneAtATime
<1>18. ASSUME NEW d \in MaskClients \ {c}, Enters(d)
       PROVE  /\ links'.next[call[d].new] = links.next[call[d].new]
              /\ links'.prev[call[d].new] = links.prev[call[d].new]
              /\ call[d].pc = "publish" /\ call[d].nxt # NULL =>
                   links'.prev[call[d].nxt] = links.prev[call[d].nxt]
  <2>1. call[d].new \in MaskNodes /\ call[d].new # q
    <3>1. call[d].new \in ChainNodes /\ call[d].new \notin InChains
      BY <1>5, <1>18 DEF CallersHold, AddHolds
    <3> QED BY <1>6, <3>1, NodeKinds DEF InChains
  <2>2. call[d].pc = "publish" /\ call[d].nxt # NULL => call[d].nxt \in MaskNodes /\ call[d].nxt # q
    <3>1. SUFFICES ASSUME call[d].pc = "publish", call[d].nxt # NULL
                   PROVE  call[d].nxt \in MaskNodes /\ call[d].nxt # q
      OBVIOUS
    <3>2. Between(d) /\ call[d].nxt \in Chain(ChainOf(d))
      BY <1>5, <3>1, RedirectedIsFirst DEF Between
    <3>3. ChainOf(d) # x
      BY <1>17, <3>2
    <3>4. call[d].nxt \notin Chain(x)
      BY <1>5, <3>2, <3>3, ChainsApart
    <3> QED BY <1>6, <3>1, <3>2, <3>4, ChainsAreReached, NodeKinds
  <2> QED BY <1>11, <2>1, <2>2
<1>19. Beside(c)
  <2>1. call[c].pc # "check" /\ call'[c].pc \notin {"idle", "check", "find", "dead"}
    BY <1>4, <1>9
  <2>2. call'[c].w = call[c].w /\ call'[c].mask = call[c].mask /\ call'[c].new = call[c].new
    BY <1>2, <1>9
  <2> QED BY <1>6, <1>7, <1>11, <1>13, <1>14, <1>15, <1>16, <1>17, <1>18, <2>1, <2>2 DEF Beside
<1>20. RingsHold'
  <2>1. Redirected' = Redirected \cup ({q} \ {NULL})
    <3>1. {d \in MaskClients : call'[d].pc = "publish"} = {d \in MaskClients : call[d].pc = "publish"} \cup {c}
      BY <1>7, <1>9
    <3>2. \A d \in {e \in MaskClients : call[e].pc = "publish"} : call'[d].nxt = call[d].nxt
      BY <1>4, <1>7
    <3> QED BY <1>9, <3>1, <3>2 DEF Redirected
  <2>2. ASSUME NEW y \in anchored PROVE Ring(links', y, Redirected')
    <3>1. Ring(links, y, Redirected) /\ NodesFrom(links, y) = Chain(y)
      BY ChainsAreReached DEF Sound, RingsHold
    <3>2. NodesFrom(links', y) = Chain(y)
      BY <1>12, <3>1
    <3>3. ASSUME NEW m \in Chain(y) \cup {Anchor(y)}, links'.next[m] # NULL
          PROVE  IF links'.next[m] \in Redirected' THEN m = Anchor(y) ELSE links'.prev[links'.next[m]] = m
      <4>1. links'.next[m] = links.next[m] /\ links.next[m] \in Chain(y)
        BY <1>11, <3>3, NextInChain
      <4>2. IF links.next[m] \in Redirected THEN m = Anchor(y) ELSE links.prev[links.next[m]] = m
        BY <3>1, <3>3, <4>1 DEF Ring
      <4>3. CASE links.next[m] = q
        <5>1. y = x
          BY <1>5, <1>6, <3>3, <4>1, <4>3, ChainsApart
        <5>2. Anchor(x) \in Chain(x) \cup {Anchor(x)} /\ links.next[Anchor(x)] = q
          BY <1>6
        <5>3. q \notin Redirected => links.prev[q] = Anchor(x)
          BY <3>1, <3>3, <4>1, <4>3, <5>1, <5>2 DEF Ring
        <5>4. m = Anchor(y)
          BY <4>2, <4>3, <5>1, <5>3
        <5> QED BY <2>1, <3>3, <4>1, <4>3, <5>4
      <4>4. CASE links.next[m] # q
        <5>1. links.next[m] \in MaskNodes
          BY <4>1, ChainsAreReached, NodeKinds
        <5>2. links'.prev[links.next[m]] = links.prev[links.next[m]]
          BY <1>11, <4>4, <5>1
        <5> QED BY <2>1, <4>1, <4>2, <4>4, <5>2
      <4> QED BY <4>3, <4>4
    <3> QED BY <3>2, <3>3 DEF Ring
  <2>3. ASSUME NEW y \in anchored' PROVE Ring(links', y, Redirected')
    BY <1>4, <2>2
  <2> QED BY <2>3 DEF RingsHold
<1>21. LivesHold'
  BY <1>15 DEF Sound, LivesHold
<1>22. LookHolds(c)' /\ CallHolds(c)' /\ AddHolds(c)' /\ BetweenHolds(c)' /\ DeadHolds(c)'
  <2>1. CallHolds(c) /\ AddHolds(c)
    BY <1>5 DEF CallersHold
  <2>2. CallHolds(c)'
    BY <1>4, <1>6, <1>9, <1>15, <2>1 DEF CallHolds, InCall
  <2>3. AddHolds(c)'
    BY <1>2, <1>6, <1>9, <1>13, <1>14, <1>15, <2>1 DEF AddHolds, ProcOf
  <2>4. links'.prev[n] = Anchor(x)
    BY <1>6, <1>10, <1>11
  <2>5. BetweenHolds(c)'
    BY <1>4, <1>6, <1>9, <1>11, <1>16, <2>4 DEF BetweenHolds
  <2> QED BY <1>9, <2>2, <2>3, <2>5 DEF LookHolds, DeadHolds
<1>23. CallersHold'
  BY <1>19, <1>22, BesideOther, CallersPut
<1> QED BY <1>15, <1>19, <1>20, <1>21, <1>23, BesideStep DEF Sound
-----------------------------------------------------------------------------
(* The anchor gets the new node, which leads on to what was first: the     *)
(* chain has one node more.                                                *)
LEMMA PublishKeeps ==
  ASSUME MasksTypeOK, Sound, NEW c \in MaskClients, Publish(c)
  PROVE  Sound'
<1>1. PICK x : x = ChainOf(c)
  OBVIOUS
<1>2. PICK n : n = call[c].new
  OBVIOUS
<1>3. PICK q : q = call[c].nxt
  OBVIOUS
<1>4. PICK p : p = PairOf(n)
  OBVIOUS
<1>5. /\ call[c].pc = "publish"
      /\ links' = [links EXCEPT !.next[Anchor(x)] = n]
      /\ call' = [call EXCEPT ![c] =
           IF n[1] = "em1" THEN [@ EXCEPT !.pc = "link", !.new = Em2(p), !.nxt = NULL]
           ELSE [@ EXCEPT !.pc = "or"]]
      /\ UNCHANGED <<windows, open, anchored, em, freed, selected, harm, crossed>>
  BY <1>1, <1>2, <1>4 DEF Publish
<1>6. NodesHold /\ CallersHold /\ OneMask
  BY DEF Sound
<1>7. Enters(c) /\ Between(c) /\ InCall(c)
  BY <1>5 DEF Enters, Between, InCall
<1>8. PICK w \in MaskWindows : w = call[c].w /\ wlife[w] = "live"
  BY <1>6, <1>7, CallersAre
<1>9. /\ n \in ChainNodes /\ p \in Made /\ p \notin freed
      /\ em[p] = [win |-> w, proc |-> c, mask |-> call[c].mask]
      /\ n \notin InChains
      /\ n[1] = "em1" => Em2(p) \notin InChains /\ \A m \in Chain(w) : ProcOf(m) # c
      /\ n[1] = "em2" => Em1(p) \in Chain(w)
  BY <1>2, <1>4, <1>6, <1>7, <1>8 DEF CallersHold, AddHolds
<1>10. /\ x \in anchored /\ links.next[Anchor(x)] = q
       /\ links.next[n] = q /\ links.prev[n] = Anchor(x)
       /\ q # NULL => links.prev[q] = n
  BY <1>1, <1>2, <1>3, <1>5, <1>6, <1>7 DEF CallersHold, BetweenHolds
<1>11. /\ x \in Owners /\ c \in open
       /\ n[1] = "em1" => x = w /\ n = Em1(p)
       /\ n[1] # "em1" => x = c /\ n[1] = "em2" /\ n = Em2(p)
  <2>1. ChainOf(c) = IF n[1] = "em1" THEN w ELSE c
    BY <1>2, <1>8 DEF ChainOf
  <2>2. c \in open
    BY <1>5, <1>6, CallersAre
  <2> QED BY <1>1, <1>4, <1>9, <2>1, <2>2, NodeKinds, OwnersDiffer
<1>12. p \in Pairs /\ em[p].win = w /\ em[p].proc = c /\ em[p].mask = call[c].mask
  BY <1>9 DEF Made
<1>13. q # NULL => q \in Chain(x) /\ q # n /\ q \in ChainNodes
  BY <1>1, <1>3, <1>6, <1>7, <1>9, <1>10, RedirectedIsFirst, ChainsAreReached DEF InChains
<1>14. /\ Anchor(x) \in MaskNodes /\ Anchor(x) \notin ChainNodes /\ n \in MaskNodes
       /\ ChainNodes \subseteq MaskNodes /\ n # NULL
       /\ \A y : y # x => Anchor(y) # Anchor(x)
       /\ \A y \in Owners : Anchor(y) \in MaskNodes
       /\ \A y : Anchor(y) \notin ChainNodes
  BY <1>9, <1>11, NodeKinds
<1>15. /\ links'.next[Anchor(x)] = n
       /\ \A m \in MaskNodes : m # Anchor(x) => links'.next[m] = links.next[m]
       /\ links'.prev = links.prev
       /\ links' \in LinksType
  BY <1>5, <1>9, <1>14, LinksTyped DEF LinksType
<1>16. /\ UNCHANGED <<freed, open, wlife, wmask, selected, crossed>>
       /\ em' = em /\ Made' = Made /\ anchored' = anchored
       /\ \A m : ProcOf(m)' = ProcOf(m) /\ Owner(m)' = Owner(m)
  BY <1>5 DEF windows, Made, Fresh, ProcOf, Owner
<1>17. Chain(x) = NodesFrom(links, x) /\ Chain(x) \subseteq ChainNodes /\ n \notin Chain(x)
  BY <1>9, <1>10, ChainsAreReached DEF InChains
<1>18. Chain(x)' = Chain(x) \cup {n}
  <2>1. \A m \in NodesFrom(links, x) : links'.next[m] = links.next[m]
    BY <1>14, <1>15, <1>17
  <2>2. links'.next[n] = links.next[Anchor(x)]
    BY <1>9, <1>10, <1>14, <1>15
  <2>3. NodesFrom(links', x) = NodesFrom(links, x) \cup {n}
    BY <1>9, <1>11, <1>15, <1>17, <2>1, <2>2, LinksTyped, InsertedFirst
  <2>4. Chain(x)' = NodesFrom(links', x)
    BY <1>10, <1>16 DEF Chain
  <2> QED BY <1>17, <2>3, <2>4
<1>19. ASSUME NEW y, y # x
       PROVE  /\ Chain(y)' = Chain(y)
              /\ y \in anchored => \A m \in Chain(y) \cup {Anchor(y)} : links'.next[m] = links.next[m]
  <2>1. CASE y \notin anchored
    BY <1>16, <2>1 DEF Chain
  <2>2. CASE y \in anchored
    <3>1. y \in Owners /\ Chain(y) = NodesFrom(links, y) /\ Chain(y) \subseteq ChainNodes
      BY <2>2, ChainsAreReached
    <3>2. \A m \in Chain(y) \cup {Anchor(y)} : links'.next[m] = links.next[m]
      BY <1>14, <1>15, <1>19, <3>1
    <3>3. NodesFrom(links', y) = NodesFrom(links, y)
      BY <1>15, <3>1, <3>2, LinksTyped, SameReached
    <3>4. Chain(y)' = NodesFrom(links', y)
      BY <1>16, <2>2 DEF Chain
    <3> QED BY <3>1, <3>2, <3>3, <3>4
  <2> QED BY <2>1, <2>2
<1>20. /\ \A y : Chain(y) \subseteq Chain(y)'
       /\ \A y : \A m \in Chain(y)' : m \in Chain(y) \/ (m = n /\ y = x)
       /\ InChains' = InChains \cup {n}
  <2>1. \A y : Chain(y) \subseteq Chain(y)'
    BY <1>18, <1>19
  <2>2. \A y : \A m \in Chain(y)' : m \in Chain(y) \/ (m = n /\ y = x)
    BY <1>18, <1>19
  <2>3. InChains' = InChains \cup {n}
    BY <1>10, <1>16, <1>18, <2>1, <2>2 DEF InChains
  <2> QED BY <2>1, <2>2, <2>3
<1>21. /\ \A d \in MaskClients \ {c} : call'[d] = call[d]
       /\ call'[c] = IF n[1] = "em1" THEN [call[c] EXCEPT !.pc = "link", !.new = Em2(p), !.nxt = NULL]
                     ELSE [call[c] EXCEPT !.pc = "or"]
  BY <1>5 DEF MasksTypeOK
<1>22. call[c] = [pc |-> call[c].pc, w |-> call[c].w, mask |-> call[c].mask,
                  cur |-> call[c].cur, new |-> call[c].new, nxt |-> call[c].nxt]
  BY CallTyped
<1>23. /\ call'[c].w = w /\ call'[c].mask = call[c].mask
       /\ n[1] = "em1" => call'[c].pc = "link" /\ call'[c].new = Em2(p)
       /\ n[1] # "em1" => call'[c].pc = "or" /\ call'[c].new = n
       /\ call'[c].pc \in {"link", "or"}
  BY <1>2, <1>8, <1>21, <1>22
<1>24. ~Between(c)' /\ InCall(c)'
  BY <1>23 DEF Between, InCall
<1>25. \A d \in MaskClients \ {c} : ~(Between(d) /\ ChainOf(d) = x)
  BY <1>1, <1>7 DEF Sound, OneAtATime
<1>26. \A d \in MaskClients \ {c} : /\ Between(d)' <=> Between(d)
                                    /\ ChainOf(d)' = ChainOf(d)
                                    /\ Enters(d)' <=> Enters(d)
                                    /\ InCall(d)' <=> InCall(d)
  BY <1>21 DEF Between, ChainOf, Enters, InCall
<1> QED
  <2>1. NodesHold'
    <3>1. ASSUME NEW y \in anchored, NEW m \in Chain(y)'
          PROVE  PairOf(m) \in Made \ freed /\ ProcOf(m) \in open /\ Owner(m) = y
      <4>1. CASE m \in Chain(y)
        BY <1>6, <4>1 DEF NodesHold
      <4>2. CASE m = n /\ y = x
        BY <1>4, <1>9, <1>11, <1>12, <4>2 DEF ProcOf, Owner
      <4> QED BY <1>20, <4>1, <4>2
    <3> QED BY <1>6, <1>16, <3>1 DEF NodesHold
  <2>2. RingsHold'
    <3>1. Redirected \subseteq InChains /\ n \notin Redirected
      <4>1. \A d \in MaskClients : call[d].pc = "publish" /\ call[d].nxt # NULL => call[d].nxt \in InChains
        BY <1>6, RedirectedIsFirst DEF Between, InChains
      <4> QED BY <1>9, <4>1 DEF Redirected
    <3>2. Redirected' = Redirected \ {q}
      <4>1. ASSUME NEW d \in MaskClients \ {c}, call[d].pc = "publish", call[d].nxt # NULL
            PROVE  call[d].nxt # q
        <5>1. Between(d) /\ call[d].nxt \in Chain(ChainOf(d))
          BY <1>6, <4>1, RedirectedIsFirst DEF Between
        <5>2. ChainOf(d) # x
          BY <1>25, <5>1
        <5>3. call[d].nxt \notin Chain(x)
          BY <1>6, <5>1, <5>2, ChainsApart
        <5> QED BY <1>13, <4>1, <5>3
      <4>2. {d \in MaskClients : call'[d].pc = "publish"} = {d \in MaskClients : call[d].pc = "publish"} \ {c}
        BY <1>21, <1>23
      <4>3. \A d \in {e \in MaskClients : call[e].pc = "publish"} \ {c} : call'[d].nxt = call[d].nxt
        BY <1>21
      <4>4. Redirected' = {call[d].nxt : d \in {e \in MaskClients : call[e].pc = "publish"} \ {c}} \ {NULL}
        BY <4>2, <4>3 DEF Redirected
      <4> QED BY <1>3, <1>5, <4>1, <4>4 DEF Redirected
    <3>3. q # NULL => q \in Redirected
      BY <1>3, <1>5 DEF Redirected
    <3>4. ASSUME NEW y \in anchored, y # x PROVE Ring(links', y, Redirected')
      <4>1. Ring(links, y, Redirected) /\ NodesFrom(links, y) = Chain(y)
        BY ChainsAreReached DEF Sound, RingsHold
      <4>2. NodesFrom(links', y) = Chain(y)
        BY <1>16, <1>19, <3>4 DEF Chain
      <4>3. ASSUME NEW m \in Chain(y) \cup {Anchor(y)}, links'.next[m] # NULL
            PROVE  IF links'.next[m] \in Redirected' THEN m = Anchor(y) ELSE links'.prev[links'.next[m]] = m
        <5>1. links'.next[m] = links.next[m] /\ links.next[m] \in Chain(y)
          BY <1>19, <3>4, <4>3, NextInChain
        <5>2. links.next[m] # q
          BY <1>6, <1>13, <3>4, <4>3, <5>1, ChainsApart
        <5> QED BY <1>15, <3>2, <4>1, <4>3, <5>1, <5>2 DEF Ring
      <4> QED BY <4>2, <4>3 DEF Ring
    <3>5. Ring(links', x, Redirected')
      <4>1. Ring(links, x, Redirected) /\ NodesFrom(links, x) = Chain(x)
        BY <1>10, ChainsAreReached DEF Sound, RingsHold
      <4>2. NodesFrom(links', x) = Chain(x) \cup {n}
        BY <1>10, <1>16, <1>18 DEF Chain
      <4>3. ASSUME NEW m \in Chain(x) \cup {n} \cup {Anchor(x)}, links'.next[m] # NULL
            PROVE  IF links'.next[m] \in Redirected' THEN m = Anchor(x) ELSE links'.prev[links'.next[m]] = m
        <5>1. CASE m = Anchor(x)
          BY <1>10, <1>15, <3>1, <3>2, <5>1
        <5>2. CASE m = n
          <6>1. links'.next[m] = q
            BY <1>10, <1>9, <1>14, <1>15, <5>2
          <6> QED BY <1>10, <1>15, <3>2, <4>3, <5>2, <6>1
        <5>3. CASE m \in Chain(x)
          <6>1. links'.next[m] = links.next[m] /\ m # Anchor(x)
            BY <1>14, <1>15, <1>17, <5>3
          <6>2. links.next[m] \notin Redirected /\ links.prev[links.next[m]] = m
            BY <4>1, <4>3, <5>3, <6>1 DEF Ring
          <6> QED BY <1>15, <3>2, <6>1, <6>2
        <5> QED BY <4>3, <5>1, <5>2, <5>3
      <4> QED BY <4>2, <4>3 DEF Ring
    <3>6. ASSUME NEW y \in anchored' PROVE Ring(links', y, Redirected')
      BY <1>16, <3>4, <3>5
    <3> QED BY <3>6 DEF RingsHold
  <2>3. LivesHold'
    BY <1>16 DEF Sound, LivesHold
  <2>4. OneMask'
    <3>1. ASSUME NEW v \in MaskWindows, NEW m1 \in Chain(v)', NEW m2 \in Chain(v)', ProcOf(m1) = ProcOf(m2)
          PROVE  m1 = m2
      <4>1. \A m \in Chain(v)' : m \in Chain(v) \/ (m = n /\ v = x)
        BY <1>20
      <4>2. v = x => \A m \in Chain(v) : ProcOf(m) # c
        BY <1>9, <1>11, OwnersDiffer
      <4>3. ProcOf(n) = c
        BY <1>4, <1>12 DEF ProcOf
      <4> QED BY <1>6, <3>1, <4>1, <4>2, <4>3 DEF OneMask
    <3> QED BY <1>16, <3>1 DEF OneMask
  <2>5. OneAtATime'
    <3>1. ASSUME NEW d \in MaskClients, NEW e \in MaskClients,
                 Between(d)', Between(e)', ChainOf(d)' = ChainOf(e)'
          PROVE  d = e
      <4>1. d # c /\ e # c
        BY <1>24, <3>1
      <4> QED BY <1>26, <3>1, <4>1 DEF Sound, OneAtATime
    <3> QED BY <3>1 DEF OneAtATime
  <2>6. PairsHold'
    <3>1. ASSUME NEW m \in Made \ freed, em[m].proc \in open PROVE Unfinished(m)' \/ Complete(m)'
      <4>1. CASE Complete(m)
        BY <1>16, <1>20, <4>1 DEF Complete
      <4>2. CASE ~Complete(m) /\ m = p
        <5>1. CASE n[1] = "em1"
          <6>1. Enters(c)' /\ call'[c].new = Em2(m)
            BY <1>23, <4>2, <5>1 DEF Enters
          <6> QED BY <6>1 DEF Unfinished
        <5>2. CASE n[1] # "em1"
          <6>1. Em1(p) \in Chain(w)' /\ Em2(p) \in Chain(c)'
            BY <1>9, <1>11, <1>18, <1>20, <5>2
          <6> QED BY <1>12, <1>16, <4>2, <6>1 DEF Complete
        <5> QED BY <5>1, <5>2
      <4>3. CASE ~Complete(m) /\ m # p
        <5>1. PICK d \in MaskClients : \/ Enters(d) /\ call[d].new \in {Em1(m), Em2(m)}
                                       \/ call[d].pc = "dead" /\ call[d].new = Em1(m)
          BY <3>1, <4>3 DEF Sound, PairsHold, Unfinished
        <5>2. PairOf(call[d].new) = m
          BY <5>1, NodeKinds DEF Made
        <5>3. d # c
          BY <1>2, <1>4, <4>3, <5>2
        <5>4. call'[d] = call[d] /\ (Enters(d)' <=> Enters(d))
          BY <1>21, <1>26, <5>3
        <5> QED BY <5>1, <5>4 DEF Unfinished
      <4> QED BY <4>1, <4>2, <4>3
    <3> QED BY <1>16, <3>1 DEF PairsHold
  <2>7. SelectedHold'
    <3>1. ASSUME NEW v \in MaskWindows, NEW d \in open, wlife[v] = "live",
                 call'[d].w # v \/ call'[d].pc \in {"idle", "check", "find"}
          PROVE  /\ call[d].w # v \/ call[d].pc \in {"idle", "check", "find"}
                 /\ \A m \in Chain(v)' : ProcOf(m) = d => m \in Chain(v)
      <4>1. d \in MaskClients
        BY DEF MasksTypeOK
      <4>2. \A m \in Chain(v)' : m \in Chain(v) \/ (m = n /\ v = x)
        BY <1>20
      <4>3. ProcOf(n) = c
        BY <1>4, <1>12 DEF ProcOf
      <4>4. CASE d # c
        BY <1>21, <3>1, <4>1, <4>2, <4>3, <4>4
      <4>5. CASE d = c
        <5>1. w # v
          BY <1>23, <3>1, <4>5
        <5>2. v # x
          BY <1>11, <5>1, OwnersDiffer
        <5> QED BY <1>8, <4>2, <4>5, <5>1, <5>2
      <4> QED BY <4>4, <4>5
    <3>2. ASSUME NEW v \in MaskWindows, NEW d \in open, wlife[v] = "live"
          PROVE  /\ selected[v][d] \subseteq wmask[v]
                 /\ call'[d].w # v \/ call'[d].pc \in {"idle", "check", "find"} =>
                      /\ \A m \in Chain(v)' : ProcOf(m) = d => em[PairOf(m)].mask = selected[v][d]
                      /\ (\A m \in Chain(v)' : ProcOf(m) # d) => selected[v][d] = {}
      <4>1. /\ selected[v][d] \subseteq wmask[v]
            /\ call[d].w # v \/ call[d].pc \in {"idle", "check", "find"} =>
                 /\ \A m \in Chain(v) : ProcOf(m) = d => em[PairOf(m)].mask = selected[v][d]
                 /\ (\A m \in Chain(v) : ProcOf(m) # d) => selected[v][d] = {}
        BY <3>2 DEF Sound, SelectedHold
      <4>2. Chain(v) \subseteq Chain(v)'
        BY <1>20
      <4> QED BY <3>1, <3>2, <4>1, <4>2
    <3>3. \A v \in MaskWindows, d \in MaskClients : wlife[v] = "none" => selected[v][d] = {}
      BY DEF Sound, SelectedHold
    <3> QED BY <1>16, <3>2, <3>3 DEF SelectedHold
  <2>8. KeyPressHold'
    <3>1. ASSUME NEW v \in MaskWindows \ crossed PROVE Alone(v)'
      <4>1. Alone(v)
        BY <3>1 DEF Sound, KeyPressHold
      <4>2. \A d \in MaskClients : /\ InCall(d)' /\ call'[d].w = v => InCall(d) /\ call[d].w = v
                                   /\ call'[d].mask = call[d].mask
                                   /\ call'[d].pc # "check" => call[d].pc # "check"
        BY <1>5, <1>7, <1>8, <1>21, <1>23, <1>26
      <4>3. \A d, e \in MaskClients :
              InCall(d)' /\ InCall(e)' /\ call'[d].w = v /\ call'[e].w = v => d = e
        BY <4>1, <4>2 DEF Alone
      <4>4. CASE v # x \/ KeyPressMask \notin em[p].mask
        <5>1. Receivers(v, KeyPressMask)' = Receivers(v, KeyPressMask)
          <6>1. \A m \in Chain(v)' : KeyPressMask \in em[PairOf(m)].mask => m \in Chain(v)
            BY <1>4, <1>20, <4>4
          <6> QED BY <1>16, <1>20, <6>1 DEF Receivers
        <5>2. ASSUME NEW d \in MaskClients, InCall(d)', call'[d].w = v,
                     KeyPressMask \in call'[d].mask, call'[d].pc # "check",
                     NEW m \in Receivers(v, KeyPressMask)
              PROVE  ProcOf(m) = d
          BY <4>1, <4>2, <5>2 DEF Alone
        <5> QED BY <1>16, <4>1, <4>3, <5>1, <5>2 DEF Alone
      <4>5. CASE v = x /\ KeyPressMask \in em[p].mask
        <5>1. v = w /\ n[1] = "em1"
          BY <1>11, <4>5, OwnersDiffer
        <5>2. Receivers(v, KeyPressMask) = {}
          <6>1. \A m \in Receivers(v, KeyPressMask) : ProcOf(m) = c
            BY <1>5, <1>7, <1>8, <1>12, <4>1, <4>5, <5>1 DEF Alone
          <6> QED BY <1>9, <5>1, <6>1 DEF Receivers
        <5>3. \A m \in Receivers(v, KeyPressMask)' : m = n
          <6>1. \A m \in Chain(v)' : KeyPressMask \in em[PairOf(m)].mask => m = n
            BY <1>20, <5>2 DEF Receivers
          <6> QED BY <1>16, <6>1 DEF Receivers
        <5>4. \A d \in MaskClients : InCall(d)' /\ call'[d].w = v => d = c
          BY <1>23, <1>24, <4>3, <5>1
        <5>5. ProcOf(n)' = c
          BY <1>4, <1>12, <1>16 DEF ProcOf
        <5> QED BY <4>3, <5>3, <5>4, <5>5 DEF Alone
      <4> QED BY <4>4, <4>5
    <3> QED BY <1>16, <3>1 DEF KeyPressHold
  <2>9. ASSUME NEW d \in MaskClients \ {c}
        PROVE  LookHolds(d)' /\ CallHolds(d)' /\ AddHolds(d)' /\ BetweenHolds(d)' /\ DeadHolds(d)'
    <3>1. LookHolds(d) /\ CallHolds(d) /\ AddHolds(d) /\ BetweenHolds(d) /\ DeadHolds(d)
      BY <1>6 DEF CallersHold
    <3>2. call'[d] = call[d] /\ d # c
      BY <1>21
    <3>3. LookHolds(d)'
      <4>1. SUFFICES ASSUME call[d].pc \in {"check", "find"} PROVE LookHolds(d)'
        BY <3>2 DEF LookHolds
      <4>2. PICK v \in MaskWindows : v = call[d].w
        BY <1>6, <4>1, CallersAre DEF InCall
      <4>3. PICK met \in SUBSET ChainNodes : Met(d, met)
        BY <3>1, <4>1 DEF LookHolds
      <4>4. /\ met \subseteq Chain(v)
            /\ call[d].pc = "find" => \A m \in met : ProcOf(m) # d
            /\ call[d].pc = "check" /\ v \notin crossed =>
                 \A m \in met : KeyPressMask \in em[PairOf(m)].mask => ProcOf(m) = d
            /\ Stands(d, met)
        BY <4>2, <4>3 DEF Met
      <4>5. CASE v # x
        <5>1. Chain(v)' = Chain(v)
          BY <1>19, <4>5
        <5>2. \A cur : v \in anchored /\ UpTo(links, v, met, cur) => UpTo(links', v, met, cur)
          <6>1. v \in anchored => \A m \in Chain(v) \cup {Anchor(v)} : links'.next[m] = links.next[m]
            BY <1>19, <4>5
          <6> QED BY <4>4, <6>1 DEF UpTo
        <5>3. Stands(d, met)'
          BY <1>16, <3>2, <4>2, <4>4, <5>1, <5>2 DEF Stands
        <5>4. Met(d, met)'
          BY <1>16, <3>2, <4>2, <4>4, <5>1, <5>3 DEF Met
        <5> QED BY <3>1, <3>2, <5>4 DEF LookHolds
      <4>6. CASE v = x /\ call[d].cur = Anchor(v)
        <5>1. met = {} /\ v \in anchored
          BY <1>14, <4>2, <4>4, <4>6, NodeKinds DEF Stands
        <5>2. Stands(d, {})'
          BY <1>16, <3>2, <4>2, <4>6, <5>1 DEF Stands
        <5>3. Met(d, {})'
          BY <5>2 DEF Met
        <5> QED BY <3>1, <3>2, <5>3 DEF LookHolds
      <4>7. CASE v = x /\ call[d].cur # Anchor(v)
        <5>1. Stands(d, met \cup {n})'
          <6>1. CASE call[d].cur = NULL
            <7>1. call[d].pc = "find" /\ met = Chain(v)
              BY <4>2, <4>4, <4>7, <6>1, NodeKinds DEF Stands
            <7> QED BY <1>18, <3>2, <4>2, <4>7, <6>1, <7>1 DEF Stands
          <6>2. CASE call[d].cur # NULL
            <7>1. call[d].cur \in ChainNodes /\ v \in anchored /\ UpTo(links, v, met, call[d].cur)
              BY <4>2, <4>4, <4>7, <6>2 DEF Stands
            <7>2. links'.next[n] = q /\ q \in met
              BY <1>9, <1>10, <1>14, <1>15, <4>7, <7>1 DEF UpTo
            <7>3. \A m \in met : links'.next[m] = links.next[m]
              BY <1>14, <1>15
            <7>4. UpTo(links', v, met \cup {n}, call[d].cur)
              BY <1>15, <4>7, <7>1, <7>2, <7>3 DEF UpTo
            <7> QED BY <1>16, <3>2, <4>2, <7>1, <7>4 DEF Stands
          <6> QED BY <6>1, <6>2
        <5>2. met \cup {n} \subseteq Chain(v)' /\ met \cup {n} \in SUBSET ChainNodes
          BY <1>9, <1>18, <4>4, <4>7
        <5>3. ProcOf(n) # d
          BY <1>4, <1>12, <3>2 DEF ProcOf
        <5>4. ~(call[d].pc = "check" /\ v \notin crossed)
          <6>1. SUFFICES ASSUME call[d].pc = "check", v \notin crossed PROVE FALSE
            OBVIOUS
          <6>2. Alone(v) /\ InCall(d) /\ call[c].w = v
            BY <1>8, <1>11, <4>7, <6>1, OwnersDiffer DEF Sound, KeyPressHold, InCall
          <6> QED BY <1>7, <3>2, <4>2, <6>2 DEF Alone
        <5>5. Met(d, met \cup {n})'
          BY <1>16, <3>2, <4>2, <4>4, <5>1, <5>2, <5>3, <5>4 DEF Met
        <5> QED BY <3>1, <3>2, <5>2, <5>5 DEF LookHolds
      <4> QED BY <4>5, <4>6, <4>7
    <3>4. CallHolds(d)'
      BY <1>16, <1>20, <3>1, <3>2 DEF CallHolds, InCall
    <3>5. AddHolds(d)'
      <4>1. SUFFICES ASSUME Enters(d) PROVE AddHolds(d)'
        BY <1>26 DEF AddHolds
      <4>2. PairOf(call[d].new) # p /\ call[d].new # n
        BY <1>2, <1>4, <1>6, <1>7, <3>2, <4>1, OwnPairs
      <4>3. Em2(PairOf(call[d].new)) # n
        <5>1. PairOf(call[d].new) \in Pairs
          BY <3>1, <4>1 DEF AddHolds, Made
        <5> QED BY <1>4, <4>2, <5>1, NodeKinds
      <4>4. \A v : (\A m \in Chain(v) : ProcOf(m) # d) => \A m \in Chain(v)' : ProcOf(m) # d
        <5>1. ProcOf(n) # d
          BY <1>4, <1>12, <3>2 DEF ProcOf
        <5> QED BY <1>20, <5>1
      <4>5. /\ call[d].new \in ChainNodes /\ PairOf(call[d].new) \in Made \ freed
            /\ em[PairOf(call[d].new)] = [win |-> call[d].w, proc |-> d, mask |-> call[d].mask]
            /\ call[d].new \notin InChains'
        BY <1>20, <3>1, <4>1, <4>2 DEF AddHolds
      <4>6. PICK v : v = call[d].w /\ v = call'[d].w
        BY <3>2
      <4>7. call[d].new[1] = "em1" =>
              Em2(PairOf(call[d].new)) \notin InChains' /\ \A m \in Chain(v)' : ProcOf(m) # d
        <5>1. call[d].new[1] = "em1" =>
                Em2(PairOf(call[d].new)) \notin InChains /\ \A m \in Chain(v) : ProcOf(m) # d
          BY <3>1, <4>1, <4>6 DEF AddHolds
        <5>2. Em2(PairOf(call[d].new)) \notin InChains => Em2(PairOf(call[d].new)) \notin InChains'
          BY <1>20, <4>3
        <5> QED BY <4>4, <5>1, <5>2, Zenon
      <4>8. call[d].new[1] = "em2" => Em1(PairOf(call[d].new)) \in Chain(v)'
        <5>1. call[d].new[1] = "em2" => Em1(PairOf(call[d].new)) \in Chain(v)
          BY <3>1, <4>1, <4>6 DEF AddHolds
        <5>2. Chain(v) \subseteq Chain(v)'
          BY <1>20
        <5> QED BY <5>1, <5>2
      <4> QED BY <1>16, <3>2, <4>5, <4>6, <4>7, <4>8 DEF AddHolds
    <3>6. BetweenHolds(d)'
      <4>1. SUFFICES ASSUME Between(d) PROVE BetweenHolds(d)'
        BY <1>26 DEF BetweenHolds
      <4>2. PICK y : y = ChainOf(d)
        OBVIOUS
      <4>3. y # x /\ y \in anchored /\ ChainOf(d)' = y
        BY <1>25, <1>26, <3>1, <4>1, <4>2 DEF BetweenHolds
      <4>4. links'.next[Anchor(y)] = links.next[Anchor(y)]
        BY <1>19, <4>3
      <4>5. links'.next[call[d].new] = links.next[call[d].new]
        <5>1. call[d].new \in ChainNodes
          BY <3>1, <4>1 DEF AddHolds, Enters, Between
        <5> QED BY <1>14, <1>15, <5>1
      <4> QED BY <1>15, <1>16, <3>1, <3>2, <4>1, <4>2, <4>3, <4>4, <4>5 DEF BetweenHolds
    <3>7. DeadHolds(d)'
      <4>1. SUFFICES ASSUME call[d].pc = "dead", call[d].new # NULL, call[d].new[1] = "em1"
                     PROVE  DeadHolds(d)'
        BY <3>2 DEF DeadHolds
      <4>2. /\ call[d].new \in ChainNodes /\ PairOf(call[d].new) \in Made
            /\ em[PairOf(call[d].new)].proc = d
            /\ call[d].new \notin InChains /\ Em2(PairOf(call[d].new)) \notin InChains
        BY <3>1, <4>1 DEF DeadHolds
      <4>3. PairOf(call[d].new) # p
        BY <1>12, <3>2, <4>2
      <4>4. Em2(PairOf(call[d].new)) # n /\ call[d].new # n
        BY <1>4, <4>2, <4>3, NodeKinds DEF Made
      <4> QED BY <1>16, <1>20, <3>2, <4>2, <4>4 DEF DeadHolds
    <3> QED BY <3>3, <3>4, <3>5, <3>6, <3>7
  <2>10. LookHolds(c)' /\ CallHolds(c)' /\ AddHolds(c)' /\ BetweenHolds(c)' /\ DeadHolds(c)'
    <3>1. BetweenHolds(c)' /\ LookHolds(c)' /\ DeadHolds(c)'
      BY <1>23, <1>24 DEF BetweenHolds, LookHolds, DeadHolds
    <3>2. CASE n[1] = "em1"
      <4>1. call'[c].pc = "link" /\ call'[c].new = Em2(p) /\ n = Em1(p)
        BY <1>11, <1>23, <3>2
      <4>2. Em2(p) \in ChainNodes /\ PairOf(Em2(p)) = p /\ Em2(p)[1] = "em2" /\ Em2(p) # n
        BY <1>12, <4>1, NodeKinds
      <4>3. Em2(p) \notin InChains' /\ Em1(p) \in Chain(w)'
        BY <1>9, <1>11, <1>18, <1>20, <3>2, <4>1, <4>2
      <4>4. AddHolds(c)'
        BY <1>9, <1>16, <1>23, <4>1, <4>2, <4>3 DEF AddHolds
      <4>5. CallHolds(c)'
        BY <1>8, <1>11, <1>16, <1>23, <4>1 DEF CallHolds
      <4> QED BY <3>1, <4>4, <4>5
    <3>3. CASE n[1] # "em1"
      <4>1. call'[c].pc = "or" /\ call'[c].new = n /\ n[1] = "em2"
        BY <1>11, <1>23, <3>3
      <4>2. Em1(p) \in Chain(w)' /\ PairOf(Em1(p)) = p
        BY <1>9, <1>12, <1>20, <4>1, NodeKinds
      <4>3. ProcOf(Em1(p))' = c /\ em'[PairOf(Em1(p))].mask = call'[c].mask
        BY <1>12, <1>16, <1>23, <4>2 DEF ProcOf
      <4>4. CallHolds(c)'
        BY <1>8, <1>11, <1>16, <1>23, <4>1, <4>2, <4>3 DEF CallHolds
      <4>5. AddHolds(c)'
        BY <4>1 DEF AddHolds, Enters
      <4> QED BY <3>1, <4>4, <4>5
    <3> QED BY <3>2, <3>3
  <2>11. CallersHold'
    BY <2>9, <2>10, CallersPut
  <2> QED BY <2>1, <2>2, <2>3, <2>4, <2>5, <2>6, <2>7, <2>8, <2>11 DEF Sound
-----------------------------------------------------------------------------
(* A window for which nothing is selected.                                 *)
LEMMA CreateBareKeeps ==
  ASSUME MasksTypeOK, Sound, NEW c \in MaskClients, NEW w \in MaskWindows,
         wlife[w] = "none", wlife' = [wlife EXCEPT ![w] = "live"],
         UNCHANGED <<wmask, anchored, links, em, selected, open, freed, call, crossed>>
  PROVE  Sound'
<1>1. /\ wlife'[w] = "live" /\ \A v \in MaskWindows : v # w => wlife'[v] = wlife[v]
  BY DEF MasksTypeOK
<1>2. /\ \A x : Chain(x)' = Chain(x)
      /\ InChains' = InChains /\ Made' = Made
      /\ \A v, b : Receivers(v, b)' = Receivers(v, b)
  BY SameChains DEF chains
<1>3. w \notin anchored /\ Chain(w) = {}
  BY ChainsAreReached DEF Sound, LivesHold
<1>4. NodesHold' /\ OneMask' /\ OneAtATime' /\ PairsHold' /\ KeyPressHold'
  <2>1. NodesHold'
    BY <1>2 DEF Sound, NodesHold, ProcOf, Owner
  <2>2. OneMask' /\ OneAtATime'
    BY <1>2 DEF Sound, OneMask, OneAtATime, ProcOf, Between, ChainOf
  <2>3. PairsHold'
    BY <1>2 DEF Sound, PairsHold, Unfinished, Complete, Enters
  <2>4. KeyPressHold'
    BY <1>2 DEF Sound, KeyPressHold, Alone, InCall, ProcOf
  <2> QED BY <2>1, <2>2, <2>3, <2>4
<1>5. RingsHold'
  BY DEF Sound, RingsHold, Redirected
<1>6. LivesHold'
  BY <1>1, <1>3 DEF Sound, LivesHold
<1>7. CallersHold'
  <2>1. ASSUME NEW d \in MaskClients
        PROVE  LookHolds(d)' /\ CallHolds(d)' /\ AddHolds(d)' /\ BetweenHolds(d)' /\ DeadHolds(d)'
    <3>1. LookHolds(d) /\ CallHolds(d) /\ AddHolds(d) /\ BetweenHolds(d) /\ DeadHolds(d)
      BY DEF Sound, CallersHold
    <3>2. LookHolds(d)'
      BY <1>2, <3>1 DEF LookHolds, Met, Stands, ProcOf
    <3>3. CallHolds(d)'
      BY <1>1, <1>2, <3>1 DEF CallHolds, InCall, ProcOf
    <3>4. AddHolds(d)' /\ BetweenHolds(d)' /\ DeadHolds(d)'
      BY <1>2, <3>1 DEF AddHolds, Enters, ProcOf, BetweenHolds, Between, ChainOf, DeadHolds
    <3> QED BY <3>2, <3>3, <3>4
  <2> QED BY <2>1 DEF CallersHold
<1>8. SelectedHold'
  <2>1. ASSUME NEW v \in MaskWindows, NEW d \in open, v # w, wlife'[v] = "live"
        PROVE  /\ selected[v][d] \subseteq wmask[v]
               /\ call[d].w # v \/ call[d].pc \in {"idle", "check", "find"} =>
                    /\ \A n \in Chain(v) : ProcOf(n) = d => em[PairOf(n)].mask = selected[v][d]
                    /\ (\A n \in Chain(v) : ProcOf(n) # d) => selected[v][d] = {}
    BY <1>1, <2>1 DEF Sound, SelectedHold
  <2>2. \A d \in MaskClients : selected[w][d] = {}
    BY DEF Sound, SelectedHold
  <2>3. \A v \in MaskWindows, d \in MaskClients : wlife'[v] = "none" => selected[v][d] = {}
    BY <1>1, <2>2 DEF Sound, SelectedHold
  <2>4. open \subseteq MaskClients
    BY DEF MasksTypeOK
  <2> QED BY <1>2, <1>3, <2>1, <2>2, <2>3, <2>4 DEF SelectedHold, ProcOf
<1> QED BY <1>4, <1>5, <1>6, <1>7, <1>8 DEF Sound

(* Two nodes of a fresh pair: the one of the window is alone in its chain, *)
(* the other goes in front of those of the process.                        *)
LEMMA AddResources ==
  ASSUME MasksTypeOK, Sound, NEW c \in MaskClients, NEW w \in MaskWindows,
         w \notin anchored, call[c].pc = "idle", NEW p \in Pairs, p \notin Made,
         NEW l, l = AddResource(c, Em2(p), AddResource(w, Em1(p), links)),
         NEW first, first = IF c \in anchored THEN links.next[Anchor(c)] ELSE NULL
  PROVE  /\ l \in LinksType
         /\ l.next[Anchor(w)] = Em1(p) /\ l.next[Em1(p)] = NULL
         /\ l.next[Anchor(c)] = Em2(p) /\ l.next[Em2(p)] = first
         /\ l.prev[Em1(p)] = Anchor(w) /\ l.prev[Em2(p)] = Anchor(c)
         /\ first # NULL => l.prev[first] = Em2(p) /\ first \in Chain(c)
         /\ \A n \in MaskNodes \ {Em1(p), Em2(p)} :
              /\ n \notin {Anchor(w), Anchor(c)} => l.next[n] = links.next[n]
              /\ n # first => l.prev[n] = links.prev[n]
<1>1. /\ Em1(p) \in ChainNodes /\ Em2(p) \in ChainNodes /\ ChainNodes \subseteq MaskNodes
      /\ Em1(p) # Em2(p) /\ Anchor(w) \in MaskNodes /\ Anchor(c) \in MaskNodes
      /\ Anchor(w) # Anchor(c) /\ Anchor(w) \notin ChainNodes /\ Anchor(c) \notin ChainNodes
  BY NodeKinds, OwnersDiffer
<1>2. first \in ChainNodes \cup {NULL} /\ (first # NULL => first \in Chain(c))
  BY NextInChain, ChainsAreReached
<1>3. first # Em1(p) /\ first # Em2(p)
  <2>1. \A n \in Chain(c) : PairOf(n) \in Made
    BY ChainsHaveOwn DEF Sound
  <2> QED BY <1>2, <2>1, NodeKinds
<1>4. /\ links.next \in [MaskNodes -> ChainNodes \cup {NULL}]
      /\ links.prev \in [MaskNodes -> MaskNodes \cup {NULL}]
  BY LinksTyped DEF LinksType
<1> DEFINE k == AddResource(w, Em1(p), links)
<1>5. /\ k.next = [links.next EXCEPT ![Em1(p)] = NULL, ![Anchor(w)] = Em1(p)]
      /\ k.prev = [links.prev EXCEPT ![Em1(p)] = Anchor(w)]
  BY DEF AddResource
<1>6. /\ k.next \in [MaskNodes -> ChainNodes \cup {NULL}]
      /\ k.prev \in [MaskNodes -> MaskNodes \cup {NULL}]
      /\ k.next[Anchor(w)] = Em1(p) /\ k.next[Em1(p)] = NULL /\ k.prev[Em1(p)] = Anchor(w)
      /\ \A n \in MaskNodes \ {Em1(p)} :
           /\ n # Anchor(w) => k.next[n] = links.next[n]
           /\ k.prev[n] = links.prev[n]
  BY <1>1, <1>4, <1>5
<1> HIDE DEF k
<1>7. first = IF c \in anchored THEN k.next[Anchor(c)] ELSE NULL
  BY <1>1, <1>6
<1>8. l = [next |-> [k.next EXCEPT ![Em2(p)] = first, ![Anchor(c)] = Em2(p)],
           prev |-> IF first = NULL THEN [k.prev EXCEPT ![Em2(p)] = Anchor(c)]
                    ELSE [[k.prev EXCEPT ![Em2(p)] = Anchor(c)] EXCEPT ![first] = Em2(p)]]
  BY <1>7 DEF AddResource, k
<1>9. /\ l.next \in [MaskNodes -> ChainNodes \cup {NULL}]
      /\ l.next[Anchor(c)] = Em2(p) /\ l.next[Em2(p)] = first
      /\ \A n \in MaskNodes \ {Em2(p)} : n # Anchor(c) => l.next[n] = k.next[n]
  BY <1>1, <1>2, <1>6, <1>8
<1>10. /\ l.prev \in [MaskNodes -> MaskNodes \cup {NULL}]
       /\ l.prev[Em2(p)] = Anchor(c)
       /\ first # NULL => l.prev[first] = Em2(p)
       /\ \A n \in MaskNodes \ {Em2(p)} : n # first => l.prev[n] = k.prev[n]
  <2>1. CASE first = NULL
    <3>1. l.prev = [k.prev EXCEPT ![Em2(p)] = Anchor(c)]
      BY <1>8, <2>1
    <3> QED BY <1>1, <1>6, <2>1, <3>1
  <2>2. CASE first # NULL
    <3>1. l.prev = [[k.prev EXCEPT ![Em2(p)] = Anchor(c)] EXCEPT ![first] = Em2(p)]
      BY <1>8, <2>2
    <3> QED BY <1>1, <1>2, <1>3, <1>6, <2>2, <3>1
  <2> QED BY <2>1, <2>2
<1>11. l \in LinksType
  <2>1. l = [next |-> l.next, prev |-> l.prev]
    BY <1>8
  <2> QED BY <1>9, <1>10, <2>1 DEF LinksType
<1>12. \A n \in MaskNodes \ {Em1(p), Em2(p)} :
         /\ n \notin {Anchor(w), Anchor(c)} => l.next[n] = links.next[n]
         /\ n # first => l.prev[n] = links.prev[n]
  BY <1>6, <1>9, <1>10
<1>13. /\ l.next[Anchor(w)] = Em1(p) /\ l.next[Em1(p)] = NULL
       /\ l.prev[Em1(p)] = Anchor(w)
  BY <1>1, <1>3, <1>6, <1>9, <1>10
<1> QED BY <1>2, <1>9, <1>10, <1>11, <1>12, <1>13

(* um_createWindow for a client that selects events on the new window.     *)
LEMMA CreateWithMaskKeeps ==
  ASSUME MasksTypeOK, Sound, NEW c \in MaskClients, NEW w \in MaskWindows, NEW mask \in SUBSET EventBits,
         c \in open, call[c].pc = "idle", wlife[w] = "none",
         wlife' = [wlife EXCEPT ![w] = "live"],
         NEW p, p = NextPair, Fresh # {},
         em' = [em EXCEPT ![p] = [win |-> w, proc |-> c, mask |-> mask]],
         links' = AddResource(c, Em2(p), AddResource(w, Em1(p), links)),
         anchored' = anchored \cup {w, c},
         wmask' = [wmask EXCEPT ![w] = mask],
         selected' = [selected EXCEPT ![w][c] = mask],
         UNCHANGED <<open, freed, call, crossed>>
  PROVE  Sound'
<1>1. NodesHold /\ CallersHold
  BY DEF Sound
<1>2. p \in Pairs /\ p \notin Made /\ p \in Fresh
  BY NextPairIsFresh
<1>3. w \notin anchored /\ Chain(w) = {}
  BY ChainsAreReached DEF Sound, LivesHold
<1>4. PICK first : first = IF c \in anchored THEN links.next[Anchor(c)] ELSE NULL
  OBVIOUS
<1>5. PICK n1 : n1 = Em1(p)
  OBVIOUS
<1>6. PICK n2 : n2 = Em2(p)
  OBVIOUS
<1>7. /\ n1 \in ChainNodes /\ n2 \in ChainNodes /\ n1 # n2 /\ n1 # NULL /\ n2 # NULL
      /\ PairOf(n1) = p /\ PairOf(n2) = p /\ n1[1] = "em1" /\ n2[1] = "em2"
      /\ ChainNodes \subseteq MaskNodes /\ Anchor(w) # Anchor(c)
      /\ \A y \in Owners : Anchor(y) \in MaskNodes
      /\ \A y : Anchor(y) \notin ChainNodes
      /\ w \in Owners /\ c \in Owners /\ w # c
  BY <1>2, <1>5, <1>6, NodeKinds, OwnersDiffer
<1>8. /\ links' \in LinksType
      /\ links'.next[Anchor(w)] = n1 /\ links'.next[n1] = NULL
      /\ links'.next[Anchor(c)] = n2 /\ links'.next[n2] = first
      /\ links'.prev[n1] = Anchor(w) /\ links'.prev[n2] = Anchor(c)
      /\ first # NULL => links'.prev[first] = n2 /\ first \in Chain(c)
      /\ \A n \in MaskNodes \ {n1, n2} :
           /\ n \notin {Anchor(w), Anchor(c)} => links'.next[n] = links.next[n]
           /\ n # first => links'.prev[n] = links.prev[n]
  <2>1. PICK l : l = links'
    OBVIOUS
  <2>2. l = AddResource(c, Em2(p), AddResource(w, Em1(p), links))
    BY <2>1
  <2>3. /\ l \in LinksType
        /\ l.next[Anchor(w)] = Em1(p) /\ l.next[Em1(p)] = NULL
        /\ l.next[Anchor(c)] = Em2(p) /\ l.next[Em2(p)] = first
        /\ l.prev[Em1(p)] = Anchor(w) /\ l.prev[Em2(p)] = Anchor(c)
        /\ first # NULL => l.prev[first] = Em2(p) /\ first \in Chain(c)
        /\ \A n \in MaskNodes \ {Em1(p), Em2(p)} :
             /\ n \notin {Anchor(w), Anchor(c)} => l.next[n] = links.next[n]
             /\ n # first => l.prev[n] = links.prev[n]
    BY <1>2, <1>3, <1>4, <2>2, AddResources
  <2> QED BY <1>5, <1>6, <2>1, <2>3
<1>9. /\ \A n \in InChains : PairOf(n) \in Made
      /\ n1 \notin InChains /\ n2 \notin InChains
  <2>1. \A n \in InChains : PairOf(n) \in Made
    BY <1>1, ChainsHaveOwn DEF InChains
  <2> QED BY <1>2, <1>7, <2>1
<1>10. /\ \A m \in Made : em'[m] = em[m]
       /\ em'[p] = [win |-> w, proc |-> c, mask |-> mask]
       /\ em'[p].win = w /\ em'[p].proc = c /\ em'[p].mask = mask
       /\ Made' = Made \cup {p}
  <2>1. /\ \A m \in Pairs : m # p => em'[m] = em[m]
        /\ em'[p] = [win |-> w, proc |-> c, mask |-> mask]
    BY <1>2 DEF MasksTypeOK
  <2>2. em'[p] \in PairType
    BY <2>1 DEF PairType
  <2>3. em'[p] # NULL
    BY <2>2, NullAssumption
  <2>4. Made' = Made \cup {p}
    BY <1>2, <2>1, <2>3 DEF Made, Fresh
  <2> QED BY <1>2, <2>1, <2>4 DEF Made
<1>11. ASSUME NEW y, y # w, y # c
       PROVE  /\ Chain(y)' = Chain(y)
              /\ y \in anchored => \A m \in Chain(y) \cup {Anchor(y)} : links'.next[m] = links.next[m]
  <2>1. CASE y \notin anchored
    BY <1>11, <2>1 DEF Chain
  <2>2. CASE y \in anchored
    <3>1. y \in Owners /\ Chain(y) = NodesFrom(links, y) /\ Chain(y) \subseteq ChainNodes
      BY <2>2, ChainsAreReached
    <3>2. Anchor(y) # Anchor(w) /\ Anchor(y) # Anchor(c) /\ Anchor(y) \in MaskNodes \ {n1, n2}
      BY <1>7, <1>11, <3>1, NodeKinds
    <3>3. \A m \in Chain(y) : m \in MaskNodes \ {n1, n2} /\ m \notin {Anchor(w), Anchor(c)}
      BY <1>7, <1>9, <2>2, <3>1 DEF InChains
    <3>4. \A m \in Chain(y) \cup {Anchor(y)} : links'.next[m] = links.next[m]
      BY <1>8, <3>2, <3>3
    <3>5. NodesFrom(links', y) = NodesFrom(links, y)
      BY <1>8, <3>1, <3>4, LinksTyped, SameReached
    <3>6. Chain(y)' = NodesFrom(links', y)
      BY <2>2 DEF Chain
    <3> QED BY <3>1, <3>4, <3>5, <3>6
  <2> QED BY <2>1, <2>2
<1>12. \A m \in Chain(c) : m \in MaskNodes \ {n1, n2} /\ m \notin {Anchor(w), Anchor(c)}
                           /\ links'.next[m] = links.next[m] /\ c \in anchored
  <2>1. \A m \in Chain(c) : c \in anchored /\ m \in ChainNodes /\ m \in InChains
    BY <1>1, ChainsHaveOwn
  <2> QED BY <1>7, <1>8, <1>9, <2>1
<1>13. Chain(c)' = Chain(c) \cup {n2}
  <2>1. Chain(c)' = NodesFrom(links', c)
    BY DEF Chain
  <2>2. CASE c \in anchored
    <3>1. Chain(c) = NodesFrom(links, c) /\ n2 \notin Chain(c) /\ first = links.next[Anchor(c)]
      BY <1>4, <1>9, <2>2, ChainsAreReached DEF InChains
    <3> QED BY <1>7, <1>8, <1>12, <2>1, <3>1, LinksTyped, InsertedFirst
  <2>3. CASE c \notin anchored
    <3>1. Chain(c) = {} /\ first = NULL
      BY <1>4, <2>3, ChainsAreReached
    <3>2. Follows(links', c, {n2})
      BY <1>8, <3>1 DEF Follows
    <3>3. NodesFrom(links', c) \subseteq {n2}
      BY <1>7, <3>2, ReachedIsLeast
    <3>4. n2 \in NodesFrom(links', c)
      BY <1>7, <1>8, ReachedIsClosed DEF Follows
    <3> QED BY <2>1, <3>1, <3>3, <3>4
  <2> QED BY <2>2, <2>3
<1>14. Chain(w)' = {n1}
  <2>1. Chain(w)' = NodesFrom(links', w)
    BY DEF Chain
  <2>2. Follows(links', w, {n1})
    BY <1>8 DEF Follows
  <2>3. NodesFrom(links', w) \subseteq {n1}
    BY <1>7, <2>2, ReachedIsLeast
  <2>4. n1 \in NodesFrom(links', w)
    BY <1>7, <1>8, ReachedIsClosed DEF Follows
  <2> QED BY <2>1, <2>3, <2>4
<1>15. /\ \A y : Chain(y) \subseteq Chain(y)'
       /\ \A y : \A m \in Chain(y)' : m \in Chain(y) \/ (m = n1 /\ y = w) \/ (m = n2 /\ y = c)
       /\ InChains' = InChains \cup {n1, n2}
  <2>1. \A y : Chain(y) \subseteq Chain(y)'
    BY <1>3, <1>11, <1>13
  <2>2. \A y : \A m \in Chain(y)' : m \in Chain(y) \/ (m = n1 /\ y = w) \/ (m = n2 /\ y = c)
    BY <1>11, <1>13, <1>14
  <2>3. \A m \in InChains' : m \in InChains \cup {n1, n2}
    <3>1. ASSUME NEW y \in anchored', NEW m \in Chain(y)' PROVE m \in InChains \cup {n1, n2}
      BY <2>2, ChainsAreReached DEF InChains
    <3> QED BY <3>1 DEF InChains
  <2>4. \A m \in InChains : m \in InChains'
    BY <2>1 DEF InChains
  <2>5. n1 \in InChains' /\ n2 \in InChains'
    BY <1>13, <1>14 DEF InChains
  <2> QED BY <2>1, <2>2, <2>3, <2>4, <2>5
<1>16. \A y : \A m \in Chain(y) : PairOf(m) \in Made /\ ProcOf(m)' = ProcOf(m) /\ Owner(m)' = Owner(m)
  <2>1. \A y : \A m \in Chain(y) : PairOf(m) \in Made
    BY <1>1, ChainsHaveOwn
  <2> QED BY <1>10, <2>1 DEF ProcOf, Owner
<1>17. /\ ProcOf(n1)' = c /\ ProcOf(n2)' = c /\ Owner(n1)' = w /\ Owner(n2)' = c
  BY <1>7, <1>10 DEF ProcOf, Owner
<1>18. /\ wlife'[w] = "live" /\ \A v \in MaskWindows : v # w => wlife'[v] = wlife[v]
  BY DEF MasksTypeOK
<1>19. \A d \in MaskClients : InCall(d) => call[d].w # w /\ call[d].w \in MaskWindows /\ call[d].w # c
  BY <1>1, CallersAre, OwnersDiffer
<1>20. \A d \in MaskClients : Between(d) => ChainOf(d) # w /\ ChainOf(d) # c
  <2>1. ASSUME NEW d \in MaskClients, Between(d) PROVE ChainOf(d) # w /\ ChainOf(d) # c
    <3>1. InCall(d) /\ d # c
      BY <2>1 DEF Between, InCall
    <3> QED BY <1>19, <3>1, OwnersDiffer DEF ChainOf
  <2> QED BY <2>1
<1>21. first # NULL => \A d \in MaskClients : Between(d) /\ call[d].nxt # NULL => call[d].nxt # first
  <2>1. ASSUME first # NULL, NEW d \in MaskClients, Between(d), call[d].nxt # NULL PROVE call[d].nxt # first
    <3>1. call[d].nxt \in Chain(ChainOf(d)) /\ ChainOf(d) # c
      BY <1>1, <1>20, <2>1, RedirectedIsFirst
    <3>2. call[d].nxt \notin Chain(c)
      BY <1>1, <3>1, ChainsApart
    <3> QED BY <1>8, <2>1, <3>2
  <2> QED BY <2>1
<1>22. Redirected' = Redirected /\ Redirected \subseteq InChains /\ first \notin Redirected
  <2>1. Redirected' = Redirected
    BY DEF Redirected
  <2>2. \A d \in MaskClients : call[d].pc = "publish" /\ call[d].nxt # NULL => call[d].nxt \in InChains
    BY <1>1, RedirectedIsFirst DEF Between, InChains
  <2>3. first \notin Redirected
    BY <1>21 DEF Redirected, Between
  <2> QED BY <2>1, <2>2, <2>3 DEF Redirected
<1> QED
  <2>1. NodesHold'
    <3>1. ASSUME NEW y \in anchored', NEW m \in Chain(y)'
          PROVE  PairOf(m) \in Made' \ freed /\ ProcOf(m)' \in open /\ Owner(m)' = y
      <4>1. CASE m \in Chain(y)
        <5>1. y \in anchored
          BY <4>1, ChainsAreReached
        <5> QED BY <1>1, <1>10, <1>16, <4>1, <5>1 DEF NodesHold
      <4>2. CASE m \in {n1, n2} /\ m \notin Chain(y)
        <5>1. p \notin freed
          BY <1>1, <1>2 DEF NodesHold
        <5> QED BY <1>7, <1>10, <1>15, <1>17, <3>1, <4>2, <5>1
      <4> QED BY <1>15, <4>1, <4>2
    <3> QED BY <1>1, <1>10, <3>1 DEF NodesHold
  <2>2. RingsHold'
    <3>1. Ring(links', w, Redirected)
      <4>1. NodesFrom(links', w) = {n1}
        BY <1>14 DEF Chain
      <4> QED BY <1>8, <1>9, <1>22, <4>1 DEF Ring
    <3>2. Ring(links', c, Redirected)
      <4>1. NodesFrom(links', c) = Chain(c) \cup {n2}
        BY <1>13 DEF Chain
      <4>2. ASSUME NEW m \in Chain(c) \cup {n2} \cup {Anchor(c)}, links'.next[m] # NULL
            PROVE  IF links'.next[m] \in Redirected THEN m = Anchor(c) ELSE links'.prev[links'.next[m]] = m
        <5>1. CASE m = Anchor(c)
          BY <1>8, <1>9, <1>22, <5>1
        <5>2. CASE m = n2
          BY <1>8, <1>22, <4>2, <5>2
        <5>3. CASE m \in Chain(c)
          <6>1. c \in anchored /\ links'.next[m] = links.next[m] /\ m # Anchor(c)
            BY <1>12, <5>3
          <6>2. Ring(links, c, Redirected) /\ NodesFrom(links, c) = Chain(c)
            BY <6>1, ChainsAreReached DEF Sound, RingsHold
          <6>3. links.next[m] \notin Redirected /\ links.prev[links.next[m]] = m
            BY <4>2, <5>3, <6>1, <6>2 DEF Ring
          <6>4. links.next[m] # first
            <7>1. SUFFICES ASSUME links.next[m] = first PROVE FALSE
              OBVIOUS
            <7>2. first # NULL /\ first = links.next[Anchor(c)]
              BY <1>4, <4>2, <6>1, <7>1
            <7>3. links.prev[first] = Anchor(c)
              BY <1>22, <6>2, <7>2 DEF Ring
            <7> QED BY <6>1, <6>3, <7>1, <7>3
          <6>5. links.next[m] \in Chain(c)
            BY <4>2, <5>3, <6>1, NextInChain
          <6>6. links'.prev[links.next[m]] = links.prev[links.next[m]]
            BY <1>8, <1>12, <6>4, <6>5
          <6> QED BY <6>1, <6>3, <6>6
        <5> QED BY <4>2, <5>1, <5>2, <5>3
      <4> QED BY <4>1, <4>2 DEF Ring
    <3>3. ASSUME NEW y \in anchored, y # w, y # c PROVE Ring(links', y, Redirected)
      <4>1. Ring(links, y, Redirected) /\ NodesFrom(links, y) = Chain(y) /\ Chain(y) \subseteq ChainNodes
        BY ChainsAreReached DEF Sound, RingsHold
      <4>2. NodesFrom(links', y) = Chain(y)
        BY <1>11, <3>3 DEF Chain
      <4>3. ASSUME NEW m \in Chain(y) \cup {Anchor(y)}, links'.next[m] # NULL
            PROVE  IF links'.next[m] \in Redirected THEN m = Anchor(y) ELSE links'.prev[links'.next[m]] = m
        <5>1. links'.next[m] = links.next[m] /\ links.next[m] \in Chain(y)
          BY <1>11, <3>3, <4>3, NextInChain
        <5>2. links.next[m] # first
          BY <1>1, <1>8, <3>3, <4>3, <5>1, ChainsApart
        <5>3. links.next[m] \in MaskNodes \ {n1, n2}
          BY <1>7, <1>9, <4>1, <5>1 DEF InChains
        <5>4. links'.prev[links.next[m]] = links.prev[links.next[m]]
          BY <1>8, <5>2, <5>3
        <5> QED BY <4>1, <4>3, <5>1, <5>4 DEF Ring
      <4> QED BY <4>2, <4>3 DEF Ring
    <3>4. ASSUME NEW y \in anchored' PROVE Ring(links', y, Redirected')
      BY <1>22, <3>1, <3>2, <3>3
    <3> QED BY <3>4 DEF RingsHold
  <2>3. LivesHold'
    BY <1>18, OwnersDiffer DEF Sound, LivesHold
  <2>4. OneMask'
    <3>1. ASSUME NEW v \in MaskWindows, NEW m1 \in Chain(v)', NEW m2 \in Chain(v)', ProcOf(m1)' = ProcOf(m2)'
          PROVE  m1 = m2
      <4>1. CASE v = w
        BY <1>14, <3>1, <4>1
      <4>2. CASE v # w
        <5>1. Chain(v)' = Chain(v)
          BY <1>11, <4>2, OwnersDiffer
        <5> QED BY <1>16, <3>1, <5>1 DEF Sound, OneMask
      <4> QED BY <4>1, <4>2
    <3> QED BY <3>1 DEF OneMask
  <2>5. OneAtATime'
    BY DEF Sound, OneAtATime, Between, ChainOf
  <2>6. PairsHold'
    <3>1. ASSUME NEW m \in Made' \ freed, em'[m].proc \in open PROVE Unfinished(m)' \/ Complete(m)'
      <4>1. CASE m = p
        <5>1. Em1(p) \in Chain(w)' /\ Em2(p) \in Chain(c)'
          BY <1>5, <1>6, <1>13, <1>14
        <5> QED BY <1>10, <4>1, <5>1 DEF Complete
      <4>2. CASE m # p
        <5>1. m \in Made /\ em'[m] = em[m]
          BY <1>10, <3>1, <4>2
        <5>2. CASE Complete(m)
          BY <1>15, <5>1, <5>2 DEF Complete
        <5>3. CASE Unfinished(m)
          BY <5>3 DEF Unfinished, Enters
        <5> QED BY <3>1, <5>1, <5>2, <5>3 DEF Sound, PairsHold
      <4> QED BY <4>1, <4>2
    <3> QED BY <3>1 DEF PairsHold
  <2>7. SelectedHold'
    <3>1. /\ \A v \in MaskWindows : v # w => wmask'[v] = wmask[v] /\ selected'[v] = selected[v]
          /\ wmask'[w] = mask /\ selected'[w][c] = mask
          /\ \A d \in MaskClients \ {c} : selected'[w][d] = {}
      <4>1. \A d \in MaskClients : selected[w][d] = {}
        BY DEF Sound, SelectedHold
      <4> QED BY <4>1 DEF MasksTypeOK
    <3>2. ASSUME NEW v \in MaskWindows, NEW d \in MaskClients, wlife'[v] = "none" PROVE selected'[v][d] = {}
      BY <1>18, <3>1, <3>2 DEF Sound, SelectedHold
    <3>3. ASSUME NEW v \in MaskWindows, NEW d \in open, wlife'[v] = "live"
          PROVE  /\ selected'[v][d] \subseteq wmask'[v]
                 /\ call[d].w # v \/ call[d].pc \in {"idle", "check", "find"} =>
                      /\ \A m \in Chain(v)' : ProcOf(m)' = d => em'[PairOf(m)].mask = selected'[v][d]
                      /\ (\A m \in Chain(v)' : ProcOf(m)' # d) => selected'[v][d] = {}
      <4>0. d \in MaskClients
        BY DEF MasksTypeOK
      <4>1. CASE v = w
        BY <1>7, <1>10, <1>14, <1>17, <3>1, <4>0, <4>1
      <4>2. CASE v # w
        <5>1. Chain(v)' = Chain(v) /\ wlife[v] = "live"
          BY <1>11, <1>18, <3>3, <4>2, OwnersDiffer
        <5>2. /\ selected[v][d] \subseteq wmask[v]
              /\ call[d].w # v \/ call[d].pc \in {"idle", "check", "find"} =>
                   /\ \A m \in Chain(v) : ProcOf(m) = d => em[PairOf(m)].mask = selected[v][d]
                   /\ (\A m \in Chain(v) : ProcOf(m) # d) => selected[v][d] = {}
          BY <5>1 DEF Sound, SelectedHold
        <5>3. \A m \in Chain(v) : ProcOf(m)' = ProcOf(m) /\ em'[PairOf(m)] = em[PairOf(m)]
          BY <1>10, <1>16
        <5> QED BY <3>1, <4>2, <5>1, <5>2, <5>3
      <4> QED BY <4>1, <4>2
    <3> QED BY <3>2, <3>3 DEF SelectedHold
  <2>8. KeyPressHold'
    <3>1. ASSUME NEW v \in MaskWindows \ crossed PROVE Alone(v)'
      <4>1. Alone(v)
        BY <3>1 DEF Sound, KeyPressHold
      <4>2. CASE v = w
        <5>1. \A d \in MaskClients : ~(InCall(d)' /\ call'[d].w = v)
          BY <1>19, <4>2 DEF InCall
        <5>2. \A m \in Receivers(v, KeyPressMask)' : m = n1
          BY <1>14, <4>2 DEF Receivers
        <5> QED BY <5>1, <5>2 DEF Alone
      <4>3. CASE v # w
        <5>1. Chain(v)' = Chain(v)
          BY <1>11, <4>3, OwnersDiffer
        <5>2. \A m \in Chain(v) : em'[PairOf(m)] = em[PairOf(m)]
          BY <1>10, <1>16
        <5>3. Receivers(v, KeyPressMask)' = Receivers(v, KeyPressMask)
          BY <5>1, <5>2 DEF Receivers
        <5>4. \A m \in Receivers(v, KeyPressMask) : ProcOf(m)' = ProcOf(m)
          BY <1>16 DEF Receivers
        <5>5. ASSUME NEW d \in MaskClients, InCall(d), call[d].w = v,
                     KeyPressMask \in call[d].mask, call[d].pc # "check",
                     NEW m \in Receivers(v, KeyPressMask)
              PROVE  ProcOf(m)' = d
          BY <4>1, <5>4, <5>5 DEF Alone
        <5>6. \A d, e \in MaskClients : InCall(d) /\ InCall(e) /\ call[d].w = v /\ call[e].w = v => d = e
          BY <4>1 DEF Alone
        <5> QED BY <4>1, <5>3, <5>5, <5>6 DEF Alone, InCall
      <4> QED BY <4>2, <4>3
    <3> QED BY <3>1 DEF KeyPressHold
  <2>9. CallersHold'
    <3>1. ASSUME NEW d \in MaskClients
          PROVE  LookHolds(d)' /\ CallHolds(d)' /\ AddHolds(d)' /\ BetweenHolds(d)' /\ DeadHolds(d)'
      <4>1. LookHolds(d) /\ CallHolds(d) /\ AddHolds(d) /\ BetweenHolds(d) /\ DeadHolds(d)
        BY <1>1 DEF CallersHold
      <4>2. PICK v : v = call[d].w
        OBVIOUS
      <4>3. InCall(d) => v \in MaskWindows /\ v # w /\ v # c /\ Chain(v)' = Chain(v)
                         /\ wlife'[v] = "live"
        <5>1. InCall(d) => wlife[v] = "live"
          BY <4>1, <4>2 DEF CallHolds
        <5> QED BY <1>11, <1>18, <1>19, <4>2, <5>1
      <4>4. LookHolds(d)'
        <5>1. SUFFICES ASSUME call[d].pc \in {"check", "find"} PROVE LookHolds(d)'
          BY DEF LookHolds
        <5>2. InCall(d)
          BY <5>1 DEF InCall
        <5>3. PICK met \in SUBSET ChainNodes : Met(d, met)
          BY <4>1, <5>1 DEF LookHolds
        <5>4. /\ met \subseteq Chain(v) /\ Stands(d, met)
              /\ call[d].pc = "find" => \A m \in met : ProcOf(m) # d
              /\ call[d].pc = "check" /\ v \notin crossed =>
                   \A m \in met : KeyPressMask \in em[PairOf(m)].mask => ProcOf(m) = d
          BY <4>2, <5>3 DEF Met
        <5>5. \A cur : v \in anchored /\ UpTo(links, v, met, cur) => UpTo(links', v, met, cur)
          <6>1. v \in anchored => \A m \in Chain(v) \cup {Anchor(v)} : links'.next[m] = links.next[m]
            BY <1>11, <4>3, <5>2
          <6> QED BY <5>4, <6>1 DEF UpTo
        <5>6. Stands(d, met)'
          BY <4>2, <4>3, <5>2, <5>4, <5>5 DEF Stands
        <5>7. \A m \in met : ProcOf(m)' = ProcOf(m) /\ em'[PairOf(m)] = em[PairOf(m)]
          BY <1>10, <1>16, <5>4
        <5>8. Met(d, met)'
          BY <4>2, <4>3, <5>2, <5>4, <5>6, <5>7 DEF Met
        <5> QED BY <4>1, <5>1, <5>8 DEF LookHolds
      <4>5. CallHolds(d)'
        <5>1. /\ call[d].pc # "idle" => d \in open
              /\ call[d].pc = "or" => \E n \in Chain(v) : ProcOf(n) = d /\ em[PairOf(n)].mask = call[d].mask
              /\ call[d].pc \in {"idle", "check", "find"} => call[d].new = NULL
              /\ call[d].pc = "or" => call[d].new = NULL \/ call[d].new[1] = "em2"
          BY <4>1, <4>2 DEF CallHolds
        <5>2. call[d].pc = "or" => \E n \in Chain(v)' : ProcOf(n)' = d /\ em'[PairOf(n)].mask = call[d].mask
          BY <1>10, <1>15, <1>16, <5>1
        <5> QED BY <4>2, <4>3, <5>1, <5>2 DEF CallHolds, InCall
      <4>6. AddHolds(d)'
        <5>1. SUFFICES ASSUME Enters(d) PROVE AddHolds(d)'
          BY DEF AddHolds, Enters
        <5>2. InCall(d)
          BY <5>1 DEF Enters, InCall
        <5>3. /\ call[d].new \in ChainNodes /\ PairOf(call[d].new) \in Made \ freed
              /\ em[PairOf(call[d].new)] = [win |-> v, proc |-> d, mask |-> call[d].mask]
              /\ call[d].new \notin InChains
              /\ call[d].new[1] = "em1" =>
                   Em2(PairOf(call[d].new)) \notin InChains /\ \A n \in Chain(v) : ProcOf(n) # d
              /\ call[d].new[1] = "em2" => Em1(PairOf(call[d].new)) \in Chain(v)
          BY <4>1, <4>2, <5>1 DEF AddHolds
        <5>4. PairOf(call[d].new) # p /\ PairOf(call[d].new) \in Pairs
          BY <1>2, <5>3 DEF Made
        <5>5. PairOf(Em2(PairOf(call[d].new))) # p
          BY <5>4, NodeKinds
        <5>6. /\ call[d].new \notin InChains'
              /\ Em2(PairOf(call[d].new)) \notin InChains => Em2(PairOf(call[d].new)) \notin InChains'
          BY <1>7, <1>15, <5>3, <5>4, <5>5
        <5>7. \A n \in Chain(v)' : ProcOf(n)' = ProcOf(n)
          BY <1>16, <4>3, <5>2
        <5> QED BY <1>10, <4>2, <4>3, <5>2, <5>3, <5>6, <5>7 DEF AddHolds
      <4>7. BetweenHolds(d)'
        <5>1. SUFFICES ASSUME Between(d) PROVE BetweenHolds(d)'
          BY DEF BetweenHolds, Between
        <5>2. PICK y : y = ChainOf(d)
          OBVIOUS
        <5>3. y # w /\ y # c /\ y \in anchored /\ ChainOf(d)' = y
          BY <1>20, <4>1, <5>1, <5>2 DEF BetweenHolds, ChainOf
        <5>4. links'.next[Anchor(y)] = links.next[Anchor(y)]
          BY <1>11, <5>3
        <5>5. call[d].new \in MaskNodes \ {n1, n2} /\ call[d].new \notin {Anchor(w), Anchor(c)}
              /\ call[d].new # first
          <6>1. /\ call[d].new \in ChainNodes /\ PairOf(call[d].new) \in Made
                /\ call[d].new \notin InChains
            BY <4>1, <5>1 DEF AddHolds, Enters, Between
          <6>2. first # NULL => first \in InChains
            BY <1>8, <1>12 DEF InChains
          <6> QED BY <1>2, <1>7, <6>1, <6>2, NodeKinds
        <5>6. call[d].nxt # NULL => links'.prev[call[d].nxt] = links.prev[call[d].nxt]
          <6>1. SUFFICES ASSUME call[d].nxt # NULL PROVE links'.prev[call[d].nxt] = links.prev[call[d].nxt]
            OBVIOUS
          <6>2. call[d].nxt \in Chain(y)
            BY <1>1, <5>1, <5>2, <6>1, RedirectedIsFirst
          <6>3. call[d].nxt \in MaskNodes \ {n1, n2}
            BY <1>7, <1>9, <5>3, <6>2, ChainsAreReached DEF InChains
          <6>4. call[d].nxt # first
            BY <1>21, <5>1, <6>1
          <6> QED BY <1>8, <6>3, <6>4
        <5> QED BY <1>8, <4>1, <5>1, <5>2, <5>3, <5>4, <5>5, <5>6 DEF BetweenHolds
      <4>8. DeadHolds(d)'
        <5>1. SUFFICES ASSUME call[d].pc = "dead", call[d].new # NULL, call[d].new[1] = "em1"
                       PROVE  DeadHolds(d)'
          BY DEF DeadHolds
        <5>2. /\ call[d].new \in ChainNodes /\ PairOf(call[d].new) \in Made
              /\ em[PairOf(call[d].new)].proc = d
              /\ call[d].new \notin InChains /\ Em2(PairOf(call[d].new)) \notin InChains
          BY <4>1, <5>1 DEF DeadHolds
        <5>3. PairOf(call[d].new) # p /\ PairOf(Em2(PairOf(call[d].new))) # p
          BY <1>2, <5>2, NodeKinds DEF Made
        <5>4. call[d].new \notin InChains' /\ Em2(PairOf(call[d].new)) \notin InChains'
          BY <1>7, <1>15, <5>2, <5>3
        <5> QED BY <1>10, <5>2, <5>4 DEF DeadHolds
      <4> QED BY <4>4, <4>5, <4>6, <4>7, <4>8
    <3> QED BY <3>1 DEF CallersHold
  <2> QED BY <2>1, <2>2, <2>3, <2>4, <2>5, <2>6, <2>7, <2>8, <2>9 DEF Sound

(* A window is created, with a chain or without one.                       *)
LEMMA CreateWindowKeeps ==
  ASSUME MasksTypeOK, Sound, NEW c \in MaskClients, NEW w \in MaskWindows,
         NEW mask \in Asked[w] \cup {{}}, CreateWindow(c, w, mask)
  PROVE  Sound'
<1>1. /\ c \in open /\ call[c].pc = "idle" /\ wlife[w] = "none"
      /\ wlife' = [wlife EXCEPT ![w] = "live"]
      /\ UNCHANGED <<open, freed, call, crossed>>
  BY DEF CreateWindow
<1>2. mask \in SUBSET EventBits
  BY MaskAssumption
<1>3. CASE UNCHANGED <<wmask, anchored, links, em, selected>>
  BY <1>1, <1>3, CreateBareKeeps
<1>4. CASE ~UNCHANGED <<wmask, anchored, links, em, selected>>
  <2>1. PICK p : p = NextPair
    OBVIOUS
  <2>2. /\ Fresh # {}
        /\ em' = [em EXCEPT ![p] = [win |-> w, proc |-> c, mask |-> mask]]
        /\ links' = AddResource(c, Em2(p), AddResource(w, Em1(p), links))
        /\ anchored' = anchored \cup {w, c}
        /\ wmask' = [wmask EXCEPT ![w] = mask]
        /\ selected' = [selected EXCEPT ![w][c] = mask]
    BY <1>4, <2>1 DEF CreateWindow
  <2> QED BY <1>1, <1>2, <2>1, <2>2, CreateWithMaskKeeps
<1> QED BY <1>3, <1>4
-----------------------------------------------------------------------------
(* What Daemon_freeEventMask does, if it frees nothing that a client in    *)
(* the middle of a call uses: of every pair that it meets both nodes leave *)
(* their chains, and no other node does.                                   *)
PairsMet(G) == {PairOf(n) : n \in UNION {Chain(x) : x \in G}}
NodesOf(P) == {n \in ChainNodes : PairOf(n) \in P}

Leaving(gone, procs) ==
  /\ gone \in SUBSET MaskWindows /\ procs \in SUBSET open
  /\ \A c \in procs : call[c].pc \in {"idle", "dead"}
HurtsNobody(gone, procs, pairs) ==
  /\ pairs = PairsMet(gone \cup procs)
  /\ \A d \in MaskClients \ procs : ~Hurts(d, gone, pairs)

(* What is met in the chains that go: all pairs of the windows and         *)
(* processes that go, and none that a client is adding.                    *)
LEMMA PairsAreMet ==
  ASSUME MasksTypeOK, Sound, NEW gone, NEW procs, Leaving(gone, procs),
         NEW pairs, HurtsNobody(gone, procs, pairs)
  PROVE  /\ pairs \subseteq Made
         /\ \A x \in gone \cup procs : \A n \in Chain(x) : PairOf(n) \in pairs
         /\ \A n \in InChains : ProcOf(n) \in procs => PairOf(n) \in pairs
         /\ \A w \in MaskWindows \ gone : \A n \in Chain(w) : PairOf(n) \in pairs => ProcOf(n) \in procs
         /\ \A d \in MaskClients : Enters(d) => d \notin procs /\ PairOf(call[d].new) \notin pairs
         /\ NodesOf(pairs) \subseteq InChains
         /\ NodesOf(pairs) \cap Redirected = {}
<1>1. NodesHold /\ CallersHold /\ procs \subseteq MaskClients /\ gone \subseteq MaskWindows
      /\ procs \subseteq open
  BY DEF Sound, MasksTypeOK, Leaving
<1> /\ pairs = PairsMet(gone \cup procs)
    /\ \A d \in MaskClients \ procs : ~Hurts(d, gone, pairs)
    /\ \A c \in procs : call[c].pc \in {"idle", "dead"}
  BY DEF HurtsNobody, Leaving
<1>2. \A x \in gone \cup procs : \A n \in Chain(x) : PairOf(n) \in pairs
  BY DEF PairsMet
<1>3. ASSUME NEW m \in pairs
      PROVE  \E x \in gone \cup procs : \E n \in Chain(x) : PairOf(n) = m
  BY DEF PairsMet
<1>4. pairs \subseteq Made
  <2>1. ASSUME NEW m \in pairs PROVE m \in Made
    <3>1. PICK x \in gone \cup procs : \E n \in Chain(x) : PairOf(n) = m
      BY <1>3
    <3>2. \A n \in Chain(x) : PairOf(n) \in Made
      BY <1>1, ChainsHaveOwn
    <3> QED BY <3>1, <3>2
  <2> QED BY <2>1
<1>5. ASSUME NEW d \in MaskClients, Enters(d)
      PROVE  d \notin procs /\ PairOf(call[d].new) \notin pairs
  <2>1. d \notin procs /\ InCall(d)
    BY <1>5 DEF Enters, InCall
  <2>2. ASSUME PairOf(call[d].new) \in pairs PROVE FALSE
    <3>0. PICK x \in gone \cup procs : \E n \in Chain(x) : PairOf(n) = PairOf(call[d].new)
      BY <1>3, <2>2
    <3>1. PICK n \in Chain(x) : PairOf(n) = PairOf(call[d].new)
      BY <3>0
    <3>2. PICK m \in Pairs : m = PairOf(n)
      BY <1>1, ChainsHaveOwn DEF Made
    <3>3. n \in InChains /\ n \in {Em1(m), Em2(m)}
      BY <1>1, <3>2, ChainsHaveOwn, NodeKinds
    <3>4. /\ call[d].new \notin InChains /\ call[d].new \in ChainNodes
          /\ call[d].new[1] = "em1" => Em2(m) \notin InChains
          /\ call[d].new[1] = "em2" => Em1(m) \in Chain(call[d].w)
      BY <1>1, <1>5, <3>1, <3>2 DEF CallersHold, AddHolds
    <3>5. call[d].new[1] # "em1" => call[d].new = Em2(m) /\ call[d].new[1] = "em2"
      BY <3>1, <3>2, <3>4, NodeKinds
    <3>6. call[d].new[1] = "em1" => call[d].new = Em1(m)
      BY <3>1, <3>2, <3>4, NodeKinds
    <3>7. n = Em1(m) /\ Em1(m) \in Chain(call[d].w)
      BY <3>3, <3>4, <3>5, <3>6
    <3>8. x = call[d].w
      BY <1>1, <3>7, ChainsApart
    <3>9. call[d].w \in gone
      BY <1>1, <2>1, <3>8, CallersAre, OwnersDiffer
    <3> QED BY <2>1, <3>9 DEF Hurts
  <2> QED BY <2>1, <2>2
<1>6. ASSUME NEW n \in InChains
      PROVE  \/ Complete(PairOf(n))
             \/ \E d \in MaskClients : Enters(d) /\ PairOf(n) = PairOf(call[d].new) /\ d = ProcOf(n)
  <2>1. PICK m \in Made : m = PairOf(n) /\ m \notin freed /\ em[m].proc \in open /\ n \in {Em1(m), Em2(m)}
    BY <1>1, ChainsHaveOwn, NodeKinds DEF InChains, ProcOf
  <2>2. Complete(m) \/ Unfinished(m)
    BY <2>1 DEF Sound, PairsHold
  <2>3. ASSUME Unfinished(m)
        PROVE  \E d \in MaskClients : Enters(d) /\ PairOf(n) = PairOf(call[d].new) /\ d = ProcOf(n)
    <3>1. PICK d \in MaskClients : \/ Enters(d) /\ call[d].new \in {Em1(m), Em2(m)}
                                   \/ call[d].pc = "dead" /\ call[d].new = Em1(m)
      BY <2>3 DEF Unfinished
    <3>2. m \in Pairs /\ PairOf(Em1(m)) = m /\ PairOf(Em2(m)) = m /\ Em1(m) # NULL /\ Em1(m)[1] = "em1"
      BY NodeKinds DEF Made
    <3>3. CASE Enters(d) /\ call[d].new \in {Em1(m), Em2(m)}
      <4>1. em[m] = [win |-> call[d].w, proc |-> d, mask |-> call[d].mask]
        BY <1>1, <3>2, <3>3 DEF CallersHold, AddHolds
      <4>2. em[m].proc = d
        BY <4>1
      <4> QED BY <2>1, <3>2, <3>3, <4>2 DEF ProcOf
    <3>4. CASE call[d].pc = "dead" /\ call[d].new = Em1(m)
      <4>1. Em1(m) \notin InChains /\ Em2(m) \notin InChains
        BY <1>1, <3>2, <3>4 DEF CallersHold, DeadHolds
      <4> QED BY <2>1, <4>1
    <3> QED BY <3>1, <3>3, <3>4
  <2> QED BY <2>1, <2>2, <2>3
<1>7. ASSUME NEW n \in InChains, ProcOf(n) \in procs PROVE PairOf(n) \in pairs
  <2>1. Complete(PairOf(n))
    BY <1>5, <1>6, <1>7
  <2>2. Em2(PairOf(n)) \in Chain(ProcOf(n))
    BY <2>1 DEF Complete, ProcOf
  <2>3. PairOf(Em2(PairOf(n))) = PairOf(n)
    BY <1>1, ChainsHaveOwn, NodeKinds DEF InChains, Made
  <2> QED BY <1>2, <1>7, <2>2, <2>3
<1>8. ASSUME NEW w \in MaskWindows \ gone, NEW n \in Chain(w), PairOf(n) \in pairs
      PROVE  ProcOf(n) \in procs
  <2>0. PICK x \in gone \cup procs : \E k \in Chain(x) : PairOf(k) = PairOf(n)
    BY <1>3, <1>8
  <2>1. PICK k \in Chain(x) : PairOf(k) = PairOf(n)
    BY <2>0
  <2>2. n = Em1(PairOf(n))
    BY <1>1, ChainsHaveOwn
  <2>3. x \in gone => k = Em1(PairOf(k))
    BY <1>1, ChainsHaveOwn
  <2>4. x \notin gone
    BY <1>1, <2>1, <2>2, <2>3, ChainsApart
  <2>5. x \in MaskClients /\ ProcOf(k) = x
    BY <1>1, <2>1, <2>4, ChainsHaveOwn
  <2> QED BY <2>1, <2>4, <2>5 DEF ProcOf
<1>9. ASSUME NEW n \in NodesOf(pairs) PROVE n \in InChains
  <2>1. PICK m \in pairs : m = PairOf(n) /\ n \in {Em1(m), Em2(m)}
    BY NodeKinds DEF NodesOf
  <2>0. PICK x \in gone \cup procs : \E k \in Chain(x) : PairOf(k) = m
    BY <1>3
  <2>2. PICK k \in Chain(x) : PairOf(k) = m
    BY <2>0
  <2>3. k \in InChains
    BY <1>1, ChainsHaveOwn
  <2>4. Complete(m)
    BY <1>5, <1>6, <2>2, <2>3
  <2>5. Em1(m) \in InChains /\ Em2(m) \in InChains
    BY <1>1, <2>4, ChainsHaveOwn DEF Complete
  <2> QED BY <2>1, <2>5
<1>10. ASSUME NEW n \in NodesOf(pairs), n \in Redirected PROVE FALSE
  <2>1. PICK d \in MaskClients : call[d].pc = "publish" /\ call[d].nxt = n /\ n # NULL
    BY <1>10 DEF Redirected
  <2>2. d \notin procs /\ InCall(d) /\ Between(d)
    BY <2>1 DEF InCall, Between
  <2> QED BY <2>1, <2>2 DEF Hurts, NodesOf
<1> QED BY <1>2, <1>4, <1>5, <1>7, <1>8, <1>9, <1>10

(* Daemon_freeEventMask unchains both nodes of all that is met.            *)
LEMMA FreedFromChains ==
  ASSUME MasksTypeOK, Sound, NEW gone, NEW procs, Leaving(gone, procs),
         FreeMasks(gone, procs), ~harm', NEW pairs, pairs = PairsMet(gone \cup procs)
  PROVE  /\ HurtsNobody(gone, procs, pairs)
         /\ freed' = freed \cup pairs /\ anchored' = anchored \ (gone \cup procs)
         /\ \A w \in MaskWindows : wlife'[w] = IF w \in gone THEN "gone" ELSE wlife[w]
         /\ \A w \in MaskWindows, d \in MaskClients :
              selected'[w][d] = IF w \in gone \/ d \in procs THEN {} ELSE selected[w][d]
         /\ Without(links, links', anchored, Redirected, NodesOf(pairs))
<1> DEFINE met == UNION {Chain(x) : x \in gone \cup procs}
<1>1. pairs = {PairOf(n) : n \in met}
  BY DEF PairsMet
<1>2. /\ links' = FreeEventMask(met, links)
      /\ freed' = freed \cup pairs
      /\ anchored' = anchored \ (gone \cup procs)
      /\ wlife' = [w \in MaskWindows |-> IF w \in gone THEN "gone" ELSE wlife[w]]
      /\ harm' = \E d \in MaskClients \ procs : Hurts(d, gone, pairs)
      /\ selected' = [w \in MaskWindows |-> [c \in MaskClients |->
                        IF w \in gone \/ c \in procs THEN {} ELSE selected[w][c]]]
  BY <1>1 DEF FreeMasks
<1>3. HurtsNobody(gone, procs, pairs)
  BY <1>2 DEF HurtsNobody
<1>4. /\ NodesOf(pairs) \subseteq InChains /\ NodesOf(pairs) \cap Redirected = {}
      /\ pairs \subseteq Made
  <2> HIDE DEF met
  <2>1. pairs \subseteq Made
    BY <1>3, PairsAreMet
  <2>2. NodesOf(pairs) \subseteq InChains
    BY <1>3, PairsAreMet
  <2>3. NodesOf(pairs) \cap Redirected = {}
    BY <1>3, PairsAreMet
  <2> QED BY <2>1, <2>2, <2>3
<1>5. UNION {{Em1(PairOf(n)), Em2(PairOf(n))} : n \in met} = NodesOf(pairs)
  <2>1. ASSUME NEW n \in met PROVE Em1(PairOf(n)) \in NodesOf(pairs) /\ Em2(PairOf(n)) \in NodesOf(pairs)
    <3>1. PairOf(n) \in pairs /\ PairOf(n) \in Pairs
      BY <1>1, <1>4 DEF Made
    <3> QED BY <3>1, NodeKinds DEF NodesOf
  <2>2. ASSUME NEW k \in NodesOf(pairs) PROVE \E n \in met : k \in {Em1(PairOf(n)), Em2(PairOf(n))}
    <3>1. k \in ChainNodes /\ PairOf(k) \in pairs /\ k \in {Em1(PairOf(k)), Em2(PairOf(k))}
      BY NodeKinds DEF NodesOf
    <3>2. PICK n \in met : PairOf(n) = PairOf(k)
      BY <1>1, <3>1
    <3> QED BY <3>1, <3>2
  <2> DEFINE both(n) == {Em1(PairOf(n)), Em2(PairOf(n))}
  <2> HIDE DEF met
  <2>4. ASSUME NEW n \in met, NEW k \in both(n) PROVE k \in NodesOf(pairs)
    BY <2>1
  <2>5. \A k \in NodesOf(pairs) : \E n \in met : k \in both(n)
    BY <2>2
  <2> HIDE DEF both
  <2>6. UNION {both(n) : n \in met} = NodesOf(pairs)
    BY <2>4, <2>5
  <2> QED BY <2>6 DEF both
<1>6. links' = FoldSet(UnChainResource, links, NodesOf(pairs))
  BY <1>2, <1>5 DEF FreeEventMask
<1>7. Without(links, links', anchored, Redirected, NodesOf(pairs))
  <2>1. /\ links \in LinksType /\ anchored \in SUBSET Owners /\ Redirected \in SUBSET ChainNodes
        /\ Apart(links, anchored) /\ \A x \in anchored : Ring(links, x, Redirected)
    BY LinksTyped, ChainsAreReached, ChainsApart DEF Sound, RingsHold
  <2>2. \A n \in NodesOf(pairs) : n \notin Redirected /\ \E x \in anchored : n \in NodesFrom(links, x)
    BY <1>4, ChainsAreReached DEF InChains
  <2>3. Without(links, FoldSet(UnChainResource, links, NodesOf(pairs)), anchored, Redirected, NodesOf(pairs))
    BY <2>1, <2>2, AllUnChained
  <2> QED BY <1>6, <2>3
<1>8. /\ \A w \in MaskWindows : wlife'[w] = IF w \in gone THEN "gone" ELSE wlife[w]
      /\ \A w \in MaskWindows, d \in MaskClients :
           selected'[w][d] = IF w \in gone \/ d \in procs THEN {} ELSE selected[w][d]
  BY <1>2
<1> QED BY <1>2, <1>3, <1>7, <1>8

(* Windows and processes go, and nobody is hurt: what is left holds.       *)
LEMMA FreeMasksKeeps ==
  ASSUME MasksTypeOK, Sound, NEW gone, NEW procs, Leaving(gone, procs),
         \A w \in gone : wlife[w] = "live",
         FreeMasks(gone, procs), ~harm', open' = open \ procs,
         \A d \in MaskClients \ procs : call'[d] = call[d],
         \A d \in procs : call'[d] = Idle,
         UNCHANGED <<wmask, em, crossed>>
  PROVE  Sound'
<1>1. PICK pairs : pairs = PairsMet(gone \cup procs)
  OBVIOUS
<1>2. /\ NodesHold /\ CallersHold /\ OneMask
      /\ procs \subseteq MaskClients /\ gone \subseteq MaskWindows /\ procs \subseteq open
      /\ \A c \in procs : call[c].pc \in {"idle", "dead"}
  BY DEF Sound, MasksTypeOK, Leaving
<1>3. /\ HurtsNobody(gone, procs, pairs)
      /\ freed' = freed \cup pairs /\ anchored' = anchored \ (gone \cup procs)
      /\ \A w \in MaskWindows : wlife'[w] = IF w \in gone THEN "gone" ELSE wlife[w]
      /\ \A w \in MaskWindows, d \in MaskClients :
           selected'[w][d] = IF w \in gone \/ d \in procs THEN {} ELSE selected[w][d]
      /\ Without(links, links', anchored, Redirected, NodesOf(pairs))
  BY <1>1, FreedFromChains
<1>4. PICK U : U = NodesOf(pairs)
  OBVIOUS
<1>5. /\ \A n \in ChainNodes : n \in U <=> PairOf(n) \in pairs
      /\ U \subseteq ChainNodes
  BY <1>4 DEF NodesOf
<1>6. pairs \subseteq Made
  BY <1>3, PairsAreMet
<1>7. \A x \in gone \cup procs : \A n \in Chain(x) : PairOf(n) \in pairs
  BY <1>3, PairsAreMet
<1>8. \A n \in InChains : ProcOf(n) \in procs => PairOf(n) \in pairs
  BY <1>3, PairsAreMet
<1>9. \A w \in MaskWindows \ gone : \A n \in Chain(w) : PairOf(n) \in pairs => ProcOf(n) \in procs
  BY <1>3, PairsAreMet
<1>10. \A d \in MaskClients : Enters(d) => d \notin procs /\ PairOf(call[d].new) \notin pairs
  BY <1>3, PairsAreMet
<1>11. ASSUME NEW d \in MaskClients \ procs
       PROVE  /\ InCall(d) => call[d].w \notin gone
              /\ call[d].pc \in {"check", "find"} /\ call[d].cur \in ChainNodes =>
                   PairOf(call[d].cur) \notin pairs
              /\ Between(d) /\ call[d].nxt # NULL => PairOf(call[d].nxt) \notin pairs
  <2>1. ~Hurts(d, gone, pairs)
    BY <1>3 DEF HurtsNobody
  <2> QED BY <2>1 DEF Hurts, InCall, Between
<1>12. ASSUME NEW x \in anchored'
       PROVE  /\ x \in anchored /\ x \notin gone /\ x \notin procs
              /\ Chain(x)' = Chain(x) \ U
              /\ Chain(x)' = NodesFrom(links', x) /\ Chain(x) = NodesFrom(links, x)
  <2>1. x \in anchored /\ x \notin gone /\ x \notin procs
    BY <1>3, <1>12
  <2>2. Chain(x)' = NodesFrom(links', x)
    BY <1>12 DEF Chain
  <2>3. Chain(x) = NodesFrom(links, x)
    BY <2>1, ChainsAreReached
  <2>4. NodesFrom(links', x) = NodesFrom(links, x) \ U
    BY <1>3, <1>4, <2>1 DEF Without
  <2> QED BY <2>1, <2>2, <2>3, <2>4
<1>13. \A x : x \notin anchored' => Chain(x)' = {}
  BY DEF Chain
<1>14. \A x : x \notin gone /\ x \notin procs => Chain(x)' = Chain(x) \ U
  <2>1. ASSUME NEW x, x \notin gone, x \notin procs, x \notin anchored' PROVE Chain(x)' = Chain(x) \ U
    BY <1>3, <1>13, <2>1, ChainsAreReached
  <2> QED BY <1>12, <2>1
<1>15. /\ \A x : Chain(x)' \subseteq Chain(x)
       /\ \A x : \A n \in Chain(x)' : n \notin U
  <2>1. ASSUME NEW x PROVE Chain(x)' \subseteq Chain(x) /\ \A n \in Chain(x)' : n \notin U
    BY <1>12, <1>13
  <2> QED BY <2>1
<1>16. InChains' \subseteq InChains
  BY <1>12, <1>15 DEF InChains
<1>17. /\ em' = em /\ Made' = Made /\ wmask' = wmask /\ crossed' = crossed
       /\ \A n : ProcOf(n)' = ProcOf(n) /\ Owner(n)' = Owner(n)
  BY DEF Made, Fresh, ProcOf, Owner
<1>18. ASSUME NEW w \in MaskWindows \ gone, NEW n \in Chain(w), ProcOf(n) \notin procs
       PROVE  n \in Chain(w)'
  <2>1. PairOf(n) \notin pairs /\ n \in ChainNodes
    BY <1>2, <1>9, <1>18, ChainsHaveOwn
  <2>2. w \notin procs
    BY <1>2, OwnersDiffer
  <2> QED BY <1>5, <1>14, <2>1, <2>2
<1>19. \A d \in procs : call'[d].pc = "idle" /\ call'[d].new = NULL
  BY DEF Idle
<1>20. \A d \in MaskClients : call'[d].pc # "idle" => d \notin procs /\ call'[d] = call[d]
  BY <1>19
<1>21. \A d \in MaskClients : Enters(d) \/ InCall(d) \/ Between(d) => d \notin procs
  BY <1>2 DEF Enters, InCall, Between
<1> QED
  <2>1. NodesHold'
    <3>1. ASSUME NEW x \in anchored', NEW n \in Chain(x)'
          PROVE  PairOf(n) \in Made \ freed' /\ ProcOf(n) \in open' /\ Owner(n) = x
      <4>1. n \in Chain(x) /\ n \notin U
        BY <1>15
      <4>2. PairOf(n) \in Made \ freed /\ ProcOf(n) \in open /\ Owner(n) = x /\ n \in ChainNodes /\ n \in InChains
        BY <1>2, <4>1, ChainsHaveOwn
      <4>3. PairOf(n) \notin pairs /\ ProcOf(n) \notin procs
        BY <1>5, <1>8, <4>1, <4>2
      <4> QED BY <1>3, <4>2, <4>3
    <3> QED BY <1>2, <1>3, <1>6, <1>17, <3>1 DEF NodesHold
  <2>2. RingsHold'
    <3>1. Redirected' = Redirected
      <4>1. {d \in MaskClients : call'[d].pc = "publish"} = {d \in MaskClients : call[d].pc = "publish"}
        BY <1>2, <1>19
      <4>2. \A d \in {e \in MaskClients : call[e].pc = "publish"} : call'[d].nxt = call[d].nxt
        BY <1>2, <1>19
      <4> QED BY <4>1, <4>2 DEF Redirected
    <3>2. ASSUME NEW x \in anchored' PROVE Ring(links', x, Redirected')
      BY <1>3, <1>12, <3>1 DEF Without
    <3> QED BY <3>2 DEF RingsHold
  <2>3. LivesHold'
    <3>1. ASSUME NEW w \in MaskWindows \cap anchored' PROVE wlife'[w] = "live"
      BY <1>3, <1>12 DEF Sound, LivesHold
    <3> QED BY <3>1 DEF LivesHold
  <2>4. OneMask'
    <3>1. ASSUME NEW v \in MaskWindows, NEW m1 \in Chain(v)', NEW m2 \in Chain(v)', ProcOf(m1) = ProcOf(m2)
          PROVE  m1 = m2
      <4>1. m1 \in Chain(v) /\ m2 \in Chain(v)
        BY <1>15
      <4> QED BY <1>2, <3>1, <4>1 DEF OneMask
    <3> QED BY <1>17, <3>1 DEF OneMask
  <2>5. OneAtATime'
    <3>1. \A d \in MaskClients : Between(d)' => Between(d) /\ ChainOf(d)' = ChainOf(d)
      BY <1>20 DEF Between, ChainOf
    <3> QED BY <3>1 DEF Sound, OneAtATime
  <2>6. PairsHold'
    <3>1. ASSUME NEW m \in Made \ freed', em[m].proc \in open' PROVE Unfinished(m)' \/ Complete(m)'
      <4>1. m \notin freed /\ m \notin pairs /\ em[m].proc \in open /\ em[m].proc \notin procs
        BY <1>3, <3>1
      <4>2. m \in Pairs /\ PairOf(Em1(m)) = m /\ PairOf(Em2(m)) = m /\ Em1(m) \notin U /\ Em2(m) \notin U
            /\ Em1(m) # NULL /\ Em1(m)[1] = "em1"
        BY <1>5, <4>1, NodeKinds DEF Made
      <4>3. CASE Complete(m)
        <5>1. Em1(m) \in Chain(em[m].win) /\ Em2(m) \in Chain(em[m].proc)
          BY <4>3 DEF Complete
        <5>2. em[m].win \notin gone /\ em[m].win \notin procs /\ em[m].proc \notin gone
          <6>1. em[m].win \in MaskWindows /\ em[m].proc \in MaskClients
            BY MadeAreRecords
          <6> QED BY <1>2, <1>7, <4>1, <4>2, <5>1, <6>1, OwnersDiffer
        <5>3. Em1(m) \in Chain(em[m].win)'
          <6>1. PICK v : v = em[m].win
            OBVIOUS
          <6>2. Em1(m) \in Chain(v)'
            BY <1>14, <4>2, <5>1, <5>2, <6>1
          <6> QED BY <1>17, <6>1, <6>2
        <5>4. Em2(m) \in Chain(em[m].proc)'
          <6>1. PICK v : v = em[m].proc
            OBVIOUS
          <6>2. Em2(m) \in Chain(v)'
            BY <1>14, <4>1, <4>2, <5>1, <5>2, <6>1
          <6> QED BY <1>17, <6>1, <6>2
        <5> QED BY <5>3, <5>4 DEF Complete
      <4>4. CASE ~Complete(m)
        <5>1. PICK d \in MaskClients : \/ Enters(d) /\ call[d].new \in {Em1(m), Em2(m)}
                                       \/ call[d].pc = "dead" /\ call[d].new = Em1(m)
          BY <3>1, <4>1, <4>4 DEF Sound, PairsHold, Unfinished
        <5>2. d \notin procs
          <6>1. CASE Enters(d)
            BY <1>21, <6>1
          <6>2. CASE call[d].pc = "dead" /\ call[d].new = Em1(m)
            <7>1. em[m].proc = d
              BY <1>2, <4>2, <6>2 DEF CallersHold, DeadHolds
            <7> QED BY <4>1, <7>1
          <6> QED BY <5>1, <6>1, <6>2
        <5>3. call'[d] = call[d]
          BY <5>2
        <5> QED BY <5>1, <5>3 DEF Unfinished, Enters
      <4> QED BY <4>3, <4>4
    <3> QED BY <1>17, <3>1 DEF PairsHold
  <2>7. SelectedHold'
    <3>1. ASSUME NEW v \in MaskWindows, NEW d \in MaskClients, wlife'[v] = "none" PROVE selected'[v][d] = {}
      <4>1. wlife[v] = "none"
        BY <1>3, <3>1
      <4> QED BY <1>3, <4>1 DEF Sound, SelectedHold
    <3>2. ASSUME NEW v \in MaskWindows, NEW d \in open', wlife'[v] = "live"
          PROVE  /\ selected'[v][d] \subseteq wmask[v]
                 /\ call'[d].w # v \/ call'[d].pc \in {"idle", "check", "find"} =>
                      /\ \A m \in Chain(v)' : ProcOf(m) = d => em[PairOf(m)].mask = selected'[v][d]
                      /\ (\A m \in Chain(v)' : ProcOf(m) # d) => selected'[v][d] = {}
      <4>1. d \in MaskClients \ procs /\ d \in open /\ v \notin gone /\ wlife[v] = "live"
        BY <1>3, <3>2 DEF MasksTypeOK
      <4>2. selected'[v][d] = selected[v][d] /\ call'[d] = call[d]
        BY <1>3, <4>1
      <4>3. /\ selected[v][d] \subseteq wmask[v]
            /\ call[d].w # v \/ call[d].pc \in {"idle", "check", "find"} =>
                 /\ \A m \in Chain(v) : ProcOf(m) = d => em[PairOf(m)].mask = selected[v][d]
                 /\ (\A m \in Chain(v) : ProcOf(m) # d) => selected[v][d] = {}
        BY <4>1 DEF Sound, SelectedHold
      <4>4. \A m \in Chain(v)' : m \in Chain(v)
        BY <1>15
      <4>5. \A m \in Chain(v) : ProcOf(m) = d => m \in Chain(v)'
        BY <1>18, <4>1
      <4> QED BY <4>2, <4>3, <4>4, <4>5
    <3> QED BY <1>17, <3>1, <3>2 DEF SelectedHold
  <2>8. KeyPressHold'
    <3>1. ASSUME NEW v \in MaskWindows \ crossed PROVE Alone(v)'
      <4>1. Alone(v)
        BY <3>1 DEF Sound, KeyPressHold
      <4>2. Receivers(v, KeyPressMask)' \subseteq Receivers(v, KeyPressMask)
        BY <1>15, <1>17 DEF Receivers
      <4>3. \A d \in MaskClients : InCall(d)' => call'[d] = call[d] /\ InCall(d)
        BY <1>20 DEF InCall
      <4>4. ASSUME NEW d \in MaskClients, InCall(d)', call'[d].w = v,
                   KeyPressMask \in call'[d].mask, call'[d].pc # "check",
                   NEW m \in Receivers(v, KeyPressMask)'
            PROVE  ProcOf(m)' = d
        <5>1. m \in Receivers(v, KeyPressMask) /\ call'[d] = call[d] /\ InCall(d)
          BY <4>2, <4>3, <4>4
        <5> QED BY <1>17, <4>1, <4>4, <5>1 DEF Alone
      <4>5. \A d, e \in MaskClients :
              InCall(d)' /\ InCall(e)' /\ call'[d].w = v /\ call'[e].w = v => d = e
        BY <4>1, <4>3 DEF Alone
      <4>6. \A m1, m2 \in Receivers(v, KeyPressMask)' : m1 = m2
        BY <4>1, <4>2 DEF Alone
      <4> QED BY <4>4, <4>5, <4>6 DEF Alone
    <3> QED BY <1>17, <3>1 DEF KeyPressHold
  <2>9. CallersHold'
    <3>1. ASSUME NEW d \in MaskClients, d \in procs
          PROVE  LookHolds(d)' /\ CallHolds(d)' /\ AddHolds(d)' /\ BetweenHolds(d)' /\ DeadHolds(d)'
      <4>1. call'[d].pc = "idle" /\ call'[d].new = NULL
        BY <1>19, <3>1
      <4> QED BY <4>1 DEF LookHolds, CallHolds, InCall, AddHolds, Enters, BetweenHolds, Between, DeadHolds
    <3>2. ASSUME NEW d \in MaskClients \ procs
          PROVE  LookHolds(d)' /\ CallHolds(d)' /\ AddHolds(d)' /\ BetweenHolds(d)' /\ DeadHolds(d)'
      <4>1. LookHolds(d) /\ CallHolds(d) /\ AddHolds(d) /\ BetweenHolds(d) /\ DeadHolds(d)
        BY <1>2 DEF CallersHold
      <4>2. PICK v : v = call[d].w
        OBVIOUS
      <4>3. call'[d] = call[d]
        BY <3>2
      <4>4. InCall(d) => /\ v \in MaskWindows \ gone /\ v \notin procs /\ wlife'[v] = "live"
                         /\ Chain(v)' = Chain(v) \ U
                         /\ v \in anchored => v \in anchored'
        <5>1. SUFFICES ASSUME InCall(d)
                       PROVE  /\ v \in MaskWindows \ gone /\ v \notin procs /\ wlife'[v] = "live"
                              /\ Chain(v)' = Chain(v) \ U
                              /\ v \in anchored => v \in anchored'
          OBVIOUS
        <5>2. v \in MaskWindows /\ wlife[v] = "live" /\ v \notin gone
          BY <1>2, <1>11, <4>2, <5>1, CallersAre
        <5>3. v \notin procs
          BY <1>2, <5>2, OwnersDiffer
        <5> QED BY <1>3, <1>14, <5>2, <5>3
      <4>5. LookHolds(d)'
        <5>1. SUFFICES ASSUME call[d].pc \in {"check", "find"} PROVE LookHolds(d)'
          BY <4>3 DEF LookHolds
        <5>2. InCall(d)
          BY <5>1 DEF InCall
        <5>3. PICK met \in SUBSET ChainNodes : Met(d, met)
          BY <4>1, <5>1 DEF LookHolds
        <5>4. /\ met \subseteq Chain(v) /\ Stands(d, met)
              /\ call[d].pc = "find" => \A m \in met : ProcOf(m) # d
              /\ call[d].pc = "check" /\ v \notin crossed =>
                   \A m \in met : KeyPressMask \in em[PairOf(m)].mask => ProcOf(m) = d
          BY <4>2, <5>3 DEF Met
        <5>5. Stands(d, met \ U)'
          <6>1. CASE call[d].cur = NULL /\ call[d].pc = "find" /\ met = Chain(v)
            BY <4>2, <4>3, <4>4, <5>2, <6>1 DEF Stands
          <6>2. CASE call[d].cur = Anchor(v) /\ v \in anchored /\ met = {}
            BY <4>2, <4>3, <4>4, <5>2, <6>2 DEF Stands
          <6>3. CASE call[d].cur \in ChainNodes /\ v \in anchored /\ UpTo(links, v, met, call[d].cur)
            <7>1. call[d].cur \in ChainNodes \ U
              BY <1>5, <1>11, <5>1, <6>3
            <7>2. met \in SUBSET NodesFrom(links, v) /\ v \in anchored'
              BY <4>4, <5>2, <5>4, <6>3, ChainsAreReached
            <7>3. UpTo(links', v, met \ U, call[d].cur)
              BY <1>3, <1>4, <6>3, <7>1, <7>2 DEF Without
            <7> QED BY <4>2, <4>3, <6>3, <7>2, <7>3 DEF Stands
          <6> QED BY <4>2, <5>4, <6>1, <6>2, <6>3 DEF Stands
        <5>6. met \ U \subseteq Chain(v)' /\ met \ U \in SUBSET ChainNodes
          BY <4>4, <5>2, <5>4
        <5>7. Met(d, met \ U)'
          BY <1>17, <4>2, <4>3, <5>4, <5>5, <5>6 DEF Met
        <5> QED BY <4>1, <4>3, <5>1, <5>6, <5>7 DEF LookHolds
      <4>6. CallHolds(d)'
        <5>1. /\ call[d].pc # "idle" => d \in open
              /\ call[d].pc = "or" => \E n \in Chain(v) : ProcOf(n) = d /\ em[PairOf(n)].mask = call[d].mask
              /\ call[d].pc \in {"idle", "check", "find"} => call[d].new = NULL
              /\ call[d].pc = "or" => call[d].new = NULL \/ call[d].new[1] = "em2"
          BY <4>1, <4>2 DEF CallHolds
        <5>2. call[d].pc # "idle" => d \in open'
          BY <5>1
        <5>3. call[d].pc = "or" => \E n \in Chain(v)' : ProcOf(n) = d /\ em[PairOf(n)].mask = call[d].mask
          <6>1. call[d].pc = "or" => InCall(d)
            BY DEF InCall
          <6> QED BY <1>18, <4>4, <5>1, <6>1
        <5>4. InCall(d) => v \in MaskWindows /\ wlife'[v] = "live"
          BY <4>4
        <5> QED BY <1>17, <4>2, <4>3, <5>1, <5>2, <5>3, <5>4 DEF CallHolds, InCall
      <4>7. AddHolds(d)'
        <5>1. SUFFICES ASSUME Enters(d) PROVE AddHolds(d)'
          BY <4>3 DEF AddHolds, Enters
        <5>2. InCall(d)
          BY <5>1 DEF Enters, InCall
        <5>3. /\ call[d].new \in ChainNodes /\ PairOf(call[d].new) \in Made \ freed
              /\ em[PairOf(call[d].new)] = [win |-> v, proc |-> d, mask |-> call[d].mask]
              /\ call[d].new \notin InChains
              /\ call[d].new[1] = "em1" =>
                   Em2(PairOf(call[d].new)) \notin InChains /\ \A n \in Chain(v) : ProcOf(n) # d
              /\ call[d].new[1] = "em2" => Em1(PairOf(call[d].new)) \in Chain(v)
          BY <4>1, <4>2, <5>1 DEF AddHolds
        <5>4. PairOf(call[d].new) \in Made \ freed'
          BY <1>3, <1>10, <5>1, <5>3
        <5>5. call[d].new \notin InChains' /\ \A n \in Chain(v)' : n \in Chain(v)
          BY <1>15, <1>16, <5>3
        <5>6. call[d].new[1] = "em1" => Em2(PairOf(call[d].new)) \notin InChains'
          BY <1>16, <5>3
        <5>7. call[d].new[1] = "em2" => Em1(PairOf(call[d].new)) \in Chain(v)'
          <6>1. em[PairOf(call[d].new)].proc = d
            BY <5>3
          <6>2. PairOf(Em1(PairOf(call[d].new))) = PairOf(call[d].new)
            BY <5>3, NodeKinds DEF Made
          <6>3. ProcOf(Em1(PairOf(call[d].new))) = d
            BY <6>1, <6>2 DEF ProcOf
          <6> QED BY <1>18, <4>4, <5>2, <5>3, <6>3
        <5> QED BY <1>17, <4>2, <4>3, <5>3, <5>4, <5>5, <5>6, <5>7 DEF AddHolds
      <4>8. BetweenHolds(d)'
        <5>1. SUFFICES ASSUME Between(d) PROVE BetweenHolds(d)'
          BY <4>3 DEF BetweenHolds, Between
        <5>2. PICK y : y = ChainOf(d)
          OBVIOUS
        <5>3. Enters(d) /\ InCall(d)
          BY <5>1 DEF Between, Enters, InCall
        <5>4. /\ y \in anchored /\ ChainOf(d)' = y
              /\ links.next[Anchor(y)] = call[d].nxt /\ links.next[call[d].new] = call[d].nxt
              /\ links.prev[call[d].new] = Anchor(y)
              /\ call[d].pc = "publish" /\ call[d].nxt # NULL => links.prev[call[d].nxt] = call[d].new
          BY <4>1, <4>3, <5>1, <5>2 DEF BetweenHolds, ChainOf
        <5>5. y \notin gone /\ y \notin procs
          BY <1>2, <4>2, <4>4, <5>2, <5>3, OwnersDiffer DEF ChainOf
        <5>6. y \in anchored'
          BY <1>3, <5>4, <5>5
        <5>7. call[d].nxt \notin U
          <6>1. call[d].nxt # NULL => PairOf(call[d].nxt) \notin pairs
            BY <1>11, <5>1
          <6> QED BY <1>5, <6>1, NodeKinds
        <5>8. links'.next[Anchor(y)] = links.next[Anchor(y)]
          BY <1>3, <1>4, <5>4, <5>7 DEF Without
        <5>9. call[d].new \in ChainNodes /\ \A x \in anchored : call[d].new \notin NodesFrom(links, x)
          BY <4>1, <5>3, ChainsAreReached DEF AddHolds, InChains
        <5>10. links'.next[call[d].new] = links.next[call[d].new]
               /\ links'.prev[call[d].new] = links.prev[call[d].new]
          BY <1>3, <5>9 DEF Without
        <5>11. call[d].pc = "publish" /\ call[d].nxt # NULL =>
                 links'.prev[call[d].nxt] = links.prev[call[d].nxt]
          <6>1. call[d].pc = "publish" /\ call[d].nxt # NULL => call[d].nxt \in Redirected
            BY DEF Redirected
          <6> QED BY <1>3, <6>1 DEF Without
        <5> QED BY <4>3, <5>4, <5>6, <5>8, <5>10, <5>11 DEF BetweenHolds
      <4>9. DeadHolds(d)'
        BY <1>16, <1>17, <4>1, <4>3 DEF DeadHolds
      <4> QED BY <4>5, <4>6, <4>7, <4>8, <4>9
    <3> QED BY <3>1, <3>2 DEF CallersHold
  <2> QED BY <2>1, <2>2, <2>3, <2>4, <2>5, <2>6, <2>7, <2>8, <2>9 DEF Sound

(* um_destroyWindow frees the masks of one window.                         *)
LEMMA DestroyWindowKeeps ==
  ASSUME MasksTypeOK, Sound, NEW c \in MaskClients, NEW w \in MaskWindows,
         DestroyWindow(c, w), ~harm'
  PROVE  Sound'
<1>1. /\ wlife[w] = "live" /\ FreeMasks({w}, {})
      /\ UNCHANGED <<wowner, wmask, open, em, call, crossed>>
  BY DEF DestroyWindow
<1>2. Leaving({w}, {})
  BY DEF Leaving
<1>3. /\ \A v \in {w} : wlife[v] = "live"
      /\ open' = open \ {}
      /\ \A d \in MaskClients \ {} : call'[d] = call[d]
      /\ \A d \in {} : call'[d] = Idle
      /\ UNCHANGED <<wmask, em, crossed>>
  BY <1>1
<1> QED BY <1>1, <1>2, <1>3, FreeMasksKeeps

(* um_freeResources frees those of a process and of its windows.           *)
LEMMA FreeResourcesKeeps ==
  ASSUME MasksTypeOK, Sound, NEW c \in MaskClients, FreeResources(c), ~harm'
  PROVE  Sound'
<1>1. PICK gone : gone = {w \in MaskWindows : wlife[w] = "live" /\ wowner[w] = c}
  OBVIOUS
<1>2. /\ c \in open /\ call[c].pc \in {"idle", "dead"}
      /\ FreeMasks(gone, {c})
      /\ open' = open \ {c}
      /\ call' = [call EXCEPT ![c] = Idle]
      /\ UNCHANGED <<wowner, wmask, em, crossed>>
  BY <1>1 DEF FreeResources
<1>3. Leaving(gone, {c})
  BY <1>1, <1>2 DEF Leaving
<1>4. /\ \A w \in gone : wlife[w] = "live"
      /\ \A d \in MaskClients \ {c} : call'[d] = call[d]
      /\ \A d \in {c} : call'[d] = Idle
      /\ UNCHANGED <<wmask, em, crossed>>
  BY <1>1, <1>2 DEF MasksTypeOK
<1> QED BY <1>2, <1>3, <1>4, FreeMasksKeeps
-----------------------------------------------------------------------------
(* The types of what a client knows of its call.                           *)
CallType == [pc : Places, w : MaskWindows \cup {NULL}, mask : SUBSET EventBits,
             cur : MaskNodes \cup {NULL}, new : ChainNodes \cup {NULL},
             nxt : ChainNodes \cup {NULL}]

(* A client gets a new place and knowledge of the right types.             *)
LEMMA CallKeepsType ==
  ASSUME MasksTypeOK, NEW c \in MaskClients, NEW r \in CallType,
         call' = [call EXCEPT ![c] = r]
  PROVE  call' \in [MaskClients -> CallType]
<1>1. call \in [MaskClients -> CallType]
  BY DEF MasksTypeOK, CallType
<1> QED BY <1>1

(* It gets a new place only.                                               *)
LEMMA GotoKeepsType ==
  ASSUME MasksTypeOK, NEW c \in MaskClients, NEW place \in Places,
         call' = [call EXCEPT ![c].pc = place]
  PROVE  call' \in [MaskClients -> CallType]
<1>1. call \in [MaskClients -> CallType]
  BY DEF MasksTypeOK, CallType
<1>2. [call[c] EXCEPT !.pc = place] \in CallType
  BY <1>1 DEF CallType
<1> QED BY <1>1, <1>2

(* The next node in a loop is a node or NULL.                              *)
LEMMA NextTyped ==
  ASSUME MasksTypeOK, NEW c \in MaskClients
  PROVE  NextOf(c) \in ChainNodes \cup {NULL}
<1>1. links.next \in [MaskNodes -> ChainNodes \cup {NULL}]
  BY DEF MasksTypeOK
<1> QED BY <1>1, CallTyped DEF NextOf

(* UnChainResource leaves links in links, whatever they are.               *)
LEMMA UnChainKeepsLinks ==
  ASSUME NEW n \in ChainNodes, NEW l \in LinksType
  PROVE  UnChainResource(n, l) \in LinksType
<1>1. PICK p : p = l.prev[n]
  OBVIOUS
<1>2. PICK q : q = l.next[n]
  OBVIOUS
<1>3. /\ l.next \in [MaskNodes -> ChainNodes \cup {NULL}]
      /\ l.prev \in [MaskNodes -> MaskNodes \cup {NULL}]
      /\ ChainNodes \subseteq MaskNodes
  BY NodeKinds DEF LinksType
<1>4. p \in MaskNodes \cup {NULL} /\ q \in ChainNodes \cup {NULL}
  BY <1>1, <1>2, <1>3
<1>5. PICK next : next = IF p = NULL THEN l.next ELSE [l.next EXCEPT ![p] = q]
  OBVIOUS
<1>6. PICK prev : prev = IF q = NULL THEN l.prev ELSE [l.prev EXCEPT ![q] = p]
  OBVIOUS
<1>7. next \in [MaskNodes -> ChainNodes \cup {NULL}]
  BY <1>3, <1>4, <1>5
<1>8. prev \in [MaskNodes -> MaskNodes \cup {NULL}]
  BY <1>3, <1>4, <1>6
<1>9. UnChainResource(n, l) = [next |-> [next EXCEPT ![n] = NULL],
                               prev |-> [prev EXCEPT ![n] = NULL]]
  BY <1>1, <1>2, <1>5, <1>6 DEF UnChainResource
<1>10. /\ [next EXCEPT ![n] = NULL] \in [MaskNodes -> ChainNodes \cup {NULL}]
       /\ [prev EXCEPT ![n] = NULL] \in [MaskNodes -> MaskNodes \cup {NULL}]
  BY <1>3, <1>7, <1>8
<1> QED BY <1>9, <1>10 DEF LinksType

(* So Daemon_freeEventMask does, whatever it meets.                        *)
LEMMA FreeEventMaskKeepsLinks ==
  ASSUME NEW l \in LinksType, NEW met \in SUBSET ChainNodes
  PROVE  FreeEventMask(met, l) \in LinksType
<1>1. PICK U : U = UNION {{Em1(PairOf(n)), Em2(PairOf(n))} : n \in met}
  OBVIOUS
<1>2. U \in SUBSET ChainNodes
  BY <1>1, NodeKinds
<1>3. IsFiniteSet(U)
  BY <1>2, NodesAreFinite
<1> DEFINE G == (SUBSET U) \X LinksType
<1>4. <<{}, l>> \in G
  OBVIOUS
<1>5. ASSUME NEW D \in SUBSET U, NEW n \in U \ D, NEW k, <<D, k>> \in G
      PROVE  <<D \cup {n}, UnChainResource(n, k)>> \in G
  <2>1. k \in LinksType /\ n \in ChainNodes
    BY <1>2, <1>5
  <2> QED BY <2>1, UnChainKeepsLinks
<1> HIDE DEF G
<1>6. <<U, FoldSet(UnChainResource, l, U)>> \in G
  BY <1>3, <1>4, <1>5, FoldOver
<1>7. FoldSet(UnChainResource, l, U) \in LinksType
  BY <1>6 DEF G
<1> QED BY <1>1, <1>7 DEF FreeEventMask

(* A client that is in no call.                                            *)
LEMMA IdleTyped == Idle \in CallType
BY DEF Idle, CallType, Places

(* Steps that change only what one client knows of its call.               *)
LEMMA LookKeepsTypes ==
  ASSUME MasksTypeOK, Sound, NEW c \in MaskClients,
         \/ \E w \in MaskWindows : \E mask \in Asked[w] : SelectInput(c, w, mask)
         \/ CheckEventMask(c) \/ FindOther(c) \/ MissAnchor(c) \/ DieInCall(c)
  PROVE  MasksTypeOK'
<1> USE DEF windows, chains
<1>1. ASSUME call' \in [MaskClients -> CallType], crossed' \subseteq MaskWindows,
             harm' \in BOOLEAN, UNCHANGED <<windows, chains, open, selected>>
      PROVE  MasksTypeOK'
  BY <1>1 DEF MasksTypeOK, CallType
<1>2. \A x \in MaskWindows \cup MaskClients : AnchorOrNull(x) \in MaskNodes \cup {NULL}
  BY NodeKinds DEF AnchorOrNull, Owners
<1>3. crossed \subseteq MaskWindows /\ harm \in BOOLEAN
  BY DEF MasksTypeOK
<1>4. ASSUME NEW w \in MaskWindows, NEW mask \in Asked[w], SelectInput(c, w, mask)
      PROVE  MasksTypeOK'
  <2>1. PICK r : r = [pc |-> IF Critical(w, mask) # {} THEN "check" ELSE "find", w |-> w,
                      mask |-> mask, cur |-> AnchorOrNull(w), new |-> NULL, nxt |-> NULL]
    OBVIOUS
  <2>2. mask \in SUBSET EventBits
    BY MaskAssumption
  <2>3. r \in CallType
    BY <1>2, <2>1, <2>2 DEF CallType, Places
  <2>4. call' = [call EXCEPT ![c] = r] /\ UNCHANGED <<windows, chains, open, selected, harm>>
    BY <1>4, <2>1 DEF SelectInput
  <2>5. crossed' \subseteq MaskWindows
    BY <1>3, <1>4 DEF SelectInput
  <2> QED BY <1>1, <1>3, <2>3, <2>4, <2>5, CallKeepsType
<1>5. CASE CheckEventMask(c)
  <2>0. PICK n : n = NextOf(c)
    OBVIOUS
  <2>1. n \in ChainNodes \cup {NULL} /\ n \in MaskNodes \cup {NULL}
    BY <2>0, NextTyped, NodeKinds
  <2>2. call[c] \in CallType
    BY DEF MasksTypeOK, CallType
  <2>3. call[c].w \in MaskWindows
    BY <1>5, Looking DEF CheckEventMask
  <2>4. UNCHANGED <<windows, chains, open, selected, harm, crossed>>
    BY <1>5 DEF CheckEventMask
  <2>5. \/ call' = [call EXCEPT ![c] = [@ EXCEPT !.pc = "find", !.cur = AnchorOrNull(call[c].w)]]
        \/ call' = [call EXCEPT ![c] = Idle]
        \/ n # NULL /\ call' = [call EXCEPT ![c] = [@ EXCEPT !.cur = n]]
    BY <1>5, <2>0 DEF CheckEventMask
  <2>6. AnchorOrNull(call[c].w) \in MaskNodes \cup {NULL}
    BY <1>2, <2>3
  <2>7. [call[c] EXCEPT !.pc = "find", !.cur = AnchorOrNull(call[c].w)] \in CallType
    BY <2>2, <2>6 DEF CallType, Places
  <2>8. [call[c] EXCEPT !.cur = n] \in CallType
    BY <2>1, <2>2 DEF CallType
  <2>9. call' \in [MaskClients -> CallType]
    BY <2>5, <2>7, <2>8, IdleTyped, CallKeepsType
  <2> QED BY <1>1, <1>3, <2>4, <2>9
<1>6. CASE FindOther(c)
  <2>0. PICK n : n = NextOf(c)
    OBVIOUS
  <2>1. n \in MaskNodes \cup {NULL}
    BY <2>0, NextTyped, NodeKinds
  <2>2. call[c] \in CallType
    BY DEF MasksTypeOK, CallType
  <2>3. /\ call' = [call EXCEPT ![c].cur = n]
        /\ UNCHANGED <<windows, chains, open, selected, harm, crossed>>
    BY <1>6, <2>0 DEF FindOther
  <2>4. [call[c] EXCEPT !.cur = n] \in CallType
    BY <2>1, <2>2 DEF CallType
  <2>5. call' = [call EXCEPT ![c] = [call[c] EXCEPT !.cur = n]]
    BY <2>3
  <2>6. call' \in [MaskClients -> CallType]
    BY <2>4, <2>5, CallKeepsType
  <2> QED BY <1>1, <1>3, <2>3, <2>6
<1>7. CASE MissAnchor(c)
  <2>1. /\ call' = [call EXCEPT ![c].pc = "anchor"]
        /\ UNCHANGED <<windows, chains, open, selected, harm, crossed>>
    BY <1>7 DEF MissAnchor, Goto
  <2>2. call' \in [MaskClients -> CallType]
    BY <2>1, GotoKeepsType DEF Places
  <2> QED BY <1>1, <1>3, <2>1, <2>2
<1>8. CASE DieInCall(c)
  <2>1. /\ call' = [call EXCEPT ![c].pc = "dead"]
        /\ UNCHANGED <<windows, chains, open, selected, crossed>>
        /\ harm' \in BOOLEAN
    BY <1>8 DEF DieInCall, Goto
  <2>2. call' \in [MaskClients -> CallType]
    BY <2>1, GotoKeepsType DEF Places
  <2> QED BY <1>1, <1>3, <2>1, <2>2
<1> QED BY <1>4, <1>5, <1>6, <1>7, <1>8

(* Steps that store into the pairs and the nodes.                          *)
LEMMA StoreKeepsTypes ==
  ASSUME MasksTypeOK, Sound, NEW c \in MaskClients,
         \/ FindOwn(c) \/ FindNone(c) \/ CreateAnchor(c) \/ Link(c) \/ BackLink(c)
         \/ Publish(c) \/ OrMask(c)
  PROVE  MasksTypeOK'
<1>1. ASSUME call' \in [MaskClients -> CallType], links' \in LinksType, harm' \in BOOLEAN,
             em' \in [Pairs -> PairType \cup {NULL}], anchored' \subseteq Owners,
             UNCHANGED <<wlife, wowner, wmask, open, freed, selected, crossed>>
      PROVE  MasksTypeOK'
  BY <1>1 DEF MasksTypeOK, CallType, LinksType, Owners
<1>2. /\ call \in [MaskClients -> CallType] /\ call[c] \in CallType
      /\ links \in LinksType /\ harm \in BOOLEAN
      /\ em \in [Pairs -> PairType \cup {NULL}] /\ anchored \subseteq Owners
  BY DEF MasksTypeOK, CallType, LinksType, Owners
<1>3. /\ links.next \in [MaskNodes -> ChainNodes \cup {NULL}]
      /\ links.prev \in [MaskNodes -> MaskNodes \cup {NULL}]
      /\ links = [next |-> links.next, prev |-> links.prev]
  BY <1>2 DEF LinksType
<1>4. ASSUME Enters(c)
      PROVE  /\ call[c].new \in ChainNodes /\ call[c].new \in MaskNodes
             /\ PairOf(call[c].new) \in Pairs
             /\ ChainOf(c) \in Owners /\ Anchor(ChainOf(c)) \in MaskNodes
  BY <1>4, CallersAre, NodeKinds DEF Sound, AddHolds
<1>5. ASSUME FindOwn(c) PROVE MasksTypeOK'
  <2>1. PICK n : n = NextOf(c)
    OBVIOUS
  <2>2. PICK p : p = PairOf(n)
    OBVIOUS
  <2>3. /\ call[c].pc = "find" /\ n # NULL
        /\ em' = [em EXCEPT ![p].mask = call[c].mask]
        /\ call' = [call EXCEPT ![c].pc = "or"]
        /\ UNCHANGED <<wlife, wowner, wmask, open, anchored, links, freed, selected, harm, crossed>>
    BY <1>5, <2>1, <2>2 DEF FindOwn, Goto, windows
  <2>4. n \in Chain(call[c].w)
    BY <2>1, <2>3, Looking
  <2>5. p \in Made
    BY <2>2, <2>4, ChainsHaveOwn DEF Sound
  <2>6. p \in Pairs /\ em[p] \in PairType
    BY <2>5, MadeAreRecords
  <2>7. call[c].mask \in SUBSET EventBits
    BY CallTyped
  <2>8. [em[p] EXCEPT !.mask = call[c].mask] \in PairType
    BY <2>6, <2>7 DEF PairType
  <2>9. em' \in [Pairs -> PairType \cup {NULL}]
    BY <1>2, <2>3, <2>6, <2>8
  <2>10. call' \in [MaskClients -> CallType]
    BY <2>3, GotoKeepsType DEF Places
  <2> QED BY <1>1, <1>2, <2>3, <2>9, <2>10
<1>6. ASSUME FindNone(c) PROVE MasksTypeOK'
  <2>1. PICK p : p = NextPair
    OBVIOUS
  <2>2. /\ call[c].pc = "find" /\ Fresh # {}
        /\ em' = [em EXCEPT ![p] = [win |-> call[c].w, proc |-> c, mask |-> call[c].mask]]
        /\ call' = [call EXCEPT ![c].pc = "link", ![c].new = Em1(p)]
        /\ UNCHANGED <<wlife, wowner, wmask, open, anchored, links, freed, selected, harm, crossed>>
    BY <1>6, <2>1 DEF FindNone, windows
  <2>3. p \in Pairs /\ Em1(p) \in ChainNodes
    BY <2>1, <2>2, NextPairIsFresh, NodeKinds
  <2>4. call[c].w \in MaskWindows /\ call[c].mask \in SUBSET EventBits
    BY <2>2, Looking, CallTyped
  <2>5. [win |-> call[c].w, proc |-> c, mask |-> call[c].mask] \in PairType
    BY <2>4 DEF PairType
  <2>6. em' \in [Pairs -> PairType \cup {NULL}]
    BY <1>2, <2>2, <2>3, <2>5
  <2>7. [call[c] EXCEPT !.pc = "link", !.new = Em1(p)] \in CallType
    BY <1>2, <2>3 DEF CallType, Places
  <2>8. call' = [call EXCEPT ![c] = [call[c] EXCEPT !.pc = "link", !.new = Em1(p)]]
    BY <1>2, <2>2
  <2>9. call' \in [MaskClients -> CallType]
    BY <2>7, <2>8, CallKeepsType
  <2> QED BY <1>1, <1>2, <2>2, <2>6, <2>9
<1>7. ASSUME CreateAnchor(c) PROVE MasksTypeOK'
  <2>1. PICK x : x = ChainOf(c)
    OBVIOUS
  <2>2. /\ call[c].pc = "anchor" /\ harm' \in BOOLEAN
        /\ anchored' = anchored \cup {x}
        /\ links' = [links EXCEPT !.next[Anchor(x)] = NULL]
        /\ call' = [call EXCEPT ![c].pc = "link"]
        /\ UNCHANGED <<wlife, wowner, wmask, open, em, freed, selected, crossed>>
    BY <1>7, <2>1 DEF CreateAnchor, Goto, windows
  <2>3. x \in Owners
    BY <1>4, <2>1, <2>2 DEF Enters
  <2>4. links' = [next |-> [links.next EXCEPT ![Anchor(x)] = NULL], prev |-> links.prev]
    BY <1>3, <2>2
  <2>5. [links.next EXCEPT ![Anchor(x)] = NULL] \in [MaskNodes -> ChainNodes \cup {NULL}]
    BY <1>3
  <2>6. links' \in LinksType
    BY <1>3, <2>4, <2>5 DEF LinksType
  <2>7. call' \in [MaskClients -> CallType]
    BY <2>2, GotoKeepsType DEF Places
  <2> QED BY <1>1, <1>2, <2>2, <2>3, <2>6, <2>7
<1>8. ASSUME Link(c) PROVE MasksTypeOK'
  <2>1. PICK x : x = ChainOf(c)
    OBVIOUS
  <2>2. PICK n : n = call[c].new
    OBVIOUS
  <2>3. PICK first : first = links.next[Anchor(x)]
    OBVIOUS
  <2>4. /\ call[c].pc = "link" /\ harm' \in BOOLEAN
        /\ links' = [links EXCEPT !.prev[n] = Anchor(x), !.next[n] = first]
        /\ call' = [call EXCEPT ![c].pc = "back", ![c].nxt = first]
        /\ UNCHANGED <<wlife, wowner, wmask, open, anchored, em, freed, selected, crossed>>
    BY <1>8, <2>1, <2>2, <2>3 DEF Link, windows
  <2>5. n \in MaskNodes /\ Anchor(x) \in MaskNodes
    BY <1>4, <2>1, <2>2, <2>4 DEF Enters
  <2>6. first \in ChainNodes \cup {NULL}
    BY <1>3, <2>3, <2>5
  <2>7. links' = [next |-> [links.next EXCEPT ![n] = first],
                  prev |-> [links.prev EXCEPT ![n] = Anchor(x)]]
    BY <1>3, <2>4
  <2>8. /\ [links.next EXCEPT ![n] = first] \in [MaskNodes -> ChainNodes \cup {NULL}]
        /\ [links.prev EXCEPT ![n] = Anchor(x)] \in [MaskNodes -> MaskNodes \cup {NULL}]
    BY <1>3, <2>5, <2>6
  <2>9. links' \in LinksType
    BY <2>7, <2>8 DEF LinksType
  <2>10. [call[c] EXCEPT !.pc = "back", !.nxt = first] \in CallType
    BY <1>2, <2>6 DEF CallType, Places
  <2>11. call' = [call EXCEPT ![c] = [call[c] EXCEPT !.pc = "back", !.nxt = first]]
    BY <1>2, <2>4
  <2>12. call' \in [MaskClients -> CallType]
    BY <2>10, <2>11, CallKeepsType
  <2> QED BY <1>1, <1>2, <2>4, <2>9, <2>12
<1>9. ASSUME BackLink(c) PROVE MasksTypeOK'
  <2>1. PICK n : n = call[c].new
    OBVIOUS
  <2>2. PICK q : q = call[c].nxt
    OBVIOUS
  <2>3. /\ call[c].pc = "back"
        /\ links' = IF q = NULL THEN links ELSE [links EXCEPT !.prev[q] = n]
        /\ call' = [call EXCEPT ![c].pc = "publish"]
        /\ UNCHANGED <<wlife, wowner, wmask, open, anchored, em, freed, selected, harm, crossed>>
    BY <1>9, <2>1, <2>2 DEF BackLink, Goto, windows
  <2>4. n \in MaskNodes
    BY <1>4, <2>1, <2>3 DEF Enters
  <2>5. [links.prev EXCEPT ![q] = n] \in [MaskNodes -> MaskNodes \cup {NULL}]
    BY <1>3, <2>4
  <2>6. q # NULL => links' = [next |-> links.next, prev |-> [links.prev EXCEPT ![q] = n]]
    BY <1>3, <2>3
  <2>7. links' \in LinksType
    BY <1>2, <1>3, <2>3, <2>5, <2>6 DEF LinksType
  <2>8. call' \in [MaskClients -> CallType]
    BY <2>3, GotoKeepsType DEF Places
  <2> QED BY <1>1, <1>2, <2>3, <2>7, <2>8
<1>10. ASSUME Publish(c) PROVE MasksTypeOK'
  <2>1. PICK x : x = ChainOf(c)
    OBVIOUS
  <2>2. PICK n : n = call[c].new
    OBVIOUS
  <2>3. PICK e : e = Em2(PairOf(n))
    OBVIOUS
  <2>4. /\ call[c].pc = "publish"
        /\ links' = [links EXCEPT !.next[Anchor(x)] = n]
        /\ \/ call' = [call EXCEPT ![c] = [@ EXCEPT !.pc = "link", !.new = e, !.nxt = NULL]]
           \/ call' = [call EXCEPT ![c] = [@ EXCEPT !.pc = "or"]]
        /\ UNCHANGED <<wlife, wowner, wmask, open, anchored, em, freed, selected, harm, crossed>>
    BY <1>10, <2>1, <2>2, <2>3 DEF Publish, windows
  <2>5. n \in ChainNodes /\ e \in ChainNodes
    BY <1>4, <2>2, <2>3, <2>4, NodeKinds DEF Enters
  <2>6. links' = [next |-> [links.next EXCEPT ![Anchor(x)] = n], prev |-> links.prev]
    BY <1>3, <2>4
  <2>7. [links.next EXCEPT ![Anchor(x)] = n] \in [MaskNodes -> ChainNodes \cup {NULL}]
    BY <1>3, <2>5
  <2>8. links' \in LinksType
    BY <1>3, <2>6, <2>7 DEF LinksType
  <2>9. /\ [call[c] EXCEPT !.pc = "link", !.new = e, !.nxt = NULL] \in CallType
        /\ [call[c] EXCEPT !.pc = "or"] \in CallType
    BY <1>2, <2>5 DEF CallType, Places
  <2>10. call' \in [MaskClients -> CallType]
    BY <2>4, <2>9, CallKeepsType
  <2> QED BY <1>1, <1>2, <2>4, <2>8, <2>10
<1>11. ASSUME OrMask(c) PROVE MasksTypeOK'
  <2>1. PICK w : w = call[c].w
    OBVIOUS
  <2>2. PICK mask : mask = call[c].mask
    OBVIOUS
  <2>3. /\ call[c].pc = "or"
        /\ wmask' = [wmask EXCEPT ![w] = @ \cup mask]
        /\ selected' = [selected EXCEPT ![w][c] = mask]
        /\ call' = [call EXCEPT ![c] = Idle]
        /\ UNCHANGED <<wlife, wowner, anchored, links, em, freed, open, harm, crossed>>
    BY <1>11, <2>1, <2>2 DEF OrMask, chains
  <2>4. mask \in SUBSET EventBits
    BY <2>2, CallTyped
  <2>5. call' \in [MaskClients -> CallType]
    BY <2>3, IdleTyped, CallKeepsType
  <2>6. wmask' \in [MaskWindows -> SUBSET EventBits]
    BY <2>3, <2>4 DEF MasksTypeOK
  <2>7. selected' \in [MaskWindows -> [MaskClients -> SUBSET EventBits]]
    BY <2>3, <2>4 DEF MasksTypeOK
  <2> QED BY <2>3, <2>5, <2>6, <2>7 DEF MasksTypeOK, CallType
<1> QED BY <1>5, <1>6, <1>7, <1>8, <1>9, <1>10, <1>11

(* Steps of the daemon.                                                    *)
LEMMA CreateWindowKeepsTypes ==
  ASSUME MasksTypeOK, Sound, NEW c \in MaskClients, NEW w \in MaskWindows,
         NEW mask \in Asked[w] \cup {{}}, CreateWindow(c, w, mask)
  PROVE  MasksTypeOK'
<1>1. /\ c \in open /\ call[c].pc = "idle" /\ wlife[w] = "none"
      /\ wlife' = [wlife EXCEPT ![w] = "live"]
      /\ wowner' = [wowner EXCEPT ![w] = c]
      /\ UNCHANGED <<open, freed, call, harm, crossed>>
  BY DEF CreateWindow
<1>2. /\ wlife' \in [MaskWindows -> {"none", "live", "gone"}]
      /\ wowner' \in [MaskWindows -> MaskClients \cup {NULL}]
  BY <1>1 DEF MasksTypeOK
<1>3. CASE UNCHANGED <<wmask, anchored, links, em, selected>>
  BY <1>1, <1>2, <1>3 DEF MasksTypeOK
<1>4. CASE ~UNCHANGED <<wmask, anchored, links, em, selected>>
  <2>1. PICK p : p = NextPair
    OBVIOUS
  <2>2. /\ Fresh # {}
        /\ em' = [em EXCEPT ![p] = [win |-> w, proc |-> c, mask |-> mask]]
        /\ links' = AddResource(c, Em2(p), AddResource(w, Em1(p), links))
        /\ anchored' = anchored \cup {w, c}
        /\ wmask' = [wmask EXCEPT ![w] = mask]
        /\ selected' = [selected EXCEPT ![w][c] = mask]
    BY <1>4, <2>1 DEF CreateWindow
  <2>3. mask \in SUBSET EventBits
    BY MaskAssumption
  <2>4. p \in Pairs /\ p \notin Made
    BY <2>1, <2>2, NextPairIsFresh
  <2>5. w \notin anchored
    BY <1>1 DEF Sound, LivesHold
  <2>6. links' \in LinksType
    BY <1>1, <2>2, <2>4, <2>5, AddResources
  <2>7. [win |-> w, proc |-> c, mask |-> mask] \in PairType
    BY <2>3 DEF PairType
  <2>8. em' \in [Pairs -> PairType \cup {NULL}]
    BY <2>2, <2>4, <2>7 DEF MasksTypeOK
  <2>9. /\ wmask' \in [MaskWindows -> SUBSET EventBits]
        /\ selected' \in [MaskWindows -> [MaskClients -> SUBSET EventBits]]
        /\ anchored' \subseteq MaskWindows \cup MaskClients
    BY <2>2, <2>3 DEF MasksTypeOK
  <2> QED BY <1>1, <1>2, <2>6, <2>8, <2>9 DEF MasksTypeOK, LinksType
<1> QED BY <1>3, <1>4

(* Daemon_freeEventMask, whoever is hurt.                                  *)
LEMMA FreeMasksKeepsTypes ==
  ASSUME MasksTypeOK, NEW gone, NEW procs, FreeMasks(gone, procs),
         open' \subseteq open, call' \in [MaskClients -> CallType],
         UNCHANGED <<wowner, wmask, em, crossed>>
  PROVE  MasksTypeOK'
<1>1. PICK met : met = UNION {Chain(x) : x \in gone \cup procs}
  OBVIOUS
<1>2. PICK pairs : pairs = {PairOf(n) : n \in met}
  OBVIOUS
<1>3. /\ links' = FreeEventMask(met, links)
      /\ freed' = freed \cup pairs
      /\ anchored' = anchored \ (gone \cup procs)
      /\ wlife' = [w \in MaskWindows |-> IF w \in gone THEN "gone" ELSE wlife[w]]
      /\ harm' \in BOOLEAN
      /\ selected' = [w \in MaskWindows |-> [c \in MaskClients |->
                        IF w \in gone \/ c \in procs THEN {} ELSE selected[w][c]]]
  BY <1>1, <1>2 DEF FreeMasks
<1>4. met \in SUBSET ChainNodes
  BY <1>1, ChainsAreReached
<1>5. links' \in LinksType
  BY <1>3, <1>4, LinksTyped, FreeEventMaskKeepsLinks
<1>6. pairs \subseteq Pairs
  BY <1>2, <1>4, NodeKinds
<1>7. /\ freed' \subseteq Pairs /\ anchored' \subseteq MaskWindows \cup MaskClients
      /\ wlife' \in [MaskWindows -> {"none", "live", "gone"}]
      /\ selected' \in [MaskWindows -> [MaskClients -> SUBSET EventBits]]
  BY <1>3, <1>6 DEF MasksTypeOK
<1> QED BY <1>3, <1>5, <1>7 DEF MasksTypeOK, LinksType, CallType

(* Windows are destroyed and processes leave.                              *)
LEMMA DaemonKeepsTypes ==
  ASSUME MasksTypeOK, NEW c \in MaskClients,
         FreeResources(c) \/ \E w \in MaskWindows : DestroyWindow(c, w)
  PROVE  MasksTypeOK'
<1>1. call \in [MaskClients -> CallType]
  BY DEF MasksTypeOK, CallType
<1>2. ASSUME NEW w \in MaskWindows, DestroyWindow(c, w) PROVE MasksTypeOK'
  <2>1. FreeMasks({w}, {}) /\ UNCHANGED <<wowner, wmask, open, em, call, crossed>>
    BY <1>2 DEF DestroyWindow
  <2> QED BY <1>1, <2>1, FreeMasksKeepsTypes
<1>3. CASE FreeResources(c)
  <2>1. PICK gone : gone = {w \in MaskWindows : wlife[w] = "live" /\ wowner[w] = c}
    OBVIOUS
  <2>2. /\ FreeMasks(gone, {c})
        /\ open' = open \ {c}
        /\ call' = [call EXCEPT ![c] = Idle]
        /\ UNCHANGED <<wowner, wmask, em, crossed>>
    BY <1>3, <2>1 DEF FreeResources
  <2>3. call' \in [MaskClients -> CallType] /\ open' \subseteq open
    BY <2>2, IdleTyped, CallKeepsType
  <2> QED BY <2>2, <2>3, FreeMasksKeepsTypes
<1> QED BY <1>2, <1>3
-----------------------------------------------------------------------------
(* At first there are no windows, no chains and no calls.                  *)
LEMMA InitialMasks == MasksInit => MasksTypeOK /\ Sound
<1> SUFFICES ASSUME MasksInit PROVE MasksTypeOK /\ Sound
  OBVIOUS
<1> USE DEF MasksInit
<1>1. MasksTypeOK
  <2>1. call \in [MaskClients -> CallType]
    BY IdleTyped
  <2>2. links \in LinksType
    BY DEF LinksType
  <2> QED BY <2>1, <2>2 DEF MasksTypeOK, CallType, LinksType
<1>2. \A x : Chain(x) = {}
  BY DEF Chain
<1>3. \A c \in MaskClients : call[c].pc = "idle" /\ call[c].new = NULL /\ call[c].nxt = NULL
  BY DEF Idle
<1>4. Made = {}
  BY DEF Made, Fresh
<1>5. NodesHold /\ RingsHold /\ LivesHold /\ OneMask
  BY <1>2 DEF NodesHold, RingsHold, LivesHold, OneMask
<1>6. CallersHold
  BY <1>3 DEF CallersHold, LookHolds, CallHolds, InCall, AddHolds, Enters, BetweenHolds,
              Between, DeadHolds
<1>7. OneAtATime /\ PairsHold
  BY <1>3, <1>4 DEF OneAtATime, Between, PairsHold
<1>8. SelectedHold
  BY <1>2 DEF SelectedHold
<1>9. KeyPressHold
  BY <1>2, <1>3 DEF KeyPressHold, Alone, InCall, Receivers
<1> QED BY <1>1, <1>5, <1>6, <1>7, <1>8, <1>9 DEF Sound

(* All steps keep the types ...                                            *)
LEMMA StepKeepsTypes ==
  ASSUME MasksTypeOK, Sound, MasksNext
  PROVE  MasksTypeOK'
<1>1. ASSUME NEW c \in MaskClients, NEW w \in MaskWindows,
             NEW mask \in Asked[w], SelectInput(c, w, mask)
      PROVE  MasksTypeOK'
  BY <1>1, LookKeepsTypes
<1>2. ASSUME NEW c \in MaskClients, NEW w \in MaskWindows,
             NEW mask \in Asked[w] \cup {{}}, CreateWindow(c, w, mask)
      PROVE  MasksTypeOK'
  BY <1>2, CreateWindowKeepsTypes
<1>3. ASSUME NEW c \in MaskClients, NEW w \in MaskWindows, DestroyWindow(c, w)
      PROVE  MasksTypeOK'
  BY <1>3, DaemonKeepsTypes
<1>4. ASSUME NEW c \in MaskClients, FreeResources(c) PROVE MasksTypeOK'
  BY <1>4, DaemonKeepsTypes
<1>5. ASSUME NEW c \in MaskClients,
             CheckEventMask(c) \/ FindOther(c) \/ MissAnchor(c) \/ DieInCall(c)
      PROVE  MasksTypeOK'
  BY <1>5, LookKeepsTypes
<1>6. ASSUME NEW c \in MaskClients,
             \/ FindOwn(c) \/ FindNone(c) \/ CreateAnchor(c) \/ Link(c) \/ BackLink(c)
             \/ Publish(c) \/ OrMask(c)
      PROVE  MasksTypeOK'
  BY <1>6, StoreKeepsTypes
<1> QED BY <1>1, <1>2, <1>3, <1>4, <1>5, <1>6 DEF MasksNext

(* ... and all that hurt nobody keep what is sound.                        *)
LEMMA StepKeepsSound ==
  ASSUME MasksTypeOK, Sound, MasksNext, ~harm'
  PROVE  Sound'
<1>1. ASSUME NEW c \in MaskClients, NEW w \in MaskWindows,
             \/ \E mask \in Asked[w] : SelectInput(c, w, mask)
             \/ \E mask \in Asked[w] \cup {{}} : CreateWindow(c, w, mask)
             \/ DestroyWindow(c, w)
      PROVE  Sound'
  BY <1>1, SelectInputKeeps, CreateWindowKeeps, DestroyWindowKeeps
<1>2. ASSUME NEW c \in MaskClients,
             CheckEventMask(c) \/ FindOther(c) \/ FindOwn(c) \/ FindNone(c)
      PROVE  Sound'
  BY <1>2, CheckEventMaskKeeps, FindOtherKeeps, FindOwnKeeps, FindNoneKeeps
<1>3. ASSUME NEW c \in MaskClients,
             MissAnchor(c) \/ CreateAnchor(c) \/ Link(c) \/ BackLink(c) \/ Publish(c) \/ OrMask(c)
      PROVE  Sound'
  BY <1>3, MissAnchorKeeps, CreateAnchorKeeps, LinkKeeps, BackLinkKeeps, PublishKeeps, OrMaskKeeps
<1>4. ASSUME NEW c \in MaskClients, FreeResources(c) \/ DieInCall(c)
      PROVE  Sound'
  BY <1>4, FreeResourcesKeeps, DieInCallKeeps
<1> QED BY <1>1, <1>2, <1>3, <1>4 DEF MasksNext

THEOREM MaskInvariant == MasksSpec => []MaskInv
<1>1. MasksInit => MaskInv
  BY InitialMasks DEF MaskInv
<1>2. MaskInv /\ [MasksNext]_maskVars => MaskInv'
  <2> SUFFICES ASSUME MaskInv, [MasksNext]_maskVars PROVE MaskInv'
    OBVIOUS
  <2>1. ASSUME MasksNext PROVE MaskInv'
    <3>1. MasksTypeOK /\ Sound
      BY <2>1 DEF MaskInv, MasksNext
    <3>2. MasksTypeOK'
      BY <2>1, <3>1, StepKeepsTypes
    <3>3. ~harm' => Sound'
      BY <2>1, <3>1, StepKeepsSound
    <3> QED BY <3>2, <3>3 DEF MaskInv
  <2>2. ASSUME UNCHANGED maskVars PROVE MaskInv'
    <3>1. UNCHANGED <<wlife, wowner, wmask, anchored, links, em, freed, open, call,
                      selected, harm, crossed>>
      BY <2>2 DEF maskVars, windows, chains
    <3>2. MasksTypeOK' <=> MasksTypeOK
      BY <3>1 DEF MasksTypeOK
    <3>3. Sound' <=> Sound
      BY <3>1 DEF Sound, NodesHold, RingsHold, LivesHold, OneMask, CallersHold, OneAtATime,
                  PairsHold, SelectedHold, KeyPressHold, Made, Fresh, ProcOf, Owner, InChains,
                  Redirected, Chain, LookHolds, Met, Stands, CallHolds, InCall, AddHolds, Enters,
                  ChainOf, BetweenHolds, Between, DeadHolds, Unfinished, Complete, Alone, Receivers
    <3> QED BY <2>2, <3>1, <3>2, <3>3 DEF MaskInv
  <2> QED BY <2>1, <2>2
<1> QED BY <1>1, <1>2, PTL DEF MasksSpec

(* The type invariant, for any windows, clients and masks.                 *)
THEOREM MasksTyped == MasksSpec => []MasksTypeOK
<1>1. MaskInv => MasksTypeOK
  BY DEF MaskInv
<1> QED BY <1>1, MaskInvariant, PTL

(* Daemon_doEvent and Daemon_freeEventMask may walk any chain between any  *)
(* two stores of a client in addResource: what they meet is complete, not  *)
(* freed, of a process that still has an EB_Process, and in its own chain. *)
THEOREM WalksSafe == MasksSpec => []WalksAreSafe
<1>1. MaskInv => WalksAreSafe
  <2> SUFFICES ASSUME MaskInv, ~harm, NEW x \in anchored, NEW n \in Chain(x)
               PROVE  /\ PairOf(n) \notin freed
                      /\ em[PairOf(n)].proc \in open
                      /\ x = IF n[1] = "em1" THEN em[PairOf(n)].win ELSE em[PairOf(n)].proc
    BY DEF WalksAreSafe
  <2>1. NodesHold
    BY DEF MaskInv, Sound
  <2>2. PairOf(n) \in Made \ freed /\ ProcOf(n) \in open /\ Owner(n) = x
    BY <2>1 DEF NodesHold
  <2> QED BY <2>2 DEF ProcOf, Owner
<1> QED BY <1>1, MaskInvariant, PTL

(* No pair of nodes is lost: both are in their chains, and the back links  *)
(* lead to where the links came from, whatever the daemon frees and other  *)
(* clients add between the stores of a call.                               *)
THEOREM ChainsStayIntact == MasksSpec => []ChainsIntact
<1>1. MaskInv => ChainsIntact
  <2> SUFFICES ASSUME MaskInv, ~harm, NEW m \in Pairs \ (freed \cup Fresh), em[m].proc \in open
               PROVE  \/ \E c \in MaskClients : call[c].new \in {Em1(m), Em2(m)}
                      \/ /\ Em1(m) \in Chain(em[m].win) /\ Em2(m) \in Chain(em[m].proc)
                         /\ \A n \in {Em1(m), Em2(m)} :
                              \/ links.next[links.prev[n]] = n
                              \/ \E c \in MaskClients : call[c].pc = "publish" /\ call[c].nxt = n
    BY DEF ChainsIntact
  <2>1. MasksTypeOK /\ NodesHold /\ RingsHold /\ PairsHold
    BY DEF MaskInv, Sound
  <2>2. Unfinished(m) \/ Complete(m)
    BY <2>1 DEF PairsHold, Made
  <2>3. CASE Unfinished(m)
    BY <2>3 DEF Unfinished
  <2>4. ASSUME NEW x, NEW n \in Chain(x)
        PROVE  \/ links.next[links.prev[n]] = n
               \/ \E c \in MaskClients : call[c].pc = "publish" /\ call[c].nxt = n
    <3>1. x \in anchored /\ n \in ChainNodes
      BY <2>1, <2>4, ChainsHaveOwn
    <3>2. x \in Owners /\ Chain(x) = NodesFrom(links, x) /\ links \in LinksType
      BY <2>1, <3>1, ChainsAreReached, LinksTyped
    <3>3. PICK p \in NodesFrom(links, x) \cup {Anchor(x)} : links.next[p] = n
      BY <2>4, <3>2, HasPredecessor
    <3>4. n # NULL
      BY <3>1, NodeKinds
    <3>5. CASE n \in Redirected
      BY <3>5 DEF Redirected
    <3>6. CASE n \notin Redirected
      <4>1. Ring(links, x, Redirected)
        BY <2>1, <3>1 DEF RingsHold
      <4>2. links.prev[n] = p
        BY <3>3, <3>4, <3>6, <4>1 DEF Ring
      <4> QED BY <3>3, <4>2
    <3> QED BY <3>5, <3>6
  <2>5. CASE Complete(m)
    <3>1. Em1(m) \in Chain(em[m].win) /\ Em2(m) \in Chain(em[m].proc)
      BY <2>5 DEF Complete
    <3> QED BY <3>1, <2>4
  <2> QED BY <2>2, <2>3, <2>5
<1> QED BY <1>1, MaskInvariant, PTL

(* A client gets an event of a window once if its last XSelectInput there  *)
(* to return has asked for it, and not at all if it has not.               *)
THEOREM SelectorsGet == MasksSpec => []SelectorsGetEvents
<1>1. MaskInv => SelectorsGetEvents
  <2> SUFFICES ASSUME MaskInv, ~harm, NEW w \in MaskWindows, wlife[w] = "live",
                      NEW b \in EventBits, NEW c \in open, call[c].pc = "idle",
                      NEW mine, mine = {n \in Chain(w) : em[PairOf(n)].proc = c
                                                       /\ b \in em[PairOf(n)].mask}
               PROVE  /\ b \in selected[w][c] => b \in wmask[w] /\ \E n \in mine : mine = {n}
                      /\ b \notin selected[w][c] => mine = {}
    BY DEF SelectorsGetEvents
  <2>1. SelectedHold /\ OneMask
    BY DEF MaskInv, Sound
  <2>2. /\ selected[w][c] \subseteq wmask[w]
        /\ \A n \in Chain(w) : ProcOf(n) = c => em[PairOf(n)].mask = selected[w][c]
        /\ (\A n \in Chain(w) : ProcOf(n) # c) => selected[w][c] = {}
    BY <2>1 DEF SelectedHold
  <2>3. \A n : n \in mine <=> n \in Chain(w) /\ ProcOf(n) = c /\ b \in em[PairOf(n)].mask
    BY DEF ProcOf
  <2>4. b \notin selected[w][c] => mine = {}
    BY <2>2, <2>3
  <2>5. ASSUME b \in selected[w][c] PROVE \E n \in mine : mine = {n}
    <3>1. PICK n \in Chain(w) : ProcOf(n) = c
      BY <2>2, <2>5
    <3>2. n \in mine
      BY <2>2, <2>3, <2>5, <3>1
    <3>3. \A k \in mine : k = n
      BY <2>1, <2>3, <3>1 DEF OneMask
    <3> QED BY <3>2, <3>3
  <2> QED BY <2>2, <2>4, <2>5
<1> QED BY <1>1, MaskInvariant, PTL

(* Two clients have KeyPress of a window only if their calls of            *)
(* XSelectInput for it have overlapped.                                    *)
THEOREM OneHasKeyPress == MasksSpec => []OneKeyPressClient
<1>1. MaskInv => OneKeyPressClient
  BY DEF MaskInv, Sound, KeyPressHold, Alone, OneKeyPressClient
<1> QED BY <1>1, MaskInvariant, PTL
=============================================================================
