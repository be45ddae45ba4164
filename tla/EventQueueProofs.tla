--------------------------- MODULE EventQueueProofs ---------------------------
(***************************************************************************)
(* Proofs about EventQueue, for any number of displays and events, and for *)
(* pipes of any size.                                                      *)
(*                                                                         *)
(* What an _XQEvent is used for cannot be read off the links alone: an     *)
(* event that a race has lost is in no list, and its links are still       *)
(* there.  The invariant says that the structures can be divided, each     *)
(* with one display that owns it and one use, such that the lists and the  *)
(* locals of the clients keep to that division.                            *)
(***************************************************************************)
EXTENDS EventQueue, FiniteSetTheorems, SequenceTheorems, TLAPS

Uses == {"fresh", "queued", "taken", "free"}

(* Displays that Daemon_doEvent has still to link the event for.           *)
Pending(d) == \E i \in DOMAIN todo : todo[i] = d /\ (written # None => i # 1)

(* Copies that it has still to make.                                       *)
ToCopy == IF todo = <<>> THEN 0
          ELSE IF copy /\ written = None THEN Len(todo) ELSE Len(todo) - 1

DaemonInv ==
    /\ \A i, j \in DOMAIN todo : i # j => todo[i] # todo[j]
    /\ written # None => todo # <<>>
    /\ todo # <<>> => orig \in 1 .. nnodes /\ event[orig] \in Events
    /\ nnodes + ToCopy <= nevents * Cardinality(Displays)

FreshInv(own, use) ==
    /\ \A n \in Nodes : use[n] # "fresh" => n <= nnodes
    /\ todo # <<>> /\ written = None /\ ~copy => use[orig] = "fresh"

Is(n, d, u, own, use) == n \in Nodes /\ own[n] = d /\ use[n] = u

(* head and tail of a display, and its free list, are its own.  Nothing is *)
(* behind tail, and head is set only if tail is.                           *)
EndsOf(d, own, use) ==
    /\ head[d] # None => Is(head[d], d, "queued", own, use)
    /\ tail[d] # None => /\ \/ Is(tail[d], d, "queued", own, use)
                            \/ pc[d] = "tail" /\ tail[d] = qelt[d]
                         /\ next[tail[d]] = None
    /\ qfree[d] # None => Is(qfree[d], d, "free", own, use)
    /\ tail[d] = None => head[d] = None \/ pc[d] = "puttail"

(* next does not lead out of the display or from one use to another, but   *)
(* from an _XQEvent that is being taken out ...                            *)
StaysIn(own, use) ==
    \A n \in Nodes : next[n] # None =>
        /\ use[n] \in {"queued", "taken"} => Is(next[n], own[n], "queued", own, use)
        /\ use[n] = "free" => Is(next[n], own[n], "free", own, use)

(* ... no two of the same use have the same next ...                       *)
OneBefore(own, use) ==
    \A m, n \in Nodes :
        next[m] # None /\ next[m] = next[n] /\ use[m] = use[n] /\ use[m] \in {"queued", "free"}
          => m = n

(* ... and none the first one of its list, unless XPutBackEvent is about   *)
(* to make it the first.                                                   *)
NoneBefore(own, use) ==
    \A n \in Nodes : next[n] # None =>
        /\ use[n] = "free" => next[n] # qfree[own[n]]
        /\ use[n] = "queued" /\ next[n] = head[own[n]]
             => pc[own[n]] = "putback" /\ n = qelt[own[n]]

(* What the client knows of the _XQEvent it works on, between its own      *)
(* accesses and whatever the daemon links meanwhile.                       *)
ClientOf(d, own, use) ==
    /\ pc[d] \in {"read", "load", "store"} =>
          /\ Is(qelt[d], d, "queued", own, use)
          /\ tail[d] # None
          /\ prev[d] = None => head[d] = qelt[d]
          /\ prev[d] # None => /\ Is(prev[d], d, "queued", own, use)
                               /\ next[prev[d]] = qelt[d] /\ prev[d] # qelt[d]
    /\ pc[d] = "store" /\ loaded[d] # None => next[qelt[d]] = loaded[d]
    /\ pc[d] = "tail" =>
          /\ tail[d] # None /\ tail[d] # prev[d]
          /\ prev[d] = None => head[d] = None
          /\ prev[d] # None => /\ Is(prev[d], d, "queued", own, use)
                               /\ next[prev[d]] = None
    /\ pc[d] \in {"tail", "free"} => Is(qelt[d], d, "taken", own, use)
    /\ \A n \in Nodes : own[n] = d /\ use[n] = "taken" => pc[d] \in {"tail", "free"} /\ n = qelt[d]
    /\ pc[d] \in {"putback", "puttail"} =>
          /\ Is(qelt[d], d, "queued", own, use)
          /\ tail[d] # qelt[d]
          /\ tail[d] = None => next[qelt[d]] = None
          /\ \A n \in Nodes : use[n] = "queued" => next[n] # qelt[d]
    /\ pc[d] \in {"read", "load", "store", "tail", "free"} => taken[d] = event[qelt[d]]

EventsInv(own, use) ==
    \A n \in Nodes : use[n] \in {"queued", "taken"} => event[n] \in Events

ShapeInv(own, use) ==
    /\ own \in [Nodes -> Displays] /\ use \in [Nodes -> Uses]
    /\ FreshInv(own, use)
    /\ \A d \in Displays : EndsOf(d, own, use)
    /\ StaysIn(own, use) /\ OneBefore(own, use) /\ NoneBefore(own, use)
    /\ \A d \in Displays : ClientOf(d, own, use)
    /\ EventsInv(own, use)

(* Each event is sent once to a display.                                   *)
Held(d, e, own, use) ==
    {n \in Nodes : own[n] = d /\ use[n] \in {"queued", "taken"} /\ event[n] = e}
Sent(d, e) == IF e < nevents \/ (e = nevents /\ ~Pending(d)) THEN 1 ELSE 0
CountOf(d, e, own, use) ==
    Times(got[d], e) + Cardinality(Held(d, e, own, use)) <= Sent(d, e) + Times(putbacks[d], e)
Counted(own, use) ==
    /\ \A d \in Displays, e \in Events : CountOf(d, e, own, use)
    /\ \A d \in Displays : Pending(d) => event[orig] = nevents

(* What is behind is later, and what is returned is before what is queued. *)
OrderOf(d) ==
    /\ Pending(d) => event[orig] = nevents
    /\ pc[d] \notin {"putback", "puttail"}
    /\ pc[d] \notin {"out", "next", "trapped"} => prev[d] = None
    /\ \A i \in DOMAIN got[d] :
          /\ got[d][i] <= nevents
          /\ Pending(d) => got[d][i] < nevents
          /\ head[d] # None => got[d][i] < event[head[d]]
          /\ pc[d] \in {"tail", "free"} => got[d][i] < event[qelt[d]]
    /\ pc[d] \in {"tail", "free"} /\ head[d] # None => event[qelt[d]] < event[head[d]]
    /\ \A i, j \in DOMAIN got[d] : i < j => got[d][i] < got[d][j]
OrderOfNode(n, own, use) ==
    use[n] \in {"queued", "taken"} =>
       /\ event[n] <= nevents
       /\ Pending(own[n]) => event[n] < nevents
       /\ next[n] # None => event[n] < event[next[n]]
Ordered(own, use) == /\ \A d \in Displays : OrderOf(d)
                     /\ \A n \in Nodes : OrderOfNode(n, own, use)

Inv == /\ TypeOK /\ DaemonInv /\ PipeCounts
       /\ \E own, use : ShapeInv(own, use)

-------------------------------------------------------------------------------
(* _XQEvents are numbers, and there is one for each display of each event. *)
LEMMA NodeFacts ==
    /\ Cardinality(Displays) \in Nat \ {0}
    /\ MaxEvents * Cardinality(Displays) \in Nat
    /\ Nodes \subseteq Nat \ {0} /\ None \notin Nodes
    /\ \A n : n \in Nodes <=> n \in Nat /\ 1 <= n /\ n <= MaxEvents * Cardinality(Displays)
    /\ IsFiniteSet(Nodes) /\ Cardinality(Nodes) = MaxEvents * Cardinality(Displays)
  <1>1. Cardinality(Displays) \in Nat \ {0}
    BY QueueAssumption, FS_CardinalityType, FS_EmptySet
  <1>2. MaxEvents * Cardinality(Displays) \in Nat
    BY <1>1, QueueAssumption
  <1>3. IsFiniteSet(Nodes) /\ Cardinality(Nodes) = MaxEvents * Cardinality(Displays)
    BY <1>2, FS_Interval DEF Nodes
  <1> QED BY <1>1, <1>2, <1>3, NoneAssumption DEF Nodes

(* The events of k displays each.                                          *)
LEMMA Room ==
    ASSUME NEW j \in Nat, NEW k \in Nat
    PROVE  /\ j * Cardinality(Displays) \in Nat
           /\ (j + 1) * Cardinality(Displays) = j * Cardinality(Displays) + Cardinality(Displays)
           /\ j <= k => j * Cardinality(Displays) <= k * Cardinality(Displays)
  <1> DEFINE c == Cardinality(Displays)
  <1>1. c \in Nat
    BY NodeFacts
  <1> HIDE DEF c
  <1>2. j * c \in Nat /\ (j + 1) * c = j * c + c
    BY <1>1
  <1>3. ASSUME j <= k PROVE j * c <= k * c
    <2>1. PICK i \in Nat : k = j + i
      BY <1>3
    <2>2. k * c = j * c + i * c /\ i * c \in Nat
      BY <1>1, <2>1
    <2> QED BY <1>2, <2>2
  <1> QED BY <1>2, <1>3 DEF c

(* After the step of an event: there is room for its first _XQEvent and    *)
(* for all its copies.                                                     *)
LEMMA RoomForEvent ==
    ASSUME TypeOK, DaemonInv, todo = <<>>, nevents < MaxEvents
    PROVE  /\ nnodes + Cardinality(Displays) <= (nevents + 1) * Cardinality(Displays)
           /\ nnodes + 1 \in Nodes
  <1>1. nnodes <= nevents * Cardinality(Displays) /\ nnodes \in Nat /\ nevents \in Nat
    BY NodeFacts DEF DaemonInv, ToCopy, TypeOK
  <1>2. (nevents + 1) * Cardinality(Displays) <= MaxEvents * Cardinality(Displays)
    BY <1>1, Room, QueueAssumption
  <1>3. (nevents + 1) * Cardinality(Displays)
          = nevents * Cardinality(Displays) + Cardinality(Displays)
    BY <1>1, Room
  <1>4. nevents * Cardinality(Displays) \in Nat
    BY <1>1, Room
  <1> QED BY <1>1, <1>2, <1>3, <1>4, NodeFacts

(* ... and while copies have to be made there is room for the next.        *)
LEMMA RoomForCopy ==
    ASSUME TypeOK, DaemonInv, todo # <<>>, written = None, copy
    PROVE  nnodes + 1 \in Nodes
  <1>1. ToCopy >= 1 /\ ToCopy \in Nat
    BY DEF ToCopy, TypeOK
  <1>2. nevents * Cardinality(Displays) <= MaxEvents * Cardinality(Displays)
    BY Room, QueueAssumption DEF TypeOK
  <1>3. nevents * Cardinality(Displays) \in Nat
    BY Room, QueueAssumption DEF TypeOK
  <1>4. nnodes \in Nat /\ nnodes + ToCopy <= nevents * Cardinality(Displays)
    BY NodeFacts DEF DaemonInv, TypeOK
  <1> QED BY <1>1, <1>2, <1>3, <1>4, NodeFacts

LEMMA InitShape ==
    ASSUME Init
    PROVE  \E own, use : ShapeInv(own, use) /\ use = [n \in Nodes |-> "fresh"]
  <1>1. PICK d0 \in Displays : TRUE
    BY QueueAssumption
  <1> DEFINE own == [n \in Nodes |-> d0]
             use == [n \in Nodes |-> "fresh"]
  <1>2. ShapeInv(own, use)
    BY <1>1, NodeFacts DEF Init, All, ShapeInv, FreshInv, EndsOf, StaysIn, OneBefore, NoneBefore,
         ClientOf, EventsInv, Uses, Is
  <1> QED BY <1>2

LEMMA InitInv == Init => Inv
  <1> SUFFICES ASSUME Init PROVE Inv
    OBVIOUS
  <1>1. TypeOK
    <2> USE DEF Init, TypeOK, All
    <2>1. /\ next \in [Nodes -> MaybeNode]
          /\ {head, tail, qfree, qelt, prev, loaded} \subseteq [Displays -> MaybeNode]
          /\ {orig, written} \subseteq MaybeNode
      BY DEF MaybeNode
    <2>2. nnodes \in 0 .. Cardinality(Nodes) /\ nevents \in 0 .. MaxEvents
      BY NodeFacts, QueueAssumption
    <2>3. qlen \in [Displays -> Nat] /\ dropped \in [Displays -> Nat]
          /\ checks \in [Displays -> 0 .. MaxChecks]
      BY QueueAssumption
    <2>4. /\ pipe \in [Displays -> Seq(Nodes)]
          /\ \A d \in Displays : Len(pipe[d]) <= PipeCap
          /\ todo \in Seq(Displays)
          /\ {got, putbacks} \subseteq [Displays -> Seq(Events)]
      BY QueueAssumption
    <2> QED BY <2>1, <2>2, <2>3, <2>4
  <1>2. DaemonInv
    BY NodeFacts, Room DEF Init, DaemonInv, ToCopy
  <1>3. PipeCounts
    BY DEF Init, PipeCounts, All, Addressed, Silent, Linked, Reading, Putting
  <1>4. \E own, use : ShapeInv(own, use)
    BY InitShape
  <1> QED BY <1>1, <1>2, <1>3, <1>4 DEF Inv

(* The window's clients, each once.                                        *)
LEMMA Targets ==
    ASSUME DoEvent
    PROVE  /\ todo' \in Seq(Displays) /\ Len(todo') \in Nat
           /\ Len(todo') <= Cardinality(Displays)
           /\ \A i, j \in DOMAIN todo' : i # j => todo'[i] # todo'[j]
  <1>1. PICK k \in 0 .. Cardinality(Displays) : todo' \in [1 .. k -> Displays]
    BY DEF DoEvent
  <1>2. k \in Nat /\ k <= Cardinality(Displays)
    BY <1>1, NodeFacts
  <1>3. todo' \in Seq(Displays)
    BY <1>1, <1>2, SeqDef
  <1>4. Len(todo') = k
    BY <1>1, <1>2, <1>3, LenProperties
  <1>5. \A i, j \in DOMAIN todo' : i # j => todo'[i] # todo'[j]
    BY DEF DoEvent
  <1> QED BY <1>2, <1>3, <1>4, <1>5

(* While displays are to be served.                                        *)
LEMMA Serving ==
    ASSUME TypeOK, DaemonInv, todo # <<>>
    PROVE  /\ Head(todo) \in Displays /\ Head(todo) = todo[1]
           /\ Len(todo) \in Nat \ {0} /\ DOMAIN todo = 1 .. Len(todo)
           /\ orig \in Nodes /\ orig <= nnodes /\ event[orig] \in Events
  <1>1. todo \in Seq(Displays) /\ nnodes \in 0 .. Cardinality(Nodes)
        /\ orig \in 1 .. nnodes /\ event[orig] \in Events
    BY DEF TypeOK, DaemonInv
  <1>2. orig \in Nodes /\ orig <= nnodes
    BY <1>1, NodeFacts
  <1>3. /\ Head(todo) \in Displays /\ Head(todo) = todo[1]
        /\ Len(todo) \in Nat \ {0} /\ DOMAIN todo = 1 .. Len(todo)
    BY <1>1
  <1> QED BY <1>1, <1>2, <1>3

-------------------------------------------------------------------------------
(* Types.                                                                  *)

LEMMA TypeStep ==
    ASSUME TypeOK, DaemonInv, PipeCounts, NEW own, NEW use, ShapeInv(own, use), [Next]_vars
    PROVE  TypeOK'
  <1>1. CASE DoEvent
    <2>1. nnodes + 1 \in Nodes /\ nevents \in Nat
      BY <1>1, RoomForEvent DEF DoEvent, TypeOK
    <2>2. nnodes + 1 \in 0 .. Cardinality(Nodes) /\ nevents + 1 \in 0 .. MaxEvents
      BY <1>1, <2>1, NodeFacts, QueueAssumption DEF DoEvent
    <2>3. nevents + 1 \in Events
      BY <2>1, <2>2 DEF Events
    <2>4. event' \in [Nodes -> Events \cup {0}]
      BY <1>1, <2>1, <2>3 DEF DoEvent, TypeOK
    <2> QED BY <1>1, <2>1, <2>2, <2>4, Targets
            DEF DoEvent, TypeOK, MaybeNode, locals, history
  <1>2. CASE AddEvent
    <2> DEFINE d == Head(todo)
               n == IF copy THEN nnodes + 1 ELSE orig
    <2>1. todo # <<>> /\ written = None
      BY <1>2 DEF AddEvent
    <2>2. n \in Nodes /\ d \in Displays /\ event[orig] \in Events
      BY <2>1, RoomForCopy, Serving
    <2>3. nnodes' \in 0 .. Cardinality(Nodes)
      <3>1. nnodes \in 0 .. Cardinality(Nodes) /\ nnodes' = IF copy THEN nnodes + 1 ELSE nnodes
        BY <1>2 DEF AddEvent, TypeOK
      <3>2. copy => nnodes + 1 \in Nodes
        BY <2>2
      <3> QED BY <3>1, <3>2, NodeFacts
    <2>4. Link(d, n) /\ event' = [event EXCEPT ![n] = event[orig]] /\ written' = n
          /\ UNCHANGED <<qfree, pipe, nevents, todo, orig, copy, locals, history>>
      BY <1>2 DEF AddEvent
    <2> HIDE DEF d, n
    <2>5. next' \in [Nodes -> MaybeNode]
      BY <2>2, <2>4 DEF Link, TypeOK, MaybeNode
    <2>6. head' \in [Displays -> MaybeNode] /\ tail' \in [Displays -> MaybeNode]
      BY <2>2, <2>4 DEF Link, TypeOK, MaybeNode
    <2>7. qlen' \in [Displays -> Nat]
      BY <2>2, <2>4 DEF Link, TypeOK
    <2>8. event' \in [Nodes -> Events \cup {0}] /\ written' \in MaybeNode
      BY <2>2, <2>4 DEF TypeOK, MaybeNode
    <2> QED BY <2>3, <2>4, <2>5, <2>6, <2>7, <2>8 DEF TypeOK, locals, history
  <1>3. CASE WritePipe
    <2>1. todo # <<>>
      BY <1>3 DEF WritePipe, DaemonInv
    <2>2. Head(todo) \in Displays /\ todo' \in Seq(Displays)
      BY <1>3, <2>1, Serving DEF WritePipe, TypeOK
    <2>3. written \in Nodes
      BY <1>3 DEF WritePipe, TypeOK, MaybeNode
    <2>4. pipe' \in [Displays -> Seq(Nodes)]
      <3>1. pipe[Head(todo)] \in Seq(Nodes) /\ pipe \in [Displays -> Seq(Nodes)]
        BY <2>2 DEF TypeOK
      <3>2. Append(pipe[Head(todo)], written) \in Seq(Nodes)
        BY <3>1, <2>3
      <3> QED BY <1>3, <2>2, <3>1, <3>2 DEF WritePipe
    <2>5. ASSUME NEW d \in Displays PROVE Len(pipe'[d]) <= PipeCap
      <3>1. pipe[d] \in Seq(Nodes) /\ Len(pipe[d]) <= PipeCap /\ PipeCap \in Nat
        BY QueueAssumption DEF TypeOK
      <3>2. \/ pipe'[d] = pipe[d]
            \/ Len(pipe[d]) < PipeCap /\ pipe'[d] = Append(pipe[d], written)
        BY <1>3, <2>2 DEF WritePipe, TypeOK
      <3>3. Len(pipe[d]) \in Nat /\ Len(Append(pipe[d], written)) = Len(pipe[d]) + 1
        BY <2>3, <3>1
      <3> QED BY <3>1, <3>2, <3>3
    <2>6. dropped' \in [Displays -> Nat]
      <3>1. dropped \in [Displays -> Nat]
        BY DEF TypeOK
      <3>2. dropped' = dropped \/ dropped' = [dropped EXCEPT ![Head(todo)] = @ + 1]
        BY <1>3 DEF WritePipe
      <3> QED BY <2>2, <3>1, <3>2
    <2> QED BY <1>3, <2>2, <2>4, <2>5, <2>6
            DEF WritePipe, TypeOK, MaybeNode, queue, locals
  <1> USE DEF TypeOK, MaybeNode, queue, daemonvars, locals, history, Goto
  <1>4. ASSUME NEW d \in Displays, NextEvent(d) \/ TakeNothing(d) PROVE TypeOK'
    BY <1>4 DEF NextEvent, TakeNothing
  <1>5. ASSUME NEW d \in Displays, TakeFirst(d) PROVE TypeOK'
    BY <1>5 DEF TakeFirst
  <1>6. ASSUME NEW d \in Displays, CheckIfEvent(d) PROVE TypeOK'
    <2>1. Listed(head[d]) \subseteq Nodes
      BY DEF Listed
    <2>2. qelt' \in [Displays -> MaybeNode] /\ prev' \in [Displays -> MaybeNode]
          /\ taken' \in [Displays -> Events \cup {0}]
      BY <1>6, <2>1 DEF CheckIfEvent
    <2>3. checks' \in [Displays -> 0 .. MaxChecks]
      <3> HIDE DEF MaybeNode, queue, daemonvars, locals, history, Goto, TypeOK
      <3>1. checks \in [Displays -> 0 .. MaxChecks] /\ checks[d] < MaxChecks
            /\ checks' = [checks EXCEPT ![d] = @ + 1]
        BY <1>6 DEF CheckIfEvent, TypeOK
      <3> QED BY <3>1, QueueAssumption
    <2> QED BY <1>6, <2>2, <2>3 DEF CheckIfEvent
  <1>7. ASSUME NEW d \in Displays, ReadPipe(d) PROVE TypeOK'
    <2>1. pipe' \in [Displays -> Seq(Nodes)] /\ \A e \in Displays : Len(pipe'[e]) <= PipeCap
      BY <1>7, QueueAssumption DEF ReadPipe
    <2> QED BY <1>7, <2>1 DEF ReadPipe
  <1>8. ASSUME NEW d \in Displays, LoadNext(d) PROVE TypeOK'
    <2>1. qelt[d] \in Nodes
      BY <1>8 DEF LoadNext, ShapeInv, ClientOf, Is
    <2> QED BY <1>8, <2>1 DEF LoadNext
  <1>9. ASSUME NEW d \in Displays, StoreNext(d) PROVE TypeOK'
    BY <1>9 DEF StoreNext
  <1>10. ASSUME NEW d \in Displays, StoreTail(d) PROVE TypeOK'
    BY <1>10 DEF StoreTail
  <1>11. ASSUME NEW d \in Displays, FreeElement(d) PROVE TypeOK'
    <2>1. taken[d] \in Events
      BY <1>11 DEF FreeElement, ShapeInv, ClientOf, EventsInv, Is
    <2>2. qlen[d] >= 1
      <3> HIDE DEF MaybeNode, queue, daemonvars, locals, history, TypeOK
      <3>1. Reading(d) = 1 /\ Putting(d) = 0 /\ Linked(d) \in {0, 1}
        BY <1>11 DEF FreeElement, Reading, Putting, Linked
      <3>2. /\ qlen[d] \in Nat /\ Len(pipe[d]) \in Nat
            /\ dropped[d] \in Nat /\ Len(putbacks[d]) \in Nat
        BY DEF TypeOK
      <3> QED BY <3>1, <3>2 DEF PipeCounts, Addressed, Silent
    <2>3. got' \in [Displays -> Seq(Events)] /\ qlen' \in [Displays -> Nat]
      BY <1>11, <2>1, <2>2 DEF FreeElement
    <2> QED BY <1>11, <2>3 DEF FreeElement
  <1>12. ASSUME NEW d \in Displays, PutBack(d) PROVE TypeOK'
    <2>1. PICK i \in DOMAIN got[d] :
            /\ event' = [event EXCEPT ![qfree[d]] = got[d][i]]
            /\ putbacks' = [putbacks EXCEPT ![d] = Append(@, got[d][i])]
      BY <1>12 DEF PutBack
    <2>2. got[d][i] \in Events /\ qfree[d] \in Nodes
      BY <1>12, <2>1 DEF PutBack
    <2>3. event' \in [Nodes -> Events \cup {0}] /\ putbacks' \in [Displays -> Seq(Events)]
      BY <2>1, <2>2
    <2> QED BY <1>12, <2>2, <2>3 DEF PutBack
  <1>13. ASSUME NEW d \in Displays, PutBackHead(d) PROVE TypeOK'
    BY <1>13 DEF PutBackHead
  <1>14. ASSUME NEW d \in Displays, PutBackTail(d) PROVE TypeOK'
    BY <1>14 DEF PutBackTail
  <1>15. CASE UNCHANGED vars
    BY <1>15 DEF vars
  <1> QED BY <1>1, <1>2, <1>3, <1>4, <1>5, <1>6, <1>7, <1>8, <1>9, <1>10, <1>11, <1>12, <1>13,
             <1>14, <1>15 DEF Next, Daemon, Client, Proceed

-------------------------------------------------------------------------------
(* The daemon's own state.                                                 *)

LEMMA DaemonStep ==
    ASSUME TypeOK, DaemonInv, NEW own, NEW use, ShapeInv(own, use), [Next]_vars
    PROVE  DaemonInv'
  <1>1. CASE DoEvent
    <2>1. /\ nnodes' = nnodes + 1 /\ nevents' = nevents + 1 /\ orig' = nnodes + 1
          /\ event' = [event EXCEPT ![nnodes + 1] = nevents + 1]
          /\ copy' = FALSE /\ written' = None
      <3>1. written = None
        BY <1>1 DEF DoEvent, DaemonInv
      <3> QED BY <1>1, <3>1 DEF DoEvent
    <2>2. nnodes + 1 \in Nodes /\ nnodes \in Nat /\ nevents \in Nat /\ nevents < MaxEvents
          /\ nnodes + Cardinality(Displays) <= (nevents + 1) * Cardinality(Displays)
      BY <1>1, RoomForEvent, NodeFacts DEF DoEvent, TypeOK
    <2>3. orig' \in 1 .. nnodes' /\ event'[orig'] \in Events
      BY <2>1, <2>2, QueueAssumption DEF TypeOK, Events
    <2>4. ToCopy' \in Nat /\ ToCopy' + 1 <= Cardinality(Displays)
      BY <1>1, <2>1, Targets, NodeFacts DEF ToCopy
    <2>5. nnodes' + ToCopy' <= nevents' * Cardinality(Displays)
      <3>1. (nevents + 1) * Cardinality(Displays) \in Nat
        BY <2>2, Room
      <3> QED BY <2>1, <2>2, <2>4, <3>1, NodeFacts
    <2> QED BY <1>1, <2>1, <2>3, <2>5, Targets DEF DaemonInv
  <1>2. CASE AddEvent
    <2>1. todo # <<>> /\ written = None
      BY <1>2 DEF AddEvent
    <2> DEFINE n == IF copy THEN nnodes + 1 ELSE orig
    <2>2. n \in Nodes /\ orig \in Nodes /\ event[orig] \in Events /\ orig <= nnodes
          /\ Len(todo) \in Nat \ {0}
      BY <2>1, RoomForCopy, Serving
    <2>3. /\ event' = [event EXCEPT ![n] = event[orig]] /\ written' = n
          /\ nnodes' = IF copy THEN nnodes + 1 ELSE nnodes
          /\ UNCHANGED <<nevents, todo, orig, copy>>
      BY <1>2 DEF AddEvent
    <2>4. nnodes \in Nat /\ event \in [Nodes -> Events \cup {0}]
      BY NodeFacts DEF TypeOK
    <2>5. event'[orig] \in Events /\ orig \in 1 .. nnodes'
      BY <2>2, <2>3, <2>4, NodeFacts
    <2>6. nnodes' + ToCopy' = nnodes + ToCopy
      <3>1. written' # None
        BY <2>2, <2>3, NodeFacts
      <3>2. copy \in BOOLEAN
        BY DEF TypeOK
      <3> QED BY <2>1, <2>2, <2>3, <2>4, <3>1, <3>2 DEF ToCopy
    <2> QED BY <2>1, <2>3, <2>5, <2>6 DEF DaemonInv
  <1>3. CASE WritePipe
    <2>1. todo # <<>> /\ written # None
      BY <1>3 DEF WritePipe, DaemonInv
    <2>2. /\ todo' = Tail(todo) /\ copy' = TRUE /\ written' = None
          /\ UNCHANGED <<nnodes, event, nevents, orig>>
      BY <1>3 DEF WritePipe, queue
    <2>3. /\ todo \in Seq(Displays) /\ Len(todo) \in Nat \ {0}
          /\ DOMAIN todo = 1 .. Len(todo)
      BY <2>1, Serving DEF TypeOK
    <2>4. /\ Len(todo') = Len(todo) - 1 /\ DOMAIN todo' = 1 .. Len(todo) - 1
          /\ \A i \in 1 .. Len(todo) - 1 : todo'[i] = todo[i + 1]
      BY <2>2, <2>3
    <2>5. ToCopy' = ToCopy
      <3>1. todo' = <<>> <=> Len(todo') = 0
        <4>1. todo' \in Seq(Displays)
          BY <2>1, <2>2, <2>3
        <4> QED BY <4>1, EmptySeq
      <3>2. ToCopy = Len(todo) - 1
        BY <2>1 DEF ToCopy
      <3>3. ToCopy' = IF todo' = <<>> THEN 0 ELSE Len(todo')
        BY <2>2 DEF ToCopy
      <3> QED BY <3>1, <3>2, <3>3, <2>3, <2>4
    <2>6. ASSUME NEW i \in DOMAIN todo', NEW j \in DOMAIN todo', i # j
          PROVE  todo'[i] # todo'[j]
      BY <2>3, <2>4, <2>6 DEF DaemonInv
    <2>7. todo # <<>> => orig \in 1 .. nnodes /\ event[orig] \in Events
      BY DEF DaemonInv
    <2> QED BY <2>1, <2>2, <2>5, <2>6, <2>7 DEF DaemonInv
  <1>4. ASSUME NEW d \in Displays, PutBack(d) PROVE DaemonInv'
    <2>1. PICK i \in DOMAIN got[d] : event' = [event EXCEPT ![qfree[d]] = got[d][i]]
      BY <1>4 DEF PutBack
    <2>2. got[d][i] \in Events
      BY <2>1 DEF TypeOK
    <2>3. UNCHANGED <<nnodes, nevents, todo, orig, copy, written>>
      BY <1>4 DEF PutBack, daemonvars
    <2>4. todo # <<>> => event'[orig] \in Events
      BY <2>1, <2>2, Serving DEF TypeOK
    <2> QED BY <2>3, <2>4 DEF DaemonInv, ToCopy
  <1>5. ASSUME UNCHANGED <<event, nnodes, daemonvars>> PROVE DaemonInv'
    BY <1>5 DEF DaemonInv, ToCopy, daemonvars
  <1> QED BY <1>1, <1>2, <1>3, <1>4, <1>5
          DEF Next, Daemon, Client, Proceed, NextEvent, TakeNothing, TakeFirst, CheckIfEvent,
              ReadPipe, LoadNext, StoreNext, StoreTail, FreeElement, PutBackHead, PutBackTail,
              vars, queue

(* A step of the pipe or of a list moves what is counted: one event when   *)
(* the daemon links it, when it writes its address or cannot, when a       *)
(* client reads that, when it counts the event down, and when it puts one  *)
(* back.                                                                   *)
LEMMA PipeCountsStep ==
    ASSUME TypeOK, DaemonInv, PipeCounts, [Next]_vars
    PROVE  PipeCounts'
  <1> DEFINE Counts(e) == qlen[e] + Putting(e) = Addressed(e) + Silent(e)
  <1>0. PipeCounts' <=> \A e \in Displays : Counts(e)'
    BY DEF PipeCounts
  <1> SUFFICES ASSUME NEW e \in Displays
               PROVE  Counts(e)'
    BY <1>0
  <1>1. /\ qlen[e] + Putting(e) = Addressed(e) + Silent(e)
        /\ qlen[e] \in Nat /\ Putting(e) \in Nat /\ Addressed(e) \in Nat /\ Silent(e) \in Nat
        /\ Linked(e) \in Nat /\ Reading(e) \in Nat
        /\ Len(pipe[e]) \in Nat /\ pipe[e] \in Seq(Nodes) /\ dropped[e] \in Nat
        /\ Len(putbacks[e]) \in Nat /\ putbacks[e] \in Seq(Events)
    <2>1. /\ qlen[e] \in Nat /\ dropped[e] \in Nat
          /\ pipe[e] \in Seq(Nodes) /\ putbacks[e] \in Seq(Events)
          /\ Len(pipe[e]) \in Nat /\ Len(putbacks[e]) \in Nat
      BY DEF TypeOK
    <2>2. Linked(e) \in Nat /\ Reading(e) \in Nat /\ Putting(e) \in Nat
      BY DEF Linked, Reading, Putting
    <2>3. Addressed(e) \in Nat /\ Silent(e) \in Nat
      BY <2>1, <2>2 DEF Addressed, Silent
    <2> QED BY <2>1, <2>2, <2>3 DEF PipeCounts
  <1>n. /\ qlen[e] + Putting(e) = Addressed(e) + Silent(e)
         /\ qlen[e] \in Nat /\ Putting(e) \in Nat /\ Addressed(e) \in Nat /\ Silent(e) \in Nat
    BY <1>1
  <1>2. /\ pc \in [Displays -> {"out", "next", "read", "load", "store", "tail", "free",
                                "putback", "puttail", "trapped"}]
        /\ pipe \in [Displays -> Seq(Nodes)] /\ qlen \in [Displays -> Nat]
        /\ dropped \in [Displays -> Nat] /\ putbacks \in [Displays -> Seq(Events)]
    BY DEF TypeOK
  <1>3. CASE DoEvent
    <2>1. written = None /\ UNCHANGED <<qlen, pipe, pc, written, dropped, putbacks>>
      BY <1>3 DEF DoEvent, DaemonInv, locals, history
    <2> QED BY <1>1, <2>1 DEF Linked, Reading, Putting, Addressed, Silent
  <1>4. CASE AddEvent
    <2>1. /\ written = None /\ Head(todo) \in Displays
          /\ UNCHANGED <<todo, pipe, pc, dropped, putbacks>>
          /\ qlen' = [qlen EXCEPT ![Head(todo)] = @ + 1] /\ written' # None
      BY <1>4, Serving, RoomForCopy, NoneAssumption DEF AddEvent, Link, locals, history
    <2>2. Putting(e)' = Putting(e) /\ Silent(e)' = Silent(e) /\ Reading(e)' = Reading(e)
          /\ Len(pipe'[e]) = Len(pipe[e])
      BY <2>1 DEF Putting, Silent, Reading
    <2>3. CASE e = Head(todo)
      <3>1. Linked(e) = 0 /\ Linked(e)' = 1
        BY <2>1, <2>3 DEF Linked
      <3>2. /\ Addressed(e) = Len(pipe[e]) + Linked(e) + Reading(e)
            /\ Addressed(e)' = Len(pipe'[e]) + Linked(e)' + Reading(e)'
        BY DEF Addressed
      <3>3. PICK l \in Nat, r \in Nat : l = Len(pipe[e]) /\ r = Reading(e)
        BY <1>1
      <3>4. Addressed(e) = l + 0 + r /\ Addressed(e)' = l + 1 + r
        BY <2>2, <3>1, <3>2, <3>3
      <3>5. Addressed(e)' = Addressed(e) + 1
        BY <3>4
      <3>6. qlen'[e] = qlen[e] + 1
        BY <1>2, <2>1, <2>3
      <3> QED BY <1>n, <2>2, <3>5, <3>6
    <2>4. CASE e # Head(todo)
      <3>1. Linked(e) = 0 /\ Linked(e)' = 0 /\ qlen'[e] = qlen[e]
        BY <1>2, <2>1, <2>4 DEF Linked
      <3> QED BY <1>1, <2>2, <3>1 DEF Addressed
    <2> QED BY <2>3, <2>4
  <1>5. CASE WritePipe
    <2>1. PICK h \in Displays : h = Head(todo)
      BY <1>5, Serving DEF WritePipe, DaemonInv
    <2>2. /\ written # None /\ written' = None /\ UNCHANGED <<qlen, pc, putbacks>>
          /\ written \in Nodes
          /\ \/ pipe' = [pipe EXCEPT ![h] = Append(@, written)] /\ dropped' = dropped
             \/ pipe' = pipe /\ dropped' = [dropped EXCEPT ![h] = @ + 1]
      BY <1>5, <2>1 DEF WritePipe, queue, locals, TypeOK, MaybeNode
    <2>3. Len(Append(pipe[e], written)) = Len(pipe[e]) + 1
      BY <1>1, <2>2
    <2>4. /\ e # h => pipe'[e] = pipe[e] /\ dropped'[e] = dropped[e]
          /\ e = h => \/ pipe'[e] = Append(pipe[e], written) /\ dropped'[e] = dropped[e]
                      \/ pipe'[e] = pipe[e] /\ dropped'[e] = dropped[e] + 1
      BY <1>2, <2>2
    <2>5. /\ e = h => Linked(e) = 1
          /\ e # h => Linked(e) = 0
          /\ Linked(e)' = 0 /\ Reading(e)' = Reading(e) /\ Reading(e) \in {0, 1}
      BY <2>1, <2>2 DEF Linked, Reading
    <2>6. qlen'[e] = qlen[e] /\ putbacks'[e] = putbacks[e] /\ Putting(e)' = Putting(e)
      BY <2>2 DEF Putting
    <2>7. CASE e # h
      <3>1. Addressed(e)' = Addressed(e) /\ Silent(e)' = Silent(e)
        BY <2>4, <2>5, <2>6, <2>7 DEF Addressed, Silent
      <3> QED BY <1>1, <2>6, <3>1
    <2>8. CASE e = h /\ pipe'[e] = Append(pipe[e], written) /\ dropped'[e] = dropped[e]
      <3>1. Addressed(e)' = Addressed(e)
        BY <1>1, <2>3, <2>5, <2>8 DEF Addressed
      <3>2. Silent(e)' = Silent(e)
        BY <2>6, <2>8 DEF Silent
      <3> QED BY <1>1, <2>6, <3>1, <3>2
    <2>9. CASE e = h /\ pipe'[e] = pipe[e] /\ dropped'[e] = dropped[e] + 1
      <3>1. Addressed(e)' + 1 = Addressed(e) /\ Addressed(e)' \in Nat
        BY <1>1, <2>5, <2>9 DEF Addressed
      <3>2. PICK n \in Nat, l \in Nat : n = dropped[e] /\ l = Len(putbacks[e])
        BY <1>1
      <3>3. Silent(e) = n + l /\ Silent(e)' = (n + 1) + l
        BY <2>6, <2>9, <3>2 DEF Silent
      <3>4. Silent(e)' = Silent(e) + 1
        BY <3>3
      <3> QED BY <1>n, <2>6, <3>1, <3>4
    <2> QED BY <2>4, <2>7, <2>8, <2>9
  <1>6. ASSUME NEW d \in Displays, ReadPipe(d) PROVE Counts(e)'
    <2>1. /\ pc[d] = "read" /\ pc' = [pc EXCEPT ![d] = "load"]
          /\ UNCHANGED <<qlen, written, todo, dropped, putbacks>>
          /\ pipe[d] # <<>> /\ pipe' = [pipe EXCEPT ![d] = Tail(@)]
      BY <1>6 DEF ReadPipe, Goto, queue, daemonvars, history
    <2>2. pipe[e] # <<>> => Len(Tail(pipe[e])) + 1 = Len(pipe[e]) /\ Len(Tail(pipe[e])) \in Nat
      BY <1>1
    <2>3. /\ Linked(e)' = Linked(e) /\ Linked(e) \in {0, 1}
          /\ Putting(e)' = Putting(e) /\ Silent(e)' = Silent(e) /\ qlen'[e] = qlen[e]
      BY <1>2, <2>1 DEF Linked, Putting, Silent
    <2>4. Addressed(e)' = Addressed(e)
      <3>1. CASE e = d
        <4>1. /\ Len(pipe'[e]) + 1 = Len(pipe[e]) /\ Len(pipe'[e]) \in Nat
              /\ Reading(e) = 0 /\ Reading(e)' = 1
          BY <1>2, <2>1, <2>2, <3>1 DEF Reading
        <4> QED BY <1>1, <2>3, <4>1 DEF Addressed
      <3>2. CASE e # d
        <4>1. pipe'[e] = pipe[e] /\ Reading(e)' = Reading(e)
          BY <1>2, <2>1, <3>2 DEF Reading
        <4> QED BY <2>3, <4>1 DEF Addressed
      <3> QED BY <3>1, <3>2
    <2> QED BY <1>1, <2>3, <2>4
  <1>7. ASSUME NEW d \in Displays, FreeElement(d) PROVE Counts(e)'
    <2>1. /\ pc[d] = "free" /\ pc' = [pc EXCEPT ![d] = "out"]
          /\ UNCHANGED <<pipe, written, todo, dropped, putbacks>>
          /\ qlen' = [qlen EXCEPT ![d] = @ - 1]
      BY <1>7 DEF FreeElement, Goto, daemonvars
    <2>2. /\ Linked(e)' = Linked(e) /\ Linked(e) \in {0, 1} /\ Len(pipe'[e]) = Len(pipe[e])
          /\ Putting(e)' = Putting(e) /\ Silent(e)' = Silent(e)
      BY <1>2, <2>1 DEF Linked, Putting, Silent
    <2>3. CASE e = d
      <3>1. Reading(e) = 1 /\ Reading(e)' = 0
        BY <1>2, <2>1, <2>3 DEF Reading
      <3>2. PICK l \in Nat, k \in Nat : l = Len(pipe[e]) /\ k = Linked(e)
        BY <1>1
      <3>3. Addressed(e) = l + k + 1 /\ Addressed(e)' = l + k + 0
        BY <2>2, <3>1, <3>2 DEF Addressed
      <3>4. Addressed(e)' + 1 = Addressed(e) /\ Addressed(e)' \in Nat
        BY <3>3
      <3>5. Putting(e) = 0
        BY <2>1, <2>3 DEF Putting
      <3>6. qlen'[e] = qlen[e] - 1
        BY <1>2, <2>1, <2>3
      <3> QED BY <1>n, <2>2, <3>4, <3>5, <3>6
    <2>4. CASE e # d
      <3>1. qlen'[e] = qlen[e] /\ Reading(e)' = Reading(e)
        BY <1>2, <2>1, <2>4 DEF Reading
      <3> QED BY <1>1, <2>2, <3>1 DEF Addressed
    <2> QED BY <2>3, <2>4
  <1>8. ASSUME NEW d \in Displays, PutBack(d) PROVE Counts(e)'
    <2>1. PICK i \in DOMAIN got[d] : putbacks' = [putbacks EXCEPT ![d] = Append(@, got[d][i])]
      BY <1>8 DEF PutBack
    <2>2. got[d][i] \in Events
      BY <2>1 DEF TypeOK
    <2>3. /\ pc[d] = "out" /\ pc' = [pc EXCEPT ![d] = "putback"]
          /\ UNCHANGED <<qlen, pipe, written, todo, dropped>>
      BY <1>8 DEF PutBack, Goto, daemonvars
    <2>4. /\ Addressed(e)' = Addressed(e) /\ qlen'[e] = qlen[e] /\ dropped'[e] = dropped[e]
      BY <1>2, <2>3 DEF Addressed, Linked, Reading
    <2>5. CASE e = d
      <3>1. Len(putbacks'[e]) = Len(putbacks[e]) + 1
        BY <1>1, <1>2, <2>1, <2>2, <2>5
      <3>2. Silent(e)' = Silent(e) + 1
        BY <1>1, <2>4, <3>1 DEF Silent
      <3>3. Putting(e) = 0 /\ Putting(e)' = 1
        BY <1>2, <2>3, <2>5 DEF Putting
      <3> QED BY <1>1, <2>4, <3>2, <3>3
    <2>6. CASE e # d
      <3>1. putbacks'[e] = putbacks[e] /\ Putting(e)' = Putting(e)
        BY <1>2, <2>1, <2>3, <2>6 DEF Putting
      <3> QED BY <1>1, <2>4, <3>1 DEF Silent
    <2> QED BY <2>5, <2>6
  <1>9. ASSUME NEW d \in Displays, PutBackTail(d) PROVE Counts(e)'
    <2>1. /\ pc[d] = "puttail" /\ pc' = [pc EXCEPT ![d] = "out"]
          /\ UNCHANGED <<pipe, written, todo, dropped, putbacks>>
          /\ qlen' = [qlen EXCEPT ![d] = @ + 1]
      BY <1>9 DEF PutBackTail, Goto, daemonvars, history
    <2>2. Addressed(e)' = Addressed(e) /\ Silent(e)' = Silent(e)
      BY <1>2, <2>1 DEF Addressed, Linked, Reading, Silent
    <2>3. \/ qlen'[e] = qlen[e] + 1 /\ Putting(e) = 1 /\ Putting(e)' = 0
          \/ qlen'[e] = qlen[e] /\ Putting(e)' = Putting(e)
      BY <1>2, <2>1 DEF Putting
    <2> QED BY <1>1, <2>2, <2>3
  <1>10. ASSUME UNCHANGED <<qlen, pipe, written, todo, dropped, putbacks>>,
                Reading(e)' = Reading(e), Putting(e)' = Putting(e)
         PROVE  Counts(e)'
    BY <1>1, <1>10 DEF Linked, Addressed, Silent
  <1>11. ASSUME NEW d \in Displays, \/ NextEvent(d) \/ TakeNothing(d) \/ TakeFirst(d) \/ CheckIfEvent(d)
                                    \/ LoadNext(d) \/ StoreNext(d) \/ StoreTail(d) \/ PutBackHead(d)
         PROVE  Counts(e)'
    <2>1. UNCHANGED <<qlen, pipe, written, todo, dropped, putbacks>>
      BY <1>11 DEF NextEvent, TakeNothing, TakeFirst, CheckIfEvent, LoadNext, StoreNext, StoreTail,
                   PutBackHead, queue, daemonvars, history
    <2>2. \E from, to \in {"out", "next", "read", "load", "store", "tail", "free", "putback",
                           "puttail", "trapped"} :
             /\ pc[d] = from /\ pc' = [pc EXCEPT ![d] = to]
             /\ from \in {"load", "store", "tail", "free"} <=> to \in {"load", "store", "tail", "free"}
             /\ from \in {"putback", "puttail"} <=> to \in {"putback", "puttail"}
      <3> USE DEF Goto
      <3>1. CASE NextEvent(d)
        BY <3>1 DEF NextEvent
      <3>2. CASE TakeNothing(d)
        BY <3>2 DEF TakeNothing
      <3>3. CASE TakeFirst(d)
        BY <3>3 DEF TakeFirst
      <3>4. CASE CheckIfEvent(d)
        BY <3>4 DEF CheckIfEvent
      <3>5. CASE LoadNext(d)
        BY <3>5 DEF LoadNext
      <3>6. CASE StoreNext(d)
        BY <3>6 DEF StoreNext
      <3>7. CASE StoreTail(d)
        BY <3>7 DEF StoreTail
      <3>8. CASE PutBackHead(d)
        BY <3>8 DEF PutBackHead
      <3> QED BY <1>11, <3>1, <3>2, <3>3, <3>4, <3>5, <3>6, <3>7, <3>8
    <2>3. Reading(e)' = Reading(e) /\ Putting(e)' = Putting(e)
      BY <1>2, <2>2 DEF Reading, Putting
    <2> QED BY <1>10, <2>1, <2>3
  <1>12. CASE UNCHANGED vars
    <2>1. Reading(e)' = Reading(e) /\ Putting(e)' = Putting(e)
      BY <1>12 DEF Reading, Putting, vars, locals
    <2> QED BY <1>10, <1>12, <2>1 DEF vars, queue, daemonvars, history
  <1> QED BY <1>3, <1>4, <1>5, <1>6, <1>7, <1>8, <1>9, <1>11, <1>12 DEF Next, Daemon, Client, Proceed

-------------------------------------------------------------------------------
(* The shape of the lists.                                                 *)

(* The last one is queued, or being taken out.                             *)
LEMMA TailOf ==
    ASSUME NEW own, NEW use, ShapeInv(own, use), NEW d \in Displays, tail[d] # None
    PROVE  \/ Is(tail[d], d, "queued", own, use)
           \/ pc[d] = "tail" /\ Is(tail[d], d, "taken", own, use)
  BY DEF ShapeInv, EndsOf, ClientOf

(* Steps that change no link: they have to keep to what the client knows.  *)
LEMMA QuietShape ==
    ASSUME TypeOK, NEW own, NEW use, ShapeInv(own, use), NEW d \in Displays,
           UNCHANGED <<next, event, nnodes, head, tail, qfree>>,
           \A e \in Displays \ {d} :
               /\ pc'[e] = pc[e] /\ qelt'[e] = qelt[e] /\ prev'[e] = prev[e]
               /\ loaded'[e] = loaded[e] /\ taken'[e] = taken[e],
           FreshInv(own, use)', ClientOf(d, own, use)',
           pc[d] \notin {"tail", "putback", "puttail"}
    PROVE  ShapeInv(own, use)'
  <1>1. ASSUME NEW e \in Displays PROVE EndsOf(e, own, use)'
    BY DEF ShapeInv, EndsOf, Is
  <1>2. NoneBefore(own, use)'
    BY DEF ShapeInv, NoneBefore
  <1>3. ASSUME NEW e \in Displays, e # d PROVE ClientOf(e, own, use)'
    BY <1>3 DEF ShapeInv, ClientOf, Is
  <1>4. StaysIn(own, use)' /\ OneBefore(own, use)' /\ EventsInv(own, use)'
    BY DEF ShapeInv, StaysIn, OneBefore, EventsInv, Is
  <1> QED BY <1>1, <1>2, <1>3, <1>4 DEF ShapeInv

(* The daemon's steps that link nothing.                                   *)
LEMMA DoEventShape ==
    ASSUME TypeOK, DaemonInv, NEW own, NEW use, ShapeInv(own, use), DoEvent
    PROVE  ShapeInv(own, use)'
  <1>1. /\ event' = [event EXCEPT ![nnodes + 1] = nevents + 1] /\ nnodes' = nnodes + 1
        /\ orig' = nnodes + 1
        /\ UNCHANGED <<next, head, tail, qfree, pc, qelt, prev, loaded, taken>>
    BY DEF DoEvent, locals
  <1>2. /\ nnodes \in Nat /\ nnodes + 1 \in Nodes /\ own \in [Nodes -> Displays]
        /\ use \in [Nodes -> Uses] /\ event \in [Nodes -> Events \cup {0}]
    <2>1. nnodes + 1 \in Nodes
      BY RoomForEvent DEF DoEvent
    <2>2. nnodes \in Nat /\ event \in [Nodes -> Events \cup {0}]
      BY NodeFacts DEF TypeOK
    <2> QED BY <2>1, <2>2 DEF ShapeInv
  <1>3. use[nnodes + 1] = "fresh"
    BY <1>2 DEF ShapeInv, FreshInv
  <1>4. \A n \in Nodes : use[n] # "fresh" => event'[n] = event[n]
    BY <1>1, <1>2, <1>3
  <1>5. FreshInv(own, use)'
    <2>1. \A n \in Nodes : n \in Nat
      BY NodeFacts
    <2>2. \A n \in Nodes : use[n] # "fresh" => n <= nnodes + 1
      BY <1>2, <2>1 DEF ShapeInv, FreshInv
    <2> QED BY <1>1, <1>3, <2>2 DEF FreshInv
  <1>6. ASSUME NEW e \in Displays PROVE EndsOf(e, own, use)' /\ ClientOf(e, own, use)'
    <2>1. EndsOf(e, own, use)'
      BY <1>1 DEF ShapeInv, EndsOf, Is
    <2>2. pc[e] \in {"read", "load", "store", "tail", "free"} => taken[e] = event'[qelt[e]]
      BY <1>4 DEF ShapeInv, ClientOf, Is
    <2>3. ClientOf(e, own, use)'
      BY <1>1, <2>2 DEF ShapeInv, ClientOf, Is
    <2> QED BY <2>1, <2>3
  <1>7. EventsInv(own, use)'
    BY <1>4 DEF ShapeInv, EventsInv
  <1>8. StaysIn(own, use)' /\ OneBefore(own, use)' /\ NoneBefore(own, use)'
    BY <1>1 DEF ShapeInv, StaysIn, OneBefore, NoneBefore, Is
  <1> QED BY <1>2, <1>5, <1>6, <1>7, <1>8 DEF ShapeInv

LEMMA WritePipeShape ==
    ASSUME NEW own, NEW use, ShapeInv(own, use), WritePipe
    PROVE  ShapeInv(own, use)'
  <1>1. copy' = TRUE /\ UNCHANGED <<queue, locals>>
    BY DEF WritePipe
  <1>2. FreshInv(own, use)'
    BY <1>1 DEF ShapeInv, FreshInv, queue
  <1> QED BY <1>1, <1>2 DEF ShapeInv, EndsOf, StaysIn, OneBefore, NoneBefore, ClientOf, EventsInv,
                            Is, queue, locals

(* Nothing is in a list but what is in every closed set with its first.    *)
LEMMA ListedIn ==
    ASSUME NEW S \in SUBSET Nodes, Closed(S), NEW n, n # None => n \in S
    PROVE  Listed(n) \subseteq S
  BY DEF Listed

LEMMA ListedClosed ==
    ASSUME NEW n \in Nodes, next \in [Nodes -> MaybeNode]
    PROVE  n \in Listed(n) /\ Closed(Listed(n)) /\ Listed(n) \subseteq Nodes
  BY NoneAssumption DEF Listed, Closed, MaybeNode

(* The events that XCheckIfEvent passes over are those of the display.     *)
LEMMA QueuedAreListed ==
    ASSUME TypeOK, NEW own, NEW use, ShapeInv(own, use), NEW d \in Displays, head[d] # None
    PROVE  \A n \in Listed(head[d]) : Is(n, d, "queued", own, use)
  <1> DEFINE S == {n \in Nodes : own[n] = d /\ use[n] = "queued"}
  <1>1. Closed(S)
    BY DEF ShapeInv, StaysIn, Closed, Is
  <1>2. head[d] \in S
    BY DEF ShapeInv, EndsOf, Is
  <1>3. Listed(head[d]) \subseteq S
    BY <1>1, <1>2, ListedIn
  <1> QED BY <1>3 DEF Is

LEMMA FreeAreListed ==
    ASSUME TypeOK, NEW own, NEW use, ShapeInv(own, use), NEW d \in Displays, qfree[d] # None
    PROVE  \A n \in Listed(qfree[d]) : Is(n, d, "free", own, use)
  <1> DEFINE S == {n \in Nodes : own[n] = d /\ use[n] = "free"}
  <1>1. Closed(S)
    BY DEF ShapeInv, StaysIn, Closed, Is
  <1>2. qfree[d] \in S
    BY DEF ShapeInv, EndsOf, Is
  <1>3. Listed(qfree[d]) \subseteq S
    BY <1>1, <1>2, ListedIn
  <1> QED BY <1>3 DEF Is

(* The queue of a display does not lead back into itself.                  *)
LEMMA NoLoop ==
    ASSUME TypeOK, NEW own, NEW use, ShapeInv(own, use), NEW d \in Displays, head[d] # None,
           pc[d] # "putback", NEW p \in Listed(head[d])
    PROVE  next[p] # p
  <1> SUFFICES ASSUME next[p] = p PROVE FALSE
    OBVIOUS
  <1> DEFINE L == Listed(head[d])
             S == L \ {p}
  <1>1. head[d] \in Nodes /\ next \in [Nodes -> MaybeNode] /\ None \notin Nodes
    BY NoneAssumption DEF TypeOK, MaybeNode
  <1>2. head[d] \in L /\ Closed(L) /\ L \subseteq Nodes
    BY <1>1, ListedClosed
  <1>3. \A n \in L : own[n] = d /\ use[n] = "queued"
    BY QueuedAreListed DEF Is
  <1> HIDE DEF L
  <1>4. p \in Nodes /\ p \in L
    BY <1>2 DEF L
  <1>5. p # head[d]
    BY <1>1, <1>3, <1>4 DEF ShapeInv, NoneBefore
  <1>6. ASSUME NEW m \in S PROVE next[m] \in S \cup {None}
    <2>1. m \in Nodes /\ use[m] = "queued" /\ use[p] = "queued" /\ next[m] \in L \cup {None}
      BY <1>2, <1>3, <1>4 DEF Closed
    <2>2. next[m] # p
      BY <1>1, <1>4, <2>1 DEF ShapeInv, OneBefore
    <2> QED BY <2>1, <2>2
  <1>7. Closed(S)
    BY <1>6 DEF Closed
  <1>8. Listed(head[d]) \subseteq S
    BY <1>2, <1>5, <1>7, ListedIn
  <1> QED BY <1>8

(* The client's steps that link nothing.                                   *)
LEMMA QuietClient ==
    ASSUME TypeOK, NEW own, NEW use, ShapeInv(own, use), NEW d \in Displays,
           \/ NextEvent(d) \/ TakeNothing(d) \/ TakeFirst(d) \/ CheckIfEvent(d) \/ ReadPipe(d)
           \/ LoadNext(d)
    PROVE  ShapeInv(own, use)'
  <1>1. /\ pc \in [Displays -> {"out", "next", "read", "load", "store", "tail", "free",
                                "putback", "puttail", "trapped"}]
        /\ qelt \in [Displays -> MaybeNode] /\ prev \in [Displays -> MaybeNode]
        /\ loaded \in [Displays -> MaybeNode] /\ taken \in [Displays -> Events \cup {0}]
        /\ None \notin Nodes
    BY NoneAssumption DEF TypeOK
  <1>2. UNCHANGED <<next, event, nnodes, head, tail, qfree, todo, orig, copy, written>>
    BY DEF NextEvent, TakeNothing, TakeFirst, CheckIfEvent, ReadPipe, LoadNext, queue, daemonvars
  <1>3. FreshInv(own, use)'
    BY <1>2 DEF ShapeInv, FreshInv
  <1>4. \A n \in Nodes : own[n] = d /\ use[n] = "taken" => pc[d] \in {"tail", "free"}
    BY DEF ShapeInv, ClientOf
  <1> DEFINE Same(e) == /\ pc'[e] = pc[e] /\ qelt'[e] = qelt[e] /\ prev'[e] = prev[e]
                        /\ loaded'[e] = loaded[e] /\ taken'[e] = taken[e]
  <1>5. CASE NextEvent(d) \/ TakeNothing(d)
    <2>1. /\ pc'[d] \in {"next", "trapped"} /\ pc[d] \in {"out", "next"}
          /\ \A e \in Displays \ {d} : Same(e)
      BY <1>1, <1>5 DEF NextEvent, TakeNothing, Goto
    <2>2. ClientOf(d, own, use)'
      BY <1>4, <2>1 DEF ClientOf
    <2> QED BY <1>2, <1>3, <2>1, <2>2, QuietShape
  <1>6. CASE TakeFirst(d)
    <2>1. /\ pc'[d] = "read" /\ pc[d] = "next" /\ head[d] # None
          /\ qelt'[d] = head[d] /\ prev'[d] = None /\ taken'[d] = event[head[d]]
          /\ \A e \in Displays \ {d} : Same(e)
      BY <1>1, <1>6 DEF TakeFirst, Goto
    <2>2. ClientOf(d, own, use)'
      BY <1>2, <1>4, <2>1 DEF ShapeInv, EndsOf, ClientOf, Is
    <2> QED BY <1>2, <1>3, <2>1, <2>2, QuietShape
  <1>7. CASE CheckIfEvent(d)
    <2>1. PICK n \in Listed(head[d]), p \in Listed(head[d]) \cup {None} :
             /\ IF p = None THEN n = head[d] ELSE next[p] = n
             /\ qelt' = [qelt EXCEPT ![d] = n]
             /\ prev' = [prev EXCEPT ![d] = p]
             /\ taken' = [taken EXCEPT ![d] = event[n]]
      BY <1>7 DEF CheckIfEvent
    <2>2. /\ pc'[d] = "read" /\ pc[d] = "out" /\ UNCHANGED loaded
          /\ qelt'[d] = n /\ prev'[d] = p /\ taken'[d] = event[n]
          /\ \A e \in Displays \ {d} : Same(e)
      BY <1>1, <1>7, <2>1 DEF CheckIfEvent, Goto
    <2>3. head[d] # None
      BY <2>1 DEF Listed
    <2>4. Is(n, d, "queued", own, use) /\ (p # None => Is(p, d, "queued", own, use))
      BY <2>1, <2>3, QueuedAreListed
    <2>5. p # None => p # n
      BY <2>1, <2>2, <2>3, NoLoop
    <2>6. tail[d] # None
      BY <2>2, <2>3 DEF ShapeInv, EndsOf
    <2>7. ClientOf(d, own, use)'
      BY <1>2, <1>4, <2>1, <2>2, <2>4, <2>5, <2>6 DEF ClientOf, Is
    <2> QED BY <1>2, <1>3, <2>2, <2>7, QuietShape
  <1>8. CASE ReadPipe(d) \/ LoadNext(d)
    <2>1. /\ \/ pc[d] = "read" /\ pc'[d] = "load"
             \/ pc[d] = "load" /\ pc'[d] = "store"
          /\ qelt'[d] = qelt[d] /\ prev'[d] = prev[d] /\ taken'[d] = taken[d]
          /\ pc'[d] = "store" => loaded'[d] = next[qelt[d]]
          /\ \A e \in Displays \ {d} : Same(e)
      BY <1>1, <1>8 DEF ReadPipe, LoadNext, Goto
    <2>2. ClientOf(d, own, use)'
      BY <1>2, <1>4, <2>1 DEF ShapeInv, ClientOf, Is
    <2> QED BY <1>2, <1>3, <2>1, <2>2, QuietShape
  <1> QED BY <1>5, <1>6, <1>7, <1>8

LEMMA StoreNextShape ==
    ASSUME TypeOK, NEW own, NEW use, NEW use2, ShapeInv(own, use), NEW d \in Displays,
           StoreNext(d), use2 = [use EXCEPT ![qelt[d]] = "taken"]
    PROVE  ShapeInv(own, use2)'
  <1> DEFINE q == qelt[d]
             to == IF loaded[d] = None THEN "tail" ELSE "free"
  <1>1. /\ pc[d] = "store" /\ pc' = [pc EXCEPT ![d] = to]
        /\ head' = IF prev[d] = None THEN [head EXCEPT ![d] = loaded[d]] ELSE head
        /\ next' = IF prev[d] = None THEN next ELSE [next EXCEPT ![prev[d]] = loaded[d]]
        /\ UNCHANGED <<event, nnodes, tail, qfree, todo, orig, copy, written, qelt, prev, loaded,
                       taken>>
    BY DEF StoreNext, Goto, daemonvars
  <1>2. /\ own \in [Nodes -> Displays] /\ use \in [Nodes -> Uses]
        /\ q \in Nodes /\ own[q] = d /\ use[q] = "queued"
        /\ tail[d] # None /\ tail[d] \in Nodes
        /\ prev[d] = None => head[d] = q
        /\ prev[d] # None => /\ prev[d] \in Nodes /\ own[prev[d]] = d /\ use[prev[d]] = "queued"
                             /\ next[prev[d]] = q /\ prev[d] # q
        /\ loaded[d] # None => next[q] = loaded[d]
    BY <1>1 DEF ShapeInv, ClientOf, EndsOf, Is, TypeOK, MaybeNode
  <1>3. /\ next \in [Nodes -> MaybeNode] /\ head \in [Displays -> MaybeNode] /\ DOMAIN pc = Displays
        /\ use2 \in [Nodes -> Uses] /\ None \notin Nodes
    BY <1>2, NoneAssumption DEF TypeOK, Uses
  <1>4. FreshInv(own, use2)'
    BY <1>1, <1>2 DEF ShapeInv, FreshInv
  <1>0. /\ \A n \in Nodes : use[n] = "queued" /\ next[n] = q => n = prev[d]
        /\ \A n \in Nodes : use[n] = "taken" => own[n] # d
        /\ prev[d] # None => head[d] # q
    <2>1. ASSUME NEW n \in Nodes, use[n] = "queued", next[n] = q PROVE n = prev[d]
      <3>1. CASE prev[d] = None
        BY <1>1, <1>2, <1>3, <2>1, <3>1 DEF ShapeInv, StaysIn, NoneBefore, Is
      <3>2. CASE prev[d] # None
        BY <1>2, <1>3, <2>1, <3>2 DEF ShapeInv, OneBefore
      <3> QED BY <3>1, <3>2
    <2>2. ASSUME NEW n \in Nodes, use[n] = "taken", own[n] = d PROVE FALSE
      BY <1>1, <2>2 DEF ShapeInv, ClientOf
    <2>3. prev[d] # None => head[d] # q
      BY <1>1, <1>2, <1>3 DEF ShapeInv, NoneBefore
    <2> QED BY <2>1, <2>2, <2>3
  <1>5. ASSUME NEW e \in Displays PROVE EndsOf(e, own, use2)'
    <2>1. CASE e = d
      BY <1>0, <1>1, <1>2, <1>3, <2>1 DEF ShapeInv, EndsOf, StaysIn, Is
    <2>2. CASE e # d
      BY <1>1, <1>2, <1>3, <2>2 DEF ShapeInv, EndsOf, Is
    <2> QED BY <2>1, <2>2
  <1>6. StaysIn(own, use2)'
    <2> SUFFICES ASSUME NEW n \in Nodes, next'[n] # None
                 PROVE  /\ use2[n] \in {"queued", "taken"} => Is(next'[n], own[n], "queued", own, use2)
                        /\ use2[n] = "free" => Is(next'[n], own[n], "free", own, use2)
      BY DEF StaysIn, Is
    <2>1. use[n] \in {"queued", "taken"} => next'[n] # q
      BY <1>0, <1>1, <1>2, <1>3 DEF ShapeInv, StaysIn, Is
    <2>2. \/ next'[n] = next[n]
          \/ n = prev[d] /\ n # q /\ next'[n] = next[q]
      BY <1>0, <1>1, <1>2, <1>3
    <2> QED BY <1>1, <1>2, <1>3, <2>1, <2>2 DEF ShapeInv, StaysIn, Is
  <1>7. OneBefore(own, use2)'
    BY <1>1, <1>2, <1>3 DEF ShapeInv, OneBefore, StaysIn, Is
  <1>8. NoneBefore(own, use2)'
    BY <1>1, <1>2, <1>3 DEF ShapeInv, NoneBefore, OneBefore, StaysIn, Is
  <1>9. ClientOf(d, own, use2)'
    <2>1. pc'[d] = to /\ to \in {"tail", "free"} /\ (to = "tail" => loaded[d] = None)
      BY <1>1, <1>3
    <2>2. to = "tail" => /\ tail[d] # prev[d]
                         /\ prev[d] = None => head'[d] = None
                         /\ prev[d] # None => next'[prev[d]] = None /\ prev[d] # q
      BY <1>0, <1>1, <1>2, <1>3 DEF ShapeInv, EndsOf
    <2>3. \A n \in Nodes : own[n] = d /\ use2[n] = "taken" => n = q
      BY <1>0, <1>2
    <2>4. taken[d] = event[q]
      BY <1>1 DEF ShapeInv, ClientOf
    <2> QED BY <1>1, <1>2, <1>3, <2>1, <2>2, <2>3, <2>4 DEF ClientOf, Is
  <1>10. ASSUME NEW e \in Displays, e # d PROVE ClientOf(e, own, use2)'
    BY <1>1, <1>2, <1>3, <1>10 DEF ShapeInv, ClientOf, Is
  <1>11. EventsInv(own, use2)'
    BY <1>1, <1>2 DEF ShapeInv, EventsInv
  <1> QED BY <1>2, <1>3, <1>4, <1>5, <1>6, <1>7, <1>8, <1>9, <1>10, <1>11 DEF ShapeInv

LEMMA StoreTailShape ==
    ASSUME TypeOK, NEW own, NEW use, ShapeInv(own, use), NEW d \in Displays, StoreTail(d)
    PROVE  ShapeInv(own, use)'
  <1>1. /\ pc[d] = "tail" /\ pc' = [pc EXCEPT ![d] = "free"]
        /\ tail' = [tail EXCEPT ![d] = prev[d]]
        /\ UNCHANGED <<next, event, nnodes, head, qfree, todo, orig, copy, written, qelt, prev,
                       loaded, taken>>
    BY DEF StoreTail, Goto, daemonvars
  <1>2. DOMAIN pc = Displays /\ DOMAIN tail = Displays /\ None \notin Nodes
    BY NoneAssumption DEF TypeOK
  <1>3. FreshInv(own, use)' /\ StaysIn(own, use)' /\ OneBefore(own, use)' /\ EventsInv(own, use)'
    BY <1>1 DEF ShapeInv, FreshInv, StaysIn, OneBefore, EventsInv, Is
  <1>4. ASSUME NEW e \in Displays PROVE EndsOf(e, own, use)' /\ ClientOf(e, own, use)'
    <2>1. CASE e = d
      BY <1>1, <1>2, <2>1 DEF ShapeInv, EndsOf, ClientOf, Is
    <2>2. CASE e # d
      BY <1>1, <1>2, <2>2 DEF ShapeInv, EndsOf, ClientOf, Is
    <2> QED BY <2>1, <2>2
  <1>5. NoneBefore(own, use)'
    BY <1>1, <1>2 DEF ShapeInv, NoneBefore
  <1> QED BY <1>3, <1>4, <1>5 DEF ShapeInv

LEMMA PutBackHeadShape ==
    ASSUME TypeOK, NEW own, NEW use, ShapeInv(own, use), NEW d \in Displays, PutBackHead(d)
    PROVE  ShapeInv(own, use)'
  <1>1. /\ pc[d] = "putback" /\ pc' = [pc EXCEPT ![d] = "puttail"]
        /\ head' = [head EXCEPT ![d] = qelt[d]]
        /\ UNCHANGED <<next, event, nnodes, tail, qfree, todo, orig, copy, written, qelt, prev,
                       loaded, taken>>
    BY DEF PutBackHead, Goto, daemonvars
  <1>2. DOMAIN pc = Displays /\ DOMAIN head = Displays /\ None \notin Nodes
    BY NoneAssumption DEF TypeOK
  <1>3. FreshInv(own, use)' /\ StaysIn(own, use)' /\ OneBefore(own, use)' /\ EventsInv(own, use)'
    BY <1>1 DEF ShapeInv, FreshInv, StaysIn, OneBefore, EventsInv, Is
  <1>4. ASSUME NEW e \in Displays PROVE EndsOf(e, own, use)' /\ ClientOf(e, own, use)'
    <2>1. CASE e = d
      BY <1>1, <1>2, <2>1 DEF ShapeInv, EndsOf, ClientOf, Is
    <2>2. CASE e # d
      BY <1>1, <1>2, <2>2 DEF ShapeInv, EndsOf, ClientOf, Is
    <2> QED BY <2>1, <2>2
  <1>5. NoneBefore(own, use)'
    BY <1>1, <1>2 DEF ShapeInv, NoneBefore, ClientOf
  <1> QED BY <1>3, <1>4, <1>5 DEF ShapeInv

LEMMA PutBackTailShape ==
    ASSUME TypeOK, NEW own, NEW use, ShapeInv(own, use), NEW d \in Displays, PutBackTail(d)
    PROVE  ShapeInv(own, use)'
  <1>1. /\ pc[d] = "puttail" /\ pc' = [pc EXCEPT ![d] = "out"]
        /\ tail' = [tail EXCEPT ![d] = IF @ = None THEN qelt[d] ELSE @]
        /\ UNCHANGED <<next, event, nnodes, head, qfree, todo, orig, copy, written, qelt, prev,
                       loaded, taken>>
    BY DEF PutBackTail, Goto, daemonvars
  <1>2. DOMAIN pc = Displays /\ DOMAIN tail = Displays /\ None \notin Nodes
    BY NoneAssumption DEF TypeOK
  <1>3. FreshInv(own, use)' /\ StaysIn(own, use)' /\ OneBefore(own, use)' /\ EventsInv(own, use)'
    BY <1>1 DEF ShapeInv, FreshInv, StaysIn, OneBefore, EventsInv, Is
  <1>4. ASSUME NEW e \in Displays PROVE EndsOf(e, own, use)' /\ ClientOf(e, own, use)'
    <2>1. CASE e = d
      BY <1>1, <1>2, <2>1 DEF ShapeInv, EndsOf, ClientOf, Is
    <2>2. CASE e # d
      BY <1>1, <1>2, <2>2 DEF ShapeInv, EndsOf, ClientOf, Is
    <2> QED BY <2>1, <2>2
  <1>5. NoneBefore(own, use)'
    BY <1>1, <1>2 DEF ShapeInv, NoneBefore
  <1> QED BY <1>3, <1>4, <1>5 DEF ShapeInv

(* The _XQEvent that was taken goes to the free list ...                   *)
LEMMA FreeElementShape ==
    ASSUME TypeOK, NEW own, NEW use, NEW use2, ShapeInv(own, use), NEW d \in Displays,
           FreeElement(d), use2 = [use EXCEPT ![qelt[d]] = "free"]
    PROVE  ShapeInv(own, use2)'
  <1> DEFINE q == qelt[d]
  <1>1. /\ pc[d] = "free" /\ pc' = [pc EXCEPT ![d] = "out"]
        /\ next' = [next EXCEPT ![q] = qfree[d]] /\ qfree' = [qfree EXCEPT ![d] = q]
        /\ UNCHANGED <<event, nnodes, head, tail, todo, orig, copy, written, qelt, prev, loaded,
                       taken>>
    BY DEF FreeElement, Goto, daemonvars
  <1>2. /\ own \in [Nodes -> Displays] /\ use \in [Nodes -> Uses]
        /\ q \in Nodes /\ own[q] = d /\ use[q] = "taken"
    BY <1>1 DEF ShapeInv, ClientOf, Is
  <1>3. /\ next \in [Nodes -> MaybeNode] /\ qfree \in [Displays -> MaybeNode]
        /\ DOMAIN pc = Displays /\ use2 \in [Nodes -> Uses] /\ None \notin Nodes
        /\ use2[q] = "free" /\ \A n \in Nodes \ {q} : use2[n] = use[n]
    BY <1>2, NoneAssumption DEF TypeOK, Uses
  <1>4. next'[q] = qfree[d] /\ \A n \in Nodes \ {q} : next'[n] = next[n]
    BY <1>1, <1>2, <1>3
  <1>5. FreshInv(own, use2)'
    BY <1>1, <1>2 DEF ShapeInv, FreshInv
  <1>6. ASSUME NEW e \in Displays PROVE EndsOf(e, own, use2)'
    <2>1. tail[e] # q
      BY <1>1, <1>2, <1>3, TailOf DEF Is
    <2>2. (tail[e] # None => tail[e] \in Nodes) /\ (pc'[e] = pc[e] \/ e = d)
      BY <1>1, <1>3 DEF TypeOK, MaybeNode
    <2>3. head[e] # q /\ (e # d => qfree[e] # q)
      BY <1>2, <1>3 DEF ShapeInv, EndsOf, Is
    <2> QED BY <1>1, <1>2, <1>3, <1>4, <2>1, <2>2, <2>3 DEF ShapeInv, EndsOf, Is
  <1>7. StaysIn(own, use2)'
    BY <1>1, <1>2, <1>3, <1>4 DEF ShapeInv, StaysIn, EndsOf, Is
  <1>8. OneBefore(own, use2)'
    BY <1>1, <1>2, <1>3, <1>4 DEF ShapeInv, OneBefore, StaysIn, NoneBefore, EndsOf, Is
  <1>9. NoneBefore(own, use2)'
    BY <1>1, <1>2, <1>3, <1>4 DEF ShapeInv, NoneBefore, StaysIn, EndsOf, Is
  <1>10. ClientOf(d, own, use2)'
    BY <1>1, <1>2, <1>3, <1>4 DEF ShapeInv, ClientOf
  <1>11. ASSUME NEW e \in Displays, e # d PROVE ClientOf(e, own, use2)'
    BY <1>1, <1>2, <1>3, <1>4, <1>11 DEF ShapeInv, ClientOf, Is
  <1>12. EventsInv(own, use2)'
    BY <1>1, <1>2, <1>3 DEF ShapeInv, EventsInv
  <1> QED BY <1>2, <1>3, <1>5, <1>6, <1>7, <1>8, <1>9, <1>10, <1>11, <1>12 DEF ShapeInv

(* ... and XPutBackEvent takes one from there.                             *)
LEMMA PutBackShape ==
    ASSUME TypeOK, NEW own, NEW use, NEW use2, ShapeInv(own, use), NEW d \in Displays,
           PutBack(d), use2 = [use EXCEPT ![qfree[d]] = "queued"]
    PROVE  ShapeInv(own, use2)'
  <1> DEFINE q == qfree[d]
  <1>1. PICK i \in DOMAIN got[d] : event' = [event EXCEPT ![q] = got[d][i]]
    BY DEF PutBack
  <1>2. /\ pc[d] = "out" /\ pc' = [pc EXCEPT ![d] = "putback"] /\ q # None
        /\ next' = [next EXCEPT ![q] = head[d]] /\ qfree' = [qfree EXCEPT ![d] = next[q]]
        /\ qelt' = [qelt EXCEPT ![d] = q]
        /\ UNCHANGED <<nnodes, head, tail, todo, orig, copy, written, prev, loaded, taken>>
    BY DEF PutBack, Goto, daemonvars
  <1>3. /\ own \in [Nodes -> Displays] /\ use \in [Nodes -> Uses]
        /\ q \in Nodes /\ own[q] = d /\ use[q] = "free"
    BY <1>2 DEF ShapeInv, EndsOf, Is
  <1>4. /\ next \in [Nodes -> MaybeNode] /\ qfree \in [Displays -> MaybeNode]
        /\ qelt \in [Displays -> MaybeNode] /\ event \in [Nodes -> Events \cup {0}]
        /\ DOMAIN pc = Displays /\ use2 \in [Nodes -> Uses] /\ None \notin Nodes
        /\ use2[q] = "queued" /\ \A n \in Nodes \ {q} : use2[n] = use[n]
        /\ got[d][i] \in Events
    BY <1>3, NoneAssumption DEF TypeOK, Uses
  <1>5. /\ next'[q] = head[d] /\ \A n \in Nodes \ {q} : next'[n] = next[n]
        /\ event'[q] \in Events /\ \A n \in Nodes \ {q} : event'[n] = event[n]
        /\ qfree'[d] = next[q] /\ \A e \in Displays \ {d} : qfree'[e] = qfree[e]
        /\ qelt'[d] = q /\ \A e \in Displays \ {d} : qelt'[e] = qelt[e]
    BY <1>1, <1>2, <1>3, <1>4
  <1>6. FreshInv(own, use2)'
    BY <1>2, <1>3, <1>4 DEF ShapeInv, FreshInv
  <1>7. ASSUME NEW e \in Displays PROVE EndsOf(e, own, use2)'
    <2>1. CASE e = d
      <3>1. /\ head[d] # None => Is(head[d], d, "queued", own, use2)
            /\ tail[d] # None => Is(tail[d], d, "queued", own, use2) /\ next'[tail[d]] = None
            /\ tail[d] = None => head[d] = None
        BY <1>2, <1>3, <1>4, <1>5 DEF ShapeInv, EndsOf, Is
      <3>2. qfree'[d] # None => Is(qfree'[d], d, "free", own, use2)
        <4>1. next[q] # q
          BY <1>2, <1>3, <1>4 DEF ShapeInv, NoneBefore
        <4> QED BY <1>2, <1>3, <1>4, <1>5, <4>1 DEF ShapeInv, StaysIn, Is
      <3> QED BY <1>2, <2>1, <3>1, <3>2 DEF EndsOf, Is
    <2>2. CASE e # d
      <3>1. tail[e] # q /\ head[e] # q /\ qfree[e] # q
        BY <1>3, <1>4, <2>2 DEF ShapeInv, EndsOf, ClientOf, Is
      <3>2. tail[e] # None => tail[e] \in Nodes
        BY DEF TypeOK, MaybeNode
      <3>3. pc'[e] = pc[e] /\ qelt'[e] = qelt[e] /\ qfree'[e] = qfree[e]
        BY <1>2, <1>4, <1>5, <2>2
      <3> QED BY <1>2, <1>4, <1>5, <3>1, <3>2, <3>3 DEF ShapeInv, EndsOf, Is
    <2> QED BY <2>1, <2>2
  <1>8. StaysIn(own, use2)'
    <2>1. \A n \in Nodes : use[n] = "free" /\ n # q => next[n] # q
      BY <1>2, <1>3, <1>4 DEF ShapeInv, StaysIn, NoneBefore, Is
    <2> QED BY <1>2, <1>3, <1>4, <1>5, <2>1 DEF ShapeInv, StaysIn, EndsOf, Is
  <1>9. OneBefore(own, use2)'
    BY <1>2, <1>3, <1>4, <1>5 DEF ShapeInv, OneBefore, StaysIn, NoneBefore, EndsOf, Is
  <1>10. NoneBefore(own, use2)'
    BY <1>2, <1>3, <1>4, <1>5 DEF ShapeInv, NoneBefore, OneBefore, StaysIn, EndsOf, Is
  <1>11. ClientOf(d, own, use2)'
    BY <1>2, <1>3, <1>4, <1>5 DEF ShapeInv, ClientOf, EndsOf, StaysIn, Is
  <1>12. ASSUME NEW e \in Displays, e # d PROVE ClientOf(e, own, use2)'
    <2>1. /\ pc'[e] = pc[e] /\ qelt'[e] = qelt[e]
          /\ prev[e] # None => prev[e] \in Nodes
      BY <1>2, <1>4, <1>5, <1>12 DEF TypeOK, MaybeNode
    <2>2. head[d] # None => Is(head[d], d, "queued", own, use)
      BY DEF ShapeInv, EndsOf
    <2> QED BY <1>2, <1>3, <1>4, <1>5, <1>12, <2>1, <2>2 DEF ShapeInv, ClientOf, Is
  <1>13. EventsInv(own, use2)'
    BY <1>3, <1>4, <1>5 DEF ShapeInv, EventsInv
  <1> QED BY <1>3, <1>4, <1>6, <1>7, <1>8, <1>9, <1>10, <1>11, <1>12, <1>13 DEF ShapeInv

(* Daemon_addEvent links a fresh _XQEvent behind the last one, which the   *)
(* client may be taking out.                                               *)
LEMMA AddEventShape ==
    ASSUME TypeOK, DaemonInv, NEW own, NEW use, NEW own2, NEW use2, ShapeInv(own, use), AddEvent,
           own2 = [own EXCEPT ![written'] = Head(todo)],
           use2 = [use EXCEPT ![written'] = "queued"]
    PROVE  ShapeInv(own2, use2)'
  <1>1. PICK d \in Displays : d = Head(todo)
    BY Serving DEF AddEvent
  <1>2. PICK q : q = IF copy THEN nnodes + 1 ELSE orig
    OBVIOUS
  <1> DEFINE t == tail[d]
  <1>3. /\ next' = IF t = None THEN [next EXCEPT ![q] = None]
                   ELSE [next EXCEPT ![q] = None, ![t] = q]
        /\ head' = IF t = None THEN [head EXCEPT ![d] = q] ELSE head
        /\ tail' = [tail EXCEPT ![d] = q]
        /\ event' = [event EXCEPT ![q] = event[orig]]
        /\ nnodes' = (IF copy THEN nnodes + 1 ELSE nnodes) /\ written' = q
        /\ UNCHANGED <<qfree, todo, orig, copy, pc, qelt, prev, loaded, taken>>
    BY <1>1, <1>2 DEF AddEvent, Link, locals
  <1>4. todo # <<>> /\ written = None
    BY DEF AddEvent
  <1>5. q \in Nodes /\ event[orig] \in Events
    BY <1>2, <1>4, RoomForCopy, Serving
  <1>6. own \in [Nodes -> Displays] /\ use \in [Nodes -> Uses]
    BY DEF ShapeInv
  <1>7. nnodes \in Nat /\ \A n \in Nodes : n \in Nat
    BY NodeFacts DEF TypeOK
  <1>8. use[q] = "fresh"
    <2>1. CASE copy
      BY <1>2, <1>5, <1>7, <2>1 DEF ShapeInv, FreshInv
    <2>2. CASE ~copy
      BY <1>2, <1>4, <2>2 DEF ShapeInv, FreshInv
    <2> QED BY <2>1, <2>2
  <1>9. /\ next \in [Nodes -> MaybeNode] /\ head \in [Displays -> MaybeNode]
        /\ tail \in [Displays -> MaybeNode] /\ event \in [Nodes -> Events \cup {0}]
        /\ None \notin Nodes
    BY NoneAssumption DEF TypeOK
  <1>10. /\ own2 \in [Nodes -> Displays] /\ use2 \in [Nodes -> Uses]
         /\ own2[q] = d /\ \A n \in Nodes \ {q} : own2[n] = own[n]
         /\ use2[q] = "queued" /\ \A n \in Nodes \ {q} : use2[n] = use[n]
    BY <1>1, <1>3, <1>5, <1>6 DEF Uses
  <1>11. t # None => /\ t \in Nodes /\ t # q /\ own[t] = d /\ use[t] \in {"queued", "taken"}
                     /\ next[t] = None
    BY <1>8 DEF ShapeInv, EndsOf, ClientOf, Is
  <1>12. /\ next'[q] = None /\ (t # None => next'[t] = q)
         /\ \A n \in Nodes \ {q} : n # t => next'[n] = next[n]
         /\ head'[d] = (IF t = None THEN q ELSE head[d])
         /\ tail'[d] = q
         /\ \A e \in Displays \ {d} : head'[e] = head[e] /\ tail'[e] = tail[e]
         /\ event'[q] \in Events /\ \A n \in Nodes \ {q} : event'[n] = event[n]
    BY <1>3, <1>5, <1>9, <1>11
  <1> HIDE DEF t
  <1>13. FreshInv(own2, use2)'
    <2>1. q <= nnodes' /\ nnodes' \in Nat /\ nnodes <= nnodes'
      <3>1. copy \in BOOLEAN
        BY DEF TypeOK
      <3>2. orig <= nnodes /\ orig \in Nodes
        BY <1>4, Serving
      <3> QED BY <1>2, <1>3, <1>7, <3>1, <3>2
    <2>2. \A n \in Nodes : use[n] # "fresh" => n <= nnodes
      BY DEF ShapeInv, FreshInv
    <2>3. \A n \in Nodes : use2[n] # "fresh" => n <= nnodes'
      BY <1>7, <1>10, <2>1, <2>2
    <2> QED BY <1>3, <1>5, <1>9, <2>3 DEF FreshInv
  <1>14. ASSUME NEW e \in Displays PROVE EndsOf(e, own2, use2)'
    <2>1. CASE e = d
      BY <1>3, <1>5, <1>8, <1>9, <1>10, <1>12, <2>1 DEF ShapeInv, EndsOf, Is
    <2>2. CASE e # d
      <3>1. /\ head[e] # None => head[e] # q
            /\ qfree[e] # None => qfree[e] # q
            /\ tail[e] # None => tail[e] \in Nodes /\ tail[e] # q /\ tail[e] # t
        <4>1. head[e] # q /\ qfree[e] # q
          BY <1>5, <1>8, <1>9 DEF ShapeInv, EndsOf, Is
        <4>2. tail[e] # None => tail[e] \in Nodes /\ own[tail[e]] = e /\ use[tail[e]] # "fresh"
          BY TailOf DEF Is
        <4> QED BY <1>8, <1>9, <1>11, <2>2, <4>1, <4>2
      <3>2. /\ pc'[e] = pc[e] /\ qelt'[e] = qelt[e] /\ qfree'[e] = qfree[e]
            /\ head'[e] = head[e] /\ tail'[e] = tail[e]
            /\ tail[e] # None => next'[tail[e]] = next[tail[e]]
        BY <1>3, <1>12, <2>2, <3>1
      <3> QED BY <1>10, <3>1, <3>2 DEF ShapeInv, EndsOf, Is
    <2> QED BY <2>1, <2>2
  <1>15. \A n \in Nodes : use[n] # "fresh" => next[n] # q
    BY <1>6, <1>8, <1>9, <1>5 DEF ShapeInv, StaysIn, Is, Uses
  <1>16. StaysIn(own2, use2)'
    <2> SUFFICES ASSUME NEW n \in Nodes, next'[n] # None
                 PROVE  /\ use2[n] \in {"queued", "taken"} => Is(next'[n], own2[n], "queued", own2, use2)
                        /\ use2[n] = "free" => Is(next'[n], own2[n], "free", own2, use2)
      BY DEF StaysIn, Is
    <2>1. n # q
      BY <1>12
    <2>2. CASE n = t
      BY <1>5, <1>9, <1>10, <1>11, <1>12, <2>1, <2>2 DEF Is
    <2>3. CASE n # t
      BY <1>8, <1>10, <1>12, <1>15, <2>1, <2>3 DEF ShapeInv, StaysIn, Is
    <2> QED BY <2>2, <2>3
  <1>17. OneBefore(own2, use2)'
    <2> SUFFICES ASSUME NEW m \in Nodes, NEW n \in Nodes, next'[m] # None, next'[m] = next'[n],
                        use2[m] = use2[n], use2[m] \in {"queued", "free"}
                 PROVE  m = n
      BY DEF OneBefore
    <2>1. m # q /\ n # q
      BY <1>12
    <2>2. use[m] = use[n] /\ use[m] \in {"queued", "free"}
      BY <1>10, <2>1
    <2>3. CASE m = t \/ n = t
      BY <1>9, <1>12, <1>15, <2>1, <2>2, <2>3
    <2>4. CASE m # t /\ n # t
      BY <1>12, <2>1, <2>2, <2>4 DEF ShapeInv, OneBefore
    <2> QED BY <2>3, <2>4
  <1>18. NoneBefore(own2, use2)'
    <2> SUFFICES ASSUME NEW n \in Nodes, next'[n] # None
                 PROVE  /\ use2[n] = "free" => next'[n] # qfree[own2[n]]
                        /\ use2[n] = "queued" /\ next'[n] = head'[own2[n]]
                             => pc[own2[n]] = "putback" /\ n = qelt[own2[n]]
      BY <1>3 DEF NoneBefore
    <2>1. n # q /\ own2[n] = own[n] /\ use2[n] = use[n] /\ own[n] \in Displays
      BY <1>6, <1>10, <1>12
    <2>2. CASE n = t
      <3>1. own[n] = d /\ next'[n] = q /\ use[n] # "free" /\ head[d] # q /\ head'[d] = head[d]
        BY <1>8, <1>9, <1>11, <1>12, <2>2 DEF ShapeInv, EndsOf, Is
      <3> QED BY <2>1, <3>1
    <2>3. CASE n # t
      <3>1. next'[n] = next[n]
        BY <1>12, <2>1, <2>3
      <3>2. use[n] = "queued" => next[n] # q
        BY <1>15
      <3>3. head'[own[n]] = head[own[n]] \/ head'[own[n]] = q
        BY <1>12, <2>1
      <3> QED BY <2>1, <3>1, <3>2, <3>3 DEF ShapeInv, NoneBefore
    <2> QED BY <2>2, <2>3
  <1>19. ASSUME NEW e \in Displays PROVE ClientOf(e, own2, use2)'
    <2>1. /\ qelt[e] \in MaybeNode /\ prev[e] \in MaybeNode
          /\ pc'[e] = pc[e] /\ qelt'[e] = qelt[e] /\ prev'[e] = prev[e] /\ loaded'[e] = loaded[e]
          /\ taken'[e] = taken[e]
      BY <1>3 DEF TypeOK
    <2>2. /\ pc[e] \in {"read", "load", "store", "tail", "free", "putback", "puttail"}
               => Is(qelt[e], e, IF pc[e] \in {"tail", "free"} THEN "taken" ELSE "queued", own, use)
          /\ pc[e] \in {"read", "load", "store", "tail"} /\ prev[e] # None
               => Is(prev[e], e, "queued", own, use)
      BY DEF ShapeInv, ClientOf
    <2>3. /\ pc[e] \in {"read", "load", "store", "tail", "free", "putback", "puttail"} => qelt[e] # q
          /\ pc[e] \in {"read", "load", "store", "tail"} => prev[e] # q
      BY <1>5, <1>8, <1>9, <2>2 DEF Is
    <2>4. pc[e] \in {"read", "load", "store"} =>
              /\ Is(qelt[e], e, "queued", own2, use2)
              /\ tail'[e] # None
              /\ prev[e] = None => head'[e] = qelt[e]
              /\ prev[e] # None => /\ Is(prev[e], e, "queued", own2, use2)
                                   /\ next'[prev[e]] = qelt[e] /\ prev[e] # qelt[e]
      <3> SUFFICES ASSUME pc[e] \in {"read", "load", "store"}
                   PROVE  /\ Is(qelt[e], e, "queued", own2, use2)
                          /\ tail'[e] # None
                          /\ prev[e] = None => head'[e] = qelt[e]
                          /\ prev[e] # None => /\ Is(prev[e], e, "queued", own2, use2)
                                               /\ next'[prev[e]] = qelt[e] /\ prev[e] # qelt[e]
        OBVIOUS
      <3>1. tail[e] # None /\ (prev[e] = None => head[e] = qelt[e])
            /\ (prev[e] # None => next[prev[e]] = qelt[e] /\ prev[e] # qelt[e])
        BY DEF ShapeInv, ClientOf
      <3>2. tail'[e] # None /\ head'[e] = head[e]
        BY <1>5, <1>9, <1>12, <3>1 DEF t
      <3>3. prev[e] # None => prev[e] # t
        BY <1>11, <2>2, <3>1, <1>9 DEF Is
      <3> QED BY <1>10, <1>12, <2>2, <2>3, <3>1, <3>2, <3>3 DEF Is
    <2>5. pc[e] = "store" /\ loaded[e] # None => next'[qelt[e]] = loaded[e]
      BY <1>9, <1>11, <1>12, <2>2, <2>3 DEF ShapeInv, ClientOf, Is
    <2>6. pc[e] = "tail" =>
              /\ tail'[e] # None /\ tail'[e] # prev[e]
              /\ prev[e] = None => head'[e] = None
              /\ prev[e] # None => /\ Is(prev[e], e, "queued", own2, use2)
                                   /\ next'[prev[e]] = None
      <3> SUFFICES ASSUME pc[e] = "tail"
                   PROVE  /\ tail'[e] # None /\ tail'[e] # prev[e]
                          /\ prev[e] = None => head'[e] = None
                          /\ prev[e] # None => /\ Is(prev[e], e, "queued", own2, use2)
                                               /\ next'[prev[e]] = None
        OBVIOUS
      <3>1. tail[e] # None /\ tail[e] # prev[e] /\ (prev[e] = None => head[e] = None)
            /\ (prev[e] # None => next[prev[e]] = None)
        BY DEF ShapeInv, ClientOf
      <3>2. tail'[e] # None /\ tail'[e] # prev[e] /\ head'[e] = head[e]
        BY <1>5, <1>9, <1>12, <2>3, <3>1 DEF t
      <3>3. prev[e] # None => prev[e] # t
        BY <1>11, <2>2, <3>1 DEF t, Is
      <3> QED BY <1>10, <1>12, <2>2, <2>3, <3>1, <3>2, <3>3 DEF Is
    <2>7. /\ pc[e] \in {"tail", "free"} => Is(qelt[e], e, "taken", own2, use2)
          /\ \A n \in Nodes : own2[n] = e /\ use2[n] = "taken" => pc[e] \in {"tail", "free"} /\ n = qelt[e]
      BY <1>10, <2>2, <2>3 DEF ShapeInv, ClientOf, Is
    <2>8. pc[e] \in {"putback", "puttail"} =>
              /\ Is(qelt[e], e, "queued", own2, use2)
              /\ tail'[e] # qelt[e]
              /\ tail'[e] = None => next'[qelt[e]] = None
              /\ \A n \in Nodes : use2[n] = "queued" => next'[n] # qelt[e]
      <3> SUFFICES ASSUME pc[e] \in {"putback", "puttail"}
                   PROVE  /\ Is(qelt[e], e, "queued", own2, use2)
                          /\ tail'[e] # qelt[e]
                          /\ tail'[e] = None => next'[qelt[e]] = None
                          /\ \A n \in Nodes : use2[n] = "queued" => next'[n] # qelt[e]
        OBVIOUS
      <3>1. /\ Is(qelt[e], e, "queued", own, use)
            /\ tail[e] # qelt[e]
            /\ tail[e] = None => next[qelt[e]] = None
            /\ \A n \in Nodes : use[n] = "queued" => next[n] # qelt[e]
        BY DEF ShapeInv, ClientOf
      <3>2. tail'[e] # qelt[e] /\ (tail'[e] = None => e # d /\ tail[e] = None)
        BY <1>5, <1>9, <1>12, <2>3, <3>1
      <3>3. e # d => qelt[e] # t
        BY <1>11, <2>1, <3>1, <1>9 DEF Is
      <3>4. ASSUME NEW n \in Nodes, use2[n] = "queued" PROVE next'[n] # qelt[e]
        BY <1>9, <1>10, <1>12, <2>3, <3>1, <3>4 DEF Is
      <3> QED BY <1>10, <1>12, <2>2, <2>3, <3>1, <3>2, <3>3, <3>4 DEF Is
    <2>9. pc[e] \in {"read", "load", "store", "tail", "free"} => taken[e] = event'[qelt[e]]
      BY <1>12, <2>2, <2>3 DEF ShapeInv, ClientOf, Is
    <2> QED BY <2>1, <2>4, <2>5, <2>6, <2>7, <2>8, <2>9 DEF ClientOf, Is
  <1>20. EventsInv(own2, use2)'
    BY <1>10, <1>12 DEF ShapeInv, EventsInv
  <1> QED BY <1>10, <1>13, <1>14, <1>16, <1>17, <1>18, <1>19, <1>20 DEF ShapeInv

LEMMA ShapeStep ==
    ASSUME TypeOK, DaemonInv, NEW own, NEW use, ShapeInv(own, use), [Next]_vars
    PROVE  \E own2, use2 : ShapeInv(own2, use2)'
  <1>1. CASE AddEvent
    <2>1. PICK own2 : own2 = [own EXCEPT ![written'] = Head(todo)]
      OBVIOUS
    <2>2. PICK use2 : use2 = [use EXCEPT ![written'] = "queued"]
      OBVIOUS
    <2>3. ShapeInv(own2, use2)'
      BY <1>1, <2>1, <2>2, AddEventShape
    <2> QED BY <2>3
  <1>2. ASSUME NEW d \in Displays, StoreNext(d) PROVE \E own2, use2 : ShapeInv(own2, use2)'
    <2>1. PICK use2 : use2 = [use EXCEPT ![qelt[d]] = "taken"]
      OBVIOUS
    <2>2. ShapeInv(own, use2)'
      BY <1>2, <2>1, StoreNextShape
    <2> QED BY <2>2
  <1>3. ASSUME NEW d \in Displays, FreeElement(d) PROVE \E own2, use2 : ShapeInv(own2, use2)'
    <2>1. PICK use2 : use2 = [use EXCEPT ![qelt[d]] = "free"]
      OBVIOUS
    <2>2. ShapeInv(own, use2)'
      BY <1>3, <2>1, FreeElementShape
    <2> QED BY <2>2
  <1>4. ASSUME NEW d \in Displays, PutBack(d) PROVE \E own2, use2 : ShapeInv(own2, use2)'
    <2>1. PICK use2 : use2 = [use EXCEPT ![qfree[d]] = "queued"]
      OBVIOUS
    <2>2. ShapeInv(own, use2)'
      BY <1>4, <2>1, PutBackShape
    <2> QED BY <2>2
  <1>5. ASSUME ShapeInv(own, use)' PROVE \E own2, use2 : ShapeInv(own2, use2)'
    BY <1>5
  <1>6. CASE DoEvent \/ WritePipe
    BY <1>5, <1>6, DoEventShape, WritePipeShape
  <1>7. ASSUME NEW d \in Displays, \/ StoreTail(d) \/ PutBackHead(d) \/ PutBackTail(d)
                                   \/ NextEvent(d) \/ TakeNothing(d) \/ TakeFirst(d)
                                   \/ CheckIfEvent(d) \/ ReadPipe(d) \/ LoadNext(d)
        PROVE  ShapeInv(own, use)'
    BY <1>7, StoreTailShape, PutBackHeadShape, PutBackTailShape, QuietClient
  <1>8. CASE UNCHANGED vars
    <2>1. ShapeInv(own, use)'
      BY <1>8 DEF vars, queue, daemonvars, locals, ShapeInv, FreshInv, EndsOf, StaysIn, OneBefore,
                  NoneBefore, ClientOf, EventsInv, Is
    <2> QED BY <1>5, <2>1
  <1> QED BY <1>1, <1>2, <1>3, <1>4, <1>5, <1>6, <1>7, <1>8 DEF Next, Daemon, Client, Proceed

THEOREM Invariance == Spec => []Inv
  <1>1. Inv /\ [Next]_vars => Inv'
    <2> SUFFICES ASSUME Inv, [Next]_vars PROVE Inv'
      OBVIOUS
    <2>1. TypeOK /\ DaemonInv /\ PipeCounts
      BY DEF Inv
    <2>2. PICK own, use : ShapeInv(own, use)
      BY DEF Inv
    <2>3. TypeOK' /\ DaemonInv' /\ PipeCounts'
      BY <2>1, <2>2, TypeStep, DaemonStep, PipeCountsStep
    <2>4. \E own2, use2 : ShapeInv(own2, use2)'
      BY <2>1, <2>2, ShapeStep
    <2> QED BY <2>3, <2>4 DEF Inv
  <1> QED BY InitInv, <1>1, PTL DEF Spec

(* The links stay within the _XQEvents that were allocated, a pipe within  *)
(* its size, and qlen never falls below 0, whatever is lost.               *)
THEOREM TypeCorrect == Spec => []TypeOK
  <1>1. Inv => TypeOK
    BY DEF Inv
  <1> QED BY <1>1, Invariance, PTL

(* Each event that is counted and has no address in the pipe was refused   *)
(* by the full pipe or put back, however daemon and client interleave.     *)
THEOREM PipeCountsHolds == Spec => []PipeCounts
  <1>1. Inv => PipeCounts
    BY DEF Inv
  <1> QED BY <1>1, Invariance, PTL

(* An _XQEvent in the free list of a display is not linked anywhere else,  *)
(* and the daemon will not link the next event behind it.                  *)
THEOREM FreeIsNotInUse == Spec => []FreeIsUnused
  <1>1. Inv => FreeIsUnused
    <2> SUFFICES ASSUME Inv, NEW d \in Displays, NEW e \in Displays
                 PROVE  /\ Listed(qfree[d]) \cap Listed(head[e]) = {}
                        /\ tail[e] \notin Listed(qfree[d])
                        /\ d # e => Listed(qfree[d]) \cap Listed(qfree[e]) = {}
      BY DEF FreeIsUnused
    <2>1. TypeOK
      BY DEF Inv
    <2>2. PICK own, use : ShapeInv(own, use)
      BY DEF Inv
    <2>3. \A n \in Listed(qfree[d]) : n \in Nodes /\ own[n] = d /\ use[n] = "free"
      BY <2>1, <2>2, FreeAreListed DEF Listed, Is
    <2>4. \A n \in Listed(qfree[e]) : n \in Nodes /\ own[n] = e /\ use[n] = "free"
      BY <2>1, <2>2, FreeAreListed DEF Listed, Is
    <2>5. \A n \in Listed(head[e]) : use[n] = "queued"
      BY <2>1, <2>2, QueuedAreListed DEF Listed, Is
    <2>6. tail[e] # None => use[tail[e]] # "free"
      BY <2>2, TailOf DEF Is
    <2>7. tail[e] \notin Listed(qfree[d])
      BY <2>3, <2>6, NoneAssumption
    <2> QED BY <2>3, <2>4, <2>5, <2>7
  <1> QED BY <1>1, Invariance, PTL

-------------------------------------------------------------------------------
(* Order, without put-backs and where events are taken from the front.     *)

(* Who is to be served after a step of the daemon.                         *)
LEMMA PendingStep ==
    ASSUME TypeOK, DaemonInv
    PROVE  /\ AddEvent => /\ \A d : d = Head(todo) => Pending(d) /\ ~Pending(d)'
                          /\ \A d : Pending(d)' => Pending(d)
           /\ WritePipe => \A d : Pending(d)' => Pending(d)
           /\ UNCHANGED <<todo, written>> => \A d : Pending(d)' <=> Pending(d)
           /\ todo = <<>> => \A d : ~Pending(d)
  <1>1. ASSUME AddEvent PROVE /\ \A d : d = Head(todo) => Pending(d) /\ ~Pending(d)'
                              /\ \A d : Pending(d)' => Pending(d)
    <2>1. /\ todo # <<>> /\ written = None /\ written' \in Nodes /\ written' # None
          /\ UNCHANGED todo
      BY <1>1, RoomForCopy, Serving, NoneAssumption DEF AddEvent
    <2>2. /\ Head(todo) = todo[1] /\ 1 \in DOMAIN todo
      BY <2>1, Serving
    <2>3. \A d : d = Head(todo) => ~Pending(d)'
      BY <2>1, <2>2 DEF Pending, DaemonInv
    <2> QED BY <2>1, <2>2, <2>3 DEF Pending
  <1>2. ASSUME WritePipe, NEW d, Pending(d)' PROVE Pending(d)
    <2>1. todo # <<>> /\ todo' = Tail(todo)
      BY <1>2 DEF WritePipe, DaemonInv
    <2>2. todo \in Seq(Displays) /\ DOMAIN todo = 1 .. Len(todo) /\ Len(todo) \in Nat \ {0}
      BY <2>1, Serving DEF TypeOK
    <2>3. DOMAIN todo' = 1 .. Len(todo) - 1 /\ \A i \in 1 .. Len(todo) - 1 : todo'[i] = todo[i + 1]
      BY <2>1, <2>2
    <2>4. PICK i \in DOMAIN todo' : todo'[i] = d
      BY <1>2 DEF Pending
    <2>5. i + 1 \in DOMAIN todo /\ i + 1 # 1 /\ todo[i + 1] = d
      BY <2>2, <2>3, <2>4
    <2> QED BY <2>5 DEF Pending
  <1>3. ASSUME UNCHANGED <<todo, written>> PROVE \A d : Pending(d)' <=> Pending(d)
    BY <1>3 DEF Pending
  <1>4. todo = <<>> => \A d : ~Pending(d)
    BY DEF Pending
  <1> QED BY <1>1, <1>2, <1>3, <1>4

(* Events are numbered as they happen.                                     *)
LEMMA Numbers ==
    ASSUME TypeOK
    PROVE  /\ nevents \in Nat
           /\ \A n \in Nodes : event[n] \in Nat
           /\ \A d \in Displays : /\ DOMAIN got[d] = 1 .. Len(got[d]) /\ Len(got[d]) \in Nat
                                  /\ \A i \in DOMAIN got[d] : got[d][i] \in Nat
  <1>1. nevents \in Nat
    BY QueueAssumption DEF TypeOK
  <1>2. \A n \in Nodes : event[n] \in Nat
    BY QueueAssumption DEF TypeOK, Events
  <1>3. ASSUME NEW d \in Displays
        PROVE  /\ DOMAIN got[d] = 1 .. Len(got[d]) /\ Len(got[d]) \in Nat
               /\ \A i \in DOMAIN got[d] : got[d][i] \in Nat
    <2>1. got[d] \in Seq(Events)
      BY DEF TypeOK
    <2>2. \A i \in DOMAIN got[d] : got[d][i] \in Events
      BY <2>1
    <2>3. Events \subseteq Nat
      BY QueueAssumption DEF Events
    <2>4. DOMAIN got[d] = 1 .. Len(got[d]) /\ Len(got[d]) \in Nat
      BY <2>1
    <2>5. \A i \in DOMAIN got[d] : got[d][i] \in Nat
      BY <2>2, <2>3
    <2> QED BY <2>4, <2>5
  <1> QED BY <1>1, <1>2, <1>3

LEMMA DoEventOrder ==
    ASSUME TypeOK, DaemonInv, NEW own, NEW use, ShapeInv(own, use), Ordered(own, use), DoEvent
    PROVE  Ordered(own, use)'
  <1>1. /\ event' = [event EXCEPT ![nnodes + 1] = nevents + 1] /\ nevents' = nevents + 1
        /\ orig' = nnodes + 1 /\ todo = <<>>
        /\ UNCHANGED <<next, head, pc, qelt, prev, got>>
    BY DEF DoEvent, locals, history
  <1>2. nnodes + 1 \in Nodes /\ nnodes \in Nat /\ (\A n \in Nodes : n \in Nat)
    BY RoomForEvent, NodeFacts DEF DoEvent, TypeOK
  <1>3. use[nnodes + 1] = "fresh"
    BY <1>2 DEF ShapeInv, FreshInv
  <1>4. /\ \A n \in Nodes : use[n] # "fresh" => event'[n] = event[n]
        /\ event'[nnodes + 1] = nevents + 1
    BY <1>1, <1>2, <1>3 DEF TypeOK
  <1>5. ASSUME NEW n \in Nodes PROVE OrderOfNode(n, own, use)'
    <2>1. CASE use[n] \in {"queued", "taken"}
      <3>1. /\ event[n] <= nevents /\ event[n] \in Nat /\ event'[n] = event[n]
            /\ next[n] # None => event[n] < event[next[n]]
        BY <1>4, <2>1, Numbers DEF Ordered, OrderOfNode
      <3>2. next[n] # None => event'[next[n]] = event[next[n]]
        BY <1>4, <2>1 DEF ShapeInv, StaysIn, Is
      <3> QED BY <1>1, <3>1, <3>2, Numbers DEF OrderOfNode
    <2>2. CASE use[n] \notin {"queued", "taken"}
      BY <2>2 DEF OrderOfNode
    <2> QED BY <2>1, <2>2
  <1>6. ASSUME NEW d \in Displays PROVE OrderOf(d)'
    <2>1. /\ head[d] # None => event'[head[d]] = event[head[d]]
          /\ pc[d] \in {"tail", "free"} => event'[qelt[d]] = event[qelt[d]]
      BY <1>4 DEF ShapeInv, EndsOf, ClientOf, Is
    <2>2. event'[orig'] = nevents'
      BY <1>1, <1>4
    <2>3. \A i \in DOMAIN got[d] : got[d][i] <= nevents /\ got[d][i] \in Nat
      BY Numbers DEF Ordered, OrderOf
    <2>4. \A i \in DOMAIN got[d] : got[d][i] <= nevents' /\ got[d][i] < nevents'
      BY <1>1, <2>3, Numbers
    <2> QED BY <1>1, <2>1, <2>2, <2>4 DEF Ordered, OrderOf
  <1> QED BY <1>5, <1>6 DEF Ordered

LEMMA AddEventOrder ==
    ASSUME TypeOK, DaemonInv, NEW own, NEW use, NEW own2, NEW use2, ShapeInv(own, use),
           Ordered(own, use), AddEvent,
           own2 = [own EXCEPT ![written'] = Head(todo)],
           use2 = [use EXCEPT ![written'] = "queued"],
           ShapeInv(own2, use2)'
    PROVE  Ordered(own2, use2)'
  <1>1. PICK d \in Displays : d = Head(todo)
    BY Serving DEF AddEvent
  <1>2. PICK q : q = IF copy THEN nnodes + 1 ELSE orig
    OBVIOUS
  <1> DEFINE t == tail[d]
  <1>3. /\ next' = IF t = None THEN [next EXCEPT ![q] = None]
                   ELSE [next EXCEPT ![q] = None, ![t] = q]
        /\ head' = IF t = None THEN [head EXCEPT ![d] = q] ELSE head
        /\ event' = [event EXCEPT ![q] = event[orig]]
        /\ written' = q
        /\ UNCHANGED <<orig, nevents, pc, qelt, prev, got>>
    BY <1>1, <1>2 DEF AddEvent, Link, locals, history
  <1>4. q \in Nodes /\ orig \in Nodes /\ todo # <<>> /\ written = None
    BY <1>2, RoomForCopy, Serving DEF AddEvent
  <1>5. use[q] = "fresh"
    <2>1. nnodes \in Nat /\ \A n \in Nodes : n \in Nat
      BY NodeFacts DEF TypeOK
    <2>2. CASE copy
      BY <1>2, <1>4, <2>1, <2>2 DEF ShapeInv, FreshInv
    <2>3. CASE ~copy
      BY <1>2, <1>4, <2>3 DEF ShapeInv, FreshInv
    <2> QED BY <2>2, <2>3
  <1>6. /\ next \in [Nodes -> MaybeNode] /\ head \in [Displays -> MaybeNode]
        /\ event \in [Nodes -> Events \cup {0}] /\ None \notin Nodes
        /\ own \in [Nodes -> Displays] /\ use \in [Nodes -> Uses]
    BY NoneAssumption DEF TypeOK, ShapeInv
  <1>7. t # None => t \in Nodes /\ t # q /\ own[t] = d /\ use[t] \in {"queued", "taken"}
    BY <1>5, TailOf DEF Is
  <1>8. /\ next'[q] = None /\ (t # None => next'[t] = q)
        /\ \A n \in Nodes \ {q} : n # t => next'[n] = next[n]
        /\ head'[d] = (IF t = None THEN q ELSE head[d])
        /\ \A e \in Displays \ {d} : head'[e] = head[e]
        /\ event'[q] = event[orig] /\ \A n \in Nodes \ {q} : event'[n] = event[n]
        /\ own2[q] = d /\ \A n \in Nodes \ {q} : own2[n] = own[n] /\ use2[n] = use[n]
    BY <1>1, <1>3, <1>4, <1>6, <1>7
  <1>9. Pending(d) /\ ~Pending(d)' /\ \A e : Pending(e)' => Pending(e)
    BY <1>1, PendingStep
  <1>10. event[orig] = nevents
    BY <1>9 DEF Ordered, OrderOf
  <1>11. event'[q] = nevents /\ event'[orig] = nevents
    BY <1>4, <1>8, <1>10
  <1> HIDE DEF t
  <1>12. ASSUME NEW n \in Nodes PROVE OrderOfNode(n, own2, use2)'
    <2>1. CASE n = q
      <3>1. ~Pending(own2[n])'
        BY <1>8, <1>9, <2>1 DEF Pending
      <3>2. event'[n] = nevents /\ next'[n] = None /\ nevents' = nevents
        BY <1>3, <1>8, <1>11, <2>1
      <3>3. nevents <= nevents
        BY Numbers
      <3> QED BY <3>1, <3>2, <3>3 DEF OrderOfNode
    <2>2. CASE n # q /\ use[n] \in {"queued", "taken"}
      <3>1. /\ event'[n] = event[n] /\ event[n] <= nevents
            /\ Pending(own[n]) => event[n] < nevents
            /\ next[n] # None => event[n] < event[next[n]]
            /\ own2[n] = own[n]
        BY <1>8, <2>2 DEF Ordered, OrderOfNode
      <3>2. next[n] # None => next[n] \in Nodes /\ next[n] # q
        BY <1>5, <2>2 DEF ShapeInv, StaysIn, Is
      <3>5. Pending(own2[n])' => Pending(own[n])
        BY <1>9, <3>1 DEF Pending
      <3>3. CASE n = t
        <4>1. next'[n] = q /\ event[n] < nevents
          BY <1>6, <1>7, <1>8, <1>9, <2>2, <3>1, <3>3
        <4> QED BY <1>3, <1>11, <3>1, <3>5, <4>1 DEF OrderOfNode
      <3>4. CASE n # t
        <4>1. next'[n] = next[n] /\ nevents' = nevents
              /\ (next[n] # None => event'[next[n]] = event[next[n]])
          BY <1>3, <1>8, <2>2, <3>2, <3>4
        <4> QED BY <3>1, <3>5, <4>1 DEF OrderOfNode
      <3> QED BY <3>3, <3>4
    <2>3. CASE n # q /\ use[n] \notin {"queued", "taken"}
      BY <1>8, <2>3 DEF OrderOfNode
    <2> QED BY <2>1, <2>2, <2>3
  <1>13. ASSUME NEW e \in Displays PROVE OrderOf(e)'
    <2>1. /\ head[e] # None => head[e] # q /\ head[e] \in Nodes
          /\ pc[e] \in {"tail", "free"} => /\ qelt[e] \in Nodes /\ qelt[e] # q
                                           /\ own[qelt[e]] = e /\ use[qelt[e]] = "taken"
      BY <1>5 DEF ShapeInv, EndsOf, ClientOf, Is
    <2>2. pc[e] \in {"tail", "free"} => event'[qelt[e]] = event[qelt[e]]
      BY <1>8, <2>1
    <2>3. \/ head'[e] = head[e] /\ (head[e] # None => event'[head[e]] = event[head[e]])
          \/ e = d /\ head'[e] = q
      BY <1>8, <2>1
    <2>4. pc[e] \in {"tail", "free"} /\ e = d => event[qelt[e]] < nevents
      BY <1>9, <2>1 DEF Ordered, OrderOfNode
    <2>5. e = d => \A i \in DOMAIN got[e] : got[e][i] < nevents
      BY <1>9 DEF Ordered, OrderOf
    <2>6. OrderOf(e)
      BY DEF Ordered
    <2>7. \A i \in DOMAIN got[e] :
             /\ head'[e] # None => got[e][i] < event'[head'[e]]
             /\ pc[e] \in {"tail", "free"} => got[e][i] < event'[qelt[e]]
      BY <1>11, <2>2, <2>3, <2>5, <2>6 DEF OrderOf
    <2>8. pc[e] \in {"tail", "free"} /\ head'[e] # None => event'[qelt[e]] < event'[head'[e]]
      BY <1>11, <2>2, <2>3, <2>4, <2>6 DEF OrderOf
    <2> QED BY <1>3, <1>9, <1>11, <2>6, <2>7, <2>8 DEF OrderOf
  <1> QED BY <1>12, <1>13 DEF Ordered

LEMMA StoreNextOrder ==
    ASSUME TypeOK, NEW own, NEW use, NEW use2, ShapeInv(own, use), Ordered(own, use),
           NEW d \in Displays, StoreNext(d), use2 = [use EXCEPT ![qelt[d]] = "taken"]
    PROVE  Ordered(own, use2)'
  <1>1. prev[d] = None
    BY DEF Ordered, OrderOf, StoreNext, Goto
  <1>2. /\ pc[d] = "store" /\ pc' = [pc EXCEPT ![d] = IF loaded[d] = None THEN "tail" ELSE "free"]
        /\ head' = [head EXCEPT ![d] = loaded[d]]
        /\ UNCHANGED <<next, event, nevents, todo, orig, written, qelt, prev, got>>
    BY <1>1 DEF StoreNext, Goto, daemonvars, history
  <1>3. /\ qelt[d] \in Nodes /\ use[qelt[d]] = "queued" /\ head[d] = qelt[d] /\ head[d] # None
        /\ loaded[d] # None => next[qelt[d]] = loaded[d]
    BY <1>1, <1>2, NoneAssumption DEF ShapeInv, ClientOf, Is
  <1>4. \A e : Pending(e)' <=> Pending(e)
    BY <1>2 DEF Pending
  <1>5. ASSUME NEW n \in Nodes PROVE OrderOfNode(n, own, use2)'
    <2>1. use2[n] \in {"queued", "taken"} => use[n] \in {"queued", "taken"}
      BY <1>3 DEF ShapeInv
    <2> QED BY <1>2, <1>4, <2>1 DEF Ordered, OrderOfNode
  <1>6. ASSUME NEW e \in Displays PROVE OrderOf(e)'
    <2>1. CASE e = d
      <3>1. OrderOf(d) /\ pc'[d] \in {"tail", "free"} /\ head'[d] = loaded[d]
        BY <1>2 DEF Ordered, TypeOK
      <3>2. /\ event[qelt[d]] \in Nat
            /\ loaded[d] # None => event[qelt[d]] < event[loaded[d]] /\ event[loaded[d]] \in Nat
        <4>1. loaded[d] # None => loaded[d] \in Nodes
          BY DEF TypeOK, MaybeNode
        <4> QED BY <1>3, <4>1, Numbers DEF Ordered, OrderOfNode
      <3>3. \A i \in DOMAIN got[d] : /\ got[d][i] < event[qelt[d]]
                                     /\ loaded[d] # None => got[d][i] < event[loaded[d]]
        <4>1. \A i \in DOMAIN got[d] : got[d][i] < event[qelt[d]] /\ got[d][i] \in Nat
          BY <1>3, <3>1, Numbers DEF OrderOf
        <4> QED BY <3>2, <4>1
      <3> QED BY <1>1, <1>2, <1>4, <2>1, <3>1, <3>2, <3>3 DEF OrderOf
    <2>2. CASE e # d
      <3>1. pc'[e] = pc[e] /\ head'[e] = head[e]
        BY <1>2, <2>2 DEF TypeOK
      <3> QED BY <1>2, <1>4, <3>1 DEF Ordered, OrderOf
    <2> QED BY <2>1, <2>2
  <1> QED BY <1>5, <1>6 DEF Ordered

LEMMA FreeElementOrder ==
    ASSUME TypeOK, NEW own, NEW use, NEW use2, ShapeInv(own, use), Ordered(own, use),
           NEW d \in Displays, FreeElement(d), use2 = [use EXCEPT ![qelt[d]] = "free"]
    PROVE  Ordered(own, use2)'
  <1> DEFINE q == qelt[d]
  <1>1. /\ pc[d] = "free" /\ pc' = [pc EXCEPT ![d] = "out"]
        /\ next' = [next EXCEPT ![q] = qfree[d]] /\ got' = [got EXCEPT ![d] = Append(@, taken[d])]
        /\ UNCHANGED <<event, head, nevents, todo, orig, written, qelt, prev>>
    BY DEF FreeElement, Goto, daemonvars
  <1>2. q \in Nodes /\ own[q] = d /\ use[q] = "taken" /\ taken[d] = event[q]
    BY <1>1 DEF ShapeInv, ClientOf, Is
  <1>3. \A e : Pending(e)' <=> Pending(e)
    BY <1>1 DEF Pending
  <1>4. ASSUME NEW n \in Nodes PROVE OrderOfNode(n, own, use2)'
    <2>1. use2[n] \in {"queued", "taken"} => n # q /\ use[n] \in {"queued", "taken"}
      BY <1>2 DEF ShapeInv
    <2>2. n # q => next'[n] = next[n]
      BY <1>1 DEF TypeOK
    <2> QED BY <1>1, <1>3, <2>1, <2>2 DEF Ordered, OrderOfNode
  <1>5. ASSUME NEW e \in Displays PROVE OrderOf(e)'
    <2>1. CASE e = d
      <3>1. pc'[d] = "out" /\ OrderOf(d)
        BY <1>1 DEF Ordered, TypeOK
      <3>2. PICK k \in Nat : k = Len(got[d]) /\ DOMAIN got[d] = 1 .. k
        BY Numbers
      <3>3. /\ DOMAIN got'[d] = 1 .. k + 1 /\ got'[d][k + 1] = event[q]
            /\ \A i \in 1 .. k : got'[d][i] = got[d][i]
        <4>1. got \in [Displays -> Seq(Events)] /\ taken[d] \in Events
          BY <1>2 DEF TypeOK, ShapeInv, EventsInv
        <4>2. got'[d] = Append(got[d], event[q]) /\ got[d] \in Seq(Events) /\ event[q] \in Events
          BY <1>1, <1>2, <4>1
        <4> QED BY <3>2, <4>2
      <3>4. /\ event[q] <= nevents
            /\ Pending(d) => event[q] < nevents
            /\ head[d] # None => event[q] < event[head[d]]
        BY <1>1, <1>2, <3>1 DEF Ordered, OrderOfNode, OrderOf
      <3>5. ASSUME NEW i \in 1 .. k + 1
            PROVE  /\ got'[d][i] <= nevents
                   /\ Pending(d) => got'[d][i] < nevents
                   /\ head[d] # None => got'[d][i] < event[head[d]]
        <4>1. CASE i = k + 1
          BY <3>3, <3>4, <4>1
        <4>2. CASE i # k + 1
          <5>1. i \in 1 .. k
            BY <4>2
          <5> QED BY <3>1, <3>2, <3>3, <5>1 DEF OrderOf
        <4> QED BY <4>1, <4>2
      <3>6. ASSUME NEW i \in 1 .. k + 1, NEW j \in 1 .. k + 1, i < j PROVE got'[d][i] < got'[d][j]
        <4>1. i \in 1 .. k /\ got[d][i] < event[q]
          BY <1>1, <3>1, <3>2, <3>6 DEF OrderOf
        <4>2. CASE j = k + 1
          BY <3>3, <4>1, <4>2
        <4>3. CASE j # k + 1
          <5>1. j \in 1 .. k
            BY <4>3
          <5> QED BY <3>1, <3>2, <3>3, <3>6, <4>1, <5>1 DEF OrderOf
        <4> QED BY <4>2, <4>3
      <3>7. (Pending(d) => event[orig] = nevents) /\ UNCHANGED <<event, head, nevents, orig>>
        BY <1>1, <3>1 DEF OrderOf
      <3> QED BY <1>3, <2>1, <3>1, <3>3, <3>5, <3>6, <3>7 DEF OrderOf
    <2>2. CASE e # d
      <3>1. pc'[e] = pc[e] /\ got'[e] = got[e]
        BY <1>1, <2>2 DEF TypeOK
      <3> QED BY <1>1, <1>3, <3>1 DEF Ordered, OrderOf
    <2> QED BY <2>1, <2>2
  <1> QED BY <1>4, <1>5 DEF Ordered

(* The steps that change no order.                                         *)
LEMMA QuietOrder ==
    ASSUME TypeOK, DaemonInv, NEW own, NEW use, Ordered(own, use),
           \/ WritePipe
           \/ \E d \in Displays : \/ NextEvent(d) \/ TakeNothing(d) \/ TakeFirst(d) \/ ReadPipe(d)
                                  \/ LoadNext(d) \/ StoreTail(d)
           \/ UNCHANGED vars
    PROVE  Ordered(own, use)'
  <1>1. UNCHANGED <<next, event, head, nevents, orig, got>>
    BY DEF WritePipe, NextEvent, TakeNothing, TakeFirst, ReadPipe, LoadNext, StoreTail, vars, queue,
           daemonvars, history
  <1>2. \A e : Pending(e)' => Pending(e)
    <2>1. CASE WritePipe
      BY <2>1, PendingStep
    <2>2. CASE UNCHANGED <<todo, written>>
      BY <2>2, PendingStep
    <2> QED BY <2>1, <2>2 DEF NextEvent, TakeNothing, TakeFirst, ReadPipe, LoadNext, StoreTail, vars,
               daemonvars
  <1>3. ASSUME NEW n \in Nodes PROVE OrderOfNode(n, own, use)'
    BY <1>1, <1>2 DEF Ordered, OrderOfNode
  <1>4. ASSUME NEW e \in Displays PROVE OrderOf(e)'
    <2>1. OrderOf(e)
      BY DEF Ordered
    <2>2. CASE UNCHANGED <<pc, qelt, prev>>
      BY <1>1, <1>2, <2>1, <2>2 DEF OrderOf
    <2>3. ASSUME NEW d \in Displays, \/ NextEvent(d) \/ TakeNothing(d) \/ TakeFirst(d) \/ ReadPipe(d)
                                     \/ LoadNext(d) \/ StoreTail(d)
          PROVE  OrderOf(e)'
      <3>1. /\ pc'[e] \notin {"putback", "puttail"}
            /\ pc'[e] \notin {"out", "next", "trapped"} => prev'[e] = None
            /\ pc'[e] \in {"tail", "free"} => pc[e] \in {"tail", "free"} /\ qelt'[e] = qelt[e]
        <4> USE DEF TypeOK, OrderOf, Goto
        <4>1. CASE NextEvent(d)
          BY <2>1, <4>1 DEF NextEvent
        <4>2. CASE TakeNothing(d)
          BY <2>1, <4>2 DEF TakeNothing
        <4>3. CASE TakeFirst(d)
          BY <2>1, <4>3 DEF TakeFirst
        <4>4. CASE ReadPipe(d)
          BY <2>1, <4>4 DEF ReadPipe
        <4>5. CASE LoadNext(d)
          BY <2>1, <4>5 DEF LoadNext
        <4>6. CASE StoreTail(d)
          BY <2>1, <4>6 DEF StoreTail
        <4> QED BY <2>3, <4>1, <4>2, <4>3, <4>4, <4>5, <4>6
      <3> QED BY <1>1, <1>2, <2>1, <3>1 DEF OrderOf
    <2> QED BY <2>2, <2>3 DEF WritePipe, vars, locals
  <1> QED BY <1>3, <1>4 DEF Ordered

LEMMA OrderStep ==
    ASSUME MaxPutBacks = 0, MaxChecks = 0, TypeOK, DaemonInv, NEW own, NEW use, ShapeInv(own, use),
           Ordered(own, use), [Next]_vars
    PROVE  \E own2, use2 : ShapeInv(own2, use2)' /\ Ordered(own2, use2)'
  <1>1. CASE AddEvent
    <2>1. PICK own2 : own2 = [own EXCEPT ![written'] = Head(todo)]
      OBVIOUS
    <2>2. PICK use2 : use2 = [use EXCEPT ![written'] = "queued"]
      OBVIOUS
    <2>3. ShapeInv(own2, use2)'
      BY <1>1, <2>1, <2>2, AddEventShape
    <2>4. Ordered(own2, use2)'
      BY <1>1, <2>1, <2>2, <2>3, AddEventOrder
    <2> QED BY <2>3, <2>4
  <1>2. ASSUME NEW d \in Displays, StoreNext(d)
        PROVE  \E own2, use2 : ShapeInv(own2, use2)' /\ Ordered(own2, use2)'
    <2>1. PICK use2 : use2 = [use EXCEPT ![qelt[d]] = "taken"]
      OBVIOUS
    <2>2. ShapeInv(own, use2)' /\ Ordered(own, use2)'
      BY <1>2, <2>1, StoreNextShape, StoreNextOrder
    <2> QED BY <2>2
  <1>3. ASSUME NEW d \in Displays, FreeElement(d)
        PROVE  \E own2, use2 : ShapeInv(own2, use2)' /\ Ordered(own2, use2)'
    <2>1. PICK use2 : use2 = [use EXCEPT ![qelt[d]] = "free"]
      OBVIOUS
    <2>2. ShapeInv(own, use2)' /\ Ordered(own, use2)'
      BY <1>3, <2>1, FreeElementShape, FreeElementOrder
    <2> QED BY <2>2
  <1>4. ASSUME ShapeInv(own, use)', Ordered(own, use)'
        PROVE  \E own2, use2 : ShapeInv(own2, use2)' /\ Ordered(own2, use2)'
    BY <1>4
  <1>5. CASE DoEvent
    BY <1>4, <1>5, DoEventShape, DoEventOrder
  <1>6. CASE WritePipe
    BY <1>4, <1>6, WritePipeShape, QuietOrder
  <1>7. ASSUME NEW d \in Displays, \/ NextEvent(d) \/ TakeNothing(d) \/ TakeFirst(d) \/ ReadPipe(d)
                                   \/ LoadNext(d) \/ StoreTail(d)
        PROVE  ShapeInv(own, use)' /\ Ordered(own, use)'
    <2>1. ShapeInv(own, use)'
      BY <1>7, QuietClient, StoreTailShape
    <2>2. Ordered(own, use)'
      BY <1>7, QuietOrder
    <2> QED BY <2>1, <2>2
  <1>8. ASSUME NEW d \in Displays, \/ CheckIfEvent(d) \/ PutBack(d) \/ PutBackHead(d)
                                   \/ PutBackTail(d)
        PROVE  FALSE
    <2>1. pc[d] \notin {"putback", "puttail"}
      BY DEF Ordered, OrderOf
    <2>2. checks[d] \in 0 .. 0 /\ putbacks[d] \in Seq(Events)
      BY DEF TypeOK
    <2>3. ~ checks[d] < 0 /\ ~ Len(putbacks[d]) < 0
      BY <2>2
    <2> QED BY <1>8, <2>1, <2>3 DEF CheckIfEvent, PutBack, PutBackHead, PutBackTail, Goto
  <1>9. CASE UNCHANGED vars
    <2>1. ShapeInv(own, use)'
      BY <1>9 DEF vars, queue, daemonvars, locals, ShapeInv, FreshInv, EndsOf, StaysIn, OneBefore,
                  NoneBefore, ClientOf, EventsInv, Is
    <2>2. Ordered(own, use)'
      BY <1>9, QuietOrder
    <2> QED BY <1>4, <2>1, <2>2
  <1> QED BY <1>1, <1>2, <1>3, <1>4, <1>5, <1>6, <1>7, <1>8, <1>9
          DEF Next, Daemon, Client, Proceed

(* A client that only takes the first event gets the events of its display *)
(* in the order in which they happened, and none twice, whatever the       *)
(* daemon links between its accesses and however full the pipe is.         *)
THEOREM EventsInOrder ==
    ASSUME MaxPutBacks = 0, MaxChecks = 0
    PROVE  Spec => []InOrder
  <1> DEFINE I == \E own, use : ShapeInv(own, use) /\ Ordered(own, use)
  <1>1. Init => I
    <2> SUFFICES ASSUME Init PROVE I
      OBVIOUS
    <2>1. PICK d0 \in Displays : TRUE
      BY QueueAssumption
    <2>2. PICK own, use : ShapeInv(own, use) /\ use = [n \in Nodes |-> "fresh"]
      BY InitShape
    <2>3. Ordered(own, use)
      BY <2>2 DEF Init, All, Ordered, OrderOf, OrderOfNode, Pending
    <2> QED BY <2>2, <2>3
  <1>2. Inv /\ I /\ [Next]_vars => I'
    <2> SUFFICES ASSUME Inv, I, [Next]_vars PROVE I'
      OBVIOUS
    <2>1. PICK own, use : ShapeInv(own, use) /\ Ordered(own, use)
      OBVIOUS
    <2>2. \E own2, use2 : ShapeInv(own2, use2)' /\ Ordered(own2, use2)'
      BY <2>1, OrderStep DEF Inv
    <2> QED BY <2>2
  <1>3. I => InOrder
    BY DEF Ordered, OrderOf, InOrder
  <1> HIDE DEF I
  <1> QED BY <1>1, <1>2, <1>3, Invariance, PTL DEF Spec

-------------------------------------------------------------------------------
(* Number of times.                                                        *)

LEMMA TimesFacts ==
    ASSUME NEW s \in Seq(Events), NEW x \in Events, NEW e
    PROVE  /\ Times(s, e) \in Nat
           /\ Times(Append(s, x), e) = IF x = e THEN Times(s, e) + 1 ELSE Times(s, e)
  <1> DEFINE At == {i \in DOMAIN s : s[i] = e}
             At2 == {i \in DOMAIN Append(s, x) : Append(s, x)[i] = e}
  <1>1. PICK k \in Nat : k = Len(s)
    OBVIOUS
  <1>2. DOMAIN s = 1 .. k /\ DOMAIN Append(s, x) = 1 .. k + 1 /\ Append(s, x)[k + 1] = x
        /\ \A i \in 1 .. k : Append(s, x)[i] = s[i]
    BY <1>1
  <1>3. IsFiniteSet(At) /\ Cardinality(At) \in Nat
    <2>1. IsFiniteSet(1 .. k) /\ At \subseteq 1 .. k
      BY <1>2, FS_Interval
    <2> QED BY <2>1, FS_Subset, FS_CardinalityType
  <1>4. CASE x = e
    <2>1. At2 = At \cup {k + 1}
      BY <1>2, <1>4
    <2>2. k + 1 \notin At
      BY <1>2
    <2>3. Cardinality(At2) = Cardinality(At) + 1
      BY <1>3, <2>1, <2>2, FS_AddElement
    <2> QED BY <1>3, <1>4, <2>3 DEF Times
  <1>5. CASE x # e
    <2>1. At2 = At
      BY <1>2, <1>5
    <2> QED BY <1>3, <1>5, <2>1 DEF Times
  <1> QED BY <1>4, <1>5

LEMMA HeldFacts ==
    ASSUME NEW d, NEW e, NEW own, NEW use
    PROVE  /\ IsFiniteSet(Held(d, e, own, use)) /\ Cardinality(Held(d, e, own, use)) \in Nat
           /\ IsFiniteSet(Held(d, e, own, use))' /\ Cardinality(Held(d, e, own, use))' \in Nat
  <1>1. Held(d, e, own, use) \subseteq Nodes /\ Held(d, e, own, use)' \subseteq Nodes
    BY DEF Held
  <1> QED BY <1>1, NodeFacts, FS_Subset, FS_CardinalityType

(* Two displays that give events back can overwrite the event that the     *)
(* daemon still has to copy; with one display it copies nothing.           *)
LEMMA NothingToCopy ==
    ASSUME Cardinality(Displays) = 1, TypeOK, DaemonInv,
           todo # <<>> => written # None \/ ~copy
    PROVE  /\ Len(todo) <= 1
           /\ \A d : Pending(d) => todo # <<>> /\ written = None /\ ~copy
  <1>1. PICK d0 : Displays = {d0}
    BY QueueAssumption, FS_Singleton
  <1>2. todo \in Seq(Displays) /\ DOMAIN todo = 1 .. Len(todo) /\ Len(todo) \in Nat
    BY DEF TypeOK
  <1>3. \A i \in DOMAIN todo : todo[i] = d0
    BY <1>1, <1>2
  <1>4. Len(todo) <= 1
    <2> SUFFICES ASSUME Len(todo) > 1 PROVE FALSE
      BY <1>2
    <2>1. 1 \in DOMAIN todo /\ 2 \in DOMAIN todo
      BY <1>2
    <2> QED BY <1>3, <2>1 DEF DaemonInv
  <1>5. ASSUME NEW d, Pending(d) PROVE todo # <<>> /\ written = None /\ ~copy
    <2>1. PICK i \in DOMAIN todo : written # None => i # 1
      BY <1>5 DEF Pending
    <2>2. i = 1 /\ todo # <<>>
      BY <1>2, <1>4
    <2> QED BY <2>1, <2>2
  <1> QED BY <1>4, <1>5

(* What a step has to show of each event of a display: what is taken out   *)
(* of the queue or put back is on both sides.                              *)
LEMMA AddEventCount ==
    ASSUME TypeOK, DaemonInv, NEW own, NEW use, NEW own2, NEW use2, ShapeInv(own, use),
           Counted(own, use), AddEvent,
           own2 = [own EXCEPT ![written'] = Head(todo)],
           use2 = [use EXCEPT ![written'] = "queued"]
    PROVE  Counted(own2, use2)'
  <1>1. PICK d \in Displays : d = Head(todo)
    BY Serving DEF AddEvent
  <1>2. PICK q : q = IF copy THEN nnodes + 1 ELSE orig
    OBVIOUS
  <1>3. /\ event' = [event EXCEPT ![q] = event[orig]] /\ written' = q
        /\ UNCHANGED <<orig, nevents, got, putbacks>>
    BY <1>2 DEF AddEvent, history
  <1>4. q \in Nodes /\ orig \in Nodes /\ todo # <<>> /\ written = None
    BY <1>2, RoomForCopy, Serving DEF AddEvent
  <1>5. use[q] = "fresh" /\ own \in [Nodes -> Displays] /\ use \in [Nodes -> Uses]
    <2>1. nnodes \in Nat /\ \A n \in Nodes : n \in Nat
      BY NodeFacts DEF TypeOK
    <2>2. CASE copy
      BY <1>2, <1>4, <2>1, <2>2 DEF ShapeInv, FreshInv
    <2>3. CASE ~copy
      BY <1>2, <1>4, <2>3 DEF ShapeInv, FreshInv
    <2> QED BY <2>2, <2>3 DEF ShapeInv
  <1>6. /\ event'[q] = event[orig] /\ \A n \in Nodes \ {q} : event'[n] = event[n]
        /\ own2[q] = d /\ use2[q] = "queued"
        /\ \A n \in Nodes \ {q} : own2[n] = own[n] /\ use2[n] = use[n]
    BY <1>1, <1>3, <1>4, <1>5 DEF TypeOK
  <1>7. Pending(d) /\ ~Pending(d)' /\ \A e : Pending(e)' => Pending(e)
    BY <1>1, PendingStep
  <1>8. event[orig] = nevents /\ event'[orig] = nevents
    BY <1>4, <1>6, <1>7 DEF Counted
  <1>9. ASSUME NEW c \in Displays, NEW e \in Events PROVE CountOf(c, e, own2, use2)'
    <2>1. CountOf(c, e, own, use)
      BY DEF Counted
    <2>2. /\ Times(got[c], e) \in Nat /\ Times(putbacks[c], e) \in Nat
          /\ Times(got[c], e)' = Times(got[c], e) /\ Times(putbacks[c], e)' = Times(putbacks[c], e)
      BY <1>3, TimesFacts DEF TypeOK
    <2>3. CASE c = d /\ e = nevents
      <3>1. Held(c, e, own2, use2)' = Held(c, e, own, use) \cup {q} /\ q \notin Held(c, e, own, use)
        BY <1>4, <1>5, <1>6, <1>8, <2>3 DEF Held
      <3>2. Cardinality(Held(c, e, own2, use2)') = Cardinality(Held(c, e, own, use)) + 1
        BY <3>1, HeldFacts, FS_AddElement
      <3>3. Sent(c, e) = 0 /\ Sent(c, e)' = 1
        <4>1. ~(e < nevents)
          BY <2>3, Numbers
        <4> QED BY <1>3, <1>7, <2>3, <4>1 DEF Sent
      <3> QED BY <2>1, <2>2, <3>2, <3>3, HeldFacts DEF CountOf
    <2>4. CASE ~(c = d /\ e = nevents)
      <3>1. Held(c, e, own2, use2)' = Held(c, e, own, use)
        BY <1>4, <1>5, <1>6, <1>8, <2>4 DEF Held
      <3>2. Sent(c, e) <= Sent(c, e)' /\ Sent(c, e) \in {0, 1} /\ Sent(c, e)' \in {0, 1}
        BY <1>3, <1>7 DEF Sent
      <3> QED BY <2>1, <2>2, <3>1, <3>2, HeldFacts DEF CountOf
    <2> QED BY <2>3, <2>4
  <1>10. \A c \in Displays : Pending(c)' => event'[orig'] = nevents'
    BY <1>3, <1>8
  <1> QED BY <1>9, <1>10 DEF Counted

LEMMA FreeElementCount ==
    ASSUME TypeOK, NEW own, NEW use, NEW use2, ShapeInv(own, use), Counted(own, use),
           NEW d \in Displays, FreeElement(d), use2 = [use EXCEPT ![qelt[d]] = "free"]
    PROVE  Counted(own, use2)'
  <1> DEFINE q == qelt[d]
  <1>1. /\ pc[d] = "free" /\ got' = [got EXCEPT ![d] = Append(@, taken[d])]
        /\ UNCHANGED <<event, nevents, todo, orig, written, putbacks>>
    BY DEF FreeElement, Goto, daemonvars
  <1>2. /\ q \in Nodes /\ own[q] = d /\ use[q] = "taken" /\ taken[d] = event[q]
        /\ use \in [Nodes -> Uses] /\ event[q] \in Events
    BY <1>1 DEF ShapeInv, ClientOf, EventsInv, Is
  <1>3. \A c : Pending(c)' <=> Pending(c)
    BY <1>1 DEF Pending
  <1>4. use2[q] = "free" /\ \A n \in Nodes \ {q} : use2[n] = use[n]
    BY <1>2
  <1>5. ASSUME NEW c \in Displays, NEW e \in Events PROVE CountOf(c, e, own, use2)'
    <2>1. CountOf(c, e, own, use)
      BY DEF Counted
    <2>2. /\ got[c] \in Seq(Events) /\ Times(got[c], e) \in Nat /\ Times(putbacks[c], e) \in Nat
          /\ Times(putbacks[c], e)' = Times(putbacks[c], e)
      BY <1>1, TimesFacts DEF TypeOK
    <2>3. Sent(c, e)' = Sent(c, e) /\ Sent(c, e) \in {0, 1}
      BY <1>1, <1>3 DEF Sent
    <2>4. CASE c = d /\ e = event[q]
      <3>1. Held(c, e, own, use2)' = Held(c, e, own, use) \ {q} /\ q \in Held(c, e, own, use)
        BY <1>1, <1>2, <1>4, <2>4 DEF Held
      <3>2. Cardinality(Held(c, e, own, use2)') = Cardinality(Held(c, e, own, use)) - 1
        BY <3>1, HeldFacts, FS_RemoveElement
      <3>3. got'[c] = Append(got[c], e)
        BY <1>1, <1>2, <2>4 DEF TypeOK
      <3>4. Times(got'[c], e) = Times(got[c], e) + 1
        BY <2>2, <3>3, TimesFacts
      <3> QED BY <2>1, <2>2, <2>3, <3>2, <3>4, HeldFacts DEF CountOf
    <2>5. CASE ~(c = d /\ e = event[q])
      <3>1. Held(c, e, own, use2)' = Held(c, e, own, use)
        BY <1>1, <1>2, <1>4, <2>5 DEF Held
      <3>2. got'[c] = got[c] \/ (got'[c] = Append(got[c], event[q]) /\ event[q] # e)
        BY <1>1, <1>2, <2>5 DEF TypeOK
      <3>3. Times(got'[c], e) = Times(got[c], e)
        <4>1. event[q] # e => Times(Append(got[c], event[q]), e) = Times(got[c], e)
          BY <1>2, <2>2, TimesFacts
        <4> QED BY <3>2, <4>1
      <3> QED BY <2>1, <2>2, <2>3, <3>1, <3>3, HeldFacts DEF CountOf
    <2> QED BY <2>4, <2>5
  <1>6. \A c \in Displays : Pending(c)' => event'[orig'] = nevents'
    BY <1>1, <1>3 DEF Counted
  <1> QED BY <1>5, <1>6 DEF Counted

LEMMA PutBackCount ==
    ASSUME TypeOK, DaemonInv, NEW own, NEW use, NEW use2, ShapeInv(own, use), Counted(own, use),
           NEW d \in Displays, PutBack(d), use2 = [use EXCEPT ![qfree[d]] = "queued"],
           \A c \in Displays : Pending(c) => use[orig] = "fresh"
    PROVE  Counted(own, use2)'
  <1> DEFINE q == qfree[d]
  <1>1. PICK i \in DOMAIN got[d] : /\ event' = [event EXCEPT ![q] = got[d][i]]
                                   /\ putbacks' = [putbacks EXCEPT ![d] = Append(@, got[d][i])]
    BY DEF PutBack
  <1>2. q # None /\ UNCHANGED <<nevents, todo, orig, written, got>>
    BY DEF PutBack, daemonvars
  <1>3. /\ q \in Nodes /\ own[q] = d /\ use[q] = "free"
        /\ use \in [Nodes -> Uses] /\ got[d][i] \in Events
    BY <1>1, <1>2 DEF ShapeInv, EndsOf, Is, TypeOK
  <1>4. /\ use2[q] = "queued" /\ \A n \in Nodes \ {q} : use2[n] = use[n]
        /\ event'[q] = got[d][i] /\ \A n \in Nodes \ {q} : event'[n] = event[n]
    BY <1>1, <1>3 DEF TypeOK
  <1>5. \A c : Pending(c)' <=> Pending(c)
    BY <1>2 DEF Pending
  <1>6. ASSUME NEW c \in Displays, NEW e \in Events PROVE CountOf(c, e, own, use2)'
    <2>1. CountOf(c, e, own, use)
      BY DEF Counted
    <2>2. /\ putbacks[c] \in Seq(Events) /\ Times(got[c], e) \in Nat /\ Times(putbacks[c], e) \in Nat
          /\ Times(got[c], e)' = Times(got[c], e)
      BY <1>2, TimesFacts DEF TypeOK
    <2>3. Sent(c, e)' = Sent(c, e) /\ Sent(c, e) \in {0, 1}
      BY <1>2, <1>5 DEF Sent
    <2>4. CASE c = d /\ e = got[d][i]
      <3>1. Held(c, e, own, use2)' = Held(c, e, own, use) \cup {q} /\ q \notin Held(c, e, own, use)
        BY <1>3, <1>4, <2>4 DEF Held
      <3>2. Cardinality(Held(c, e, own, use2)') = Cardinality(Held(c, e, own, use)) + 1
        BY <3>1, HeldFacts, FS_AddElement
      <3>3. putbacks'[c] = Append(putbacks[c], e)
        BY <1>1, <2>4 DEF TypeOK
      <3>4. Times(putbacks'[c], e) = Times(putbacks[c], e) + 1
        BY <2>2, <3>3, TimesFacts
      <3> QED BY <2>1, <2>2, <2>3, <3>2, <3>4, HeldFacts DEF CountOf
    <2>5. CASE ~(c = d /\ e = got[d][i])
      <3>1. Held(c, e, own, use2)' = Held(c, e, own, use)
        BY <1>3, <1>4, <2>5 DEF Held
      <3>2. \/ putbacks'[c] = putbacks[c]
            \/ putbacks'[c] = Append(putbacks[c], got[d][i]) /\ got[d][i] # e
        BY <1>1, <2>5 DEF TypeOK
      <3>3. Times(putbacks'[c], e) = Times(putbacks[c], e)
        <4>1. got[d][i] # e => Times(Append(putbacks[c], got[d][i]), e) = Times(putbacks[c], e)
          BY <1>3, <2>2, TimesFacts
        <4> QED BY <3>2, <4>1
      <3> QED BY <2>1, <2>2, <2>3, <3>1, <3>3, HeldFacts DEF CountOf
    <2> QED BY <2>4, <2>5
  <1>7. \A c \in Displays : Pending(c)' => event'[orig'] = nevents'
    <2> SUFFICES ASSUME NEW c \in Displays, Pending(c) PROVE event'[orig] = nevents
      BY <1>2, <1>5
    <2>1. orig \in Nodes /\ orig # q /\ event[orig] = nevents
      BY <1>3, Serving DEF Counted, Pending
    <2> QED BY <1>4, <2>1
  <1> QED BY <1>6, <1>7 DEF Counted

(* The other steps only let an event be sent, or go on from one use to the *)
(* next.                                                                   *)
LEMMA QuietCount ==
    ASSUME TypeOK, NEW own, NEW use, NEW use2, Counted(own, use),
           UNCHANGED <<got, putbacks>>,
           \A n \in Nodes : use2[n] \in {"queued", "taken"}
               => use[n] \in {"queued", "taken"} /\ event'[n] = event[n],
           \A c \in Displays : Pending(c)' => event'[orig'] = nevents',
           \A c \in Displays, e \in Events : Sent(c, e) <= Sent(c, e)'
    PROVE  Counted(own, use2)'
  <1> SUFFICES ASSUME NEW c \in Displays, NEW e \in Events PROVE CountOf(c, e, own, use2)'
    BY DEF Counted
  <1>1. CountOf(c, e, own, use) /\ Sent(c, e) <= Sent(c, e)'
    BY DEF Counted
  <1>2. /\ Times(got[c], e) \in Nat /\ Times(putbacks[c], e) \in Nat
        /\ Times(got[c], e)' = Times(got[c], e) /\ Times(putbacks[c], e)' = Times(putbacks[c], e)
    BY TimesFacts DEF TypeOK
  <1>3. Cardinality(Held(c, e, own, use2)') <= Cardinality(Held(c, e, own, use))
    <2>1. Held(c, e, own, use2)' \subseteq Held(c, e, own, use)
      BY DEF Held
    <2> QED BY <2>1, HeldFacts, FS_Subset
  <1>4. Sent(c, e) \in {0, 1} /\ Sent(c, e)' \in {0, 1}
    BY DEF Sent
  <1> QED BY <1>1, <1>2, <1>3, <1>4, HeldFacts DEF CountOf

LEMMA DoEventCount ==
    ASSUME TypeOK, DaemonInv, NEW own, NEW use, ShapeInv(own, use), Counted(own, use), DoEvent
    PROVE  Counted(own, use)'
  <1>1. /\ event' = [event EXCEPT ![nnodes + 1] = nevents + 1] /\ nevents' = nevents + 1
        /\ orig' = nnodes + 1 /\ todo = <<>> /\ UNCHANGED <<got, putbacks>>
    BY DEF DoEvent, history
  <1>2. nnodes + 1 \in Nodes /\ nnodes \in Nat /\ (\A n \in Nodes : n \in Nat)
    BY RoomForEvent, NodeFacts DEF DoEvent, TypeOK
  <1>3. use[nnodes + 1] = "fresh"
    BY <1>2 DEF ShapeInv, FreshInv
  <1>4. /\ \A n \in Nodes : use[n] \in {"queued", "taken"} => event'[n] = event[n]
        /\ event'[orig'] = nevents'
    BY <1>1, <1>2, <1>3 DEF TypeOK
  <1>5. ASSUME NEW c \in Displays, NEW e \in Events PROVE Sent(c, e) <= Sent(c, e)'
    <2>1. e \in Nat /\ nevents \in Nat
      BY Numbers, QueueAssumption DEF Events
    <2>2. CASE e <= nevents
      <3>1. Sent(c, e)' = 1 /\ Sent(c, e) \in {0, 1}
        BY <1>1, <2>1, <2>2 DEF Sent
      <3> QED BY <3>1
    <2>3. CASE ~(e <= nevents)
      <3>1. Sent(c, e) = 0 /\ Sent(c, e)' \in {0, 1}
        BY <2>1, <2>3 DEF Sent
      <3> QED BY <3>1
    <2> QED BY <2>2, <2>3
  <1> QED BY <1>1, <1>4, <1>5, QuietCount

LEMMA CountStep ==
    ASSUME MaxPutBacks = 0 \/ Cardinality(Displays) = 1, TypeOK, DaemonInv, NEW own, NEW use,
           ShapeInv(own, use), Counted(own, use), [Next]_vars,
           Cardinality(Displays) = 1 => (todo # <<>> => written # None \/ ~copy)
    PROVE  \E own2, use2 : ShapeInv(own2, use2)' /\ Counted(own2, use2)'
  <1>1. CASE AddEvent
    <2>1. PICK own2 : own2 = [own EXCEPT ![written'] = Head(todo)]
      OBVIOUS
    <2>2. PICK use2 : use2 = [use EXCEPT ![written'] = "queued"]
      OBVIOUS
    <2>3. ShapeInv(own2, use2)' /\ Counted(own2, use2)'
      BY <1>1, <2>1, <2>2, AddEventShape, AddEventCount
    <2> QED BY <2>3
  <1>2. ASSUME NEW d \in Displays, FreeElement(d)
        PROVE  \E own2, use2 : ShapeInv(own2, use2)' /\ Counted(own2, use2)'
    <2>1. PICK use2 : use2 = [use EXCEPT ![qelt[d]] = "free"]
      OBVIOUS
    <2>2. ShapeInv(own, use2)' /\ Counted(own, use2)'
      BY <1>2, <2>1, FreeElementShape, FreeElementCount
    <2> QED BY <2>2
  <1>3. ASSUME NEW d \in Displays, PutBack(d)
        PROVE  \E own2, use2 : ShapeInv(own2, use2)' /\ Counted(own2, use2)'
    <2>1. PICK use2 : use2 = [use EXCEPT ![qfree[d]] = "queued"]
      OBVIOUS
    <2>2. Cardinality(Displays) = 1
      <3>1. putbacks[d] \in Seq(Events) /\ Len(putbacks[d]) < MaxPutBacks
        BY <1>3 DEF PutBack, TypeOK
      <3>2. Len(putbacks[d]) \in Nat
        BY <3>1
      <3> QED BY <3>1, <3>2
    <2>3. \A c \in Displays : Pending(c) => use[orig] = "fresh"
      BY <2>2, NothingToCopy DEF ShapeInv, FreshInv
    <2>4. ShapeInv(own, use2)' /\ Counted(own, use2)'
      BY <1>3, <2>1, <2>3, PutBackShape, PutBackCount
    <2> QED BY <2>4
  <1>4. CASE DoEvent
    <2>1. ShapeInv(own, use)' /\ Counted(own, use)'
      BY <1>4, DoEventShape, DoEventCount
    <2> QED BY <2>1
  <1>5. CASE WritePipe
    <2>1. UNCHANGED <<event, orig, nevents, got, putbacks>>
      BY <1>5 DEF WritePipe, queue, history
    <2>2. \A c : Pending(c)' => Pending(c)
      BY <1>5, PendingStep
    <2>3. \A c \in Displays, e \in Events : Sent(c, e) <= Sent(c, e)'
      BY <2>1, <2>2 DEF Sent
    <2>4. Counted(own, use)'
      BY <2>1, <2>2, <2>3, QuietCount DEF Counted
    <2>5. ShapeInv(own, use)'
      BY <1>5, WritePipeShape
    <2> QED BY <2>4, <2>5
  <1>6. ASSUME UNCHANGED <<event, orig, nevents, todo, written, got, putbacks>>, NEW use2,
               \A n \in Nodes : use2[n] \in {"queued", "taken"} => use[n] \in {"queued", "taken"}
        PROVE  Counted(own, use2)'
    <2>1. \A c : Pending(c)' <=> Pending(c)
      BY <1>6 DEF Pending
    <2>2. \A c \in Displays, e \in Events : Sent(c, e) <= Sent(c, e)'
      BY <1>6, <2>1 DEF Sent
    <2> QED BY <1>6, <2>1, <2>2, QuietCount DEF Counted
  <1>7. ASSUME NEW d \in Displays, StoreNext(d)
        PROVE  \E own2, use2 : ShapeInv(own2, use2)' /\ Counted(own2, use2)'
    <2>1. PICK use2 : use2 = [use EXCEPT ![qelt[d]] = "taken"]
      OBVIOUS
    <2>2. UNCHANGED <<event, orig, nevents, todo, written, got, putbacks>>
      BY <1>7 DEF StoreNext, daemonvars, history
    <2>3. use[qelt[d]] = "queued" /\ use \in [Nodes -> Uses]
      BY <1>7 DEF StoreNext, Goto, ShapeInv, ClientOf, Is
    <2>4. \A n \in Nodes : use2[n] \in {"queued", "taken"} => use[n] \in {"queued", "taken"}
      BY <2>1, <2>3
    <2>5. ShapeInv(own, use2)' /\ Counted(own, use2)'
      BY <1>6, <1>7, <2>1, <2>2, <2>4, StoreNextShape
    <2> QED BY <2>5
  <1>8. ASSUME NEW d \in Displays, \/ NextEvent(d) \/ TakeNothing(d) \/ TakeFirst(d)
                                   \/ CheckIfEvent(d) \/ ReadPipe(d) \/ LoadNext(d)
                                   \/ StoreTail(d) \/ PutBackHead(d) \/ PutBackTail(d)
        PROVE  \E own2, use2 : ShapeInv(own2, use2)' /\ Counted(own2, use2)'
    <2>1. UNCHANGED <<event, orig, nevents, todo, written, got, putbacks>>
      BY <1>8 DEF NextEvent, TakeNothing, TakeFirst, CheckIfEvent, ReadPipe, LoadNext, StoreTail,
                  PutBackHead, PutBackTail, queue, daemonvars, history
    <2>2. ShapeInv(own, use)'
      BY <1>8, QuietClient, StoreTailShape, PutBackHeadShape, PutBackTailShape
    <2>3. Counted(own, use)'
      BY <1>6, <2>1
    <2> QED BY <2>2, <2>3
  <1>9. CASE UNCHANGED vars
    <2>1. ShapeInv(own, use)'
      BY <1>9 DEF vars, queue, daemonvars, locals, ShapeInv, FreshInv, EndsOf, StaysIn, OneBefore,
                  NoneBefore, ClientOf, EventsInv, Is
    <2>2. Counted(own, use)'
      BY <1>6, <1>9 DEF vars, queue, daemonvars, history
    <2> QED BY <2>1, <2>2
  <1> QED BY <1>1, <1>2, <1>3, <1>4, <1>5, <1>7, <1>8, <1>9 DEF Next, Daemon, Client, Proceed

(* A display alone has nothing copied for it.                              *)
LEMMA AloneStep ==
    ASSUME TypeOK, DaemonInv, [Next]_vars, Cardinality(Displays) = 1,
           todo # <<>> => written # None \/ ~copy
    PROVE  (todo # <<>> => written # None \/ ~copy)'
  <1>1. CASE DoEvent
    BY <1>1 DEF DoEvent
  <1>2. CASE AddEvent
    BY <1>2, RoomForCopy, Serving, NoneAssumption DEF AddEvent
  <1>3. CASE WritePipe
    <2>1. todo' = Tail(todo) /\ todo # <<>> /\ todo \in Seq(Displays)
      BY <1>3 DEF WritePipe, DaemonInv, TypeOK
    <2>2. Len(todo) <= 1
      BY NothingToCopy
    <2>3. todo' \in Seq(Displays) /\ Len(todo') = 0
      <3>1. Len(todo) \in Nat \ {0} /\ Tail(todo) \in Seq(Displays)
            /\ Len(Tail(todo)) = Len(todo) - 1
        BY <2>1, Serving
      <3> QED BY <2>1, <2>2, <3>1
    <2>4. todo' = <<>>
      BY <2>3, EmptySeq
    <2> QED BY <2>4
  <1>4. CASE UNCHANGED <<todo, written, copy>>
    BY <1>4
  <1> QED BY <1>1, <1>2, <1>3, <1>4
          DEF Next, Daemon, Client, Proceed, NextEvent, TakeNothing, TakeFirst, CheckIfEvent,
              ReadPipe, LoadNext, StoreNext, StoreTail, FreeElement, PutBack, PutBackHead,
              PutBackTail, vars, daemonvars

(* An event is returned as often as it was sent and put back, at most,     *)
(* with XCheckIfEvent too: either nothing is put back, or there is one     *)
(* display.  Two that put events back race with the daemon's copy.         *)
THEOREM EventsAtMostOnce ==
    ASSUME MaxPutBacks = 0 \/ Cardinality(Displays) = 1
    PROVE  Spec => []AtMostOnce
  <1> DEFINE I == /\ \E own, use : ShapeInv(own, use) /\ Counted(own, use)
                  /\ Cardinality(Displays) = 1 => (todo # <<>> => written # None \/ ~copy)
  <1>1. Init => I
    <2> SUFFICES ASSUME Init PROVE I
      OBVIOUS
    <2>1. PICK own, use : ShapeInv(own, use) /\ use = [n \in Nodes |-> "fresh"]
      BY InitShape
    <2>2. todo = <<>> /\ \A c : ~Pending(c)
      BY DEF Init, Pending
    <2>3. ASSUME NEW c \in Displays, NEW e \in Events PROVE CountOf(c, e, own, use)
      <3>1. got[c] = <<>> /\ putbacks[c] = <<>>
        BY DEF Init, All
      <3>2. Times(<<>>, e) = 0
        <4>1. {i \in DOMAIN <<>> : <<>>[i] = e} = {}
          OBVIOUS
        <4> QED BY <4>1, FS_EmptySet DEF Times
      <3>3. Held(c, e, own, use) = {}
        BY <2>1 DEF Held
      <3>4. Sent(c, e) \in {0, 1}
        BY DEF Sent
      <3> QED BY <3>1, <3>2, <3>3, <3>4, FS_EmptySet DEF CountOf
    <2> QED BY <2>1, <2>2, <2>3 DEF Counted
  <1>2. Inv /\ I /\ [Next]_vars => I'
    <2> SUFFICES ASSUME Inv, I, [Next]_vars PROVE I'
      OBVIOUS
    <2>1. PICK own, use : ShapeInv(own, use) /\ Counted(own, use)
      OBVIOUS
    <2>2. \E own2, use2 : ShapeInv(own2, use2)' /\ Counted(own2, use2)'
      BY <2>1, CountStep DEF Inv
    <2>3. Cardinality(Displays) = 1 => (todo # <<>> => written # None \/ ~copy)'
      BY AloneStep DEF Inv
    <2> QED BY <2>2, <2>3
  <1>3. Inv /\ I => AtMostOnce
    <2> SUFFICES ASSUME Inv, NEW own, NEW use, Counted(own, use), NEW c \in Displays, NEW e \in Events
                 PROVE  Times(got[c], e) <= 1 + Times(putbacks[c], e)
      BY DEF AtMostOnce
    <2>1. CountOf(c, e, own, use)
      BY DEF Counted
    <2>2. Times(got[c], e) \in Nat /\ Times(putbacks[c], e) \in Nat
      BY TimesFacts DEF Inv, TypeOK
    <2>3. Sent(c, e) \in {0, 1}
      BY DEF Sent
    <2> QED BY <2>1, <2>2, <2>3, HeldFacts DEF CountOf
  <1> HIDE DEF I
  <1> QED BY <1>1, <1>2, <1>3, Invariance, PTL DEF Spec

===============================================================================
