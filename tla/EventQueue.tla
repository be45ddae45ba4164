------------------------------ MODULE EventQueue ------------------------------
(***************************************************************************)
(* The way of an X event from the daemon to the client: Daemon_doEvent and *)
(* Daemon_addEvent (xdaemon/lib/EventQueue.c) link it into the queue of    *)
(* each display that selected it, in shared memory, and write its address  *)
(* to the display's pipe; XNextEvent, XIfEvent, XPutBackEvent (lib/x11)    *)
(* take events out of the queue and read one address for each event.       *)
(*                                                                         *)
(* The daemon never opens dpy->lock, which the client creates, so that     *)
(* LockDisplay fails there and protects nothing.  What keeps the two apart *)
(* is the processor: the daemon runs time critical (main of xdaemon.c) on  *)
(* a machine with one processor.  It can preempt a client between any two  *)
(* accesses to memory, so these are actions of their own in the client;    *)
(* the client runs only where the daemon may block, which is before each   *)
(* Daemon_addEvent and at its file and pipe operations.                    *)
(***************************************************************************)
EXTENDS Naturals, Sequences, FiniteSets

CONSTANTS Displays,      \* one for each client process
          None,          \* NULL
          PipeCap,       \* addresses a pipe holds (8192 bytes)
          MaxEvents,     \* bound: events the daemon creates
          MaxPutBacks,   \* bound: XPutBackEvent calls of each client
          MaxChecks      \* bound: events each client takes with XCheckIfEvent

ASSUME QueueAssumption ==
  /\ IsFiniteSet(Displays) /\ Displays # {}
  /\ {PipeCap, MaxEvents, MaxPutBacks, MaxChecks} \subseteq Nat

\* _XQEvent structures, numbered as they are allocated.
Nodes  == 1 .. MaxEvents * Cardinality(Displays)
Events == 1 .. MaxEvents

ASSUME NoneAssumption == None \notin Nodes

VARIABLES
    next, event,               \* of each _XQEvent
    nnodes, nevents,           \* allocated so far, created so far
    head, tail, qlen, qfree,   \* of each Display
    pipe,                      \* what the daemon wrote and nobody read
    todo,                      \* displays Daemon_doEvent has still to serve
    orig, copy,                \* its newq and its copy flag
    written,                   \* the _XQEvent whose address is to be written
    pc, qelt, prev, loaded,    \* of each client: where it is, its locals
    taken,                     \* the event it has copied
    got, putbacks, checks,     \* events returned and given back so far
    dropped                    \* addresses that the full pipe has refused so far

queue == <<next, event, nnodes, head, tail, qlen, qfree>>
daemonvars == <<nevents, todo, orig, copy, written>>
locals == <<pc, qelt, prev, loaded, taken>>
history == <<got, putbacks, checks, dropped>>
vars == <<queue, pipe, daemonvars, locals, history>>

All(v) == [d \in Displays |-> v]

Init ==
    /\ next = [n \in Nodes |-> None]
    /\ event = [n \in Nodes |-> 0]
    /\ nnodes = 0 /\ nevents = 0
    /\ head = All(None) /\ tail = All(None)
    /\ qlen = All(0) /\ qfree = All(None)
    /\ pipe = All(<<>>)
    /\ todo = <<>> /\ orig = None /\ copy = FALSE /\ written = None
    /\ pc = All("out")
    /\ qelt = All(None) /\ prev = All(None) /\ loaded = All(None)
    /\ taken = All(0)
    /\ got = All(<<>>) /\ putbacks = All(<<>>) /\ checks = All(0) /\ dropped = All(0)

-------------------------------------------------------------------------------
(* The daemon.                                                             *)

\* Daemon_createEvent, and Daemon_doEvent with the displays, in the order of
\* the window's chain of event masks, that have selected the event.  If there
\* are none the _XQEvent stays allocated.
DoEvent ==
    /\ todo = <<>>
    /\ nevents < MaxEvents
    /\ \E targets \in {s \in UNION {[1..k -> Displays] : k \in 0..Cardinality(Displays)} :
                          \A i, j \in DOMAIN s : i # j => s[i] # s[j]} :
           todo' = targets
    /\ nevents' = nevents + 1
    /\ nnodes' = nnodes + 1
    /\ event' = [event EXCEPT ![nnodes + 1] = nevents + 1]
    /\ orig' = nnodes + 1
    /\ copy' = FALSE
    /\ UNCHANGED <<next, head, tail, qlen, qfree, pipe, written, locals, history>>

\* Mutant: the event becomes the first of the queue.
LinkFirst(d, n) ==
    /\ next' = [next EXCEPT ![n] = head[d]]
    /\ head' = [head EXCEPT ![d] = n]
    /\ tail' = [tail EXCEPT ![d] = IF @ = None THEN n ELSE @]
    /\ qlen' = [qlen EXCEPT ![d] = @ + 1]

\* Daemon_addEvent puts newq, or from the second display on a copy of it, at the
\* end of the queue.
Link(d, n) ==
    /\ next' = IF tail[d] = None THEN [next EXCEPT ![n] = None]
               ELSE [next EXCEPT ![n] = None, ![tail[d]] = n]
    /\ head' = IF tail[d] = None THEN [head EXCEPT ![d] = n] ELSE head
    /\ tail' = [tail EXCEPT ![d] = n]
    /\ qlen' = [qlen EXCEPT ![d] = @ + 1]

\* Mutant: all displays are given the same _XQEvent.
AddEventShared ==
    /\ todo # <<>>
    /\ written = None
    /\ Link(Head(todo), orig)
    /\ written' = orig
    /\ UNCHANGED <<nnodes, event, qfree, pipe, nevents, todo, orig, copy, locals, history>>

AddEvent ==
    /\ todo # <<>>
    /\ written = None
    /\ LET d == Head(todo)
           n == IF copy THEN nnodes + 1 ELSE orig
       IN /\ Link(d, n)
          /\ nnodes' = IF copy THEN nnodes + 1 ELSE nnodes
          /\ event' = [event EXCEPT ![n] = event[orig]]
          /\ written' = n
    /\ UNCHANGED <<qfree, pipe, nevents, todo, orig, copy, locals, history>>


\* It then logs the event and writes its address to the pipe.  The pipe is in
\* non-blocking mode: when it is full nothing is written, and nobody asks.
WritePipe ==
    /\ written # None
    /\ LET d == Head(todo) IN
           IF Len(pipe[d]) < PipeCap
           THEN /\ pipe' = [pipe EXCEPT ![d] = Append(@, written)]
                /\ UNCHANGED dropped
           ELSE /\ dropped' = [dropped EXCEPT ![d] = @ + 1]
                /\ UNCHANGED pipe
    /\ written' = None
    /\ copy' = TRUE
    /\ todo' = Tail(todo)
    /\ UNCHANGED <<queue, nevents, orig, locals, got, putbacks, checks>>

-------------------------------------------------------------------------------
(* The client.                                                             *)

Goto(d, from, to) == /\ pc[d] = from
                     /\ pc' = [pc EXCEPT ![d] = to]

\* XNextEvent is called.
NextEvent(d) ==
    /\ Goto(d, "out", "next")
    /\ UNCHANGED <<queue, pipe, daemonvars, qelt, prev, loaded, taken, history>>

\* It has polled qlen if the queue was empty, and copies the first event.
TakeFirst(d) ==
    /\ Goto(d, "next", "read")
    /\ head[d] # None
    /\ qelt' = [qelt EXCEPT ![d] = head[d]]
    /\ prev' = [prev EXCEPT ![d] = None]
    /\ taken' = [taken EXCEPT ![d] = event[head[d]]]
    /\ UNCHANGED <<queue, pipe, daemonvars, loaded, history>>

\* qlen is not 0 and still there is no first event: *event = qelt->event traps.
TakeNothing(d) ==
    /\ Goto(d, "next", "trapped")
    /\ head[d] = None
    /\ qlen[d] # 0
    /\ UNCHANGED <<queue, pipe, daemonvars, qelt, prev, loaded, taken, history>>

\* The _XQEvents that a loop over next meets from n on: those in every set that
\* has n and, with an _XQEvent, the next of it.
Closed(S) == \A m \in S : next[m] \in S \cup {None}
Listed(n) == IF n = None THEN {}
             ELSE LET lists == {S \in SUBSET Nodes : n \in S /\ Closed(S)}
                  IN {m \in Nodes : \A S \in lists : m \in S}

\* XCheckIfEvent, XIfEvent and their kind find an event their predicate accepts
\* anywhere in the queue.  The daemon leaves qserial_num uninitialised, so any
\* of the events may be passed over.
CheckIfEvent(d) ==
    /\ Goto(d, "out", "read")
    /\ checks[d] < MaxChecks
    /\ checks' = [checks EXCEPT ![d] = @ + 1]
    /\ \E n \in Listed(head[d]), p \in Listed(head[d]) \cup {None} :
          /\ IF p = None THEN n = head[d] ELSE next[p] = n
          /\ qelt' = [qelt EXCEPT ![d] = n]
          /\ prev' = [prev EXCEPT ![d] = p]
          /\ taken' = [taken EXCEPT ![d] = event[n]]
    /\ UNCHANGED <<queue, pipe, daemonvars, loaded, got, putbacks, dropped>>

\* Mutant: _XDeq drains the pipe.
ReadPipeDrains(d) ==
    /\ Goto(d, "read", "load")
    /\ pipe[d] # <<>>
    /\ pipe' = [pipe EXCEPT ![d] = <<>>]
    /\ UNCHANGED <<queue, daemonvars, qelt, prev, loaded, taken, history>>

\* _XDeq reads one address, which it waits for ...
ReadPipe(d) ==
    /\ Goto(d, "read", "load")
    /\ pipe[d] # <<>>
    /\ pipe' = [pipe EXCEPT ![d] = Tail(@)]
    /\ UNCHANGED <<queue, daemonvars, qelt, prev, loaded, taken, history>>

\* ... loads qelt->next ...
LoadNext(d) ==
    /\ Goto(d, "load", "store")
    /\ loaded' = [loaded EXCEPT ![d] = next[qelt[d]]]
    /\ UNCHANGED <<queue, pipe, daemonvars, qelt, prev, taken, history>>

\* Mutant: dpy->head is not cleared when the last event is taken.
StoreNextKeepsLast(d) ==
    /\ Goto(d, "store", IF loaded[d] = None THEN "tail" ELSE "free")
    /\ IF prev[d] = None
       THEN /\ head' = [head EXCEPT ![d] = IF loaded[d] = None THEN @ ELSE loaded[d]]
            /\ UNCHANGED next
       ELSE /\ next' = [next EXCEPT ![prev[d]] = loaded[d]]
            /\ UNCHANGED head
    /\ UNCHANGED <<event, nnodes, tail, qlen, qfree, pipe, daemonvars, qelt, prev,
                   loaded, taken, history>>

\* ... stores it in dpy->head or prev->next ...
StoreNext(d) ==
    /\ Goto(d, "store", IF loaded[d] = None THEN "tail" ELSE "free")
    /\ IF prev[d] = None
       THEN /\ head' = [head EXCEPT ![d] = loaded[d]]
            /\ UNCHANGED next
       ELSE /\ next' = [next EXCEPT ![prev[d]] = loaded[d]]
            /\ UNCHANGED head
    /\ UNCHANGED <<event, nnodes, tail, qlen, qfree, pipe, daemonvars, qelt, prev,
                   loaded, taken, history>>

\* Mutant: dpy->tail is left on the event that was taken.
StoreTailForgotten(d) ==
    /\ Goto(d, "tail", "free")
    /\ UNCHANGED <<queue, pipe, daemonvars, qelt, prev, loaded, taken, history>>

\* ... makes prev, or nothing, the last one if qelt was ...
StoreTail(d) ==
    /\ Goto(d, "tail", "free")
    /\ tail' = [tail EXCEPT ![d] = prev[d]]
    /\ UNCHANGED <<next, event, nnodes, head, qlen, qfree, pipe, daemonvars, qelt,
                   prev, loaded, taken, history>>

\* Mutant: qlen is not counted down.
FreeElementUncounted(d) ==
    /\ Goto(d, "free", "out")
    /\ next' = [next EXCEPT ![qelt[d]] = qfree[d]]
    /\ qfree' = [qfree EXCEPT ![d] = qelt[d]]
    /\ got' = [got EXCEPT ![d] = Append(@, taken[d])]
    /\ UNCHANGED <<event, nnodes, head, tail, qlen, pipe, daemonvars, qelt, prev,
                   loaded, taken, putbacks, checks, dropped>>

\* Mutant: it is counted down twice, by _XDeq and by its caller.
FreeElementTwice(d) ==
    /\ Goto(d, "free", "out")
    /\ next' = [next EXCEPT ![qelt[d]] = qfree[d]]
    /\ qfree' = [qfree EXCEPT ![d] = qelt[d]]
    /\ qlen' = [qlen EXCEPT ![d] = @ - 2]
    /\ got' = [got EXCEPT ![d] = Append(@, taken[d])]
    /\ UNCHANGED <<event, nnodes, head, tail, pipe, daemonvars, qelt, prev, loaded,
                   taken, putbacks, checks, dropped>>

\* ... and puts qelt in the free list.  No access of the daemon meets these.
FreeElement(d) ==
    /\ Goto(d, "free", "out")
    /\ next' = [next EXCEPT ![qelt[d]] = qfree[d]]
    /\ qfree' = [qfree EXCEPT ![d] = qelt[d]]
    /\ qlen' = [qlen EXCEPT ![d] = @ - 1]
    /\ got' = [got EXCEPT ![d] = Append(@, taken[d])]
    /\ UNCHANGED <<event, nnodes, head, tail, pipe, daemonvars, qelt, prev, loaded,
                   taken, putbacks, checks, dropped>>

\* XPutBackEvent of an event it has got: the _XQEvent comes from the free list,
\* its next is loaded from dpy->head ...  (It is only called here where the list
\* is not empty; otherwise the code allocates an _XQEvent.)
PutBack(d) ==
    /\ Goto(d, "out", "putback")
    /\ Len(putbacks[d]) < MaxPutBacks
    /\ qfree[d] # None
    /\ \E i \in DOMAIN got[d] :
       LET e == got[d][i]
           n == qfree[d]
       IN /\ qelt' = [qelt EXCEPT ![d] = n]
          /\ qfree' = [qfree EXCEPT ![d] = next[n]]
          /\ next' = [next EXCEPT ![n] = head[d]]
          /\ event' = [event EXCEPT ![n] = e]
          /\ putbacks' = [putbacks EXCEPT ![d] = Append(@, e)]
    /\ UNCHANGED <<nnodes, head, tail, qlen, pipe, daemonvars, prev, loaded, taken, got,
                   checks, dropped>>

\* ... dpy->head is set ...
PutBackHead(d) ==
    /\ Goto(d, "putback", "puttail")
    /\ head' = [head EXCEPT ![d] = qelt[d]]
    /\ UNCHANGED <<next, event, nnodes, tail, qlen, qfree, pipe, daemonvars, qelt,
                   prev, loaded, taken, history>>

\* ... and dpy->tail, if it is NULL.  Nothing is written to the pipe.
PutBackTail(d) ==
    /\ Goto(d, "puttail", "out")
    /\ tail' = [tail EXCEPT ![d] = IF @ = None THEN qelt[d] ELSE @]
    /\ qlen' = [qlen EXCEPT ![d] = @ + 1]
    /\ UNCHANGED <<next, event, nnodes, head, qfree, pipe, daemonvars, qelt, prev,
                   loaded, taken, history>>

-------------------------------------------------------------------------------
Daemon == DoEvent \/ AddEvent \/ WritePipe

\* A client that has called XNextEvent or the like.
Proceed(d) == \/ TakeFirst(d) \/ TakeNothing(d) \/ ReadPipe(d) \/ LoadNext(d)
              \/ StoreNext(d) \/ StoreTail(d) \/ FreeElement(d)
              \/ PutBackHead(d) \/ PutBackTail(d)

Client(d) == NextEvent(d) \/ CheckIfEvent(d) \/ PutBack(d) \/ Proceed(d)

Next == Daemon \/ \E d \in Displays : Client(d)

Spec == Init /\ [][Next]_vars

\* Daemon_doEvent serves all its displays, and clients run on where they can; no
\* event has to happen, and no client has to ask for one.
EventFairness == /\ WF_vars(AddEvent \/ WritePipe)
                 /\ \A d \in Displays : WF_vars(Proceed(d))
FairSpec == Spec /\ EventFairness

-------------------------------------------------------------------------------
(* Properties.                                                             *)

MaybeNode == Nodes \cup {None}

TypeOK ==
    /\ next \in [Nodes -> MaybeNode]
    /\ event \in [Nodes -> Events \cup {0}]
    /\ nnodes \in 0 .. Cardinality(Nodes)
    /\ nevents \in 0 .. MaxEvents
    /\ head \in [Displays -> MaybeNode] /\ tail \in [Displays -> MaybeNode]
    /\ qfree \in [Displays -> MaybeNode] /\ qelt \in [Displays -> MaybeNode]
    /\ prev \in [Displays -> MaybeNode] /\ loaded \in [Displays -> MaybeNode]
    /\ qlen \in [Displays -> Nat]
    /\ pipe \in [Displays -> Seq(Nodes)]
    /\ \A d \in Displays : Len(pipe[d]) <= PipeCap
    /\ todo \in Seq(Displays)
    /\ orig \in MaybeNode /\ written \in MaybeNode
    /\ copy \in BOOLEAN
    /\ pc \in [Displays -> {"out", "next", "read", "load", "store", "tail", "free",
                            "putback", "puttail", "trapped"}]
    /\ taken \in [Displays -> Events \cup {0}]
    /\ got \in [Displays -> Seq(Events)] /\ putbacks \in [Displays -> Seq(Events)]
    /\ checks \in [Displays -> 0 .. MaxChecks]
    /\ dropped \in [Displays -> Nat]

\* However daemon and client interleave, an _XQEvent in the free list of a
\* display is in no queue, is not where the daemon will link the next event,
\* and is in no other free list: XPutBackEvent overwrites nothing in use.
FreeIsUnused ==
    \A d \in Displays :
        LET free == Listed(qfree[d]) IN
        \A e \in Displays :
            /\ free \cap Listed(head[e]) = {}
            /\ tail[e] \notin free
            /\ d # e => free \cap Listed(qfree[e]) = {}

\* XNextEvent returns the events of a display in the order in which they
\* happened and none twice, though some may be lost on the way.
InOrder ==
    \A d \in Displays :
        \A i, j \in DOMAIN got[d] : i < j => got[d][i] < got[d][j]

Times(s, e) == Cardinality({i \in DOMAIN s : s[i] = e})

\* No event is returned more often than it was sent and put back.
AtMostOnce ==
    \A d \in Displays : \A e \in Events :
        Times(got[d], e) <= 1 + Times(putbacks[d], e)

\* Between the changes of qlen and the pipe: an event that is linked and not
\* written, one whose address is read and that is not yet counted down, one that
\* is put back and not yet counted.
Linked(d)  == IF written # None /\ Head(todo) = d THEN 1 ELSE 0
Reading(d) == IF pc[d] \in {"load", "store", "tail", "free"} THEN 1 ELSE 0
Putting(d) == IF pc[d] \in {"putback", "puttail"} THEN 1 ELSE 0

\* Events that have, or are about to have, or have just had an address in the
\* pipe, and those that never had.
Addressed(d) == Len(pipe[d]) + Linked(d) + Reading(d)
Silent(d)    == dropped[d] + Len(putbacks[d])

\* An event that is counted in qlen and has no address in the pipe, so that
\* _XDeq may wait in vain, is one whose address the full pipe refused or one
\* that was put back; no race of daemon and client makes another, nor an
\* address without an event.
PipeCounts == \A d \in Displays : qlen[d] + Putting(d) = Addressed(d) + Silent(d)

\* XNextEvent returns, or waits for an event to happen (head comment of
\* XNextEvent): it does not wait while events are queued.
NextEventReturns ==
    \A d \in Displays :
        (pc[d] # "out" /\ qlen[d] # 0) ~> (pc[d] \in {"out", "trapped"})

\* _XReadEvents returns with at least one event queued (its head comment).
ReadEventsQueues == \A d \in Displays : pc[d] # "trapped"
===============================================================================
