------------------------------ MODULE PixmapCache ------------------------------
(***************************************************************************)
(* Drawing into pixmaps (xdaemon/lib/Drawable.c and its callers in         *)
(* lib/x11).  The points of a pixmap are in shared memory, but each        *)
(* process draws with a presentation space and a bitmap of its own, which  *)
(* getCachedHPS keeps in the pixmap's hpscache.  getCachedHPS loads the    *)
(* bitmap from the pixmap unless the EB_HPS was the last one to draw       *)
(* (lastone); finishedDrawing stores the bitmap back and sets lastone.     *)
(*                                                                         *)
(* XDrawLine and its kind, XPutImage and XGetImage take no lock that would *)
(* keep others from the pixmap; XCopyArea takes global_lock, and goes on   *)
(* when the request times out.  What an application may do without losing  *)
(* points is the assumption Discipline below.                              *)
(*                                                                         *)
(* A bitmap is the set of the drawings to be seen on it: drawings have     *)
(* points of their own, which others leave alone.                          *)
(*                                                                         *)
(* A process may end at any point of any of its calls.                     *)
(***************************************************************************)
EXTENDS Naturals

CONSTANTS Procs, Threads, ProcOf,
          Pixmaps,
          MayDraw,     \* of each thread: pixmaps it draws on without the lock
          MayCopyTo,   \* pixmaps it copies to with XCopyArea
          MayCopyFrom, \* pixmaps it copies from
          MayGet,      \* pixmaps it reads with XGetImage
          Nobody,      \* no EB_HPS, no owner
          MaxDraws     \* bound: drawings in a behaviour

ASSUME CacheAssumption ==
    /\ ProcOf \in [Threads -> Procs]
    /\ {MayDraw, MayCopyTo, MayCopyFrom, MayGet} \subseteq [Threads -> SUBSET Pixmaps]
    /\ Nobody \notin Procs \cup Threads \cup Pixmaps
    /\ MaxDraws \in Nat

\* A pixmap on which one thread draws without the lock is written by no other,
\* and read by no other of its process; one that several copy to is not read
\* without the lock in their processes.  Readers in other processes are free.
ASSUME Discipline ==
    \A t, u \in Threads : t # u =>
        /\ MayDraw[t] \cap (MayDraw[u] \cup MayCopyTo[u]) = {}
        /\ ProcOf[t] = ProcOf[u] =>
               /\ MayDraw[t] \cap (MayCopyFrom[u] \cup MayGet[u]) = {}
               /\ MayCopyTo[t] \cap MayGet[u] = {}

Drawings == 1 .. MaxDraws

VARIABLES
    cached,    \* the processes that have an EB_HPS in a pixmap's hpscache
    bits,      \* the bitmap of the EB_HPS of a process for a pixmap
    data,      \* pixmap->data
    lastone,   \* pixmap->lastone, as the process it belongs to
    lock,      \* the thread that owns global_lock
    pc, to,    \* of each thread: where it is, the pixmap it draws on or reads,
    from,      \* the one XCopyArea copies from,
    mark,      \* the drawing it is doing
    seen,      \* and the image XGetImage has returned
    ndraws,    \* drawings begun so far
    done,      \* of each pixmap: the drawings whose calls have returned
    asked,     \* those there were when the thread called XGetImage
    timedOut,  \* XCopyArea has drawn without global_lock
    cut        \* pixmaps that a process was storing when it ended, until
               \* another drawing on them is finished

pixvars == <<cached, bits, data, lastone>>
locals  == <<to, from, mark, seen>>
history == <<ndraws, done, asked, timedOut, cut>>
vars == <<pixvars, lock, pc, locals, history>>

Init ==
    /\ cached = [d \in Pixmaps |-> {}]
    /\ bits = [p \in Procs |-> [d \in Pixmaps |-> {}]]
    /\ data = [d \in Pixmaps |-> {}]
    /\ lastone = [d \in Pixmaps |-> Nobody]
    /\ lock = Nobody
    /\ pc = [t \in Threads |-> "out"]
    /\ to = [t \in Threads |-> Nobody]
    /\ from = [t \in Threads |-> Nobody]
    /\ mark = [t \in Threads |-> 0]
    /\ seen = [t \in Threads |-> {}]
    /\ ndraws = 0
    /\ done = [d \in Pixmaps |-> {}]
    /\ asked = [t \in Threads |-> {}]
    /\ timedOut = FALSE
    /\ cut = {}

Goto(t, a, b) == pc[t] = a /\ pc' = [pc EXCEPT ![t] = b]

-------------------------------------------------------------------------------
(* getCachedHPS and finishedDrawing.                                       *)

\* Mutant: the bitmap is loaded only into a new EB_HPS.
GetCachedHPSOnce(p, d) ==
    /\ cached' = [cached EXCEPT ![d] = @ \cup {p}]
    /\ bits' = IF p \in cached[d] THEN bits ELSE [bits EXCEPT ![p][d] = data[d]]
    /\ UNCHANGED <<data, lastone>>

\* The EB_HPS of the process, or a new one; its bitmap is loaded if it is new or
\* another one has drawn since.
GetCachedHPS(p, d) ==
    /\ cached' = [cached EXCEPT ![d] = @ \cup {p}]
    /\ bits' = IF p \in cached[d] /\ lastone[d] = p THEN bits
               ELSE [bits EXCEPT ![p][d] = data[d]]
    /\ UNCHANGED <<data, lastone>>

\* Mutant: finishedDrawing of a process that was the last one to draw does not
\* store the bitmap.
StoreBitsOfOthers(t) ==
    /\ Goto(t, "finish", "last")
    /\ data' = IF lastone[to[t]] = ProcOf[t] THEN data
               ELSE [data EXCEPT ![to[t]] = bits[ProcOf[t]][to[t]]]
    /\ UNCHANGED <<cached, bits, lastone, lock, locals, history>>

\* finishedDrawing stores the bitmap ...
StoreBits(t) ==
    /\ Goto(t, "finish", "last")
    /\ data' = [data EXCEPT ![to[t]] = bits[ProcOf[t]][to[t]]]
    /\ UNCHANGED <<cached, bits, lastone, lock, locals, history>>

\* Mutant: lastone is set to the caller, not to its EB_HPS.
SetLastCaller(t) ==
    /\ Goto(t, "last", "out")
    /\ lastone' = [lastone EXCEPT ![to[t]] = t]
    /\ lock' = IF lock = t THEN Nobody ELSE lock
    /\ done' = [done EXCEPT ![to[t]] = @ \cup {mark[t]}]
    /\ cut' = cut \ {to[t]}
    /\ UNCHANGED <<cached, bits, data, locals, ndraws, asked, timedOut>>

\* ... and notes who has drawn.  XCopyArea then releases global_lock, if it
\* owns it.
SetLast(t) ==
    /\ Goto(t, "last", "out")
    /\ lastone' = [lastone EXCEPT ![to[t]] = ProcOf[t]]
    /\ lock' = IF lock = t THEN Nobody ELSE lock
    /\ done' = [done EXCEPT ![to[t]] = @ \cup {mark[t]}]
    /\ cut' = cut \ {to[t]}
    /\ UNCHANGED <<cached, bits, data, locals, ndraws, asked, timedOut>>

-------------------------------------------------------------------------------
(* XDrawLine and its kind, XPutImage, XDrawString: each function of Draw.c *)
(* gets its presentation space, calls Gpi, and calls finishedDrawing.      *)

Draw(t, d) ==
    /\ Goto(t, "out", "draw")
    /\ d \in MayDraw[t]
    /\ ndraws < MaxDraws
    /\ ndraws' = ndraws + 1
    /\ to' = [to EXCEPT ![t] = d]
    /\ mark' = [mark EXCEPT ![t] = ndraws + 1]
    /\ GetCachedHPS(ProcOf[t], d)
    /\ UNCHANGED <<lock, from, seen, done, asked, timedOut, cut>>

\* The Gpi calls.
Paint(t) ==
    /\ Goto(t, "draw", "finish")
    /\ bits' = [bits EXCEPT ![ProcOf[t]][to[t]] = @ \cup {mark[t]}]
    /\ UNCHANGED <<cached, data, lastone, lock, locals, history>>

\* There are no points, is no text or no memory: the call returns and has not
\* called finishedDrawing.
DrawNothing(t) ==
    /\ Goto(t, "draw", "out")
    /\ UNCHANGED <<pixvars, lock, locals, history>>

-------------------------------------------------------------------------------
(* XGetImage.                                                              *)

GetImage(t, d) ==
    /\ Goto(t, "out", "get")
    /\ d \in MayGet[t]
    /\ to' = [to EXCEPT ![t] = d]
    /\ GetCachedHPS(ProcOf[t], d)
    /\ asked' = [asked EXCEPT ![t] = done[d]]
    /\ UNCHANGED <<lock, from, mark, seen, ndraws, done, timedOut, cut>>

\* GpiBitBlt out of the bitmap.
ReadImage(t) ==
    /\ Goto(t, "get", "got")
    /\ seen' = [seen EXCEPT ![t] = bits[ProcOf[t]][to[t]]]
    /\ UNCHANGED <<pixvars, lock, to, from, mark, history>>

\* There is no presentation space to copy to or no memory: NULL is returned.
GetImageFails(t) ==
    /\ Goto(t, "get", "out")
    /\ asked' = [asked EXCEPT ![t] = {}]
    /\ UNCHANGED <<pixvars, lock, locals, ndraws, done, timedOut, cut>>

ReturnImage(t) ==
    /\ Goto(t, "got", "out")
    /\ seen' = [seen EXCEPT ![t] = {}]
    /\ asked' = [asked EXCEPT ![t] = {}]
    /\ UNCHANGED <<pixvars, lock, to, from, mark, ndraws, done, timedOut, cut>>

-------------------------------------------------------------------------------
(* XCopyArea.                                                              *)

CopyArea(t, s, d) ==
    /\ Goto(t, "out", "lock")
    /\ s \in MayCopyFrom[t]
    /\ d \in MayCopyTo[t]
    /\ ndraws < MaxDraws
    /\ ndraws' = ndraws + 1
    /\ from' = [from EXCEPT ![t] = s]
    /\ to' = [to EXCEPT ![t] = d]
    /\ mark' = [mark EXCEPT ![t] = ndraws + 1]
    /\ UNCHANGED <<pixvars, lock, seen, done, asked, timedOut, cut>>

\* Mutant: XCopyArea without EbGetHookAccess.
GetHookAccessNever(t) ==
    /\ Goto(t, "lock", "from")
    /\ UNCHANGED <<pixvars, lock, locals, history>>

\* EbGetHookAccess ...
GetHookAccess(t) ==
    /\ Goto(t, "lock", "from")
    /\ lock = Nobody
    /\ lock' = t
    /\ UNCHANGED <<pixvars, locals, history>>

\* ... whose time-out is ignored.
GetHookAccessFails(t) ==
    /\ Goto(t, "lock", "from")
    /\ lock # Nobody
    /\ timedOut' = TRUE
    /\ UNCHANGED <<pixvars, lock, locals, ndraws, done, asked, cut>>

CopySource(t) ==
    /\ Goto(t, "from", "to")
    /\ GetCachedHPS(ProcOf[t], from[t])
    /\ UNCHANGED <<lock, locals, history>>

CopyTarget(t) ==
    /\ Goto(t, "to", "blt")
    /\ GetCachedHPS(ProcOf[t], to[t])
    /\ UNCHANGED <<lock, locals, history>>

\* GpiBitBlt from one bitmap of the process to the other.
BitBlt(t) ==
    /\ Goto(t, "blt", "finish")
    /\ bits' = [bits EXCEPT ![ProcOf[t]][to[t]] =
                    @ \cup {mark[t]} \cup bits[ProcOf[t]][from[t]]]
    /\ UNCHANGED <<cached, data, lastone, lock, locals, history>>

-------------------------------------------------------------------------------
\* freeOldHPS destroys all EB_HPS of the process and takes them out of the
\* hpscache of their pixmaps.  lastone keeps the address, which no later EB_HPS
\* has: the structure itself is never freed.
FreeOldHPS(p) ==
    /\ cached' = [d \in Pixmaps |-> cached[d] \ {p}]
    /\ bits' = [bits EXCEPT ![p] = [d \in Pixmaps |-> {}]]
    /\ lastone' = [d \in Pixmaps |-> IF lastone[d] = p THEN Nobody ELSE lastone[d]]

\* XCloseDisplay.
CloseDisplay(p) ==
    /\ \A t \in Threads : ProcOf[t] = p => pc[t] = "out"
    /\ \E d \in Pixmaps : p \in cached[d]
    /\ FreeOldHPS(p)
    /\ UNCHANGED <<data, lock, pc, locals, history>>

\* The variable f when the process has ended.
Ended(p, f, value) == [t \in Threads |-> IF ProcOf[t] = p THEN value ELSE f[t]]
InFinish(p, d) == \E t \in Threads : ProcOf[t] = p /\ pc[t] = "finish" /\ to[t] = d

\* What finishedDrawing of the process has yet to change.
Unstored(p, d) == IF InFinish(p, d) THEN (bits[p][d] \ data[d]) \cup (data[d] \ bits[p][d])
                  ELSE {}
InLast(p, d) == \E t \in Threads : ProcOf[t] = p /\ pc[t] = "last" /\ to[t] = d

\* The process ends wherever its threads are, and its exit handler destroys the
\* EB_HPS.  A bitmap may be stored in part.  global_lock, if one of the threads
\* owns it, dies with its owner: each later request fails.
Die(p) ==
    /\ \E t \in Threads : ProcOf[t] = p /\ pc[t] # "dead"
    /\ FreeOldHPS(p)
    /\ \E rows \in SUBSET UNION {Unstored(p, d) : d \in Pixmaps} :
           data' = [d \in Pixmaps |->
                IF InFinish(p, d) THEN (data[d] \ rows) \cup (bits[p][d] \cap rows)
                ELSE data[d]]
    /\ cut' = cut \cup {d \in Pixmaps : InFinish(p, d) \/ InLast(p, d)}
    /\ pc' = Ended(p, pc, "dead")
    /\ to' = Ended(p, to, Nobody)
    /\ from' = Ended(p, from, Nobody)
    /\ mark' = Ended(p, mark, 0)
    /\ seen' = Ended(p, seen, {})
    /\ asked' = Ended(p, asked, {})
    /\ UNCHANGED <<lock, ndraws, done, timedOut>>

Step(t) ==
    \/ \E d \in Pixmaps : Draw(t, d) \/ GetImage(t, d)
    \/ \E s, d \in Pixmaps : CopyArea(t, s, d)
    \/ Paint(t) \/ DrawNothing(t) \/ StoreBits(t) \/ SetLast(t)
    \/ ReadImage(t) \/ GetImageFails(t) \/ ReturnImage(t)
    \/ GetHookAccess(t) \/ GetHookAccessFails(t)
    \/ CopySource(t) \/ CopyTarget(t) \/ BitBlt(t)

Next == (\E t \in Threads : Step(t)) \/ (\E p \in Procs : CloseDisplay(p) \/ Die(p))

Spec == Init /\ [][Next]_vars

-------------------------------------------------------------------------------
(* Properties.                                                             *)

TypeOK ==
    /\ cached \in [Pixmaps -> SUBSET Procs]
    /\ bits \in [Procs -> [Pixmaps -> SUBSET Drawings]]
    /\ {data, done} \subseteq [Pixmaps -> SUBSET Drawings]
    /\ lastone \in [Pixmaps -> Procs \cup {Nobody}]
    /\ lock \in Threads \cup {Nobody}
    /\ pc \in [Threads -> {"out", "draw", "finish", "last", "get", "got",
                           "lock", "from", "to", "blt", "dead"}]
    /\ {to, from} \subseteq [Threads -> Pixmaps \cup {Nobody}]
    /\ mark \in [Threads -> Drawings \cup {0}]
    /\ {seen, asked} \subseteq [Threads -> SUBSET Drawings]
    /\ ndraws \in 0 .. MaxDraws
    /\ timedOut \in BOOLEAN
    /\ cut \subseteq Pixmaps

\* What a call of any process has drawn stays on the pixmap: no other process
\* stores an older bitmap over it, whoever ends in the middle of a call.  An
\* application that keeps to the Discipline can rely on it as long as XCopyArea
\* gets its lock.
NothingErased ==
    ~timedOut => \A d \in Pixmaps : done[d] \subseteq data[d]

\* Between getCachedHPS and the end of finishedDrawing.
Drawing(t, d) == pc[t] \in {"draw", "blt", "finish", "last"} /\ to[t] = d

\* lastone tells the truth: the bitmap of the EB_HPS that drew last has all that
\* is finished, and unless its process is drawing, or another is about to set
\* lastone or has ended before it did, it is the same as the pixmap, so that
\* getCachedHPS need not load it.
CacheCurrent ==
    ~timedOut =>
        \A d \in Pixmaps : \A p \in cached[d] :
            lastone[d] = p =>
                /\ done[d] \subseteq bits[p][d]
                /\ \/ bits[p][d] = data[d]
                   \/ d \in cut
                   \/ \E t \in Threads :
                          Drawing(t, d) /\ (ProcOf[t] = p \/ pc[t] = "last")

\* XGetImage returns what calls had finished before it was called.
ImageShowsFinished ==
    ~timedOut => \A t \in Threads : pc[t] = "got" => asked[t] \subseteq seen[t]
===============================================================================
