--------------------------- MODULE PixmapCacheProofs ---------------------------
(***************************************************************************)
(* Proofs about PixmapCache: for any processes, threads and pixmaps that   *)
(* keep to the Discipline, no drawing is erased, lastone tells the truth   *)
(* and images are current, whichever processes end in the middle of a call.*)
(***************************************************************************)
EXTENDS PixmapCache, TLAPS

Opened == {"from", "to", "blt"}

\* What the application may do, for the pixmaps a thread is working on.
Roles ==
    \A t \in Threads :
        /\ pc[t] \notin {"out", "get", "got", "dead"} => mark[t] \in Drawings
        /\ pc[t] = "draw" => to[t] \in MayDraw[t]
        /\ pc[t] \in {"get", "got"} => to[t] \in MayGet[t]
        /\ pc[t] \in {"lock"} \cup Opened =>
               to[t] \in MayCopyTo[t] /\ from[t] \in MayCopyFrom[t]
        /\ pc[t] \in {"finish", "last"} => to[t] \in MayDraw[t] \cup MayCopyTo[t]
        /\ lock = t => pc[t] \in Opened \cup {"finish", "last", "dead"}

\* A thread inside XCopyArea owns global_lock.
Held ==
    \A t \in Threads :
        /\ pc[t] \in Opened => lock = t
        /\ pc[t] \in {"finish", "last"} => to[t] \in MayDraw[t] \/ lock = t

\* The bitmap of a thread that is drawing.
Bitmap(t) == bits[ProcOf[t]][to[t]]

\* What is in the bitmap at each point of a call.
ProgressOf(t) ==
    /\ pc[t] \in {"draw", "blt"} => /\ done[to[t]] \subseteq Bitmap(t)
                                    /\ Bitmap(t) = data[to[t]] \/ to[t] \in cut
    /\ pc[t] = "finish" => done[to[t]] \cup {mark[t]} \subseteq Bitmap(t)
    /\ pc[t] = "last" => Bitmap(t) = data[to[t]] /\ mark[t] \in data[to[t]]

Progress == \A t \in Threads : ProgressOf(t)

\* The process p has drawn last on d, and what that says of its bitmap.
LastOf(p, d) ==
    lastone[d] = p =>
        /\ done[d] \subseteq bits[p][d]
        /\ \/ bits[p][d] = data[d]
           \/ d \in cut
           \/ \E t \in Threads : Drawing(t, d) /\ (ProcOf[t] = p \/ pc[t] = "last")

LastIsCurrent == \A d \in Pixmaps : \A p \in cached[d] : LastOf(p, d)

ImageOf(t) ==
    /\ pc[t] = "get" => asked[t] \subseteq Bitmap(t) /\ asked[t] \subseteq done[to[t]]
    /\ pc[t] = "got" => asked[t] \subseteq seen[t]

Images == \A t \in Threads : ImageOf(t)

Finished == \A d \in Pixmaps : done[d] \subseteq data[d]

\* What holds as long as XCopyArea gets its lock.
Data == Held /\ Progress /\ LastIsCurrent /\ Images /\ Finished

\* The inductive invariant.
PInv ==
    /\ TypeOK
    /\ Roles
    /\ ~timedOut => Data


-------------------------------------------------------------------------------
\* What getCachedHPS does to the bitmaps.
LEMMA Loaded ==
    ASSUME TypeOK, NEW p \in Procs, NEW d \in Pixmaps, GetCachedHPS(p, d)
    PROVE  /\ cached' \in [Pixmaps -> SUBSET Procs]
           /\ bits' \in [Procs -> [Pixmaps -> SUBSET Drawings]]
           /\ data' = data /\ lastone' = lastone
           /\ \A e \in Pixmaps : cached'[e] \subseteq cached[e] \cup {p}
           /\ \A e \in Pixmaps \ {d} : cached'[e] = cached[e]
           /\ \A q \in Procs, e \in Pixmaps : q # p \/ e # d => bits'[q][e] = bits[q][e]
           /\ \/ bits'[p][d] = data[d]
              \/ p \in cached[d] /\ lastone[d] = p /\ bits' = bits
<1>1. /\ cached' \in [Pixmaps -> SUBSET Procs]
      /\ \A e \in Pixmaps : cached'[e] \subseteq cached[e] \cup {p}
      /\ \A e \in Pixmaps \ {d} : cached'[e] = cached[e]
  BY DEF TypeOK, GetCachedHPS
<1>2. CASE p \in cached[d] /\ lastone[d] = p
  BY <1>1, <1>2 DEF TypeOK, GetCachedHPS
<1>3. CASE ~(p \in cached[d] /\ lastone[d] = p)
  <2>1. bits' = [bits EXCEPT ![p][d] = data[d]]
    BY <1>3 DEF GetCachedHPS
  <2> QED
    BY <1>1, <2>1 DEF TypeOK, GetCachedHPS
<1> QED
  BY <1>2, <1>3

\* A thread inside a call works on pixmaps.
LEMMA Working ==
    ASSUME TypeOK, Roles, NEW t \in Threads, pc[t] \notin {"out", "dead"}
    PROVE  /\ to[t] \in Pixmaps
           /\ pc[t] \in {"lock"} \cup Opened => from[t] \in Pixmaps
BY CacheAssumption DEF TypeOK, Roles, Opened

\* The steps of a thread keep the types.
LEMMA TypeStep == ASSUME TypeOK, Roles, NEW t \in Threads, Step(t) PROVE TypeOK'
<1> USE CacheAssumption DEF Goto
<1>1. ASSUME NEW d \in Pixmaps, Draw(t, d) PROVE TypeOK'
  <2>1. GetCachedHPS(ProcOf[t], d) /\ UNCHANGED <<lock, from, seen, done, asked, timedOut, cut>>
    BY <1>1 DEF Draw
  <2>2. /\ ndraws' \in 0 .. MaxDraws /\ mark' \in [Threads -> Drawings \cup {0}]
        /\ to' \in [Threads -> Pixmaps \cup {Nobody}]
        /\ pc' = [pc EXCEPT ![t] = "draw"]
    BY <1>1 DEF TypeOK, Draw, Drawings
  <2> QED
    BY <2>1, <2>2, Loaded DEF TypeOK
<1>2. ASSUME NEW d \in Pixmaps, GetImage(t, d) PROVE TypeOK'
  <2>1. /\ GetCachedHPS(ProcOf[t], d)
        /\ UNCHANGED <<lock, from, mark, seen, ndraws, done, timedOut, cut>>
    BY <1>2 DEF GetImage
  <2>2. /\ asked' \in [Threads -> SUBSET Drawings]
        /\ to' \in [Threads -> Pixmaps \cup {Nobody}]
        /\ pc' = [pc EXCEPT ![t] = "get"]
    BY <1>2 DEF TypeOK, GetImage
  <2> QED
    BY <2>1, <2>2, Loaded DEF TypeOK
<1>3. ASSUME NEW s \in Pixmaps, NEW d \in Pixmaps, CopyArea(t, s, d) PROVE TypeOK'
  BY <1>3 DEF TypeOK, CopyArea, pixvars, Drawings
<1>4. CASE CopySource(t) \/ CopyTarget(t)
  <2>1. PICK d \in Pixmaps : GetCachedHPS(ProcOf[t], d)
    BY <1>4, Working DEF CopySource, CopyTarget, Opened
  <2>2. UNCHANGED <<lock, locals, history>> /\ pc' \in [Threads -> {"out", "draw", "finish",
            "last", "get", "got", "lock", "from", "to", "blt", "dead"}]
    BY <1>4 DEF TypeOK, CopySource, CopyTarget
  <2> QED
    BY <2>1, <2>2, Loaded DEF TypeOK, locals, history
<1>5. CASE Paint(t) \/ BitBlt(t) \/ ReadImage(t) \/ StoreBits(t) \/ SetLast(t)
  <2>1. to[t] \in Pixmaps /\ (BitBlt(t) => from[t] \in Pixmaps)
    BY <1>5, Working DEF Paint, BitBlt, ReadImage, StoreBits, SetLast, Opened
  <2>2. Paint(t) \/ BitBlt(t) \/ SetLast(t) => mark[t] \in Drawings
    BY DEF Paint, BitBlt, SetLast, Roles
  <2>3. CASE Paint(t)
    BY <2>1, <2>2, <2>3 DEF TypeOK, Paint, locals, history
  <2>4. CASE BitBlt(t)
    BY <2>1, <2>2, <2>4 DEF TypeOK, BitBlt, locals, history
  <2>5. CASE ReadImage(t)
    BY <2>1, <2>5 DEF TypeOK, ReadImage, pixvars, history
  <2>6. CASE StoreBits(t)
    BY <2>1, <2>6 DEF TypeOK, StoreBits, locals, history
  <2>7. CASE SetLast(t)
    BY <2>1, <2>2, <2>7 DEF TypeOK, SetLast, locals
  <2> QED
    BY <1>5, <2>3, <2>4, <2>5, <2>6, <2>7
<1>6. CASE DrawNothing(t) \/ ReturnImage(t) \/ GetImageFails(t) \/ GetHookAccess(t)
  <2>1. CASE DrawNothing(t)
    BY <1>6, <2>1 DEF TypeOK, DrawNothing, pixvars, locals, history
  <2>2. CASE ReturnImage(t)
    BY <1>6, <2>2 DEF TypeOK, ReturnImage, pixvars
  <2>4. CASE GetImageFails(t)
    BY <1>6, <2>4 DEF TypeOK, GetImageFails, pixvars, locals
  <2>3. CASE GetHookAccess(t)
    BY <1>6, <2>3 DEF TypeOK, GetHookAccess, pixvars, locals, history
  <2> QED
    BY <1>6, <2>1, <2>2, <2>3, <2>4
<1>7. CASE GetHookAccessFails(t)
  <2>1. timedOut' \in BOOLEAN
    BY <1>7, Zenon DEF GetHookAccessFails
  <2> QED
    BY <1>7, <2>1 DEF TypeOK, GetHookAccessFails, pixvars, locals
<1> QED
  BY <1>1, <1>2, <1>3, <1>4, <1>5, <1>6, <1>7 DEF Step

LEMMA RolesStep == ASSUME TypeOK, Roles, NEW t \in Threads, Step(t) PROVE Roles'
<1> USE CacheAssumption DEF Goto, Roles, Opened
<1>1. ASSUME NEW d \in Pixmaps, Draw(t, d) \/ GetImage(t, d) PROVE Roles'
  <2>1. Draw(t, d) => mark' = [mark EXCEPT ![t] = ndraws + 1] /\ ndraws + 1 \in Drawings
    BY DEF TypeOK, Draw, Drawings
  <2> QED
    BY <1>1, <2>1 DEF TypeOK, Draw, GetImage
<1>2. ASSUME NEW s \in Pixmaps, NEW d \in Pixmaps, CopyArea(t, s, d) PROVE Roles'
  <2>1. ndraws + 1 \in Drawings
    BY <1>2 DEF TypeOK, CopyArea, Drawings
  <2> QED
    BY <1>2, <2>1 DEF TypeOK, CopyArea
<1>3. CASE CopySource(t) \/ CopyTarget(t) \/ Paint(t) \/ BitBlt(t) \/ ReadImage(t)
           \/ StoreBits(t) \/ DrawNothing(t) \/ GetImageFails(t) \/ ReturnImage(t)
  BY <1>3 DEF TypeOK, CopySource, CopyTarget, Paint, BitBlt, ReadImage, StoreBits,
              DrawNothing, GetImageFails, ReturnImage, locals, history
<1>4. CASE SetLast(t) \/ GetHookAccess(t) \/ GetHookAccessFails(t)
  BY <1>4 DEF TypeOK, SetLast, GetHookAccess, GetHookAccessFails, locals, history
<1> QED
  BY <1>1, <1>2, <1>3, <1>4 DEF Step

\* The types and roles hold whatever the lock does.
LEMMA TypesAndRoles == Spec => [](TypeOK /\ Roles)
<1>1. Init => TypeOK /\ Roles
  <2> SUFFICES ASSUME Init PROVE TypeOK /\ Roles
    OBVIOUS
  <2>1. timedOut \in BOOLEAN
    BY Zenon DEF Init
  <2> QED
    BY <2>1, CacheAssumption DEF Init, TypeOK, Roles, Opened, Drawings
<1>2. ASSUME TypeOK, Roles, NEW p \in Procs, CloseDisplay(p) PROVE TypeOK' /\ Roles'
  BY <1>2, CacheAssumption DEF CloseDisplay, FreeOldHPS, TypeOK, Roles, Opened, locals, history
<1>3. ASSUME TypeOK, Roles, NEW p \in Procs, Die(p) PROVE TypeOK' /\ Roles'
  <2>1. /\ \A e \in Pixmaps : data[e] \subseteq Drawings /\ bits[p][e] \subseteq Drawings
        /\ cached' \in [Pixmaps -> SUBSET Procs]
        /\ bits' \in [Procs -> [Pixmaps -> SUBSET Drawings]]
        /\ lastone' \in [Pixmaps -> Procs \cup {Nobody}]
    BY <1>3 DEF Die, FreeOldHPS, TypeOK
  <2>2. data' \in [Pixmaps -> SUBSET Drawings] /\ cut' \subseteq Pixmaps
    <3>1. PICK rows : data' = [d \in Pixmaps |->
              IF InFinish(p, d) THEN (data[d] \ rows) \cup (bits[p][d] \cap rows) ELSE data[d]]
      BY <1>3 DEF Die
    <3> DEFINE Mixed(d) == (data[d] \ rows) \cup (bits[p][d] \cap rows)
    <3>2. \A d \in Pixmaps : Mixed(d) \in SUBSET Drawings /\ data[d] \in SUBSET Drawings
      BY <2>1
    <3>4. data' = [d \in Pixmaps |-> IF InFinish(p, d) THEN Mixed(d) ELSE data[d]]
      BY <3>1
    <3> HIDE DEF Mixed
    <3>3. cut' \subseteq Pixmaps
      BY <1>3 DEF Die, TypeOK
    <3> QED
      BY <3>2, <3>3, <3>4
  <2>3. /\ \A t \in Threads : IF ProcOf[t] = p
                             THEN pc'[t] = "dead"
                             ELSE /\ pc'[t] = pc[t] /\ to'[t] = to[t]
                                  /\ from'[t] = from[t] /\ mark'[t] = mark[t]
        /\ UNCHANGED <<lock, ndraws, done, timedOut>>
    BY <1>3 DEF Die, Ended
  <2>4. /\ pc' \in [Threads -> {"out", "draw", "finish", "last", "get", "got",
                               "lock", "from", "to", "blt", "dead"}]
        /\ {to', from'} \subseteq [Threads -> Pixmaps \cup {Nobody}]
        /\ mark' \in [Threads -> Drawings \cup {0}]
        /\ {seen', asked'} \subseteq [Threads -> SUBSET Drawings]
    BY <1>3 DEF Die, Ended, TypeOK
  <2>5. timedOut' \in BOOLEAN
    BY <1>3, Zenon DEF Die, TypeOK
  <2>6. /\ lock' \in Threads \cup {Nobody} /\ ndraws' \in 0 .. MaxDraws
        /\ done' \in [Pixmaps -> SUBSET Drawings]
    BY <1>3 DEF Die, TypeOK
  <2>7. TypeOK'
    BY <2>1, <2>2, <2>4, <2>5, <2>6 DEF TypeOK
  <2>8. Roles'
    BY <1>3, <2>3 DEF Roles, Opened
  <2> QED
    BY <2>7, <2>8
<1>4. TypeOK /\ Roles /\ [Next]_vars => (TypeOK /\ Roles)'
  <2>1. TypeOK /\ Roles /\ UNCHANGED vars => (TypeOK /\ Roles)'
    BY DEF TypeOK, Roles, vars, pixvars, locals, history
  <2> QED
    BY <1>2, <1>3, <2>1, TypeStep, RolesStep DEF Next
<1> QED
  BY <1>1, <1>4, PTL DEF Spec

\* The variables of PixmapCache keep their types.
THEOREM TypeCorrect == Spec => []TypeOK
BY TypesAndRoles, PTL

-------------------------------------------------------------------------------
\* Two threads never draw on the same pixmap at once.
LEMMA Undisturbed ==
    ASSUME TypeOK, Roles, Held, NEW t \in Threads, NEW u \in Threads, t # u,
           NEW d \in Pixmaps, Drawing(t, d)
    PROVE  /\ d \notin MayDraw[u]
           /\ lock = u => d \notin MayCopyTo[u]
           /\ lock = u /\ ProcOf[t] = ProcOf[u] => d \notin MayCopyFrom[u]
           /\ ProcOf[t] = ProcOf[u] => d \notin MayGet[u]
           /\ ~Drawing(u, d)
<1>1. d \in MayDraw[t] \/ (d \in MayCopyTo[t] /\ lock = t)
  BY DEF Drawing, Roles, Held, Opened
<1>2. d \notin MayDraw[u] /\ (lock = u => d \notin MayCopyTo[u])
  BY <1>1, Discipline, CacheAssumption
<1>3. /\ lock = u /\ ProcOf[t] = ProcOf[u] => d \notin MayCopyFrom[u]
      /\ ProcOf[t] = ProcOf[u] => d \notin MayGet[u]
  BY <1>1, Discipline, CacheAssumption
<1>4. ~Drawing(u, d)
  BY <1>2 DEF Drawing, Roles, Held, Opened
<1> QED
  BY <1>2, <1>3, <1>4

\* What getCachedHPS does, in any of the calls, to a pixmap d on which no other
\* thread of the process is drawing.
LEMMA LoadKeeps ==
    ASSUME TypeOK, Data, NEW t \in Threads, NEW d \in Pixmaps,
           GetCachedHPS(ProcOf[t], d), UNCHANGED <<done, cut>>,
           \A e \in Pixmaps : ~Drawing(t, e),
           \A u \in Threads \ {t} : /\ pc'[u] = pc[u] /\ to'[u] = to[u]
                                    /\ mark'[u] = mark[u] /\ seen'[u] = seen[u]
                                    /\ asked'[u] = asked[u],
           \A u \in Threads \ {t} : ProcOf[u] = ProcOf[t] => ~Drawing(u, d),
           \A u \in Threads \ {t} : pc[u] \notin {"out", "dead"} => to[u] \in Pixmaps
    PROVE  /\ \A u \in Threads \ {t} : ProgressOf(u)' /\ ImageOf(u)'
           /\ LastIsCurrent'
           /\ Finished'
           /\ done[d] \subseteq bits'[ProcOf[t]][d]
<1>0. ProcOf[t] \in Procs
  BY CacheAssumption
<1>1. done[d] \subseteq bits'[ProcOf[t]][d]
  BY <1>0, Loaded DEF Data, Finished, LastIsCurrent, LastOf
<1>2. Finished'
  BY <1>0, Loaded DEF Data, Finished
<1>3. ASSUME NEW u \in Threads \ {t} PROVE ProgressOf(u)' /\ ImageOf(u)'
  <2>1. ProgressOf(u) /\ ImageOf(u) /\ ProcOf[u] \in Procs
    BY CacheAssumption DEF Data, Progress, Images
  <2>2. CASE bits'[ProcOf[u]][to[u]] = bits[ProcOf[u]][to[u]]
    BY <1>0, <2>1, <2>2, Loaded DEF ProgressOf, ImageOf, Bitmap
  <2>3. CASE bits'[ProcOf[u]][to[u]] # bits[ProcOf[u]][to[u]] /\ pc[u] \notin {"out", "dead"}
    <3>1. ProcOf[u] = ProcOf[t] /\ to[u] = d
      BY <1>0, <2>1, <2>3, Loaded
    <3> QED
      BY <1>0, <1>1, <2>1, <3>1, Loaded DEF ProgressOf, ImageOf, Bitmap, Drawing
  <2>4. CASE pc[u] \in {"out", "dead"}
    BY <2>4 DEF ProgressOf, ImageOf
  <2> QED
    BY <2>2, <2>3, <2>4
<1>4. ASSUME NEW e \in Pixmaps, NEW p \in cached'[e] PROVE LastOf(p, e)'
  <2>1. p \in Procs /\ data' = data /\ lastone' = lastone
    BY <1>0, Loaded
  <2>2. \A u \in Threads : Drawing(u, e) => Drawing(u, e)' /\ pc'[u] = pc[u]
    BY DEF Drawing
  <2>3. CASE p = ProcOf[t] /\ e = d /\ bits'[p][e] = data[e]
    BY <1>1, <2>1, <2>3 DEF LastOf
  <2>4. CASE bits'[p][e] = bits[p][e] /\ p \in cached[e]
    <3>1. LastOf(p, e)
      BY <2>4 DEF Data, LastIsCurrent
    <3> QED
      BY <2>1, <2>2, <2>4, <3>1 DEF LastOf
  <2> QED
    BY <1>0, <2>1, <2>3, <2>4, Loaded
<1> QED
  BY <1>1, <1>2, <1>3, <1>4 DEF LastIsCurrent

LEMMA HeldStep ==
    ASSUME TypeOK, Roles, Held, NEW t \in Threads, Step(t), ~timedOut'
    PROVE  Held' /\ ~timedOut
<1> USE CacheAssumption DEF Goto, Held, Opened, TypeOK
<1>1. ASSUME NEW d \in Pixmaps, Draw(t, d) \/ GetImage(t, d) PROVE Held' /\ ~timedOut
  <2>1. CASE Draw(t, d)
    BY <2>1 DEF Draw
  <2>2. CASE GetImage(t, d)
    BY <2>2 DEF GetImage
  <2> QED
    BY <1>1, <2>1, <2>2
<1>2. ASSUME NEW s \in Pixmaps, NEW d \in Pixmaps, CopyArea(t, s, d) PROVE Held' /\ ~timedOut
  BY <1>2 DEF CopyArea
<1>3. CASE CopySource(t) \/ CopyTarget(t) \/ BitBlt(t) \/ ReadImage(t)
           \/ StoreBits(t) \/ DrawNothing(t) \/ GetImageFails(t) \/ ReturnImage(t)
  BY <1>3 DEF CopySource, CopyTarget, BitBlt, ReadImage, StoreBits,
              DrawNothing, GetImageFails, ReturnImage, locals, history
<1>4. CASE SetLast(t) \/ GetHookAccess(t) \/ GetHookAccessFails(t)
  BY <1>4 DEF SetLast, GetHookAccess, GetHookAccessFails, locals, history
<1>5. CASE Paint(t)
  BY <1>5 DEF Paint, Roles, locals, history
<1> QED
  BY <1>1, <1>2, <1>3, <1>4, <1>5 DEF Step

\* While nobody draws on a pixmap getCachedHPS makes the bitmap the same, unless
\* a process has ended while it stored there.
LEMMA LoadedIdle ==
    ASSUME TypeOK, Data, NEW p \in Procs, NEW d \in Pixmaps, GetCachedHPS(p, d),
           \A u \in Threads : ~Drawing(u, d)
    PROVE  bits'[p][d] = data'[d] \/ d \in cut
<1>1. data' = data
  BY Loaded
<1>2. CASE p \in cached[d] /\ lastone[d] = p /\ bits' = bits
  BY <1>1, <1>2 DEF Data, LastIsCurrent, LastOf
<1> QED
  BY <1>1, <1>2, Loaded

\* The four calls of getCachedHPS that other threads may not notice.
LEMMA LoadStep ==
    ASSUME TypeOK, Roles, Data, NEW t \in Threads,
           \/ \E d \in Pixmaps : Draw(t, d) \/ GetImage(t, d)
           \/ CopySource(t) \/ CopyTarget(t)
    PROVE  Progress' /\ LastIsCurrent' /\ Images' /\ Finished'
<1>1. \A u \in Threads : pc[u] \notin {"out", "dead"} => to[u] \in Pixmaps
  BY Working
<1>2. \A e \in Pixmaps : ~Drawing(t, e)
  BY DEF Draw, GetImage, CopySource, CopyTarget, Goto, Drawing
<1>3. Held
  BY DEF Data
<1> USE DEF Goto, TypeOK
<1>4. ASSUME NEW d \in Pixmaps, Draw(t, d) PROVE Progress' /\ LastIsCurrent' /\ Images' /\ Finished'
  <2>1. \A u \in Threads \ {t} : ~Drawing(u, d)
    BY <1>3, <1>4, Undisturbed DEF Draw
  <2>2. /\ \A u \in Threads \ {t} : ProgressOf(u)' /\ ImageOf(u)'
        /\ LastIsCurrent' /\ Finished'
        /\ done[d] \subseteq bits'[ProcOf[t]][d]
    BY <1>1, <1>2, <1>4, <2>1, LoadKeeps DEF Draw
  <2>3. bits'[ProcOf[t]][d] = data'[d] \/ d \in cut
    BY <1>2, <1>4, <2>1, LoadedIdle, CacheAssumption DEF Draw
  <2>4. ProgressOf(t)' /\ ImageOf(t)'
    BY <1>4, <2>2, <2>3 DEF Draw, ProgressOf, ImageOf, Bitmap
  <2> QED
    BY <2>2, <2>4 DEF Progress, Images
<1>5. ASSUME NEW d \in Pixmaps, GetImage(t, d) PROVE Progress' /\ LastIsCurrent' /\ Images' /\ Finished'
  <2>1. \A u \in Threads \ {t} : ProcOf[u] = ProcOf[t] => ~Drawing(u, d)
    BY <1>3, <1>5, Undisturbed DEF GetImage
  <2>2. /\ \A u \in Threads \ {t} : ProgressOf(u)' /\ ImageOf(u)'
        /\ LastIsCurrent' /\ Finished'
        /\ done[d] \subseteq bits'[ProcOf[t]][d]
    BY <1>1, <1>2, <1>5, <2>1, LoadKeeps DEF GetImage
  <2>3. ProgressOf(t)' /\ ImageOf(t)'
    BY <1>5, <2>2 DEF GetImage, ProgressOf, ImageOf, Bitmap
  <2> QED
    BY <2>2, <2>3 DEF Progress, Images
<1>6. CASE CopySource(t)
  <2>1. from[t] \in Pixmaps /\ from[t] \in MayCopyFrom[t] /\ lock = t
    BY <1>3, <1>6, Working DEF CopySource, Roles, Held, Opened
  <2>2. \A u \in Threads \ {t} : ProcOf[u] = ProcOf[t] => ~Drawing(u, from[t])
    BY <1>3, <2>1, Undisturbed
  <2>3. /\ \A u \in Threads \ {t} : ProgressOf(u)' /\ ImageOf(u)'
        /\ LastIsCurrent' /\ Finished'
    BY <1>1, <1>2, <1>6, <2>1, <2>2, LoadKeeps DEF CopySource, locals, history
  <2>4. ProgressOf(t)' /\ ImageOf(t)'
    BY <1>6 DEF CopySource, ProgressOf, ImageOf
  <2> QED
    BY <2>3, <2>4 DEF Progress, Images
<1>7. CASE CopyTarget(t)
  <2>1. to[t] \in Pixmaps /\ to[t] \in MayCopyTo[t] /\ lock = t
    BY <1>3, <1>7, Working DEF CopyTarget, Roles, Held, Opened
  <2>2. \A u \in Threads \ {t} : ~Drawing(u, to[t])
    BY <1>3, <2>1, Undisturbed
  <2>3. /\ \A u \in Threads \ {t} : ProgressOf(u)' /\ ImageOf(u)'
        /\ LastIsCurrent' /\ Finished'
        /\ done[to[t]] \subseteq bits'[ProcOf[t]][to[t]]
    BY <1>1, <1>2, <1>7, <2>1, <2>2, LoadKeeps DEF CopyTarget, locals, history
  <2>4. bits'[ProcOf[t]][to[t]] = data'[to[t]] \/ to[t] \in cut
    <3>1. ProcOf[t] \in Procs /\ GetCachedHPS(ProcOf[t], to[t])
      BY <1>7, CacheAssumption DEF CopyTarget
    <3>2. \A u \in Threads : ~Drawing(u, to[t])
      BY <1>2, <2>1, <2>2
    <3> QED
      BY <2>1, <3>1, <3>2, LoadedIdle
  <2>5. ProgressOf(t)' /\ ImageOf(t)'
    BY <1>7, <2>3, <2>4 DEF CopyTarget, ProgressOf, ImageOf, Bitmap, locals, history
  <2> QED
    BY <2>3, <2>5 DEF Progress, Images
<1> QED
  BY <1>4, <1>5, <1>6, <1>7

\* Painting changes one bitmap, on which no other thread is drawing.
LEMMA PaintStep ==
    ASSUME TypeOK, Roles, Data, NEW t \in Threads, Paint(t) \/ BitBlt(t)
    PROVE  Progress' /\ LastIsCurrent' /\ Images' /\ Finished'
<1> DEFINE p == ProcOf[t]
           d == to[t]
<1> USE DEF Goto, TypeOK
<1>1. /\ p \in Procs /\ d \in Pixmaps /\ Drawing(t, d) /\ Held
      /\ \A u \in Threads : ProcOf[u] \in Procs /\ (pc[u] \notin {"out", "dead"} => to[u] \in Pixmaps)
  BY Working, CacheAssumption DEF Paint, BitBlt, Drawing, Data
<1>2. \A u \in Threads \ {t} : ~Drawing(u, d)
  BY <1>1, Undisturbed
<1>3. PICK B : /\ bits' = [bits EXCEPT ![p][d] = B]
               /\ bits[p][d] \cup {mark[t]} \subseteq B
  <2>1. CASE Paint(t)
    <3>1. bits' = [bits EXCEPT ![p][d] = bits[p][d] \cup {mark[t]}]
      BY <2>1 DEF Paint
    <3> QED
      BY <3>1
  <2>2. CASE BitBlt(t)
    <3> DEFINE C == bits[p][d] \cup {mark[t]} \cup bits[p][from[t]]
    <3>1. bits' = [bits EXCEPT ![p][d] = C]
      BY <2>2 DEF BitBlt
    <3>2. bits[p][d] \cup {mark[t]} \subseteq C
      OBVIOUS
    <3> HIDE DEF C
    <3> QED
      BY <3>1, <3>2
  <2> QED
    BY <2>1, <2>2
<1>4. /\ pc' = [pc EXCEPT ![t] = "finish"]
      /\ UNCHANGED <<cached, data, lastone, locals, done, asked, cut>>
  BY DEF Paint, BitBlt, history
<1>5. /\ bits'[p][d] = B
      /\ \A q \in Procs, e \in Pixmaps : q # p \/ e # d => bits'[q][e] = bits[q][e]
  BY <1>1, <1>3
<1> HIDE DEF p, d
<1>6. ASSUME NEW u \in Threads \ {t} PROVE ProgressOf(u)' /\ ImageOf(u)'
  <2>1. ProgressOf(u) /\ ImageOf(u) /\ pc'[u] = pc[u]
    BY <1>4 DEF Data, Progress, Images
  <2>2. CASE ProcOf[u] = p /\ to[u] = d
    BY <1>2, <1>3, <1>4, <1>5, <2>1, <2>2 DEF ProgressOf, ImageOf, Bitmap, Drawing, locals
  <2>3. CASE ~(ProcOf[u] = p /\ to[u] = d)
    <3>1. pc[u] \notin {"out", "dead"} => bits'[ProcOf[u]][to[u]] = bits[ProcOf[u]][to[u]]
      BY <1>1, <1>5, <2>3
    <3> QED
      BY <1>4, <2>1, <3>1 DEF ProgressOf, ImageOf, Bitmap, locals
  <2> QED
    BY <2>2, <2>3
<1>7. ProgressOf(t)' /\ ImageOf(t)'
  <2>1. done[d] \subseteq bits[p][d]
    <3>1. ProgressOf(t) /\ pc[t] \in {"draw", "blt"}
      BY DEF Data, Progress, Paint, BitBlt
    <3> QED
      BY <3>1 DEF ProgressOf, Bitmap, p, d
  <2>2. Bitmap(t)' = B /\ done'[to'[t]] = done[d] /\ mark'[t] = mark[t]
    BY <1>4, <1>5 DEF Bitmap, locals, p, d
  <2> QED
    BY <1>3, <1>4, <2>1, <2>2 DEF ProgressOf, ImageOf
<1>8. LastIsCurrent'
  <2> SUFFICES ASSUME NEW e \in Pixmaps, NEW q \in cached[e], lastone[e] = q
               PROVE  LastOf(q, e)'
    BY <1>4 DEF LastIsCurrent, LastOf
  <2>1. q \in Procs /\ LastOf(q, e)
    BY DEF Data, LastIsCurrent
  <2>2. \A u \in Threads : Drawing(u, e) => Drawing(u, e)'
    BY <1>4 DEF Drawing, locals
  <2>3. \A u \in Threads : pc[u] = "last" => pc'[u] = "last"
    BY <1>4 DEF Paint, BitBlt
  <2>4. CASE q = p /\ e = d
    <3>1. Drawing(t, e)' /\ ProcOf[t] = p
      BY <1>1, <2>2, <2>4 DEF p
    <3> QED
      BY <1>3, <1>4, <1>5, <2>1, <2>4, <3>1 DEF LastOf
  <2>5. CASE ~(q = p /\ e = d)
    <3>1. bits'[q][e] = bits[q][e]
      BY <1>5, <2>1, <2>5
    <3> QED
      BY <1>4, <2>1, <2>2, <2>3, <3>1 DEF LastOf
  <2> QED
    BY <2>4, <2>5
<1> QED
  BY <1>4, <1>6, <1>7, <1>8 DEF Progress, Images, Finished, Data

\* finishedDrawing: what the bitmap has more than the pixmap is stored before
\* lastone says that it is current.
LEMMA FinishStep ==
    ASSUME TypeOK, Roles, Data, NEW t \in Threads, StoreBits(t) \/ SetLast(t)
    PROVE  Progress' /\ LastIsCurrent' /\ Images' /\ Finished'
<1> DEFINE p == ProcOf[t]
           d == to[t]
<1> USE DEF Goto, TypeOK
<1>1. p \in Procs /\ d \in Pixmaps /\ Drawing(t, d) /\ Held
  BY Working, CacheAssumption DEF StoreBits, SetLast, Drawing, Data
<1>2. \A u \in Threads \ {t} : ~Drawing(u, d)
  BY <1>1, Undisturbed
<1>3. ProgressOf(t) /\ \A u \in Threads : ProgressOf(u) /\ ImageOf(u)
  BY DEF Data, Progress, Images
<1>4. CASE StoreBits(t)
  <2>1. /\ data' = [data EXCEPT ![d] = bits[p][d]] /\ pc' = [pc EXCEPT ![t] = "last"]
        /\ UNCHANGED <<cached, bits, lastone, to, mark, seen, done, asked, cut>>
    BY <1>4 DEF StoreBits, locals, history
  <2>2. done[d] \cup {mark[t]} \subseteq bits[p][d]
    BY <1>3, <1>4 DEF StoreBits, ProgressOf, Bitmap
  <2>3. data'[d] = bits[p][d] /\ \A e \in Pixmaps \ {d} : data'[e] = data[e]
    BY <1>1, <2>1
  <2>4. ProgressOf(t)' /\ ImageOf(t)'
    BY <2>1, <2>2, <2>3 DEF ProgressOf, ImageOf, Bitmap
  <2> HIDE DEF p, d
  <2>5. ASSUME NEW u \in Threads \ {t} PROVE ProgressOf(u)' /\ ImageOf(u)'
    <3>1. to[u] = d => pc[u] \notin {"draw", "blt", "finish", "last"}
      BY <1>2 DEF Drawing
    <3>2. pc[u] \notin {"out", "dead"} => to[u] \in Pixmaps
      BY Working
    <3> QED
      BY <1>3, <2>1, <2>3, <3>1, <3>2 DEF ProgressOf, ImageOf, Bitmap
  <2>6. Finished'
    BY <2>1, <2>2, <2>3 DEF Data, Finished
  <2>7. ASSUME NEW e \in Pixmaps, NEW q \in cached[e] PROVE LastOf(q, e)'
    <3>1. LastOf(q, e)
      BY <2>7 DEF Data, LastIsCurrent
    <3>2. CASE e = d
      <4>1. Drawing(t, e)' /\ pc'[t] = "last"
        BY <2>1, <3>2 DEF Drawing, d
      <4> QED
        BY <2>1, <3>1, <3>2, <4>1 DEF LastOf
    <3>3. CASE e # d
      <4>1. \A u \in Threads : Drawing(u, e) => Drawing(u, e)' /\ pc'[u] = pc[u]
        BY <2>1, <3>3 DEF Drawing, d
      <4> QED
        BY <2>1, <2>3, <3>1, <3>3, <4>1 DEF LastOf
    <3> QED
      BY <3>2, <3>3
  <2> QED
    BY <2>1, <2>4, <2>5, <2>6, <2>7 DEF Progress, Images, LastIsCurrent
<1>5. CASE SetLast(t)
  <2>1. /\ lastone' = [lastone EXCEPT ![d] = p] /\ pc' = [pc EXCEPT ![t] = "out"]
        /\ done' = [done EXCEPT ![d] = @ \cup {mark[t]}]
        /\ cut' = cut \ {d}
        /\ UNCHANGED <<cached, bits, data, to, mark, seen, asked>>
    BY <1>5 DEF SetLast, locals
  <2>2. bits[p][d] = data[d] /\ mark[t] \in data[d]
    BY <1>3, <1>5 DEF SetLast, ProgressOf, Bitmap
  <2>3. done[d] \subseteq data[d] /\ \A e \in Pixmaps : done[e] \subseteq data[e]
    BY <1>1 DEF Data, Finished
  <2>4. /\ done'[d] = done[d] \cup {mark[t]}
        /\ \A e \in Pixmaps \ {d} : done'[e] = done[e] /\ lastone'[e] = lastone[e]
        /\ lastone'[d] = p
    BY <1>1, <2>1
  <2>5. ASSUME NEW u \in Threads PROVE ProgressOf(u)' /\ ImageOf(u)'
    <3>1. pc[u] \notin {"out", "dead"} => to[u] \in Pixmaps /\ done[to[u]] \subseteq done'[to[u]]
      BY Working, <2>4
    <3>2. CASE u = t
      BY <2>1, <3>2 DEF ProgressOf, ImageOf
    <3>3. CASE u # t /\ pc[u] \in {"draw", "blt", "finish", "last"}
      <4>1. to[u] # d /\ to[u] \in Pixmaps
        BY <1>2, <3>1, <3>3 DEF Drawing
      <4>2. /\ done'[to[u]] = done[to[u]] /\ (to[u] \in cut => to[u] \in cut')
            /\ pc'[u] = pc[u] /\ UNCHANGED <<to, bits, data, mark>>
        BY <2>1, <2>4, <3>3, <4>1
      <4>3. ProgressOf(u) /\ pc[u] \notin {"get", "got"}
        BY <1>3, <3>3
      <4> QED
        BY <4>2, <4>3 DEF ProgressOf, ImageOf, Bitmap
    <3>4. CASE u # t /\ pc[u] \notin {"draw", "blt", "finish", "last"}
      BY <1>3, <2>1, <3>1, <3>4 DEF ProgressOf, ImageOf, Bitmap
    <3> QED
      BY <3>2, <3>3, <3>4
  <2> HIDE DEF p, d
  <2>6. Finished'
    BY <2>1, <2>2, <2>3, <2>4 DEF Finished
  <2>7. ASSUME NEW e \in Pixmaps, NEW q \in cached[e] PROVE LastOf(q, e)'
    <3>1. LastOf(q, e)
      BY <2>7 DEF Data, LastIsCurrent
    <3>2. CASE e = d
      BY <2>1, <2>2, <2>3, <2>4, <3>2 DEF LastOf
    <3>3. CASE e # d
      <4>1. \A u \in Threads : Drawing(u, e) => Drawing(u, e)' /\ pc'[u] = pc[u]
        BY <2>1, <3>3 DEF Drawing, d
      <4> QED
        BY <2>1, <2>4, <3>1, <3>3, <4>1 DEF LastOf
    <3> QED
      BY <3>2, <3>3
  <2> QED
    BY <2>1, <2>5, <2>6, <2>7 DEF Progress, Images, LastIsCurrent
<1> QED
  BY <1>4, <1>5

\* Every step of a thread keeps the data, as long as no lock times out.
LEMMA DataStep ==
    ASSUME TypeOK, Roles, Data, NEW t \in Threads, Step(t), ~timedOut'
    PROVE  Data'
<1>1. Held'
  BY HeldStep DEF Data
<1>2. CASE \/ \E d \in Pixmaps : Draw(t, d) \/ GetImage(t, d)
           \/ CopySource(t) \/ CopyTarget(t)
  BY <1>1, <1>2, LoadStep DEF Data
<1>3. CASE Paint(t) \/ BitBlt(t)
  BY <1>1, <1>3, PaintStep DEF Data
<1>4. CASE StoreBits(t) \/ SetLast(t)
  BY <1>1, <1>4, FinishStep DEF Data
<1>5. ASSUME \/ \E s, d \in Pixmaps : CopyArea(t, s, d)
             \/ DrawNothing(t) \/ ReadImage(t) \/ GetImageFails(t) \/ ReturnImage(t)
             \/ GetHookAccess(t) \/ GetHookAccessFails(t)
      PROVE  Data'
  <2>1. /\ UNCHANGED <<cached, bits, data, lastone, done, cut>>
        /\ \A u \in Threads \ {t} : pc'[u] = pc[u] /\ to'[u] = to[u] /\ mark'[u] = mark[u]
                                   /\ seen'[u] = seen[u] /\ asked'[u] = asked[u]
    BY <1>5 DEF TypeOK, Goto, CopyArea, DrawNothing, ReadImage, GetImageFails, ReturnImage,
                GetHookAccess, GetHookAccessFails, pixvars, locals, history
  <2>2. /\ pc'[t] \in {"lock", "out", "got", "from"}
        /\ pc[t] \in {"out", "draw", "get", "got", "lock"}
        /\ pc'[t] = "got" => pc[t] = "get" /\ asked' = asked /\ seen'[t] = Bitmap(t)
    BY <1>5 DEF TypeOK, Goto, CopyArea, DrawNothing, ReadImage, GetImageFails, ReturnImage,
                GetHookAccess, GetHookAccessFails, Bitmap, history
  <2>3. \A u \in Threads : ProgressOf(u) /\ ImageOf(u)
    BY DEF Data, Progress, Images
  <2>4. ProgressOf(t)' /\ ImageOf(t)'
    BY <2>2, <2>3 DEF ProgressOf, ImageOf
  <2>5. \A u \in Threads \ {t} : ProgressOf(u)' /\ ImageOf(u)'
    BY <2>1, <2>3 DEF ProgressOf, ImageOf, Bitmap
  <2>6. Finished'
    BY <2>1 DEF Data, Finished
  <2>7. LastIsCurrent'
    <3>1. CASE pc[t] = "draw"
      <4>1. bits[ProcOf[t]][to[t]] = data[to[t]] \/ to[t] \in cut
        BY <2>3, <3>1 DEF ProgressOf, Bitmap
      <4>2. to' = to
        BY <1>5, <3>1 DEF Goto, CopyArea, DrawNothing, ReadImage, GetImageFails, ReturnImage,
                          GetHookAccess, GetHookAccessFails, locals
      <4> QED
        BY <2>1, <3>1, <4>1 DEF Data, LastIsCurrent, LastOf, Drawing
    <3>2. CASE pc[t] # "draw"
      <4>1. \A u \in Threads, e \in Pixmaps : Drawing(u, e) => Drawing(u, e)' /\ pc'[u] = pc[u]
        BY <2>1, <2>2, <3>2 DEF Drawing
      <4> QED
        BY <2>1, <4>1 DEF Data, LastIsCurrent, LastOf
    <3> QED
      BY <3>1, <3>2
  <2> QED
    BY <1>1, <2>4, <2>5, <2>6, <2>7 DEF Data, Progress, Images
<1> QED
  BY <1>2, <1>3, <1>4, <1>5 DEF Step

LEMMA CloseKeeps ==
    ASSUME TypeOK, Roles, Data, NEW p \in Procs, CloseDisplay(p)
    PROVE  Data'
<1> USE DEF Data
<1>1. /\ UNCHANGED <<data, lock, pc, to, from, mark, seen, done, asked, cut>>
      /\ \A t \in Threads : ProcOf[t] = p => pc[t] = "out"
      /\ \A t \in Threads : ProcOf[t] \in Procs /\ (pc[t] \notin {"out", "dead"} => to[t] \in Pixmaps)
      /\ \A q \in Procs \ {p} : bits'[q] = bits[q]
      /\ \A d \in Pixmaps : cached'[d] = cached[d] \ {p}
      /\ \A d \in Pixmaps : lastone'[d] \in {lastone[d], Nobody}
  BY CacheAssumption, Working DEF TypeOK, CloseDisplay, FreeOldHPS, locals, history
<1>2. Held' /\ Finished'
  BY <1>1 DEF Held, Finished
<1>3. Progress' /\ Images'
  BY <1>1 DEF Progress, Images, ProgressOf, ImageOf, Bitmap
<1>4. LastIsCurrent'
  <2> SUFFICES ASSUME NEW d \in Pixmaps, NEW q \in cached'[d], lastone'[d] = q
               PROVE  LastOf(q, d)'
    BY DEF LastIsCurrent, LastOf
  <2>1. q \in Procs \ {p} /\ q \in cached[d]
    BY <1>1 DEF TypeOK
  <2>2. lastone[d] = q
    BY <1>1, <2>1, CacheAssumption
  <2>3. LastOf(q, d)
    BY <2>1 DEF LastIsCurrent
  <2> QED
    BY <1>1, <2>1, <2>2, <2>3 DEF LastOf, Drawing
<1> QED
  BY <1>2, <1>3, <1>4

\* A process that ends while it stores its bitmap harms nothing that is done, and
\* no other thread draws on the same pixmap.
LEMMA DieKeeps ==
    ASSUME TypeOK, Roles, Data, NEW p \in Procs, Die(p)
    PROVE  Data'
<1> USE DEF Data
<1>1. /\ UNCHANGED <<lock, done>>
      /\ cut' = cut \cup {d \in Pixmaps : InFinish(p, d) \/ InLast(p, d)}
      /\ \A t \in Threads : ProcOf[t] = p => pc'[t] = "dead"
      /\ \A t \in Threads : ProcOf[t] # p =>
             /\ pc'[t] = pc[t] /\ to'[t] = to[t] /\ mark'[t] = mark[t]
             /\ seen'[t] = seen[t] /\ asked'[t] = asked[t]
  BY DEF Die, Ended
<1>2. /\ \A t \in Threads : ProcOf[t] \in Procs /\ (pc[t] \notin {"out", "dead"} => to[t] \in Pixmaps)
      /\ \A q \in Procs \ {p} : bits'[q] = bits[q]
      /\ \A d \in Pixmaps : cached'[d] = cached[d] \ {p}
      /\ \A d \in Pixmaps : lastone'[d] \in {lastone[d], Nobody}
  BY CacheAssumption, Working DEF TypeOK, Die, FreeOldHPS
<1>3. PICK rows : data' = [d \in Pixmaps |->
                              IF InFinish(p, d) THEN (data[d] \ rows) \cup (bits[p][d] \cap rows)
                              ELSE data[d]]
  BY DEF Die
<1>4. ASSUME NEW d \in Pixmaps PROVE done[d] \subseteq data'[d]
  <2>1. done[d] \subseteq data[d]
    BY DEF Finished
  <2>2. InFinish(p, d) => done[d] \subseteq bits[p][d]
    BY DEF InFinish, Progress, ProgressOf, Bitmap
  <2> QED
    BY <1>3, <2>1, <2>2
<1>5. Held' /\ Finished'
  BY <1>1, <1>4 DEF Held, Finished, Opened
<1>6. ASSUME NEW u \in Threads PROVE ProgressOf(u)' /\ ImageOf(u)'
  <2>1. CASE ProcOf[u] = p
    BY <1>1, <2>1 DEF ProgressOf, ImageOf
  <2>2. CASE ProcOf[u] # p
    <3>1. ProgressOf(u) /\ ImageOf(u) /\ Bitmap(u)' = Bitmap(u)
      BY <1>1, <1>2, <2>2 DEF Progress, Images, Bitmap
    <3>2. ASSUME pc[u] \in {"draw", "blt", "finish", "last"} PROVE data'[to[u]] = data[to[u]]
      <4>1. to[u] \in Pixmaps /\ Drawing(u, to[u])
        BY <1>2, <3>2 DEF Drawing
      <4>2. ~InFinish(p, to[u])
        BY <2>2, <4>1, Undisturbed DEF InFinish, Drawing
      <4> QED
        BY <1>3, <4>1, <4>2
    <3> QED
      BY <1>1, <2>2, <3>1, <3>2 DEF ProgressOf, ImageOf
  <2> QED
    BY <2>1, <2>2
<1>7. LastIsCurrent'
  <2> SUFFICES ASSUME NEW d \in Pixmaps, NEW q \in cached'[d], lastone'[d] = q
               PROVE  LastOf(q, d)'
    BY DEF LastIsCurrent, LastOf
  <2>1. q \in Procs \ {p} /\ q \in cached[d]
    BY <1>2 DEF TypeOK
  <2>2. lastone[d] = q
    BY <1>2, <2>1, CacheAssumption
  <2>3. LastOf(q, d) /\ bits'[q][d] = bits[q][d]
    BY <1>2, <2>1 DEF LastIsCurrent
  <2>4. CASE InFinish(p, d) \/ InLast(p, d)
    BY <1>1, <2>2, <2>3, <2>4 DEF LastOf
  <2>5. CASE ~(InFinish(p, d) \/ InLast(p, d))
    <3>1. data'[d] = data[d] /\ cut \subseteq cut'
      BY <1>1, <1>3, <2>5
    <3>2. ASSUME NEW t \in Threads, Drawing(t, d), ProcOf[t] = q \/ pc[t] = "last"
          PROVE  Drawing(t, d)' /\ pc'[t] = pc[t]
      <4>1. ProcOf[t] # p
        BY <2>1, <2>5, <3>2 DEF InLast, Drawing
      <4> QED
        BY <1>1, <3>2, <4>1 DEF Drawing
    <3> QED
      BY <1>1, <2>2, <2>3, <3>1, <3>2 DEF LastOf
  <2> QED
    BY <2>4, <2>5
<1> QED
  BY <1>5, <1>6, <1>7 DEF Progress, Images

\* The inductive invariant holds.
LEMMA InvariantHolds == Spec => []PInv
<1>1. Init => (~timedOut => Data)
  BY DEF Init, Data, Held, Progress, ProgressOf, LastIsCurrent, Images, ImageOf, Finished,
         Opened
<1>2. ASSUME TypeOK, Roles, ~timedOut => Data, [Next]_vars, ~timedOut' PROVE Data'
  <2>1. CASE UNCHANGED vars
    BY <1>2, <2>1 DEF vars, pixvars, locals, history, Data, Held, Progress, ProgressOf,
                      LastIsCurrent, LastOf, Images, ImageOf, Finished, Bitmap, Drawing
  <2>2. ASSUME NEW p \in Procs, CloseDisplay(p) PROVE Data'
    BY <1>2, <2>2, CloseKeeps DEF CloseDisplay, history
  <2>3. ASSUME NEW t \in Threads, Step(t) PROVE Data'
    <3>1. ~timedOut
      BY <1>2, <2>3 DEF Step, Draw, GetImage, CopyArea, Paint, DrawNothing, StoreBits, SetLast,
                ReadImage, GetImageFails, ReturnImage, GetHookAccess, GetHookAccessFails, CopySource,
                CopyTarget, BitBlt, history
    <3> QED
      BY <1>2, <2>3, <3>1, DataStep
  <2>4. ASSUME NEW p \in Procs, Die(p) PROVE Data'
    BY <1>2, <2>4, DieKeeps DEF Die
  <2> QED
    BY <1>2, <2>1, <2>2, <2>3, <2>4 DEF Next
<1>3. TypeOK /\ Roles /\ (~timedOut => Data) /\ [Next]_vars => (~timedOut => Data)'
  BY <1>2
<1> QED
  BY <1>1, <1>3, TypesAndRoles, PTL DEF Spec, PInv

\* Nothing that a call has drawn is lost again.
THEOREM NothingErasedHolds == Spec => []NothingErased
<1>1. PInv => NothingErased
  BY DEF PInv, Data, Finished, NothingErased
<1> QED
  BY <1>1, InvariantHolds, PTL

\* getCachedHPS may leave out the loading when lastone is its own EB_HPS.
THEOREM CacheCurrentHolds == Spec => []CacheCurrent
<1>1. PInv => CacheCurrent
  BY DEF PInv, Data, LastIsCurrent, LastOf, CacheCurrent
<1> QED
  BY <1>1, InvariantHolds, PTL

\* XGetImage returns all that was finished before it was called.
THEOREM ImageShowsFinishedHolds == Spec => []ImageShowsFinished
<1>1. PInv => ImageShowsFinished
  BY DEF PInv, Data, Images, ImageOf, ImageShowsFinished
<1> QED
  BY <1>1, InvariantHolds, PTL
===============================================================================
