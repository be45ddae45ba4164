------------------------------ MODULE GCCache ------------------------------
(***************************************************************************)
(* The attributes of presentation spaces.  Every drawing function asks     *)
(* getCachedHPS for the presentation space of its process and drawable;    *)
(* setGCValues sets the attributes in which the GC differs from the one    *)
(* that the space was used with before.  Some functions change attributes  *)
(* behind its back.  One process, one thread; of the attributes of a GC    *)
(* those that these functions disturb.                                     *)
(***************************************************************************)
EXTENDS Integers

CONSTANTS GCs, Drawables,
          MixModes,        \* raster operations, GXclear and GXcopy among them
          Colors           \* pixel values, that of stdgcvalues among them

GXclear == 0
GXcopy == 3
GCAttrs == {"function", "foreground"}
GCValues == [function : MixModes, foreground : Colors]

ASSUME GCAssumption ==
  /\ {GXclear, GXcopy} \subseteq MixModes \cap Nat
  /\ 0 \in Colors /\ Colors \subseteq Nat

VARIABLES gc,         \* gc->values
          hps,        \* the cached presentation space of each drawable
          right       \* history: has the last drawing shown its GC

gcVars == <<gc, hps, right>>
-----------------------------------------------------------------------------
stdgcvalues == [function |-> GXcopy, foreground |-> 0]

(* GpiSetColor is for all primitives: lines and text, and areas.           *)
PSAttrs == {"mix", "backmix", "color", "area"}
FromGC(a) == IF a \in {"mix", "backmix"} THEN "function" ELSE "foreground"

(* Attributes that no value of a GC has set: PM's defaults, and what a     *)
(* function has set without a note in ebhps->current.                      *)
PMDefault == -1
SetBehind == -2

(* After newCachedHPS; scalloc has cleared ebhps->current.                 *)
NewHPS == [current |-> [a \in GCAttrs |-> 0], attr |-> [a \in PSAttrs |-> PMDefault]]

SetGCValues(ps, values, force) ==
  [current |-> values,
   attr |-> [a \in PSAttrs |->
     IF force \/ ps.current[FromGC(a)] # values[FromGC(a)] THEN values[FromGC(a)]
     ELSE ps.attr[a]]]

GetCachedHPS(all, d, values) ==
  [all EXCEPT ![d] = SetGCValues(@, values, @ = NewHPS)]

Leave(all, d, changed) ==
  [all EXCEPT ![d].attr = [a \in PSAttrs |-> IF a \in changed THEN SetBehind ELSE @[a]]]

(* An attribute shows the GC, or what such a function has left of it.      *)
Shows(ps, values) ==
  \A a \in PSAttrs : \/ ps.attr[a] = values[FromGC(a)]
                     \/ a \in {"backmix", "area"} /\ ps.attr[a] = SetBehind

GCInit ==
  /\ gc = [g \in GCs |-> stdgcvalues]
  /\ hps = [d \in Drawables |-> NewHPS]
  /\ right = TRUE
-----------------------------------------------------------------------------
(* XSetForeground and its like; XChangeGC is several of them.              *)
UpdateGCCache(g, a, v) ==
  /\ gc' = [gc EXCEPT ![g][a] = v]
  /\ UNCHANGED <<hps, right>>

CopyGC(src, g, mask) ==
  /\ gc' = [gc EXCEPT ![g] = [a \in GCAttrs |-> IF a \in mask THEN gc[src][a] ELSE gc[g][a]]]
  /\ UNCHANGED <<hps, right>>

(* XCreateGC, in the place of another GC; its valuemask is an XChangeGC.   *)
CreateGC(g) ==
  /\ gc' = [gc EXCEPT ![g] = stdgcvalues]
  /\ UNCHANGED <<hps, right>>

(* A function that draws on d with spaces it has asked for.                *)
Drawing(all, d, values, changed) ==
  /\ right' = Shows(all[d], values)
  /\ hps' = Leave(all, d, changed)
  /\ UNCHANGED gc

(* XDrawLine, XFillRectangle, XFillArc and so on; the latter sets the line *)
(* type back.  XClearWindow and XGetImage have no GC.                      *)
DrawShape(d, g) == Drawing(GetCachedHPS(hps, d, gc[g]), d, gc[g], {})
ClearWindow(d) == Drawing(GetCachedHPS(hps, d, stdgcvalues), d, stdgcvalues, {})

(* XDrawString sets the background mix to BM_LEAVEALONE; XDrawImageString  *)
(* the color of areas to that of the background as well.                   *)
DrawText(d, g, opaque) ==
  Drawing(GetCachedHPS(hps, d, gc[g]), d, gc[g],
          {"backmix"} \cup (IF opaque THEN {"area"} ELSE {}))

\* Mutant: the space of the source is asked for last.
GetSourceLast(src, dst, g) == GetCachedHPS(GetCachedHPS(hps, dst, gc[g]), src, stdgcvalues)

(* XCopyArea and XCopyPlane ask for the space of the source first.  The    *)
(* latter sets the color of areas to the plane mask.  XCopyArea through a  *)
(* clip mask goes through pixmaps of its own and is left out.              *)
GetBothHPS(src, dst, g) == GetCachedHPS(GetCachedHPS(hps, src, stdgcvalues), dst, gc[g])
CopyArea(src, dst, g) == Drawing(GetBothHPS(src, dst, g), dst, gc[g], {})
CopyPlane(src, dst, g) == Drawing(GetBothHPS(src, dst, g), dst, gc[g], {"area"})

(* The drawable is freed, and another takes its place.                     *)
NewDrawable(d) ==
  /\ hps' = [hps EXCEPT ![d] = NewHPS]
  /\ UNCHANGED <<gc, right>>

GCNext ==
  \/ \E g \in GCs :
       \/ \E v \in MixModes : UpdateGCCache(g, "function", v)
       \/ \E v \in Colors : UpdateGCCache(g, "foreground", v)
       \/ \E src \in GCs \ {g}, mask \in SUBSET GCAttrs : CopyGC(src, g, mask)
       \/ CreateGC(g)
  \/ \E g \in GCs, d \in Drawables :
       \/ DrawShape(d, g)
       \/ \E opaque \in BOOLEAN : DrawText(d, g, opaque)
       \/ \E src \in Drawables : CopyArea(src, d, g) \/ CopyPlane(src, d, g)
  \/ \E d \in Drawables : ClearWindow(d) \/ NewDrawable(d)

GCSpec == GCInit /\ [][GCNext]_gcVars
-----------------------------------------------------------------------------
GCTypeOK ==
  /\ gc \in [GCs -> GCValues]
  /\ hps \in [Drawables ->
       [current : [GCAttrs -> Colors \cup MixModes],
        attr : [PSAttrs -> Colors \cup MixModes \cup {PMDefault, SetBehind}]]]
  /\ right \in BOOLEAN

(* Whatever was drawn before, with whichever GC and on whichever drawable, *)
(* and however GCs were changed since: a function draws with the values of *)
(* its GC, but for the color of areas and the background mix that text and *)
(* XCopyPlane have set behind the cache.                                   *)
DrawsWithGC == right

(* What the steps preserve: the cache is right about a space.              *)
CacheInv ==
  /\ GCTypeOK /\ right
  /\ \A d \in Drawables : hps[d] = NewHPS \/ Shows(hps[d], hps[d].current)
=============================================================================
