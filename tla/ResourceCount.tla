---------------------------- MODULE ResourceCount ----------------------------
(***************************************************************************)
(* Reference counts of cursors and of background pixmaps.  A cursor is in  *)
(* the list of the client that made it, which counts once, and counts for  *)
(* each window it is defined for; a pixmap is in no list, and counts for   *)
(* each window it is the background of.  The daemon frees what a client    *)
(* leaves while other clients' windows still show it.  A client that       *)
(* defines a cursor stores it first and counts it afterwards.              *)
(***************************************************************************)
EXTENDS Naturals, FiniteSets

CONSTANTS ResClients,     \* clients
          Cursors, Pixmaps, ResWindows,   \* the resources they can make
          MaxCount,       \* bound: refcount that XDefineCursor reaches
          None            \* None, the X resource that is none

ASSUME CountAssumption ==
  /\ MaxCount \in Nat \ {0}
  /\ Cursors \cap Pixmaps = {} /\ ResWindows \cap (Cursors \cup Pixmaps) = {}
  /\ None \notin Cursors \cup Pixmaps \cup ResWindows

VARIABLES attached,    \* clients that have not left
          list,        \* client -> process->res
          refcount,    \* of cursors and pixmaps
          structure,   \* resource -> "none", "there" or "freed"
          cursor, background,   \* of each EB_Window
          doing,       \* client -> its place in a call of Xlib
          unwanted,    \* history: pixmaps given to XFreePixmap
          torn         \* history: what a call was about to use is gone

countVars == <<attached, list, refcount, structure, cursor, background, doing,
               unwanted, torn>>
-----------------------------------------------------------------------------
Shared == Cursors \cup Pixmaps
There(r) == structure[r] = "there"
Doing(pc, w, cur, bg) == [pc |-> pc, w |-> w, cur |-> cur, bg |-> bg]
NotDoing == Doing("idle", None, None, None)
IsIdle(c) == c \in attached /\ doing[c].pc = "idle"
Turn(c, pc) == doing' = [doing EXCEPT ![c] = [@ EXCEPT !.pc = pc]]

CountInit ==
  /\ attached = ResClients
  /\ list = [c \in ResClients |-> {}]
  /\ refcount = [r \in Shared |-> 0]
  /\ structure = [r \in Shared \cup ResWindows |-> "none"]
  /\ cursor = [w \in ResWindows |-> None]
  /\ background = [w \in ResWindows |-> None]
  /\ doing = [c \in ResClients |-> NotDoing]
  /\ unwanted = {}
  /\ torn = FALSE
-----------------------------------------------------------------------------
(* XCreateGlyphCursor and XCreatePixmapCursor.                             *)
CreateCursor(c, r) ==
  /\ IsIdle(c) /\ structure[r] = "none"
  /\ structure' = [structure EXCEPT ![r] = "there"]
  /\ refcount' = [refcount EXCEPT ![r] = 1]
  /\ list' = [list EXCEPT ![c] = @ \cup {r}]
  /\ UNCHANGED <<attached, cursor, background, doing, unwanted, torn>>

CreatePixmap(c, p) ==
  /\ IsIdle(c) /\ structure[p] = "none"
  /\ structure' = [structure EXCEPT ![p] = "there"]
  /\ refcount' = [refcount EXCEPT ![p] = 1]
  /\ UNCHANGED <<attached, list, cursor, background, doing, unwanted, torn>>

(* The structure is freed whatever the count, which stays as it is.        *)
FreePixmap(c, p) ==
  /\ IsIdle(c) /\ There(p)
  /\ structure' = [structure EXCEPT ![p] = "freed"]
  /\ unwanted' = unwanted \cup {p}
  /\ UNCHANGED <<attached, list, refcount, cursor, background, doing, torn>>

(* XCreateWindow puts the attributes into newwind.                         *)
FillWindow(c, w, cur, bg) ==
  /\ IsIdle(c) /\ structure[w] = "none"
  /\ \A d \in ResClients : doing[d].w # w
  /\ \A r \in {cur, bg} \ {None} : There(r)
  /\ doing' = [doing EXCEPT ![c] = Doing("create", w, cur, bg)]
  /\ UNCHANGED <<attached, list, refcount, structure, cursor, background, unwanted, torn>>

(* um_createWindow monitors what the window will use.                      *)
UmCreateWindow(c) ==
  LET w == doing[c].w
      uses == {doing[c].cur, doing[c].bg} \ {None}
  IN /\ doing[c].pc = "create"
     /\ structure' = [structure EXCEPT ![w] = "there"]
     /\ cursor' = [cursor EXCEPT ![w] = doing[c].cur]
     /\ background' = [background EXCEPT ![w] = doing[c].bg]
     /\ refcount' = [r \in Shared |-> IF r \in uses THEN refcount[r] + 1 ELSE refcount[r]]
     /\ list' = [list EXCEPT ![c] = @ \cup {w}]
     /\ doing' = [doing EXCEPT ![c] = NotDoing]
     /\ torn' = \E r \in uses : ~There(r)
     /\ UNCHANGED <<attached, unwanted>>

(* XDefineCursor finds the EB_Window.  With None it calls XUndefineCursor, *)
(* which does nothing.                                                     *)
DefineCursor(c, w, r) ==
  /\ IsIdle(c) /\ There(w) /\ There(r) /\ refcount[r] < MaxCount
  /\ doing' = [doing EXCEPT ![c] = Doing("set", w, r, None)]
  /\ UNCHANGED <<attached, list, refcount, structure, cursor, background, unwanted, torn>>

(* ebw->cursor = cursor.  What it was keeps its count.                     *)
SetCursor(c) ==
  LET w == doing[c].w
  IN /\ doing[c].pc = "set"
     /\ cursor' = [cursor EXCEPT ![w] = doing[c].cur]
     /\ Turn(c, "monitor")
     /\ torn' = ~(There(w) /\ There(doing[c].cur))
     /\ UNCHANGED <<attached, list, refcount, structure, background, unwanted>>

\* Mutant: the cursor is not counted.
ForgetToMonitor(c) ==
  /\ doing[c].pc = "monitor"
  /\ doing' = [doing EXCEPT ![c] = NotDoing]
  /\ UNCHANGED <<attached, list, refcount, structure, cursor, background, unwanted, torn>>

(* monitorResource                                                         *)
MonitorResource(c) ==
  /\ doing[c].pc = "monitor"
  /\ refcount' = [refcount EXCEPT ![doing[c].cur] = @ + 1]
  /\ doing' = [doing EXCEPT ![c] = NotDoing]
  /\ UNCHANGED <<attached, list, structure, cursor, background, unwanted, torn>>

(* What windows that are destroyed and cursors that their client leaves    *)
(* have counted is taken back, but for the cursors of the windows: nobody  *)
(* looks at ebw->cursor.  At zero the structure is freed.                  *)
UnMonitor(gone) ==
  LET uses(r) == Cardinality({w \in gone \cap ResWindows : background[w] = r})
                 + IF r \in gone THEN 1 ELSE 0
  IN /\ refcount' = [r \in Shared |-> refcount[r] - uses(r)]
     /\ structure' = [r \in Shared \cup ResWindows |->
          IF r \in gone \cap ResWindows THEN "freed"
          ELSE IF r \in Shared /\ uses(r) # 0 /\ uses(r) = refcount[r] THEN "freed"
          ELSE structure[r]]

UmDestroyWindow(w) ==
  /\ There(w)
  /\ UnMonitor({w})
  /\ list' = [c \in ResClients |-> list[c] \ {w}]
  /\ UNCHANGED <<attached, cursor, background, doing, unwanted, torn>>

(* A client leaves, by XCloseDisplay or by its death, and um_freeResources *)
(* frees its list.  The call of its own that is cut off, and the calls of  *)
(* others that have yet to count one of its cursors, are torn.             *)
UmFreeResources(c) ==
  /\ c \in attached
  /\ attached' = attached \ {c}
  /\ UnMonitor(list[c])
  /\ list' = [list EXCEPT ![c] = {}]
  /\ doing' = [doing EXCEPT ![c] = NotDoing]
  /\ torn' = \E d \in ResClients : /\ doing[d].pc = "monitor"
                                   /\ d = c \/ doing[d].cur \in list[c]
  /\ UNCHANGED <<cursor, background, unwanted>>

CountNext ==
  /\ ~torn
  /\ \/ \E c \in ResClients :
          \/ \E r \in Cursors : CreateCursor(c, r)
          \/ \E p \in Pixmaps : CreatePixmap(c, p) \/ FreePixmap(c, p)
          \/ \E w \in ResWindows, cur \in Cursors \cup {None}, bg \in Pixmaps \cup {None} :
                FillWindow(c, w, cur, bg)
          \/ \E w \in ResWindows, r \in Cursors : DefineCursor(c, w, r)
          \/ UmCreateWindow(c) \/ SetCursor(c) \/ MonitorResource(c) \/ UmFreeResources(c)
     \/ \E w \in ResWindows : UmDestroyWindow(w)

CountSpec == CountInit /\ [][CountNext]_countVars
-----------------------------------------------------------------------------
CountTypeOK ==
  /\ attached \subseteq ResClients
  /\ list \in [ResClients -> SUBSET (Cursors \cup ResWindows)]
  /\ refcount \in [Shared -> Nat]
  /\ structure \in [Shared \cup ResWindows -> {"none", "there", "freed"}]
  /\ cursor \in [ResWindows -> Cursors \cup {None}]
  /\ background \in [ResWindows -> Pixmaps \cup {None}]
  /\ doing \in [ResClients -> [pc : {"idle", "create", "set", "monitor"},
                  w : ResWindows \cup {None}, cur : Cursors \cup {None},
                  bg : Pixmaps \cup {None}]]
  /\ unwanted \subseteq Pixmaps
  /\ torn \in BOOLEAN

(* A window keeps its cursor when the client that made it leaves, and a    *)
(* client what it has made when windows that use it are destroyed: what a  *)
(* living window shows, and what a client's list holds, has its structure, *)
(* and no pixmap is freed but by XFreePixmap.                              *)
UsedIsThere ==
  ~torn => /\ \A w \in ResWindows : There(w) /\ cursor[w] # None => There(cursor[w])
           /\ \A c \in attached : \A r \in list[c] : There(r)
           /\ \A p \in Pixmaps : structure[p] = "freed" => p \in unwanted
=============================================================================
