------------------------------ MODULE Gravity ------------------------------
(***************************************************************************)
(* What WM_SIZE does to the children of a window.  PM sends it for every   *)
(* size that the user drags the window through, and each time a child is   *)
(* moved by CalcXDelta (CalcYDelta) of its own gravity less that of the    *)
(* window.  The two axes do not depend on each other: axis says which one  *)
(* is described.                                                           *)
(***************************************************************************)
EXTENDS Integers

CONSTANTS MaxSize,      \* the largest size of a window
          MaxRuns,      \* bound: how often the direction may change
          Gravities     \* the gravities windows are created with

(* X.h                                                                     *)
ForgetGravity == 0
UnmapGravity == 0
NorthWestGravity == 1
NorthGravity == 2
NorthEastGravity == 3
WestGravity == 4
CenterGravity == 5
EastGravity == 6
SouthWestGravity == 7
SouthGravity == 8
SouthEastGravity == 9
StaticGravity == 10

ASSUME GravityAssumption ==
  /\ MaxSize \in Nat /\ MaxRuns \in Nat
  /\ Gravities \subseteq ForgetGravity .. StaticGravity

VARIABLES axis,        \* "x" or "y", chosen once
          framed,      \* has the window a frame of its own
          bit,         \* ebw->bit_gravity
          win,         \* ebwchild->win_gravity
          size,        \* of the window along the axis
          shift,       \* by how much the child has been moved
          visible,     \* of the child
          exact,       \* history: twice what the gravities ask for
          dir,         \* history: 1 growing, -1 shrinking, 0 neither yet
          runs         \* history: stretches with one direction

gravityVars == <<axis, framed, bit, win, size, shift, visible, exact, dir, runs>>
-----------------------------------------------------------------------------
(* Division in C drops the fraction.                                       *)
HalfOf(n) == IF n >= 0 THEN n \div 2 ELSE -((-n) \div 2)

\* Mutant: without ddelta.
HalfAsItComes(old, new) == HalfOf(new - old)

Half(old, new) ==
  LET delta == new - old
      ddelta == (IF delta > 0 THEN 1 ELSE -1) * (1 - (new % 2))
  IN HalfOf(delta + ddelta)

CalcXDelta(old, new, g) ==
  IF g \in {EastGravity, SouthEastGravity, NorthEastGravity} THEN new - old
  ELSE IF g \in {CenterGravity, SouthGravity, NorthGravity} THEN Half(old, new)
  ELSE 0

CalcYDelta(old, new, g) ==
  IF g \in {NorthGravity, NorthWestGravity, NorthEastGravity, UnmapGravity} THEN new - old
  ELSE IF g \in {CenterGravity, WestGravity, EastGravity} THEN Half(old, new)
  ELSE 0

CalcDelta(old, new, g) ==
  IF axis = "x" THEN CalcXDelta(old, new, g) ELSE CalcYDelta(old, new, g)

(* Where on the axis the point lies that a gravity holds on to, in halves  *)
(* of the size; positions of PM count from the left and from below.        *)
Point(g) ==
  IF axis = "x"
  THEN IF g \in {NorthEastGravity, EastGravity, SouthEastGravity} THEN 2
       ELSE IF g \in {NorthGravity, CenterGravity, SouthGravity} THEN 1 ELSE 0
  ELSE IF g \in {UnmapGravity, NorthWestGravity, NorthGravity, NorthEastGravity} THEN 2
       ELSE IF g \in {WestGravity, CenterGravity, EastGravity} THEN 1 ELSE 0

GravityInit ==
  /\ axis \in {"x", "y"}
  /\ framed \in BOOLEAN
  /\ bit \in Gravities /\ win \in Gravities
  /\ size \in 0 .. MaxSize
  /\ shift = 0 /\ visible = TRUE
  /\ exact = 0 /\ dir = 0 /\ runs = 0

(* WM_CALCVALIDRECTS of the frame: "ebw->bit_gravity = StaticGravity" is   *)
(* an assignment, and the rest of the handler is never reached.            *)
CalcValidRects ==
  /\ framed
  /\ bit' = IF bit = ForgetGravity THEN bit ELSE StaticGravity
  /\ dir' = IF bit' = bit THEN dir ELSE 0
  /\ UNCHANGED <<axis, framed, win, size, shift, visible, exact, runs>>

(* WM_SIZE; children with StaticGravity are passed over.                   *)
Size(new) ==
  LET way == IF new > size THEN 1 ELSE IF new < size THEN -1 ELSE dir
  IN /\ size' = new
     /\ dir' = way
     /\ runs' = IF way = dir THEN runs ELSE runs + 1
     /\ runs' <= MaxRuns
     /\ IF win = StaticGravity THEN UNCHANGED <<shift, exact, visible>>
        ELSE /\ shift' = shift + CalcDelta(size, new, win) - CalcDelta(size, new, bit)
             /\ exact' = exact + (Point(win) - Point(bit)) * (new - size)
             /\ visible' = (visible /\ win # UnmapGravity)
     /\ UNCHANGED <<axis, framed, bit, win>>

GravityNext == CalcValidRects \/ \E new \in 0 .. MaxSize : Size(new)
GravitySpec == GravityInit /\ [][GravityNext]_gravityVars
-----------------------------------------------------------------------------
GravityTypeOK ==
  /\ axis \in {"x", "y"}
  /\ framed \in BOOLEAN
  /\ bit \in 0 .. 10 /\ win \in 0 .. 10
  /\ size \in 0 .. MaxSize
  /\ shift \in Int /\ exact \in Int
  /\ visible \in BOOLEAN
  /\ dir \in {-1, 0, 1}
  /\ runs \in 0 .. MaxRuns

(* However many sizes a drag goes through, a child is not half a pixel off *)
(* its place for each, but at most for each time the drag has turned.      *)
DriftBound == LET e == 2 * shift - exact IN -runs <= e /\ e <= runs

(* What the steps preserve: in a run in one direction the error only goes  *)
(* up and down with the parity of the size.                                *)
Wave ==
  LET e == 2 * shift - exact
      odd == size % 2
      up == (Point(win) = 1) /\ ~(Point(bit) = 1)
      down == ~(Point(win) = 1) /\ Point(bit) = 1
  IN /\ dir # 0 => runs > 0
     /\ up /\ dir = 1 /\ win # StaticGravity => 1 - runs <= e + odd /\ e + odd <= runs
     /\ up /\ dir = -1 /\ win # StaticGravity => -runs <= e - odd /\ e - odd <= runs - 1
     /\ down /\ dir = 1 /\ win # StaticGravity => 1 - runs <= odd - e /\ odd - e <= runs
     /\ down /\ dir = -1 /\ win # StaticGravity => -runs <= -e - odd /\ -e - odd <= runs - 1
GravityInv == GravityTypeOK /\ DriftBound /\ Wave
=============================================================================
