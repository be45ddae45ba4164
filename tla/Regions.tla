------------------------------ MODULE Regions ------------------------------
(***************************************************************************)
(* The regions of Xlib: an area as a list of rectangles in bands, from top *)
(* to bottom and within a band from left to right.  XEqualRegion compares  *)
(* the lists, and XRectInRegion and the operations themselves rely on      *)
(* bands being as high and rectangles as wide as they can be.  The         *)
(* rectangles of a band share y1 and y2 and are kept here as its spans;    *)
(* growth and shrinking of the arrays is left out.                         *)
(***************************************************************************)
EXTENDS Integers, Sequences, FiniteSets, SequencesExt

CONSTANTS XMax, YMax     \* bound: regions lie in 0 .. XMax and 0 .. YMax

ASSUME RegionAssumption == XMax \in Nat \ {0} /\ YMax \in Nat \ {0}

VARIABLES region,      \* a region of the application
          area         \* history: the cells it has asked for

regionVars == <<region, area>>
-----------------------------------------------------------------------------
NoExtents == [x1 |-> 0, y1 |-> 0, x2 |-> 0, y2 |-> 0]
CreateRegion == [bands |-> <<>>, extents |-> NoExtents]
Lesser(a, b) == IF a < b THEN a ELSE b
Greater(a, b) == IF a > b THEN a ELSE b
Abs(n) == IF n < 0 THEN -n ELSE n

Boxes == {b \in [x1 : 0 .. XMax, y1 : 0 .. YMax, x2 : 0 .. XMax, y2 : 0 .. YMax] :
            b.x1 < b.x2 /\ b.y1 < b.y2}
RectRegion(b) ==
  [bands |-> <<[y1 |-> b.y1, y2 |-> b.y2, spans |-> <<[x1 |-> b.x1, x2 |-> b.x2]>>]>>,
   extents |-> b]

SetExtents(bands) ==
  IF bands = <<>> THEN NoExtents
  ELSE LET spans == UNION {Range(bands[i].spans) : i \in DOMAIN bands}
       IN [x1 |-> Min({s.x1 : s \in spans}), y1 |-> Head(bands).y1,
           x2 |-> Max({s.x2 : s \in spans}), y2 |-> Last(bands).y2]

(* EXTENTCHECK                                                             *)
Meet(a, b) == a.x2 > b.x1 /\ a.x1 < b.x2 /\ a.y2 > b.y1 /\ a.y1 < b.y2
-----------------------------------------------------------------------------
(* A while loop of the code: its variables after it, for as many rounds as *)
(* it can take.                                                            *)
While(Test(_), Body(_), start, rounds) ==
  LET run[n \in 0 .. rounds] ==
        IF n = 0 THEN start
        ELSE LET t == run[n - 1] IN IF Test(t) THEN Body(t) ELSE t
  IN run[rounds]

(* The loops over two lists: i and j are the places where they are in r1   *)
(* and r2, out is what they have added.                                    *)
FirstLeft(r1, t) == t.i <= Len(r1)
SecondLeft(r2, t) == t.j <= Len(r2)
Start == [out |-> <<>>, i |-> 1, j |-> 1]
-----------------------------------------------------------------------------
(* What becomes of the spans where a band of each region overlap.          *)
MergeRect(spans, r) ==
  IF spans # <<>> /\ Last(spans).x2 >= r.x1
  THEN Append(Front(spans), [Last(spans) EXCEPT !.x2 = Greater(@, r.x2)])
  ELSE Append(spans, r)

UnionStep(r1, r2, t) ==
  IF ~SecondLeft(r2, t) \/ (FirstLeft(r1, t) /\ r1[t.i].x1 < r2[t.j].x1)
  THEN [out |-> MergeRect(t.out, r1[t.i]), i |-> t.i + 1, j |-> t.j]
  ELSE [out |-> MergeRect(t.out, r2[t.j]), i |-> t.i, j |-> t.j + 1]
UnionO(r1, r2) ==
  While(LAMBDA t : FirstLeft(r1, t) \/ SecondLeft(r2, t), LAMBDA t : UnionStep(r1, r2, t),
        Start, Len(r1) + Len(r2)).out

(* The one that reaches less far to the right is done with.                *)
IntersectStep(r1, r2, t) ==
  LET a == r1[t.i]
      b == r2[t.j]
      both == [x1 |-> Greater(a.x1, b.x1), x2 |-> Lesser(a.x2, b.x2)]
  IN [out |-> IF both.x1 < both.x2 THEN Append(t.out, both) ELSE t.out,
      i |-> IF a.x2 <= b.x2 THEN t.i + 1 ELSE t.i,
      j |-> IF b.x2 <= a.x2 THEN t.j + 1 ELSE t.j]
IntersectO(r1, r2) ==
  While(LAMBDA t : FirstLeft(r1, t) /\ SecondLeft(r2, t), LAMBDA t : IntersectStep(r1, r2, t),
        Start, Len(r1) + Len(r2)).out

(* x1 is the left-most point of r1 not yet checked.                        *)
SubtractStep(r1, r2, t) ==
  LET a == r1[t.i]
      b == r2[t.j]
      NextMinuend(out) == [out |-> out, i |-> t.i + 1, j |-> t.j,
                           x1 |-> IF t.i < Len(r1) THEN r1[t.i + 1].x1 ELSE t.x1]
      NextSubtrahend(out, x1) == [out |-> out, i |-> t.i, j |-> t.j + 1, x1 |-> x1]
      After(out) == IF b.x2 >= a.x2 THEN NextMinuend(out) ELSE NextSubtrahend(out, b.x2)
  IN IF ~SecondLeft(r2, t) THEN NextMinuend(Append(t.out, [x1 |-> t.x1, x2 |-> a.x2]))
     ELSE IF b.x2 <= t.x1 THEN NextSubtrahend(t.out, t.x1)
     ELSE IF b.x1 <= t.x1 THEN After(t.out)
     ELSE IF b.x1 < a.x2 THEN After(Append(t.out, [x1 |-> t.x1, x2 |-> b.x1]))
     ELSE NextMinuend(IF a.x2 > t.x1 THEN Append(t.out, [x1 |-> t.x1, x2 |-> a.x2]) ELSE t.out)
SubtractO(r1, r2) ==
  While(LAMBDA t : FirstLeft(r1, t), LAMBDA t : SubtractStep(r1, r2, t),
        [out |-> <<>>, i |-> 1, j |-> 1, x1 |-> r1[1].x1], Len(r1) + Len(r2)).out
-----------------------------------------------------------------------------
(* miRegionOp: the sweep over the bands of both regions.  Its function     *)
(* pointers are told by the operation: what is left of overlapping bands,  *)
(* and whether a band that only one region has goes into the result.       *)
Overlap(op, r1, r2) ==
  CASE op = "union" -> UnionO(r1, r2)
    [] op = "intersect" -> IntersectO(r1, r2)
    [] op = "subtract" -> SubtractO(r1, r2)
Keeps1(op) == op \in {"union", "subtract"}
Keeps2(op) == op = "union"

\* Mutant: without a look at where the bands are.
CoalesceApart(bands, band) ==
  IF bands # <<>> /\ Last(bands).spans = band.spans
  THEN Append(Front(bands), [Last(bands) EXCEPT !.y2 = band.y2])
  ELSE Append(bands, band)

Coalesce(bands, band) ==
  IF bands # <<>> /\ Last(bands).spans = band.spans /\ Last(bands).y2 = band.y1
  THEN Append(Front(bands), [Last(bands) EXCEPT !.y2 = band.y2])
  ELSE Append(bands, band)

AddBand(bands, y1, y2, spans) ==
  IF spans = <<>> THEN bands ELSE Coalesce(bands, [y1 |-> y1, y2 |-> y2, spans |-> spans])

(* The bands left over come from one region: only the first of them can    *)
(* go together with what is there.                                         *)
AddRest(bands, rest, ybot) ==
  IF rest = <<>> THEN bands
  ELSE LET b == Head(rest)
       IN AddBand(bands, Greater(b.y1, ybot), b.y2, b.spans) \o Tail(rest)

(* One round of the sweep; what is above ybot is done.                     *)
SweepStep(op, r1, r2, t) ==
  LET a == r1[t.i]
      b == r2[t.j]
      ytop == Greater(a.y1, b.y1)
      end == Lesser(a.y2, b.y2)
      Alone(r, keep) ==
        LET top == Greater(r.y1, t.ybot)
            bot == Lesser(r.y2, ytop)
        IN IF keep /\ top # bot THEN AddBand(t.out, top, bot, r.spans) ELSE t.out
      before == IF a.y1 < b.y1 THEN Alone(a, Keeps1(op))
                ELSE IF b.y1 < a.y1 THEN Alone(b, Keeps2(op)) ELSE t.out
  IN [out |-> IF end > ytop THEN AddBand(before, ytop, end, Overlap(op, a.spans, b.spans))
              ELSE before,
      i |-> IF a.y2 = end THEN t.i + 1 ELSE t.i,
      j |-> IF b.y2 = end THEN t.j + 1 ELSE t.j,
      ybot |-> end]

Sweep(op, r1, r2, ybot) ==
  While(LAMBDA t : FirstLeft(r1, t) /\ SecondLeft(r2, t), LAMBDA t : SweepStep(op, r1, r2, t),
        [out |-> <<>>, i |-> 1, j |-> 1, ybot |-> ybot], Len(r1) + Len(r2))

RegionOp(op, reg1, reg2) ==
  LET t == Sweep(op, reg1.bands, reg2.bands, Lesser(reg1.extents.y1, reg2.extents.y1))
  IN IF FirstLeft(reg1.bands, t)
     THEN IF Keeps1(op) THEN AddRest(t.out, SubSeq(reg1.bands, t.i, Len(reg1.bands)), t.ybot)
          ELSE t.out
     ELSE IF Keeps2(op) THEN AddRest(t.out, SubSeq(reg2.bands, t.j, Len(reg2.bands)), t.ybot)
          ELSE t.out
-----------------------------------------------------------------------------
IsOneRect(reg) == Len(reg.bands) = 1 /\ Len(reg.bands[1].spans) = 1
Subsumes(reg1, reg2) ==
  /\ IsOneRect(reg1)
  /\ reg1.extents.x1 <= reg2.extents.x1 /\ reg1.extents.y1 <= reg2.extents.y1
  /\ reg1.extents.x2 >= reg2.extents.x2 /\ reg1.extents.y2 >= reg2.extents.y2

UnionRegion(reg1, reg2) ==
  IF reg1.bands = <<>> THEN reg2
  ELSE IF reg2.bands = <<>> \/ Subsumes(reg1, reg2) THEN reg1
  ELSE IF Subsumes(reg2, reg1) THEN reg2
  ELSE [bands |-> RegionOp("union", reg1, reg2),
        extents |-> [x1 |-> Lesser(reg1.extents.x1, reg2.extents.x1),
                     y1 |-> Lesser(reg1.extents.y1, reg2.extents.y1),
                     x2 |-> Greater(reg1.extents.x2, reg2.extents.x2),
                     y2 |-> Greater(reg1.extents.y2, reg2.extents.y2)]]

Apart(reg1, reg2) ==
  reg1.bands = <<>> \/ reg2.bands = <<>> \/ ~Meet(reg1.extents, reg2.extents)

IntersectRegion(reg1, reg2) ==
  LET bands == IF Apart(reg1, reg2) THEN <<>>
               ELSE RegionOp("intersect", reg1, reg2)
  IN [bands |-> bands, extents |-> SetExtents(bands)]

SubtractRegion(regM, regS) ==
  IF Apart(regM, regS) THEN regM
  ELSE LET bands == RegionOp("subtract", regM, regS)
       IN [bands |-> bands, extents |-> SetExtents(bands)]

XorRegion(sra, srb) == UnionRegion(SubtractRegion(sra, srb), SubtractRegion(srb, sra))

OffsetRegion(reg, x, y) ==
  [bands |-> [i \in DOMAIN reg.bands |->
                LET b == reg.bands[i]
                IN [y1 |-> b.y1 + y, y2 |-> b.y2 + y,
                    spans |-> [j \in DOMAIN b.spans |->
                                 [x1 |-> b.spans[j].x1 + x, x2 |-> b.spans[j].x2 + x]]]],
   extents |-> [x1 |-> reg.extents.x1 + x, y1 |-> reg.extents.y1 + y,
                x2 |-> reg.extents.x2 + x, y2 |-> reg.extents.y2 + y]]

(* s holds the heads of the runs of length shift; xy is the direction.     *)
CompressStep(t, xy, grow) ==
  LET ZOp(a, b) == IF grow THEN UnionRegion(a, b) ELSE IntersectRegion(a, b)
      Back(reg) == OffsetRegion(reg, -t.shift * xy[1], -t.shift * xy[2])
      odd == (t.dx \div t.shift) % 2 = 1
      left == IF odd THEN t.dx - t.shift ELSE t.dx
  IN [r |-> IF odd THEN ZOp(Back(t.r), t.s) ELSE t.r,
      s |-> IF left = 0 THEN t.s ELSE ZOp(Back(t.s), t.s),
      dx |-> left,
      shift |-> 2 * t.shift]
Compress(reg, dx, xy, grow) ==
  While(LAMBDA t : t.dx # 0, LAMBDA t : CompressStep(t, xy, grow),
        [r |-> reg, s |-> reg, dx |-> dx, shift |-> 1], dx).r

Resize(reg, d, xy) ==
  IF d = 0 THEN reg ELSE Compress(reg, 2 * Abs(d), xy, d < 0)
ShrinkRegion(reg, dx, dy) ==
  OffsetRegion(Resize(Resize(reg, dx, <<1, 0>>), dy, <<0, 1>>), Abs(dx), Abs(dy))
-----------------------------------------------------------------------------
(* XRectInRegion goes through the rectangles; ry is the top of what it has *)
(* not found inside or outside yet.                                        *)
RectsOf(reg) ==
  FlattenSeq([i \in DOMAIN reg.bands |->
    LET b == reg.bands[i]
    IN [j \in DOMAIN b.spans |->
          [x1 |-> b.spans[j].x1, y1 |-> b.y1, x2 |-> b.spans[j].x2, y2 |-> b.y2]]])

LookStep(rects, rect, t) ==
  LET box == rects[t.k]
      gap == box.y1 > t.ry
      y == Greater(box.y1, t.ry)
      out == t.partOut \/ gap \/ box.x1 > rect.x1
      in == t.partIn \/ box.x1 < rect.x2
      Go(ry, i, o) == [k |-> t.k + 1, ry |-> ry, partIn |-> i, partOut |-> o, stop |-> FALSE]
      Stop(ry, i) == [k |-> t.k, ry |-> ry, partIn |-> i, partOut |-> t.partOut, stop |-> TRUE]
  IN IF box.y2 <= t.ry THEN Go(t.ry, t.partIn, t.partOut)
     ELSE IF gap /\ (t.partIn \/ box.y1 >= rect.y2) THEN Stop(t.ry, t.partIn)
     ELSE IF box.x2 <= rect.x1 THEN Go(y, t.partIn, t.partOut \/ gap)
     ELSE IF box.x1 > rect.x1 /\ t.partIn THEN Stop(y, t.partIn)
     ELSE IF (box.x1 < rect.x2 /\ out) \/ box.x2 < rect.x2 THEN Stop(y, in)
     ELSE IF box.y2 >= rect.y2 THEN Stop(box.y2, in)
     ELSE Go(box.y2, in, out)
Look(rects, rect) ==
  While(LAMBDA t : t.k <= Len(rects) /\ ~t.stop, LAMBDA t : LookStep(rects, rect, t),
        [k |-> 1, ry |-> rect.y1, partIn |-> FALSE, partOut |-> FALSE, stop |-> FALSE],
        Len(rects))

RectInRegion(reg, rect) ==
  IF reg.bands = <<>> \/ ~Meet(reg.extents, rect) THEN "out"
  ELSE LET t == Look(RectsOf(reg), rect)
       IN IF ~t.partIn THEN "out" ELSE IF t.ry < rect.y2 THEN "part" ELSE "in"
-----------------------------------------------------------------------------
Cells == (0 .. XMax - 1) \X (0 .. YMax - 1)
CellsOf(b) == (b.x1 .. b.x2 - 1) \X (b.y1 .. b.y2 - 1)
Inside(b) == {b.x1, b.x2} \subseteq 0 .. XMax /\ {b.y1, b.y2} \subseteq 0 .. YMax
Moved(cells, x, y) == {<<c[1] + x, c[2] + y>> : c \in cells}

(* The other operand: one rectangle, or an area of at most two.            *)
OneRect == {[region |-> RectRegion(b), area |-> CellsOf(b)] : b \in Boxes}
Operands ==
  {[region |-> UnionRegion(RectRegion(a), RectRegion(b)), area |-> CellsOf(a) \cup CellsOf(b)] :
     a \in Boxes, b \in Boxes}

RegionInit == region = CreateRegion /\ area = {}

UnionWith(o) ==
  /\ region' = UnionRegion(o.region, region)
  /\ area' = o.area \cup area
IntersectWith(o) ==
  /\ region' = IntersectRegion(region, o.region)
  /\ area' = area \cap o.area
Subtract(o) ==
  /\ region' = SubtractRegion(region, o.region)
  /\ area' = area \ o.area
SubtractFrom(o) ==
  /\ region' = SubtractRegion(o.region, region)
  /\ area' = o.area \ area
XorWith(o) ==
  /\ region' = XorRegion(region, o.region)
  /\ area' = (area \ o.area) \cup (o.area \ area)
(* The extents of an empty region are moved like those of any other.       *)
Offset(x, y) ==
  /\ region' = OffsetRegion(region, x, y)
  /\ Inside(region'.extents)
  /\ area' = Moved(area, x, y)

(* A cell stays when all its neighbours at up to dx (dy) are there; with a *)
(* negative dx it is there when one of them was.                           *)
Reached(cells, d, x, y) ==
  IF d < 0 THEN UNION {Moved(cells, i * x, i * y) : i \in d .. -d}
  ELSE {c \in cells : \A i \in -d .. d : <<c[1] + i * x, c[2] + i * y>> \in cells}
Shrink(dx, dy) ==
  /\ region' = ShrinkRegion(region, dx, dy)
  /\ Inside(region'.extents)
  /\ area' = Reached(Reached(area, dx, 1, 0), dy, 0, 1)

RegionNext ==
  \/ \E o \in Operands :
       UnionWith(o) \/ IntersectWith(o) \/ Subtract(o)
  \/ \E o \in OneRect : SubtractFrom(o) \/ XorWith(o)
  \/ \E x, y \in -1 .. 1 : Offset(x, y) \/ Shrink(x, y)
RegionSpec == RegionInit /\ [][RegionNext]_regionVars
-----------------------------------------------------------------------------
RegionTypeOK ==
  /\ area \subseteq Cells
  /\ Inside(region.extents)
  /\ \A i \in DOMAIN region.bands : region.bands[i].spans # <<>>

(* The one way to write an area: its rows' runs of cells, as high as they  *)
(* are the same.                                                           *)
RunsOf(cells, y) ==
  {r \in [x1 : 0 .. XMax, x2 : 0 .. XMax] :
     /\ r.x1 < r.x2
     /\ \A x \in r.x1 .. r.x2 - 1 : <<x, y>> \in cells
     /\ <<r.x1 - 1, y>> \notin cells /\ <<r.x2, y>> \notin cells}
Canonical(cells) ==
  {b \in Boxes :
     LET runs == RunsOf(cells, b.y1)
     IN /\ [x1 |-> b.x1, x2 |-> b.x2] \in runs
        /\ \A y \in b.y1 .. b.y2 - 1 : RunsOf(cells, y) = runs
        /\ RunsOf(cells, b.y1 - 1) # runs /\ RunsOf(cells, b.y2) # runs}
Sorted(rects) ==
  \A i, j \in DOMAIN rects :
    i < j => \/ rects[i].y2 <= rects[j].y1
             \/ rects[i].y1 = rects[j].y1 /\ rects[i].x2 < rects[j].x1

(* After any sequence of operations a region is the one list of rectangles *)
(* that its area has, so that XEqualRegion compares areas and the extents  *)
(* by which operations are skipped are right; and XRectInRegion tells of   *)
(* every rectangle whether the area has all, some or none of it.           *)
RegionIsArea ==
  area # {} \/ region.bands # <<>> =>
    LET rects == RectsOf(region)
        xs == {c[1] : c \in area}
        ys == {c[2] : c \in area}
    IN /\ Range(rects) = Canonical(area) /\ Sorted(rects)
       /\ region.extents = [x1 |-> Min(xs), y1 |-> Min(ys), x2 |-> Max(xs) + 1, y2 |-> Max(ys) + 1]
       /\ \A b \in Boxes :
            RectInRegion(region, b) = IF CellsOf(b) \cap area = {} THEN "out"
                                      ELSE IF CellsOf(b) \subseteq area THEN "in" ELSE "part"
=============================================================================
