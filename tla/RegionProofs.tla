---------------------------- MODULE RegionProofs ----------------------------
(***************************************************************************)
(* A region is the one list of rectangles of its area, after any sequence  *)
(* of operations and for every size of the area.  The invariant says that  *)
(* of a region's bands: each has its spans apart and in order, a band is   *)
(* above the next, and bands that touch differ; a point is in the area     *)
(* when it is in a span of a band; and the extents are the smallest        *)
(* rectangle around the area.  Each loop has a lemma for its round and one *)
(* for the loop: the states that it can be in, and a number that each      *)
(* round takes from.                                                       *)
(***************************************************************************)
EXTENDS Regions, SequenceTheorems, WellFoundedInduction, TLAPS

(* Numbers have a least one among any of them.                             *)
LEMMA LeastNumber ==
  ASSUME NEW S, S \subseteq Nat, S # {}
  PROVE  \E n \in S : \A m \in S : n <= m
<1>1. PICK n \in S : \A m \in S : ~(<<m, n>> \in OpToRel(<, Nat))
  BY NatLessThanWellFounded, WFMin, Zenon
<1>2. ASSUME NEW m \in S PROVE n <= m
  <2>1. m \in Nat /\ n \in Nat
    OBVIOUS
  <2>2. ~(m < n)
    BY <1>1, <2>1 DEF OpToRel
  <2> QED BY <2>1, <2>2
<1> QED BY <1>2

(* What holds of the first round, and of each that follows on one of which *)
(* it holds, holds of all.                                                 *)
LEMMA EachRound ==
  ASSUME NEW N \in Nat, NEW S, 0 \in S, \A n \in 1 .. N : n - 1 \in S => n \in S
  PROVE  0 .. N \subseteq S
<1> DEFINE Bad == {n \in 0 .. N : n \notin S}
<1>1. ASSUME Bad # {} PROVE FALSE
  <2>1. PICK n \in Bad : \A m \in Bad : n <= m
    <3> HIDE DEF Bad
    <3>1. Bad \subseteq Nat
      BY DEF Bad
    <3> QED BY <1>1, <3>1, LeastNumber
  <2>2. n # 0 /\ n \in 0 .. N /\ n \notin S
    BY <2>1
  <2>3. n - 1 \in 0 .. N /\ ~(n <= n - 1) /\ n \in 1 .. N
    BY <2>2
  <2>4. n - 1 \in S
    BY <2>1, <2>3
  <2> QED BY <2>2, <2>3, <2>4
<1> QED BY <1>1

(* A loop: I are the states that it can be in, F is a round, s is where it *)
(* begins.                                                                 *)
IsRun(g, N, s, F) == \A n \in 0 .. N : g[n] = IF n = 0 THEN s ELSE F[g[n - 1]]

(* Any number of rounds can be made.                                       *)
LEMMA RunExists ==
  ASSUME NEW N \in Nat, NEW I, NEW F \in [I -> I], NEW s \in I
  PROVE  \E g \in [0 .. N -> I] : IsRun(g, N, s, F)
<1> DEFINE Runs(n) == {g \in [0 .. n -> I] : IsRun(g, n, s, F)}
           S == {n \in 0 .. N : Runs(n) # {}}
<1>1. 0 \in S
  <2>1. [m \in 0 .. 0 |-> s] \in Runs(0)
    BY DEF IsRun
  <2> QED BY <2>1
<1>2. ASSUME NEW n \in 1 .. N, n - 1 \in S PROVE n \in S
  <2>1. PICK g : g \in Runs(n - 1)
    BY <1>2
  <2> DEFINE h == [m \in 0 .. n |-> IF m = n THEN F[g[n - 1]] ELSE g[m]]
  <2>2. g[n - 1] \in I /\ F[g[n - 1]] \in I
    BY <2>1
  <2>3. h \in [0 .. n -> I]
    BY <2>1, <2>2
  <2>4. ASSUME NEW m \in 0 .. n PROVE h[m] = IF m = 0 THEN s ELSE F[h[m - 1]]
    <3>1. CASE m = n
      <4>1. m # 0 /\ m - 1 \in 0 .. n /\ m - 1 # n /\ m - 1 = n - 1
        BY <3>1
      <4>2. h[m - 1] = g[n - 1] /\ h[m] = F[g[n - 1]]
        BY <3>1, <4>1
      <4> QED BY <4>1, <4>2
    <3>2. CASE m # n
      <4>1. m \in 0 .. n - 1 /\ (m # 0 => m - 1 \in 0 .. n - 1 /\ m - 1 # n)
        BY <3>2
      <4> QED BY <2>1, <3>2, <4>1 DEF IsRun
    <3> QED BY <3>1, <3>2
  <2>5. h \in Runs(n)
    BY <2>3, <2>4 DEF IsRun
  <2> HIDE DEF h, Runs
  <2> QED BY <2>5
<1>3. N \in S
  <2> HIDE DEF S
  <2>1. 0 .. N \subseteq S
    BY <1>1, <1>2, EachRound
  <2> QED BY <2>1
<1>4. PICK g : g \in Runs(N)
  BY <1>3
<1> QED BY <1>4

(* G are the states where the loop goes on, M bounds how many rounds       *)
(* follow: N of them are enough.                                           *)
Ends(I, G, F, M) ==
  /\ \A t \in I \cap G : 0 < M[t] /\ M[F[t]] < M[t]
  /\ \A t \in I \ G : F[t] = t
Follows(f, N, I, F) == \A n \in 1 .. N : f[n - 1] \in I => f[n] = F[f[n - 1]]

(* After N rounds the loop is at its end.                                  *)
LEMMA RunEnds ==
  ASSUME NEW N \in Nat, NEW I, NEW G, NEW F \in [I -> I], NEW M \in [I -> Int], Ends(I, G, F, M),
         NEW f, f[0] \in I, M[f[0]] <= N, Follows(f, N, I, F)
  PROVE  f[N] \in I /\ f[N] \notin G
<1> DEFINE T == {n \in 0 .. N : f[n] \in I /\ (f[n] \notin G \/ M[f[n]] + n <= N)}
<1>1. 0 \in T
  OBVIOUS
<1>2. ASSUME NEW n \in 1 .. N, n - 1 \in T PROVE n \in T
  <2>1. f[n - 1] \in I /\ f[n] = F[f[n - 1]] /\ f[n] \in I
    BY <1>2 DEF Follows
  <2>2. M[f[n]] \in Int /\ M[f[n - 1]] \in Int
    BY <2>1
  <2>3. CASE f[n - 1] \notin G
    BY <2>1, <2>3 DEF Ends
  <2>4. CASE f[n - 1] \in G
    BY <1>2, <2>1, <2>2, <2>4 DEF Ends
  <2> QED BY <2>3, <2>4
<1>3. N \in T
  <2> HIDE DEF T
  <2>1. 0 .. N \subseteq T
    BY <1>1, <1>2, EachRound
  <2> QED BY <2>1
<1>4. f[N] \in I /\ M[f[N]] \in Int
  BY <1>3
<1> QED BY <1>3, <1>4 DEF Ends
-----------------------------------------------------------------------------
(***************************************************************************)
(* The spans of a band: from left to right, and apart.                     *)
(***************************************************************************)
Span == [x1 : Int, x2 : Int]
IsSpan(s) == s \in Span /\ s.x1 < s.x2
InSpan(s, x) == s.x1 <= x /\ x < s.x2

(* x is in one of the first n spans; x is in one of them.                  *)
InFirst(spans, n, x) == \E k \in 1 .. n : InSpan(spans[k], x)
InSpans(spans, x) == InFirst(spans, Len(spans), x)

SpansOK(spans) ==
  /\ spans \in Seq(Span)
  /\ \A i \in 1 .. Len(spans) : spans[i].x1 < spans[i].x2
  /\ \A i, j \in 1 .. Len(spans) : i < j => spans[i].x2 < spans[j].x1

(* The lesser and the greater of two numbers.                              *)
LEMMA NumbersCompared ==
  ASSUME NEW a \in Int, NEW b \in Int
  PROVE  /\ Lesser(a, b) \in Int /\ Lesser(a, b) \in {a, b} /\ Lesser(a, b) <= a /\ Lesser(a, b) <= b
         /\ Greater(a, b) \in Int /\ Greater(a, b) \in {a, b} /\ Greater(a, b) >= a /\ Greater(a, b) >= b
BY DEF Lesser, Greater

(* No spans have no points.                                                *)
LEMMA EmptySpans == SpansOK(<<>>) /\ \A x : ~InSpans(<<>>, x)
BY DEF SpansOK, InSpans, InFirst

(* A span is put on the right of the others.                               *)
LEMMA AppendSpan ==
  ASSUME NEW spans, SpansOK(spans), NEW r, IsSpan(r),
         spans # <<>> => Last(spans).x2 < r.x1
  PROVE  /\ SpansOK(Append(spans, r)) /\ Append(spans, r) # <<>> /\ Last(Append(spans, r)) = r
         /\ \A x \in Int : InSpans(Append(spans, r), x) <=> InSpans(spans, x) \/ InSpan(r, x)
<1> DEFINE new == Append(spans, r)
<1>1. /\ new \in Seq(Span) /\ Len(new) = Len(spans) + 1 /\ new[Len(new)] = r
      /\ Len(spans) \in Nat
      /\ \A i \in 1 .. Len(spans) : new[i] = spans[i] /\ spans[i] \in Span
  BY DEF SpansOK, IsSpan
<1>2. spans # <<>> => Len(spans) \in 1 .. Len(spans)
  BY DEF SpansOK
<1>3. ASSUME NEW i \in 1 .. Len(spans) PROVE spans[i].x2 < r.x1
  <2>1. spans[Len(spans)].x2 < r.x1 /\ Len(spans) \in 1 .. Len(spans)
    BY <1>1, <1>2, <1>3 DEF Last, SpansOK
  <2>2. CASE i = Len(spans)
    BY <2>1, <2>2
  <2>3. CASE i # Len(spans)
    <3>1. i < Len(spans)
      BY <2>3, <1>1
    <3>2. spans[i].x2 < spans[Len(spans)].x1 /\ spans[Len(spans)].x1 < spans[Len(spans)].x2
      BY <2>1, <3>1 DEF SpansOK
    <3>3. {spans[i].x2, spans[Len(spans)].x1, spans[Len(spans)].x2, r.x1} \subseteq Int
      BY <1>1, <2>1 DEF Span, IsSpan
    <3> QED BY <2>1, <3>2, <3>3
  <2> QED BY <2>2, <2>3
<1> HIDE DEF new
<1>4. ASSUME NEW i \in 1 .. Len(new) PROVE new[i].x1 < new[i].x2
  <2>1. i = Len(new) \/ i \in 1 .. Len(spans)
    BY <1>1
  <2> QED BY <1>1, <2>1 DEF SpansOK, IsSpan
<1>5. ASSUME NEW i \in 1 .. Len(new), NEW j \in 1 .. Len(new), i < j PROVE new[i].x2 < new[j].x1
  <2>1. i \in 1 .. Len(spans) /\ (j = Len(new) \/ j \in 1 .. Len(spans))
    BY <1>1, <1>5
  <2> QED BY <1>1, <1>3, <1>5, <2>1 DEF SpansOK
<1>6. new # <<>> /\ Last(new) = r
  BY <1>1 DEF Last
<1>7. ASSUME NEW x \in Int PROVE InSpans(new, x) <=> InSpans(spans, x) \/ InSpan(r, x)
  <2>1. ASSUME NEW k \in 1 .. Len(new), InSpan(new[k], x) PROVE InSpans(spans, x) \/ InSpan(r, x)
    <3>1. k = Len(new) \/ k \in 1 .. Len(spans)
      BY <1>1
    <3> QED BY <1>1, <2>1, <3>1 DEF InSpans, InFirst
  <2>2. ASSUME NEW k \in 1 .. Len(spans), InSpan(spans[k], x) PROVE InSpans(new, x)
    <3>1. k \in 1 .. Len(new)
      BY <1>1
    <3> QED BY <1>1, <2>2, <3>1 DEF InSpans, InFirst
  <2>3. ASSUME InSpan(r, x) PROVE InSpans(new, x)
    <3>1. Len(new) \in 1 .. Len(new)
      BY <1>1
    <3> QED BY <1>1, <2>3, <3>1 DEF InSpans, InFirst
  <2> QED BY <2>1, <2>2, <2>3 DEF InSpans, InFirst
<1> QED BY <1>1, <1>4, <1>5, <1>6, <1>7 DEF SpansOK, new

(* All but the last of some spans are spans.                               *)
LEMMA FrontSpans ==
  ASSUME NEW spans, SpansOK(spans), spans # <<>>
  PROVE  /\ SpansOK(Front(spans)) /\ IsSpan(Last(spans))
         /\ Front(spans) # <<>> => Last(Front(spans)).x2 < Last(spans).x1
         /\ \A x \in Int : InSpans(spans, x) <=> InSpans(Front(spans), x) \/ InSpan(Last(spans), x)
<1> DEFINE n == Len(spans)
           front == Front(spans)
<1>1. n \in Nat \ {0} /\ \A i \in 1 .. n : spans[i] \in Span
  BY DEF SpansOK
<1>2. front \in Seq(Span) /\ Len(front) = n - 1 /\ \A i \in 1 .. n - 1 : front[i] = spans[i]
  <2>1. n - 1 \in Int /\ 1 \in Int /\ \A i \in 1 .. n - 1 : spans[i] \in Span
    BY <1>1
  <2>2. front = SubSeq(spans, 1, n - 1)
    BY DEF Front
  <2> HIDE DEF front, n
  <2>3. /\ front \in Seq(Span) /\ Len(front) = IF 1 <= n - 1 THEN n - 1 - 1 + 1 ELSE 0
        /\ \A i \in 1 .. n - 1 - 1 + 1 : front[i] = spans[1 + i - 1]
    BY <2>1, <2>2, SubSeqProperties
  <2> QED BY <1>1, <2>3
<1> HIDE DEF front, n
<1>3. SpansOK(front)
  <2>1. \A i \in 1 .. n - 1 : i \in 1 .. n /\ front[i] = spans[i]
    BY <1>1, <1>2
  <2>2. 1 .. Len(front) = 1 .. n - 1
    BY <1>2
  <2>3. ASSUME NEW i \in 1 .. Len(front) PROVE front[i].x1 < front[i].x2
    BY <2>1, <2>2 DEF SpansOK, n
  <2>4. ASSUME NEW i \in 1 .. Len(front), NEW j \in 1 .. Len(front), i < j
        PROVE  front[i].x2 < front[j].x1
    <3>1. front[i] = spans[i] /\ front[j] = spans[j] /\ i \in 1 .. n /\ j \in 1 .. n
      BY <2>1, <2>2
    <3> QED BY <2>4, <3>1 DEF SpansOK, n
  <2> QED BY <1>2, <2>3, <2>4 DEF SpansOK
<1>4. IsSpan(Last(spans))
  BY <1>1 DEF Last, IsSpan, SpansOK, n
<1>5. ASSUME front # <<>> PROVE Last(front).x2 < Last(spans).x1
  <2>1. n - 1 \in 1 .. n /\ n \in 1 .. n /\ n - 1 < n /\ Last(front) = spans[n - 1]
    BY <1>1, <1>2, <1>5 DEF Last
  <2> QED BY <2>1 DEF Last, SpansOK, n
<1>6. ASSUME NEW x \in Int PROVE InSpans(spans, x) <=> InSpans(front, x) \/ InSpan(Last(spans), x)
  <2>1. \A k \in 1 .. n : k \in 1 .. n - 1 \/ k = n
    BY <1>1
  <2>2. \A k \in 1 .. n - 1 : k \in 1 .. n
    BY <1>1
  <2>3. n \in 1 .. n
    BY <1>1
  <2> QED BY <1>2, <2>1, <2>2, <2>3 DEF InSpans, InFirst, Last, n
<1> QED BY <1>3, <1>4, <1>5, <1>6 DEF front

(* MergeRect adds the points of a span that does not begin before the      *)
(* last.                                                                   *)
LEMMA MergeRectAdds ==
  ASSUME NEW spans, SpansOK(spans), NEW r, IsSpan(r), spans # <<>> => Last(spans).x1 <= r.x1
  PROVE  /\ SpansOK(MergeRect(spans, r)) /\ MergeRect(spans, r) # <<>>
         /\ Last(MergeRect(spans, r)).x1 <= r.x1
         /\ \A x \in Int : InSpans(MergeRect(spans, r), x) <=> InSpans(spans, x) \/ InSpan(r, x)
<1>1. CASE spans # <<>> /\ Last(spans).x2 >= r.x1
  <2> DEFINE l == Last(spans)
             w == [l EXCEPT !.x2 = Greater(@, r.x2)]
  <2>1. IsSpan(l) /\ SpansOK(Front(spans)) /\ (Front(spans) # <<>> => Last(Front(spans)).x2 < l.x1)
    BY <1>1, FrontSpans
  <2>2. {l.x1, l.x2, r.x1, r.x2} \subseteq Int /\ l.x1 < l.x2 /\ r.x1 < r.x2 /\ l \in Span
    BY <2>1 DEF IsSpan, Span
  <2> HIDE DEF l
  <2>3. w \in Span /\ w.x1 = l.x1 /\ w.x2 = Greater(l.x2, r.x2) /\ w.x2 >= l.x2
    BY <2>2, NumbersCompared DEF Span
  <2> HIDE DEF w
  <2>4. IsSpan(w)
    BY <2>2, <2>3 DEF IsSpan, Span
  <2>5. ASSUME NEW x \in Int PROVE InSpan(w, x) <=> InSpan(l, x) \/ InSpan(r, x)
    BY <1>1, <2>2, <2>3 DEF InSpan, Greater, l
  <2>6. MergeRect(spans, r) = Append(Front(spans), w)
    BY <1>1 DEF MergeRect, l, w
  <2>7. /\ SpansOK(Append(Front(spans), w)) /\ Append(Front(spans), w) # <<>>
        /\ Last(Append(Front(spans), w)) = w
        /\ \A x \in Int : InSpans(Append(Front(spans), w), x) <=> InSpans(Front(spans), x) \/ InSpan(w, x)
    BY <2>1, <2>3, <2>4, AppendSpan
  <2>8. \A x \in Int : InSpans(spans, x) <=> InSpans(Front(spans), x) \/ InSpan(l, x)
    BY <1>1, FrontSpans DEF l
  <2> QED BY <1>1, <2>3, <2>5, <2>6, <2>7, <2>8 DEF l
<1>2. CASE ~(spans # <<>> /\ Last(spans).x2 >= r.x1)
  <2>1. spans # <<>> => Last(spans).x2 < r.x1
    <3>1. spans # <<>> => IsSpan(Last(spans))
      BY FrontSpans
    <3> QED BY <1>2, <3>1 DEF IsSpan, Span
  <2>2. MergeRect(spans, r) = Append(spans, r)
    BY <1>2 DEF MergeRect
  <2>3. r.x1 <= r.x1
    BY DEF IsSpan, Span
  <2> QED BY <2>1, <2>2, <2>3, AppendSpan
<1> QED BY <1>1, <1>2

(* The first spans of some, and one more.                                  *)
LEMMA OneMore ==
  ASSUME NEW spans, NEW n \in Nat, NEW x
  PROVE  InFirst(spans, n + 1, x) <=> InFirst(spans, n, x) \/ InSpan(spans[n + 1], x)
<1>1. \A k \in 1 .. n + 1 : k \in 1 .. n \/ k = n + 1
  OBVIOUS
<1>2. (\A k \in 1 .. n : k \in 1 .. n + 1) /\ n + 1 \in 1 .. n + 1
  OBVIOUS
<1> QED BY <1>1, <1>2 DEF InFirst

(* The spans are on the right of one another.                              *)
LEMMA SpanAt ==
  ASSUME NEW spans, SpansOK(spans)
  PROVE  /\ Len(spans) \in Nat
         /\ \A i \in 1 .. Len(spans) : IsSpan(spans[i]) /\ spans[i].x1 \in Int /\ spans[i].x2 \in Int
         /\ \A i, j \in 1 .. Len(spans) : i < j => spans[i].x2 < spans[j].x1
<1>1. Len(spans) \in Nat /\ \A i \in 1 .. Len(spans) : spans[i] \in Span
  BY DEF SpansOK
<1> QED BY <1>1 DEF SpansOK, IsSpan, Span

(* What is left of two lists when one has gone on.                         *)
LEMMA StillLeft ==
  ASSUME NEW m \in Int, NEW n \in Int, NEW i \in Int, NEW j \in Int, NEW p \in Int, NEW q \in Int,
         i <= m, j <= n + 1, i + j < p + q
  PROVE  0 < m + 1 - i + (n + 1 - j) /\ m + 1 - p + (n + 1 - q) < m + 1 - i + (n + 1 - j)
OBVIOUS

(* miUnionO.                                                               *)
UnionGood(r1, r2, t) ==
  /\ SpansOK(t.out)
  /\ t.out # <<>> /\ FirstLeft(r1, t) => Last(t.out).x1 <= r1[t.i].x1
  /\ t.out # <<>> /\ SecondLeft(r2, t) => Last(t.out).x1 <= r2[t.j].x1
  /\ \A x \in Int : InSpans(t.out, x) <=> InFirst(r1, t.i - 1, x) \/ InFirst(r2, t.j - 1, x)
LoopState(r1, r2) == [out : Seq(Span), i : 1 .. Len(r1) + 1, j : 1 .. Len(r2) + 1]

(* A rectangle goes in, and the others of its list are further right.      *)
LEMMA UnionTakes ==
  ASSUME NEW r1, NEW r2, SpansOK(r1), SpansOK(r2), NEW t \in LoopState(r1, r2), UnionGood(r1, r2, t),
         FirstLeft(r1, t), SecondLeft(r2, t) => r1[t.i].x1 <= r2[t.j].x1
  PROVE  LET u == [out |-> MergeRect(t.out, r1[t.i]), i |-> t.i + 1, j |-> t.j]
         IN u \in LoopState(r1, r2) /\ UnionGood(r1, r2, u)
<1> DEFINE u == [out |-> MergeRect(t.out, r1[t.i]), i |-> t.i + 1, j |-> t.j]
           r == r1[t.i]
<1>1. /\ Len(r1) \in Nat /\ Len(r2) \in Nat /\ t.i \in 1 .. Len(r1) /\ t.j \in 1 .. Len(r2) + 1
      /\ IsSpan(r) /\ r.x1 \in Int /\ r.x2 \in Int /\ r.x1 < r.x2
  BY SpanAt DEF LoopState, FirstLeft, SpansOK
<1>2. SpansOK(t.out) /\ (t.out # <<>> => Last(t.out).x1 <= r.x1)
  BY DEF UnionGood
<1>3. /\ u.out = MergeRect(t.out, r) /\ u.i = t.i + 1 /\ u.j = t.j
      /\ u = [out |-> MergeRect(t.out, r), i |-> t.i + 1, j |-> t.j]
  OBVIOUS
<1> HIDE DEF u, r
<1>4. /\ SpansOK(u.out) /\ u.out # <<>> /\ Last(u.out).x1 <= r.x1
      /\ \A x \in Int : InSpans(u.out, x) <=> InSpans(t.out, x) \/ InSpan(r, x)
  BY <1>1, <1>2, <1>3, MergeRectAdds
<1>5. Last(u.out).x1 \in Int
  <2>1. IsSpan(Last(u.out))
    BY <1>4, FrontSpans
  <2> QED BY <2>1 DEF IsSpan, Span
<1>6. u \in LoopState(r1, r2)
  BY <1>1, <1>3, <1>4 DEF LoopState, SpansOK
<1>7. ASSUME FirstLeft(r1, u) PROVE Last(u.out).x1 <= r1[u.i].x1
  <2>1. t.i + 1 \in 1 .. Len(r1) /\ t.i < t.i + 1
    BY <1>1, <1>3, <1>7 DEF FirstLeft
  <2>2. r.x2 < r1[u.i].x1 /\ r1[u.i].x1 \in Int
    BY <1>1, <1>3, <2>1, SpanAt DEF r
  <2> QED BY <1>1, <1>4, <1>5, <2>2
<1>8. ASSUME SecondLeft(r2, u) PROVE Last(u.out).x1 <= r2[u.j].x1
  <2>1. SecondLeft(r2, t) /\ t.j \in 1 .. Len(r2)
    BY <1>1, <1>3, <1>8 DEF SecondLeft
  <2>2. r.x1 <= r2[t.j].x1 /\ r2[t.j].x1 \in Int
    BY <2>1, SpanAt DEF r
  <2> QED BY <1>1, <1>3, <1>4, <1>5, <2>2
<1>9. ASSUME NEW x \in Int
      PROVE InSpans(u.out, x) <=> InFirst(r1, u.i - 1, x) \/ InFirst(r2, u.j - 1, x)
  <2>1. t.i - 1 \in Nat /\ t.i - 1 + 1 = t.i /\ u.i - 1 = t.i
    BY <1>1, <1>3
  <2>2. InFirst(r1, t.i, x) <=> InFirst(r1, t.i - 1, x) \/ InSpan(r, x)
    BY <2>1, OneMore DEF r
  <2>3. InSpans(t.out, x) <=> InFirst(r1, t.i - 1, x) \/ InFirst(r2, t.j - 1, x)
    BY DEF UnionGood
  <2> QED BY <1>3, <1>4, <2>1, <2>2, <2>3
<1>10. UnionGood(r1, r2, u)
  BY <1>4, <1>7, <1>8, <1>9 DEF UnionGood
<1> QED BY <1>6, <1>10 DEF u

(* The same for the other list.                                            *)
LEMMA UnionTakesSecond ==
  ASSUME NEW r1, NEW r2, SpansOK(r1), SpansOK(r2), NEW t \in LoopState(r1, r2), UnionGood(r1, r2, t),
         SecondLeft(r2, t), FirstLeft(r1, t) => r2[t.j].x1 <= r1[t.i].x1
  PROVE  LET u == [out |-> MergeRect(t.out, r2[t.j]), i |-> t.i, j |-> t.j + 1]
         IN u \in LoopState(r1, r2) /\ UnionGood(r1, r2, u)
<1> DEFINE s == [out |-> t.out, i |-> t.j, j |-> t.i]
           v == [out |-> MergeRect(s.out, r2[s.i]), i |-> s.i + 1, j |-> s.j]
           u == [out |-> MergeRect(t.out, r2[t.j]), i |-> t.i, j |-> t.j + 1]
<1>1. s \in LoopState(r2, r1) /\ s.i = t.j /\ s.j = t.i /\ s.out = t.out
  BY DEF LoopState
<1>2. v \in LoopState(r2, r1) /\ UnionGood(r2, r1, v)
  <2>1. UnionGood(r2, r1, s)
    BY DEF UnionGood, FirstLeft, SecondLeft
  <2>2. FirstLeft(r2, s) /\ (SecondLeft(r1, s) => r2[s.i].x1 <= r1[s.j].x1)
    BY DEF FirstLeft, SecondLeft
  <2> HIDE DEF s
  <2> QED BY <1>1, <2>1, <2>2, UnionTakes
<1>3. u.out = v.out /\ u.i = v.j /\ u.j = v.i /\ u = [out |-> v.out, i |-> v.j, j |-> v.i]
  OBVIOUS
<1> HIDE DEF u, v, s
<1>4. u \in LoopState(r1, r2)
  BY <1>2, <1>3 DEF LoopState
<1>5. UnionGood(r1, r2, u)
  BY <1>2, <1>3 DEF UnionGood, FirstLeft, SecondLeft
<1> QED BY <1>4, <1>5 DEF u

(* The union of two bands has the cells of both.                           *)
LEMMA UnionOIsUnion ==
  ASSUME NEW r1, NEW r2, SpansOK(r1), SpansOK(r2)
  PROVE  /\ SpansOK(UnionO(r1, r2))
         /\ \A x \in Int : InSpans(UnionO(r1, r2), x) <=> InSpans(r1, x) \/ InSpans(r2, x)
<1> DEFINE N == Len(r1) + Len(r2)
           Test(t) == FirstLeft(r1, t) \/ SecondLeft(r2, t)
           I == {t \in LoopState(r1, r2) : UnionGood(r1, r2, t)}
           G == {t \in I : Test(t)}
           F == [t \in I |-> IF Test(t) THEN UnionStep(r1, r2, t) ELSE t]
           M == [t \in I |-> Len(r1) + 1 - t.i + (Len(r2) + 1 - t.j)]
<1>1. Len(r1) \in Nat /\ Len(r2) \in Nat /\ N \in Nat
  BY SpanAt
<1>2. Start \in I
  <2>1. Start \in LoopState(r1, r2)
    BY <1>1 DEF Start, LoopState
  <2>2. UnionGood(r1, r2, Start)
    BY EmptySpans DEF Start, UnionGood, InFirst
  <2> QED BY <2>1, <2>2
<1>3. ASSUME NEW t \in I, Test(t)
      PROVE  /\ UnionStep(r1, r2, t) \in I
             /\ 0 < M[t] /\ M[UnionStep(r1, r2, t)] < M[t]
  <2>1. /\ t \in LoopState(r1, r2) /\ UnionGood(r1, r2, t)
        /\ t.i \in 1 .. Len(r1) + 1 /\ t.j \in 1 .. Len(r2) + 1
    BY DEF LoopState
  <2>2. CASE ~SecondLeft(r2, t) \/ (FirstLeft(r1, t) /\ r1[t.i].x1 < r2[t.j].x1)
    <3> DEFINE u == [out |-> MergeRect(t.out, r1[t.i]), i |-> t.i + 1, j |-> t.j]
    <3>1. FirstLeft(r1, t) /\ (SecondLeft(r2, t) => r1[t.i].x1 <= r2[t.j].x1)
      <4>1. FirstLeft(r1, t)
        BY <1>3, <2>2
      <4>2. ASSUME SecondLeft(r2, t) PROVE r1[t.i].x1 <= r2[t.j].x1
        <5>1. t.i \in 1 .. Len(r1) /\ t.j \in 1 .. Len(r2)
          BY <2>1, <4>1, <4>2, <1>1 DEF FirstLeft, SecondLeft
        <5>2. r1[t.i].x1 \in Int /\ r2[t.j].x1 \in Int
          BY <5>1, SpanAt
        <5> QED BY <2>2, <4>1, <4>2, <5>2
      <4> QED BY <4>1, <4>2
    <3>2. u \in LoopState(r1, r2) /\ UnionGood(r1, r2, u)
      BY <2>1, <3>1, UnionTakes
    <3>3. UnionStep(r1, r2, t) = u
      BY <2>2 DEF UnionStep
    <3>4. u.i = t.i + 1 /\ u.j = t.j
      OBVIOUS
    <3> HIDE DEF u
    <3>5. u \in I /\ M[u] = Len(r1) + 1 - u.i + (Len(r2) + 1 - u.j)
      BY <3>2
    <3>6. M[t] = Len(r1) + 1 - t.i + (Len(r2) + 1 - t.j) /\ t.i <= Len(r1)
      BY <3>1 DEF FirstLeft
    <3> HIDE DEF M, I
    <3> QED BY SMTT(30), <1>1, <2>1, <3>3, <3>4, <3>5, <3>6
  <2>3. CASE ~(~SecondLeft(r2, t) \/ (FirstLeft(r1, t) /\ r1[t.i].x1 < r2[t.j].x1))
    <3> DEFINE u == [out |-> MergeRect(t.out, r2[t.j]), i |-> t.i, j |-> t.j + 1]
    <3>1. SecondLeft(r2, t) /\ (FirstLeft(r1, t) => r2[t.j].x1 <= r1[t.i].x1)
      <4>1. SecondLeft(r2, t)
        BY <2>3
      <4>2. ASSUME FirstLeft(r1, t) PROVE r2[t.j].x1 <= r1[t.i].x1
        <5>1. t.i \in 1 .. Len(r1) /\ t.j \in 1 .. Len(r2)
          BY <2>1, <4>1, <4>2, <1>1 DEF FirstLeft, SecondLeft
        <5>2. r1[t.i].x1 \in Int /\ r2[t.j].x1 \in Int
          BY <5>1, SpanAt
        <5> QED BY <2>3, <4>1, <4>2, <5>2
      <4> QED BY <4>1, <4>2
    <3>2. u \in LoopState(r1, r2) /\ UnionGood(r1, r2, u)
      BY <2>1, <3>1, UnionTakesSecond
    <3>3. UnionStep(r1, r2, t) = u
      BY <2>3 DEF UnionStep
    <3>4. u.i = t.i /\ u.j = t.j + 1
      OBVIOUS
    <3> HIDE DEF u
    <3>5. u \in I /\ M[u] = Len(r1) + 1 - u.i + (Len(r2) + 1 - u.j)
      BY <3>2
    <3>6. M[t] = Len(r1) + 1 - t.i + (Len(r2) + 1 - t.j) /\ t.j <= Len(r2)
      BY <3>1 DEF SecondLeft
    <3> HIDE DEF M, I
    <3> QED BY SMTT(30), <1>1, <2>1, <3>3, <3>4, <3>5, <3>6
  <2> QED BY <2>2, <2>3
<1>4. M[Start] <= N /\ M \in [I -> Int]
  <2>1. \A t \in I : M[t] \in Int
    BY <1>1 DEF LoopState
  <2> QED BY <1>1, <1>2, <2>1 DEF Start
<1>5. F \in [I -> I] /\ Ends(I, G, F, M)
  <2> HIDE DEF M, Test
  <2>1. \A t \in I : F[t] \in I
    BY <1>3
  <2>2. \A t \in I \cap G : 0 < M[t] /\ M[F[t]] < M[t]
    BY <1>3
  <2>3. \A t \in I \ G : F[t] = t
    OBVIOUS
  <2> QED BY <2>1, <2>2, <2>3 DEF Ends
<1> DEFINE Run(f) == f = [n \in 0 .. N |-> IF n = 0 THEN Start
                                           ELSE IF Test(f[n - 1]) THEN UnionStep(r1, r2, f[n - 1]) ELSE f[n - 1]]
<1>6. UnionO(r1, r2) = (CHOOSE f : Run(f))[N].out
  BY DEF UnionO, While
<1> HIDE DEF Test, M
<1>7. \E g : Run(g)
  <2>1. PICK g \in [0 .. N -> I] : IsRun(g, N, Start, F)
    <3> HIDE DEF N, F, I
    <3> QED BY <1>1, <1>2, <1>5, RunExists
  <2>2. ASSUME NEW n \in 0 .. N, n # 0 PROVE n - 1 \in 0 .. N /\ g[n - 1] \in I
    BY <1>1, <2>1, <2>2
  <2> HIDE DEF N, I
  <2> QED BY <2>1, <2>2 DEF IsRun
<1>8. PICK f : f = (CHOOSE h : Run(h)) /\ Run(f)
  <2> HIDE DEF Run
  <2> QED BY <1>7
<1>9. f[N] \in I /\ f[N] \notin G
  <2>1. 0 \in 0 .. N /\ \A n \in 1 .. N : n \in 0 .. N /\ n # 0
    BY <1>1
  <2>2. f[0] = Start /\ Follows(f, N, I, F)
    <3> HIDE DEF N, I, F
    <3>1. \A n \in 0 .. N : f[n] = IF n = 0 THEN Start
                                    ELSE IF Test(f[n - 1]) THEN UnionStep(r1, r2, f[n - 1]) ELSE f[n - 1]
      BY <1>8
    <3>2. \A t \in I : F[t] = IF Test(t) THEN UnionStep(r1, r2, t) ELSE t
      BY DEF F
    <3> QED BY <2>1, <3>1, <3>2 DEF Follows
  <2> HIDE DEF N, I, F, G, Run
  <2> QED BY <1>1, <1>2, <1>4, <1>5, <2>2, RunEnds
<1>10. PICK t : t = f[N]
  OBVIOUS
<1>11. /\ t.i = Len(r1) + 1 /\ t.j = Len(r2) + 1 /\ UnionGood(r1, r2, t)
       /\ t.i - 1 = Len(r1) /\ t.j - 1 = Len(r2)
  <2>1. t \in LoopState(r1, r2) /\ UnionGood(r1, r2, t) /\ ~FirstLeft(r1, t) /\ ~SecondLeft(r2, t)
    BY <1>9, <1>10 DEF Test
  <2> QED BY <1>1, <2>1 DEF LoopState, FirstLeft, SecondLeft
<1> QED BY <1>6, <1>8, <1>10, <1>11 DEF UnionGood, InSpans

(* miIntersectO: what is there so far are the cells in both of which at    *)
(* least one rectangle is done with.                                       *)
IntersectGood(r1, r2, t) ==
  /\ SpansOK(t.out)
  /\ t.out # <<>> /\ FirstLeft(r1, t) /\ SecondLeft(r2, t) =>
       Last(t.out).x2 < r1[t.i].x1 \/ Last(t.out).x2 < r2[t.j].x1
  /\ \A x \in Int :
       InSpans(t.out, x) <=> /\ InSpans(r1, x) /\ InSpans(r2, x)
                             /\ (InFirst(r1, t.i - 1, x) \/ InFirst(r2, t.j - 1, x))

(* A cell that is in a rectangle of one list and not beyond one of the     *)
(* other is in that one, in an earlier one, or in none.                    *)
LEMMA NotFurther ==
  ASSUME NEW spans, SpansOK(spans), NEW j \in 1 .. Len(spans), NEW x \in Int, x < spans[j].x2,
         InSpans(spans, x)
  PROVE  InSpan(spans[j], x) \/ InFirst(spans, j - 1, x)
<1>1. PICK l \in 1 .. Len(spans) : InSpan(spans[l], x)
  BY DEF InSpans, InFirst
<1>2. Len(spans) \in Nat /\ spans[l].x1 \in Int /\ spans[j].x2 \in Int
  BY SpanAt
<1>3. ~(j < l)
  <2>1. ASSUME j < l PROVE FALSE
    <3>1. spans[j].x2 < spans[l].x1
      BY <2>1, SpanAt
    <3> QED BY <1>1, <1>2, <3>1 DEF InSpan
  <2> QED BY <2>1
<1>4. l = j \/ l \in 1 .. j - 1
  BY <1>2, <1>3
<1> QED BY <1>1, <1>4 DEF InFirst

(* A point of the first spans is one of the spans.                         *)
LEMMA FirstAreSpans ==
  ASSUME NEW spans, SpansOK(spans), NEW n \in 0 .. Len(spans), NEW x, InFirst(spans, n, x)
  PROVE  InSpans(spans, x)
<1>1. Len(spans) \in Nat
  BY SpanAt
<1>2. \A k \in 1 .. n : k \in 1 .. Len(spans)
  BY <1>1
<1> QED BY <1>2 DEF InFirst, InSpans

(* A round of miIntersectO: it adds what the two spans have in common.     *)
LEMMA IntersectStepGood ==
  ASSUME NEW r1, NEW r2, SpansOK(r1), SpansOK(r2), NEW t \in LoopState(r1, r2),
         IntersectGood(r1, r2, t), FirstLeft(r1, t), SecondLeft(r2, t)
  PROVE  LET u == IntersectStep(r1, r2, t)
         IN /\ u \in LoopState(r1, r2) /\ IntersectGood(r1, r2, u)
            /\ u.i \in {t.i, t.i + 1} /\ u.j \in {t.j, t.j + 1} /\ (u.i # t.i \/ u.j # t.j)
<1> DEFINE a == r1[t.i]
           b == r2[t.j]
           both == [x1 |-> Greater(a.x1, b.x1), x2 |-> Lesser(a.x2, b.x2)]
           u == IntersectStep(r1, r2, t)
<1>1. /\ Len(r1) \in Nat /\ Len(r2) \in Nat /\ t.i \in 1 .. Len(r1) /\ t.j \in 1 .. Len(r2)
      /\ a.x1 \in Int /\ a.x2 \in Int /\ a.x1 < a.x2 /\ b.x1 \in Int /\ b.x2 \in Int /\ b.x1 < b.x2
  BY SpanAt DEF LoopState, FirstLeft, SecondLeft, IsSpan
<1>2. /\ SpansOK(t.out)
      /\ t.out # <<>> => Last(t.out).x2 < a.x1 \/ Last(t.out).x2 < b.x1
      /\ t.out # <<>> => Last(t.out).x2 \in Int
  <2>1. t.out # <<>> => IsSpan(Last(t.out))
    BY FrontSpans DEF IntersectGood
  <2> QED BY <2>1 DEF IntersectGood, IsSpan, Span
<1>3. /\ u.out = IF both.x1 < both.x2 THEN Append(t.out, both) ELSE t.out
      /\ u.i = IF a.x2 <= b.x2 THEN t.i + 1 ELSE t.i
      /\ u.j = IF b.x2 <= a.x2 THEN t.j + 1 ELSE t.j
      /\ \A S1, S2, S3 : u.out \in S1 /\ u.i \in S2 /\ u.j \in S3 => u \in [out : S1, i : S2, j : S3]
  BY DEF IntersectStep
<1>4. /\ both.x1 \in Int /\ both.x2 \in Int /\ both \in Span /\ both.x1 >= a.x1 /\ both.x1 >= b.x1
      /\ both.x2 <= a.x2 /\ both.x2 <= b.x2
      /\ \A x \in Int : InSpan(both, x) <=> InSpan(a, x) /\ InSpan(b, x)
  <2> HIDE DEF a, b, u
  <2>1. both.x1 = Greater(a.x1, b.x1) /\ both.x2 = Lesser(a.x2, b.x2)
    OBVIOUS
  <2>2. both.x1 \in Int /\ both.x2 \in Int /\ both \in Span
    BY <1>1, NumbersCompared DEF Span
  <2> HIDE DEF both
  <2>3. both.x1 >= a.x1 /\ both.x1 >= b.x1 /\ both.x2 <= a.x2 /\ both.x2 <= b.x2
    BY <1>1, <2>1 DEF Greater, Lesser
  <2>4. ASSUME NEW x \in Int PROVE InSpan(both, x) <=> InSpan(a, x) /\ InSpan(b, x)
    BY <1>1, <2>1 DEF InSpan, Greater, Lesser
  <2> QED BY <2>2, <2>3, <2>4
<1> HIDE DEF a, b, both, u
<1>5. /\ SpansOK(u.out)
      /\ \A x \in Int : InSpans(u.out, x) <=> InSpans(t.out, x) \/ (InSpan(a, x) /\ InSpan(b, x))
      /\ u.out # <<>> => Last(u.out).x2 <= both.x2 \/ Last(u.out).x2 < a.x1 \/ Last(u.out).x2 < b.x1
      /\ u.out # <<>> => Last(u.out).x2 \in Int
  <2>1. CASE both.x1 < both.x2
    <3>1. IsSpan(both) /\ (t.out # <<>> => Last(t.out).x2 < both.x1)
      BY <1>1, <1>2, <1>4, <2>1 DEF IsSpan
    <3>2. /\ SpansOK(Append(t.out, both)) /\ Last(Append(t.out, both)) = both
          /\ \A x \in Int : InSpans(Append(t.out, both), x) <=> InSpans(t.out, x) \/ InSpan(both, x)
      BY <1>2, <3>1, AppendSpan
    <3>3. u.out = Append(t.out, both)
      BY <1>3, <2>1
    <3> QED BY <1>4, <3>2, <3>3
  <2>2. CASE ~(both.x1 < both.x2)
    <3>1. u.out = t.out /\ \A x \in Int : ~InSpan(both, x)
      BY <1>3, <1>4, <2>2 DEF InSpan
    <3> QED BY <1>2, <1>4, <3>1
  <2> QED BY <2>1, <2>2
<1>6. u \in LoopState(r1, r2)
  <2>1. u.i \in 1 .. Len(r1) + 1 /\ u.j \in 1 .. Len(r2) + 1
    BY <1>1, <1>3
  <2>2. u.out \in Seq(Span)
    BY <1>5 DEF SpansOK
  <2> QED BY <1>3, <2>1, <2>2 DEF LoopState
<1>7. ASSUME u.out # <<>>, FirstLeft(r1, u), SecondLeft(r2, u)
      PROVE  Last(u.out).x2 < r1[u.i].x1 \/ Last(u.out).x2 < r2[u.j].x1
  <2>3. PICK l : l = Last(u.out).x2
    OBVIOUS
  <2>4. l \in Int /\ ((l <= a.x2 /\ l <= b.x2) \/ l < a.x1 \/ l < b.x1)
    <3>1. l \in Int /\ (l <= both.x2 \/ l < a.x1 \/ l < b.x1)
      BY <1>5, <1>7, <2>3
    <3> QED BY <1>1, <1>4, <3>1
  <2>1. CASE a.x2 <= b.x2
    <3>1. u.i = t.i + 1 /\ u.i \in 1 .. Len(r1) /\ t.i < u.i
      BY <1>1, <1>3, <1>7, <2>1 DEF FirstLeft
    <3>2. a.x2 < r1[u.i].x1 /\ r1[u.i].x1 \in Int
      BY <1>1, <3>1, SpanAt DEF a
    <3>3. b.x1 <= r2[u.j].x1 /\ r2[u.j].x1 \in Int
      <4>1. u.j = t.j \/ (t.j < u.j /\ u.j \in 1 .. Len(r2))
        BY <1>1, <1>3, <1>7 DEF SecondLeft
      <4>2. ASSUME t.j < u.j, u.j \in 1 .. Len(r2) PROVE b.x2 < r2[u.j].x1 /\ r2[u.j].x1 \in Int
        BY <1>1, <4>2, SpanAt DEF b
      <4> QED BY <1>1, <4>1, <4>2 DEF b
    <3> QED BY <1>1, <2>3, <2>4, <3>2, <3>3
  <2>2. CASE ~(a.x2 <= b.x2)
    <3>1. u.j = t.j + 1 /\ u.j \in 1 .. Len(r2) /\ t.j < u.j /\ u.i = t.i
      BY <1>1, <1>3, <1>7, <2>2 DEF SecondLeft
    <3>2. b.x2 < r2[u.j].x1 /\ r2[u.j].x1 \in Int
      BY <1>1, <3>1, SpanAt DEF b
    <3>3. r1[u.i].x1 = a.x1
      BY <3>1 DEF a
    <3> QED BY <1>1, <2>3, <2>4, <3>2, <3>3
  <2> QED BY <2>1, <2>2
<1>8. ASSUME NEW x \in Int
      PROVE  InSpans(u.out, x) <=> /\ InSpans(r1, x) /\ InSpans(r2, x)
                                   /\ (InFirst(r1, u.i - 1, x) \/ InFirst(r2, u.j - 1, x))
  <2> DEFINE A == InFirst(r1, t.i - 1, x)
             B == InFirst(r2, t.j - 1, x)
  <2>1. /\ t.i - 1 \in Nat /\ t.i - 1 + 1 = t.i /\ t.i \in 0 .. Len(r1)
        /\ t.j - 1 \in Nat /\ t.j - 1 + 1 = t.j /\ t.j \in 0 .. Len(r2)
    BY <1>1
  <2>2. (InFirst(r1, t.i, x) <=> A \/ InSpan(a, x)) /\ (InFirst(r2, t.j, x) <=> B \/ InSpan(b, x))
    BY <2>1, OneMore DEF a, b
  <2>3. InSpan(a, x) => InSpans(r1, x)
    BY <2>1, <2>2, FirstAreSpans
  <2>4. InSpan(b, x) => InSpans(r2, x)
    BY <2>1, <2>2, FirstAreSpans
  <2>5. InSpans(r1, x) /\ InSpan(b, x) /\ b.x2 <= a.x2 => InSpan(a, x) \/ A
    <3>1. ASSUME InSpan(b, x), b.x2 <= a.x2 PROVE x < a.x2
      BY <1>1, <3>1 DEF InSpan
    <3> QED BY <1>1, <3>1, NotFurther DEF a
  <2>6. InSpans(r2, x) /\ InSpan(a, x) /\ a.x2 <= b.x2 => InSpan(b, x) \/ B
    <3>1. ASSUME InSpan(a, x), a.x2 <= b.x2 PROVE x < b.x2
      BY <1>1, <3>1 DEF InSpan
    <3> QED BY <1>1, <3>1, NotFurther DEF b
  <2>7. InSpans(t.out, x) <=> InSpans(r1, x) /\ InSpans(r2, x) /\ (A \/ B)
    BY DEF IntersectGood
  <2>8. InSpans(u.out, x) <=> InSpans(t.out, x) \/ (InSpan(a, x) /\ InSpan(b, x))
    BY <1>5
  <2>9. InFirst(r1, u.i - 1, x) <=> A \/ (a.x2 <= b.x2 /\ InSpan(a, x))
    <3>1. CASE a.x2 <= b.x2
      <4>1. u.i - 1 = t.i
        BY <1>1, <1>3, <3>1
      <4> QED BY <2>2, <3>1, <4>1
    <3>2. CASE ~(a.x2 <= b.x2)
      BY <1>3, <3>2
    <3> QED BY <3>1, <3>2
  <2>10. InFirst(r2, u.j - 1, x) <=> B \/ (b.x2 <= a.x2 /\ InSpan(b, x))
    <3>1. CASE b.x2 <= a.x2
      <4>1. u.j - 1 = t.j
        BY <1>1, <1>3, <3>1
      <4> QED BY <2>2, <3>1, <4>1
    <3>2. CASE ~(b.x2 <= a.x2)
      BY <1>3, <3>2
    <3> QED BY <3>1, <3>2
  <2>11. a.x2 <= b.x2 \/ b.x2 <= a.x2
    BY <1>1
  <2> HIDE DEF A, B
  <2> QED BY <2>3, <2>4, <2>5, <2>6, <2>7, <2>8, <2>9, <2>10, <2>11
<1>9. IntersectGood(r1, r2, u)
  BY <1>5, <1>7, <1>8 DEF IntersectGood
<1> QED BY <1>1, <1>3, <1>6, <1>9 DEF u

(* The intersection of two bands has the cells that both have.             *)
LEMMA IntersectOIsIntersection ==
  ASSUME NEW r1, NEW r2, SpansOK(r1), SpansOK(r2)
  PROVE  /\ SpansOK(IntersectO(r1, r2))
         /\ \A x \in Int : InSpans(IntersectO(r1, r2), x) <=> InSpans(r1, x) /\ InSpans(r2, x)
<1> DEFINE N == Len(r1) + Len(r2)
           Test(t) == FirstLeft(r1, t) /\ SecondLeft(r2, t)
           I == {t \in LoopState(r1, r2) : IntersectGood(r1, r2, t)}
           G == {t \in I : Test(t)}
           F == [t \in I |-> IF Test(t) THEN IntersectStep(r1, r2, t) ELSE t]
           M == [t \in I |-> Len(r1) + 1 - t.i + (Len(r2) + 1 - t.j)]
<1>1. Len(r1) \in Nat /\ Len(r2) \in Nat /\ N \in Nat
  BY SpanAt
<1>2. Start \in I
  <2>1. Start \in LoopState(r1, r2)
    BY <1>1 DEF Start, LoopState
  <2>2. IntersectGood(r1, r2, Start)
    BY EmptySpans DEF Start, IntersectGood, InFirst
  <2> QED BY <2>1, <2>2
<1>3. ASSUME NEW t \in I, Test(t)
      PROVE  /\ IntersectStep(r1, r2, t) \in I
             /\ 0 < M[t] /\ M[IntersectStep(r1, r2, t)] < M[t]
  <2>1. /\ t \in LoopState(r1, r2) /\ IntersectGood(r1, r2, t) /\ t.i \in Int /\ t.j \in Int
        /\ t.i <= Len(r1) /\ t.j <= Len(r2)
    BY <1>3 DEF LoopState, FirstLeft, SecondLeft
  <2>2. PICK u : u = IntersectStep(r1, r2, t)
    OBVIOUS
  <2>3. /\ u \in LoopState(r1, r2) /\ IntersectGood(r1, r2, u)
        /\ u.i \in {t.i, t.i + 1} /\ u.j \in {t.j, t.j + 1} /\ (u.i # t.i \/ u.j # t.j)
    BY <1>3, <2>1, <2>2, IntersectStepGood
  <2>4. u \in I /\ M[u] = Len(r1) + 1 - u.i + (Len(r2) + 1 - u.j)
    BY <2>3
  <2>5. M[t] = Len(r1) + 1 - t.i + (Len(r2) + 1 - t.j)
    OBVIOUS
  <2>6. /\ 0 < Len(r1) + 1 - t.i + (Len(r2) + 1 - t.j)
        /\ Len(r1) + 1 - u.i + (Len(r2) + 1 - u.j) < Len(r1) + 1 - t.i + (Len(r2) + 1 - t.j)
    <3>1. u.i \in Int /\ u.j \in Int /\ t.i + t.j < u.i + u.j
      BY <2>1, <2>3
    <3>2. Len(r1) \in Int /\ Len(r2) \in Int /\ t.j <= Len(r2) + 1
      BY <1>1, <2>1
    <3> HIDE DEF N, Test, I, G, F, M
    <3> QED BY <2>1, <3>1, <3>2, StillLeft
  <2> HIDE DEF M, I
  <2> QED BY <2>2, <2>4, <2>5, <2>6
<1>4. M[Start] <= N /\ M \in [I -> Int]
  <2>1. \A t \in I : M[t] \in Int
    BY <1>1 DEF LoopState
  <2> QED BY <1>1, <1>2, <2>1 DEF Start
<1>5. F \in [I -> I] /\ Ends(I, G, F, M)
  <2> HIDE DEF M, Test
  <2>1. \A t \in I : F[t] \in I
    BY <1>3
  <2>2. \A t \in I \cap G : 0 < M[t] /\ M[F[t]] < M[t]
    BY <1>3
  <2>3. \A t \in I \ G : F[t] = t
    OBVIOUS
  <2> QED BY <2>1, <2>2, <2>3 DEF Ends
<1> DEFINE Run(f) == f = [n \in 0 .. N |->
                            IF n = 0 THEN Start
                            ELSE IF Test(f[n - 1]) THEN IntersectStep(r1, r2, f[n - 1]) ELSE f[n - 1]]
<1>6. IntersectO(r1, r2) = (CHOOSE f : Run(f))[N].out
  BY DEF IntersectO, While
<1> HIDE DEF Test, M
<1>7. \E g : Run(g)
  <2>1. PICK g \in [0 .. N -> I] : IsRun(g, N, Start, F)
    <3> HIDE DEF N, F, I
    <3> QED BY <1>1, <1>2, <1>5, RunExists
  <2>2. ASSUME NEW n \in 0 .. N, n # 0 PROVE n - 1 \in 0 .. N /\ g[n - 1] \in I
    BY <1>1, <2>1, <2>2
  <2> HIDE DEF N, I
  <2> QED BY <2>1, <2>2 DEF IsRun
<1>8. PICK f : f = (CHOOSE h : Run(h)) /\ Run(f)
  <2> HIDE DEF Run
  <2> QED BY <1>7
<1>9. f[N] \in I /\ f[N] \notin G
  <2>1. 0 \in 0 .. N /\ \A n \in 1 .. N : n \in 0 .. N /\ n # 0
    BY <1>1
  <2>2. f[0] = Start /\ Follows(f, N, I, F)
    <3> HIDE DEF N, I, F
    <3>1. \A n \in 0 .. N : f[n] = IF n = 0 THEN Start
                                    ELSE IF Test(f[n - 1]) THEN IntersectStep(r1, r2, f[n - 1]) ELSE f[n - 1]
      BY <1>8
    <3>2. \A t \in I : F[t] = IF Test(t) THEN IntersectStep(r1, r2, t) ELSE t
      BY DEF F
    <3> QED BY <2>1, <3>1, <3>2 DEF Follows
  <2> HIDE DEF N, I, F, G, Run
  <2> QED BY <1>1, <1>2, <1>4, <1>5, <2>2, RunEnds
<1>10. PICK t : t = f[N]
  OBVIOUS
<1>11. t \in LoopState(r1, r2) /\ IntersectGood(r1, r2, t) /\ ~(FirstLeft(r1, t) /\ SecondLeft(r2, t))
  BY <1>9, <1>10 DEF Test
<1>12. t.i - 1 = Len(r1) \/ t.j - 1 = Len(r2)
  BY <1>1, <1>11 DEF LoopState, FirstLeft, SecondLeft
<1> QED BY <1>6, <1>8, <1>10, <1>11, <1>12 DEF IntersectGood, InSpans

(* miSubtractO: what is there so far are the cells up to x1 of the minuend *)
(* and before it; no subtrahend that is done with reaches beyond x1.       *)
SubtractState(r1, r2) == [out : Seq(Span), i : 1 .. Len(r1) + 1, j : 1 .. Len(r2) + 1, x1 : Int]
SubtractGood(r1, r2, t) ==
  /\ SpansOK(t.out)
  /\ FirstLeft(r1, t) => /\ r1[t.i].x1 <= t.x1 /\ t.x1 < r1[t.i].x2
                         /\ t.out # <<>> => Last(t.out).x2 < t.x1
                         /\ \A l \in 1 .. t.j - 1 : r2[l].x2 <= t.x1
  /\ \A x \in Int :
       InSpans(t.out, x) <=> /\ ~InSpans(r2, x)
                             /\ \/ InFirst(r1, t.i - 1, x)
                                \/ FirstLeft(r1, t) /\ InSpan(r1[t.i], x) /\ x < t.x1

(* The minuend is used up.                                                 *)
LEMMA NextMinuendGood ==
  ASSUME NEW r1, NEW r2, SpansOK(r1), SpansOK(r2), NEW t \in SubtractState(r1, r2),
         SubtractGood(r1, r2, t), FirstLeft(r1, t), NEW out, SpansOK(out),
         out # <<>> => Last(out).x2 <= r1[t.i].x2,
         \A x \in Int : InSpans(out, x) <=> ~InSpans(r2, x) /\ InFirst(r1, t.i, x)
  PROVE  LET u == [out |-> out, i |-> t.i + 1, j |-> t.j,
                   x1 |-> IF t.i < Len(r1) THEN r1[t.i + 1].x1 ELSE t.x1]
         IN u \in SubtractState(r1, r2) /\ SubtractGood(r1, r2, u)
<1> DEFINE u == [out |-> out, i |-> t.i + 1, j |-> t.j,
                 x1 |-> IF t.i < Len(r1) THEN r1[t.i + 1].x1 ELSE t.x1]
           a == r1[t.i]
           c == r1[t.i + 1]
<1>1. /\ Len(r1) \in Nat /\ Len(r2) \in Nat /\ t.i \in 1 .. Len(r1) /\ t.j \in 1 .. Len(r2) + 1
      /\ a.x2 \in Int /\ t.x1 \in Int
  BY SpanAt DEF SubtractState, FirstLeft
<1>2. ASSUME t.i < Len(r1) PROVE c.x1 \in Int /\ c.x2 \in Int /\ c.x1 < c.x2 /\ a.x2 < c.x1
  <2>1. t.i + 1 \in 1 .. Len(r1) /\ t.i < t.i + 1
    BY <1>1, <1>2
  <2> QED BY <1>1, <2>1, SpanAt DEF IsSpan
<1>3. /\ u.out = out /\ u.i = t.i + 1 /\ u.j = t.j /\ (t.i < Len(r1) => u.x1 = c.x1)
      /\ ~(t.i < Len(r1)) => u.x1 = t.x1
      /\ \A S1, S2, S3, S4 : u.out \in S1 /\ u.i \in S2 /\ u.j \in S3 /\ u.x1 \in S4 =>
           u \in [out : S1, i : S2, j : S3, x1 : S4]
  OBVIOUS
<1>4. r1[u.i] = c
  BY <1>3
<1> HIDE DEF u, a, c
<1>5. u \in SubtractState(r1, r2)
  <2>1. u.i \in 1 .. Len(r1) + 1 /\ u.j \in 1 .. Len(r2) + 1 /\ u.x1 \in Int
    BY <1>1, <1>2, <1>3
  <2>2. u.out \in Seq(Span)
    BY <1>3 DEF SpansOK
  <2> QED BY <1>3, <2>1, <2>2 DEF SubtractState
<1>6. ASSUME FirstLeft(r1, u)
      PROVE  /\ c.x1 <= u.x1 /\ u.x1 < c.x2
             /\ u.out # <<>> => Last(u.out).x2 < u.x1
             /\ \A l \in 1 .. u.j - 1 : r2[l].x2 <= u.x1
  <2>1. t.i < Len(r1)
    BY <1>1, <1>3, <1>6 DEF FirstLeft
  <2>2. u.x1 = c.x1 /\ c.x1 \in Int /\ c.x2 \in Int /\ c.x1 < c.x2 /\ a.x2 < c.x1
    BY <1>2, <1>3, <2>1
  <2>3. u.out # <<>> => Last(u.out).x2 < u.x1
    <3>1. u.out # <<>> => Last(u.out).x2 <= a.x2 /\ Last(u.out).x2 \in Int
      <4>1. u.out # <<>> => IsSpan(Last(u.out))
        BY <1>3, FrontSpans
      <4> QED BY <1>3, <4>1 DEF IsSpan, Span, a
    <3> QED BY <1>1, <2>2, <3>1
  <2>4. ASSUME NEW l \in 1 .. u.j - 1 PROVE r2[l].x2 <= u.x1
    <3>1. l \in 1 .. t.j - 1 /\ l \in 1 .. Len(r2)
      BY <1>1, <1>3
    <3>2. r2[l].x2 <= t.x1 /\ t.x1 < a.x2 /\ r2[l].x2 \in Int
      BY <3>1, SpanAt DEF SubtractGood, a
    <3> QED BY <1>1, <2>2, <3>2
  <2> QED BY <2>2, <2>3, <2>4
<1>7. ASSUME NEW x \in Int
      PROVE  InSpans(u.out, x) <=> /\ ~InSpans(r2, x)
                                   /\ \/ InFirst(r1, u.i - 1, x)
                                      \/ FirstLeft(r1, u) /\ InSpan(c, x) /\ x < u.x1
  <2>1. u.i - 1 = t.i
    BY <1>1, <1>3
  <2>2. ~(FirstLeft(r1, u) /\ InSpan(c, x) /\ x < u.x1)
    <3>1. ASSUME FirstLeft(r1, u) PROVE t.i < Len(r1)
      BY <1>1, <1>3, <3>1 DEF FirstLeft
    <3> QED BY <1>2, <1>3, <3>1 DEF InSpan
  <2> QED BY <1>3, <2>1, <2>2
<1>8. SubtractGood(r1, r2, u)
  BY <1>3, <1>4, <1>6, <1>7 DEF SubtractGood
<1> QED BY <1>5, <1>8 DEF u, c

(* The subtrahend is used up, and the minuend up to left.                  *)
LEMMA NextSubtrahendGood ==
  ASSUME NEW r1, NEW r2, SpansOK(r1), SpansOK(r2), NEW t \in SubtractState(r1, r2),
         SubtractGood(r1, r2, t), FirstLeft(r1, t), SecondLeft(r2, t), NEW out, SpansOK(out),
         NEW left \in Int, t.x1 <= left, left < r1[t.i].x2, r2[t.j].x2 <= left,
         out # <<>> => Last(out).x2 < left,
         \A x \in Int : InSpans(out, x) <=>
                         /\ ~InSpans(r2, x)
                         /\ (InFirst(r1, t.i - 1, x) \/ (InSpan(r1[t.i], x) /\ x < left))
  PROVE  LET u == [out |-> out, i |-> t.i, j |-> t.j + 1, x1 |-> left]
         IN u \in SubtractState(r1, r2) /\ SubtractGood(r1, r2, u)
<1> DEFINE u == [out |-> out, i |-> t.i, j |-> t.j + 1, x1 |-> left]
           a == r1[t.i]
<1>1. /\ Len(r1) \in Nat /\ Len(r2) \in Nat /\ t.i \in 1 .. Len(r1) /\ t.j \in 1 .. Len(r2)
      /\ a.x1 \in Int /\ a.x2 \in Int /\ t.x1 \in Int
  BY SpanAt DEF SubtractState, FirstLeft, SecondLeft
<1>2. /\ u.out = out /\ u.i = t.i /\ u.j = t.j + 1 /\ u.x1 = left
      /\ \A S1, S2, S3, S4 : u.out \in S1 /\ u.i \in S2 /\ u.j \in S3 /\ u.x1 \in S4 =>
           u \in [out : S1, i : S2, j : S3, x1 : S4]
  OBVIOUS
<1> HIDE DEF u
<1>3. u \in SubtractState(r1, r2)
  <2>1. u.i \in 1 .. Len(r1) + 1 /\ u.j \in 1 .. Len(r2) + 1 /\ u.x1 \in Int
    BY <1>1, <1>2
  <2>2. u.out \in Seq(Span)
    BY <1>2 DEF SpansOK
  <2> QED BY <1>2, <2>1, <2>2 DEF SubtractState
<1>4. FirstLeft(r1, u)
  BY <1>2 DEF FirstLeft
<1>5. a.x1 <= u.x1 /\ u.x1 < a.x2
  <2>1. a.x1 <= t.x1
    BY DEF SubtractGood
  <2> HIDE DEF a
  <2> QED BY <1>1, <1>2, <2>1 DEF a
<1>6. ASSUME NEW l \in 1 .. u.j - 1 PROVE r2[l].x2 <= u.x1
  <2>1. l = t.j \/ l \in 1 .. t.j - 1
    BY <1>1, <1>2
  <2>2. ASSUME l \in 1 .. t.j - 1 PROVE r2[l].x2 <= t.x1 /\ r2[l].x2 \in Int
    <3>1. l \in 1 .. Len(r2)
      BY <1>1, <2>2
    <3> QED BY <2>2, <3>1, SpanAt DEF SubtractGood
  <2> QED BY <1>1, <1>2, <2>1, <2>2
<1>7. SubtractGood(r1, r2, u)
  BY <1>2, <1>4, <1>5, <1>6 DEF SubtractGood
<1> QED BY <1>3, <1>7 DEF u

(* Nothing of a list lies between what is before it and what is to come.   *)
LEMMA BetweenSpans ==
  ASSUME NEW spans, SpansOK(spans), NEW j \in 1 .. Len(spans) + 1, NEW lo \in Int,
         \A l \in 1 .. j - 1 : spans[l].x2 <= lo, NEW x \in Int, lo <= x,
         j <= Len(spans) => x < spans[j].x1
  PROVE  ~InSpans(spans, x)
<1>1. Len(spans) \in Nat
  BY SpanAt
<1>2. ASSUME NEW l \in 1 .. Len(spans) PROVE ~InSpan(spans[l], x)
  <2>1. spans[l].x1 \in Int /\ spans[l].x2 \in Int
    BY SpanAt
  <2>2. CASE l \in 1 .. j - 1
    BY <2>1, <2>2 DEF InSpan
  <2>3. CASE l = j
    BY <1>1, <2>1, <2>3 DEF InSpan
  <2>4. CASE j < l
    <3>1. j \in 1 .. Len(spans) /\ j <= Len(spans)
      BY <1>1, <2>4
    <3>2. /\ spans[j].x1 \in Int /\ spans[j].x2 \in Int /\ spans[j].x1 < spans[j].x2
          /\ spans[j].x2 < spans[l].x1
      BY <2>4, <3>1, SpanAt DEF IsSpan
    <3>3. x < spans[j].x1
      BY <3>1
    <3> QED BY <2>1, <3>2, <3>3 DEF InSpan
  <2>5. l \in 1 .. j - 1 \/ l = j \/ j < l
    BY <1>1
  <2> QED BY <2>2, <2>3, <2>4, <2>5
<1> QED BY <1>2 DEF InSpans, InFirst

(* What is in out is right up to hi.                                       *)
SubtractedTo(r1, r2, i, out, hi) ==
  /\ SpansOK(out)
  /\ out # <<>> => Last(out).x2 <= hi
  /\ \A x \in Int : InSpans(out, x) <=>
                      /\ ~InSpans(r2, x)
                      /\ (InFirst(r1, i - 1, x) \/ (InSpan(r1[i], x) /\ x < hi))

(* miSubtractO adds what is left of a span before the next subtrahend.     *)
LEMMA PieceLeft ==
  ASSUME NEW r1, NEW r2, SpansOK(r1), SpansOK(r2), NEW t \in SubtractState(r1, r2),
         SubtractGood(r1, r2, t), FirstLeft(r1, t), NEW hi \in Int, t.x1 < hi, hi <= r1[t.i].x2,
         SecondLeft(r2, t) => hi <= r2[t.j].x1
  PROVE  SubtractedTo(r1, r2, t.i, Append(t.out, [x1 |-> t.x1, x2 |-> hi]), hi)
<1> DEFINE a == r1[t.i]
           r == [x1 |-> t.x1, x2 |-> hi]
           out == Append(t.out, r)
<1>1. /\ Len(r1) \in Nat /\ Len(r2) \in Nat /\ t.i \in 1 .. Len(r1) /\ t.j \in 1 .. Len(r2) + 1
      /\ a.x1 \in Int /\ a.x2 \in Int /\ t.x1 \in Int /\ a.x1 <= t.x1
      /\ SpansOK(t.out) /\ (t.out # <<>> => Last(t.out).x2 < t.x1)
  BY SpanAt DEF SubtractState, FirstLeft, SubtractGood
<1>2. IsSpan(r) /\ r.x1 = t.x1 /\ r.x2 = hi
  BY <1>1 DEF IsSpan, Span
<1> HIDE DEF r, a
<1>3. /\ SpansOK(out) /\ Last(out) = r
      /\ \A x \in Int : InSpans(out, x) <=> InSpans(t.out, x) \/ InSpan(r, x)
  BY <1>1, <1>2, AppendSpan
<1> HIDE DEF out
<1>4. ASSUME NEW x \in Int
      PROVE  InSpans(out, x) <=> /\ ~InSpans(r2, x)
                                 /\ (InFirst(r1, t.i - 1, x) \/ (InSpan(a, x) /\ x < hi))
  <2>1. InSpans(t.out, x) <=> /\ ~InSpans(r2, x)
                              /\ (InFirst(r1, t.i - 1, x) \/ (InSpan(a, x) /\ x < t.x1))
    BY DEF SubtractGood, a
  <2>2. InSpan(r, x) => ~InSpans(r2, x) /\ InSpan(a, x) /\ x < hi
    <3>1. ASSUME InSpan(r, x) PROVE ~InSpans(r2, x)
      <4>1. \A l \in 1 .. t.j - 1 : r2[l].x2 <= t.x1
        BY DEF SubtractGood
      <4>2. t.x1 <= x /\ x < hi
        BY <1>2, <3>1 DEF InSpan
      <4>3. t.j <= Len(r2) => x < r2[t.j].x1
        <5>1. ASSUME t.j <= Len(r2) PROVE x < r2[t.j].x1
          <6>1. t.j \in 1 .. Len(r2)
            BY <1>1, <5>1
          <6>2. r2[t.j].x1 \in Int /\ hi <= r2[t.j].x1
            BY <5>1, <6>1, SpanAt DEF SecondLeft
          <6> QED BY <4>2, <6>2
        <5> QED BY <5>1
      <4> QED BY <1>1, <4>1, <4>2, <4>3, BetweenSpans
    <3>2. InSpan(r, x) => InSpan(a, x) /\ x < hi
      BY <1>1, <1>2 DEF InSpan, a
    <3> QED BY <3>1, <3>2
  <2>3. InSpan(a, x) /\ x < hi => x < t.x1 \/ InSpan(r, x)
    BY <1>1, <1>2 DEF InSpan
  <2>4. x < t.x1 => x < hi
    BY <1>1
  <2> QED BY <1>3, <2>1, <2>2, <2>3, <2>4
<1>5. Last(out).x2 <= hi
  BY <1>2, <1>3
<1> QED BY <1>3, <1>4, <1>5 DEF SubtractedTo, a, out, r

(* The end of a subtrahend, from hi on: it uses up the minuend, or is used *)
(* up itself.                                                              *)
LEMMA AfterGood ==
  ASSUME NEW r1, NEW r2, SpansOK(r1), SpansOK(r2), NEW t \in SubtractState(r1, r2),
         SubtractGood(r1, r2, t), FirstLeft(r1, t), SecondLeft(r2, t), NEW hi \in Int,
         t.x1 <= hi, hi < r1[t.i].x2, r2[t.j].x1 <= hi, hi < r2[t.j].x2,
         NEW out, SubtractedTo(r1, r2, t.i, out, hi)
  PROVE  LET u == IF r2[t.j].x2 >= r1[t.i].x2
                  THEN [out |-> out, i |-> t.i + 1, j |-> t.j,
                        x1 |-> IF t.i < Len(r1) THEN r1[t.i + 1].x1 ELSE t.x1]
                  ELSE [out |-> out, i |-> t.i, j |-> t.j + 1, x1 |-> r2[t.j].x2]
         IN u \in SubtractState(r1, r2) /\ SubtractGood(r1, r2, u)
<1> DEFINE a == r1[t.i]
           b == r2[t.j]
<1>1. /\ Len(r1) \in Nat /\ Len(r2) \in Nat /\ t.i \in 1 .. Len(r1) /\ t.j \in 1 .. Len(r2)
      /\ a.x1 \in Int /\ a.x2 \in Int /\ t.x1 \in Int /\ b.x1 \in Int /\ b.x2 \in Int
      /\ a.x1 <= t.x1
  BY SpanAt DEF SubtractState, FirstLeft, SecondLeft, SubtractGood
<1>2. /\ SpansOK(out)
      /\ out # <<>> => Last(out).x2 <= hi /\ Last(out).x2 \in Int
      /\ \A x \in Int : InSpans(out, x) <=>
                          /\ ~InSpans(r2, x)
                          /\ (InFirst(r1, t.i - 1, x) \/ (InSpan(a, x) /\ x < hi))
  <2>1. out # <<>> => IsSpan(Last(out))
    BY FrontSpans DEF SubtractedTo
  <2> QED BY <2>1 DEF SubtractedTo, IsSpan, Span
<1>3. \A x \in Int : hi <= x /\ x < b.x2 => InSpans(r2, x)
  <2>1. \A x \in Int : InSpan(b, x) => InSpans(r2, x)
    BY <1>1 DEF InSpans, InFirst
  <2> QED BY <1>1, <2>1 DEF InSpan
<1>4. \A x \in Int : InFirst(r1, t.i, x) <=> InFirst(r1, t.i - 1, x) \/ InSpan(a, x)
  <2>1. t.i - 1 \in Nat /\ t.i - 1 + 1 = t.i
    BY <1>1
  <2> QED BY <2>1, OneMore
<1>5. CASE b.x2 >= a.x2
  <2>1. out # <<>> => Last(out).x2 <= a.x2
    BY <1>1, <1>2
  <2>2. ASSUME NEW x \in Int PROVE InSpans(out, x) <=> ~InSpans(r2, x) /\ InFirst(r1, t.i, x)
    <3>1. InSpan(a, x) /\ ~(x < hi) => InSpans(r2, x)
      BY <1>1, <1>3, <1>5 DEF InSpan
    <3> QED BY <1>2, <1>4, <3>1
  <2> QED BY <1>2, <1>5, <2>1, <2>2, NextMinuendGood
<1>6. CASE ~(b.x2 >= a.x2)
  <2> DEFINE left == b.x2
  <2>1. left \in Int /\ t.x1 <= left /\ left < r1[t.i].x2 /\ r2[t.j].x2 <= left
    BY <1>1, <1>6
  <2>2. out # <<>> => Last(out).x2 < left
    BY <1>1, <1>2
  <2>3. ASSUME NEW x \in Int
        PROVE  InSpans(out, x) <=> /\ ~InSpans(r2, x)
                                   /\ (InFirst(r1, t.i - 1, x) \/ (InSpan(r1[t.i], x) /\ x < left))
    <3>1. x < left /\ ~(x < hi) => InSpans(r2, x)
      BY <1>1, <1>3
    <3>2. x < hi => x < left
      BY <1>1
    <3> HIDE DEF left
    <3> QED BY <1>2, <3>1, <3>2
  <2> HIDE DEF left
  <2>4. LET u == [out |-> out, i |-> t.i, j |-> t.j + 1, x1 |-> left]
        IN u \in SubtractState(r1, r2) /\ SubtractGood(r1, r2, u)
    BY <1>2, <2>1, <2>2, <2>3, NextSubtrahendGood
  <2> QED BY <1>6, <2>4 DEF left
<1> QED BY <1>5, <1>6

(* The rest of a minuend that no subtrahend reaches.                       *)
LEMMA RestGood ==
  ASSUME NEW r1, NEW r2, SpansOK(r1), SpansOK(r2), NEW t \in SubtractState(r1, r2),
         SubtractGood(r1, r2, t), FirstLeft(r1, t), SecondLeft(r2, t) => r1[t.i].x2 <= r2[t.j].x1
  PROVE  LET u == [out |-> Append(t.out, [x1 |-> t.x1, x2 |-> r1[t.i].x2]), i |-> t.i + 1, j |-> t.j,
                   x1 |-> IF t.i < Len(r1) THEN r1[t.i + 1].x1 ELSE t.x1]
         IN u \in SubtractState(r1, r2) /\ SubtractGood(r1, r2, u)
<1> DEFINE a == r1[t.i]
           out == Append(t.out, [x1 |-> t.x1, x2 |-> a.x2])
<1>1. /\ Len(r1) \in Nat /\ t.i \in 1 .. Len(r1) /\ a.x1 \in Int /\ a.x2 \in Int
      /\ t.x1 \in Int /\ a.x1 <= t.x1 /\ t.x1 < a.x2 /\ a.x2 <= a.x2
  BY SpanAt DEF SubtractState, FirstLeft, SubtractGood
<1>2. SubtractedTo(r1, r2, t.i, out, a.x2)
  BY <1>1, PieceLeft
<1> HIDE DEF out
<1>3. SpansOK(out) /\ (out # <<>> => Last(out).x2 <= a.x2)
  BY <1>2 DEF SubtractedTo
<1>4. ASSUME NEW x \in Int PROVE InSpans(out, x) <=> ~InSpans(r2, x) /\ InFirst(r1, t.i, x)
  <2>1. t.i - 1 \in Nat /\ t.i - 1 + 1 = t.i
    BY <1>1
  <2>2. InFirst(r1, t.i, x) <=> InFirst(r1, t.i - 1, x) \/ InSpan(a, x)
    BY <2>1, OneMore
  <2>3. InSpan(a, x) => x < a.x2
    BY DEF InSpan
  <2> QED BY <1>2, <2>2, <2>3 DEF SubtractedTo
<1>5. LET u == [out |-> out, i |-> t.i + 1, j |-> t.j,
                x1 |-> IF t.i < Len(r1) THEN r1[t.i + 1].x1 ELSE t.x1]
      IN u \in SubtractState(r1, r2) /\ SubtractGood(r1, r2, u)
  BY <1>3, <1>4, NextMinuendGood
<1> QED BY <1>5 DEF out

(* A round of miSubtractO.                                                 *)
LEMMA SubtractStepGood ==
  ASSUME NEW r1, NEW r2, SpansOK(r1), SpansOK(r2), NEW t \in SubtractState(r1, r2),
         SubtractGood(r1, r2, t), FirstLeft(r1, t)
  PROVE  /\ SubtractStep(r1, r2, t) \in SubtractState(r1, r2)
         /\ SubtractGood(r1, r2, SubtractStep(r1, r2, t))
<1> DEFINE a == r1[t.i]
           b == r2[t.j]
           u == SubtractStep(r1, r2, t)
<1>1. /\ Len(r1) \in Nat /\ t.i \in 1 .. Len(r1) /\ a.x1 \in Int /\ a.x2 \in Int
      /\ t.x1 \in Int /\ a.x1 <= t.x1 /\ t.x1 < a.x2 /\ Len(r2) \in Nat
  BY SpanAt DEF SubtractState, FirstLeft, SubtractGood
<1>2. ASSUME SecondLeft(r2, t)
      PROVE  t.j \in 1 .. Len(r2) /\ b.x1 \in Int /\ b.x2 \in Int /\ b.x1 < b.x2
  <2>1. t.j \in 1 .. Len(r2)
    BY <1>1, <1>2 DEF SecondLeft, SubtractState
  <2> QED BY <2>1, SpanAt DEF IsSpan
<1>3. SubtractedTo(r1, r2, t.i, t.out, t.x1)
  <2>1. t.out # <<>> => Last(t.out).x2 <= t.x1
    <3>1. t.out # <<>> => IsSpan(Last(t.out)) /\ Last(t.out).x2 < t.x1
      BY FrontSpans DEF SubtractGood
    <3> QED BY <1>1, <3>1 DEF IsSpan, Span
  <2> QED BY <2>1 DEF SubtractGood, SubtractedTo
<1>4. CASE ~SecondLeft(r2, t)
  <2>1. u = [out |-> Append(t.out, [x1 |-> t.x1, x2 |-> r1[t.i].x2]), i |-> t.i + 1, j |-> t.j,
             x1 |-> IF t.i < Len(r1) THEN r1[t.i + 1].x1 ELSE t.x1]
    BY <1>4 DEF SubtractStep
  <2> QED BY <1>4, <2>1, RestGood
<1>5. CASE SecondLeft(r2, t) /\ b.x2 <= t.x1
  <2>1. u = [out |-> t.out, i |-> t.i, j |-> t.j + 1, x1 |-> t.x1]
    BY <1>5 DEF SubtractStep
  <2>2. t.x1 <= t.x1
    BY <1>1
  <2>3. SpansOK(t.out) /\ (t.out # <<>> => Last(t.out).x2 < t.x1)
    BY DEF SubtractGood
  <2>4. \A x \in Int : InSpans(t.out, x) <=>
                        /\ ~InSpans(r2, x)
                        /\ (InFirst(r1, t.i - 1, x) \/ (InSpan(r1[t.i], x) /\ x < t.x1))
    BY DEF SubtractGood
  <2> QED BY <1>1, <1>5, <2>1, <2>2, <2>3, <2>4, NextSubtrahendGood
<1>6. CASE SecondLeft(r2, t) /\ ~(b.x2 <= t.x1) /\ b.x1 <= t.x1
  <2>1. u = IF r2[t.j].x2 >= r1[t.i].x2
            THEN [out |-> t.out, i |-> t.i + 1, j |-> t.j,
                  x1 |-> IF t.i < Len(r1) THEN r1[t.i + 1].x1 ELSE t.x1]
            ELSE [out |-> t.out, i |-> t.i, j |-> t.j + 1, x1 |-> r2[t.j].x2]
    BY <1>6 DEF SubtractStep
  <2>2. t.x1 <= t.x1 /\ t.x1 < r2[t.j].x2
    BY <1>1, <1>2, <1>6
  <2> QED BY <1>1, <1>3, <1>6, <2>1, <2>2, AfterGood
<1>7. CASE SecondLeft(r2, t) /\ ~(b.x2 <= t.x1) /\ ~(b.x1 <= t.x1) /\ b.x1 < a.x2
  <2> DEFINE out == Append(t.out, [x1 |-> t.x1, x2 |-> b.x1])
  <2>1. u = IF r2[t.j].x2 >= r1[t.i].x2
            THEN [out |-> out, i |-> t.i + 1, j |-> t.j,
                  x1 |-> IF t.i < Len(r1) THEN r1[t.i + 1].x1 ELSE t.x1]
            ELSE [out |-> out, i |-> t.i, j |-> t.j + 1, x1 |-> r2[t.j].x2]
    BY <1>7 DEF SubtractStep
  <2>2. /\ b.x1 \in Int /\ t.x1 < b.x1 /\ b.x1 <= a.x2 /\ b.x1 <= b.x1 /\ b.x1 < b.x2
        /\ t.x1 <= b.x1
    BY <1>1, <1>2, <1>7
  <2>3. SubtractedTo(r1, r2, t.i, out, b.x1)
    BY <2>2, PieceLeft
  <2> HIDE DEF out
  <2> QED BY <1>1, <1>7, <2>1, <2>2, <2>3, AfterGood
<1>8. CASE SecondLeft(r2, t) /\ ~(b.x2 <= t.x1) /\ ~(b.x1 <= t.x1) /\ ~(b.x1 < a.x2)
  <2>1. u = [out |-> Append(t.out, [x1 |-> t.x1, x2 |-> r1[t.i].x2]), i |-> t.i + 1, j |-> t.j,
             x1 |-> IF t.i < Len(r1) THEN r1[t.i + 1].x1 ELSE t.x1]
    <3>1. a.x2 > t.x1
      BY <1>1
    <3> QED BY <1>8, <3>1 DEF SubtractStep
  <2>2. r1[t.i].x2 <= r2[t.j].x1
    BY <1>1, <1>2, <1>8
  <2> QED BY <2>1, <2>2, RestGood
<1> QED BY <1>4, <1>5, <1>6, <1>7, <1>8

(* A round goes one place further in one of the lists.                     *)
LEMMA SubtractAdvances ==
  ASSUME NEW r1, NEW r2, NEW t
  PROVE  LET u == SubtractStep(r1, r2, t)
         IN \/ u.i = t.i + 1 /\ u.j = t.j
            \/ SecondLeft(r2, t) /\ u.i = t.i /\ u.j = t.j + 1
BY DEF SubtractStep

(* The difference of two bands has the cells of the first that the second  *)
(* has not.                                                                *)
LEMMA SubtractOIsDifference ==
  ASSUME NEW r1, NEW r2, SpansOK(r1), SpansOK(r2), r1 # <<>>
  PROVE  /\ SpansOK(SubtractO(r1, r2))
         /\ \A x \in Int : InSpans(SubtractO(r1, r2), x) <=> InSpans(r1, x) /\ ~InSpans(r2, x)
<1> DEFINE N == Len(r1) + Len(r2)
           Begin == [out |-> <<>>, i |-> 1, j |-> 1, x1 |-> r1[1].x1]
           Test(t) == FirstLeft(r1, t)
           I == {t \in SubtractState(r1, r2) : SubtractGood(r1, r2, t)}
           G == {t \in I : Test(t)}
           F == [t \in I |-> IF Test(t) THEN SubtractStep(r1, r2, t) ELSE t]
           M == [t \in I |-> Len(r1) + 1 - t.i + (Len(r2) + 1 - t.j)]
<1>1. Len(r1) \in Nat /\ Len(r2) \in Nat /\ N \in Nat
  BY SpanAt
<1>2. Begin \in I
  <2>1. 1 \in 1 .. Len(r1)
    BY <1>1 DEF SpansOK
  <2>2. r1[1].x1 \in Int /\ r1[1].x2 \in Int /\ r1[1].x1 < r1[1].x2
    BY <2>1, SpanAt DEF IsSpan
  <2>3. Begin \in SubtractState(r1, r2)
    BY <1>1, <2>2 DEF SubtractState
  <2>4. SubtractGood(r1, r2, Begin)
    <3>1. \A x \in Int : ~(InSpan(r1[1], x) /\ x < r1[1].x1)
      BY <2>2 DEF InSpan
    <3> QED BY <2>2, <3>1, EmptySpans DEF SubtractGood, InFirst
  <2> QED BY <2>3, <2>4
<1>3. ASSUME NEW t \in I, Test(t)
      PROVE  /\ SubtractStep(r1, r2, t) \in I
             /\ 0 < M[t] /\ M[SubtractStep(r1, r2, t)] < M[t]
  <2>1. /\ t \in SubtractState(r1, r2) /\ SubtractGood(r1, r2, t) /\ t.i \in Int /\ t.j \in Int
        /\ t.i <= Len(r1) /\ t.j <= Len(r2) + 1 /\ FirstLeft(r1, t)
    BY <1>3 DEF SubtractState, FirstLeft
  <2>2. PICK u : u = SubtractStep(r1, r2, t)
    OBVIOUS
  <2>3. u \in SubtractState(r1, r2) /\ SubtractGood(r1, r2, u)
    BY <2>1, <2>2, SubtractStepGood
  <2>4. u \in I /\ M[u] = Len(r1) + 1 - u.i + (Len(r2) + 1 - u.j)
    BY <2>3
  <2>5. M[t] = Len(r1) + 1 - t.i + (Len(r2) + 1 - t.j)
    OBVIOUS
  <2>6. /\ 0 < Len(r1) + 1 - t.i + (Len(r2) + 1 - t.j)
        /\ Len(r1) + 1 - u.i + (Len(r2) + 1 - u.j) < Len(r1) + 1 - t.i + (Len(r2) + 1 - t.j)
    <3>1. \/ u.i = t.i + 1 /\ u.j = t.j
          \/ SecondLeft(r2, t) /\ u.i = t.i /\ u.j = t.j + 1
      BY <2>2, SubtractAdvances
    <3>2. u.i \in Int /\ u.j \in Int /\ t.i + t.j < u.i + u.j
      BY <2>1, <3>1
    <3>3. Len(r1) \in Int /\ Len(r2) \in Int
      BY <1>1
    <3> HIDE DEF N, Begin, Test, I, G, F, M
    <3> QED BY <2>1, <3>2, <3>3, StillLeft
  <2> HIDE DEF M, I
  <2> QED BY <2>2, <2>4, <2>5, <2>6
<1>4. M[Begin] <= N /\ M \in [I -> Int]
  <2>1. \A t \in I : M[t] \in Int
    BY <1>1 DEF SubtractState
  <2>2. Begin.i = 1 /\ Begin.j = 1
    OBVIOUS
  <2>3. M[Begin] = Len(r1) + 1 - Begin.i + (Len(r2) + 1 - Begin.j)
    <3> HIDE DEF Begin, I
    <3> QED BY <1>2
  <2>4. N = Len(r1) + Len(r2)
    OBVIOUS
  <2> HIDE DEF Begin, I, N
  <2>5. M[Begin] <= N
    <3> HIDE DEF M
    <3> QED BY <1>1, <2>2, <2>3, <2>4
  <2> QED BY <2>1, <2>5
<1> HIDE DEF Begin
<1>5. F \in [I -> I] /\ Ends(I, G, F, M)
  <2> HIDE DEF M, Test
  <2>1. \A t \in I : F[t] \in I
    BY <1>3
  <2>2. \A t \in I \cap G : 0 < M[t] /\ M[F[t]] < M[t]
    BY <1>3
  <2>3. \A t \in I \ G : F[t] = t
    OBVIOUS
  <2> QED BY <2>1, <2>2, <2>3 DEF Ends
<1> DEFINE Run(f) == f = [n \in 0 .. N |->
                            IF n = 0 THEN Begin
                            ELSE IF Test(f[n - 1]) THEN SubtractStep(r1, r2, f[n - 1]) ELSE f[n - 1]]
<1>6. SubtractO(r1, r2) = (CHOOSE f : Run(f))[N].out
  BY DEF SubtractO, While, Begin
<1> HIDE DEF Test, M
<1>7. \E g : Run(g)
  <2>1. PICK g \in [0 .. N -> I] : IsRun(g, N, Begin, F)
    <3> HIDE DEF N, F, I
    <3> QED BY <1>1, <1>2, <1>5, RunExists
  <2>2. ASSUME NEW n \in 0 .. N, n # 0 PROVE n - 1 \in 0 .. N /\ g[n - 1] \in I
    BY <1>1, <2>1, <2>2
  <2> HIDE DEF N, I
  <2> QED BY <2>1, <2>2 DEF IsRun
<1>8. PICK f : f = (CHOOSE h : Run(h)) /\ Run(f)
  <2> HIDE DEF Run
  <2> QED BY <1>7
<1>9. f[N] \in I /\ f[N] \notin G
  <2>1. 0 \in 0 .. N /\ \A n \in 1 .. N : n \in 0 .. N /\ n # 0
    BY <1>1
  <2>2. f[0] = Begin /\ Follows(f, N, I, F)
    <3> HIDE DEF N, I, F
    <3>1. \A n \in 0 .. N : f[n] = IF n = 0 THEN Begin
                                    ELSE IF Test(f[n - 1]) THEN SubtractStep(r1, r2, f[n - 1]) ELSE f[n - 1]
      BY <1>8
    <3>2. \A t \in I : F[t] = IF Test(t) THEN SubtractStep(r1, r2, t) ELSE t
      BY DEF F
    <3> QED BY <2>1, <3>1, <3>2 DEF Follows
  <2> HIDE DEF N, I, F, G, Run
  <2> QED BY <1>1, <1>2, <1>4, <1>5, <2>2, RunEnds
<1>10. PICK t : t = f[N]
  OBVIOUS
<1>11. t \in SubtractState(r1, r2) /\ SubtractGood(r1, r2, t) /\ ~FirstLeft(r1, t)
  BY <1>9, <1>10 DEF Test
<1>12. t.i - 1 = Len(r1)
  BY <1>1, <1>11 DEF SubtractState, FirstLeft
<1>13. SpansOK(t.out)
  BY <1>11 DEF SubtractGood
<1>14. \A x \in Int : InSpans(t.out, x) <=> InSpans(r1, x) /\ ~InSpans(r2, x)
  BY <1>11, <1>12 DEF SubtractGood, InSpans
<1> QED BY <1>6, <1>8, <1>10, <1>13, <1>14
-----------------------------------------------------------------------------
(***************************************************************************)
(* The bands of a region: from top to bottom, and as high as they can be.  *)
(***************************************************************************)
Band == [y1 : Int, y2 : Int, spans : Seq(Span)]
IsBand(b) == b \in Band /\ b.y1 < b.y2 /\ SpansOK(b.spans) /\ b.spans # <<>>
InRows(b, y) == b.y1 <= y /\ y < b.y2
InBand(b, x, y) == InRows(b, y) /\ InSpans(b.spans, x)
Above(a, b) == a.y2 <= b.y1 /\ (a.y2 = b.y1 => a.spans # b.spans)

InFirstBands(bands, n, x, y) == \E k \in 1 .. n : InBand(bands[k], x, y)
InBands(bands, x, y) == InFirstBands(bands, Len(bands), x, y)

BandsOK(bands) ==
  /\ bands \in Seq(Band)
  /\ \A i \in 1 .. Len(bands) : IsBand(bands[i])
  /\ \A i, j \in 1 .. Len(bands) : i < j => Above(bands[i], bands[j])

(* No bands have no points.                                                *)
LEMMA EmptyBands == BandsOK(<<>>) /\ \A x, y : ~InBands(<<>>, x, y)
BY DEF BandsOK, InBands, InFirstBands

(* The bands are below one another.                                        *)
LEMMA BandAt ==
  ASSUME NEW bands, BandsOK(bands)
  PROVE  /\ Len(bands) \in Nat
         /\ \A i \in 1 .. Len(bands) : /\ IsBand(bands[i]) /\ bands[i].y1 \in Int /\ bands[i].y2 \in Int
                                       /\ bands[i].y1 < bands[i].y2
                                       /\ SpansOK(bands[i].spans) /\ bands[i].spans # <<>>
         /\ \A i, j \in 1 .. Len(bands) : i < j => bands[i].y2 <= bands[j].y1
<1>1. Len(bands) \in Nat /\ \A i \in 1 .. Len(bands) : bands[i] \in Band
  BY DEF BandsOK
<1>2. ASSUME NEW b, IsBand(b)
      PROVE  b.y1 \in Int /\ b.y2 \in Int /\ b.y1 < b.y2 /\ SpansOK(b.spans) /\ b.spans # <<>>
  BY <1>2 DEF IsBand, Band
<1>3. ASSUME NEW i \in 1 .. Len(bands), NEW j \in 1 .. Len(bands), i < j
      PROVE  bands[i].y2 <= bands[j].y1
  BY <1>3 DEF BandsOK, Above
<1>4. \A i \in 1 .. Len(bands) : IsBand(bands[i])
  BY DEF BandsOK
<1> QED BY <1>1, <1>2, <1>3, <1>4

(* A band above a band is above those that this one is above.              *)
LEMMA AboveGoesOn ==
  ASSUME NEW a, NEW b, NEW c, IsBand(a), IsBand(b), IsBand(c), Above(a, b), Above(b, c)
  PROVE  Above(a, c)
<1>1. {a.y2, b.y1, b.y2, c.y1} \subseteq Int /\ b.y1 < b.y2
  BY DEF IsBand, Band
<1> QED BY <1>1 DEF Above

(* Bands above others go together with them.                               *)
LEMMA BandsTogether ==
  ASSUME NEW p, NEW q, BandsOK(p), BandsOK(q), p # <<>> /\ q # <<>> => Above(Last(p), q[1])
  PROVE  /\ BandsOK(p \o q)
         /\ \A x, y : InBands(p \o q, x, y) <=> InBands(p, x, y) \/ InBands(q, x, y)
<1> DEFINE m == Len(p)
           n == Len(q)
           new == p \o q
<1>1. /\ m \in Nat /\ n \in Nat /\ Len(new) = m + n /\ new \in Seq(Band)
      /\ \A i \in 1 .. m : new[i] = p[i]
      /\ \A i \in 1 .. n : new[m + i] = q[i]
  BY DEF BandsOK
<1>2. ASSUME NEW i \in 1 .. Len(new)
      PROVE  i \in 1 .. m \/ (i - m \in 1 .. n /\ i = m + (i - m))
  BY <1>1
<1>3. /\ \A i \in 1 .. m : IsBand(p[i])
      /\ \A i \in 1 .. n : IsBand(q[i])
      /\ \A i, j \in 1 .. m : i < j => Above(p[i], p[j])
      /\ \A i, j \in 1 .. n : i < j => Above(q[i], q[j])
  BY DEF BandsOK
<1>4. ASSUME NEW i \in 1 .. m, NEW j \in 1 .. n PROVE Above(p[i], q[j])
  <2>1. p # <<>> /\ q # <<>> /\ m \in 1 .. m /\ 1 \in 1 .. n
    BY <1>1
  <2>2. Above(p[m], q[1])
    BY <2>1 DEF Last
  <2>3. i = m \/ Above(p[i], p[m])
    BY <1>1, <1>3, <2>1
  <2>4. j = 1 \/ Above(q[1], q[j])
    BY <1>1, <1>3, <2>1
  <2> HIDE DEF m, n
  <2>5. Above(p[i], q[1])
    BY <1>3, <2>1, <2>2, <2>3, AboveGoesOn
  <2> QED BY <1>3, <2>1, <2>4, <2>5, AboveGoesOn
<1> HIDE DEF m, n, new
<1>5. ASSUME NEW i \in 1 .. Len(new) PROVE IsBand(new[i])
  BY <1>1, <1>2, <1>3
<1>6. ASSUME NEW i \in 1 .. Len(new), NEW j \in 1 .. Len(new), i < j PROVE Above(new[i], new[j])
  <2>1. CASE i \in 1 .. m /\ j \in 1 .. m
    BY <1>1, <1>3, <1>6, <2>1
  <2>2. CASE i \in 1 .. m /\ j - m \in 1 .. n /\ j = m + (j - m)
    <3>1. new[i] = p[i] /\ new[j] = q[j - m]
      BY <1>1, <2>2
    <3> QED BY <1>4, <2>2, <3>1
  <2>3. CASE i - m \in 1 .. n /\ j - m \in 1 .. n /\ j = m + (j - m) /\ i = m + (i - m)
    <3>1. new[i] = q[i - m] /\ new[j] = q[j - m] /\ i - m < j - m
      BY <1>1, <1>6, <2>3
    <3> QED BY <1>3, <2>3, <3>1
  <2>4. ~(i - m \in 1 .. n /\ j \in 1 .. m)
    BY <1>1, <1>6
  <2> QED BY <1>2, <2>1, <2>2, <2>3, <2>4
<1>7. ASSUME NEW x, NEW y PROVE InBands(new, x, y) <=> InBands(p, x, y) \/ InBands(q, x, y)
  <2>1. ASSUME NEW i \in 1 .. Len(new), InBand(new[i], x, y)
        PROVE  InBands(p, x, y) \/ InBands(q, x, y)
    BY <1>1, <1>2, <2>1 DEF InBands, InFirstBands, m, n
  <2>2. ASSUME NEW i \in 1 .. m, InBand(p[i], x, y) PROVE InBands(new, x, y)
    <3>1. i \in 1 .. Len(new) /\ new[i] = p[i]
      BY <1>1
    <3> QED BY <2>2, <3>1 DEF InBands, InFirstBands
  <2>3. ASSUME NEW i \in 1 .. n, InBand(q[i], x, y) PROVE InBands(new, x, y)
    <3>1. m + i \in 1 .. Len(new) /\ new[m + i] = q[i]
      BY <1>1
    <3> QED BY <2>3, <3>1 DEF InBands, InFirstBands
  <2> QED BY <2>1, <2>2, <2>3 DEF InBands, InFirstBands, m, n
<1> QED BY <1>1, <1>5, <1>6, <1>7 DEF BandsOK, new

(* A band is put below the others.                                         *)
LEMMA AppendBand ==
  ASSUME NEW bands, BandsOK(bands), NEW b, IsBand(b), bands # <<>> => Above(Last(bands), b)
  PROVE  /\ BandsOK(Append(bands, b)) /\ Append(bands, b) # <<>> /\ Last(Append(bands, b)) = b
         /\ \A x, y : InBands(Append(bands, b), x, y) <=> InBands(bands, x, y) \/ InBand(b, x, y)
<1>1. BandsOK(<<b>>)
  BY DEF BandsOK, IsBand
<1>2. \A x, y : InBands(<<b>>, x, y) <=> InBand(b, x, y)
  BY DEF InBands, InFirstBands
<1>3. bands \in Seq(Band) /\ b \in Band
  BY DEF BandsOK, IsBand
<1>4. Append(bands, b) = bands \o <<b>>
  BY <1>3
<1>5. Append(bands, b) # <<>> /\ Last(Append(bands, b)) = b
  <2> DEFINE new == Append(bands, b)
  <2>1. new \in Seq(Band) /\ Len(new) = Len(bands) + 1 /\ new[Len(new)] = b /\ Len(bands) \in Nat
    BY <1>3
  <2> HIDE DEF new
  <2>2. new # <<>> /\ Last(new) = b
    BY <2>1 DEF Last
  <2> QED BY <2>2 DEF new
<1>6. <<b>>[1] = b
  OBVIOUS
<1> QED BY <1>1, <1>2, <1>4, <1>5, <1>6, BandsTogether

(* All bands but the last, and the last.                                   *)
LEMMA FrontBands ==
  ASSUME NEW bands, BandsOK(bands), bands # <<>>
  PROVE  /\ BandsOK(Front(bands)) /\ IsBand(Last(bands))
         /\ Front(bands) # <<>> => Above(Last(Front(bands)), Last(bands))
         /\ \A x, y : InBands(bands, x, y) <=> InBands(Front(bands), x, y) \/ InBand(Last(bands), x, y)
<1> DEFINE n == Len(bands)
           front == Front(bands)
<1>1. n \in Nat \ {0} /\ \A i \in 1 .. n : bands[i] \in Band
  BY DEF BandsOK
<1>2. front \in Seq(Band) /\ Len(front) = n - 1 /\ \A i \in 1 .. n - 1 : front[i] = bands[i]
  <2>1. n - 1 \in Int /\ 1 \in Int /\ \A i \in 1 .. n - 1 : bands[i] \in Band
    BY <1>1
  <2>2. front = SubSeq(bands, 1, n - 1)
    BY DEF Front
  <2> HIDE DEF front, n
  <2>3. /\ front \in Seq(Band) /\ Len(front) = IF 1 <= n - 1 THEN n - 1 - 1 + 1 ELSE 0
        /\ \A i \in 1 .. n - 1 - 1 + 1 : front[i] = bands[1 + i - 1]
    BY <2>1, <2>2, SubSeqProperties
  <2> QED BY <1>1, <2>3
<1> HIDE DEF front, n
<1>3. BandsOK(front)
  <2>1. \A i \in 1 .. n - 1 : i \in 1 .. n
    BY <1>1
  <2> QED BY <1>2, <2>1 DEF BandsOK, n
<1>4. IsBand(Last(bands))
  BY <1>1 DEF Last, BandsOK, n
<1>5. ASSUME front # <<>> PROVE Above(Last(front), Last(bands))
  <2>1. n - 1 \in 1 .. n /\ n \in 1 .. n /\ n - 1 < n /\ Last(front) = bands[n - 1]
    BY <1>1, <1>2, <1>5 DEF Last
  <2> QED BY <2>1 DEF Last, BandsOK, n
<1>6. ASSUME NEW x, NEW y PROVE InBands(bands, x, y) <=> InBands(front, x, y) \/ InBand(Last(bands), x, y)
  <2>1. \A k \in 1 .. n : k \in 1 .. n - 1 \/ k = n
    BY <1>1
  <2>2. \A k \in 1 .. n - 1 : k \in 1 .. n
    BY <1>1
  <2>3. n \in 1 .. n
    BY <1>1
  <2> QED BY <1>2, <2>1, <2>2, <2>3 DEF InBands, InFirstBands, Last, n
<1> QED BY <1>3, <1>4, <1>5, <1>6 DEF front

(* miCoalesce keeps the bands as high as they can be.                      *)
LEMMA CoalesceAdds ==
  ASSUME NEW bands, BandsOK(bands), NEW b, IsBand(b), bands # <<>> => Last(bands).y2 <= b.y1
  PROVE  /\ BandsOK(Coalesce(bands, b)) /\ Coalesce(bands, b) # <<>>
         /\ Last(Coalesce(bands, b)).y2 = b.y2 /\ Last(Coalesce(bands, b)).spans = b.spans
         /\ \A x, y \in Int : InBands(Coalesce(bands, b), x, y) <=> InBands(bands, x, y) \/ InBand(b, x, y)
<1>1. CASE bands # <<>> /\ Last(bands).spans = b.spans /\ Last(bands).y2 = b.y1
  <2> DEFINE l == Last(bands)
             w == [l EXCEPT !.y2 = b.y2]
  <2>1. IsBand(l) /\ BandsOK(Front(bands)) /\ (Front(bands) # <<>> => Above(Last(Front(bands)), l))
    BY <1>1, FrontBands
  <2>2. {l.y1, l.y2, b.y1, b.y2} \subseteq Int /\ l.y1 < l.y2 /\ b.y1 < b.y2 /\ l \in Band
    BY <2>1 DEF IsBand, Band
  <2>3. l.spans = b.spans /\ l.y2 = b.y1
    BY <1>1
  <2> HIDE DEF l
  <2>4. w \in Band /\ w.y1 = l.y1 /\ w.y2 = b.y2 /\ w.spans = l.spans
    BY <2>2 DEF Band
  <2> HIDE DEF w
  <2>5. IsBand(w)
    BY <2>1, <2>2, <2>3, <2>4 DEF IsBand
  <2>6. ASSUME NEW x \in Int, NEW y \in Int PROVE InBand(w, x, y) <=> InBand(l, x, y) \/ InBand(b, x, y)
    BY <2>2, <2>3, <2>4 DEF InBand, InRows
  <2>7. Coalesce(bands, b) = Append(Front(bands), w)
    BY <1>1 DEF Coalesce, l, w
  <2>8. Front(bands) # <<>> => Above(Last(Front(bands)), w)
    BY <2>1, <2>4 DEF Above
  <2>9. /\ BandsOK(Append(Front(bands), w)) /\ Append(Front(bands), w) # <<>>
        /\ Last(Append(Front(bands), w)) = w
        /\ \A x, y : InBands(Append(Front(bands), w), x, y) <=> InBands(Front(bands), x, y) \/ InBand(w, x, y)
    BY <2>1, <2>5, <2>8, AppendBand
  <2>10. \A x, y : InBands(bands, x, y) <=> InBands(Front(bands), x, y) \/ InBand(l, x, y)
    BY <1>1, FrontBands DEF l
  <2> QED BY <2>3, <2>4, <2>6, <2>7, <2>9, <2>10
<1>2. CASE ~(bands # <<>> /\ Last(bands).spans = b.spans /\ Last(bands).y2 = b.y1)
  <2>1. bands # <<>> => Above(Last(bands), b)
    BY <1>2 DEF Above
  <2>2. Coalesce(bands, b) = Append(bands, b)
    BY <1>2 DEF Coalesce
  <2> QED BY <2>1, <2>2, AppendBand
<1> QED BY <1>1, <1>2

(* A band without rectangles is left out.                                  *)
LEMMA AddBandAdds ==
  ASSUME NEW bands, BandsOK(bands), NEW top \in Int, NEW bot \in Int, top < bot, NEW spans,
         SpansOK(spans), bands # <<>> => Last(bands).y2 <= top
  PROVE  /\ BandsOK(AddBand(bands, top, bot, spans))
         /\ AddBand(bands, top, bot, spans) # <<>> => Last(AddBand(bands, top, bot, spans)).y2 <= bot
         /\ spans # <<>> => /\ AddBand(bands, top, bot, spans) # <<>>
                            /\ Last(AddBand(bands, top, bot, spans)).y2 = bot
                            /\ Last(AddBand(bands, top, bot, spans)).spans = spans
         /\ \A x, y \in Int : InBands(AddBand(bands, top, bot, spans), x, y) <=>
              InBands(bands, x, y) \/ (top <= y /\ y < bot /\ InSpans(spans, x))
<1>1. CASE spans = <<>>
  <2>1. bands # <<>> => Last(bands).y2 <= bot
    <3>1. bands # <<>> => IsBand(Last(bands))
      BY FrontBands
    <3> QED BY <3>1 DEF IsBand, Band
  <2> QED BY <1>1, <2>1, EmptySpans DEF AddBand
<1>2. CASE spans # <<>>
  <2> DEFINE b == [y1 |-> top, y2 |-> bot, spans |-> spans]
  <2>1. IsBand(b) /\ b.y1 = top /\ b.y2 = bot /\ b.spans = spans
    BY <1>2 DEF IsBand, Band, SpansOK
  <2>2. AddBand(bands, top, bot, spans) = Coalesce(bands, b)
    BY <1>2 DEF AddBand
  <2> HIDE DEF b
  <2>3. /\ BandsOK(Coalesce(bands, b)) /\ Coalesce(bands, b) # <<>>
        /\ Last(Coalesce(bands, b)).y2 = b.y2 /\ Last(Coalesce(bands, b)).spans = b.spans
        /\ \A x, y \in Int : InBands(Coalesce(bands, b), x, y) <=> InBands(bands, x, y) \/ InBand(b, x, y)
    BY <2>1, CoalesceAdds
  <2>4. \A x, y \in Int : InBand(b, x, y) <=> top <= y /\ y < bot /\ InSpans(spans, x)
    BY <2>1 DEF InBand, InRows
  <2>5. bot <= bot
    OBVIOUS
  <2> QED BY <2>1, <2>2, <2>3, <2>4, <2>5
<1> QED BY <1>1, <1>2
-----------------------------------------------------------------------------
(***************************************************************************)
(* The sweep: what is above ybot is done.                                  *)
(***************************************************************************)
Ops == {"union", "intersect", "subtract"}

(* Whether a point is in the result, from whether it is in the operands.   *)
Wanted(op, r1, r2, x, y) ==
  \/ op # "subtract" /\ InBands(r1, x, y) /\ InBands(r2, x, y)
  \/ Keeps1(op) /\ InBands(r1, x, y) /\ ~InBands(r2, x, y)
  \/ Keeps2(op) /\ ~InBands(r1, x, y) /\ InBands(r2, x, y)

(* What the operation makes of two bands where they overlap.               *)
LEMMA OverlapIsWanted ==
  ASSUME NEW op \in Ops, NEW r1, NEW r2, SpansOK(r1), SpansOK(r2), r1 # <<>>
  PROVE  /\ SpansOK(Overlap(op, r1, r2))
         /\ \A x \in Int : InSpans(Overlap(op, r1, r2), x) <=>
              \/ op # "subtract" /\ InSpans(r1, x) /\ InSpans(r2, x)
              \/ Keeps1(op) /\ InSpans(r1, x) /\ ~InSpans(r2, x)
              \/ Keeps2(op) /\ ~InSpans(r1, x) /\ InSpans(r2, x)
<1>1. CASE op = "union"
  BY <1>1, UnionOIsUnion DEF Overlap, Keeps1, Keeps2
<1>2. CASE op = "intersect"
  BY <1>2, IntersectOIsIntersection DEF Overlap, Keeps1, Keeps2
<1>3. CASE op = "subtract"
  BY <1>3, SubtractOIsDifference DEF Overlap, Keeps1, Keeps2
<1> QED BY <1>1, <1>2, <1>3 DEF Ops

SweepState(r1, r2) == [out : Seq(Band), i : 1 .. Len(r1) + 1, j : 1 .. Len(r2) + 1, ybot : Int]

(* The bands before the i-th end above y, the i-th below it.               *)
AtRow(r, i, y) ==
  /\ \A k \in 1 .. i - 1 : r[k].y2 <= y
  /\ i <= Len(r) => y < r[i].y2

SweepGood(op, r1, r2, t) ==
  /\ BandsOK(t.out) /\ (t.out # <<>> => Last(t.out).y2 <= t.ybot)
  /\ AtRow(r1, t.i, t.ybot) /\ AtRow(r2, t.j, t.ybot)
  /\ FirstLeft(r1, t) /\ SecondLeft(r2, t) => t.ybot <= Greater(r1[t.i].y1, r2[t.j].y1)
  /\ \A x, y \in Int : InBands(t.out, x, y) <=> y < t.ybot /\ Wanted(op, r1, r2, x, y)

(* Between ybot and its end the i-th band is all that there is.            *)
LEMMA BandOfRow ==
  ASSUME NEW r, BandsOK(r), NEW i \in 1 .. Len(r), NEW ybot \in Int, AtRow(r, i, ybot),
         NEW x \in Int, NEW y \in Int, ybot <= y, y < r[i].y2
  PROVE  InBands(r, x, y) <=> r[i].y1 <= y /\ InSpans(r[i].spans, x)
<1>1. Len(r) \in Nat /\ i \in Int /\ r[i].y1 \in Int /\ r[i].y2 \in Int
  BY BandAt
<1>2. ASSUME NEW k \in 1 .. Len(r), InBand(r[k], x, y) PROVE k = i
  <2>1. k \in Int /\ r[k].y1 \in Int /\ r[k].y2 \in Int /\ r[k].y1 <= y /\ y < r[k].y2
    BY <1>2, BandAt DEF InBand, InRows
  <2>2. ASSUME k < i PROVE FALSE
    <3>1. k \in 1 .. i - 1
      BY <1>1, <2>1, <2>2
    <3>2. r[k].y2 <= ybot
      BY <3>1 DEF AtRow
    <3> QED BY <2>1, <3>2
  <2>3. ASSUME i < k PROVE FALSE
    <3>1. r[i].y2 <= r[k].y1
      BY <2>3, BandAt
    <3> QED BY <1>1, <2>1, <3>1
  <2> QED BY <1>1, <2>1, <2>2, <2>3
<1> QED BY <1>2 DEF InBands, InFirstBands, InBand, InRows

(* The band that is done with gives way to the next.                       *)
LEMMA NextBand ==
  ASSUME NEW r, BandsOK(r), NEW i \in 1 .. Len(r), NEW ybot \in Int, AtRow(r, i, ybot),
         NEW end \in Int, ybot <= end, end <= r[i].y2
  PROVE  AtRow(r, IF r[i].y2 = end THEN i + 1 ELSE i, end)
<1>1. Len(r) \in Nat /\ i \in Int /\ r[i].y2 \in Int
  BY BandAt
<1>2. ASSUME NEW k \in 1 .. i - 1 PROVE r[k].y2 <= end
  <2>1. k \in 1 .. Len(r)
    BY <1>1
  <2>2. r[k].y2 <= ybot /\ r[k].y2 \in Int
    BY <2>1, BandAt DEF AtRow
  <2> QED BY <2>2
<1>3. CASE r[i].y2 = end
  <2>1. ASSUME NEW k \in 1 .. i + 1 - 1 PROVE r[k].y2 <= end
    <3>1. k = i \/ k \in 1 .. i - 1
      BY <1>1
    <3> QED BY <1>2, <1>3, <3>1
  <2>2. ASSUME i + 1 <= Len(r) PROVE end < r[i + 1].y2
    <3>1. i + 1 \in 1 .. Len(r) /\ i < i + 1
      BY <1>1, <2>2
    <3>2. /\ r[i].y2 <= r[i + 1].y1 /\ r[i + 1].y1 < r[i + 1].y2
          /\ r[i + 1].y1 \in Int /\ r[i + 1].y2 \in Int
      BY <3>1, BandAt
    <3> QED BY <1>3, <3>2
  <2> QED BY <1>3, <2>1, <2>2 DEF AtRow
<1>4. CASE r[i].y2 # end
  BY <1>1, <1>2, <1>4 DEF AtRow
<1> QED BY <1>3, <1>4

(* The part of a band above the other region's band.                       *)
Alone(out, ybot, r, ytop, keep) ==
  IF keep /\ Greater(r.y1, ybot) # Lesser(r.y2, ytop)
  THEN AddBand(out, Greater(r.y1, ybot), Lesser(r.y2, ytop), r.spans) ELSE out

(* It goes into the result if the operation keeps it.                      *)
LEMMA AloneAdds ==
  ASSUME NEW out, BandsOK(out), NEW ybot \in Int, out # <<>> => Last(out).y2 <= ybot,
         NEW r, IsBand(r), ybot < r.y2, NEW ytop \in Int, r.y1 < ytop, ybot <= ytop, NEW keep \in BOOLEAN
  PROVE  LET new == Alone(out, ybot, r, ytop, keep)
         IN /\ BandsOK(new) /\ (new # <<>> => Last(new).y2 <= Lesser(r.y2, ytop))
            /\ \A x, y \in Int : InBands(new, x, y) <=>
                 \/ InBands(out, x, y)
                 \/ keep /\ InRows(r, y) /\ ybot <= y /\ y < ytop /\ InSpans(r.spans, x)
<1> DEFINE top == Greater(r.y1, ybot)
           bot == Lesser(r.y2, ytop)
           new == Alone(out, ybot, r, ytop, keep)
<1>1. r.y1 \in Int /\ r.y2 \in Int /\ r.y1 < r.y2 /\ SpansOK(r.spans)
  BY DEF IsBand, Band
<1>2. /\ top \in Int /\ bot \in Int /\ top <= bot /\ ybot <= top /\ ybot <= bot
      /\ \A y \in Int : top <= y /\ y < bot <=> r.y1 <= y /\ y < r.y2 /\ ybot <= y /\ y < ytop
  BY <1>1 DEF Greater, Lesser
<1>3. new = IF keep /\ top # bot THEN AddBand(out, top, bot, r.spans) ELSE out
  BY DEF Alone
<1>4. out # <<>> => Last(out).y2 <= ybot /\ Last(out).y2 \in Int
  <2>1. out # <<>> => IsBand(Last(out))
    BY FrontBands
  <2> QED BY <2>1 DEF IsBand, Band
<1> HIDE DEF top, bot, new
<1>5. CASE keep /\ top # bot
  <2>1. top < bot /\ (out # <<>> => Last(out).y2 <= top)
    BY <1>2, <1>4, <1>5
  <2>2. /\ BandsOK(new) /\ (new # <<>> => Last(new).y2 <= bot)
        /\ \A x, y \in Int : InBands(new, x, y) <=>
             InBands(out, x, y) \/ (top <= y /\ y < bot /\ InSpans(r.spans, x))
    BY <1>1, <1>2, <1>3, <1>5, <2>1, AddBandAdds
  <2> QED BY <1>2, <1>5, <2>2 DEF InRows, bot, new
<1>6. CASE ~(keep /\ top # bot)
  <2>1. new = out /\ (out # <<>> => Last(out).y2 <= bot)
    BY <1>2, <1>3, <1>4, <1>6
  <2>2. \A y \in Int : ~(keep /\ r.y1 <= y /\ y < r.y2 /\ ybot <= y /\ y < ytop)
    BY <1>2, <1>6
  <2> QED BY <2>1, <2>2 DEF InRows, bot, new
<1> QED BY <1>5, <1>6

(* A round of the sweep: the result has what is wanted of the rows above   *)
(* ybot.                                                                   *)
LEMMA SweepStepGood ==
  ASSUME NEW op \in Ops, NEW r1, NEW r2, BandsOK(r1), BandsOK(r2), NEW t \in SweepState(r1, r2),
         SweepGood(op, r1, r2, t), FirstLeft(r1, t), SecondLeft(r2, t)
  PROVE  LET u == SweepStep(op, r1, r2, t)
         IN /\ u \in SweepState(r1, r2) /\ SweepGood(op, r1, r2, u)
            /\ u.i \in {t.i, t.i + 1} /\ u.j \in {t.j, t.j + 1} /\ (u.i # t.i \/ u.j # t.j)
<1> DEFINE a == r1[t.i]
           b == r2[t.j]
           ytop == Greater(a.y1, b.y1)
           end == Lesser(a.y2, b.y2)
           before == IF a.y1 < b.y1 THEN Alone(t.out, t.ybot, a, ytop, Keeps1(op))
                     ELSE IF b.y1 < a.y1 THEN Alone(t.out, t.ybot, b, ytop, Keeps2(op)) ELSE t.out
           both == Overlap(op, a.spans, b.spans)
           out == IF end > ytop THEN AddBand(before, ytop, end, both) ELSE before
           u == [out |-> out,
                 i |-> IF a.y2 = end THEN t.i + 1 ELSE t.i,
                 j |-> IF b.y2 = end THEN t.j + 1 ELSE t.j,
                 ybot |-> end]
<1>1. SweepStep(op, r1, r2, t) = u
  BY DEF SweepStep, Alone
<1>2. /\ Len(r1) \in Nat /\ Len(r2) \in Nat /\ t.i \in 1 .. Len(r1) /\ t.j \in 1 .. Len(r2)
      /\ t.i \in Int /\ t.j \in Int /\ t.ybot \in Int
  BY BandAt DEF SweepState, FirstLeft, SecondLeft
<1>3. /\ IsBand(a) /\ a.y1 \in Int /\ a.y2 \in Int /\ a.y1 < a.y2
      /\ IsBand(b) /\ b.y1 \in Int /\ b.y2 \in Int /\ b.y1 < b.y2
      /\ SpansOK(a.spans) /\ SpansOK(b.spans) /\ a.spans # <<>>
  BY <1>2, BandAt
<1>4. /\ AtRow(r1, t.i, t.ybot) /\ AtRow(r2, t.j, t.ybot) /\ t.ybot <= ytop
      /\ BandsOK(t.out) /\ (t.out # <<>> => Last(t.out).y2 <= t.ybot)
      /\ \A x, y \in Int : InBands(t.out, x, y) <=> y < t.ybot /\ Wanted(op, r1, r2, x, y)
  BY DEF SweepGood
<1>5. t.ybot < a.y2 /\ t.ybot < b.y2
  BY <1>2, <1>4 DEF AtRow
<1>6. /\ u.out = out /\ u.i = (IF a.y2 = end THEN t.i + 1 ELSE t.i)
      /\ u.j = (IF b.y2 = end THEN t.j + 1 ELSE t.j) /\ u.ybot = end
      /\ \A S1, S2, S3, S4 : u.out \in S1 /\ u.i \in S2 /\ u.j \in S3 /\ u.ybot \in S4 =>
           u \in [out : S1, i : S2, j : S3, ybot : S4]
  OBVIOUS
<1>7. /\ ytop \in Int /\ end \in Int /\ ytop \in {a.y1, b.y1} /\ ytop >= a.y1 /\ ytop >= b.y1
      /\ end \in {a.y2, b.y2} /\ end <= a.y2 /\ end <= b.y2 /\ t.ybot < end
  BY <1>3, <1>5, NumbersCompared
<1>8. r1[t.i] = a /\ r2[t.j] = b
  OBVIOUS
<1>9. ASSUME NEW x \in Int, NEW y \in Int, t.ybot <= y, y < end
      PROVE  /\ InBands(r1, x, y) <=> a.y1 <= y /\ InSpans(a.spans, x)
             /\ InBands(r2, x, y) <=> b.y1 <= y /\ InSpans(b.spans, x)
  <2> HIDE DEF end, ytop
  <2>1. y < a.y2 /\ y < b.y2
    BY <1>3, <1>7, <1>9
  <2> QED BY <1>2, <1>4, <1>9, <2>1, BandOfRow
<1>10. t.out # <<>> => Last(t.out).y2 \in Int /\ Last(t.out).y2 <= t.ybot
  <2>1. t.out # <<>> => IsBand(Last(t.out))
    BY <1>4, FrontBands
  <2> QED BY <1>4, <2>1 DEF IsBand, Band
<1>11. Keeps1(op) \in BOOLEAN /\ Keeps2(op) \in BOOLEAN
  BY DEF Keeps1, Keeps2
<1>12. /\ BandsOK(before) /\ (before # <<>> => Last(before).y2 <= ytop /\ Last(before).y2 <= end)
       /\ \A x, y \in Int : InBands(before, x, y) <=>
            y < end /\ (t.ybot <= y => y < ytop) /\ Wanted(op, r1, r2, x, y)
  <2>1. CASE a.y1 < b.y1
    <3>1. before = Alone(t.out, t.ybot, a, ytop, Keeps1(op)) /\ ytop = b.y1 /\ a.y1 < ytop
      BY <1>3, <2>1 DEF Greater
    <3>2. Lesser(a.y2, ytop) <= ytop /\ Lesser(a.y2, ytop) <= end /\ Lesser(a.y2, ytop) \in Int
      BY <1>3, <3>1 DEF Lesser
    <3> HIDE DEF before, end, ytop, a, b
    <3>3. /\ BandsOK(before) /\ (before # <<>> => Last(before).y2 <= Lesser(a.y2, ytop))
          /\ \A x, y \in Int : InBands(before, x, y) <=>
               \/ InBands(t.out, x, y)
               \/ Keeps1(op) /\ InRows(a, y) /\ t.ybot <= y /\ y < ytop /\ InSpans(a.spans, x)
      BY <1>2, <1>3, <1>4, <1>5, <1>7, <1>11, <3>1, AloneAdds
    <3>4. before # <<>> => Last(before).y2 <= ytop /\ Last(before).y2 <= end
      <4>1. before # <<>> => IsBand(Last(before))
        BY <3>3, FrontBands
      <4>2. before # <<>> => Last(before).y2 \in Int
        BY <4>1 DEF IsBand, Band
      <4> QED BY <1>7, <3>2, <3>3, <4>2
    <3>5. ASSUME NEW x \in Int, NEW y \in Int
          PROVE  InBands(before, x, y) <=>
                   y < end /\ (t.ybot <= y => y < ytop) /\ Wanted(op, r1, r2, x, y)
      <4>1. CASE y < t.ybot
        <5>1. y < end /\ ~(t.ybot <= y)
          BY <1>2, <1>7, <4>1
        <5> QED BY <1>4, <3>3, <4>1, <5>1
      <4>2. CASE t.ybot <= y /\ y < end
        <5>1. /\ InBands(r1, x, y) <=> a.y1 <= y /\ InSpans(a.spans, x)
              /\ InBands(r2, x, y) <=> b.y1 <= y /\ InSpans(b.spans, x)
          BY <1>9, <4>2
        <5>2. y < a.y2 /\ ~(y < t.ybot) /\ (y < ytop => ~(b.y1 <= y))
          BY <1>2, <1>3, <1>7, <3>1, <4>2
        <5>3. ~InBands(t.out, x, y)
          BY <1>4, <5>2
        <5> QED BY <3>3, <4>2, <5>1, <5>2, <5>3 DEF Wanted, InRows
      <4>3. CASE ~(y < end)
        <5>1. ~(y < t.ybot) /\ (y < ytop => ~(y < a.y2))
          BY <1>2, <1>3, <1>7, <3>1, <4>3
        <5> QED BY <1>4, <3>3, <4>3, <5>1 DEF InRows
      <4> QED BY <1>2, <4>1, <4>2, <4>3
    <3> QED BY <3>3, <3>4, <3>5
  <2>2. CASE b.y1 < a.y1
    <3>1. before = Alone(t.out, t.ybot, b, ytop, Keeps2(op)) /\ ytop = a.y1 /\ b.y1 < ytop
      BY <1>3, <2>2 DEF Greater
    <3>2. Lesser(b.y2, ytop) <= ytop /\ Lesser(b.y2, ytop) <= end /\ Lesser(b.y2, ytop) \in Int
      BY <1>3, <3>1 DEF Lesser
    <3> HIDE DEF before, end, ytop, a, b
    <3>3. /\ BandsOK(before) /\ (before # <<>> => Last(before).y2 <= Lesser(b.y2, ytop))
          /\ \A x, y \in Int : InBands(before, x, y) <=>
               \/ InBands(t.out, x, y)
               \/ Keeps2(op) /\ InRows(b, y) /\ t.ybot <= y /\ y < ytop /\ InSpans(b.spans, x)
      BY <1>2, <1>3, <1>4, <1>5, <1>7, <1>11, <3>1, AloneAdds
    <3>4. before # <<>> => Last(before).y2 <= ytop /\ Last(before).y2 <= end
      <4>1. before # <<>> => IsBand(Last(before))
        BY <3>3, FrontBands
      <4>2. before # <<>> => Last(before).y2 \in Int
        BY <4>1 DEF IsBand, Band
      <4> QED BY <1>7, <3>2, <3>3, <4>2
    <3>5. ASSUME NEW x \in Int, NEW y \in Int
          PROVE  InBands(before, x, y) <=>
                   y < end /\ (t.ybot <= y => y < ytop) /\ Wanted(op, r1, r2, x, y)
      <4>1. CASE y < t.ybot
        <5>1. y < end /\ ~(t.ybot <= y)
          BY <1>2, <1>7, <4>1
        <5> QED BY <1>4, <3>3, <4>1, <5>1
      <4>2. CASE t.ybot <= y /\ y < end
        <5>1. /\ InBands(r1, x, y) <=> a.y1 <= y /\ InSpans(a.spans, x)
              /\ InBands(r2, x, y) <=> b.y1 <= y /\ InSpans(b.spans, x)
          BY <1>9, <4>2
        <5>2. y < b.y2 /\ ~(y < t.ybot) /\ (y < ytop => ~(a.y1 <= y))
          BY <1>2, <1>3, <1>7, <3>1, <4>2
        <5>3. ~InBands(t.out, x, y)
          BY <1>4, <5>2
        <5> QED BY <3>3, <4>2, <5>1, <5>2, <5>3 DEF Wanted, InRows
      <4>3. CASE ~(y < end)
        <5>1. ~(y < t.ybot) /\ (y < ytop => ~(y < b.y2))
          BY <1>2, <1>3, <1>7, <3>1, <4>3
        <5> QED BY <1>4, <3>3, <4>3, <5>1 DEF InRows
      <4> QED BY <1>2, <4>1, <4>2, <4>3
    <3> QED BY <3>3, <3>4, <3>5
  <2>3. CASE a.y1 = b.y1
    <3>1. before = t.out /\ ytop = a.y1
      BY <1>3, <2>3 DEF Greater
    <3> HIDE DEF before, end, ytop, a, b
    <3>2. before # <<>> => Last(before).y2 <= ytop /\ Last(before).y2 <= end
      BY <1>2, <1>4, <1>7, <1>10, <3>1
    <3>3. ASSUME NEW x \in Int, NEW y \in Int
          PROVE  InBands(before, x, y) <=>
                   y < end /\ (t.ybot <= y => y < ytop) /\ Wanted(op, r1, r2, x, y)
      <4>1. CASE y < t.ybot
        <5>1. y < end /\ ~(t.ybot <= y)
          BY <1>2, <1>7, <4>1
        <5> QED BY <1>4, <3>1, <4>1, <5>1
      <4>2. CASE t.ybot <= y /\ y < end
        <5>1. /\ InBands(r1, x, y) <=> a.y1 <= y /\ InSpans(a.spans, x)
              /\ InBands(r2, x, y) <=> b.y1 <= y /\ InSpans(b.spans, x)
          BY <1>9, <4>2
        <5>2. ~(y < t.ybot) /\ (y < ytop => ~(a.y1 <= y) /\ ~(b.y1 <= y))
          BY <1>2, <1>3, <1>7, <2>3, <3>1, <4>2
        <5>3. ~InBands(t.out, x, y)
          BY <1>4, <5>2
        <5> QED BY <3>1, <4>2, <5>1, <5>2, <5>3 DEF Wanted
      <4>3. CASE ~(y < end)
        <5>1. ~(y < t.ybot)
          BY <1>2, <1>7, <4>3
        <5> QED BY <1>4, <3>1, <4>3, <5>1
      <4> QED BY <1>2, <4>1, <4>2, <4>3
    <3> QED BY <1>4, <3>1, <3>2, <3>3
  <2> QED BY <1>3, <2>1, <2>2, <2>3
<1>13. out = IF end > ytop THEN AddBand(before, ytop, end, both) ELSE before
  OBVIOUS
<1>14. /\ SpansOK(both)
       /\ \A x \in Int : InSpans(both, x) <=>
              \/ op # "subtract" /\ InSpans(a.spans, x) /\ InSpans(b.spans, x)
              \/ Keeps1(op) /\ InSpans(a.spans, x) /\ ~InSpans(b.spans, x)
              \/ Keeps2(op) /\ ~InSpans(a.spans, x) /\ InSpans(b.spans, x)
  <2> HIDE DEF a, b
  <2> QED BY <1>3, OverlapIsWanted
<1> HIDE DEF before, both, out, u, end, ytop, a, b
<1>15. /\ BandsOK(out) /\ (out # <<>> => Last(out).y2 <= end)
       /\ \A x, y \in Int : InBands(out, x, y) <=> y < end /\ Wanted(op, r1, r2, x, y)
  <2>1. CASE end > ytop
    <3>1. /\ BandsOK(out) /\ (out # <<>> => Last(out).y2 <= end)
          /\ \A x, y \in Int : InBands(out, x, y) <=>
               InBands(before, x, y) \/ (ytop <= y /\ y < end /\ InSpans(both, x))
      <4>1. out = AddBand(before, ytop, end, both) /\ ytop < end
        BY <1>7, <1>13, <2>1
      <4> QED BY <1>7, <1>12, <1>14, <4>1, AddBandAdds
    <3>2. ASSUME NEW x \in Int, NEW y \in Int
          PROVE  InBands(out, x, y) <=> y < end /\ Wanted(op, r1, r2, x, y)
      <4>1. CASE ytop <= y /\ y < end
        <5>1. /\ InBands(r1, x, y) <=> a.y1 <= y /\ InSpans(a.spans, x)
              /\ InBands(r2, x, y) <=> b.y1 <= y /\ InSpans(b.spans, x)
          BY <1>2, <1>4, <1>7, <1>9, <4>1
        <5>2. t.ybot <= y /\ ~(y < ytop) /\ a.y1 <= y /\ b.y1 <= y
          BY <1>2, <1>3, <1>4, <1>7, <4>1
        <5> QED BY <1>12, <1>14, <3>1, <4>1, <5>1, <5>2 DEF Wanted
      <4>2. CASE ~(ytop <= y /\ y < end)
        <5>1. y < end => y < ytop
          BY <1>7, <4>2
        <5> QED BY <1>12, <3>1, <4>2, <5>1
      <4> QED BY <4>1, <4>2
    <3> QED BY <3>1, <3>2
  <2>2. CASE ~(end > ytop)
    <3>1. out = before
      BY <1>13, <2>2
    <3>2. \A y \in Int : y < end => y < ytop
      BY <1>7, <2>2
    <3> QED BY <1>12, <3>1, <3>2
  <2> QED BY <2>1, <2>2
<1>16. u \in SweepState(r1, r2)
  <2>1. u.i \in 1 .. Len(r1) + 1 /\ u.j \in 1 .. Len(r2) + 1 /\ u.ybot \in Int
    BY <1>2, <1>6, <1>7
  <2>2. u.out \in Seq(Band)
    BY <1>6, <1>15 DEF BandsOK
  <2> QED BY <1>6, <2>1, <2>2 DEF SweepState
<1>17. AtRow(r1, u.i, u.ybot) /\ AtRow(r2, u.j, u.ybot)
  <2>1. t.ybot <= end
    BY <1>2, <1>7
  <2>2. AtRow(r1, IF r1[t.i].y2 = end THEN t.i + 1 ELSE t.i, end)
    BY <1>2, <1>4, <1>7, <1>8, <2>1, NextBand
  <2>3. AtRow(r2, IF r2[t.j].y2 = end THEN t.j + 1 ELSE t.j, end)
    BY <1>2, <1>4, <1>7, <1>8, <2>1, NextBand
  <2> QED BY <1>6, <1>8, <2>2, <2>3
<1>18. ASSUME FirstLeft(r1, u), SecondLeft(r2, u)
       PROVE  u.ybot <= Greater(r1[u.i].y1, r2[u.j].y1)
  <2>1. u.i \in 1 .. Len(r1) /\ u.j \in 1 .. Len(r2)
    BY <1>16, <1>18 DEF SweepState, FirstLeft, SecondLeft
  <2>2. r1[u.i].y1 \in Int /\ r2[u.j].y1 \in Int
    BY <2>1, BandAt
  <2>3. CASE end = a.y2
    <3>1. u.i = t.i + 1 /\ t.i < u.i
      BY <1>2, <1>6, <2>3
    <3>2. a.y2 <= r1[u.i].y1
      BY <1>2, <1>8, <2>1, <3>1, BandAt
    <3> QED BY <1>6, <1>7, <2>2, <2>3, <3>2 DEF Greater
  <2>4. CASE end = b.y2
    <3>1. u.j = t.j + 1 /\ t.j < u.j
      BY <1>2, <1>6, <2>4
    <3>2. b.y2 <= r2[u.j].y1
      BY <1>2, <1>8, <2>1, <3>1, BandAt
    <3> QED BY <1>6, <1>7, <2>2, <2>4, <3>2 DEF Greater
  <2> QED BY <1>7, <2>3, <2>4
<1>19. SweepGood(op, r1, r2, u)
  BY <1>6, <1>15, <1>17, <1>18 DEF SweepGood
<1>20. u.i \in {t.i, t.i + 1} /\ u.j \in {t.j, t.j + 1} /\ (u.i # t.i \/ u.j # t.j)
  BY <1>2, <1>6, <1>7
<1> QED BY <1>1, <1>16, <1>19, <1>20

(* The sweep ends when one of the regions has no band left.                *)
LEMMA SweepIsGood ==
  ASSUME NEW op \in Ops, NEW r1, NEW r2, BandsOK(r1), BandsOK(r2), r1 # <<>>, r2 # <<>>,
         NEW ybot \in Int, ybot = Lesser(r1[1].y1, r2[1].y1)
  PROVE  LET t == Sweep(op, r1, r2, ybot)
         IN /\ t \in SweepState(r1, r2) /\ SweepGood(op, r1, r2, t)
            /\ ~(FirstLeft(r1, t) /\ SecondLeft(r2, t))
<1> DEFINE N == Len(r1) + Len(r2)
           Begin == [out |-> <<>>, i |-> 1, j |-> 1, ybot |-> ybot]
           Test(t) == FirstLeft(r1, t) /\ SecondLeft(r2, t)
           I == {t \in SweepState(r1, r2) : SweepGood(op, r1, r2, t)}
           G == {t \in I : Test(t)}
           F == [t \in I |-> IF Test(t) THEN SweepStep(op, r1, r2, t) ELSE t]
           M == [t \in I |-> Len(r1) + 1 - t.i + (Len(r2) + 1 - t.j)]
<1>1. Len(r1) \in Nat /\ Len(r2) \in Nat /\ N \in Nat
  BY BandAt
<1>2. Begin \in I
  <2>1. Begin \in SweepState(r1, r2)
    BY <1>1 DEF SweepState
  <2>2. Begin.out = <<>> /\ Begin.i = 1 /\ Begin.j = 1 /\ Begin.ybot = ybot
    OBVIOUS
  <2>3. 1 \in 1 .. Len(r1) /\ 1 \in 1 .. Len(r2)
    BY <1>1 DEF BandsOK
  <2>4. /\ r1[1].y1 \in Int /\ r1[1].y2 \in Int /\ r1[1].y1 < r1[1].y2
        /\ r2[1].y1 \in Int /\ r2[1].y2 \in Int /\ r2[1].y1 < r2[1].y2
    BY <2>3, BandAt
  <2>5. ybot <= r1[1].y1 /\ ybot <= r2[1].y1 /\ ybot < r1[1].y2 /\ ybot < r2[1].y2
    BY <2>4 DEF Lesser
  <2>6. ybot <= Greater(r1[1].y1, r2[1].y1)
    BY <2>4, <2>5 DEF Greater
  <2>7. AtRow(r1, 1, ybot) /\ AtRow(r2, 1, ybot)
    BY <2>5 DEF AtRow
  <2>8. ASSUME NEW r, BandsOK(r), 1 \in 1 .. Len(r), ybot <= r[1].y1, NEW x \in Int, NEW y \in Int,
               y < ybot
        PROVE  ~InBands(r, x, y)
    <3>1. ASSUME NEW k \in 1 .. Len(r) PROVE ybot <= r[k].y1 /\ r[k].y1 \in Int
      <4>1. r[1].y1 \in Int /\ r[1].y2 \in Int /\ r[1].y1 < r[1].y2 /\ r[k].y1 \in Int /\ k \in Int
        BY <2>8, BandAt
      <4>2. k = 1 \/ 1 < k
        BY <4>1
      <4>3. k = 1 \/ r[1].y2 <= r[k].y1
        BY <2>8, <4>2, BandAt
      <4> QED BY <2>8, <4>1, <4>3
    <3> QED BY <2>8, <3>1 DEF InBands, InFirstBands, InBand, InRows
  <2>9. \A x, y \in Int : ~(y < ybot /\ Wanted(op, r1, r2, x, y))
    BY <2>3, <2>5, <2>8 DEF Wanted
  <2> HIDE DEF Begin
  <2>10. SweepGood(op, r1, r2, Begin)
    BY <2>2, <2>6, <2>7, <2>9, EmptyBands DEF SweepGood
  <2> QED BY <2>1, <2>10
<1>3. ASSUME NEW t \in I, Test(t)
      PROVE  /\ SweepStep(op, r1, r2, t) \in I
             /\ 0 < M[t] /\ M[SweepStep(op, r1, r2, t)] < M[t]
  <2>1. /\ t \in SweepState(r1, r2) /\ SweepGood(op, r1, r2, t) /\ t.i \in Int /\ t.j \in Int
        /\ t.i <= Len(r1) /\ t.j <= Len(r2)
    BY <1>3 DEF SweepState, FirstLeft, SecondLeft
  <2>2. PICK u : u = SweepStep(op, r1, r2, t)
    OBVIOUS
  <2>3. /\ u \in SweepState(r1, r2) /\ SweepGood(op, r1, r2, u)
        /\ u.i \in {t.i, t.i + 1} /\ u.j \in {t.j, t.j + 1} /\ (u.i # t.i \/ u.j # t.j)
    BY <1>3, <2>1, <2>2, SweepStepGood
  <2>4. u \in I /\ M[u] = Len(r1) + 1 - u.i + (Len(r2) + 1 - u.j)
    BY <2>3
  <2>5. M[t] = Len(r1) + 1 - t.i + (Len(r2) + 1 - t.j)
    OBVIOUS
  <2>6. /\ u.i \in Int /\ u.j \in Int /\ t.i + t.j < u.i + u.j
        /\ Len(r1) \in Int /\ Len(r2) \in Int /\ t.j <= Len(r2) + 1
    <3>1. u.i = t.i \/ u.i = t.i + 1
      BY <2>3
    <3>2. u.j = t.j \/ u.j = t.j + 1
      BY <2>3
    <3>3. u.i # t.i \/ u.j # t.j
      BY <2>3
    <3>4. t.i \in Int /\ t.j \in Int /\ t.j <= Len(r2)
      BY <2>1
    <3>5. Len(r1) \in Int /\ Len(r2) \in Int
      BY <1>1
    <3> HIDE DEF N, Begin, Test, I, G, F, M
    <3> QED BY SMTT(30), <3>1, <3>2, <3>3, <3>4, <3>5
  <2>7. /\ 0 < Len(r1) + 1 - t.i + (Len(r2) + 1 - t.j)
        /\ Len(r1) + 1 - u.i + (Len(r2) + 1 - u.j) < Len(r1) + 1 - t.i + (Len(r2) + 1 - t.j)
    <3> HIDE DEF N, Begin, Test, I, G, F, M
    <3> QED BY <2>1, <2>6, StillLeft
  <2> HIDE DEF M, I
  <2> QED BY <2>2, <2>4, <2>5, <2>7
<1>4. M[Begin] <= N /\ M \in [I -> Int]
  <2>1. \A t \in I : M[t] \in Int
    BY <1>1 DEF SweepState
  <2>2. Begin.i = 1 /\ Begin.j = 1
    OBVIOUS
  <2>3. M[Begin] = Len(r1) + 1 - Begin.i + (Len(r2) + 1 - Begin.j)
    <3> HIDE DEF Begin, I
    <3> QED BY <1>2
  <2>4. N = Len(r1) + Len(r2)
    OBVIOUS
  <2> HIDE DEF Begin, I, N
  <2>5. M[Begin] <= N
    <3> HIDE DEF M
    <3> QED BY <1>1, <2>2, <2>3, <2>4
  <2> QED BY <2>1, <2>5
<1> HIDE DEF Begin
<1>5. F \in [I -> I] /\ Ends(I, G, F, M)
  <2> HIDE DEF M, Test
  <2>1. \A t \in I : F[t] \in I
    BY <1>3
  <2>2. \A t \in I \cap G : 0 < M[t] /\ M[F[t]] < M[t]
    BY <1>3
  <2>3. \A t \in I \ G : F[t] = t
    OBVIOUS
  <2> QED BY <2>1, <2>2, <2>3 DEF Ends
<1> DEFINE Run(f) == f = [n \in 0 .. N |->
                            IF n = 0 THEN Begin
                            ELSE IF Test(f[n - 1]) THEN SweepStep(op, r1, r2, f[n - 1]) ELSE f[n - 1]]
<1>6. Sweep(op, r1, r2, ybot) = (CHOOSE f : Run(f))[N]
  BY DEF Sweep, While, Begin
<1> HIDE DEF Test, M
<1>7. \E g : Run(g)
  <2>1. PICK g \in [0 .. N -> I] : IsRun(g, N, Begin, F)
    <3> HIDE DEF N, F, I
    <3> QED BY <1>1, <1>2, <1>5, RunExists
  <2>2. ASSUME NEW n \in 0 .. N, n # 0 PROVE n - 1 \in 0 .. N /\ g[n - 1] \in I
    BY <1>1, <2>1, <2>2
  <2> HIDE DEF N, I
  <2> QED BY <2>1, <2>2 DEF IsRun
<1>8. PICK f : f = (CHOOSE h : Run(h)) /\ Run(f)
  <2> HIDE DEF Run
  <2> QED BY <1>7
<1>9. f[N] \in I /\ f[N] \notin G
  <2>1. 0 \in 0 .. N /\ \A n \in 1 .. N : n \in 0 .. N /\ n # 0
    BY <1>1
  <2>2. f[0] = Begin /\ Follows(f, N, I, F)
    <3> HIDE DEF N, I, F
    <3>1. \A n \in 0 .. N : f[n] = IF n = 0 THEN Begin
                                    ELSE IF Test(f[n - 1]) THEN SweepStep(op, r1, r2, f[n - 1]) ELSE f[n - 1]
      BY <1>8
    <3>2. \A t \in I : F[t] = IF Test(t) THEN SweepStep(op, r1, r2, t) ELSE t
      BY DEF F
    <3> QED BY <2>1, <3>1, <3>2 DEF Follows
  <2> HIDE DEF N, I, F, G, Run
  <2> QED BY <1>1, <1>2, <1>4, <1>5, <2>2, RunEnds
<1>10. PICK t : t = f[N]
  OBVIOUS
<1>11. t \in SweepState(r1, r2) /\ SweepGood(op, r1, r2, t) /\ ~(FirstLeft(r1, t) /\ SecondLeft(r2, t))
  BY <1>9, <1>10 DEF Test
<1>12. Sweep(op, r1, r2, ybot) = t
  <2> HIDE DEF Run
  <2> QED BY <1>6, <1>8, <1>10
<1> QED BY <1>11, <1>12

(* What is left of the one region comes after the result of the sweep.     *)
LEMMA AddRestAdds ==
  ASSUME NEW out, BandsOK(out), NEW r, BandsOK(r), NEW ybot \in Int, NEW i \in 1 .. Len(r) + 1,
         AtRow(r, i, ybot), out # <<>> => Last(out).y2 <= ybot
  PROVE  LET new == AddRest(out, SubSeq(r, i, Len(r)), ybot)
         IN /\ BandsOK(new)
            /\ \A x, y \in Int : InBands(new, x, y) <=> InBands(out, x, y) \/ (ybot <= y /\ InBands(r, x, y))
<1> DEFINE n == Len(r)
           rest == SubSeq(r, i, n)
           new == AddRest(out, rest, ybot)
<1>1. n \in Nat /\ i \in Int /\ r \in Seq(Band) /\ \A k \in 1 .. n : r[k] \in Band
  BY DEF BandsOK
<1>2. /\ rest \in Seq(Band) /\ Len(rest) = n - i + 1
      /\ \A k \in 1 .. n - i + 1 : rest[k] = r[i + k - 1]
  <2>1. \A k \in i .. n : r[k] \in Band
    BY <1>1
  <2>2. rest = SubSeq(r, i, n)
    OBVIOUS
  <2> HIDE DEF rest, n
  <2>3. /\ rest \in Seq(Band) /\ Len(rest) = IF i <= n THEN n - i + 1 ELSE 0
        /\ \A k \in 1 .. n - i + 1 : rest[k] = r[i + k - 1]
    BY <1>1, <2>1, <2>2, SubSeqProperties
  <2>4. i <= n + 1
    BY <1>1 DEF n
  <2> QED BY <1>1, <2>3, <2>4
<1>3. ASSUME NEW k \in 1 .. i - 1, NEW x \in Int, NEW y \in Int, ybot <= y PROVE ~InBand(r[k], x, y)
  <2>1. k \in 1 .. Len(r)
    BY <1>1
  <2>2. r[k].y2 <= ybot /\ r[k].y2 \in Int
    BY <2>1, BandAt DEF AtRow
  <2> QED BY <1>3, <2>2 DEF InBand, InRows
<1>4. new = AddRest(out, rest, ybot)
  OBVIOUS
<1> HIDE DEF rest, new
<1>5. CASE i = n + 1
  <2>1. rest = <<>>
    BY <1>1, <1>2, <1>5
  <2>2. new = out
    BY <1>4, <2>1 DEF AddRest
  <2>3. i - 1 = Len(r)
    BY <1>1, <1>5
  <2>4. \A x, y \in Int : ~(ybot <= y /\ InBands(r, x, y))
    BY <1>3, <2>3 DEF InBands, InFirstBands
  <2> QED BY <2>2, <2>4 DEF new, rest
<1>6. CASE i # n + 1
  <2>1. i \in 1 .. n /\ n - i + 1 \in Nat \ {0}
    BY <1>1, <1>6
  <2> DEFINE b == r[i]
             top == Greater(b.y1, ybot)
             first == AddBand(out, top, b.y2, b.spans)
             tail == Tail(rest)
  <2>2. /\ IsBand(b) /\ b.y1 \in Int /\ b.y2 \in Int /\ b.y1 < b.y2 /\ SpansOK(b.spans) /\ b.spans # <<>>
        /\ ybot < b.y2
    BY <1>1, <2>1, BandAt DEF AtRow
  <2>3. /\ rest # <<>> /\ Head(rest) = b
        /\ tail \in Seq(Band) /\ Len(tail) = n - i /\ \A k \in 1 .. n - i : tail[k] = r[i + k]
    <3>1. rest # <<>> /\ Head(rest) = rest[1] /\ rest[1] = r[i + 1 - 1]
      BY <1>2, <2>1
    <3>2. tail \in Seq(Band) /\ Len(tail) = n - i + 1 - 1 /\ \A k \in 1 .. n - i : tail[k] = rest[k + 1]
      BY <1>1, <1>2, <2>1, <3>1
    <3>3. \A k \in 1 .. n - i : k + 1 \in 1 .. n - i + 1 /\ i + (k + 1) - 1 = i + k
      BY <1>1
    <3>4. i + 1 - 1 = i /\ n - i + 1 - 1 = n - i
      BY <1>1
    <3> QED BY <1>2, <3>1, <3>2, <3>3, <3>4
  <2>4. new = first \o tail
    BY <1>4, <2>3 DEF AddRest
  <2>5. top \in Int /\ top < b.y2 /\ ybot <= top /\ \A y \in Int : top <= y <=> b.y1 <= y /\ ybot <= y
    BY <2>2 DEF Greater
  <2>6. out # <<>> => Last(out).y2 <= top
    <3>1. out # <<>> => IsBand(Last(out))
      BY FrontBands
    <3>2. out # <<>> => Last(out).y2 \in Int
      BY <3>1 DEF IsBand, Band
    <3> HIDE DEF top
    <3> QED BY <2>5, <3>2
  <2>7. \A k \in 1 .. n - i : i + k \in 1 .. n /\ i < i + k
    BY <1>1, <2>1
  <2> HIDE DEF b, top, first, tail
  <2>8. /\ BandsOK(first) /\ first # <<>> /\ Last(first).y2 = b.y2 /\ Last(first).spans = b.spans
        /\ \A x, y \in Int : InBands(first, x, y) <=>
             InBands(out, x, y) \/ (top <= y /\ y < b.y2 /\ InSpans(b.spans, x))
    BY <2>2, <2>5, <2>6, AddBandAdds DEF first
  <2>9. BandsOK(tail)
    <3>1. \A k \in 1 .. n - i : IsBand(tail[k])
      BY <2>3, <2>7 DEF BandsOK, n
    <3>2. ASSUME NEW k \in 1 .. n - i, NEW l \in 1 .. n - i, k < l PROVE Above(tail[k], tail[l])
      <4>1. i + k \in 1 .. n /\ i + l \in 1 .. n /\ i + k < i + l
        BY <1>1, <2>7, <3>2
      <4> QED BY <2>3, <4>1 DEF BandsOK, n
    <3> QED BY <2>3, <3>1, <3>2 DEF BandsOK
  <2>10. first # <<>> /\ tail # <<>> => Above(Last(first), tail[1])
    <3>1. ASSUME tail # <<>> PROVE 1 \in 1 .. n - i
      <4>1. n - i # 0 /\ n - i \in Nat
        BY <1>1, <2>1, <2>3, <3>1
      <4> QED BY <4>1
    <3>2. ASSUME tail # <<>> PROVE Above(b, tail[1])
      <4>1. i + 1 \in 1 .. n /\ i < i + 1 /\ tail[1] = r[i + 1]
        BY <2>3, <2>7, <3>1, <3>2
      <4> QED BY <2>1, <4>1 DEF BandsOK, n, b
    <3> QED BY <2>8, <3>2 DEF Above
  <2>11. ASSUME NEW x \in Int, NEW y \in Int
         PROVE  InBands(new, x, y) <=> InBands(out, x, y) \/ (ybot <= y /\ InBands(r, x, y))
    <3>1. InBands(new, x, y) <=> InBands(first, x, y) \/ InBands(tail, x, y)
      BY <2>4, <2>8, <2>9, <2>10, BandsTogether
    <3>2. InBands(tail, x, y) <=> \E k \in 1 .. n - i : InBand(r[i + k], x, y)
      BY <2>3 DEF InBands, InFirstBands
    <3>3. ASSUME NEW k \in 1 .. n - i, InBand(r[i + k], x, y) PROVE ybot <= y
      <4>1. i + k \in 1 .. Len(r) /\ i < i + k
        BY <2>7 DEF n
      <4>2. b.y2 <= r[i + k].y1 /\ r[i + k].y1 \in Int /\ r[i + k].y1 <= y
        BY <2>1, <3>3, <4>1, BandAt DEF b, n, InBand, InRows
      <4> QED BY <2>2, <4>2
    <3>4. InBand(b, x, y) <=> b.y1 <= y /\ y < b.y2 /\ InSpans(b.spans, x)
      BY DEF InBand, InRows
    <3>5. ASSUME ybot <= y PROVE InBands(r, x, y) <=> InBand(b, x, y) \/ InBands(tail, x, y)
      <4>1. \A k \in 1 .. n : k \in 1 .. i - 1 \/ k = i \/ (k - i \in 1 .. n - i /\ k = i + (k - i))
        BY <1>1, <2>1
      <4>2. InBands(r, x, y) => InBand(b, x, y) \/ InBands(tail, x, y)
        BY <1>3, <3>2, <3>5, <4>1 DEF InBands, InFirstBands, n, b
      <4>3. InBand(b, x, y) => InBands(r, x, y)
        BY <2>1 DEF InBands, InFirstBands, n, b
      <4>4. InBands(tail, x, y) => InBands(r, x, y)
        BY <2>7, <3>2 DEF InBands, InFirstBands, n
      <4> QED BY <4>2, <4>3, <4>4
    <3> QED BY <2>5, <2>8, <3>1, <3>2, <3>3, <3>4, <3>5
  <2>12. BandsOK(new)
    BY <2>4, <2>8, <2>9, <2>10, BandsTogether
  <2> QED BY <2>11, <2>12 DEF new, rest
<1> QED BY <1>5, <1>6

(* miRegionOp does what its operation says.                                *)
LEMMA RegionOpIsWanted ==
  ASSUME NEW op \in Ops, NEW reg1, NEW reg2, BandsOK(reg1.bands), BandsOK(reg2.bands),
         reg1.bands # <<>>, reg2.bands # <<>>,
         reg1.extents.y1 = reg1.bands[1].y1, reg2.extents.y1 = reg2.bands[1].y1
  PROVE  /\ BandsOK(RegionOp(op, reg1, reg2))
         /\ \A x, y \in Int : InBands(RegionOp(op, reg1, reg2), x, y) <=>
                                Wanted(op, reg1.bands, reg2.bands, x, y)
<1> DEFINE r1 == reg1.bands
           r2 == reg2.bands
           ybot == Lesser(reg1.extents.y1, reg2.extents.y1)
<1>1. BandsOK(r1) /\ BandsOK(r2) /\ r1 # <<>> /\ r2 # <<>> /\ ybot = Lesser(r1[1].y1, r2[1].y1)
  OBVIOUS
<1>2. PICK t : t = Sweep(op, r1, r2, ybot)
  OBVIOUS
<1>3. RegionOp(op, reg1, reg2) =
        IF FirstLeft(r1, t)
        THEN IF Keeps1(op) THEN AddRest(t.out, SubSeq(r1, t.i, Len(r1)), t.ybot) ELSE t.out
        ELSE IF Keeps2(op) THEN AddRest(t.out, SubSeq(r2, t.j, Len(r2)), t.ybot) ELSE t.out
  BY <1>2 DEF RegionOp
<1> HIDE DEF r1, r2, ybot
<1>4. ybot \in Int
  <2>1. 1 \in 1 .. Len(r1) /\ 1 \in 1 .. Len(r2)
    BY <1>1 DEF BandsOK
  <2>2. r1[1].y1 \in Int /\ r2[1].y1 \in Int
    BY <1>1, <2>1, BandAt
  <2> QED BY <1>1, <2>2, NumbersCompared
<1>5. t \in SweepState(r1, r2) /\ SweepGood(op, r1, r2, t) /\ ~(FirstLeft(r1, t) /\ SecondLeft(r2, t))
  BY <1>1, <1>2, <1>4, SweepIsGood
<1>6. /\ t.i \in 1 .. Len(r1) + 1 /\ t.j \in 1 .. Len(r2) + 1 /\ t.ybot \in Int
      /\ Len(r1) \in Nat /\ Len(r2) \in Nat
  BY <1>1, <1>5, BandAt DEF SweepState
<1>7. /\ BandsOK(t.out) /\ (t.out # <<>> => Last(t.out).y2 <= t.ybot)
      /\ AtRow(r1, t.i, t.ybot) /\ AtRow(r2, t.j, t.ybot)
      /\ \A x, y \in Int : InBands(t.out, x, y) <=> y < t.ybot /\ Wanted(op, r1, r2, x, y)
  BY <1>5 DEF SweepGood
<1>8. ASSUME NEW r, BandsOK(r), NEW i, i = Len(r) + 1, AtRow(r, i, t.ybot),
             NEW x \in Int, NEW y \in Int, ~(y < t.ybot)
      PROVE  ~InBands(r, x, y)
  <2>1. ASSUME NEW k \in 1 .. Len(r) PROVE r[k].y2 <= t.ybot /\ r[k].y2 \in Int
    <3>1. k \in 1 .. i - 1
      BY <1>8, BandAt
    <3> QED BY <1>8, <3>1, BandAt DEF AtRow
  <2> QED BY <1>6, <1>8, <2>1 DEF InBands, InFirstBands, InBand, InRows
<1>9. CASE FirstLeft(r1, t)
  <2>1. t.j = Len(r2) + 1
    BY <1>5, <1>6, <1>9 DEF SecondLeft
  <2>2. \A x, y \in Int : ~(y < t.ybot) => ~InBands(r2, x, y)
    BY <1>1, <1>7, <1>8, <2>1
  <2>3. CASE Keeps1(op)
    <3>1. PICK new : new = AddRest(t.out, SubSeq(r1, t.i, Len(r1)), t.ybot)
      OBVIOUS
    <3>2. /\ BandsOK(new)
          /\ \A x, y \in Int : InBands(new, x, y) <=>
                                 InBands(t.out, x, y) \/ (t.ybot <= y /\ InBands(r1, x, y))
      BY <1>1, <1>6, <1>7, <3>1, AddRestAdds
    <3>3. RegionOp(op, reg1, reg2) = new
      BY <1>3, <1>9, <2>3, <3>1
    <3>4. \A y \in Int : t.ybot <= y <=> ~(y < t.ybot)
      BY <1>6
    <3>5. \A x, y \in Int : InBands(new, x, y) <=> Wanted(op, r1, r2, x, y)
      BY <1>7, <2>2, <2>3, <3>2, <3>4 DEF Wanted
    <3> QED BY <3>2, <3>3, <3>5 DEF r1, r2
  <2>4. CASE ~Keeps1(op)
    <3>1. RegionOp(op, reg1, reg2) = t.out
      BY <1>3, <1>9, <2>4
    <3>2. ~Keeps2(op)
      BY <2>4 DEF Keeps1, Keeps2
    <3>3. \A x, y \in Int : InBands(t.out, x, y) <=> Wanted(op, r1, r2, x, y)
      BY <1>7, <2>2, <2>4, <3>2 DEF Wanted
    <3> QED BY <1>7, <3>1, <3>3 DEF r1, r2
  <2> QED BY <2>3, <2>4
<1>10. CASE ~FirstLeft(r1, t)
  <2>1. t.i = Len(r1) + 1
    BY <1>6, <1>10 DEF FirstLeft
  <2>2. \A x, y \in Int : ~(y < t.ybot) => ~InBands(r1, x, y)
    BY <1>1, <1>7, <1>8, <2>1
  <2>3. CASE Keeps2(op)
    <3>1. PICK new : new = AddRest(t.out, SubSeq(r2, t.j, Len(r2)), t.ybot)
      OBVIOUS
    <3>2. /\ BandsOK(new)
          /\ \A x, y \in Int : InBands(new, x, y) <=>
                                 InBands(t.out, x, y) \/ (t.ybot <= y /\ InBands(r2, x, y))
      BY <1>1, <1>6, <1>7, <3>1, AddRestAdds
    <3>3. RegionOp(op, reg1, reg2) = new
      BY <1>3, <1>10, <2>3, <3>1
    <3>4. \A y \in Int : t.ybot <= y <=> ~(y < t.ybot)
      BY <1>6
    <3>5. \A x, y \in Int : InBands(new, x, y) <=> Wanted(op, r1, r2, x, y)
      BY <1>7, <2>2, <2>3, <3>2, <3>4 DEF Wanted
    <3> QED BY <3>2, <3>3, <3>5 DEF r1, r2
  <2>4. CASE ~Keeps2(op)
    <3>1. RegionOp(op, reg1, reg2) = t.out
      BY <1>3, <1>10, <2>4
    <3>2. \A x, y \in Int : InBands(t.out, x, y) <=> Wanted(op, r1, r2, x, y)
      BY <1>7, <2>2, <2>4 DEF Wanted
    <3> QED BY <1>7, <3>1, <3>2 DEF r1, r2
  <2> QED BY <2>3, <2>4
<1> QED BY <1>9, <1>10
-----------------------------------------------------------------------------
(***************************************************************************)
(* Regions and their areas.                                                *)
(***************************************************************************)
(* Integers above a bound have a least one among any of them.              *)
LEMMA LeastInteger ==
  ASSUME NEW S, S \subseteq Int, S # {}, NEW low \in Int, \A n \in S : low <= n
  PROVE  Min(S) \in S /\ \A n \in S : Min(S) <= n
<1> DEFINE T == {m \in Nat : low + m \in S}
<1>1. T \subseteq Nat /\ T # {}
  <2>1. PICK n : n \in S
    OBVIOUS
  <2>2. n - low \in Nat /\ low + (n - low) = n
    BY <2>1
  <2> QED BY <2>1, <2>2
<1>2. PICK m \in T : \A k \in T : m <= k
  <2> HIDE DEF T
  <2> QED BY <1>1, LeastNumber
<1>3. ASSUME NEW n \in S PROVE low + m <= n
  <2>1. n - low \in Nat /\ low + (n - low) = n
    OBVIOUS
  <2> QED BY <1>2, <2>1
<1> QED BY <1>2, <1>3 DEF Min

(* Numbers below a bound have a greatest one among any of them.            *)
LEMMA GreatestInteger ==
  ASSUME NEW S, S \subseteq Int, S # {}, NEW high \in Int, \A n \in S : n <= high
  PROVE  Max(S) \in S /\ \A n \in S : n <= Max(S)
<1> DEFINE T == {m \in Nat : high - m \in S}
<1>1. T \subseteq Nat /\ T # {}
  <2>1. PICK n : n \in S
    OBVIOUS
  <2>2. high - n \in Nat /\ high - (high - n) = n
    BY <2>1
  <2> QED BY <2>1, <2>2
<1>2. PICK m \in T : \A k \in T : m <= k
  <2> HIDE DEF T
  <2> QED BY <1>1, LeastNumber
<1>3. ASSUME NEW n \in S PROVE n <= high - m
  <2>1. high - n \in Nat /\ high - (high - n) = n
    OBVIOUS
  <2> QED BY <1>2, <2>1
<1> QED BY <1>2, <1>3 DEF Max

Box == [x1 : Int, y1 : Int, x2 : Int, y2 : Int]
InBox(e, x, y) == e.x1 <= x /\ x < e.x2 /\ e.y1 <= y /\ y < e.y2

(* The smallest rectangle around A: it has A, and A reaches its edges.     *)
Hull(e, A) ==
  /\ \A x, y \in Int : <<x, y>> \in A => InBox(e, x, y)
  /\ \E y \in Int : <<e.x1, y>> \in A
  /\ \E y \in Int : <<e.x2 - 1, y>> \in A
  /\ \E x \in Int : <<x, e.y1>> \in A
  /\ \E x \in Int : <<x, e.y2 - 1>> \in A

IsArea(bands, A) ==
  A \subseteq Int \X Int /\ \A x, y \in Int : <<x, y>> \in A <=> InBands(bands, x, y)

(* The region is the one of the area A.                                    *)
Region == [bands : Seq(Band), extents : Box]
RegionFor(reg, A) ==
  /\ reg \in Region
  /\ BandsOK(reg.bands) /\ IsArea(reg.bands, A)
  /\ reg.bands # <<>> => Hull(reg.extents, A)

(* Some points that a band has.                                            *)
LEMMA BandsHavePoints ==
  ASSUME NEW bands, BandsOK(bands), NEW A, IsArea(bands, A), NEW k \in 1 .. Len(bands),
         NEW i \in 1 .. Len(bands[k].spans), NEW x \in Int, InSpan(bands[k].spans[i], x),
         NEW y \in Int, InRows(bands[k], y)
  PROVE  <<x, y>> \in A
<1>1. InSpans(bands[k].spans, x)
  BY DEF InSpans, InFirst
<1>2. InBands(bands, x, y)
  BY <1>1 DEF InBands, InFirstBands, InBand
<1> QED BY <1>2 DEF IsArea

(* Only the region without bands has no points.                            *)
LEMMA EmptyArea ==
  ASSUME NEW bands, BandsOK(bands), NEW A, IsArea(bands, A)
  PROVE  bands = <<>> <=> A = {}
<1>1. ASSUME bands = <<>>, NEW c \in A PROVE FALSE
  <2>1. PICK x \in Int, y \in Int : c = <<x, y>>
    BY DEF IsArea
  <2>2. InBands(<<>>, x, y)
    BY <1>1, <2>1 DEF IsArea
  <2> QED BY <2>2, EmptyBands
<1>2. ASSUME bands # <<>> PROVE A # {}
  <2>1. 1 \in 1 .. Len(bands)
    BY <1>2 DEF BandsOK
  <2>2. /\ SpansOK(bands[1].spans) /\ bands[1].spans # <<>> /\ bands[1].y1 \in Int
        /\ bands[1].y2 \in Int /\ bands[1].y1 < bands[1].y2
    BY <2>1, BandAt
  <2>3. 1 \in 1 .. Len(bands[1].spans)
    BY <2>2 DEF SpansOK
  <2>4. IsSpan(bands[1].spans[1]) /\ bands[1].spans[1].x1 \in Int /\ bands[1].spans[1].x2 \in Int
    BY <2>2, <2>3, SpanAt
  <2>5. InSpan(bands[1].spans[1], bands[1].spans[1].x1) /\ InRows(bands[1], bands[1].y1)
    BY <2>2, <2>4 DEF InSpan, IsSpan, InRows
  <2> QED BY <2>1, <2>2, <2>3, <2>4, <2>5, BandsHavePoints
<1> QED BY <1>1, <1>2

(* The spans of a band lie between its first and its last.                 *)
LEMMA SpansBounded ==
  ASSUME NEW spans, SpansOK(spans), spans # <<>>
  PROVE  \E low, high \in Int : \A s \in Range(spans) : low <= s.x1 /\ s.x2 <= high
<1> DEFINE n == Len(spans)
<1>1. n \in Nat /\ 1 \in 1 .. n /\ n \in 1 .. n /\ \A s \in Range(spans) : \E i \in 1 .. n : s = spans[i]
  BY DEF SpansOK, Range
<1>2. /\ spans[1].x1 \in Int /\ spans[n].x2 \in Int
      /\ IsSpan(spans[1]) /\ IsSpan(spans[n])
  BY <1>1, SpanAt
<1>3. ASSUME NEW i \in 1 .. n PROVE spans[1].x1 <= spans[i].x1 /\ spans[i].x2 <= spans[n].x2
  <2>1. /\ i \in Int /\ spans[i].x1 \in Int /\ spans[i].x2 \in Int /\ IsSpan(spans[i])
        /\ spans[1].x2 \in Int /\ spans[n].x1 \in Int
    BY <1>1, SpanAt
  <2>2. i = 1 \/ 1 < i
    BY <2>1
  <2>3. i = n \/ i < n
    BY <1>1, <2>1
  <2>4. i = 1 \/ spans[1].x2 < spans[i].x1
    BY <1>1, <2>2, SpanAt
  <2>5. i = n \/ spans[i].x2 < spans[n].x1
    BY <1>1, <2>3, SpanAt
  <2> HIDE DEF n
  <2> QED BY <1>2, <2>1, <2>4, <2>5 DEF IsSpan
<1> HIDE DEF n
<1> QED BY <1>1, <1>2, <1>3

(* So do the spans of all bands.                                           *)
LEMMA BandsBounded ==
  ASSUME NEW bands, BandsOK(bands)
  PROVE  \E low, high \in Int : \A k \in 1 .. Len(bands) : \A s \in Range(bands[k].spans) :
           low <= s.x1 /\ s.x2 <= high
<1> DEFINE N == Len(bands)
           Bounds(n, low, high) == \A k \in 1 .. n : \A s \in Range(bands[k].spans) :
                                     low <= s.x1 /\ s.x2 <= high
           S == {n \in 0 .. N : \E low, high \in Int : Bounds(n, low, high)}
<1>1. N \in Nat
  BY BandAt
<1>2. 0 \in S
  BY <1>1
<1>3. ASSUME NEW n \in 1 .. N, n - 1 \in S PROVE n \in S
  <2>1. PICK low, high \in Int : Bounds(n - 1, low, high)
    BY <1>3
  <2>2. SpansOK(bands[n].spans) /\ bands[n].spans # <<>>
    BY BandAt
  <2>3. PICK l, h \in Int : \A s \in Range(bands[n].spans) : l <= s.x1 /\ s.x2 <= h
    BY <2>2, SpansBounded
  <2>4. PICK a, b \in Int : a <= low /\ a <= l /\ high <= b /\ h <= b
    <3>1. /\ Lesser(low, l) \in Int /\ Lesser(low, l) <= low /\ Lesser(low, l) <= l
          /\ Greater(high, h) \in Int /\ high <= Greater(high, h) /\ h <= Greater(high, h)
      BY NumbersCompared
    <3> QED BY <3>1
  <2>5. ASSUME NEW k \in 1 .. n, NEW s \in Range(bands[k].spans) PROVE a <= s.x1 /\ s.x2 <= b
    <3>1. k \in 1 .. N
      BY <1>1
    <3>2. s.x1 \in Int /\ s.x2 \in Int
      <4>1. SpansOK(bands[k].spans)
        BY <3>1, BandAt
      <4>2. \E i \in 1 .. Len(bands[k].spans) : s = bands[k].spans[i]
        BY <4>1 DEF Range, SpansOK
      <4> QED BY <4>1, <4>2, SpanAt
    <3>3. k = n \/ k \in 1 .. n - 1
      BY <1>1
    <3>4. CASE k = n
      <4>1. l <= s.x1 /\ s.x2 <= h
        BY <2>3, <3>4
      <4> QED BY <2>4, <3>2, <4>1
    <3>5. CASE k \in 1 .. n - 1
      <4>1. low <= s.x1 /\ s.x2 <= high
        BY <2>1, <3>5
      <4> QED BY <2>4, <3>2, <4>1
    <3> QED BY <3>3, <3>4, <3>5
  <2>6. Bounds(n, a, b)
    BY <2>5
  <2>7. n \in 0 .. N
    BY <1>1
  <2> HIDE DEF Bounds, N
  <2> QED BY <2>6, <2>7
<1>4. N \in S
  <2> HIDE DEF S
  <2>1. 0 .. N \subseteq S
    BY <1>1, <1>2, <1>3, EachRound
  <2> QED BY <1>1, <2>1
<1> QED BY <1>4

(* miSetExtents.                                                           *)
LEMMA SetExtentsIsHull ==
  ASSUME NEW bands, BandsOK(bands), NEW A, IsArea(bands, A)
  PROVE  SetExtents(bands) \in Box /\ (bands # <<>> => Hull(SetExtents(bands), A))
<1>1. CASE bands = <<>>
  BY <1>1 DEF SetExtents, NoExtents, Box
<1>2. CASE bands # <<>>
  <2> DEFINE spans == UNION {Range(bands[i].spans) : i \in DOMAIN bands}
             n == Len(bands)
             e == SetExtents(bands)
             lefts == {s.x1 : s \in spans}
             rights == {s.x2 : s \in spans}
  <2>1. n \in Nat /\ 1 \in 1 .. n /\ n \in 1 .. n /\ DOMAIN bands = 1 .. n /\ bands[n] = Last(bands)
        /\ Head(bands) = bands[1]
    BY <1>2 DEF BandsOK, Last
  <2>2. \A s \in spans : \E k \in 1 .. n : \E i \in 1 .. Len(bands[k].spans) : s = bands[k].spans[i]
    <3>1. \A k \in 1 .. n : \A s \in Range(bands[k].spans) :
            \E i \in 1 .. Len(bands[k].spans) : s = bands[k].spans[i]
      <4>1. \A k \in 1 .. n : SpansOK(bands[k].spans)
        BY BandAt
      <4> QED BY <4>1 DEF Range, SpansOK
    <3> QED BY <2>1, <3>1
  <2>3. \A k \in 1 .. n : \A i \in 1 .. Len(bands[k].spans) : bands[k].spans[i] \in spans
    <3>1. ASSUME NEW k \in 1 .. n, NEW i \in 1 .. Len(bands[k].spans)
          PROVE  bands[k].spans[i] \in Range(bands[k].spans)
      <4>1. SpansOK(bands[k].spans)
        BY BandAt
      <4> QED BY <4>1 DEF Range, SpansOK
    <3> QED BY <2>1, <3>1
  <2>4. PICK low, high \in Int : \A s \in spans : low <= s.x1 /\ s.x2 <= high
    <3>1. PICK low, high \in Int : \A k \in 1 .. Len(bands) : \A s \in Range(bands[k].spans) :
            low <= s.x1 /\ s.x2 <= high
      BY BandsBounded
    <3> QED BY <2>1, <3>1
  <2>5. /\ e.x1 = Min(lefts) /\ e.x2 = Max(rights) /\ e.y1 = bands[1].y1 /\ e.y2 = bands[n].y2
        /\ \A S : e.x1 \in S /\ e.x2 \in S /\ e.y1 \in S /\ e.y2 \in S => e \in [x1 : S, y1 : S, x2 : S, y2 : S]
    BY <1>2, <2>1 DEF SetExtents
  <2> HIDE DEF spans, n, e
  <2>6. \A s \in spans : s.x1 \in Int /\ s.x2 \in Int /\ s.x1 < s.x2
    <3>1. \A k \in 1 .. n : SpansOK(bands[k].spans)
      BY BandAt DEF n
    <3> QED BY <2>2, <3>1, SpanAt DEF IsSpan
  <2>7. \A k \in 1 .. n : \E s \in spans : \E i \in 1 .. Len(bands[k].spans) : s = bands[k].spans[i]
    <3>1. ASSUME NEW k \in 1 .. n PROVE 1 \in 1 .. Len(bands[k].spans)
      <4>1. SpansOK(bands[k].spans) /\ bands[k].spans # <<>>
        BY BandAt DEF n
      <4> QED BY <4>1 DEF SpansOK
    <3> QED BY <2>3, <3>1
  <2>8. Min(lefts) \in lefts /\ \A l \in lefts : Min(lefts) <= l
    <3>1. lefts \subseteq Int /\ lefts # {} /\ \A l \in lefts : low <= l
      BY <2>1, <2>4, <2>6, <2>7
    <3> HIDE DEF lefts
    <3> QED BY <3>1, LeastInteger
  <2>9. Max(rights) \in rights /\ \A r \in rights : r <= Max(rights)
    <3>1. rights \subseteq Int /\ rights # {} /\ \A r \in rights : r <= high
      BY <2>1, <2>4, <2>6, <2>7
    <3> HIDE DEF rights
    <3> QED BY <3>1, GreatestInteger
  <2>10. /\ e.x1 \in Int /\ e.x2 \in Int /\ \A s \in spans : e.x1 <= s.x1 /\ s.x2 <= e.x2
         /\ \E s \in spans : s.x1 = e.x1
         /\ \E s \in spans : s.x2 = e.x2
    BY <2>5, <2>6, <2>8, <2>9
  <2>11. \A k \in 1 .. n : /\ bands[k].y1 \in Int /\ bands[k].y2 \in Int /\ bands[k].y1 < bands[k].y2
                           /\ e.y1 <= bands[k].y1 /\ bands[k].y2 <= e.y2
    <3>1. ASSUME NEW k \in 1 .. n
          PROVE /\ bands[k].y1 \in Int /\ bands[k].y2 \in Int /\ bands[k].y1 < bands[k].y2
                /\ e.y1 <= bands[k].y1 /\ bands[k].y2 <= e.y2
      <4>1. /\ k \in Int /\ bands[k].y1 \in Int /\ bands[k].y2 \in Int /\ bands[k].y1 < bands[k].y2
            /\ bands[1].y1 \in Int /\ bands[1].y2 \in Int /\ bands[1].y1 < bands[1].y2
            /\ bands[n].y1 \in Int /\ bands[n].y2 \in Int /\ bands[n].y1 < bands[n].y2
        BY <2>1, BandAt DEF n
      <4>2. (k = 1 \/ 1 < k) /\ (k = n \/ k < n)
        BY <2>1, <4>1
      <4>3. (k = 1 \/ bands[1].y2 <= bands[k].y1) /\ (k = n \/ bands[k].y2 <= bands[n].y1)
        BY <2>1, <4>2, BandAt DEF n
      <4> QED BY <2>5, <4>1, <4>3
    <3> QED BY <3>1
  <2>12. e \in Box
    BY <2>1, <2>5, <2>10, <2>11 DEF Box
  <2>13. ASSUME NEW x \in Int, NEW y \in Int, <<x, y>> \in A PROVE InBox(e, x, y)
    <3>1. InBands(bands, x, y)
      BY <2>13 DEF IsArea
    <3>2. PICK k \in 1 .. n : InRows(bands[k], y) /\ InSpans(bands[k].spans, x)
      BY <3>1 DEF InBands, InFirstBands, InBand, n
    <3>3. PICK i \in 1 .. Len(bands[k].spans) : InSpan(bands[k].spans[i], x)
      BY <3>2 DEF InSpans, InFirst
    <3>4. PICK s \in spans : InSpan(s, x)
      BY <2>3, <3>3
    <3>5. e.x1 <= x /\ x < e.x2
      BY <2>6, <2>10, <3>4 DEF InSpan
    <3>6. e.y1 <= y /\ y < e.y2
      BY <2>1, <2>5, <2>11, <3>2 DEF InRows
    <3> QED BY <3>5, <3>6 DEF InBox
  <2>14. ASSUME NEW s \in spans
         PROVE  (\E y \in Int : <<s.x1, y>> \in A) /\ (\E y \in Int : <<s.x2 - 1, y>> \in A)
    <3>1. PICK k \in 1 .. n : \E i \in 1 .. Len(bands[k].spans) : s = bands[k].spans[i]
      BY <2>2
    <3>2. PICK i \in 1 .. Len(bands[k].spans) : s = bands[k].spans[i]
      BY <3>1
    <3>3. InRows(bands[k], bands[k].y1) /\ bands[k].y1 \in Int
      BY <2>11 DEF InRows
    <3>4. InSpan(s, s.x1) /\ InSpan(s, s.x2 - 1) /\ s.x1 \in Int /\ s.x2 - 1 \in Int
      BY <2>6 DEF InSpan
    <3>5. k \in 1 .. Len(bands)
      BY DEF n
    <3> QED BY <3>2, <3>3, <3>4, <3>5, BandsHavePoints
  <2>15. ASSUME NEW k \in 1 .. n
         PROVE  (\E x \in Int : <<x, bands[k].y1>> \in A) /\ (\E x \in Int : <<x, bands[k].y2 - 1>> \in A)
    <3>1. PICK s \in spans : \E i \in 1 .. Len(bands[k].spans) : s = bands[k].spans[i]
      BY <2>7
    <3>2. PICK i \in 1 .. Len(bands[k].spans) : s = bands[k].spans[i]
      BY <3>1
    <3>3. /\ InRows(bands[k], bands[k].y1) /\ bands[k].y1 \in Int
          /\ InRows(bands[k], bands[k].y2 - 1) /\ bands[k].y2 - 1 \in Int
      BY <2>11 DEF InRows
    <3>4. InSpan(s, s.x1) /\ s.x1 \in Int
      BY <2>6 DEF InSpan
    <3>5. k \in 1 .. Len(bands)
      BY DEF n
    <3> QED BY <3>2, <3>3, <3>4, <3>5, BandsHavePoints
  <2>16. Hull(e, A)
    BY <2>1, <2>5, <2>10, <2>13, <2>14, <2>15 DEF Hull
  <2> QED BY <2>12, <2>16 DEF e
<1> QED BY <1>1, <1>2

(* What makes a region of an area.                                         *)
LEMMA IsRegion ==
  ASSUME NEW bands, BandsOK(bands), NEW e \in Box, NEW A, IsArea(bands, A), bands # <<>> => Hull(e, A)
  PROVE  RegionFor([bands |-> bands, extents |-> e], A)
<1>1. [bands |-> bands, extents |-> e] \in Region
  BY DEF Region, BandsOK
<1> QED BY <1>1 DEF RegionFor

(* The first band is at the top of the extents.                            *)
LEMMA HullTop ==
  ASSUME NEW reg, NEW A, RegionFor(reg, A), reg.bands # <<>>
  PROVE  reg.extents.y1 = reg.bands[1].y1
<1> DEFINE bands == reg.bands
           e == reg.extents
           f == SetExtents(bands)
<1>1. BandsOK(bands) /\ IsArea(bands, A) /\ Hull(e, A) /\ e \in Box /\ bands # <<>>
  BY DEF RegionFor, Region
<1> HIDE DEF bands, e
<1>2. Hull(f, A) /\ f \in Box /\ f.y1 = bands[1].y1
  <2>1. Head(bands) = bands[1]
    BY <1>1 DEF BandsOK
  <2> QED BY <1>1, <2>1, SetExtentsIsHull DEF SetExtents
<1> HIDE DEF f
<1>3. e.y1 \in Int /\ f.y1 \in Int
  BY <1>1, <1>2 DEF Box
<1>4. PICK x \in Int : <<x, e.y1>> \in A
  BY <1>1 DEF Hull
<1>5. PICK z \in Int : <<z, f.y1>> \in A
  BY <1>2 DEF Hull
<1>6. f.y1 <= e.y1
  BY <1>2, <1>3, <1>4 DEF Hull, InBox
<1>7. e.y1 <= f.y1
  BY <1>1, <1>3, <1>5 DEF Hull, InBox
<1> QED BY <1>2, <1>3, <1>6, <1>7 DEF e, bands

(* A region of one rectangle has its cells.                                *)
LEMMA RectRegionIsRect ==
  ASSUME NEW b \in Box, b.x1 < b.x2, b.y1 < b.y2
  PROVE  RegionFor(RectRegion(b), CellsOf(b))
<1> DEFINE s == [x1 |-> b.x1, x2 |-> b.x2]
           band == [y1 |-> b.y1, y2 |-> b.y2, spans |-> <<s>>]
<1>1. b.x1 \in Int /\ b.x2 \in Int /\ b.y1 \in Int /\ b.y2 \in Int
  BY DEF Box
<1>2. s \in Span /\ s.x1 = b.x1 /\ s.x2 = b.x2
  BY <1>1 DEF Span
<1>3. RectRegion(b) = [bands |-> <<band>>, extents |-> b]
  BY DEF RectRegion
<1>4. band.y1 = b.y1 /\ band.y2 = b.y2 /\ band.spans = <<s>> /\ band = [y1 |-> b.y1, y2 |-> b.y2, spans |-> <<s>>]
  OBVIOUS
<1> HIDE DEF s, band
<1>5. /\ SpansOK(<<s>>) /\ <<s>> # <<>> /\ <<s>> \in Seq(Span)
      /\ \A x \in Int : InSpans(<<s>>, x) <=> b.x1 <= x /\ x < b.x2
  <2>1. <<s>> \in Seq(Span) /\ Len(<<s>>) = 1 /\ <<s>>[1] = s
    BY <1>2
  <2> QED BY <1>2, <2>1 DEF SpansOK, InSpans, InFirst, InSpan
<1>6. IsBand(band)
  <2>1. band \in Band
    BY <1>1, <1>4, <1>5 DEF Band
  <2> QED BY <1>4, <1>5, <2>1 DEF IsBand
<1>7. BandsOK(<<band>>)
  BY <1>6 DEF BandsOK, IsBand
<1>8. ASSUME NEW x \in Int, NEW y \in Int
      PROVE  InBands(<<band>>, x, y) <=> b.x1 <= x /\ x < b.x2 /\ b.y1 <= y /\ y < b.y2
  <2>1. InBands(<<band>>, x, y) <=> InBand(band, x, y)
    BY DEF InBands, InFirstBands
  <2> QED BY <1>4, <1>5, <2>1 DEF InBand, InRows
<1>9. ASSUME NEW x \in Int, NEW y \in Int
      PROVE  <<x, y>> \in CellsOf(b) <=> b.x1 <= x /\ x < b.x2 /\ b.y1 <= y /\ y < b.y2
  BY <1>1 DEF CellsOf
<1>10. CellsOf(b) \subseteq Int \X Int
  BY <1>1 DEF CellsOf
<1>11. IsArea(<<band>>, CellsOf(b))
  BY <1>8, <1>9, <1>10 DEF IsArea
<1>12. Hull(b, CellsOf(b))
  <2>1. b.x2 - 1 \in Int /\ b.y2 - 1 \in Int
    BY <1>1
  <2>2. <<b.x1, b.y1>> \in CellsOf(b) /\ <<b.x2 - 1, b.y1>> \in CellsOf(b) /\ <<b.x1, b.y2 - 1>> \in CellsOf(b)
    BY <1>1, <1>9
  <2>3. \A x, y \in Int : <<x, y>> \in CellsOf(b) => InBox(b, x, y)
    BY <1>9 DEF InBox
  <2> QED BY <1>1, <2>1, <2>2, <2>3 DEF Hull
<1> QED BY <1>3, <1>7, <1>11, <1>12, IsRegion

(* Bands have one area.                                                    *)
LEMMA SameArea ==
  ASSUME NEW bands, NEW A, NEW B, IsArea(bands, A), B \subseteq Int \X Int,
         \A x, y \in Int : <<x, y>> \in A <=> <<x, y>> \in B
  PROVE  A = B
<1>1. ASSUME NEW c \in Int \X Int PROVE c \in A <=> c \in B
  <2>1. PICK x \in Int, y \in Int : c = <<x, y>>
    OBVIOUS
  <2> QED BY <2>1
<1> QED BY <1>1 DEF IsArea

(* The operations on regions that both have something.                     *)
LEMMA RegionOpArea ==
  ASSUME NEW op \in Ops, NEW reg1, NEW reg2, NEW A, NEW B, RegionFor(reg1, A), RegionFor(reg2, B),
         reg1.bands # <<>>, reg2.bands # <<>>
  PROVE  /\ BandsOK(RegionOp(op, reg1, reg2))
         /\ IsArea(RegionOp(op, reg1, reg2), CASE op = "union" -> A \cup B
                                               [] op = "intersect" -> A \cap B
                                               [] op = "subtract" -> A \ B)
<1> DEFINE C == CASE op = "union" -> A \cup B
                  [] op = "intersect" -> A \cap B
                  [] op = "subtract" -> A \ B
<1>1. /\ BandsOK(reg1.bands) /\ IsArea(reg1.bands, A) /\ reg1.extents.y1 = reg1.bands[1].y1
      /\ BandsOK(reg2.bands) /\ IsArea(reg2.bands, B) /\ reg2.extents.y1 = reg2.bands[1].y1
  BY HullTop DEF RegionFor
<1>2. /\ BandsOK(RegionOp(op, reg1, reg2))
      /\ \A x, y \in Int : InBands(RegionOp(op, reg1, reg2), x, y) <=> Wanted(op, reg1.bands, reg2.bands, x, y)
  BY <1>1, RegionOpIsWanted
<1>3. C \subseteq Int \X Int
  BY <1>1 DEF Ops, IsArea
<1>4. ASSUME NEW x \in Int, NEW y \in Int
      PROVE  <<x, y>> \in C <=> Wanted(op, reg1.bands, reg2.bands, x, y)
  <2>1. (<<x, y>> \in A <=> InBands(reg1.bands, x, y)) /\ (<<x, y>> \in B <=> InBands(reg2.bands, x, y))
    BY <1>1 DEF IsArea
  <2>2. CASE op = "union"
    BY <2>1, <2>2 DEF Wanted, Keeps1, Keeps2
  <2>3. CASE op = "intersect"
    BY <2>1, <2>3 DEF Wanted, Keeps1, Keeps2
  <2>4. CASE op = "subtract"
    BY <2>1, <2>4 DEF Wanted, Keeps1, Keeps2
  <2> QED BY <2>2, <2>3, <2>4 DEF Ops
<1> HIDE DEF C
<1>5. IsArea(RegionOp(op, reg1, reg2), C)
  BY <1>2, <1>3, <1>4 DEF IsArea
<1> QED BY <1>2, <1>5 DEF C

(* The smallest rectangle around two areas, from those around each.        *)
LEMMA HullOfUnion ==
  ASSUME NEW e \in Box, NEW f \in Box, NEW A, NEW B, Hull(e, A), Hull(f, B)
  PROVE  LET g == [x1 |-> Lesser(e.x1, f.x1), y1 |-> Lesser(e.y1, f.y1),
                   x2 |-> Greater(e.x2, f.x2), y2 |-> Greater(e.y2, f.y2)]
         IN g \in Box /\ Hull(g, A \cup B)
<1> DEFINE g == [x1 |-> Lesser(e.x1, f.x1), y1 |-> Lesser(e.y1, f.y1),
                 x2 |-> Greater(e.x2, f.x2), y2 |-> Greater(e.y2, f.y2)]
<1>1. {e.x1, e.x2, e.y1, e.y2, f.x1, f.x2, f.y1, f.y2} \subseteq Int
  BY DEF Box
<1>2. /\ g.x1 = Lesser(e.x1, f.x1) /\ g.y1 = Lesser(e.y1, f.y1)
      /\ g.x2 = Greater(e.x2, f.x2) /\ g.y2 = Greater(e.y2, f.y2)
      /\ \A S : g.x1 \in S /\ g.x2 \in S /\ g.y1 \in S /\ g.y2 \in S => g \in [x1 : S, y1 : S, x2 : S, y2 : S]
  OBVIOUS
<1> HIDE DEF g
<1>3. /\ g.x1 \in Int /\ g.x1 \in {e.x1, f.x1} /\ g.x1 <= e.x1 /\ g.x1 <= f.x1
      /\ g.y1 \in Int /\ g.y1 \in {e.y1, f.y1} /\ g.y1 <= e.y1 /\ g.y1 <= f.y1
      /\ g.x2 \in Int /\ g.x2 \in {e.x2, f.x2} /\ e.x2 <= g.x2 /\ f.x2 <= g.x2
      /\ g.y2 \in Int /\ g.y2 \in {e.y2, f.y2} /\ e.y2 <= g.y2 /\ f.y2 <= g.y2
  <2>1. g.x1 \in Int /\ g.x1 \in {e.x1, f.x1} /\ g.x1 <= e.x1 /\ g.x1 <= f.x1
    BY <1>1, <1>2 DEF Lesser
  <2>2. g.y1 \in Int /\ g.y1 \in {e.y1, f.y1} /\ g.y1 <= e.y1 /\ g.y1 <= f.y1
    BY <1>1, <1>2 DEF Lesser
  <2>3. g.x2 \in Int /\ g.x2 \in {e.x2, f.x2} /\ e.x2 <= g.x2 /\ f.x2 <= g.x2
    BY <1>1, <1>2 DEF Greater
  <2>4. g.y2 \in Int /\ g.y2 \in {e.y2, f.y2} /\ e.y2 <= g.y2 /\ f.y2 <= g.y2
    BY <1>1, <1>2 DEF Greater
  <2> QED BY <2>1, <2>2, <2>3, <2>4
<1>4. g \in Box
  BY <1>2, <1>3 DEF Box
<1>5. ASSUME NEW x \in Int, NEW y \in Int, <<x, y>> \in A \cup B PROVE InBox(g, x, y)
  <2>1. InBox(e, x, y) \/ InBox(f, x, y)
    BY <1>5 DEF Hull
  <2> QED BY <1>1, <1>3, <2>1 DEF InBox
<1>6. \E y \in Int : <<g.x1, y>> \in A \cup B
  BY <1>3 DEF Hull
<1>7. \E y \in Int : <<g.x2 - 1, y>> \in A \cup B
  BY <1>3 DEF Hull
<1>8. \E x \in Int : <<x, g.y1>> \in A \cup B
  BY <1>3 DEF Hull
<1>9. \E x \in Int : <<x, g.y2 - 1>> \in A \cup B
  BY <1>3 DEF Hull
<1> QED BY <1>4, <1>5, <1>6, <1>7, <1>8, <1>9 DEF Hull, g

(* A rectangle whose extents take in those of the other region has it all. *)
LEMMA SubsumedArea ==
  ASSUME NEW reg1, NEW reg2, NEW A, NEW B, RegionFor(reg1, A), RegionFor(reg2, B),
         reg2.bands # <<>>, Subsumes(reg1, reg2)
  PROVE  A \cup B = A
<1> DEFINE e == reg1.extents
           f == reg2.extents
           b == reg1.bands[1]
           s == b.spans[1]
<1>1. /\ e \in Box /\ f \in Box /\ e.x1 <= f.x1 /\ e.y1 <= f.y1 /\ e.x2 >= f.x2 /\ e.y2 >= f.y2
      /\ Len(reg1.bands) = 1 /\ Len(b.spans) = 1
      /\ Hull(e, A) /\ Hull(f, B) /\ IsArea(reg1.bands, A) /\ IsArea(reg2.bands, B)
  <2>1. Len(reg1.bands) = 1 => reg1.bands # <<>>
    BY DEF RegionFor, BandsOK
  <2> QED BY <2>1 DEF RegionFor, Region, Subsumes, IsOneRect
<1>2. BandsOK(reg1.bands) /\ 1 \in 1 .. Len(reg1.bands) /\ 1 \in 1 .. Len(b.spans)
  BY <1>1 DEF RegionFor
<1>3. SpansOK(b.spans) /\ b.y1 \in Int /\ b.y2 \in Int /\ s.x1 \in Int /\ s.x2 \in Int
  <2>1. SpansOK(b.spans) /\ b.y1 \in Int /\ b.y2 \in Int
    BY <1>2, BandAt
  <2> HIDE DEF b
  <2>2. s.x1 \in Int /\ s.x2 \in Int
    BY <1>2, <2>1, SpanAt
  <2> QED BY <2>1, <2>2
<1>4. ASSUME NEW x \in Int, NEW y \in Int
      PROVE  <<x, y>> \in A <=> b.y1 <= y /\ y < b.y2 /\ s.x1 <= x /\ x < s.x2
  BY <1>1 DEF IsArea, InBands, InFirstBands, InBand, InRows, InSpans, InFirst, InSpan
<1> HIDE DEF b, s, e, f
<1>5. {e.x1, e.x2, e.y1, e.y2, f.x1, f.x2, f.y1, f.y2} \subseteq Int /\ e.x2 - 1 \in Int /\ e.y2 - 1 \in Int
  BY <1>1 DEF Box
<1>6. s.x1 <= e.x1 /\ e.x2 - 1 < s.x2 /\ b.y1 <= e.y1 /\ e.y2 - 1 < b.y2
  BY <1>1, <1>4, <1>5 DEF Hull
<1>7. ASSUME NEW x \in Int, NEW y \in Int, <<x, y>> \in B PROVE <<x, y>> \in A
  <2>1. InBox(f, x, y)
    BY <1>1, <1>7 DEF Hull
  <2>2. e.x1 <= x /\ x < e.x2 /\ e.y1 <= y /\ y < e.y2
    BY SMTT(30), <1>1, <1>5, <2>1 DEF InBox
  <2>3. s.x1 <= x /\ x < s.x2
    BY <1>3, <1>5, <1>6, <2>2
  <2>4. b.y1 <= y /\ y < b.y2
    BY SMTT(30), <1>3, <1>5, <1>6, <2>2
  <2> QED BY <1>4, <2>3, <2>4
<1>8. A \cup B \subseteq Int \X Int
  BY <1>1 DEF IsArea
<1> QED BY <1>1, <1>7, <1>8, SameArea

(* XUnionRegion of any two regions is the region of what either area has.  *)
THEOREM UnionRegionIsUnion ==
  ASSUME NEW reg1, NEW reg2, NEW A, NEW B, RegionFor(reg1, A), RegionFor(reg2, B)
  PROVE  RegionFor(UnionRegion(reg1, reg2), A \cup B)
<1>1. CASE reg1.bands = <<>>
  <2>1. A \cup B = B
    BY <1>1, EmptyArea DEF RegionFor
  <2> QED BY <1>1, <2>1 DEF UnionRegion
<1>2. CASE reg1.bands # <<>> /\ reg2.bands = <<>>
  <2>1. A \cup B = A
    BY <1>2, EmptyArea DEF RegionFor
  <2> QED BY <1>2, <2>1 DEF UnionRegion
<1>3. CASE reg1.bands # <<>> /\ reg2.bands # <<>> /\ Subsumes(reg1, reg2)
  <2>1. A \cup B = A
    BY <1>3, SubsumedArea
  <2> QED BY <1>3, <2>1 DEF UnionRegion
<1>4. CASE reg1.bands # <<>> /\ reg2.bands # <<>> /\ ~Subsumes(reg1, reg2) /\ Subsumes(reg2, reg1)
  <2>1. B \cup A = B
    BY <1>4, SubsumedArea
  <2>2. A \cup B = B
    BY <2>1
  <2> QED BY <1>4, <2>2 DEF UnionRegion
<1>5. CASE reg1.bands # <<>> /\ reg2.bands # <<>> /\ ~Subsumes(reg1, reg2) /\ ~Subsumes(reg2, reg1)
  <2> DEFINE bands == RegionOp("union", reg1, reg2)
             g == [x1 |-> Lesser(reg1.extents.x1, reg2.extents.x1),
                   y1 |-> Lesser(reg1.extents.y1, reg2.extents.y1),
                   x2 |-> Greater(reg1.extents.x2, reg2.extents.x2),
                   y2 |-> Greater(reg1.extents.y2, reg2.extents.y2)]
  <2>1. UnionRegion(reg1, reg2) = [bands |-> bands, extents |-> g]
    BY <1>5 DEF UnionRegion
  <2>2. g \in Box /\ Hull(g, A \cup B)
    BY <1>5, HullOfUnion DEF RegionFor, Region
  <2> HIDE DEF g
  <2>3. BandsOK(bands) /\ IsArea(bands, A \cup B)
    <3>1. "union" \in Ops
      BY DEF Ops
    <3> QED BY <1>5, <3>1, RegionOpArea
  <2> HIDE DEF bands
  <2> QED BY <2>1, <2>2, <2>3, IsRegion
<1> QED BY <1>1, <1>2, <1>3, <1>4, <1>5

(* Regions that are Apart have nothing in common.                          *)
LEMMA ApartAreas ==
  ASSUME NEW reg1, NEW reg2, NEW A, NEW B, RegionFor(reg1, A), RegionFor(reg2, B), Apart(reg1, reg2)
  PROVE  A \cap B = {}
<1>1. CASE reg1.bands = <<>> \/ reg2.bands = <<>>
  BY <1>1, EmptyArea DEF RegionFor
<1>2. CASE reg1.bands # <<>> /\ reg2.bands # <<>>
  <2> DEFINE e == reg1.extents
             f == reg2.extents
  <2>1. ~Meet(e, f)
    BY <1>2 DEF Apart
  <2>2. e \in Box /\ f \in Box /\ Hull(e, A) /\ Hull(f, B) /\ A \subseteq Int \X Int
    BY <1>2 DEF RegionFor, Region, IsArea
  <2> HIDE DEF e, f
  <2>3. {e.x1, e.x2, e.y1, e.y2, f.x1, f.x2, f.y1, f.y2} \subseteq Int
    BY <2>2 DEF Box
  <2>4. ASSUME NEW x \in Int, NEW y \in Int, <<x, y>> \in A, <<x, y>> \in B PROVE FALSE
    <3>1. InBox(e, x, y) /\ InBox(f, x, y)
      BY <2>2, <2>4 DEF Hull
    <3> QED BY <2>1, <2>3, <3>1 DEF InBox, Meet
  <2>5. ASSUME NEW c \in A \cap B PROVE FALSE
    <3>1. PICK x \in Int, y \in Int : c = <<x, y>>
      BY <2>2, <2>5
    <3> QED BY <2>4, <2>5, <3>1
  <2> QED BY <2>5
<1> QED BY <1>1, <1>2

(* XIntersectRegion of any two regions is the region of what both areas    *)
(* have.                                                                   *)
THEOREM IntersectRegionIsIntersection ==
  ASSUME NEW reg1, NEW reg2, NEW A, NEW B, RegionFor(reg1, A), RegionFor(reg2, B)
  PROVE  RegionFor(IntersectRegion(reg1, reg2), A \cap B)
<1> DEFINE bands == IF Apart(reg1, reg2) THEN <<>> ELSE RegionOp("intersect", reg1, reg2)
<1>1. IntersectRegion(reg1, reg2) = [bands |-> bands, extents |-> SetExtents(bands)]
  BY DEF IntersectRegion
<1>2. BandsOK(bands) /\ IsArea(bands, A \cap B)
  <2>1. CASE Apart(reg1, reg2)
    <3>1. A \cap B = {}
      BY <2>1, ApartAreas
    <3> QED BY <2>1, <3>1, EmptyBands DEF IsArea
  <2>2. CASE ~Apart(reg1, reg2)
    <3>1. "intersect" \in Ops /\ reg1.bands # <<>> /\ reg2.bands # <<>> /\ "intersect" # "union"
      BY <2>2 DEF Ops, Apart
    <3>2. bands = RegionOp("intersect", reg1, reg2)
      BY <2>2
    <3> HIDE DEF bands
    <3> QED BY <3>1, <3>2, RegionOpArea
  <2> QED BY <2>1, <2>2
<1> HIDE DEF bands
<1>3. SetExtents(bands) \in Box /\ (bands # <<>> => Hull(SetExtents(bands), A \cap B))
  BY <1>2, SetExtentsIsHull
<1> QED BY <1>1, <1>2, <1>3, IsRegion

(* XSubtractRegion of any two regions is the region of what the first area *)
(* has and the second has not.                                             *)
THEOREM SubtractRegionIsDifference ==
  ASSUME NEW reg1, NEW reg2, NEW A, NEW B, RegionFor(reg1, A), RegionFor(reg2, B)
  PROVE  RegionFor(SubtractRegion(reg1, reg2), A \ B)
<1>1. CASE Apart(reg1, reg2)
  <2>1. A \cap B = {}
    BY <1>1, ApartAreas
  <2>2. A \ B = A
    BY <2>1
  <2> QED BY <1>1, <2>2 DEF SubtractRegion
<1>2. CASE ~Apart(reg1, reg2)
  <2> DEFINE bands == RegionOp("subtract", reg1, reg2)
  <2>1. SubtractRegion(reg1, reg2) = [bands |-> bands, extents |-> SetExtents(bands)]
    BY <1>2 DEF SubtractRegion
  <2>2. /\ "subtract" \in Ops /\ reg1.bands # <<>> /\ reg2.bands # <<>> /\ "subtract" # "union"
        /\ "subtract" # "intersect"
    BY <1>2 DEF Ops, Apart
  <2>3. BandsOK(bands) /\ IsArea(bands, A \ B)
    BY <2>2, RegionOpArea
  <2> HIDE DEF bands
  <2>4. SetExtents(bands) \in Box /\ (bands # <<>> => Hull(SetExtents(bands), A \ B))
    BY <2>3, SetExtentsIsHull
  <2> QED BY <2>1, <2>3, <2>4, IsRegion
<1> QED BY <1>1, <1>2

(* XXorRegion of any two regions is the region of what just one of the     *)
(* areas has.                                                              *)
THEOREM XorRegionIsDifference ==
  ASSUME NEW reg1, NEW reg2, NEW A, NEW B, RegionFor(reg1, A), RegionFor(reg2, B)
  PROVE  RegionFor(XorRegion(reg1, reg2), (A \ B) \cup (B \ A))
BY SubtractRegionIsDifference, UnionRegionIsUnion DEF XorRegion

(* XOffsetRegion.                                                          *)
MovedSpans(spans, x) == [j \in DOMAIN spans |-> [x1 |-> spans[j].x1 + x, x2 |-> spans[j].x2 + x]]
MovedBands(bands, x, y) ==
  [i \in DOMAIN bands |-> [y1 |-> bands[i].y1 + y, y2 |-> bands[i].y2 + y,
                           spans |-> MovedSpans(bands[i].spans, x)]]

(* Spans moved are spans, at the points moved.                             *)
LEMMA MovedSpansOK ==
  ASSUME NEW spans, SpansOK(spans), NEW x \in Int
  PROVE  /\ SpansOK(MovedSpans(spans, x)) /\ (spans # <<>> => MovedSpans(spans, x) # <<>>)
         /\ \A u \in Int : InSpans(MovedSpans(spans, x), u) <=> InSpans(spans, u - x)
<1> DEFINE n == Len(spans)
           new == MovedSpans(spans, x)
<1>1. /\ n \in Nat /\ DOMAIN spans = 1 .. n /\ (spans # <<>> => n # 0)
      /\ \A i \in 1 .. n : spans[i].x1 \in Int /\ spans[i].x2 \in Int /\ spans[i].x1 < spans[i].x2
  BY SpanAt DEF SpansOK, IsSpan
<1>2. \A i, j \in 1 .. n : i < j => spans[i].x2 < spans[j].x1
  BY SpanAt
<1>3. /\ new = [i \in 1 .. n |-> [x1 |-> spans[i].x1 + x, x2 |-> spans[i].x2 + x]]
      /\ \A i \in 1 .. n : new[i] \in Span /\ new[i].x1 = spans[i].x1 + x /\ new[i].x2 = spans[i].x2 + x
  BY <1>1 DEF MovedSpans, Span
<1> HIDE DEF n, new
<1>4. new \in [1 .. n -> Span]
  BY <1>3
<1>5. new \in Seq(Span) /\ Len(new) = n
  BY <1>1, <1>4
<1>6. SpansOK(new)
  BY <1>1, <1>2, <1>3, <1>5 DEF SpansOK
<1>7. ASSUME NEW u \in Int PROVE InSpans(new, u) <=> InSpans(spans, u - x)
  <2>1. ASSUME NEW i \in 1 .. n PROVE InSpan(new[i], u) <=> InSpan(spans[i], u - x)
    BY <1>1, <1>3 DEF InSpan
  <2> QED BY <1>5, <2>1 DEF InSpans, InFirst, n
<1>8. spans # <<>> => new # <<>>
  BY <1>1, <1>5
<1> QED BY <1>6, <1>7, <1>8 DEF new

(* Spans that differ differ when they are moved.                           *)
LEMMA MovedSpansDiffer ==
  ASSUME NEW p, SpansOK(p), NEW q, SpansOK(q), NEW x \in Int, p # q
  PROVE  MovedSpans(p, x) # MovedSpans(q, x)
<1>1. SUFFICES ASSUME MovedSpans(p, x) = MovedSpans(q, x) PROVE p = q
  OBVIOUS
<1>2. p \in Seq(Span) /\ q \in Seq(Span) /\ DOMAIN p = 1 .. Len(p) /\ DOMAIN q = 1 .. Len(q)
  BY DEF SpansOK
<1>3. DOMAIN MovedSpans(p, x) = DOMAIN p /\ DOMAIN MovedSpans(q, x) = DOMAIN q
  BY DEF MovedSpans
<1>4. DOMAIN p = DOMAIN q
  BY <1>1, <1>3
<1>5. ASSUME NEW i \in DOMAIN p PROVE p[i] = q[i]
  <2>1. MovedSpans(p, x)[i] = [x1 |-> p[i].x1 + x, x2 |-> p[i].x2 + x]
    BY DEF MovedSpans
  <2>2. MovedSpans(q, x)[i] = [x1 |-> q[i].x1 + x, x2 |-> q[i].x2 + x]
    BY <1>4 DEF MovedSpans
  <2>3. p[i].x1 + x = q[i].x1 + x /\ p[i].x2 + x = q[i].x2 + x
    BY <1>1, <2>1, <2>2
  <2>4. p[i] \in Span /\ q[i] \in Span
    BY <1>2, <1>4
  <2>5. p[i].x1 = q[i].x1 /\ p[i].x2 = q[i].x2
    BY <2>3, <2>4 DEF Span
  <2> QED BY <2>4, <2>5 DEF Span
<1>6. Len(p) \in Nat /\ Len(q) \in Nat
  BY <1>2
<1>7. Len(p) = Len(q)
  <2>1. \A m, n \in Nat : m < n => n \in 1 .. n /\ n \notin 1 .. m
    OBVIOUS
  <2>2. ~(Len(p) < Len(q)) /\ ~(Len(q) < Len(p))
    BY <1>2, <1>4, <1>6, <2>1
  <2> QED BY <1>6, <2>2
<1> QED BY <1>2, <1>5, <1>7

(* The points of an area that is moved.                                    *)
LEMMA MovedPoint ==
  ASSUME NEW A, A \subseteq Int \X Int, NEW x \in Int, NEW y \in Int
  PROVE  /\ Moved(A, x, y) \subseteq Int \X Int
         /\ \A u, v \in Int : <<u, v>> \in Moved(A, x, y) <=> <<u - x, v - y>> \in A
<1>1. ASSUME NEW c \in A PROVE /\ c[1] \in Int /\ c[2] \in Int /\ c = <<c[1], c[2]>>
                               /\ c[1] + x - x = c[1] /\ c[2] + y - y = c[2]
  <2>1. c[1] \in Int /\ c[2] \in Int /\ c = <<c[1], c[2]>>
    OBVIOUS
  <2> QED BY <2>1
<1>2. Moved(A, x, y) \subseteq Int \X Int
  BY <1>1 DEF Moved
<1>3. ASSUME NEW u \in Int, NEW v \in Int, <<u, v>> \in Moved(A, x, y) PROVE <<u - x, v - y>> \in A
  <2>1. PICK c \in A : <<u, v>> = <<c[1] + x, c[2] + y>>
    BY <1>3 DEF Moved
  <2>2. u = c[1] + x /\ v = c[2] + y
    BY <2>1
  <2>3. u - x = c[1] /\ v - y = c[2]
    BY <1>1, <2>2
  <2>4. <<u - x, v - y>> = c
    BY <1>1, <2>3
  <2> QED BY <2>4
<1>4. ASSUME NEW u \in Int, NEW v \in Int, <<u - x, v - y>> \in A PROVE <<u, v>> \in Moved(A, x, y)
  <2>1. PICK c \in A : c = <<u - x, v - y>>
    BY <1>4
  <2>2. c[1] + x = u /\ c[2] + y = v
    BY <2>1
  <2> QED BY <2>2 DEF Moved
<1> QED BY <1>2, <1>3, <1>4

(* XOffsetRegion of any region is the region of the area moved.            *)
THEOREM OffsetRegionIsMoved ==
  ASSUME NEW reg, NEW A, RegionFor(reg, A), NEW x \in Int, NEW y \in Int
  PROVE  RegionFor(OffsetRegion(reg, x, y), Moved(A, x, y))
<1> DEFINE bands == reg.bands
           new == MovedBands(bands, x, y)
           n == Len(bands)
           e == reg.extents
           f == [x1 |-> e.x1 + x, y1 |-> e.y1 + y, x2 |-> e.x2 + x, y2 |-> e.y2 + y]
           B == Moved(A, x, y)
<1>1. OffsetRegion(reg, x, y) = [bands |-> new, extents |-> f]
  BY DEF OffsetRegion, MovedBands, MovedSpans
<1>2. BandsOK(bands) /\ IsArea(bands, A) /\ e \in Box /\ (bands # <<>> => Hull(e, A)) /\ A \subseteq Int \X Int
  BY DEF RegionFor, Region, IsArea
<1>3. f.x1 = e.x1 + x /\ f.y1 = e.y1 + y /\ f.x2 = e.x2 + x /\ f.y2 = e.y2 + y /\ f \in Box
  BY <1>2 DEF Box
<1> HIDE DEF bands, e
<1>4. /\ n \in Nat /\ DOMAIN bands = 1 .. n /\ (n = 0 => bands = <<>>)
      /\ \A i \in 1 .. n : /\ IsBand(bands[i]) /\ bands[i].y1 \in Int /\ bands[i].y2 \in Int
                           /\ bands[i].y1 < bands[i].y2
                           /\ SpansOK(bands[i].spans) /\ bands[i].spans # <<>>
  BY <1>2, BandAt DEF BandsOK
<1>5. \A i, j \in 1 .. n : i < j => Above(bands[i], bands[j])
  BY <1>2 DEF BandsOK
<1>6. new = [i \in 1 .. n |-> [y1 |-> bands[i].y1 + y, y2 |-> bands[i].y2 + y,
                               spans |-> MovedSpans(bands[i].spans, x)]]
  BY <1>4 DEF MovedBands
<1> HIDE DEF n, new, f, B
<1>7. ASSUME NEW i \in 1 .. n
      PROVE  /\ new[i].y1 = bands[i].y1 + y /\ new[i].y2 = bands[i].y2 + y
             /\ new[i].spans = MovedSpans(bands[i].spans, x)
             /\ IsBand(new[i])
  <2>1. new[i] = [y1 |-> bands[i].y1 + y, y2 |-> bands[i].y2 + y, spans |-> MovedSpans(bands[i].spans, x)]
    BY <1>6
  <2>2. SpansOK(MovedSpans(bands[i].spans, x)) /\ MovedSpans(bands[i].spans, x) # <<>>
    BY <1>4, MovedSpansOK
  <2>3. new[i] \in Band
    BY <1>4, <2>1, <2>2 DEF Band, SpansOK
  <2> QED BY <1>4, <2>1, <2>2, <2>3 DEF IsBand
<1>8. new \in Seq(Band) /\ Len(new) = n
  <2>1. \A i \in 1 .. n : new[i] \in Band
    BY <1>7 DEF IsBand
  <2>2. new \in [1 .. n -> Band]
    BY <1>6, <2>1
  <2> QED BY <1>4, <2>2
<1>9. ASSUME NEW i \in 1 .. n, NEW j \in 1 .. n, i < j PROVE Above(new[i], new[j])
  <2>1. Above(bands[i], bands[j])
    BY <1>5, <1>9
  <2>2. bands[i].spans # bands[j].spans => new[i].spans # new[j].spans
    BY <1>4, <1>7, MovedSpansDiffer
  <2>3. /\ bands[i].y2 <= bands[j].y1 /\ bands[i].y2 \in Int /\ bands[j].y1 \in Int
        /\ bands[i].y2 = bands[j].y1 => bands[i].spans # bands[j].spans
    BY <1>4, <2>1 DEF Above
  <2>4. new[i].y2 = bands[i].y2 + y /\ new[j].y1 = bands[j].y1 + y
    BY <1>7
  <2>5. new[i].y2 <= new[j].y1 /\ (new[i].y2 = new[j].y1 => bands[i].y2 = bands[j].y1)
    <3>1. PICK a \in Int : a = bands[i].y2
      BY <2>3
    <3>2. PICK b \in Int : b = bands[j].y1
      BY <2>3
    <3>3. a <= b /\ new[i].y2 = a + y /\ new[j].y1 = b + y
      BY <2>3, <2>4, <3>1, <3>2
    <3>4. a + y <= b + y /\ (a + y = b + y => a = b)
      BY <3>3
    <3> QED BY <3>1, <3>2, <3>3, <3>4
  <2> QED BY <2>2, <2>3, <2>5 DEF Above
<1>10. BandsOK(new)
  BY <1>7, <1>8, <1>9 DEF BandsOK
<1>11. B \subseteq Int \X Int /\ \A u, v \in Int : <<u, v>> \in B <=> <<u - x, v - y>> \in A
  BY <1>2, MovedPoint DEF B
<1>12. ASSUME NEW u \in Int, NEW v \in Int PROVE <<u, v>> \in B <=> InBands(new, u, v)
  <2>1. u - x \in Int /\ v - y \in Int
    OBVIOUS
  <2>2. <<u - x, v - y>> \in A <=> InBands(bands, u - x, v - y)
    BY <1>2, <2>1 DEF IsArea
  <2>3. ASSUME NEW i \in 1 .. n PROVE InBand(new[i], u, v) <=> InBand(bands[i], u - x, v - y)
    <3>1. InSpans(new[i].spans, u) <=> InSpans(bands[i].spans, u - x)
      BY <1>4, <1>7, MovedSpansOK
    <3>2. InRows(new[i], v) <=> InRows(bands[i], v - y)
      BY <1>4, <1>7 DEF InRows
    <3> QED BY <3>1, <3>2 DEF InBand
  <2> QED BY <1>8, <1>11, <2>2, <2>3 DEF InBands, InFirstBands, n
<1>13. IsArea(new, B)
  BY <1>11, <1>12 DEF IsArea
<1>14. ASSUME new # <<>> PROVE Hull(f, B)
  <2>1. bands # <<>>
    <3>1. n # 0
      BY <1>8, <1>14
    <3> QED BY <3>1, <1>2 DEF n, BandsOK
  <2>2. Hull(e, A) /\ e.x1 \in Int /\ e.x2 \in Int /\ e.y1 \in Int /\ e.y2 \in Int
    BY <1>2, <2>1 DEF Box
  <2>3. ASSUME NEW u \in Int, NEW v \in Int, <<u, v>> \in B PROVE InBox(f, u, v)
    <3>1. u - x \in Int /\ v - y \in Int /\ <<u - x, v - y>> \in A
      BY <1>11, <2>3
    <3>2. InBox(e, u - x, v - y)
      BY <2>2, <3>1 DEF Hull
    <3> QED BY <1>3, <2>2, <3>2 DEF InBox
  <2>4. ASSUME NEW u \in Int, NEW v \in Int, <<u, v>> \in A
        PROVE  u + x \in Int /\ v + y \in Int /\ <<u + x, v + y>> \in B
    <3>1. u + x \in Int /\ v + y \in Int /\ u + x - x = u /\ v + y - y = v
      OBVIOUS
    <3> QED BY <1>11, <2>4, <3>1
  <2>5. f.x1 = e.x1 + x /\ f.y1 = e.y1 + y /\ f.x2 - 1 = e.x2 - 1 + x /\ f.y2 - 1 = e.y2 - 1 + y
    BY <1>3, <2>2
  <2>6. e.x2 - 1 \in Int /\ e.y2 - 1 \in Int
    BY <2>2
  <2>7. \E v \in Int : <<f.x1, v>> \in B
    BY <2>2, <2>4, <2>5 DEF Hull
  <2>8. \E v \in Int : <<f.x2 - 1, v>> \in B
    BY <2>2, <2>4, <2>5, <2>6 DEF Hull
  <2>9. \E u \in Int : <<u, f.y1>> \in B
    BY <2>2, <2>4, <2>5 DEF Hull
  <2>10. \E u \in Int : <<u, f.y2 - 1>> \in B
    BY <2>2, <2>4, <2>5, <2>6 DEF Hull
  <2> QED BY <2>3, <2>7, <2>8, <2>9, <2>10 DEF Hull
<1>15. f \in Box
  BY <1>3
<1> QED BY <1>1, <1>10, <1>13, <1>14, <1>15, IsRegion DEF B

(***************************************************************************)
(* XShrinkRegion: a cell goes by the cells before and after it.            *)
(***************************************************************************)
Directions == {<<1, 0>>, <<0, 1>>}
Along(A, xy, u, v, i) == IF xy = <<1, 0>> THEN <<u + i, v>> \in A ELSE <<u, v + i>> \in A

(* One of the cells from lo to hi is there, or all of them.                *)
Covered(A, xy, grow, lo, hi, u, v) ==
  IF grow THEN \E i \in lo .. hi : Along(A, xy, u, v, i) ELSE \A i \in lo .. hi : Along(A, xy, u, v, i)
RunFor(reg, A, xy, grow, n) ==
  \E B : /\ RegionFor(reg, B)
         /\ \A u, v \in Int : <<u, v>> \in B <=> Covered(A, xy, grow, 0, n, u, v)

(* A run that begins k further on.                                         *)
LEMMA CoveredFrom ==
  ASSUME NEW A, NEW xy \in Directions, NEW grow \in BOOLEAN, NEW lo \in Int, NEW hi \in Int,
         NEW k \in Int, NEW u \in Int, NEW v \in Int
  PROVE  Covered(A, xy, grow, lo, hi, IF xy = <<1, 0>> THEN u + k ELSE u,
                                      IF xy = <<1, 0>> THEN v ELSE v + k)
           <=> Covered(A, xy, grow, lo + k, hi + k, u, v)
<1> DEFINE p == IF xy = <<1, 0>> THEN u + k ELSE u
           q == IF xy = <<1, 0>> THEN v ELSE v + k
<1>1. ASSUME NEW i \in lo .. hi PROVE i + k \in lo + k .. hi + k /\ (Along(A, xy, p, q, i) <=> Along(A, xy, u, v, i + k))
  <2>1. u + k + i = u + (i + k) /\ v + k + i = v + (i + k)
    OBVIOUS
  <2> QED BY <2>1 DEF Along
<1>2. ASSUME NEW i \in lo + k .. hi + k PROVE i - k \in lo .. hi /\ i = i - k + k
  OBVIOUS
<1> HIDE DEF p, q
<1>3. Covered(A, xy, grow, lo, hi, p, q) <=> Covered(A, xy, grow, lo + k, hi + k, u, v)
  BY <1>1, <1>2 DEF Covered
<1> QED BY <1>3 DEF p, q

(* A run is made of two that follow on one another.                        *)
LEMMA CoveredTogether ==
  ASSUME NEW A, NEW xy, NEW grow \in BOOLEAN, NEW m \in Nat, NEW n \in Nat, m < n, NEW u, NEW v
  PROVE  /\ grow => (Covered(A, xy, grow, 0, n, u, v) <=>
                       Covered(A, xy, grow, m + 1, n, u, v) \/ Covered(A, xy, grow, 0, m, u, v))
         /\ ~grow => (Covered(A, xy, grow, 0, n, u, v) <=>
                        Covered(A, xy, grow, m + 1, n, u, v) /\ Covered(A, xy, grow, 0, m, u, v))
<1>1. \A i \in 0 .. n : i \in m + 1 .. n \/ i \in 0 .. m
  OBVIOUS
<1>2. (\A i \in m + 1 .. n : i \in 0 .. n) /\ (\A i \in 0 .. m : i \in 0 .. n)
  OBVIOUS
<1> QED BY <1>1, <1>2 DEF Covered

ZOp(a, b, grow) == IF grow THEN UnionRegion(a, b) ELSE IntersectRegion(a, b)
Back(reg, n, xy) == OffsetRegion(reg, -n * xy[1], -n * xy[2])

(* ZOpRegion of a region and one that is moved: the runs of one follow on  *)
(* those of the other.                                                     *)
LEMMA RunsTogether ==
  ASSUME NEW A, NEW xy \in Directions, NEW grow \in BOOLEAN, NEW r, NEW s, NEW k \in Nat,
         NEW shift \in Nat \ {0}, RunFor(r, A, xy, grow, k), RunFor(s, A, xy, grow, shift - 1)
  PROVE  RunFor(ZOp(Back(r, shift, xy), s, grow), A, xy, grow, k + shift)
<1>1. PICK B : /\ RegionFor(r, B)
               /\ \A u, v \in Int : <<u, v>> \in B <=> Covered(A, xy, grow, 0, k, u, v)
  BY DEF RunFor
<1>2. PICK C : /\ RegionFor(s, C)
               /\ \A u, v \in Int : <<u, v>> \in C <=> Covered(A, xy, grow, 0, shift - 1, u, v)
  BY DEF RunFor
<1> DEFINE x == -shift * xy[1]
           y == -shift * xy[2]
           D == Moved(B, x, y)
<1>3. /\ x \in Int /\ y \in Int
      /\ \A u, v \in Int : u - x = (IF xy = <<1, 0>> THEN u + shift ELSE u)
      /\ \A u, v \in Int : v - y = (IF xy = <<1, 0>> THEN v ELSE v + shift)
  <2>1. CASE xy = <<1, 0>>
    <3>1. x = -shift /\ y = 0
      BY <2>1
    <3> QED BY <2>1, <3>1
  <2>2. CASE xy = <<0, 1>>
    <3>1. x = 0 /\ y = -shift /\ xy # <<1, 0>>
      BY <2>2
    <3> QED BY <2>2, <3>1
  <2> QED BY <2>1, <2>2 DEF Directions
<1>4. Back(r, shift, xy) = OffsetRegion(r, x, y)
  BY DEF Back
<1> HIDE DEF x, y
<1>5. RegionFor(OffsetRegion(r, x, y), D)
  BY <1>1, <1>3, OffsetRegionIsMoved
<1>6. B \subseteq Int \X Int
  BY <1>1 DEF RegionFor, IsArea
<1>7. \A u, v \in Int : <<u, v>> \in D <=> <<u - x, v - y>> \in B
  BY <1>3, <1>6, MovedPoint
<1> HIDE DEF D
<1>8. ASSUME NEW u \in Int, NEW v \in Int
      PROVE  <<u, v>> \in D <=> Covered(A, xy, grow, shift, k + shift, u, v)
  <2> DEFINE p == IF xy = <<1, 0>> THEN u + shift ELSE u
             q == IF xy = <<1, 0>> THEN v ELSE v + shift
  <2>1. u - x = p /\ v - y = q /\ p \in Int /\ q \in Int
    BY <1>3
  <2>2. Covered(A, xy, grow, 0, k, p, q) <=> Covered(A, xy, grow, 0 + shift, k + shift, u, v)
    <3>1. 0 \in Int /\ k \in Int /\ shift \in Int
      OBVIOUS
    <3> QED BY <3>1, CoveredFrom
  <2>3. 0 + shift = shift
    OBVIOUS
  <2> HIDE DEF p, q
  <2> QED BY <1>1, <1>7, <2>1, <2>2, <2>3
<1>9. ASSUME NEW u \in Int, NEW v \in Int
      PROVE  /\ grow => (Covered(A, xy, grow, 0, k + shift, u, v) <=> <<u, v>> \in D \/ <<u, v>> \in C)
             /\ ~grow => (Covered(A, xy, grow, 0, k + shift, u, v) <=> <<u, v>> \in D /\ <<u, v>> \in C)
  <2>1. PICK m \in Nat : m = shift - 1 /\ m + 1 = shift
    OBVIOUS
  <2>2. PICK n \in Nat : n = k + shift
    OBVIOUS
  <2>3. m < n
    BY <2>1, <2>2
  <2>4. /\ grow => (Covered(A, xy, grow, 0, n, u, v) <=>
                       Covered(A, xy, grow, m + 1, n, u, v) \/ Covered(A, xy, grow, 0, m, u, v))
        /\ ~grow => (Covered(A, xy, grow, 0, n, u, v) <=>
                        Covered(A, xy, grow, m + 1, n, u, v) /\ Covered(A, xy, grow, 0, m, u, v))
    BY <2>3, CoveredTogether
  <2> QED BY <1>2, <1>8, <2>1, <2>2, <2>4
<1>10. CASE grow
  <2>1. RegionFor(UnionRegion(OffsetRegion(r, x, y), s), D \cup C)
    BY <1>2, <1>5, UnionRegionIsUnion
  <2>2. \A u, v \in Int : <<u, v>> \in D \cup C <=> Covered(A, xy, grow, 0, k + shift, u, v)
    BY <1>9, <1>10
  <2> QED BY <1>4, <1>10, <2>1, <2>2 DEF RunFor, ZOp
<1>11. CASE ~grow
  <2>1. RegionFor(IntersectRegion(OffsetRegion(r, x, y), s), D \cap C)
    BY <1>2, <1>5, IntersectRegionIsIntersection
  <2>2. \A u, v \in Int : <<u, v>> \in D \cap C <=> Covered(A, xy, grow, 0, k + shift, u, v)
    BY <1>9, <1>11
  <2> QED BY <1>4, <1>11, <2>1, <2>2 DEF RunFor, ZOp
<1> QED BY <1>10, <1>11

(* Multiples of a length.                                                  *)
LEMMA WholeRuns ==
  ASSUME NEW q \in Nat, NEW s \in Nat \ {0}
  PROVE  (q * s) \div s = q /\ q * s \in Nat /\ (q * s = 0 <=> q = 0)
OBVIOUS

(* A multiple of a length, less one length if it is odd, is one of twice   *)
(* that length.                                                            *)
LEMMA HalfTheRuns ==
  ASSUME NEW q \in Nat, q # 0, NEW s \in Nat \ {0}
  PROVE  \E p \in Nat : /\ p < q
                        /\ (IF q % 2 = 1 THEN q * s - s ELSE q * s) = p * (2 * s)
                        /\ q % 2 = 1 => s <= q * s
<1>1. CASE q % 2 = 1
  <2>1. q - 1 = 2 * (q \div 2) /\ q \div 2 \in Nat /\ q \div 2 < q
    BY <1>1
  <2>2. PICK p \in Nat : p = q \div 2
    BY <2>1
  <2>3. q * s - s = p * (2 * s)
    BY <2>1, <2>2
  <2>4. s <= q * s
    OBVIOUS
  <2> QED BY <1>1, <2>1, <2>2, <2>3, <2>4
<1>2. CASE q % 2 # 1
  <2>1. q = 2 * (q \div 2) /\ q \div 2 \in Nat /\ q \div 2 < q
    BY <1>2
  <2>2. PICK p \in Nat : p = q \div 2
    BY <2>1
  <2>3. q * s = p * (2 * s)
    BY <2>1, <2>2
  <2> QED BY <1>2, <2>1, <2>2, <2>3
<1> QED BY <1>1, <1>2

(* r has the lengths already added, s a run of length shift; what is left  *)
(* of dx are whole runs.                                                   *)
CompressState == [r : Region, s : Region, dx : Nat, shift : Nat \ {0}]
CompressGood(A, xy, grow, n, t) ==
  /\ \E q \in Nat : t.dx = q * t.shift
  /\ t.dx <= n /\ RunFor(t.r, A, xy, grow, n - t.dx)
  /\ t.dx # 0 => RunFor(t.s, A, xy, grow, t.shift - 1)

(* A round of Compress: s covers runs of the length shift, r those of what *)
(* has been taken off dx.                                                  *)
LEMMA CompressStepGood ==
  ASSUME NEW A, NEW xy \in Directions, NEW grow \in BOOLEAN, NEW n \in Nat, NEW t \in CompressState,
         CompressGood(A, xy, grow, n, t), t.dx # 0
  PROVE  LET u == CompressStep(t, xy, grow)
         IN /\ u \in CompressState /\ CompressGood(A, xy, grow, n, u)
            /\ 0 < t.dx \div t.shift /\ u.dx \div u.shift < t.dx \div t.shift
            /\ t.dx \div t.shift \in Int /\ u.dx \div u.shift \in Int
<1> DEFINE odd == (t.dx \div t.shift) % 2 = 1
           left == IF odd THEN t.dx - t.shift ELSE t.dx
           r == IF odd THEN ZOp(Back(t.r, t.shift, xy), t.s, grow) ELSE t.r
           s == IF left = 0 THEN t.s ELSE ZOp(Back(t.s, t.shift, xy), t.s, grow)
           u == [r |-> r, s |-> s, dx |-> left, shift |-> 2 * t.shift]
<1>1. CompressStep(t, xy, grow) = u
  BY DEF CompressStep, ZOp, Back
<1>2. t.r \in Region /\ t.s \in Region /\ t.dx \in Nat /\ t.shift \in Nat \ {0}
  BY DEF CompressState
<1>3. PICK q \in Nat : t.dx = q * t.shift
  BY DEF CompressGood
<1>4. t.dx \div t.shift = q /\ q # 0
  BY <1>2, <1>3, WholeRuns
<1>5. /\ t.dx <= n /\ RunFor(t.r, A, xy, grow, n - t.dx)
      /\ RunFor(t.s, A, xy, grow, t.shift - 1)
  BY DEF CompressGood
<1>6. PICK p \in Nat : /\ p < q /\ left = p * (2 * t.shift)
                       /\ odd => t.shift <= t.dx
  BY <1>2, <1>3, <1>4, HalfTheRuns
<1>7. /\ u.r = r /\ u.s = s /\ u.dx = left /\ u.shift = 2 * t.shift
      /\ \A S1, S2, S3, S4 : u.r \in S1 /\ u.s \in S2 /\ u.dx \in S3 /\ u.shift \in S4 =>
           u \in [r : S1, s : S2, dx : S3, shift : S4]
  OBVIOUS
<1>8. u.shift \in Nat \ {0} /\ u.shift - 1 = t.shift - 1 + t.shift
  BY <1>2, <1>7
<1>9. left \in Nat /\ left <= n /\ (odd => n - left = n - t.dx + t.shift) /\ (~odd => left = t.dx)
  <2>1. CASE odd
    <3>1. left = t.dx - t.shift /\ t.shift <= t.dx
      BY <1>6, <2>1
    <3> HIDE DEF left
    <3> QED BY <1>2, <1>5, <2>1, <3>1
  <2>2. CASE ~odd
    BY <1>2, <1>5, <2>2
  <2> QED BY <2>1, <2>2
<1> HIDE DEF u
<1>10. RunFor(r, A, xy, grow, n - left)
  <2>1. CASE odd
    <3>1. n - t.dx \in Nat /\ r = ZOp(Back(t.r, t.shift, xy), t.s, grow)
      BY <1>2, <1>5, <2>1
    <3> HIDE DEF r, left
    <3>2. RunFor(r, A, xy, grow, n - t.dx + t.shift)
      BY <1>2, <1>5, <3>1, RunsTogether
    <3> QED BY <1>9, <2>1, <3>2
  <2>2. CASE ~odd
    BY <1>5, <2>2
  <2> QED BY <2>1, <2>2
<1>11. left # 0 => RunFor(s, A, xy, grow, u.shift - 1)
  <2>1. t.shift - 1 \in Nat
    BY <1>2
  <2>2. RunFor(ZOp(Back(t.s, t.shift, xy), t.s, grow), A, xy, grow, t.shift - 1 + t.shift)
    BY <1>2, <1>5, <2>1, RunsTogether
  <2> HIDE DEF left
  <2> QED BY <1>8, <2>2
<1>12. r \in Region /\ s \in Region
  <2>1. r \in Region
    BY <1>10 DEF RunFor, RegionFor
  <2>2. left = 0 => s \in Region
    BY <1>2
  <2>3. left # 0 => s \in Region
    BY <1>11 DEF RunFor, RegionFor
  <2> QED BY <2>1, <2>2, <2>3
<1> HIDE DEF r, s, left
<1>13. u \in CompressState
  BY <1>7, <1>8, <1>9, <1>12 DEF CompressState
<1>14. CompressGood(A, xy, grow, n, u)
  BY <1>6, <1>7, <1>9, <1>10, <1>11 DEF CompressGood
<1>15. u.dx \div u.shift = p
  BY <1>6, <1>7, <1>8, WholeRuns
<1> QED BY <1>1, <1>4, <1>6, <1>13, <1>14, <1>15

(* Compress.                                                               *)
LEMMA CompressIsRun ==
  ASSUME NEW reg, NEW A, RegionFor(reg, A), NEW dx \in Nat, NEW xy \in Directions, NEW grow \in BOOLEAN
  PROVE  RunFor(Compress(reg, dx, xy, grow), A, xy, grow, dx)
<1> DEFINE N == dx
           Begin == [r |-> reg, s |-> reg, dx |-> dx, shift |-> 1]
           Test(t) == t.dx # 0
           I == {t \in CompressState : CompressGood(A, xy, grow, dx, t)}
           G == {t \in I : Test(t)}
           F == [t \in I |-> IF Test(t) THEN CompressStep(t, xy, grow) ELSE t]
           M == [t \in I |-> t.dx \div t.shift]
<1>1. N \in Nat
  OBVIOUS
<1>2. Begin \in I
  <2>1. reg \in Region
    BY DEF RegionFor
  <2>2. Begin \in CompressState
    BY <2>1 DEF CompressState
  <2>3. Begin.r = reg /\ Begin.s = reg /\ Begin.dx = dx /\ Begin.shift = 1
    OBVIOUS
  <2>4. RunFor(reg, A, xy, grow, 0)
    <3>1. ASSUME NEW u \in Int, NEW v \in Int PROVE <<u, v>> \in A <=> Covered(A, xy, grow, 0, 0, u, v)
      <4>1. Along(A, xy, u, v, 0) <=> <<u, v>> \in A
        BY DEF Along
      <4>2. 0 .. 0 = {0}
        OBVIOUS
      <4> QED BY <4>1, <4>2 DEF Covered
    <3> QED BY <3>1 DEF RunFor
  <2> HIDE DEF Begin
  <2>5. dx = dx * 1 /\ dx - dx = 0 /\ 1 - 1 = 0 /\ dx <= dx
    OBVIOUS
  <2>6. CompressGood(A, xy, grow, dx, Begin)
    BY <2>3, <2>4, <2>5 DEF CompressGood
  <2> QED BY <2>2, <2>6
<1>3. ASSUME NEW t \in I, Test(t)
      PROVE  /\ CompressStep(t, xy, grow) \in I
             /\ 0 < M[t] /\ M[CompressStep(t, xy, grow)] < M[t]
  <2>1. t \in CompressState /\ CompressGood(A, xy, grow, dx, t) /\ t.dx # 0
    BY <1>3
  <2>2. PICK u : u = CompressStep(t, xy, grow)
    OBVIOUS
  <2>3. /\ u \in CompressState /\ CompressGood(A, xy, grow, dx, u)
        /\ 0 < t.dx \div t.shift /\ u.dx \div u.shift < t.dx \div t.shift
    BY <2>1, <2>2, CompressStepGood
  <2>4. u \in I /\ M[u] = u.dx \div u.shift /\ M[t] = t.dx \div t.shift
    BY <2>3
  <2> HIDE DEF M, I
  <2> QED BY <2>2, <2>3, <2>4
<1>4. M[Begin] <= N /\ M \in [I -> Int]
  <2>1. \A t \in I : M[t] \in Int
    BY DEF CompressState
  <2>2. M[Begin] = Begin.dx \div Begin.shift
    <3> HIDE DEF Begin, I
    <3> QED BY <1>2
  <2>3. Begin.dx \div Begin.shift = dx
    OBVIOUS
  <2>4. dx <= N
    OBVIOUS
  <2> HIDE DEF Begin, I, N
  <2> QED BY <2>1, <2>2, <2>3, <2>4
<1> HIDE DEF Begin
<1>5. F \in [I -> I] /\ Ends(I, G, F, M)
  <2> HIDE DEF M, Test
  <2>1. \A t \in I : F[t] \in I
    BY <1>3
  <2>2. \A t \in I \cap G : 0 < M[t] /\ M[F[t]] < M[t]
    BY <1>3
  <2>3. \A t \in I \ G : F[t] = t
    OBVIOUS
  <2> QED BY <2>1, <2>2, <2>3 DEF Ends
<1> DEFINE Run(f) == f = [n \in 0 .. N |->
                            IF n = 0 THEN Begin
                            ELSE IF Test(f[n - 1]) THEN CompressStep(f[n - 1], xy, grow) ELSE f[n - 1]]
<1>6. Compress(reg, dx, xy, grow) = (CHOOSE f : Run(f))[N].r
  BY DEF Compress, While, Begin
<1> HIDE DEF Test, M
<1>7. \E g : Run(g)
  <2>1. PICK g \in [0 .. N -> I] : IsRun(g, N, Begin, F)
    <3> HIDE DEF N, F, I
    <3> QED BY <1>1, <1>2, <1>5, RunExists
  <2>2. ASSUME NEW n \in 0 .. N, n # 0 PROVE n - 1 \in 0 .. N /\ g[n - 1] \in I
    BY <1>1, <2>1, <2>2
  <2> HIDE DEF N, I
  <2> QED BY <2>1, <2>2 DEF IsRun
<1>8. PICK f : f = (CHOOSE h : Run(h)) /\ Run(f)
  <2> HIDE DEF Run
  <2> QED BY <1>7
<1>9. f[N] \in I /\ f[N] \notin G
  <2>1. 0 \in 0 .. N /\ \A n \in 1 .. N : n \in 0 .. N /\ n # 0
    BY <1>1
  <2>2. f[0] = Begin /\ Follows(f, N, I, F)
    <3> HIDE DEF N, I, F
    <3>1. \A n \in 0 .. N : f[n] = IF n = 0 THEN Begin
                                    ELSE IF Test(f[n - 1]) THEN CompressStep(f[n - 1], xy, grow) ELSE f[n - 1]
      BY <1>8
    <3>2. \A t \in I : F[t] = IF Test(t) THEN CompressStep(t, xy, grow) ELSE t
      BY DEF F
    <3> QED BY <2>1, <3>1, <3>2 DEF Follows
  <2> HIDE DEF N, I, F, G, Run
  <2> QED BY <1>1, <1>2, <1>4, <1>5, <2>2, RunEnds
<1>10. PICK t : t = f[N]
  OBVIOUS
<1>11. t \in CompressState /\ CompressGood(A, xy, grow, dx, t) /\ t.dx = 0
  BY <1>9, <1>10 DEF Test
<1>12. Compress(reg, dx, xy, grow) = t.r
  <2> HIDE DEF Run
  <2> QED BY <1>6, <1>8, <1>10
<1>13. dx - t.dx = dx
  BY <1>11
<1> QED BY <1>11, <1>12, <1>13 DEF CompressGood

(* The points that are reached are those with a run of 2 * d on either     *)
(* side.                                                                   *)
LEMMA ReachedPoint ==
  ASSUME NEW A, A \subseteq Int \X Int, NEW d \in Int, NEW xy \in Directions
  PROVE  /\ Reached(A, d, xy[1], xy[2]) \subseteq Int \X Int
         /\ \A u, v \in Int : <<u, v>> \in Reached(A, d, xy[1], xy[2]) <=>
                                Covered(A, xy, d < 0, -Abs(d), Abs(d), u, v)
<1> DEFINE x == xy[1]
           y == xy[2]
           R == Reached(A, d, x, y)
<1>1. /\ x \in Int /\ y \in Int /\ (xy = <<1, 0>> => x = 1 /\ y = 0) /\ (xy # <<1, 0>> => x = 0 /\ y = 1)
  BY DEF Directions
<1> HIDE DEF x, y
<1>2. ASSUME NEW i \in Int
      PROVE  /\ i * x \in Int /\ i * y \in Int
             /\ xy = <<1, 0>> => i * x = i /\ i * y = 0
             /\ xy # <<1, 0>> => i * x = 0 /\ i * y = i
  BY <1>1
<1>3. CASE d < 0
  <2>1. R = UNION {Moved(A, i * x, i * y) : i \in d .. -d} /\ Abs(d) = -d /\ -Abs(d) = d
    BY <1>3 DEF Reached, Abs
  <2>2. ASSUME NEW i \in d .. -d
        PROVE  Moved(A, i * x, i * y) \subseteq Int \X Int
    <3>1. i \in Int
      OBVIOUS
    <3>2. PICK p \in Int, q \in Int : p = i * x /\ q = i * y
      BY <1>2, <3>1
    <3>3. Moved(A, p, q) \subseteq Int \X Int
      BY MovedPoint
    <3> QED BY <3>2, <3>3
  <2>3. ASSUME NEW i \in d .. -d, NEW u \in Int, NEW v \in Int
        PROVE  -i \in d .. -d /\ (<<u, v>> \in Moved(A, i * x, i * y) <=> Along(A, xy, u, v, -i))
    <3>1. <<u, v>> \in Moved(A, i * x, i * y) <=> <<u - i * x, v - i * y>> \in A
      BY <1>2, MovedPoint
    <3>2. CASE xy = <<1, 0>>
      <4>1. u - i * x = u + -i /\ v - i * y = v
        BY <1>2, <3>2
      <4> QED BY <3>1, <3>2, <4>1 DEF Along
    <3>3. CASE xy # <<1, 0>>
      <4>1. u - i * x = u /\ v - i * y = v + -i
        BY <1>2, <3>3
      <4> QED BY <3>1, <3>3, <4>1 DEF Along
    <3> QED BY <3>2, <3>3
  <2>4. R \subseteq Int \X Int
    BY <2>1, <2>2
  <2> HIDE DEF R
  <2>5. ASSUME NEW u \in Int, NEW v \in Int
        PROVE  <<u, v>> \in R <=> \E i \in d .. -d : Along(A, xy, u, v, i)
    <3>1. ASSUME <<u, v>> \in R PROVE \E i \in d .. -d : Along(A, xy, u, v, i)
      <4>1. PICK i \in d .. -d : <<u, v>> \in Moved(A, i * x, i * y)
        BY <2>1, <3>1
      <4> QED BY <2>3, <4>1
    <3>2. ASSUME NEW i \in d .. -d, Along(A, xy, u, v, i) PROVE <<u, v>> \in R
      <4>1. PICK j \in d .. -d : j = -i /\ -j = i
        OBVIOUS
      <4>2. <<u, v>> \in Moved(A, j * x, j * y)
        BY <2>3, <3>2, <4>1
      <4> QED BY <2>1, <4>2
    <3> QED BY <3>1, <3>2
  <2>6. -Abs(d) .. Abs(d) = d .. -d
    BY <2>1
  <2> QED BY <1>3, <2>4, <2>5, <2>6 DEF Covered, R, x, y
<1>4. CASE ~(d < 0)
  <2>1. R = {c \in A : \A i \in -d .. d : <<c[1] + i * x, c[2] + i * y>> \in A} /\ Abs(d) = d
    BY <1>4 DEF Reached, Abs
  <2>2. R \subseteq Int \X Int
    BY <2>1
  <2> HIDE DEF R
  <2>3. ASSUME NEW u \in Int, NEW v \in Int, NEW i \in Int
        PROVE  <<u + i * x, v + i * y>> \in A <=> Along(A, xy, u, v, i)
    <3>1. CASE xy = <<1, 0>>
      <4>1. u + i * x = u + i /\ v + i * y = v
        BY <1>2, <3>1
      <4> QED BY <3>1, <4>1 DEF Along
    <3>2. CASE xy # <<1, 0>>
      <4>1. u + i * x = u /\ v + i * y = v + i
        BY <1>2, <3>2
      <4> QED BY <3>2, <4>1 DEF Along
    <3> QED BY <3>1, <3>2
  <2>4. ASSUME NEW u \in Int, NEW v \in Int
        PROVE  <<u, v>> \in R <=> \A i \in -d .. d : Along(A, xy, u, v, i)
    <3>1. 0 \in -d .. d
      BY <1>4
    <3>2. Along(A, xy, u, v, 0) => <<u, v>> \in A
      BY DEF Along
    <3>3. <<u, v>>[1] = u /\ <<u, v>>[2] = v
      OBVIOUS
    <3>4. <<u, v>> \in R <=> <<u, v>> \in A /\ \A i \in -d .. d : <<u + i * x, v + i * y>> \in A
      BY <2>1, <3>3
    <3>5. \A i \in -d .. d : i \in Int
      OBVIOUS
    <3> QED BY <2>3, <3>1, <3>2, <3>4, <3>5
  <2> QED BY <1>4, <2>1, <2>2, <2>4 DEF Covered, R, x, y
<1> QED BY <1>3, <1>4

(* A direction of XShrinkRegion.                                           *)
LEMMA ResizeIsRun ==
  ASSUME NEW reg, NEW A, RegionFor(reg, A), NEW d \in Int, NEW xy \in Directions
  PROVE  RunFor(Resize(reg, d, xy), A, xy, d < 0, 2 * Abs(d))
<1>1. CASE d = 0
  <2>1. Resize(reg, d, xy) = reg /\ ~(d < 0) /\ 2 * Abs(d) = 0
    BY <1>1 DEF Resize, Abs
  <2>2. ASSUME NEW u \in Int, NEW v \in Int PROVE <<u, v>> \in A <=> Covered(A, xy, FALSE, 0, 0, u, v)
    <3>1. Along(A, xy, u, v, 0) <=> <<u, v>> \in A
      BY DEF Along
    <3>2. 0 .. 0 = {0}
      OBVIOUS
    <3> QED BY <3>1, <3>2 DEF Covered
  <2>3. RunFor(reg, A, xy, FALSE, 0)
    BY <2>2 DEF RunFor
  <2>4. (d < 0) = FALSE
    BY <2>1
  <2> QED BY <2>1, <2>3, <2>4
<1>2. CASE d # 0
  <2>1. Resize(reg, d, xy) = Compress(reg, 2 * Abs(d), xy, d < 0)
    BY <1>2 DEF Resize
  <2>2. 2 * Abs(d) \in Nat /\ (d < 0) \in BOOLEAN
    BY DEF Abs
  <2> QED BY <2>1, <2>2, CompressIsRun
<1> QED BY <1>1, <1>2

(* XShrinkRegion of any region, by any dx and dy: a point stays when all   *)
(* its neighbours as far away are there, and with a negative dx or dy it   *)
(* is there when one of them was.  What Compress has shifted is moved back *)
(* at the end.                                                             *)
THEOREM ShrinkRegionIsReached ==
  ASSUME NEW reg, NEW A, RegionFor(reg, A), NEW dx \in Int, NEW dy \in Int
  PROVE  RegionFor(ShrinkRegion(reg, dx, dy), Reached(Reached(A, dx, 1, 0), dy, 0, 1))
<1> DEFINE h == <<1, 0>>
           w == <<0, 1>>
           a == Abs(dx)
           b == Abs(dy)
           g == (dx < 0)
           k == (dy < 0)
           R == Reached(A, dx, 1, 0)
           S == Reached(R, dy, 0, 1)
<1>1. /\ h \in Directions /\ w \in Directions /\ w # h /\ h[1] = 1 /\ h[2] = 0 /\ w[1] = 0 /\ w[2] = 1
      /\ a \in Nat /\ b \in Nat /\ g \in BOOLEAN /\ k \in BOOLEAN
      /\ -a \in Int /\ 0 + -a = -a /\ 2 * a + -a = a /\ 2 * a \in Int
      /\ -b \in Int /\ 0 + -b = -b /\ 2 * b + -b = b /\ 2 * b \in Int
  BY DEF Directions, Abs
<1>2. ShrinkRegion(reg, dx, dy) = OffsetRegion(Resize(Resize(reg, dx, h), dy, w), a, b)
  BY DEF ShrinkRegion
<1>3. A \subseteq Int \X Int
  BY DEF RegionFor, IsArea
<1>4. /\ R \subseteq Int \X Int
      /\ \A u, v \in Int : <<u, v>> \in R <=> Covered(A, h, g, -a, a, u, v)
  <2>1. R = Reached(A, dx, h[1], h[2])
    OBVIOUS
  <2> HIDE DEF R, h
  <2> QED BY <1>1, <1>3, <2>1, ReachedPoint
<1>5. /\ S \subseteq Int \X Int
      /\ \A u, v \in Int : <<u, v>> \in S <=> Covered(R, w, k, -b, b, u, v)
  <2>1. S = Reached(R, dy, w[1], w[2])
    OBVIOUS
  <2> HIDE DEF R, S, w
  <2> QED BY <1>1, <1>4, <2>1, ReachedPoint
<1>6. RunFor(Resize(reg, dx, h), A, h, g, 2 * a)
  BY <1>1, ResizeIsRun
<1>7. PICK B : /\ RegionFor(Resize(reg, dx, h), B)
               /\ \A u, v \in Int : <<u, v>> \in B <=> Covered(A, h, g, 0, 2 * a, u, v)
  BY <1>6 DEF RunFor
<1>8. RunFor(Resize(Resize(reg, dx, h), dy, w), B, w, k, 2 * b)
  BY <1>1, <1>7, ResizeIsRun
<1>9. PICK C : /\ RegionFor(Resize(Resize(reg, dx, h), dy, w), C)
               /\ \A u, v \in Int : <<u, v>> \in C <=> Covered(B, w, k, 0, 2 * b, u, v)
  BY <1>8 DEF RunFor
<1> DEFINE D == Moved(C, a, b)
<1>10. RegionFor(OffsetRegion(Resize(Resize(reg, dx, h), dy, w), a, b), D)
  BY <1>1, <1>9, OffsetRegionIsMoved
<1>11. C \subseteq Int \X Int
  BY <1>9 DEF RegionFor, IsArea
<1>12. \A u, v \in Int : <<u, v>> \in D <=> <<u - a, v - b>> \in C
  <2>1. a \in Int /\ b \in Int
    BY <1>1
  <2> HIDE DEF a, b
  <2> QED BY <1>11, <2>1, MovedPoint
<1> HIDE DEF R, S, D, a, b, g, k
<1>13. ASSUME NEW u \in Int, NEW v \in Int PROVE <<u, v>> \in R <=> <<u - a, v>> \in B
  <2>1. u + -a = u - a /\ u - a \in Int
    BY <1>1
  <2>2. Covered(A, h, g, 0, 2 * a, IF h = <<1, 0>> THEN u + -a ELSE u, IF h = <<1, 0>> THEN v ELSE v + -a)
          <=> Covered(A, h, g, 0 + -a, 2 * a + -a, u, v)
    <3>1. 0 \in Int
      OBVIOUS
    <3> HIDE DEF h
    <3> QED BY <1>1, <3>1, CoveredFrom
  <2>3. Covered(A, h, g, 0, 2 * a, u - a, v) <=> Covered(A, h, g, -a, a, u, v)
    BY <1>1, <2>1, <2>2
  <2> QED BY <1>4, <1>7, <2>1, <2>3
<1>14. ASSUME NEW u \in Int, NEW v \in Int PROVE <<u, v>> \in S <=> <<u - a, v - b>> \in C
  <2>1. u - a \in Int /\ v - b \in Int /\ v + -b = v - b
    BY <1>1
  <2>2. ASSUME NEW i \in -b .. b PROVE Along(R, w, u, v, i) <=> Along(B, w, u - a, v, i)
    <3>1. v + i \in Int
      BY <1>1
    <3>2. w # <<1, 0>>
      BY <1>1
    <3> HIDE DEF w
    <3> QED BY <1>13, <3>1, <3>2 DEF Along
  <2>3. Covered(R, w, k, -b, b, u, v) <=> Covered(B, w, k, -b, b, u - a, v)
    BY <2>2 DEF Covered
  <2>4. Covered(B, w, k, 0, 2 * b, IF w = <<1, 0>> THEN u - a + -b ELSE u - a, IF w = <<1, 0>> THEN v ELSE v + -b)
          <=> Covered(B, w, k, 0 + -b, 2 * b + -b, u - a, v)
    <3>1. PICK m \in Int, n \in Int, p \in Int : m = 2 * b /\ n = -b /\ p = u - a
      BY <1>1, <2>1
    <3>2. 0 \in Int
      OBVIOUS
    <3> HIDE DEF w
    <3>3. Covered(B, w, k, 0, m, IF w = <<1, 0>> THEN p + n ELSE p, IF w = <<1, 0>> THEN v ELSE v + n)
            <=> Covered(B, w, k, 0 + n, m + n, p, v)
      BY <1>1, <3>2, CoveredFrom
    <3> QED BY <3>1, <3>3
  <2>5. Covered(B, w, k, 0, 2 * b, u - a, v - b) <=> Covered(B, w, k, -b, b, u - a, v)
    BY <1>1, <2>1, <2>4
  <2> QED BY <1>5, <1>9, <2>1, <2>3, <2>5
<1>15. D = S
  <2>1. PICK bands : IsArea(bands, D)
    BY <1>10 DEF RegionFor
  <2> QED BY <1>5, <1>12, <1>14, <2>1, SameArea
<1> QED BY <1>2, <1>10, <1>15 DEF S, R
-----------------------------------------------------------------------------
(***************************************************************************)
(* The invariant: the region is the one of the area, and where coordinates *)
(* may be.                                                                 *)
(***************************************************************************)
RegionInside(reg, A) == RegionFor(reg, A) /\ Inside(reg.extents)
IInv == RegionInside(region, area)

(* The bounds are numbers.                                                 *)
LEMMA SizeOK == XMax \in Nat /\ YMax \in Nat
BY RegionAssumption

(* What it is for a rectangle to be inside the bounds.                     *)
LEMMA InsideNumbers ==
  ASSUME NEW e
  PROVE  Inside(e) <=> /\ e.x1 \in 0 .. XMax /\ e.x2 \in 0 .. XMax
                       /\ e.y1 \in 0 .. YMax /\ e.y2 \in 0 .. YMax
BY DEF Inside

(* The area of a region inside the bounds is one of cells.                 *)
LEMMA InsideCells ==
  ASSUME NEW reg, NEW A, RegionInside(reg, A)
  PROVE  A \subseteq Cells
<1>1. CASE reg.bands = <<>>
  <2>1. A = {}
    BY <1>1, EmptyArea DEF RegionInside, RegionFor
  <2> QED BY <2>1
<1>2. CASE reg.bands # <<>>
  <2> DEFINE e == reg.extents
  <2>1. Hull(e, A) /\ A \subseteq Int \X Int /\ Inside(e)
    BY <1>2 DEF RegionInside, RegionFor, IsArea
  <2> HIDE DEF e
  <2>2. e.x1 \in 0 .. XMax /\ e.x2 \in 0 .. XMax /\ e.y1 \in 0 .. YMax /\ e.y2 \in 0 .. YMax
    BY <2>1, InsideNumbers
  <2>3. ASSUME NEW c \in A PROVE c \in Cells
    <3>1. PICK x \in Int, y \in Int : c = <<x, y>>
      BY <2>1
    <3>2. InBox(e, x, y)
      BY <2>1, <3>1 DEF Hull
    <3>3. x \in 0 .. XMax - 1 /\ y \in 0 .. YMax - 1
      BY <2>2, <3>2, SizeOK DEF InBox
    <3> QED BY <3>1, <3>3 DEF Cells
  <2> QED BY <2>3
<1> QED BY <1>1, <1>2

(* A smallest rectangle around some cells is where they are.               *)
LEMMA HullInside ==
  ASSUME NEW e \in Box, NEW A, A \subseteq Cells, Hull(e, A)
  PROVE  Inside(e)
<1>1. ASSUME NEW x \in Int, NEW y \in Int, <<x, y>> \in A PROVE x \in 0 .. XMax - 1 /\ y \in 0 .. YMax - 1
  BY <1>1 DEF Cells
<1>2. e.x1 \in Int /\ e.x2 \in Int /\ e.y1 \in Int /\ e.y2 \in Int /\ e.x2 - 1 \in Int /\ e.y2 - 1 \in Int
  BY DEF Box
<1>3. e.x1 \in 0 .. XMax - 1 /\ e.x2 - 1 \in 0 .. XMax - 1 /\ e.y1 \in 0 .. YMax - 1 /\ e.y2 - 1 \in 0 .. YMax - 1
  BY <1>1, <1>2 DEF Hull
<1>4. e.x1 \in 0 .. XMax /\ e.x2 \in 0 .. XMax /\ e.y1 \in 0 .. YMax /\ e.y2 \in 0 .. YMax
  BY <1>2, <1>3, SizeOK
<1> QED BY <1>4, InsideNumbers

(* miSetExtents of bands inside the bounds is inside.                      *)
LEMMA SetExtentsInside ==
  ASSUME NEW bands, BandsOK(bands), NEW A, IsArea(bands, A), A \subseteq Cells
  PROVE  Inside(SetExtents(bands))
<1>1. CASE bands = <<>>
  BY <1>1, SizeOK DEF SetExtents, NoExtents, Inside
<1>2. CASE bands # <<>>
  BY <1>2, SetExtentsIsHull, HullInside
<1> QED BY <1>1, <1>2

(* The operations stay inside the bounds: union,                           *)
LEMMA UnionInside ==
  ASSUME NEW reg1, NEW reg2, NEW A, NEW B, RegionInside(reg1, A), RegionInside(reg2, B)
  PROVE  RegionInside(UnionRegion(reg1, reg2), A \cup B)
<1> DEFINE e == reg1.extents
           f == reg2.extents
           g == [x1 |-> Lesser(e.x1, f.x1), y1 |-> Lesser(e.y1, f.y1),
                 x2 |-> Greater(e.x2, f.x2), y2 |-> Greater(e.y2, f.y2)]
<1>1. RegionFor(UnionRegion(reg1, reg2), A \cup B)
  BY UnionRegionIsUnion DEF RegionInside
<1>2. \/ UnionRegion(reg1, reg2) = reg1
      \/ UnionRegion(reg1, reg2) = reg2
      \/ UnionRegion(reg1, reg2).extents = g
  BY DEF UnionRegion
<1>3. Inside(e) /\ Inside(f)
  BY DEF RegionInside
<1>4. /\ g.x1 = Lesser(e.x1, f.x1) /\ g.y1 = Lesser(e.y1, f.y1)
      /\ g.x2 = Greater(e.x2, f.x2) /\ g.y2 = Greater(e.y2, f.y2)
  OBVIOUS
<1> HIDE DEF e, f, g
<1>5. /\ e.x1 \in 0 .. XMax /\ e.x2 \in 0 .. XMax /\ e.y1 \in 0 .. YMax /\ e.y2 \in 0 .. YMax
      /\ f.x1 \in 0 .. XMax /\ f.x2 \in 0 .. XMax /\ f.y1 \in 0 .. YMax /\ f.y2 \in 0 .. YMax
  BY <1>3, InsideNumbers
<1>6. Inside(g)
  <2>1. g.x1 \in 0 .. XMax /\ g.y1 \in 0 .. YMax
    BY <1>4, <1>5 DEF Lesser
  <2>2. g.x2 \in 0 .. XMax /\ g.y2 \in 0 .. YMax
    BY <1>4, <1>5 DEF Greater
  <2> QED BY <2>1, <2>2, InsideNumbers
<1> QED BY <1>1, <1>2, <1>3, <1>6 DEF RegionInside, e, f

(* intersection,                                                           *)
LEMMA IntersectInside ==
  ASSUME NEW reg1, NEW reg2, NEW A, NEW B, RegionInside(reg1, A), RegionInside(reg2, B)
  PROVE  RegionInside(IntersectRegion(reg1, reg2), A \cap B)
<1> DEFINE bands == IF Apart(reg1, reg2) THEN <<>> ELSE RegionOp("intersect", reg1, reg2)
           r == IntersectRegion(reg1, reg2)
<1>1. r.bands = bands /\ r.extents = SetExtents(bands)
  BY DEF IntersectRegion
<1> HIDE DEF bands, r
<1>2. RegionFor(r, A \cap B)
  BY IntersectRegionIsIntersection DEF RegionInside, r
<1>3. BandsOK(bands) /\ IsArea(bands, A \cap B) /\ A \cap B \subseteq Cells
  BY <1>1, <1>2, InsideCells DEF RegionFor
<1>4. Inside(SetExtents(bands))
  BY <1>3, SetExtentsInside
<1> QED BY <1>1, <1>2, <1>4 DEF RegionInside, r

(* difference,                                                             *)
LEMMA SubtractInside ==
  ASSUME NEW reg1, NEW reg2, NEW A, NEW B, RegionInside(reg1, A), RegionInside(reg2, B)
  PROVE  RegionInside(SubtractRegion(reg1, reg2), A \ B)
<1> DEFINE bands == RegionOp("subtract", reg1, reg2)
           r == SubtractRegion(reg1, reg2)
<1>1. RegionFor(r, A \ B)
  BY SubtractRegionIsDifference DEF RegionInside
<1>2. CASE Apart(reg1, reg2)
  <2>1. r = reg1
    BY <1>2 DEF SubtractRegion
  <2> HIDE DEF r
  <2> QED BY <1>1, <2>1 DEF RegionInside, r
<1>3. CASE ~Apart(reg1, reg2)
  <2>1. r.bands = bands /\ r.extents = SetExtents(bands)
    BY <1>3 DEF SubtractRegion
  <2> HIDE DEF bands, r
  <2>2. BandsOK(bands) /\ IsArea(bands, A \ B) /\ A \ B \subseteq Cells
    BY <1>1, <2>1, InsideCells DEF RegionFor
  <2>3. Inside(SetExtents(bands))
    BY <2>2, SetExtentsInside
  <2> QED BY <1>1, <2>1, <2>3 DEF RegionInside, r
<1> QED BY <1>2, <1>3

(* and symmetric difference.                                               *)
LEMMA XorInside ==
  ASSUME NEW reg1, NEW reg2, NEW A, NEW B, RegionInside(reg1, A), RegionInside(reg2, B)
  PROVE  RegionInside(XorRegion(reg1, reg2), (A \ B) \cup (B \ A))
BY SubtractInside, UnionInside DEF XorRegion

(* The operands are regions of their areas: one rectangle,                 *)
LEMMA BoxInside ==
  ASSUME NEW b \in Boxes
  PROVE  RegionInside(RectRegion(b), CellsOf(b))
<1>1. b.x1 \in 0 .. XMax /\ b.x2 \in 0 .. XMax /\ b.y1 \in 0 .. YMax /\ b.y2 \in 0 .. YMax
  BY DEF Boxes
<1>2. b \in Box /\ b.x1 < b.x2 /\ b.y1 < b.y2
  BY DEF Boxes, Box
<1>3. RectRegion(b).extents = b
  BY DEF RectRegion
<1> QED BY <1>1, <1>2, <1>3, RectRegionIsRect, InsideNumbers DEF RegionInside

(* and the union of two.                                                   *)
LEMMA OperandsInside ==
  /\ \A o \in OneRect : RegionInside(o.region, o.area)
  /\ \A o \in Operands : RegionInside(o.region, o.area)
BY BoxInside, UnionInside DEF OneRect, Operands

(* A region that is created is empty.                                      *)
LEMMA RegionStarts == RegionInit => IInv
<1> SUFFICES ASSUME RegionInit PROVE IInv
  OBVIOUS
<1>1. region = [bands |-> <<>>, extents |-> NoExtents] /\ area = {}
  BY DEF RegionInit, CreateRegion
<1>2. NoExtents \in Box /\ Inside(NoExtents)
  BY SizeOK DEF NoExtents, Box, Inside
<1>3. IsArea(<<>>, {})
  BY EmptyBands DEF IsArea
<1>4. RegionFor([bands |-> <<>>, extents |-> NoExtents], {})
  BY <1>2, <1>3, EmptyBands, IsRegion
<1> QED BY <1>1, <1>2, <1>4 DEF IInv, RegionInside

(* Each operation gives the region of the area that it asks for.           *)
LEMMA RegionSteps == IInv /\ [RegionNext]_regionVars => IInv'
<1> SUFFICES ASSUME IInv, [RegionNext]_regionVars PROVE IInv'
  OBVIOUS
<1>1. RegionInside(region, area)
  BY DEF IInv
<1>2. SUFFICES RegionInside(region', area')
  BY DEF IInv, RegionInside, RegionFor, Region, IsArea, Hull, Inside
<1>3. ASSUME NEW o \in Operands, UnionWith(o) PROVE RegionInside(region', area')
  BY <1>1, <1>3, OperandsInside, UnionInside DEF UnionWith
<1>4. ASSUME NEW o \in Operands, IntersectWith(o) PROVE RegionInside(region', area')
  BY <1>1, <1>4, OperandsInside, IntersectInside DEF IntersectWith
<1>5. ASSUME NEW o \in Operands, Subtract(o) PROVE RegionInside(region', area')
  BY <1>1, <1>5, OperandsInside, SubtractInside DEF Subtract
<1>6. ASSUME NEW o \in OneRect, SubtractFrom(o) PROVE RegionInside(region', area')
  BY <1>1, <1>6, OperandsInside, SubtractInside DEF SubtractFrom
<1>7. ASSUME NEW o \in OneRect, XorWith(o) PROVE RegionInside(region', area')
  BY <1>1, <1>7, OperandsInside, XorInside DEF XorWith
<1>8. ASSUME NEW x \in -1 .. 1, NEW y \in -1 .. 1, Offset(x, y) PROVE RegionInside(region', area')
  <2>1. x \in Int /\ y \in Int
    OBVIOUS
  <2> QED BY <1>1, <1>8, <2>1, OffsetRegionIsMoved DEF Offset, RegionInside
<1>9. ASSUME NEW x \in -1 .. 1, NEW y \in -1 .. 1, Shrink(x, y) PROVE RegionInside(region', area')
  <2>1. x \in Int /\ y \in Int
    OBVIOUS
  <2> QED BY <1>1, <1>9, <2>1, ShrinkRegionIsReached DEF Shrink, RegionInside
<1>10. ASSUME UNCHANGED regionVars PROVE RegionInside(region', area')
  BY <1>1, <1>10 DEF regionVars
<1> QED BY <1>3, <1>4, <1>5, <1>6, <1>7, <1>8, <1>9, <1>10 DEF RegionNext
-----------------------------------------------------------------------------
(***************************************************************************)
(* The rectangles of a region.                                             *)
(***************************************************************************)
IsFlat(f, seqs, n) == f = [i \in 1 .. n |-> IF i = 1 THEN seqs[i] ELSE f[i - 1] \o seqs[i]]

(* Lists can be put together one after the other.                          *)
LEMMA FlatExists ==
  ASSUME NEW T, NEW n \in Nat \ {0}, NEW seqs \in [1 .. n -> Seq(T)]
  PROVE  \E f : IsFlat(f, seqs, n)
<1> DEFINE I == [i : Nat, s : Seq(T)]
           F == [t \in I |-> [i |-> t.i + 1, s |-> IF t.i + 1 \in 1 .. n THEN t.s \o seqs[t.i + 1] ELSE t.s]]
           Begin == [i |-> 1, s |-> seqs[1]]
           N == n - 1
<1>1. N \in Nat /\ 1 \in 1 .. n
  OBVIOUS
<1>2. Begin \in I /\ Begin.i = 1 /\ Begin.s = seqs[1]
  BY <1>1
<1>3. F \in [I -> I]
  OBVIOUS
<1>4. \A t \in I : F[t].i = t.i + 1 /\ (t.i + 1 \in 1 .. n => F[t].s = t.s \o seqs[t.i + 1])
  OBVIOUS
<1> HIDE DEF I, F, Begin, N
<1>5. PICK g \in [0 .. N -> I] : IsRun(g, N, Begin, F)
  BY <1>1, <1>2, <1>3, RunExists
<1>6. \A m \in 0 .. N : g[m] = IF m = 0 THEN Begin ELSE F[g[m - 1]]
  BY <1>5 DEF IsRun
<1> DEFINE S == {m \in 0 .. N : g[m].i = m + 1}
<1>7. 0 .. N \subseteq S
  <2>1. 0 \in S
    BY <1>1, <1>2, <1>6
  <2>2. ASSUME NEW m \in 1 .. N, m - 1 \in S PROVE m \in S
    <3>1. m \in 0 .. N /\ m # 0 /\ m - 1 \in 0 .. N
      BY <1>1
    <3>2. g[m] = F[g[m - 1]] /\ g[m - 1] \in I /\ g[m - 1].i = m - 1 + 1
      BY <1>5, <1>6, <2>2, <3>1
    <3>3. m \in Int /\ m - 1 + 1 = m
      BY <1>1
    <3>4. F[g[m - 1]].i = m - 1 + 1 + 1
      BY <1>4, <3>2
    <3>5. g[m].i = m + 1
      BY <3>2, <3>3, <3>4
    <3> QED BY <3>1, <3>5
  <2> HIDE DEF S
  <2> QED BY <1>1, <2>1, <2>2, EachRound
<1> DEFINE f == [i \in 1 .. n |-> g[i - 1].s]
<1>8. ASSUME NEW i \in 1 .. n PROVE f[i] = IF i = 1 THEN seqs[i] ELSE f[i - 1] \o seqs[i]
  <2>1. i - 1 \in 0 .. N
    BY DEF N
  <2>2. CASE i = 1
    <3>1. i - 1 = 0
      BY <2>2
    <3> QED BY <1>2, <1>6, <2>1, <2>2, <3>1
  <2>3. CASE i # 1
    <3>1. i - 1 \in 1 .. n /\ i - 1 - 1 \in 0 .. N /\ i - 1 # 0 /\ i - 1 - 1 + 1 = i - 1 /\ i - 1 + 1 = i
      BY <2>1, <2>3 DEF N
    <3>2. g[i - 1] = F[g[i - 1 - 1]] /\ g[i - 1 - 1] \in I
      BY <1>5, <1>6, <2>1, <3>1
    <3>3. g[i - 1 - 1].i = i - 1
      <4>1. i - 1 - 1 \in S
        BY <1>7, <3>1
      <4> QED BY <3>1, <4>1
    <3>4. F[g[i - 1 - 1]].s = g[i - 1 - 1].s \o seqs[i]
      BY <1>4, <3>1, <3>2, <3>3
    <3>5. f[i] = g[i - 1].s /\ f[i - 1] = g[i - 1 - 1].s
      BY <3>1
    <3> QED BY <2>3, <3>2, <3>4, <3>5
  <2> QED BY <2>2, <2>3
<1>9. f = [i \in 1 .. n |-> IF i = 1 THEN seqs[i] ELSE f[i - 1] \o seqs[i]]
  BY <1>8
<1> HIDE DEF f
<1> QED BY <1>9 DEF IsFlat

IsIn(r, rects) == \E i \in 1 .. Len(rects) : rects[i] = r
Before(r, s) == r.y2 <= s.y1 \/ (r.y1 = s.y1 /\ r.y2 = s.y2 /\ r.x2 < s.x1)
RectsOK(rects) ==
  /\ rects \in Seq(Box)
  /\ \A i, j \in 1 .. Len(rects) : i < j => Before(rects[i], rects[j])

(* Sorted rectangles before others go together with them.                  *)
LEMMA RectsTogether ==
  ASSUME NEW p, NEW q, RectsOK(p), RectsOK(q), \A r, s : IsIn(r, p) /\ IsIn(s, q) => Before(r, s)
  PROVE  RectsOK(p \o q) /\ \A r : IsIn(r, p \o q) <=> IsIn(r, p) \/ IsIn(r, q)
<1> DEFINE m == Len(p)
           n == Len(q)
           new == p \o q
<1>1. /\ m \in Nat /\ n \in Nat /\ Len(new) = m + n /\ new \in Seq(Box)
      /\ \A i \in 1 .. m : new[i] = p[i]
      /\ \A i \in 1 .. n : new[m + i] = q[i]
  BY DEF RectsOK
<1>2. ASSUME NEW i \in 1 .. Len(new)
      PROVE  i \in 1 .. m \/ (i - m \in 1 .. n /\ i = m + (i - m))
  BY <1>1
<1>3. /\ \A i, j \in 1 .. m : i < j => Before(p[i], p[j])
      /\ \A i, j \in 1 .. n : i < j => Before(q[i], q[j])
      /\ \A i \in 1 .. m : \A j \in 1 .. n : Before(p[i], q[j])
  BY DEF RectsOK, IsIn
<1> HIDE DEF m, n, new
<1>4. ASSUME NEW i \in 1 .. Len(new), NEW j \in 1 .. Len(new), i < j PROVE Before(new[i], new[j])
  <2>1. CASE i \in 1 .. m /\ j \in 1 .. m
    BY <1>1, <1>3, <1>4, <2>1
  <2>2. CASE i \in 1 .. m /\ j - m \in 1 .. n /\ j = m + (j - m)
    <3>1. new[i] = p[i] /\ new[j] = q[j - m]
      BY <1>1, <2>2
    <3> QED BY <1>3, <2>2, <3>1
  <2>3. CASE i - m \in 1 .. n /\ j - m \in 1 .. n /\ j = m + (j - m) /\ i = m + (i - m)
    <3>1. new[i] = q[i - m] /\ new[j] = q[j - m] /\ i - m < j - m
      BY <1>1, <1>4, <2>3
    <3> QED BY <1>3, <2>3, <3>1
  <2>4. ~(i - m \in 1 .. n /\ j \in 1 .. m)
    BY <1>1, <1>4
  <2> QED BY <1>2, <2>1, <2>2, <2>3, <2>4
<1>5. ASSUME NEW r PROVE IsIn(r, new) <=> IsIn(r, p) \/ IsIn(r, q)
  <2>1. ASSUME NEW i \in 1 .. Len(new), new[i] = r PROVE IsIn(r, p) \/ IsIn(r, q)
    BY <1>1, <1>2, <2>1 DEF IsIn, m, n
  <2>2. ASSUME NEW i \in 1 .. m, p[i] = r PROVE IsIn(r, new)
    <3>1. i \in 1 .. Len(new) /\ new[i] = p[i]
      BY <1>1
    <3> QED BY <2>2, <3>1 DEF IsIn
  <2>3. ASSUME NEW i \in 1 .. n, q[i] = r PROVE IsIn(r, new)
    <3>1. m + i \in 1 .. Len(new) /\ new[m + i] = q[i]
      BY <1>1
    <3> QED BY <2>3, <3>1 DEF IsIn
  <2> QED BY <2>1, <2>2, <2>3 DEF IsIn, m, n
<1> QED BY <1>1, <1>4, <1>5 DEF RectsOK, new

RectAt(b, j) == [x1 |-> b.spans[j].x1, y1 |-> b.y1, x2 |-> b.spans[j].x2, y2 |-> b.y2]
BandRects(b) == [j \in DOMAIN b.spans |-> RectAt(b, j)]

(* The rectangles of a band are sorted.                                    *)
LEMMA BandRectsOK ==
  ASSUME NEW b, IsBand(b)
  PROVE  /\ RectsOK(BandRects(b))
         /\ \A r : IsIn(r, BandRects(b)) <=> \E j \in 1 .. Len(b.spans) : r = RectAt(b, j)
<1> DEFINE n == Len(b.spans)
           rects == BandRects(b)
<1>1. /\ b.y1 \in Int /\ b.y2 \in Int /\ SpansOK(b.spans)
      /\ DOMAIN b.spans = 1 .. n /\ n \in Nat
  BY DEF IsBand, Band, SpansOK
<1>2. rects = [j \in 1 .. n |-> RectAt(b, j)]
  BY <1>1 DEF BandRects
<1> HIDE DEF rects
<1>3. ASSUME NEW j \in 1 .. n
      PROVE  /\ RectAt(b, j) \in Box /\ RectAt(b, j).x1 = b.spans[j].x1 /\ RectAt(b, j).x2 = b.spans[j].x2
             /\ RectAt(b, j).y1 = b.y1 /\ RectAt(b, j).y2 = b.y2
  <2>1. b.spans[j].x1 \in Int /\ b.spans[j].x2 \in Int
    BY <1>1, SpanAt
  <2> QED BY <1>1, <2>1 DEF RectAt, Box
<1>4. rects \in [1 .. n -> Box]
  BY <1>2, <1>3
<1> HIDE DEF n
<1>5. rects \in Seq(Box) /\ Len(rects) = n
  BY <1>1, <1>4
<1>6. ASSUME NEW i \in 1 .. n, NEW j \in 1 .. n, i < j PROVE Before(rects[i], rects[j])
  <2>1. b.spans[i].x2 < b.spans[j].x1
    BY <1>1, <1>6, SpanAt DEF n
  <2> QED BY <1>2, <1>3, <2>1 DEF Before
<1>7. RectsOK(rects)
  BY <1>5, <1>6 DEF RectsOK
<1> QED BY <1>2, <1>5, <1>7 DEF IsIn, rects, n

(* So are those of a region, which are those of its bands.                 *)
LEMMA RectsOfRegion ==
  ASSUME NEW reg, BandsOK(reg.bands)
  PROVE  /\ RectsOK(RectsOf(reg))
         /\ \A r : IsIn(r, RectsOf(reg)) <=>
              \E k \in 1 .. Len(reg.bands) : \E j \in 1 .. Len(reg.bands[k].spans) : r = RectAt(reg.bands[k], j)
<1> DEFINE bands == reg.bands
           n == Len(bands)
           seqs == [i \in DOMAIN bands |-> BandRects(bands[i])]
<1>1. BandsOK(bands) /\ n \in Nat /\ DOMAIN bands = 1 .. n
  BY DEF BandsOK
<1>2. RectsOf(reg) = FlattenSeq(seqs)
  BY DEF RectsOf, BandRects, RectAt
<1> HIDE DEF bands
<1>3. seqs = [i \in 1 .. n |-> BandRects(bands[i])]
  BY <1>1
<1> HIDE DEF n, seqs
<1>4. \A i \in 1 .. n : /\ seqs[i] = BandRects(bands[i]) /\ IsBand(bands[i]) /\ seqs[i] \in Seq(Box)
                        /\ RectsOK(seqs[i])
                        /\ \A r : IsIn(r, seqs[i]) <=> \E j \in 1 .. Len(bands[i].spans) : r = RectAt(bands[i], j)
  <2>1. ASSUME NEW i \in 1 .. n
        PROVE /\ seqs[i] = BandRects(bands[i]) /\ IsBand(bands[i]) /\ seqs[i] \in Seq(Box)
              /\ RectsOK(seqs[i])
              /\ \A r : IsIn(r, seqs[i]) <=> \E j \in 1 .. Len(bands[i].spans) : r = RectAt(bands[i], j)
    <3>1. seqs[i] = BandRects(bands[i])
      BY <1>3
    <3>2. IsBand(bands[i])
      BY <1>1 DEF BandsOK, n
    <3> QED BY <3>1, <3>2, BandRectsOK DEF RectsOK
  <2> QED BY <2>1
<1>5. seqs \in [1 .. n -> Seq(Box)]
  BY <1>3, <1>4
<1>6. Len(seqs) = n
  BY <1>1, <1>5
<1>7. CASE n = 0
  <2>1. FlattenSeq(seqs) = seqs
    BY <1>6, <1>7 DEF FlattenSeq
  <2>2. RectsOK(seqs) /\ \A r : ~IsIn(r, seqs)
    <3>1. seqs \in Seq(Box)
      <4>1. seqs \in [1 .. 0 -> Box]
        BY <1>5, <1>7
      <4> QED BY <4>1
    <3> QED BY <1>6, <1>7, <3>1 DEF RectsOK, IsIn
  <2> QED BY <1>2, <1>7, <2>1, <2>2 DEF n, bands
<1>8. CASE n # 0
  <2>1. FlattenSeq(seqs) = (CHOOSE f : IsFlat(f, seqs, n))[n]
    BY <1>6, <1>8 DEF FlattenSeq, IsFlat
  <2>2. \E f : IsFlat(f, seqs, n)
    BY <1>1, <1>5, <1>8, FlatExists
  <2>3. PICK f : f = (CHOOSE h : IsFlat(h, seqs, n)) /\ IsFlat(f, seqs, n)
    BY <2>2
  <2>4. \A i \in 1 .. n : f[i] = IF i = 1 THEN seqs[i] ELSE f[i - 1] \o seqs[i]
    BY <2>3 DEF IsFlat
  <2> DEFINE Have(k, r) == \E m \in 1 .. k : \E j \in 1 .. Len(bands[m].spans) : r = RectAt(bands[m], j)
             S == {k \in 0 .. n : k = 0 \/ (RectsOK(f[k]) /\ \A r : IsIn(r, f[k]) <=> Have(k, r))}
  <2>5. 0 \in S
    BY <1>1
  <2>6. ASSUME NEW k \in 1 .. n, k - 1 \in S PROVE k \in S
    <3>1. k \in 0 .. n /\ k - 1 \in 0 .. n
      BY <1>1
    <3>2. CASE k = 1
      <4>1. f[k] = seqs[k]
        BY <2>4, <3>2
      <4>2. 1 .. k = {k}
        BY <3>2
      <4> QED BY <1>4, <3>1, <4>1, <4>2
    <3>3. CASE k # 1
      <4>1. f[k] = f[k - 1] \o seqs[k] /\ k - 1 # 0
        <5>1. k - 1 # 0
          BY <1>1, <3>3
        <5> HIDE DEF S, Have
        <5>2. f[k] = f[k - 1] \o seqs[k]
          BY <2>4, <3>3, Zenon
        <5> QED BY <5>1, <5>2
      <4>2. RectsOK(f[k - 1]) /\ \A r : IsIn(r, f[k - 1]) <=> Have(k - 1, r)
        BY <2>6, <4>1
      <4>3. ASSUME NEW r, NEW s, IsIn(r, f[k - 1]), IsIn(s, seqs[k]) PROVE Before(r, s)
        <5>1. PICK m \in 1 .. k - 1 : \E j \in 1 .. Len(bands[m].spans) : r = RectAt(bands[m], j)
          BY <4>2, <4>3
        <5>2. r.y2 = bands[m].y2
          BY <5>1 DEF RectAt
        <5>3. PICK j \in 1 .. Len(bands[k].spans) : s = RectAt(bands[k], j)
          BY <1>4, <4>3
        <5>4. s.y1 = bands[k].y1
          BY <5>3 DEF RectAt
        <5>5. m \in 1 .. n /\ m < k
          BY <1>1
        <5>6. bands[m].y2 <= bands[k].y1
          BY <1>1, <5>5, BandAt DEF n
        <5> QED BY <5>2, <5>4, <5>6 DEF Before
      <4>4. \A m \in 1 .. k : m \in 1 .. k - 1 \/ m = k
        OBVIOUS
      <4>5. (\A m \in 1 .. k - 1 : m \in 1 .. k) /\ k \in 1 .. k
        OBVIOUS
      <4>6. \A r : Have(k, r) <=> Have(k - 1, r) \/ \E j \in 1 .. Len(bands[k].spans) : r = RectAt(bands[k], j)
        BY <4>4, <4>5
      <4> HIDE DEF Have
      <4>7. RectsOK(f[k - 1] \o seqs[k]) /\ \A r : IsIn(r, f[k - 1] \o seqs[k]) <=> IsIn(r, f[k - 1]) \/ IsIn(r, seqs[k])
        BY <1>4, <4>2, <4>3, RectsTogether
      <4>8. RectsOK(f[k]) /\ \A r : IsIn(r, f[k]) <=> Have(k, r)
        BY <1>4, <4>1, <4>2, <4>6, <4>7
      <4> QED BY <3>1, <4>8
    <3> QED BY <3>2, <3>3
  <2>7. n \in S
    <3> HIDE DEF S
    <3>1. 0 .. n \subseteq S
      BY <1>1, <2>5, <2>6, EachRound
    <3> QED BY <1>1, <3>1
  <2>8. RectsOf(reg) = f[n]
    BY <1>2, <2>1, <2>3
  <2> QED BY <1>8, <2>7, <2>8 DEF n, bands
<1> QED BY <1>7, <1>8
-----------------------------------------------------------------------------
(***************************************************************************)
(* The rectangles of a region are those of the canonical form of its area. *)
(***************************************************************************)
(* r is a run of the points of the spans: they are all there, and the      *)
(* points on its left and on its right are not.                            *)
IsRunOf(spans, r) ==
  /\ r.x1 < r.x2
  /\ \A x \in r.x1 .. r.x2 - 1 : InSpans(spans, x)
  /\ ~InSpans(spans, r.x1 - 1) /\ ~InSpans(spans, r.x2)

(* Spans are apart, so that each of them is a run,                         *)
LEMMA SpansAreRuns ==
  ASSUME NEW spans, SpansOK(spans), NEW i \in 1 .. Len(spans)
  PROVE  IsRunOf(spans, spans[i])
<1> DEFINE n == Len(spans)
<1>1. /\ n \in Nat
      /\ \A k \in 1 .. n : IsSpan(spans[k]) /\ spans[k].x1 \in Int /\ spans[k].x2 \in Int
      /\ \A k, m \in 1 .. n : k < m => spans[k].x2 < spans[m].x1
  BY SpanAt
<1>2. PICK a \in Int, b \in Int : a = spans[i].x1 /\ b = spans[i].x2 /\ a < b
  BY <1>1 DEF IsSpan
<1>3. ASSUME NEW x \in Int, x = a - 1 \/ x = b, InSpans(spans, x) PROVE FALSE
  <2>1. PICK k \in 1 .. n : spans[k].x1 <= x /\ x < spans[k].x2
    BY <1>3 DEF InSpans, InFirst, InSpan
  <2>2. PICK c \in Int, d \in Int : c = spans[k].x1 /\ d = spans[k].x2
    BY <1>1
  <2>3. k = i => a = c /\ b = d
    BY <1>2, <2>2
  <2>4. k < i => d < a
    BY <1>1, <1>2, <2>2
  <2>5. i < k => b < c
    BY <1>1, <1>2, <2>2
  <2>6. c <= x /\ x < d /\ (k = i \/ k < i \/ i < k)
    BY <1>1, <2>1, <2>2
  <2> QED BY <1>2, <1>3, <2>3, <2>4, <2>5, <2>6
<1>4. ASSUME NEW x \in a .. b - 1 PROVE InSpans(spans, x)
  <2>1. InSpan(spans[i], x)
    BY <1>2 DEF InSpan
  <2> QED BY <2>1 DEF InSpans, InFirst
<1>5. a - 1 \in Int
  BY <1>2
<1> QED BY <1>2, <1>3, <1>4, <1>5 DEF IsRunOf

(* and there are no other runs.                                            *)
LEMMA RunsAreSpans ==
  ASSUME NEW spans, SpansOK(spans), NEW r \in Span, IsRunOf(spans, r)
  PROVE  \E i \in 1 .. Len(spans) : spans[i] = r
<1> DEFINE n == Len(spans)
<1>1. PICK a \in Int, b \in Int : a = r.x1 /\ b = r.x2 /\ r = [x1 |-> a, x2 |-> b]
  BY DEF Span
<1>2. /\ a < b /\ ~InSpans(spans, a - 1) /\ ~InSpans(spans, b)
      /\ \A x \in a .. b - 1 : InSpans(spans, x)
  BY <1>1 DEF IsRunOf
<1>3. PICK i \in 1 .. n : InSpan(spans[i], a)
  <2>1. a \in a .. b - 1
    BY <1>1, <1>2
  <2> QED BY <1>2, <2>1 DEF InSpans, InFirst
<1>4. PICK c \in Int, d \in Int : c = spans[i].x1 /\ d = spans[i].x2 /\ spans[i] = [x1 |-> c, x2 |-> d]
  <2>1. IsSpan(spans[i])
    BY SpanAt
  <2> QED BY <2>1 DEF IsSpan, Span
<1>5. \A x \in Int : c <= x /\ x < d => InSpans(spans, x)
  BY <1>4 DEF InSpans, InFirst, InSpan
<1>6. c <= a /\ a < d
  BY <1>3, <1>4 DEF InSpan
<1>7. c = a
  BY <1>1, <1>2, <1>4, <1>5, <1>6
<1>8. d <= b
  BY <1>1, <1>2, <1>4, <1>5, <1>6
<1>9. ~InSpans(spans, d)
  BY <1>4, SpansAreRuns DEF IsRunOf
<1>10. ~(d < b)
  BY <1>1, <1>2, <1>4, <1>6, <1>9
<1>11. d = b
  BY <1>1, <1>4, <1>8, <1>10
<1> QED BY <1>1, <1>4, <1>7, <1>11

(* Two lists of the same spans are the same.                               *)
LEMMA SameSpans ==
  ASSUME NEW s, NEW t, SpansOK(s), SpansOK(t), Range(s) = Range(t)
  PROVE  s = t
<1> DEFINE m == Len(s)
           n == Len(t)
<1>1. /\ m \in Nat /\ n \in Nat /\ DOMAIN s = 1 .. m /\ DOMAIN t = 1 .. n
      /\ s = [i \in 1 .. m |-> s[i]] /\ t = [i \in 1 .. n |-> t[i]]
  BY DEF SpansOK
<1>2. /\ \A i \in 1 .. m : \E j \in 1 .. n : s[i] = t[j]
      /\ \A j \in 1 .. n : \E i \in 1 .. m : s[i] = t[j]
  <2> HIDE DEF m, n
  <2>1. \A i \in 1 .. m : s[i] \in Range(t)
    BY <1>1 DEF Range
  <2>2. \A i \in 1 .. n : t[i] \in Range(s)
    BY <1>1 DEF Range
  <2> QED BY <1>1, <2>1, <2>2 DEF Range
<1>3. /\ \A i, j \in 1 .. m : i < j => s[i].x1 < s[j].x1
      /\ \A i, j \in 1 .. n : i < j => t[i].x1 < t[j].x1
      /\ \A i \in 1 .. m : s[i].x1 \in Int
      /\ \A i \in 1 .. n : t[i].x1 \in Int
  <2>1. ASSUME NEW u, SpansOK(u), NEW i \in 1 .. Len(u), NEW j \in 1 .. Len(u), i < j
        PROVE  u[i].x1 < u[j].x1
    <3>1. u[i].x1 \in Int /\ u[i].x2 \in Int /\ u[j].x1 \in Int /\ u[i].x1 < u[i].x2 /\ u[i].x2 < u[j].x1
      BY <2>1, SpanAt DEF IsSpan
    <3> QED BY <3>1
  <2> QED BY <2>1, SpanAt
<1> HIDE DEF m, n
<1> DEFINE Same(i) == i \in 1 .. m /\ i \in 1 .. n /\ s[i] = t[i]
           Bad == {i \in Nat : (i \in 1 .. m \/ i \in 1 .. n) /\ ~Same(i)}
<1>4. ASSUME Bad # {} PROVE FALSE
  <2>1. PICK i \in Bad : \A k \in Bad : i <= k
    <3> HIDE DEF Bad
    <3>1. Bad \subseteq Nat
      BY DEF Bad
    <3> QED BY <1>4, <3>1, LeastNumber
  <2>2. i \in Nat /\ (i \in 1 .. m \/ i \in 1 .. n) /\ ~Same(i)
    BY <2>1
  <2>3. \A k \in 1 .. i - 1 : Same(k)
    <3> HIDE DEF Same
    <3>1. ASSUME NEW k \in 1 .. i - 1 PROVE (k \in 1 .. m \/ k \in 1 .. n) /\ k \in Nat /\ ~(i <= k)
      <4> HIDE DEF Bad
      <4> QED BY <1>1, <2>2
    <3> QED BY <2>1, <3>1
  <2>4. \A k \in Int : k < i /\ 1 <= k => s[k] = t[k]
    BY <2>2, <2>3
  <2> HIDE DEF Same, Bad
  <2>10. m \in Nat /\ n \in Nat
    BY <1>1
  <2>5. ASSUME i \in 1 .. m, i \in 1 .. n PROVE FALSE
    <3>1. s[i] # t[i]
      BY <2>2, <2>5 DEF Same
    <3>2. PICK j \in 1 .. n : s[i] = t[j]
      BY <1>2, <2>5
    <3>3. PICK k \in 1 .. m : s[k] = t[i]
      BY <1>2, <2>5
    <3>4. ~(j < i)
      <4>1. j < i => s[j] = t[j] /\ j \in 1 .. m
        BY <2>10, <2>4, <2>5
      <4> QED BY <1>1, <1>3, <2>5, <3>2, <4>1
    <3>5. ~(k < i)
      <4>1. k < i => s[k] = t[k] /\ k \in 1 .. n
        BY <2>10, <2>4, <2>5
      <4> QED BY <1>1, <1>3, <2>5, <3>3, <4>1
    <3>6. i < j /\ i < k
      BY <1>1, <2>2, <3>1, <3>2, <3>3, <3>4, <3>5
    <3>7. t[i].x1 < s[i].x1
      BY <1>3, <2>5, <3>2, <3>6
    <3>8. s[i].x1 < t[i].x1
      BY <1>3, <2>5, <3>3, <3>6
    <3> QED BY <1>3, <2>5, <3>7, <3>8
  <2>6. ASSUME i \in 1 .. m, i \notin 1 .. n PROVE FALSE
    <3>1. PICK j \in 1 .. n : s[i] = t[j]
      BY <1>2, <2>6
    <3>2. j < i /\ j \in 1 .. m /\ j \in Int /\ 1 <= j
      BY <1>1, <2>6
    <3>3. s[i] = s[j]
      BY <2>4, <3>1, <3>2
    <3> QED BY <1>3, <2>6, <3>2, <3>3
  <2>7. ASSUME i \in 1 .. n, i \notin 1 .. m PROVE FALSE
    <3>1. PICK j \in 1 .. m : s[j] = t[i]
      BY <1>2, <2>7
    <3>2. j < i /\ j \in 1 .. n /\ j \in Int /\ 1 <= j
      BY <1>1, <2>7
    <3>3. t[i] = t[j]
      BY <2>4, <3>1, <3>2
    <3> QED BY <1>3, <2>7, <3>2, <3>3
  <2> QED BY <2>2, <2>5, <2>6, <2>7
<1>5. \A i \in Nat : i \in 1 .. m \/ i \in 1 .. n => Same(i)
  BY <1>4
<1>6. 1 .. m = 1 .. n /\ \A i \in 1 .. m : s[i] = t[i]
  <2>1. \A i \in 1 .. m : i \in 1 .. n /\ s[i] = t[i]
    BY <1>5
  <2>2. \A i \in 1 .. n : i \in 1 .. m
    BY <1>5
  <2> QED BY <2>1, <2>2
<1> QED BY <1>1, <1>6

(* A row has points of the band that it crosses only.                      *)
LEMMA RowOfBand ==
  ASSUME NEW bands, BandsOK(bands), NEW A, IsArea(bands, A), NEW k \in 1 .. Len(bands),
         NEW y \in Int, InRows(bands[k], y), NEW x \in Int
  PROVE  <<x, y>> \in A <=> InSpans(bands[k].spans, x)
<1>1. ASSUME NEW m \in 1 .. Len(bands), InRows(bands[m], y) PROVE m = k
  <2>1. /\ bands[m].y1 \in Int /\ bands[m].y2 \in Int /\ bands[k].y1 \in Int /\ bands[k].y2 \in Int
        /\ bands[m].y1 <= y /\ y < bands[m].y2 /\ bands[k].y1 <= y /\ y < bands[k].y2
    BY <1>1, BandAt DEF InRows
  <2>2. ~(m < k) /\ ~(k < m)
    BY <2>1, BandAt
  <2>3. m \in Int /\ k \in Int
    BY BandAt
  <2> QED BY <2>2, <2>3
<1>2. <<x, y>> \in A <=> \E m \in 1 .. Len(bands) : InRows(bands[m], y) /\ InSpans(bands[m].spans, x)
  BY DEF IsArea, InBands, InFirstBands, InBand
<1> QED BY <1>1, <1>2

(* Where a span lies.                                                      *)
LEMMA SpanInside ==
  ASSUME NEW reg, NEW A, RegionInside(reg, A), NEW k \in 1 .. Len(reg.bands),
         NEW j \in 1 .. Len(reg.bands[k].spans)
  PROVE  /\ reg.bands[k].spans[j].x1 \in 0 .. XMax /\ reg.bands[k].spans[j].x2 \in 0 .. XMax
         /\ reg.bands[k].y1 \in 0 .. YMax /\ reg.bands[k].y2 \in 0 .. YMax
<1>1. BandsOK(reg.bands) /\ IsArea(reg.bands, A) /\ A \subseteq Cells
  BY InsideCells DEF RegionInside, RegionFor
<1>2. PICK b : b = reg.bands[k] /\ b.y1 \in Int /\ b.y2 \in Int /\ b.y1 < b.y2 /\ SpansOK(b.spans)
  BY <1>1, BandAt
<1>3. PICK s : s = b.spans[j] /\ IsSpan(s) /\ s.x1 \in Int /\ s.x2 \in Int
  BY <1>2, SpanAt
<1>4. PICK p \in Int, q \in Int, u \in Int, v \in Int :
        p = s.x1 /\ q = s.x2 /\ u = b.y1 /\ v = b.y2 /\ p < q /\ u < v
  BY <1>2, <1>3 DEF IsSpan
<1>5. PICK w \in Int, z \in Int : w = q - 1 /\ z = v - 1
  BY <1>4
<1>6. InSpan(s, p) /\ InSpan(s, w) /\ InRows(b, u) /\ InRows(b, z)
  <2>1. p <= p /\ p < q /\ p <= w /\ w < q /\ u <= u /\ u < v /\ u <= z /\ z < v
    BY <1>4, <1>5
  <2> QED BY <1>4, <2>1 DEF InSpan, InRows
<1>7. <<p, u>> \in A /\ <<w, z>> \in A
  BY <1>1, <1>2, <1>3, <1>4, <1>5, <1>6, BandsHavePoints
<1>8. p \in 0 .. XMax - 1 /\ w \in 0 .. XMax - 1 /\ u \in 0 .. YMax - 1 /\ z \in 0 .. YMax - 1
  BY <1>1, <1>7 DEF Cells
<1>9. p \in 0 .. XMax /\ q \in 0 .. XMax /\ u \in 0 .. YMax /\ v \in 0 .. YMax
  <2>1. \A n \in Nat : \A h, i \in Int : h \in 0 .. n - 1 => h \in 0 .. n /\ (h = i - 1 => i \in 0 .. n)
    OBVIOUS
  <2>2. w = q - 1 /\ z = v - 1
    BY <1>5
  <2> QED BY <2>1, <2>2, <1>8, SizeOK
<1> QED BY <1>2, <1>3, <1>4, <1>9

(* The runs of a row are the spans of the band that it crosses,            *)
LEMMA RunsOfBand ==
  ASSUME NEW reg, NEW A, RegionInside(reg, A), NEW k \in 1 .. Len(reg.bands),
         NEW y \in Int, InRows(reg.bands[k], y)
  PROVE  RunsOf(A, y) = Range(reg.bands[k].spans)
<1> DEFINE bands == reg.bands
           spans == bands[k].spans
<1>1. BandsOK(bands) /\ IsArea(bands, A) /\ A \subseteq Cells
  BY InsideCells DEF RegionInside, RegionFor
<1>2. SpansOK(spans) /\ spans \in Seq(Span)
  BY <1>1, BandAt DEF SpansOK
<1>3. \A x \in Int : <<x, y>> \in A <=> InSpans(spans, x)
  BY <1>1, RowOfBand
<1>4. \A j \in 1 .. Len(spans) : spans[j].x1 \in 0 .. XMax /\ spans[j].x2 \in 0 .. XMax
  BY SpanInside
<1> HIDE DEF spans
<1>5. ASSUME NEW r \in Span PROVE IsRunOf(spans, r) <=> /\ r.x1 < r.x2
                                                        /\ \A x \in r.x1 .. r.x2 - 1 : <<x, y>> \in A
                                                        /\ <<r.x1 - 1, y>> \notin A /\ <<r.x2, y>> \notin A
  <2>1. PICK a \in Int, b \in Int : a = r.x1 /\ b = r.x2
    BY DEF Span
  <2>2. a - 1 \in Int /\ \A x \in a .. b - 1 : x \in Int
    BY <2>1
  <2>3. /\ \A x \in a .. b - 1 : <<x, y>> \in A <=> InSpans(spans, x)
        /\ <<a - 1, y>> \in A <=> InSpans(spans, a - 1)
        /\ <<b, y>> \in A <=> InSpans(spans, b)
    BY <1>3, <2>2
  <2> QED BY <2>1, <2>3 DEF IsRunOf
<1>6. ASSUME NEW r \in RunsOf(A, y) PROVE r \in Range(spans)
  <2>1. r \in Span
    BY DEF RunsOf, Span
  <2>2. IsRunOf(spans, r)
    BY <1>5, <2>1 DEF RunsOf
  <2>3. PICK i \in 1 .. Len(spans) : spans[i] = r
    BY <1>2, <2>1, <2>2, RunsAreSpans
  <2>4. i \in DOMAIN spans
    BY <1>2
  <2> QED BY <2>3, <2>4 DEF Range
<1>7. ASSUME NEW r \in Range(spans) PROVE r \in RunsOf(A, y)
  <2>1. PICK i \in 1 .. Len(spans) : spans[i] = r
    BY <1>2 DEF Range
  <2>2. r \in Span
    BY <1>2, <2>1
  <2>3. IsRunOf(spans, r)
    BY <1>2, <2>1, SpansAreRuns
  <2>4. r \in [x1 : 0 .. XMax, x2 : 0 .. XMax]
    <3>1. r.x1 \in 0 .. XMax /\ r.x2 \in 0 .. XMax
      BY <1>4, <2>1
    <3> QED BY <2>2, <3>1 DEF Span
  <2> QED BY <1>5, <2>2, <2>3, <2>4 DEF RunsOf
<1> QED BY <1>6, <1>7 DEF spans

(* and a row that crosses none has none.                                   *)
LEMMA NoRuns ==
  ASSUME NEW reg, NEW A, RegionInside(reg, A), NEW y \in Int,
         \A k \in 1 .. Len(reg.bands) : ~InRows(reg.bands[k], y)
  PROVE  RunsOf(A, y) = {}
<1>1. IsArea(reg.bands, A)
  BY DEF RegionInside, RegionFor
<1>2. ASSUME NEW r \in RunsOf(A, y) PROVE FALSE
  <2>0. /\ r.x1 < r.x2 /\ r.x1 \in 0 .. XMax /\ r.x2 \in 0 .. XMax
        /\ \A x \in r.x1 .. r.x2 - 1 : <<x, y>> \in A
    BY DEF RunsOf
  <2>a. PICK a \in Int, b \in Int : a = r.x1 /\ b = r.x2
    BY <2>0
  <2>1. a < b /\ \A x \in a .. b - 1 : <<x, y>> \in A
    BY <2>0, <2>a
  <2>2. <<a, y>> \in A
    BY <2>1
  <2>3. InBands(reg.bands, a, y)
    BY <1>1, <2>2 DEF IsArea
  <2> QED BY <2>3 DEF InBands, InFirstBands, InBand
<1> QED BY <1>2

(* A band is as high as it can be: the row above it has other runs, and so *)
(* has the row below it.                                                   *)
LEMMA EdgesDiffer ==
  ASSUME NEW reg, NEW A, RegionInside(reg, A), NEW k \in 1 .. Len(reg.bands)
  PROVE  /\ RunsOf(A, reg.bands[k].y1 - 1) # Range(reg.bands[k].spans)
         /\ RunsOf(A, reg.bands[k].y2) # Range(reg.bands[k].spans)
<1> DEFINE bands == reg.bands
           n == Len(bands)
<1>1. BandsOK(bands) /\ IsArea(bands, A)
  BY DEF RegionInside, RegionFor
<1>2. /\ n \in Nat
      /\ \A m \in 1 .. n : /\ bands[m].y1 \in Int /\ bands[m].y2 \in Int /\ bands[m].y1 < bands[m].y2
                           /\ SpansOK(bands[m].spans) /\ bands[m].spans # <<>>
      /\ \A i, j \in 1 .. n : i < j => bands[i].y2 <= bands[j].y1
  BY <1>1, BandAt
<1>3. \A i, j \in 1 .. n : i < j => (bands[i].y2 = bands[j].y1 => bands[i].spans # bands[j].spans)
  BY <1>1 DEF BandsOK, Above
<1>4. ASSUME NEW m \in 1 .. n, m # k, NEW y \in Int, InRows(bands[m], y),
             y = bands[k].y1 - 1 \/ y = bands[k].y2
      PROVE  RunsOf(A, y) # Range(bands[k].spans)
  <2>1. PICK a \in Int, b \in Int, c \in Int, d \in Int :
          a = bands[m].y1 /\ b = bands[m].y2 /\ c = bands[k].y1 /\ d = bands[k].y2 /\ c < d
    BY <1>2
  <2>2. a <= y /\ y < b /\ (y = c - 1 \/ y = d)
    BY <1>4, <2>1 DEF InRows
  <2>3. /\ m < k => b <= c
        /\ k < m => d <= a
    BY <1>2, <2>1
  <2>4. m < k \/ k < m
    BY <1>2, <1>4
  <2>5. (m < k /\ b = c) \/ (k < m /\ d = a)
    <3>1. (b <= c => b = c) /\ (d <= a => d = a)
      <4>1. c < d /\ a <= y /\ y < b /\ (y = c - 1 \/ y = d)
        BY <2>1, <2>2
      <4> HIDE DEF bands, n
      <4> QED BY <4>1
    <3> QED BY <2>3, <2>4, <3>1, Zenon
  <2>6. bands[m].spans # bands[k].spans
    BY <1>3, <2>1, <2>5
  <2>7. RunsOf(A, y) = Range(bands[m].spans)
    BY <1>4, RunsOfBand
  <2> QED BY <1>2, <2>6, <2>7, SameSpans
<1>5. ASSUME NEW y \in Int, y = bands[k].y1 - 1 \/ y = bands[k].y2
      PROVE  RunsOf(A, y) # Range(bands[k].spans)
  <2>1. ~InRows(bands[k], y)
    BY <1>2, <1>5 DEF InRows
  <2>2. CASE \E m \in 1 .. n : InRows(bands[m], y)
    BY <1>4, <1>5, <2>1, <2>2
  <2>3. CASE ~ \E m \in 1 .. n : InRows(bands[m], y)
    <3>1. RunsOf(A, y) = {}
      BY <2>3, NoRuns
    <3>2. 1 \in DOMAIN bands[k].spans
      BY <1>2 DEF SpansOK
    <3>3. bands[k].spans[1] \in Range(bands[k].spans)
      BY <3>2 DEF Range
    <3> QED BY <3>1, <3>3
  <2> QED BY <2>2, <2>3
<1>6. bands[k].y1 - 1 \in Int /\ bands[k].y2 \in Int
  BY <1>2
<1> QED BY <1>5, <1>6

(* Where the rectangles of a region are.                                   *)
LEMMA RectsAreBoxes ==
  ASSUME NEW reg, NEW A, RegionInside(reg, A), NEW k \in 1 .. Len(reg.bands),
         NEW j \in 1 .. Len(reg.bands[k].spans)
  PROVE  RectAt(reg.bands[k], j) \in Boxes
<1>1. PICK b : b = reg.bands[k] /\ b.y1 < b.y2 /\ SpansOK(b.spans)
  BY BandAt DEF RegionInside, RegionFor
<1>2. b.spans[j].x1 < b.spans[j].x2
  BY <1>1, SpanAt DEF IsSpan
<1>3. /\ b.spans[j].x1 \in 0 .. XMax /\ b.spans[j].x2 \in 0 .. XMax
      /\ b.y1 \in 0 .. YMax /\ b.y2 \in 0 .. YMax
  BY <1>1, SpanInside
<1> QED BY <1>1, <1>2, <1>3 DEF RectAt, Boxes

(* Each of them is in the canonical form,                                  *)
LEMMA RectsAreCanonical ==
  ASSUME NEW reg, NEW A, RegionInside(reg, A), NEW k \in 1 .. Len(reg.bands),
         NEW j \in 1 .. Len(reg.bands[k].spans)
  PROVE  RectAt(reg.bands[k], j) \in Canonical(A)
<1>1. PICK b : b = reg.bands[k] /\ b.y1 \in Int /\ b.y2 \in Int /\ b.y1 < b.y2 /\ SpansOK(b.spans)
  BY BandAt DEF RegionInside, RegionFor
<1>2. PICK r : r = RectAt(b, j)
  OBVIOUS
<1>3. /\ r.x1 = b.spans[j].x1 /\ r.x2 = b.spans[j].x2 /\ r.y1 = b.y1 /\ r.y2 = b.y2 /\ r \in Boxes
  BY <1>1, <1>2, RectsAreBoxes DEF RectAt
<1>4. \A y \in b.y1 .. b.y2 - 1 : RunsOf(A, y) = Range(b.spans)
  <2>1. ASSUME NEW y \in b.y1 .. b.y2 - 1 PROVE RunsOf(A, y) = Range(b.spans)
    <3>1. y \in Int /\ InRows(b, y)
      BY <1>1 DEF InRows
    <3> QED BY <1>1, <3>1, RunsOfBand
  <2> QED BY <2>1
<1>5. b.y1 \in b.y1 .. b.y2 - 1
  BY <1>1
<1>6. [x1 |-> r.x1, x2 |-> r.x2] \in Range(b.spans)
  <2>1. b.spans[j] \in Span /\ j \in DOMAIN b.spans
    BY <1>1 DEF SpansOK
  <2>2. b.spans[j] = [x1 |-> r.x1, x2 |-> r.x2]
    BY <1>3, <2>1 DEF Span
  <2> QED BY <2>1, <2>2 DEF Range
<1>7. RunsOf(A, b.y1 - 1) # Range(b.spans) /\ RunsOf(A, b.y2) # Range(b.spans)
  BY <1>1, EdgesDiffer
<1>8. RunsOf(A, b.y1) = Range(b.spans)
  BY <1>4, <1>5
<1>9. r \in Canonical(A)
  BY <1>3, <1>4, <1>6, <1>7, <1>8 DEF Canonical
<1> QED BY <1>1, <1>2, <1>9

(* and there are no others.                                                *)
LEMMA CanonicalAreRects ==
  ASSUME NEW reg, NEW A, RegionInside(reg, A), NEW r \in Canonical(A)
  PROVE  \E k \in 1 .. Len(reg.bands) : \E j \in 1 .. Len(reg.bands[k].spans) : r = RectAt(reg.bands[k], j)
<1>1. PICK u \in Int, v \in Int : u = r.y1 /\ v = r.y2 /\ u < v
  BY DEF Canonical, Boxes
<1>2. /\ r = [x1 |-> r.x1, y1 |-> u, x2 |-> r.x2, y2 |-> v]
      /\ [x1 |-> r.x1, x2 |-> r.x2] \in RunsOf(A, u)
      /\ \A y \in u .. v - 1 : RunsOf(A, y) = RunsOf(A, u)
      /\ RunsOf(A, u - 1) # RunsOf(A, u) /\ RunsOf(A, v) # RunsOf(A, u)
  <2>1. r \in Boxes /\ r = [x1 |-> r.x1, y1 |-> r.y1, x2 |-> r.x2, y2 |-> r.y2]
    BY DEF Canonical, Boxes
  <2> QED BY <1>1, <2>1 DEF Canonical
<1>3. PICK k \in 1 .. Len(reg.bands) : InRows(reg.bands[k], u)
  BY <1>2, NoRuns
<1>4. PICK b : b = reg.bands[k] /\ b.y1 \in Int /\ b.y2 \in Int /\ SpansOK(b.spans)
  BY BandAt DEF RegionInside, RegionFor
<1>5. \A y \in Int : b.y1 <= y /\ y < b.y2 => RunsOf(A, y) = Range(b.spans)
  BY <1>4, RunsOfBand DEF InRows
<1>6. b.y1 <= u /\ u < b.y2
  BY <1>3, <1>4 DEF InRows
<1>7. RunsOf(A, u) = Range(b.spans)
  BY <1>5, <1>6
<1>8. RunsOf(A, b.y1 - 1) # Range(b.spans) /\ RunsOf(A, b.y2) # Range(b.spans)
  BY <1>4, EdgesDiffer
<1>9. b.y1 = u
  <2>1. ASSUME b.y1 < u PROVE FALSE
    <3>1. b.y1 <= u - 1 /\ u - 1 < b.y2 /\ u - 1 \in Int
      BY <1>4, <1>6, <2>1
    <3> QED BY <1>2, <1>5, <1>7, <3>1
  <2> QED BY <1>4, <1>6, <2>1
<1>10. b.y2 = v
  <2>1. ASSUME v < b.y2 PROVE FALSE
    <3>1. b.y1 <= v /\ v < b.y2
      BY <1>1, <1>4, <1>6, <2>1
    <3> QED BY <1>2, <1>5, <1>7, <3>1
  <2>2. ASSUME b.y2 < v PROVE FALSE
    <3>1. b.y2 \in u .. v - 1
      BY <1>1, <1>4, <1>6, <2>2
    <3> QED BY <1>2, <1>7, <1>8, <3>1
  <2> QED BY <1>1, <1>4, <2>1, <2>2
<1>11. PICK j \in 1 .. Len(b.spans) : b.spans[j] = [x1 |-> r.x1, x2 |-> r.x2]
  BY SMTT(30), <1>2, <1>4, <1>7 DEF SpansOK, Range
<1>12. r = RectAt(b, j)
  BY <1>2, <1>9, <1>10, <1>11 DEF RectAt
<1> QED BY <1>4, <1>11, <1>12

(* The rectangles of a region are the canonical form of its area, sorted.  *)
LEMMA RectsOfArea ==
  ASSUME NEW reg, NEW A, RegionInside(reg, A)
  PROVE  Range(RectsOf(reg)) = Canonical(A) /\ Sorted(RectsOf(reg))
<1>1. PICK rects : rects = RectsOf(reg)
  OBVIOUS
<1>2. /\ rects \in Seq(Box)
      /\ \A i, j \in 1 .. Len(rects) : i < j => Before(rects[i], rects[j])
      /\ \A r : IsIn(r, rects) <=>
           \E k \in 1 .. Len(reg.bands) : \E j \in 1 .. Len(reg.bands[k].spans) : r = RectAt(reg.bands[k], j)
  BY <1>1, RectsOfRegion DEF RegionInside, RegionFor, RectsOK
<1>3. DOMAIN rects = 1 .. Len(rects)
  BY <1>2
<1>4. \A r : r \in Range(rects) <=> IsIn(r, rects)
  BY <1>3 DEF Range, IsIn
<1>5. Range(rects) = Canonical(A)
  <2>1. ASSUME NEW r \in Range(rects) PROVE r \in Canonical(A)
    <3>1. PICK k \in 1 .. Len(reg.bands) : \E j \in 1 .. Len(reg.bands[k].spans) : r = RectAt(reg.bands[k], j)
      BY <1>2, <1>4
    <3> QED BY <3>1, RectsAreCanonical
  <2>2. ASSUME NEW r \in Canonical(A) PROVE r \in Range(rects)
    <3>1. \E k \in 1 .. Len(reg.bands) : \E j \in 1 .. Len(reg.bands[k].spans) : r = RectAt(reg.bands[k], j)
      BY CanonicalAreRects
    <3> QED BY <1>2, <1>4, <3>1
  <2> QED BY <2>1, <2>2
<1>6. Sorted(rects)
  BY <1>2, <1>3 DEF Sorted, Before
<1> QED BY <1>1, <1>5, <1>6

(* The least and the greatest of some numbers, when they are known.        *)
LEMMA LeastAndGreatest ==
  ASSUME NEW S, S \subseteq Int, NEW p \in S, NEW q \in S, \A n \in S : p <= n /\ n <= q
  PROVE  Min(S) = p /\ Max(S) = q
<1>1. p \in Int /\ q \in Int /\ S # {} /\ (\A n \in S : p <= n) /\ (\A n \in S : n <= q)
  OBVIOUS
<1>2. Min(S) \in S /\ \A n \in S : Min(S) <= n
  BY <1>1, LeastInteger
<1>3. Max(S) \in S /\ \A n \in S : n <= Max(S)
  BY <1>1, GreatestInteger
<1>4. PICK a \in S, b \in S : a = Min(S) /\ b = Max(S)
  BY <1>2, <1>3
<1>5. a <= p /\ p <= a /\ b <= q /\ q <= b /\ a \in Int /\ b \in Int
  BY <1>1, <1>2, <1>3, <1>4
<1> QED BY <1>1, <1>4, <1>5

(* The extents are what the area reaches.                                  *)
LEMMA ExtentsOfArea ==
  ASSUME NEW reg, NEW A, RegionInside(reg, A), reg.bands # <<>>
  PROVE  reg.extents = [x1 |-> Min({c[1] : c \in A}), y1 |-> Min({c[2] : c \in A}),
                        x2 |-> Max({c[1] : c \in A}) + 1, y2 |-> Max({c[2] : c \in A}) + 1]
<1> DEFINE xs == {c[1] : c \in A}
           ys == {c[2] : c \in A}
<1>1. A \subseteq Int \X Int /\ Hull(reg.extents, A) /\ reg.extents \in Box
  BY DEF RegionInside, RegionFor, IsArea, Region
<1>2. PICK p \in Int, q \in Int, u \in Int, v \in Int :
        reg.extents = [x1 |-> p, y1 |-> u, x2 |-> q, y2 |-> v]
  BY <1>1 DEF Box
<1>3. /\ \A x, y \in Int : <<x, y>> \in A => p <= x /\ x < q /\ u <= y /\ y < v
      /\ \E y \in Int : <<p, y>> \in A
      /\ \E y \in Int : <<q - 1, y>> \in A
      /\ \E x \in Int : <<x, u>> \in A
      /\ \E x \in Int : <<x, v - 1>> \in A
  <2>1. PICK e : /\ Hull(e, A) /\ e.x1 = p /\ e.x2 = q /\ e.y1 = u /\ e.y2 = v
    BY <1>1, <1>2
  <2> QED BY <2>1 DEF Hull, InBox
<1>4. /\ \A n : n \in xs <=> n \in Int /\ \E y \in Int : <<n, y>> \in A
      /\ \A n : n \in ys <=> n \in Int /\ \E x \in Int : <<x, n>> \in A
  <2>1. ASSUME NEW c \in A PROVE \E x, y \in Int : c = <<x, y>> /\ c[1] = x /\ c[2] = y
    BY <1>1
  <2>2. ASSUME NEW x \in Int, NEW y \in Int, <<x, y>> \in A PROVE x \in xs /\ y \in ys
    <3>1. <<x, y>>[1] = x /\ <<x, y>>[2] = y
      OBVIOUS
    <3> QED BY <2>2, <3>1
  <2>3. ASSUME NEW n, n \in xs PROVE n \in Int /\ \E y \in Int : <<n, y>> \in A
    BY <2>1, <2>3
  <2>4. ASSUME NEW n, n \in ys PROVE n \in Int /\ \E x \in Int : <<x, n>> \in A
    BY <2>1, <2>4
  <2> HIDE DEF xs, ys
  <2> QED BY <2>2, <2>3, <2>4
<1> HIDE DEF xs, ys
<1>5. PICK w \in Int, z \in Int : w = q - 1 /\ z = v - 1 /\ q = w + 1 /\ v = z + 1
  <2>1. q - 1 \in Int /\ v - 1 \in Int /\ q = (q - 1) + 1 /\ v = (v - 1) + 1
    OBVIOUS
  <2> QED BY <2>1
<1>6. xs \subseteq Int /\ p \in xs /\ w \in xs /\ \A n \in xs : p <= n /\ n <= w
  <2>1. \A n \in xs : n \in Int /\ p <= n /\ n < q
    BY <1>3, <1>4
  <2>2. p \in xs /\ w \in xs
    BY <1>3, <1>4, <1>5
  <2>3. \A n \in xs : n <= w
    BY <1>5, <2>1
  <2> QED BY <2>1, <2>2, <2>3
<1>7. ys \subseteq Int /\ u \in ys /\ z \in ys /\ \A n \in ys : u <= n /\ n <= z
  <2>1. \A n \in ys : n \in Int /\ u <= n /\ n < v
    BY <1>3, <1>4
  <2>2. u \in ys /\ z \in ys
    BY <1>3, <1>4, <1>5
  <2>3. \A n \in ys : n <= z
    BY <1>5, <2>1
  <2> QED BY <2>1, <2>2, <2>3
<1>8. Min(xs) = p /\ Max(xs) = w /\ Min(ys) = u /\ Max(ys) = z
  BY <1>6, <1>7, LeastAndGreatest
<1> QED BY <1>2, <1>5, <1>8 DEF xs, ys
-----------------------------------------------------------------------------
(***************************************************************************)
(* XRectInRegion.  A rectangle b has a cell in the area, or out of it; its *)
(* rows above y are in the area, or out of it.                             *)
(***************************************************************************)
CellIn(A, b) == \E x, y \in Int : InBox(b, x, y) /\ <<x, y>> \in A
CellOut(A, b) == \E x, y \in Int : InBox(b, x, y) /\ <<x, y>> \notin A
RowsIn(A, b, y2) == \A x, y \in Int : InBox(b, x, y) /\ y < y2 => <<x, y>> \in A
RowsOut(A, b, y2) == \A x, y \in Int : InBox(b, x, y) /\ y < y2 => <<x, y>> \notin A

(* A has the points of the rectangles.                                     *)
AreaOfRects(rects, A) ==
  \A x, y \in Int : <<x, y>> \in A <=> \E i \in 1 .. Len(rects) : InBox(rects[i], x, y)
Proper(b) == b \in Box /\ b.x1 < b.x2 /\ b.y1 < b.y2

(* The rectangles before the k-th have nothing of b from the row ry on.    *)
Behind(rects, b, k, ry) == \A i \in 1 .. k - 1 : rects[i].y2 <= ry \/ rects[i].x2 <= b.x1

(* A point of the area in the rows that the k-th rectangle has is not on   *)
(* its left, nor above it, nor just on its right.                          *)
LEMMA PointAhead ==
  ASSUME NEW rects, RectsOK(rects), NEW A, AreaOfRects(rects, A), NEW b, Proper(b), NEW ry \in Int,
         NEW k \in 1 .. Len(rects), Behind(rects, b, k, ry), Proper(rects[k]),
         NEW x \in Int, NEW y \in Int, b.x1 <= x, ry <= y, y < rects[k].y2, <<x, y>> \in A
  PROVE  rects[k].y1 <= y /\ rects[k].x1 <= x /\ (x < rects[k].x2 \/ rects[k].x2 < x)
<1>1. Len(rects) \in Nat /\ k \in Int
  BY DEF RectsOK
<1>2. PICK i \in 1 .. Len(rects) : InBox(rects[i], x, y)
  BY DEF AreaOfRects
<1>3. PICK p \in Int, u \in Int, q \in Int, v \in Int :
        p = rects[k].x1 /\ u = rects[k].y1 /\ q = rects[k].x2 /\ v = rects[k].y2 /\ p < q /\ u < v
  BY DEF Proper, Box
<1>4. PICK r : r = rects[i] /\ r \in Box
  BY DEF RectsOK
<1>5. PICK c \in Int, d \in Int, e \in Int, f \in Int :
        c = r.x1 /\ d = r.y1 /\ e = r.x2 /\ f = r.y2 /\ c <= x /\ x < e /\ d <= y /\ y < f
  BY <1>2, <1>4 DEF Box, InBox
<1>6. PICK a \in Int : a = b.x1
  BY DEF Proper, Box
<1>7. ~(i < k)
  <2>1. ASSUME i < k PROVE FALSE
    <3>1. i \in 1 .. k - 1
      BY <1>1, <2>1
    <3>2. f <= ry \/ e <= a
      BY <1>4, <1>5, <1>6, <3>1 DEF Behind
    <3> QED BY <1>5, <1>6, <3>2
  <2> QED BY <2>1
<1>8. CASE i = k
  BY <1>3, <1>4, <1>5, <1>8
<1>9. CASE k < i
  <2>1. v <= d \/ (u = d /\ q < c)
    <3>1. Before(rects[k], r)
      BY <1>4, <1>9 DEF RectsOK
    <3> QED BY <1>3, <1>5, <3>1 DEF Before
  <2>2. y < v
    BY <1>3
  <2>3. u <= y /\ p <= x /\ q < x
    <3>1. ~(v <= d)
      <4>1. d <= y
        BY <1>5
      <4> QED BY <2>2, <4>1
    <3>2. u = d /\ q < c
      BY <2>1, <3>1
    <3>3. p < q /\ c <= x /\ d <= y
      BY <1>3, <1>5
    <3> QED BY <3>2, <3>3
  <2> QED BY <1>3, <2>3
<1> QED BY <1>1, <1>7, <1>8, <1>9

(* The rectangle p .. q - 1 in the rows u .. v - 1 is the first from ry on *)
(* that the area has.                                                      *)
NextRect(A, a, ry, p, q, u, v) ==
  /\ \A x, y \in Int : a <= x /\ ry <= y /\ y < v /\ <<x, y>> \in A => u <= y /\ p <= x /\ (x < q \/ q < x)
  /\ \A x, y \in Int : p <= x /\ x < q /\ u <= y /\ y < v => <<x, y>> \in A

(* What it tells of b, which is a .. c - 1 and ends with the row e - 1.    *)
Tells(A, b, a, c, e, ry, p, q, u, v) ==
  /\ (ry < u \/ a < p) => CellOut(A, b)
  /\ q < c /\ a < q => CellOut(A, b)
  /\ a < q /\ p < c /\ u < e => CellIn(A, b)
  /\ RowsOut(A, b, ry) => RowsOut(A, b, Greater(u, ry))
  /\ RowsOut(A, b, ry) /\ c <= p => RowsOut(A, b, v)
  /\ RowsIn(A, b, ry) /\ u <= ry /\ p <= a /\ c <= q => RowsIn(A, b, v)

(* It tells that.                                                          *)
LEMMA RectTells ==
  ASSUME NEW A, NEW b,
         NEW a \in Int, NEW c \in Int, NEW d \in Int, NEW e \in Int,
         b.x1 = a, b.x2 = c, b.y1 = d, b.y2 = e, a < c,
         NEW p \in Int, NEW q \in Int, NEW u \in Int, NEW v \in Int, p < q, u < v,
         NEW ry \in Int, d <= ry, ry < e, ry < v, NextRect(A, a, ry, p, q, u, v)
  PROVE  Tells(A, b, a, c, e, ry, p, q, u, v)
<1>1. /\ \A x, y \in Int : InBox(b, x, y) <=> a <= x /\ x < c /\ d <= y /\ y < e
      /\ \A x, y \in Int : a <= x /\ ry <= y /\ y < v /\ <<x, y>> \in A => u <= y /\ p <= x /\ (x < q \/ q < x)
      /\ \A x, y \in Int : p <= x /\ x < q /\ u <= y /\ y < v => <<x, y>> \in A
  BY DEF InBox, NextRect
<1>2. ASSUME ry < u \/ a < p PROVE CellOut(A, b)
  <2>1. InBox(b, a, ry) /\ <<a, ry>> \notin A
    BY <1>1, <1>2
  <2> QED BY <2>1 DEF CellOut
<1>3. ASSUME q < c, a < q PROVE CellOut(A, b)
  <2>1. InBox(b, q, ry) /\ <<q, ry>> \notin A
    BY <1>1, <1>3
  <2> QED BY <2>1 DEF CellOut
<1>4. ASSUME a < q, p < c, u < e PROVE CellIn(A, b)
  <2>1. PICK x \in Int : a <= x /\ p <= x /\ x < q /\ x < c
    <3>1. CASE a <= p
      BY <1>4, <3>1
    <3>2. CASE p < a
      BY <1>4, <3>2
    <3> QED BY <3>1, <3>2
  <2>2. PICK y \in Int : ry <= y /\ u <= y /\ y < v /\ y < e
    <3>1. CASE ry <= u
      BY <1>4, <3>1
    <3>2. CASE u < ry
      BY <1>4, <3>2
    <3> QED BY <3>1, <3>2
  <2>3. InBox(b, x, y) /\ <<x, y>> \in A
    BY <1>1, <2>1, <2>2
  <2> QED BY <2>3 DEF CellIn
<1>5. ASSUME RowsOut(A, b, ry) PROVE RowsOut(A, b, Greater(u, ry))
  <2>1. ASSUME NEW x \in Int, NEW y \in Int, InBox(b, x, y), y < Greater(u, ry), <<x, y>> \in A PROVE FALSE
    <3>1. ry <= y
      BY <1>5, <2>1 DEF RowsOut
    <3>2. y < u
      BY <2>1, <3>1 DEF Greater
    <3> QED BY <1>1, <2>1, <3>1, <3>2
  <2> QED BY <2>1 DEF RowsOut
<1>6. ASSUME RowsOut(A, b, ry), c <= p PROVE RowsOut(A, b, v)
  <2>1. ASSUME NEW x \in Int, NEW y \in Int, InBox(b, x, y), y < v, <<x, y>> \in A PROVE FALSE
    <3>1. ry <= y
      BY <1>6, <2>1 DEF RowsOut
    <3> QED BY <1>1, <1>6, <2>1, <3>1
  <2> QED BY <2>1 DEF RowsOut
<1>7. ASSUME RowsIn(A, b, ry), u <= ry, p <= a, c <= q PROVE RowsIn(A, b, v)
  <2>1. ASSUME NEW x \in Int, NEW y \in Int, InBox(b, x, y), y < v PROVE <<x, y>> \in A
    <3>1. CASE y < ry
      BY <1>7, <2>1, <3>1 DEF RowsIn
    <3>2. CASE ry <= y
      BY <1>1, <1>7, <2>1, <3>2
    <3> QED BY <3>1, <3>2
  <2> QED BY <2>1 DEF RowsIn
<1> QED BY <1>2, <1>3, <1>4, <1>5, <1>6, <1>7 DEF Tells

(* The search: what is known of the rows above ry while it goes on, and    *)
(* what its outcome says.                                                  *)
Searching(rects, A, b, k, ry, in, out) ==
  /\ k \in 1 .. Len(rects) + 1 /\ ry \in Int /\ b.y1 <= ry /\ ry < b.y2
  /\ in => CellIn(A, b)
  /\ out => CellOut(A, b)
  /\ ~out => RowsIn(A, b, ry)
  /\ ~in => RowsOut(A, b, ry)
  /\ Behind(rects, b, k, ry)
Right(A, b, ry, in) ==
  /\ ~in => ~CellIn(A, b)
  /\ in /\ ry < b.y2 => CellIn(A, b) /\ CellOut(A, b)
  /\ in /\ ~(ry < b.y2) => ~CellOut(A, b)
LookState(rects) == [k : 1 .. Len(rects) + 1, ry : Int, partIn : BOOLEAN, partOut : BOOLEAN, stop : BOOLEAN]
LookGood(rects, A, b, t) ==
  IF t.stop THEN Right(A, b, t.ry, t.partIn) ELSE Searching(rects, A, b, t.k, t.ry, t.partIn, t.partOut)

(* What its rows tell of all of b.                                         *)
LEMMA RowsTell ==
  ASSUME NEW A, NEW b, NEW y \in Int, Proper(b), b.y2 <= y
  PROVE  (RowsIn(A, b, y) => ~CellOut(A, b)) /\ (RowsOut(A, b, y) => ~CellIn(A, b))
<1>1. b.y2 \in Int
  BY DEF Proper, Box
<1>2. \A x, z \in Int : InBox(b, x, z) => z < y
  BY <1>1 DEF InBox
<1> QED BY <1>2 DEF RowsIn, RowsOut, CellIn, CellOut

(* The search goes on to the next rectangle.                               *)
LEMMA BehindGoesOn ==
  ASSUME NEW rects, RectsOK(rects), NEW b, b.x1 \in Int, NEW k \in 1 .. Len(rects), NEW ry \in Int,
         NEW y \in Int, ry <= y, Behind(rects, b, k, ry), rects[k].y2 <= y \/ rects[k].x2 <= b.x1
  PROVE  Behind(rects, b, k + 1, y)
<1>1. ASSUME NEW i \in 1 .. k + 1 - 1 PROVE rects[i].y2 <= y \/ rects[i].x2 <= b.x1
  <2>1. k \in Int /\ Len(rects) \in Nat
    BY DEF RectsOK
  <2>2. i \in 1 .. k - 1 \/ i = k
    BY <2>1
  <2>3. ASSUME i \in 1 .. k - 1 PROVE rects[i].y2 <= y \/ rects[i].x2 <= b.x1
    <3>1. i \in 1 .. Len(rects)
      BY <2>1, <2>3
    <3>2. rects[i].y2 \in Int
      <4>1. rects[i] \in Box
        BY <3>1 DEF RectsOK
      <4> QED BY <4>1 DEF Box
    <3>3. rects[i].y2 <= ry \/ rects[i].x2 <= b.x1
      BY <2>3 DEF Behind
    <3> QED BY <3>2, <3>3
  <2> QED BY <2>2, <2>3
<1> QED BY <1>1 DEF Behind

(* A round of the search.                                                  *)
LEMMA LookStepGood ==
  ASSUME NEW rects, RectsOK(rects), \A i \in 1 .. Len(rects) : Proper(rects[i]),
         NEW A, AreaOfRects(rects, A), NEW b, Proper(b),
         NEW t \in LookState(rects), LookGood(rects, A, b, t), ~t.stop, t.k <= Len(rects)
  PROVE  LET n == LookStep(rects, b, t)
         IN n \in LookState(rects) /\ LookGood(rects, A, b, n) /\ (n.stop \/ n.k = t.k + 1)
<1>1. PICK k \in 1 .. Len(rects), ry \in Int, pin \in BOOLEAN, pout \in BOOLEAN :
        k = t.k /\ ry = t.ry /\ pin = t.partIn /\ pout = t.partOut
  BY DEF LookState
<1>2. Len(rects) \in Nat /\ k \in Int /\ k + 1 \in 1 .. Len(rects) + 1 /\ k \in 1 .. Len(rects) + 1
  BY DEF RectsOK
<1>3. PICK a \in Int, c \in Int, d \in Int, e \in Int :
        b.x1 = a /\ b.x2 = c /\ b.y1 = d /\ b.y2 = e /\ a < c /\ d < e
  BY DEF Proper, Box
<1>4. PICK box : box = rects[k] /\ Proper(box)
  OBVIOUS
<1>5. PICK p \in Int, q \in Int, u \in Int, v \in Int :
        p = box.x1 /\ q = box.x2 /\ u = box.y1 /\ v = box.y2 /\ p < q /\ u < v
  BY <1>4 DEF Proper, Box
<1> DEFINE Go(y, i, o) == [k |-> k + 1, ry |-> y, partIn |-> i, partOut |-> o, stop |-> FALSE]
           Stop(y, i) == [k |-> k, ry |-> y, partIn |-> i, partOut |-> pout, stop |-> TRUE]
           Goal(n) == n \in LookState(rects) /\ LookGood(rects, A, b, n) /\ (n.stop \/ n.k = t.k + 1)
           y1 == Greater(u, ry)
           out == pout \/ u > ry \/ p > a
           in == pin \/ p < c
<1>6. Searching(rects, A, b, k, ry, pin, pout)
  BY <1>1 DEF LookGood
<1>7. ASSUME NEW y \in Int, NEW i \in BOOLEAN, NEW o \in BOOLEAN, Searching(rects, A, b, k + 1, y, i, o)
      PROVE  Goal(Go(y, i, o))
  BY <1>1, <1>2, <1>7 DEF LookState, LookGood
<1>8. ASSUME NEW y \in Int, NEW i \in BOOLEAN, Right(A, b, y, i)
      PROVE  Goal(Stop(y, i))
  BY <1>1, <1>2, <1>8 DEF LookState, LookGood
<1>9. PICK n : n = LookStep(rects, b, t)
  OBVIOUS
<1>10. n = IF v <= ry THEN Go(ry, pin, pout)
           ELSE IF u > ry /\ (pin \/ u >= e) THEN Stop(ry, pin)
           ELSE IF q <= a THEN Go(y1, pin, pout \/ u > ry)
           ELSE IF p > a /\ pin THEN Stop(y1, pin)
           ELSE IF (p < c /\ out) \/ q < c THEN Stop(y1, in)
           ELSE IF v >= e THEN Stop(v, in)
           ELSE Go(v, in, out)
  BY <1>1, <1>3, <1>4, <1>5, <1>9 DEF LookStep
<1> HIDE DEF Go, Stop, Goal
<1>11. /\ d <= ry /\ ry < e /\ Behind(rects, b, k, ry)
       /\ (pin => CellIn(A, b)) /\ (pout => CellOut(A, b))
       /\ (~pout => RowsIn(A, b, ry)) /\ (~pin => RowsOut(A, b, ry))
  BY <1>3, <1>6 DEF Searching
<1>12. CASE v <= ry
  <2>1. Behind(rects, b, k + 1, ry)
    BY <1>3, <1>4, <1>5, <1>11, <1>12, BehindGoesOn
  <2>2. Searching(rects, A, b, k + 1, ry, pin, pout)
    BY <1>2, <1>3, <1>11, <2>1 DEF Searching
  <2>3. Goal(Go(ry, pin, pout))
    BY <1>7, <2>2
  <2> QED BY <1>9, <1>10, <1>12, <2>3 DEF Goal
<1>13. CASE ry < v
  <2>1. \A x, y \in Int : a <= x /\ ry <= y /\ y < v /\ <<x, y>> \in A => u <= y /\ p <= x /\ (x < q \/ q < x)
    BY <1>3, <1>4, <1>5, <1>11, PointAhead
  <2>2. \A x, y \in Int : p <= x /\ x < q /\ u <= y /\ y < v => <<x, y>> \in A
    BY <1>4, <1>5 DEF AreaOfRects, InBox
  <2>3. /\ (ry < u \/ a < p) => CellOut(A, b)
        /\ q < c /\ a < q => CellOut(A, b)
        /\ a < q /\ p < c /\ u < e => CellIn(A, b)
        /\ RowsOut(A, b, ry) => RowsOut(A, b, y1)
        /\ RowsOut(A, b, ry) /\ c <= p => RowsOut(A, b, v)
        /\ RowsIn(A, b, ry) /\ u <= ry /\ p <= a /\ c <= q => RowsIn(A, b, v)
    <3>1. NextRect(A, a, ry, p, q, u, v)
      BY <2>1, <2>2 DEF NextRect
    <3>2. b.x1 = a /\ b.x2 = c /\ b.y1 = d /\ b.y2 = e /\ a < c /\ p < q /\ u < v /\ d <= ry /\ ry < e /\ ry < v
      BY <1>3, <1>5, <1>11, <1>13
    <3> HIDE DEF y1
    <3>3. Tells(A, b, a, c, e, ry, p, q, u, v)
      BY <3>1, <3>2, RectTells
    <3> QED BY <3>3 DEF y1, Tells
  <2>4. y1 \in Int /\ ry <= y1 /\ (u > ry => y1 = u) /\ (~(u > ry) => y1 = ry) /\ (u < e => y1 < e)
    BY <1>11 DEF Greater
  <2> HIDE DEF y1
  <2>5. /\ e <= ry => FALSE
        /\ \A y \in Int : e <= y => (RowsIn(A, b, y) => ~CellOut(A, b)) /\ (RowsOut(A, b, y) => ~CellIn(A, b))
    BY <1>3, <1>11, RowsTell
  <2>6. CASE u > ry /\ (pin \/ u >= e)
    <3>1. CellOut(A, b)
      BY <2>3, <2>6
    <3>2. ~pin => ~CellIn(A, b)
      BY <1>11, <2>3, <2>4, <2>5, <2>6
    <3>3. Right(A, b, ry, pin)
      BY <1>3, <1>11, <3>1, <3>2 DEF Right
    <3>4. Goal(Stop(ry, pin))
      BY <1>8, <3>3
    <3>5. ~(v <= ry)
      BY <1>13
    <3> QED BY <1>9, <1>10, <2>6, <3>4, <3>5 DEF Goal
  <2>7. CASE ~(u > ry /\ (pin \/ u >= e)) /\ q <= a
    <3>1. u < e
      BY <1>11, <2>7
    <3>2. Behind(rects, b, k + 1, y1)
      BY <1>3, <1>4, <1>5, <1>11, <2>4, <2>7, BehindGoesOn
    <3>3. pin => ~(u > ry)
      BY <2>7
    <3>4. Searching(rects, A, b, k + 1, y1, pin, pout \/ u > ry)
      BY <1>2, <1>3, <1>11, <2>3, <2>4, <3>1, <3>2, <3>3 DEF Searching
    <3>5. Goal(Go(y1, pin, pout \/ u > ry))
      BY <1>7, <2>4, <3>4
    <3>6. ~(v <= ry)
      BY <1>13
    <3> QED BY <1>9, <1>10, <2>7, <3>5, <3>6 DEF Goal
  <2>8. ASSUME ~(u > ry /\ (pin \/ u >= e)), ~(q <= a) PROVE Goal(n)
    <3>1. u < e /\ a < q /\ y1 < e
      BY <1>11, <2>4, <2>8
    <3>2. ~(v <= ry)
      BY <1>13
    <3>3. n = IF p > a /\ pin THEN Stop(y1, pin)
              ELSE IF (p < c /\ out) \/ q < c THEN Stop(y1, in)
              ELSE IF v >= e THEN Stop(v, in)
              ELSE Go(v, in, out)
      <4> HIDE DEF in, out
      <4> QED BY <1>10, <2>8, <3>2
    <3>4. /\ out => CellOut(A, b)
          /\ in => CellIn(A, b)
      BY <1>11, <2>3, <3>1
    <3>5. CASE p > a /\ pin
      <4>1. Right(A, b, y1, pin)
        BY <1>3, <2>3, <3>1, <3>4, <3>5 DEF Right
      <4> QED BY <1>8, <2>4, <3>3, <3>5, <4>1
    <3>6. CASE ~(p > a /\ pin) /\ ((p < c /\ out) \/ q < c)
      <4>1. in
        BY <1>3, <1>5, <3>6
      <4>2. CellOut(A, b)
        BY <2>3, <3>1, <3>4, <3>6
      <4>3. Right(A, b, y1, in)
        <5> HIDE DEF in, out
        <5> QED BY <1>3, <3>1, <3>4, <4>1, <4>2 DEF Right
      <4>4. in \in BOOLEAN
        OBVIOUS
      <4> HIDE DEF in, out
      <4> QED BY <1>8, <2>4, <3>3, <3>6, <4>3, <4>4
    <3>7. ASSUME ~(p > a /\ pin), ~((p < c /\ out) \/ q < c) PROVE Goal(n)
      <4>1. c <= q /\ (in => ~out) /\ (~in => ~pin /\ c <= p) /\ (~out => ~pout /\ u <= ry /\ p <= a)
        BY <1>3, <1>11, <3>7
      <4>2. in \in BOOLEAN /\ out \in BOOLEAN
        OBVIOUS
      <4> HIDE DEF in, out
      <4>3. ~in => RowsOut(A, b, v)
        BY <1>11, <2>3, <4>1
      <4>4. ~out => RowsIn(A, b, v)
        BY <1>11, <2>3, <4>1
      <4>5. CASE v >= e
        <5>1. (RowsIn(A, b, v) => ~CellOut(A, b)) /\ (RowsOut(A, b, v) => ~CellIn(A, b))
          BY <2>5, <4>5
        <5>2. Right(A, b, v, in)
          BY <1>3, <4>1, <4>3, <4>4, <4>5, <5>1 DEF Right
        <5> QED BY <1>8, <3>3, <3>7, <4>2, <4>5, <5>2
      <4>6. CASE ~(v >= e)
        <5>1. Behind(rects, b, k + 1, v)
          BY <1>3, <1>4, <1>5, <1>11, <1>13, BehindGoesOn
        <5>2. Searching(rects, A, b, k + 1, v, in, out)
          BY <1>2, <1>3, <1>11, <1>13, <3>4, <4>3, <4>4, <4>6, <5>1 DEF Searching
        <5> QED BY <1>7, <3>3, <3>7, <4>2, <4>6, <5>2
      <4> QED BY <4>5, <4>6
    <3> HIDE DEF in, out
    <3> QED BY <3>5, <3>6, <3>7
  <2> QED BY <1>9, <2>6, <2>7, <2>8 DEF Goal
<1> QED BY <1>5, <1>12, <1>13

(* The search is right.                                                    *)
LEMMA LookIsRight ==
  ASSUME NEW rects, RectsOK(rects), \A i \in 1 .. Len(rects) : Proper(rects[i]),
         NEW A, AreaOfRects(rects, A), NEW b, Proper(b)
  PROVE  Right(A, b, Look(rects, b).ry, Look(rects, b).partIn)
<1> DEFINE N == Len(rects)
           Begin == [k |-> 1, ry |-> b.y1, partIn |-> FALSE, partOut |-> FALSE, stop |-> FALSE]
           Test(t) == t.k <= Len(rects) /\ ~t.stop
           I == {t \in LookState(rects) : LookGood(rects, A, b, t)}
           G == {t \in I : Test(t)}
           F == [t \in I |-> IF Test(t) THEN LookStep(rects, b, t) ELSE t]
           M == [t \in I |-> IF t.stop THEN 0 ELSE N + 1 - t.k]
<1>1. N \in Nat
  BY DEF RectsOK
<1>0. PICK d \in Int, e \in Int : b.y1 = d /\ b.y2 = e /\ d < e
  BY DEF Proper, Box
<1>2. Begin \in I
  <2>1. Begin \in LookState(rects)
    BY <1>0, <1>1 DEF LookState
  <2>2. RowsOut(A, b, d) /\ RowsIn(A, b, d)
    BY <1>0 DEF RowsOut, RowsIn, InBox
  <2>3. Behind(rects, b, 1, d)
    BY DEF Behind
  <2>4. Searching(rects, A, b, 1, d, FALSE, FALSE)
    BY <1>0, <1>1, <2>2, <2>3 DEF Searching
  <2>5. LookGood(rects, A, b, Begin)
    BY <1>0, <2>4 DEF LookGood
  <2> QED BY <2>1, <2>5
<1>3. ASSUME NEW t \in I, Test(t)
      PROVE  /\ LookStep(rects, b, t) \in I
             /\ 0 < M[t] /\ M[LookStep(rects, b, t)] < M[t]
  <2>1. t \in LookState(rects) /\ LookGood(rects, A, b, t) /\ ~t.stop /\ t.k <= Len(rects)
    BY <1>3
  <2>2. PICK n : n = LookStep(rects, b, t)
    OBVIOUS
  <2>3. n \in LookState(rects) /\ LookGood(rects, A, b, n) /\ (n.stop \/ n.k = t.k + 1)
    BY <2>1, <2>2, LookStepGood
  <2>4. n \in I /\ M[n] = (IF n.stop THEN 0 ELSE N + 1 - n.k) /\ M[t] = N + 1 - t.k
    BY <2>1, <2>3
  <2>5. t.k \in Int /\ 0 < N + 1 - t.k
    BY <1>1, <2>1 DEF LookState
  <2>6. n.k \in Int
    BY <1>1, <2>3 DEF LookState
  <2> HIDE DEF M, I, N
  <2>7. M[n] < M[t]
    <3>1. CASE n.stop
      BY <2>4, <2>5, <3>1
    <3>2. CASE ~n.stop
      BY <1>1, <2>3, <2>4, <2>5, <2>6, <3>2
    <3> QED BY <3>1, <3>2
  <2> QED BY <2>2, <2>4, <2>5, <2>7
<1>4. M[Begin] <= N /\ M \in [I -> Int]
  <2>1. \A t \in I : M[t] \in Int
    BY <1>1 DEF LookState
  <2>2. M[Begin] = IF Begin.stop THEN 0 ELSE N + 1 - Begin.k
    <3> HIDE DEF Begin, I
    <3> QED BY <1>2
  <2>3. Begin.stop = FALSE /\ Begin.k = 1
    OBVIOUS
  <2>4. N + 1 - 1 <= N
    BY <1>1
  <2> HIDE DEF Begin, I, N
  <2> QED BY <2>1, <2>2, <2>3, <2>4
<1> HIDE DEF Begin
<1>5. F \in [I -> I] /\ Ends(I, G, F, M)
  <2> HIDE DEF M, Test
  <2>1. \A t \in I : F[t] \in I
    BY <1>3
  <2>2. \A t \in I \cap G : 0 < M[t] /\ M[F[t]] < M[t]
    BY <1>3
  <2>3. \A t \in I \ G : F[t] = t
    OBVIOUS
  <2> QED BY <2>1, <2>2, <2>3 DEF Ends
<1> DEFINE Run(f) == f = [n \in 0 .. N |->
                            IF n = 0 THEN Begin
                            ELSE IF Test(f[n - 1]) THEN LookStep(rects, b, f[n - 1]) ELSE f[n - 1]]
<1>6. Look(rects, b) = (CHOOSE f : Run(f))[N]
  BY DEF Look, While, Begin
<1> HIDE DEF Test, M
<1>7. \E g : Run(g)
  <2>1. PICK g \in [0 .. N -> I] : IsRun(g, N, Begin, F)
    <3> HIDE DEF N, F, I
    <3> QED BY <1>1, <1>2, <1>5, RunExists
  <2>2. ASSUME NEW n \in 0 .. N, n # 0 PROVE n - 1 \in 0 .. N /\ g[n - 1] \in I
    BY <1>1, <2>1, <2>2
  <2> HIDE DEF N, I
  <2> QED BY <2>1, <2>2 DEF IsRun
<1>8. PICK f : f = (CHOOSE h : Run(h)) /\ Run(f)
  <2> HIDE DEF Run
  <2> QED BY <1>7
<1>9. f[N] \in I /\ f[N] \notin G
  <2>1. 0 \in 0 .. N /\ \A n \in 1 .. N : n \in 0 .. N /\ n # 0
    BY <1>1
  <2>2. f[0] = Begin /\ Follows(f, N, I, F)
    <3> HIDE DEF N, I, F
    <3>1. \A n \in 0 .. N : f[n] = IF n = 0 THEN Begin
                                    ELSE IF Test(f[n - 1]) THEN LookStep(rects, b, f[n - 1]) ELSE f[n - 1]
      BY <1>8
    <3>2. \A t \in I : F[t] = IF Test(t) THEN LookStep(rects, b, t) ELSE t
      BY DEF F
    <3> QED BY <2>1, <3>1, <3>2 DEF Follows
  <2> HIDE DEF N, I, F, G, Run
  <2> QED BY <1>1, <1>2, <1>4, <1>5, <2>2, RunEnds
<1>10. PICK t : t = f[N]
  OBVIOUS
<1>11. t \in LookState(rects) /\ LookGood(rects, A, b, t) /\ ~(t.k <= Len(rects) /\ ~t.stop)
  BY <1>9, <1>10 DEF Test
<1>12. Look(rects, b) = t
  <2> HIDE DEF Run
  <2> QED BY <1>6, <1>8, <1>10
<1>13. CASE t.stop
  BY <1>11, <1>12, <1>13 DEF LookGood
<1>14. CASE ~t.stop
  <2>1. PICK ry \in Int, in \in BOOLEAN, out \in BOOLEAN : ry = t.ry /\ in = t.partIn /\ out = t.partOut
    BY <1>11 DEF LookState
  <2>2. t.k = N + 1
    BY <1>1, <1>11, <1>14 DEF LookState
  <2>3. Searching(rects, A, b, N + 1, ry, in, out)
    BY <1>11, <1>14, <2>1, <2>2 DEF LookGood
  <2>4. PICK a \in Int, c \in Int : b.x1 = a /\ b.x2 = c /\ a < c
    BY DEF Proper, Box
  <2>5. ASSUME NEW x \in Int, NEW y \in Int, a <= x, ry <= y, <<x, y>> \in A PROVE FALSE
    <3>1. PICK i \in 1 .. N : InBox(rects[i], x, y)
      BY <2>5 DEF AreaOfRects
    <3>2. i \in 1 .. N + 1 - 1
      BY <1>1
    <3>3. rects[i].y2 <= ry \/ rects[i].x2 <= a
      BY <2>3, <2>4, <3>2 DEF Searching, Behind
    <3>4. PICK z \in Int, w \in Int : z = rects[i].y2 /\ w = rects[i].x2
      BY DEF Proper, Box
    <3>5. y < z /\ x < w
      BY <3>1, <3>4 DEF InBox
    <3> QED BY <2>5, <3>3, <3>4, <3>5
  <2>6. \A x, y \in Int : InBox(b, x, y) <=> a <= x /\ x < c /\ d <= y /\ y < e
    BY <1>0, <2>4 DEF InBox
  <2>7. /\ d <= ry /\ ry < e
        /\ (in => CellIn(A, b)) /\ (~in => RowsOut(A, b, ry))
    BY <1>0, <2>3 DEF Searching
  <2>8. CellOut(A, b)
    <3>1. InBox(b, a, ry) /\ <<a, ry>> \notin A
      BY <2>4, <2>5, <2>6, <2>7
    <3> QED BY <3>1 DEF CellOut
  <2>9. ASSUME ~in PROVE ~CellIn(A, b)
    <3>1. ASSUME NEW x \in Int, NEW y \in Int, InBox(b, x, y), <<x, y>> \in A PROVE FALSE
      <4>1. ~(y < ry)
        BY <2>7, <2>9, <3>1 DEF RowsOut
      <4> QED BY <2>5, <2>6, <3>1, <4>1
    <3> QED BY <3>1 DEF CellIn
  <2>10. Right(A, b, ry, in)
    BY <1>0, <2>7, <2>8, <2>9 DEF Right
  <2> QED BY <1>12, <2>1, <2>10
<1> QED BY <1>13, <1>14

(* The rectangles of a region have the points of its area.                 *)
LEMMA AreaOfRegion ==
  ASSUME NEW reg, NEW A, RegionInside(reg, A)
  PROVE  /\ AreaOfRects(RectsOf(reg), A)
         /\ \A i \in 1 .. Len(RectsOf(reg)) : Proper(RectsOf(reg)[i])
<1>1. PICK rects : rects = RectsOf(reg)
  OBVIOUS
<1>2. /\ BandsOK(reg.bands) /\ IsArea(reg.bands, A) /\ RectsOK(rects)
      /\ \A r : IsIn(r, rects) <=>
           \E k \in 1 .. Len(reg.bands) : \E j \in 1 .. Len(reg.bands[k].spans) : r = RectAt(reg.bands[k], j)
  BY <1>1, RectsOfRegion DEF RegionInside, RegionFor
<1>3. ASSUME NEW i \in 1 .. Len(rects)
      PROVE  \E k \in 1 .. Len(reg.bands) : \E j \in 1 .. Len(reg.bands[k].spans) :
               rects[i] = RectAt(reg.bands[k], j)
  <2>1. IsIn(rects[i], rects)
    BY DEF IsIn
  <2> QED BY <1>2, <2>1
<1>4. ASSUME NEW i \in 1 .. Len(rects) PROVE Proper(rects[i])
  <2>1. PICK k \in 1 .. Len(reg.bands) : \E j \in 1 .. Len(reg.bands[k].spans) : rects[i] = RectAt(reg.bands[k], j)
    BY <1>3
  <2>2. PICK j \in 1 .. Len(reg.bands[k].spans) : rects[i] = RectAt(reg.bands[k], j)
    BY <2>1
  <2>3. rects[i] \in Boxes
    BY <2>2, RectsAreBoxes
  <2> QED BY <2>3 DEF Boxes, Proper, Box
<1>5. ASSUME NEW k \in 1 .. Len(reg.bands), NEW j \in 1 .. Len(reg.bands[k].spans), NEW x \in Int, NEW y \in Int
      PROVE  InBox(RectAt(reg.bands[k], j), x, y) <=> InRows(reg.bands[k], y) /\ InSpan(reg.bands[k].spans[j], x)
  BY DEF InBox, RectAt, InRows, InSpan
<1>6. ASSUME NEW x \in Int, NEW y \in Int
      PROVE  <<x, y>> \in A <=> \E i \in 1 .. Len(rects) : InBox(rects[i], x, y)
  <2>1. <<x, y>> \in A <=> \E k \in 1 .. Len(reg.bands) : \E j \in 1 .. Len(reg.bands[k].spans) :
                             InRows(reg.bands[k], y) /\ InSpan(reg.bands[k].spans[j], x)
    BY <1>2 DEF IsArea, InBands, InFirstBands, InBand, InSpans, InFirst
  <2>2. ASSUME NEW k \in 1 .. Len(reg.bands), NEW j \in 1 .. Len(reg.bands[k].spans),
               InRows(reg.bands[k], y) /\ InSpan(reg.bands[k].spans[j], x)
        PROVE  \E i \in 1 .. Len(rects) : InBox(rects[i], x, y)
    <3>1. InBox(RectAt(reg.bands[k], j), x, y)
      BY <1>5, <2>2
    <3>2. PICK i \in 1 .. Len(rects) : rects[i] = RectAt(reg.bands[k], j)
      BY <1>2 DEF IsIn
    <3> QED BY <3>1, <3>2
  <2>3. ASSUME NEW i \in 1 .. Len(rects), InBox(rects[i], x, y)
        PROVE  \E k \in 1 .. Len(reg.bands) : \E j \in 1 .. Len(reg.bands[k].spans) :
                 InRows(reg.bands[k], y) /\ InSpan(reg.bands[k].spans[j], x)
    <3>1. PICK k \in 1 .. Len(reg.bands) : \E j \in 1 .. Len(reg.bands[k].spans) : rects[i] = RectAt(reg.bands[k], j)
      BY <1>3
    <3>2. PICK j \in 1 .. Len(reg.bands[k].spans) : rects[i] = RectAt(reg.bands[k], j)
      BY <3>1
    <3>3. InBox(RectAt(reg.bands[k], j), x, y)
      BY <2>3, <3>2
    <3>4. InRows(reg.bands[k], y) /\ InSpan(reg.bands[k].spans[j], x)
      BY <1>5, <3>3
    <3> QED BY <3>4
  <2> QED BY <2>1, <2>2, <2>3
<1> QED BY <1>1, <1>4, <1>6 DEF AreaOfRects

(* XRectInRegion tells whether the area has all, some or none of b.        *)
THEOREM RectInRegionIsRight ==
  ASSUME NEW reg, NEW A, RegionInside(reg, A), NEW b \in Boxes
  PROVE  RectInRegion(reg, b) = IF CellsOf(b) \cap A = {} THEN "out"
                                ELSE IF CellsOf(b) \subseteq A THEN "in" ELSE "part"
<1>1. PICK a \in Int, c \in Int, d \in Int, e \in Int :
        b.x1 = a /\ b.x2 = c /\ b.y1 = d /\ b.y2 = e /\ a < c /\ d < e
  BY DEF Boxes
<1>2. Proper(b)
  BY DEF Proper, Box, Boxes
<1>3. \A x, y \in Int : <<x, y>> \in CellsOf(b) <=> InBox(b, x, y)
  <2>1. \A x, y \in Int : <<x, y>> \in CellsOf(b) <=> x \in a .. c - 1 /\ y \in d .. e - 1
    BY <1>1 DEF CellsOf
  <2>2. \A x, y \in Int : InBox(b, x, y) <=> a <= x /\ x < c /\ d <= y /\ y < e
    BY <1>1 DEF InBox
  <2>3. /\ \A x \in Int : x \in a .. c - 1 <=> a <= x /\ x < c
        /\ \A y \in Int : y \in d .. e - 1 <=> d <= y /\ y < e
    OBVIOUS
  <2> QED BY <2>1, <2>2, <2>3, Zenon
<1>4. CellsOf(b) \subseteq Int \X Int
  BY <1>1 DEF CellsOf
<1>5. CellsOf(b) \cap A = {} <=> ~CellIn(A, b)
  <2>1. ASSUME NEW z \in CellsOf(b) \cap A PROVE CellIn(A, b)
    <3>1. PICK x \in Int, y \in Int : z = <<x, y>>
      BY <1>4
    <3> QED BY <1>3, <3>1 DEF CellIn
  <2>2. ASSUME CellIn(A, b) PROVE CellsOf(b) \cap A # {}
    BY <1>3, <2>2 DEF CellIn
  <2> QED BY <2>1, <2>2
<1>6. CellsOf(b) \subseteq A <=> ~CellOut(A, b)
  <2>1. ASSUME NEW z \in CellsOf(b), z \notin A PROVE CellOut(A, b)
    <3>1. PICK x \in Int, y \in Int : z = <<x, y>>
      BY <1>4
    <3> QED BY <1>3, <2>1, <3>1 DEF CellOut
  <2>2. ASSUME CellOut(A, b) PROVE ~(CellsOf(b) \subseteq A)
    BY <1>3, <2>2 DEF CellOut
  <2> QED BY <2>1, <2>2
<1>7. CellIn(A, b) \/ CellOut(A, b)
  <2>1. InBox(b, a, d)
    BY <1>1 DEF InBox
  <2> QED BY <2>1 DEF CellIn, CellOut
<1>8. CASE reg.bands = <<>>
  <2>1. A = {}
    BY <1>8, EmptyArea DEF RegionInside, RegionFor
  <2> QED BY <1>8, <2>1 DEF RectInRegion
<1>9. CASE reg.bands # <<>> /\ ~Meet(reg.extents, b)
  <2>1. Hull(reg.extents, A) /\ reg.extents \in Box
    BY <1>9 DEF RegionInside, RegionFor, Region
  <2>2. PICK p \in Int, q \in Int, u \in Int, v \in Int :
          p = reg.extents.x1 /\ q = reg.extents.x2 /\ u = reg.extents.y1 /\ v = reg.extents.y2
    BY <2>1 DEF Box
  <2>3. ASSUME NEW x \in Int, NEW y \in Int, InBox(b, x, y), <<x, y>> \in A PROVE FALSE
    <3>1. InBox(reg.extents, x, y)
      BY <2>1, <2>3 DEF Hull
    <3>2. p <= x /\ x < q /\ u <= y /\ y < v
      BY <2>2, <3>1 DEF InBox
    <3>3. a <= x /\ x < c /\ d <= y /\ y < e
      BY <1>1, <2>3 DEF InBox
    <3>4. ~(q > a /\ p < c /\ v > d /\ u < e)
      BY <1>1, <1>9, <2>2 DEF Meet
    <3> QED BY <3>2, <3>3, <3>4
  <2>4. ~CellIn(A, b)
    BY <2>3 DEF CellIn
  <2> QED BY <1>5, <1>9, <2>4 DEF RectInRegion
<1>10. CASE reg.bands # <<>> /\ Meet(reg.extents, b)
  <2>1. RectsOK(RectsOf(reg))
    BY RectsOfRegion DEF RegionInside, RegionFor
  <2>2. Right(A, b, Look(RectsOf(reg), b).ry, Look(RectsOf(reg), b).partIn)
    BY <1>2, <2>1, AreaOfRegion, LookIsRight
  <2>3. PICK t : t = Look(RectsOf(reg), b)
    OBVIOUS
  <2>4. RectInRegion(reg, b) = IF ~t.partIn THEN "out" ELSE IF t.ry < b.y2 THEN "part" ELSE "in"
    BY <1>10, <2>3 DEF RectInRegion
  <2>5. /\ ~t.partIn => ~CellIn(A, b)
        /\ t.partIn /\ t.ry < b.y2 => CellIn(A, b) /\ CellOut(A, b)
        /\ t.partIn /\ ~(t.ry < b.y2) => ~CellOut(A, b)
    BY <2>2, <2>3 DEF Right
  <2> QED BY <1>5, <1>6, <1>7, <2>4, <2>5
<1> QED BY <1>8, <1>9, <1>10
-----------------------------------------------------------------------------
(***************************************************************************)
(* The theorems.                                                           *)
(***************************************************************************)
(* The invariant says what RegionIsArea says,                              *)
LEMMA RegionOfArea == IInv => RegionIsArea
<1> SUFFICES ASSUME IInv, area # {} \/ region.bands # <<>> PROVE RegionIsArea
  BY DEF RegionIsArea
<1>1. RegionInside(region, area)
  BY DEF IInv
<1>2. region.bands # <<>>
  BY <1>1, EmptyArea DEF RegionInside, RegionFor
<1>3. Range(RectsOf(region)) = Canonical(area) /\ Sorted(RectsOf(region))
  BY <1>1, RectsOfArea
<1>4. region.extents = [x1 |-> Min({c[1] : c \in area}), y1 |-> Min({c[2] : c \in area}),
                        x2 |-> Max({c[1] : c \in area}) + 1, y2 |-> Max({c[2] : c \in area}) + 1]
  BY <1>1, <1>2, ExtentsOfArea
<1>5. \A b \in Boxes : RectInRegion(region, b) = IF CellsOf(b) \cap area = {} THEN "out"
                                                 ELSE IF CellsOf(b) \subseteq area THEN "in" ELSE "part"
  <2>1. ASSUME NEW b \in Boxes
        PROVE  RectInRegion(region, b) = IF CellsOf(b) \cap area = {} THEN "out"
                                         ELSE IF CellsOf(b) \subseteq area THEN "in" ELSE "part"
    BY <1>1, RectInRegionIsRight
  <2> QED BY <2>1
<1> QED BY <1>3, <1>4, <1>5 DEF RegionIsArea

(* and that the region is inside the bounds.                               *)
LEMMA RegionTyped == IInv => RegionTypeOK
<1> SUFFICES ASSUME IInv PROVE RegionTypeOK
  OBVIOUS
<1>1. RegionInside(region, area)
  BY DEF IInv
<1>2. area \subseteq Cells /\ Inside(region.extents)
  BY <1>1, InsideCells DEF RegionInside
<1>3. BandsOK(region.bands)
  BY <1>1 DEF RegionInside, RegionFor
<1>4. DOMAIN region.bands = 1 .. Len(region.bands)
  BY <1>3 DEF BandsOK
<1>5. \A i \in DOMAIN region.bands : region.bands[i].spans # <<>>
  BY <1>3, <1>4, BandAt
<1> QED BY <1>2, <1>5 DEF RegionTypeOK

(* Every sequence of operations leaves a region inside the bounds, its     *)
(* area with it, and no band of it without a rectangle.                    *)
THEOREM RegionTyping == RegionSpec => []RegionTypeOK
<1>1. RegionInit => IInv
  BY RegionStarts
<1>2. IInv /\ [RegionNext]_regionVars => IInv'
  BY RegionSteps
<1>3. IInv => RegionTypeOK
  BY RegionTyped
<1> QED BY <1>1, <1>2, <1>3, PTL DEF RegionSpec

(* After every sequence of operations a region is the one list of          *)
(* rectangles that its area has, its extents are those of the area, and    *)
(* XRectInRegion tells of every rectangle whether the area has all, some   *)
(* or none of it.                                                          *)
THEOREM RegionsAreAreas == RegionSpec => []RegionIsArea
<1>1. RegionInit => IInv
  BY RegionStarts
<1>2. IInv /\ [RegionNext]_regionVars => IInv'
  BY RegionSteps
<1>3. IInv => RegionIsArea
  BY RegionOfArea
<1> QED BY <1>1, <1>2, <1>3, PTL DEF RegionSpec
=============================================================================
