----------------------------- MODULE HeapPages -----------------------------
(***************************************************************************)
(* The pages of the shared heap.  The C library asks getmoreShared for     *)
(* memory and gives it back to releaseShared; a bitmap remembers which     *)
(* pages are committed.  The library serializes the two, as the header of  *)
(* HeapShared.c assumes.                                                   *)
(***************************************************************************)
EXTENDS Integers

CONSTANTS MaxHeapPages,   \* MAX_HEAPPAGES, 12800
          IncrPages,      \* INCR_HEAPSIZE in pages, 4
          PageSize,       \* PAGE_SIZE, 4096
          Sizes           \* what the C library asks for, in bytes

ASSUME HeapAssumption ==
  /\ MaxHeapPages \in Nat /\ IncrPages \in 1 .. MaxHeapPages
  /\ PageSize \in Nat \ {0}
  /\ Sizes \subseteq Nat

VARIABLES pageBitmap,     \* pages marked as committed
          committed,      \* pages that DosSetMem has committed
          blocks          \* what the C library holds: first page and length

heapVars == <<pageBitmap, committed, blocks>>
-----------------------------------------------------------------------------
Pages == 0 .. MaxHeapPages - 1
BlockPages(b) == b.at .. (b.at + b.len - 1)

(* (size + 4096) & 0xFFFFF000, at least INCR_HEAPSIZE, in pages.           *)
PagesFor(size) ==
  LET n == (size + PageSize) \div PageSize IN IF n < IncrPages THEN IncrPages ELSE n

(* How many pages from i on are free.                                      *)
GetPageRangeFree(i) ==
  LET free[j \in 0 .. MaxHeapPages] ==
        IF j = MaxHeapPages \/ j \in pageBitmap THEN 0 ELSE 1 + free[j + 1]
  IN free[i]

\* Mutant: the search goes on behind the n pages it has looked for.
SearchPagesAndSkip(n) ==
  LET try[i \in 0 .. MaxHeapPages] ==
        IF i + n > MaxHeapPages THEN MaxHeapPages
        ELSE IF GetPageRangeFree(i) >= n THEN i
        ELSE try[i + (IF GetPageRangeFree(i) = 0 THEN 1 ELSE n)]
  IN try[0]

(* The loop of getmoreShared, which goes on behind the free pages it has   *)
(* seen if they are too few; MaxHeapPages if it ends without a result.     *)
SearchPages(n) ==
  LET try[i \in 0 .. MaxHeapPages] ==
        IF i = MaxHeapPages THEN i
        ELSE LET free == GetPageRangeFree(i)
             IN IF free >= n THEN i ELSE try[i + (IF free = 0 THEN 1 ELSE free)]
  IN try[0]

\* Mutant: the bitmap is taken to have one page more.
FitsOneMore(n, at) ==
  at + n <= MaxHeapPages + 1 /\ \A p \in at .. (at + n - 1) : p \notin pageBitmap

(* What it looks for: the first place with n free pages.                   *)
Fits(n, at) == at + n <= MaxHeapPages /\ \A p \in at .. (at + n - 1) : p \notin pageBitmap
FirstFit(n, at) == Fits(n, at) /\ \A i \in Pages : Fits(n, i) => at <= i

HeapInit ==
  /\ pageBitmap = 0 .. IncrPages - 1
  /\ committed = pageBitmap
  /\ blocks = {[at |-> 0, len |-> IncrPages]}

(* getmoreShared; if nothing fits, or DosSetMem fails, nothing changes.    *)
GetMoreShared(size) ==
  LET n == PagesFor(size)
  IN \E at \in Pages :
       /\ FirstFit(n, at)
       /\ pageBitmap' = pageBitmap \cup at .. (at + n - 1)
       /\ committed' = committed \cup at .. (at + n - 1)
       /\ blocks' = blocks \cup {[at |-> at, len |-> n]}

\* Mutant: the loop over the bitmap leaves out the last page.
ReleaseOneLess(b, len) ==
  LET from == b.at + b.len - len
  IN /\ committed' = committed \ from .. (b.at + b.len - 1)
     /\ pageBitmap' = pageBitmap \ from .. (b.at + b.len - 2)
     /\ blocks' = (blocks \ {b}) \cup
          (IF len = b.len THEN {} ELSE {[at |-> b.at, len |-> b.len - len]})

(* releaseShared of the last len pages of a block, or of all of it.        *)
ReleaseShared(b, len) ==
  LET from == b.at + b.len - len
      pages == from .. (b.at + b.len - 1)
  IN /\ committed' = committed \ pages
     /\ pageBitmap' = pageBitmap \ pages
     /\ blocks' = (blocks \ {b}) \cup
          (IF len = b.len THEN {} ELSE {[at |-> b.at, len |-> b.len - len]})

HeapNext ==
  \/ \E size \in Sizes : GetMoreShared(size)
  \/ \E b \in blocks : \E len \in 1 .. b.len : ReleaseShared(b, len)

HeapSpec == HeapInit /\ [][HeapNext]_heapVars
-----------------------------------------------------------------------------
HeapTypeOK ==
  /\ pageBitmap \subseteq Pages
  /\ committed \subseteq Pages
  /\ blocks \subseteq [at : Pages, len : 1 .. MaxHeapPages]

(* However blocks are taken, cut and given back: no page is in two blocks, *)
(* all pages of a block can be used, and none outside is marked as taken.  *)
PagesMatchBlocks ==
  /\ \A b, c \in blocks : b # c => BlockPages(b) \cap BlockPages(c) = {}
  /\ pageBitmap = UNION {BlockPages(b) : b \in blocks}
  /\ committed = pageBitmap

(* The search skips pages, and yet it finds the first place that is large  *)
(* enough for what is asked for; it finds none only if there is none, in   *)
(* whatever pieces the free pages are once the heap is not as at first.    *)
SearchIsFirstFit ==
  pageBitmap # 0 .. IncrPages - 1 =>
    \A n \in {PagesFor(size) : size \in Sizes} :
      LET found == SearchPages(n)
      IN IF found = MaxHeapPages THEN \A i \in Pages : ~Fits(n, i) ELSE FirstFit(n, found)
=============================================================================
