--------------------------- MODULE ResourceDatabase ---------------------------
(***************************************************************************)
(* The resource database of myXrm.c: a tree whose inner tables hold tables *)
(* and whose leaf tables hold values.  The tables of a name stand next to  *)
(* each other in a chain, in the order tight and loose inner table, tight  *)
(* and loose leaf table, and the searches rely on it.  Databases are so    *)
(* small here that a table has a single chain (mask 0); every operation    *)
(* is under db->linfo and one step.                                        *)
(***************************************************************************)
EXTENDS Naturals, Sequences, FiniteSets
LOCAL INSTANCE SequencesExt

CONSTANTS XrmQANY,      \* "?"
          NULLQUARK,
          ResourceName, ResourceClass,   \* of the last level of every query
          Queries,      \* the levels above it: sequences of [name, class]
          Specifiers,   \* what entries are put with: sequences of [tight, name]
          MaxPut        \* bound: entries of the database, and overridden ones

VARIABLES db,              \* db->table and what follows it
          resourceQuarks,  \* quarks that have ever named a value
          entries          \* history: specifier -> value it should have

databaseVars == <<db, resourceQuarks, entries>>
-----------------------------------------------------------------------------
NewTable(name, tight, leaf) ==
  [name |-> name, tight |-> tight, leaf |-> leaf, hasloose |-> FALSE, hasany |-> FALSE,
   kids |-> <<>>]
(* A value counts as a leaf where a chain is searched.                     *)
Entry(c, value) == [name |-> c.name, tight |-> c.tight, leaf |-> TRUE, value |-> value]

FirstNamed(chain, name) == SelectInSeq(chain, LAMBDA t : t.name = name)
IsNamed(chain, i, name) == i \in DOMAIN chain /\ chain[i].name = name

\* Mutant: goes no further than the first table of the name.
PlaceFirst(chain, c, leaf) ==
  LET first == FirstNamed(chain, c.name)
  IN IF first = 0 THEN Len(chain) + 1 ELSE first

(* Where PutEntry finds, or puts, a table or value of this kind.           *)
Place(chain, c, leaf) ==
  LET first == FirstNamed(chain, c.name)
      RECURSIVE After(_)
      After(i) == IF /\ IsNamed(chain, i, c.name)
                     /\ \/ leaf /\ ~chain[i].leaf
                        \/ chain[i].leaf = leaf /\ ~c.tight /\ chain[i].tight
                  THEN After(i + 1) ELSE i
  IN IF first = 0 THEN Len(chain) + 1 ELSE After(first)

IsAt(chain, i, c, leaf) ==
  IsNamed(chain, i, c.name) /\ chain[i].leaf = leaf /\ chain[i].tight = c.tight

RECURSIVE Into(_, _, _)
Into(table, spec, value) ==
  LET c == Head(spec)
      last == Len(spec) = 1
      leaf == Len(spec) <= 2
      i == Place(table.kids, c, leaf)
      there == IsAt(table.kids, i, c, leaf)
      kid == IF last THEN Entry(c, value)
             ELSE Into(IF there THEN table.kids[i] ELSE NewTable(c.name, c.tight, leaf),
                       Tail(spec), value)
  IN [table EXCEPT !.kids = IF there THEN ReplaceAt(@, i, kid) ELSE InsertAt(@, i, kid),
                   !.hasloose = @ \/ ~c.tight,
                   !.hasany = @ \/ (~last /\ c.name = XrmQANY)]

(* The top-level tables: the inner one, then the leaf.                     *)
PutEntry(d, spec, value) ==
  LET leaf == Len(spec) = 1
      i == IF leaf /\ d # <<>> /\ ~Head(d).leaf THEN 2 ELSE 1
  IN IF i > Len(d) \/ (~leaf /\ d[i].leaf)
     THEN InsertAt(d, i, Into(NewTable(NULLQUARK, TRUE, leaf), spec, value))
     ELSE ReplaceAt(d, i, Into(d[i], spec, value))
-----------------------------------------------------------------------------
(* MergeTables and MergeValues: the chain from is woven into the chain to. *)
Earlier(t, f) == \/ f.leaf /\ ~t.leaf
                 \/ ~f.tight /\ t.tight /\ (f.leaf \/ ~t.leaf)

RECURSIVE MergeChain(_, _, _), Weave(_, _, _, _, _), MergeTable(_, _, _)

(* i is prev and tentry, q the name whose entries are merged.              *)
Weave(from, to, i, q, override) ==
  IF from = <<>> THEN to
  ELSE LET f == Head(from)
           same == IsNamed(to, i, f.name)
       IN IF same /\ Earlier(to[i], f) THEN Weave(from, to, i + 1, q, override)
          ELSE IF same /\ (f.leaf # to[i].leaf \/ f.tight # to[i].tight)
          THEN Weave(Tail(from), InsertAt(to, i, f), i + 1, q, override)
          ELSE IF same
          THEN Weave(Tail(from), ReplaceAt(to, i, MergeTable(f, to[i], override)), i + 1, q,
                     override)
          ELSE IF f.name = q
          THEN Weave(Tail(from), InsertAt(to, i, f), i + 1, q, override)
          ELSE MergeChain(from, to, override)

MergeChain(from, to, override) ==
  IF from = <<>> THEN to
  ELSE LET q == Head(from).name
           i == FirstNamed(to, q)
       IN Weave(from, to, IF i = 0 THEN Len(to) + 1 ELSE i, q, override)

MergeTable(f, t, override) ==
  IF "value" \in DOMAIN f THEN IF override THEN f ELSE t
  ELSE [t EXCEPT !.kids = MergeChain(f.kids, @, override),
                 !.hasloose = @ \/ f.hasloose, !.hasany = @ \/ f.hasany]

CombineDatabase(from, into, override) ==
  LET Inner(d) == SelectSeq(d, LAMBDA t : ~t.leaf)
      Leaf(d) == SelectSeq(d, LAMBDA t : t.leaf)
      Both(f, t) == IF f = <<>> THEN t ELSE IF t = <<>> THEN f
                    ELSE <<MergeTable(f[1], t[1], override)>>
  IN Both(Inner(from), Inner(into)) \o Both(Leaf(from), Leaf(into))
-----------------------------------------------------------------------------
(* The leaf tables that SearchNEntry and GetNEntry come to, in their       *)
(* order; loose: only for values with a loose binding.                     *)
Visit(chain, i, path, loose) ==
  <<[table |-> chain[i], at |-> Append(path, i), loose |-> loose]>>
Loosely(chain, i, path) ==
  IF chain[i].hasloose THEN Visit(chain, i, path, TRUE) ELSE <<>>

NFind(chain, q, leaf) ==
  LET first == FirstNamed(chain, q)
      RECURSIVE Leaf(_, _)
      Leaf(i, n) == IF n > 0 /\ i \in DOMAIN chain /\ ~chain[i].leaf THEN Leaf(i + 1, n - 1)
                    ELSE i
      i == IF leaf THEN Leaf(first, 2) ELSE first
  IN IF first # 0 /\ IsNamed(chain, i, q) THEN i ELSE 0

RECURSIVE SearchNEntry(_, _, _, _)
SearchNEntry(chain, i, path, levels) ==
  LET table == chain[i]
      kids == table.kids
      here == Append(path, i)
      Get(j, k) == IF kids[j].leaf THEN Visit(kids, j, here, FALSE)
                   ELSE SearchNEntry(kids, j, here, SubSeq(levels, k + 1, Len(levels)))
      \* GTIGHTLOOSE
      TightLoose(q, k) ==
        LET leaf == k = Len(levels)
            j == NFind(kids, q, leaf)
            next == IsNamed(kids, j + 1, q)
        IN IF j = 0 THEN <<>>
           ELSE IF kids[j].leaf = leaf
           THEN (IF ~leaf /\ ~kids[j].tight /\ next /\ kids[j + 1].tight
                 THEN Loosely(kids, j + 1, here) ELSE <<>>)
                \o Get(j, k)
                \o (IF kids[j].tight /\ next /\ kids[j + 1].leaf = leaf THEN Get(j + 1, k)
                    ELSE <<>>)
           ELSE IF kids[j].leaf
           THEN Loosely(kids, j, here)
                \o (IF kids[j].tight /\ next THEN Loosely(kids, j + 1, here) ELSE <<>>)
           ELSE <<>>
      \* GLOOSE
      Loose(q, k) ==
        LET leaf == k = Len(levels)
            first == NFind(kids, q, leaf)
            j == IF first # 0 /\ kids[first].tight THEN first + 1 ELSE first
        IN IF first = 0 \/ ~IsNamed(kids, j, q) THEN <<>>
           ELSE IF kids[j].leaf = leaf THEN Get(j, k)
           ELSE IF kids[j].leaf THEN Loosely(kids, j, here) ELSE <<>>
      Level(Find(_, _), k) ==
        Find(levels[k].name, k) \o Find(levels[k].class, k)
        \o (IF table.hasany THEN Find(XrmQANY, k) ELSE <<>>)
      \* leaf tables of the same name
      j == IF i + 1 \in DOMAIN chain
              /\ (~chain[i + 1].leaf \/ (chain[i + 1].tight /\ ~table.tight))
           THEN i + 2 ELSE i + 1
      leaves == IF \/ ~IsNamed(chain, j, table.name)
                   \/ ~chain[i + 1].leaf /\ ~chain[j].tight
                THEN <<>>
                ELSE Loosely(chain, j, path)
                     \o (IF chain[j].tight /\ j = i + 1 /\ IsNamed(chain, j + 1, table.name)
                         THEN Loosely(chain, j + 1, path) ELSE <<>>)
  IN Level(TightLoose, 1)
     \o (IF table.hasloose
         THEN FlattenSeq([k \in 1 .. Len(levels) - 1 |-> Level(Loose, k + 1)]) ELSE <<>>)
     \o leaves

Visits(d, levels) ==
  LET Leaf(loose) == LET i == SelectInSeq(d, LAMBDA t : t.leaf)
                     IN IF i = 0 THEN <<>>
                        ELSE IF loose THEN Loosely(d, i, <<>>) ELSE Visit(d, i, <<>>, FALSE)
  IN IF levels = <<>> THEN Leaf(FALSE)
     ELSE IF d # <<>> /\ ~d[1].leaf THEN SearchNEntry(d, 1, <<>>, levels) ELSE Leaf(TRUE)

(* The value for a name, or else for the class, in a leaf table.           *)
ValueIn(v, quarks) ==
  LET kids == v.table.kids
      Find(q) == LET i == FirstNamed(kids, q)
                     j == IF i # 0 /\ v.loose /\ kids[i].tight THEN i + 1 ELSE i
                 IN IF i # 0 /\ IsNamed(kids, j, q) THEN <<kids[j].value>> ELSE <<>>
  IN FlattenSeq([k \in DOMAIN quarks |-> Find(quarks[k])])

FirstValue(visits, quarks) ==
  LET k == SelectInSeq(visits, LAMBDA v : ValueIn(v, quarks) # <<>>)
  IN IF k = 0 THEN NULLQUARK ELSE Head(ValueIn(visits[k], quarks))

GetResource(visits) == FirstValue(visits, <<ResourceName, ResourceClass>>)

(* XrmQGetSearchList leaves a table out that is the last of the list.      *)
GetSearchList(visits) ==
  FoldLeft(LAMBDA list, v : IF list # <<>> /\ Last(list).at = v.at THEN list
                            ELSE Append(list, v), <<>>, visits)

(* and XrmQGetSearchResource looks for quarks that have named a value.     *)
GetSearchResource(list) ==
  FirstValue(list, SelectSeq(<<ResourceName, ResourceClass>>,
                             LAMBDA q : q \in resourceQuarks))
-----------------------------------------------------------------------------
DatabaseInit == db = <<>> /\ resourceQuarks = {} /\ entries = <<>>

(* Values tell the specifier they were stored with.                        *)
Value(spec, n) == [spec |-> spec, n |-> n]
Overridden == {s \in DOMAIN entries : entries[s].n = 1}
Stored(news) == [s \in DOMAIN news \cup DOMAIN entries |->
                   IF s \in DOMAIN news THEN news[s] ELSE entries[s]]
Weight == Cardinality(DOMAIN entries) + Cardinality(Overridden)
WithinBound == Weight' <= MaxPut

PutResource(spec, n) ==
  /\ entries' = Stored([s \in {spec} |-> Value(s, n)])
  /\ WithinBound
  /\ db' = PutEntry(db, spec, Value(spec, n))
  /\ resourceQuarks' = resourceQuarks \cup {Last(spec).name}

(* XrmMergeDatabases, or a file read with override or without.             *)
MergeDatabase(a, b, override) ==
  /\ entries' = Stored([s \in IF override THEN {a, b} ELSE {a, b} \ DOMAIN entries |->
                          Value(s, 1)])
  /\ WithinBound
  /\ db' = CombineDatabase(PutEntry(PutEntry(<<>>, a, Value(a, 1)), b, Value(b, 1)), db,
                           override)
  /\ resourceQuarks' = resourceQuarks \cup {Last(a).name, Last(b).name}

DatabaseNext ==
  \/ \E s \in Specifiers, n \in {0, 1} : PutResource(s, n)
  \/ Weight < MaxPut /\ \E a, b \in Specifiers, override \in BOOLEAN :
                            MergeDatabase(a, b, override)
DatabaseSpec == DatabaseInit /\ [][DatabaseNext]_databaseVars
-----------------------------------------------------------------------------
(* How a specifier can match a query: the levels its components stand for. *)
Query(levels) == Append(levels, [name |-> ResourceName, class |-> ResourceClass])
MatchesAt(spec, query) ==
  {p \in [DOMAIN spec -> DOMAIN query] :
     /\ p[Len(spec)] = Len(query)
     /\ \A j \in DOMAIN spec :
          LET before == IF j = 1 THEN 0 ELSE p[j - 1]
          IN /\ p[j] > before
             /\ spec[j].tight => p[j] = before + 1
             /\ spec[j].name \in {query[p[j]].name, query[p[j]].class, XrmQANY}}

(* What counts at a level, best first: name, class, "?", each tight before *)
(* loose, and last a level that is skipped.                                *)
Rank(spec, p, query) ==
  [k \in DOMAIN query |->
     IF \A j \in DOMAIN spec : p[j] # k THEN 7
     ELSE LET c == spec[CHOOSE j \in DOMAIN spec : p[j] = k]
          IN (IF c.name = query[k].name THEN 1 ELSE IF c.name = query[k].class THEN 3 ELSE 5)
             + IF c.tight THEN 0 ELSE 1]

Before(r1, r2) == \E k \in DOMAIN r1 : r1[k] < r2[k] /\ \A i \in 1 .. k - 1 : r1[i] = r2[i]

Best(levels) ==
  LET query == Query(levels)
      ranked == UNION {{<<Rank(s, p, query), s>> : p \in MatchesAt(s, query)} :
                         s \in DOMAIN entries}
  IN IF ranked = {} THEN NULLQUARK
     ELSE entries[(CHOOSE r \in ranked : \A o \in ranked : ~Before(o[1], r[1]))[2]]

DatabaseTypeOK ==
  /\ Len(db) <= 2
  /\ resourceQuarks \subseteq {Last(s).name : s \in Specifiers}
  /\ DOMAIN entries \subseteq Specifiers

(* GLOOSE says "loose only", but takes the tight leaf table behind a tight *)
(* inner one for a loose table where no loose inner one is between them.   *)
TakenForLoose ==
  \E s, t \in DOMAIN entries :
    \E i \in 1 .. Len(s) - 1 :
      /\ Len(s) = i + 1 /\ Len(t) > i + 1
      /\ s[i].tight /\ SubSeq(t, 1, i) = SubSeq(s, 1, i)
      /\ \A u \in DOMAIN entries :
           Len(u) > i + 1 => SubSeq(u, 1, i) # [SubSeq(s, 1, i) EXCEPT ![i].tight = FALSE]

(* However a database came about, both ways to look a resource up find the *)
(* entry that matches best.                                                *)
ResourceIsBest ==
  entries # <<>> /\ ~TakenForLoose =>
    \A levels \in Queries :
      LET visits == Visits(db, levels)
          best == Best(levels)
      IN GetResource(visits) = best /\ GetSearchResource(GetSearchList(visits)) = best
=============================================================================
