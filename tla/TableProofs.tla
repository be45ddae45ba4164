------------------------- MODULE TableProofs -------------------------
(***************************************************************************)
(* The shared tables and caches that keep to themselves: atoms, the cache  *)
(* of attributes, gravity, the pages of the heap, the counts of resources, *)
(* the contexts and the table of windows.  Each has its section, with its  *)
(* invariant, one lemma for each of its actions, and the theorems at the   *)
(* end.  No section uses another, but three of them the first, which is    *)
(* about recursion, and the last all but that of the contexts: it is about *)
(* the tables of the server side by side.                                  *)
(***************************************************************************)
EXTENDS MCSharedTables, ContextTable, EventMaskProofs,
        FiniteSetTheorems, WellFoundedInduction, TLAPS
-----------------------------------------------------------------------------
(***************************************************************************)
(* Recursive functions.  A definition by recursion says what the function  *)
(* is if there is one; there is one if each step goes nearer to an end.    *)
(***************************************************************************)

(* What holds at a place up to the end if it holds behind it, holds at all.*)
LEMMA BackFromEnd ==
  ASSUME NEW M \in Nat, NEW S, \A j \in 0 .. M : (\A i \in (j + 1) .. M : i \in S) => j \in S
  PROVE  0 .. M \subseteq S
<1> DEFINE Bad == {n \in Nat : M - n \in 0 .. M /\ M - n \notin S}
<1>1. ASSUME Bad # {} PROVE FALSE
  <2>1. PICK n \in Bad : \A m \in Bad : n <= m
    <3> HIDE DEF Bad
    <3>1. Bad \subseteq Nat
      BY DEF Bad
    <3> QED BY <1>1, <3>1, LeastNumber
  <2>2. PICK i \in (M - n + 1) .. M : i \notin S
    BY <2>1
  <2>3. M - i \in Nat /\ M - (M - i) = i /\ ~(n <= M - i)
    BY <2>1, <2>2
  <2>4. M - i \in Bad
    BY <2>2, <2>3
  <2> QED BY <2>1, <2>3, <2>4
<1>2. ASSUME NEW j \in 0 .. M, j \notin S PROVE M - j \in Bad
  <2>1. M - j \in Nat /\ M - (M - j) = j
    OBVIOUS
  <2> QED BY <1>2, <2>1
<1> QED BY <1>1, <1>2

(* Places from which the end is less than n steps away.                   *)
Near(D, rank, n) == {j \in D : rank[j] < n}
Recurs(f, D, stop, base, next, step) ==
  \A j \in D : f[j] = IF j \in stop THEN base[j] ELSE step[<<j, f[next[j]]>>]

(* There is a function that stops where rank does and steps elsewhere.     *)
LEMMA RecursiveFunction ==
  ASSUME NEW D, NEW V, NEW stop, NEW base \in [D -> V], NEW next \in [D -> D],
         NEW step \in [D \X V -> V], NEW N \in Nat, NEW rank \in [D -> 0 .. N],
         \A j \in D \ stop : rank[next[j]] < rank[j]
  PROVE  \E f \in [D -> V] : Recurs(f, D, stop, base, next, step)
<1> DEFINE Low(n) == Near(D, rank, n)
           Bad == {n \in Nat : ~ \E f \in [Low(n) -> V] : Recurs(f, Low(n), stop, base, next, step)}
<1>1. ASSUME Bad # {} PROVE FALSE
  <2>1. PICK n \in Bad : \A m \in Bad : n <= m
    <3> HIDE DEF Bad
    <3>1. Bad \subseteq Nat
      BY DEF Bad
    <3> QED BY <1>1, <3>1, LeastNumber
  <2>2. n # 0
    <3>1. Low(0) = {}
      BY DEF Near
    <3> DEFINE z == [j \in {} |-> base[j]]
    <3>2. z \in [{} -> V] /\ Recurs(z, {}, stop, base, next, step)
      BY DEF Recurs
    <3> HIDE DEF z
    <3>3. 0 \notin Bad
      BY <3>1, <3>2
    <3> QED BY <2>1, <3>3
  <2>3. n \in Nat /\ n - 1 \in Nat /\ n - 1 \notin Bad
    BY <2>1, <2>2
  <2>4. PICK g \in [Low(n - 1) -> V] : Recurs(g, Low(n - 1), stop, base, next, step)
    BY <2>3
  <2> DEFINE h == [j \in Low(n) |-> IF j \in stop THEN base[j] ELSE step[<<j, g[next[j]]>>]]
  <2>5. ASSUME NEW j \in Low(n), j \notin stop PROVE next[j] \in Low(n - 1) /\ next[j] \in Low(n)
    <3>1. j \in D /\ next[j] \in D /\ rank[j] < n /\ rank[next[j]] < rank[j]
      BY <2>5 DEF Near
    <3>2. rank[j] \in Nat /\ rank[next[j]] \in Nat
      BY <3>1
    <3>3. rank[next[j]] < n - 1 /\ rank[next[j]] < n
      BY <2>3, <3>1, <3>2
    <3> QED BY <3>1, <3>3 DEF Near
  <2>6. ASSUME NEW j \in Low(n - 1) PROVE j \in Low(n) /\ h[j] = g[j]
    <3>1. j \in D /\ rank[j] \in Nat /\ rank[j] < n - 1
      BY <2>6 DEF Near
    <3>2. j \in Low(n)
      BY <2>3, <3>1 DEF Near
    <3>3. g[j] = IF j \in stop THEN base[j] ELSE step[<<j, g[next[j]]>>]
      BY <2>4 DEF Recurs
    <3> QED BY <3>2, <3>3
  <2>7. h \in [Low(n) -> V]
    <3>1. ASSUME NEW j \in Low(n) PROVE h[j] \in V
      <4>1. j \in D
        BY DEF Near
      <4>2. CASE j \in stop
        BY <4>1, <4>2
      <4>3. CASE j \notin stop
        <5>1. g[next[j]] \in V
          BY <2>4, <2>5, <4>3
        <5>2. <<j, g[next[j]]>> \in D \X V
          BY <4>1, <5>1
        <5> QED BY <4>3, <5>2
      <4> QED BY <4>2, <4>3
    <3> QED BY <3>1
  <2>8. Recurs(h, Low(n), stop, base, next, step)
    <3>1. ASSUME NEW j \in Low(n)
          PROVE  h[j] = IF j \in stop THEN base[j] ELSE step[<<j, h[next[j]]>>]
      BY <2>5, <2>6
    <3> HIDE DEF h
    <3> QED BY <3>1 DEF Recurs
  <2> HIDE DEF h
  <2>9. n \notin Bad
    BY <2>7, <2>8
  <2> QED BY <2>1, <2>9
<1>2. N + 1 \notin Bad
  <2> HIDE DEF Bad
  <2> QED BY <1>1
<1>3. PICK f \in [Low(N + 1) -> V] : Recurs(f, Low(N + 1), stop, base, next, step)
  BY <1>2
<1>4. Low(N + 1) = D
  BY DEF Near
<1> QED BY <1>3, <1>4
-----------------------------------------------------------------------------
(***************************************************************************)
(* Atoms stay what they are, for any number of threads and names and any   *)
(* size of the table, as long as no two threads add at once and none adds  *)
(* what another has added since it looked.  What is needed besides: an     *)
(* entry whose string is not copied yet reads as the empty string, for     *)
(* which no search goes past the first entry.                              *)
(***************************************************************************)

AtomSlots == 0 .. LastAtom - 1

(* Each entry has its own address, and no name is in two of them.          *)
TableShape ==
  /\ \A a \in AtomSlots : AtomTbl[a + 1] = a
  /\ AtomBuf[0] = Empty
  /\ \A a, b \in AtomSlots : AtomBuf[a] = AtomBuf[b] => AtomBuf[a] = Empty \/ a = b

(* One thread adds at most, at the end, and a name that is not there.      *)
OneAdder ==
  /\ \A t, u \in AtomThreads : Adding(t) /\ Adding(u) => t = u
  /\ (\A t \in AtomThreads : ~Adding(t)) => AtomTail = LastAtom
  /\ \A t \in AtomThreads : Adding(t) =>
       /\ AtomTail = LastAtom - 1 /\ intern[t].i = LastAtom - 1 /\ LastAtom > 1
       /\ intern[t].name # Empty
  /\ \A t \in AtomThreads : intern[t].pc = "copy" =>
       /\ AtomBuf[LastAtom - 1] = Empty
       /\ \A a \in AtomSlots : AtomBuf[a] # intern[t].name
  /\ \A t \in AtomThreads : intern[t].pc = "advance" => AtomBuf[LastAtom - 1] = intern[t].name
  /\ \A a \in Addresses : a >= LastAtom => AtomBuf[a] = Empty

GivenRight ==
  \A p \in given : /\ p[2] \in AtomSlots /\ AtomBuf[p[2]] = p[1]
                   /\ p[1] = Empty => p[2] = 0

EmptyIsFirst ==
  \A t \in AtomThreads : intern[t].pc = "search" /\ intern[t].name = Empty => intern[t].i = 0

Unmixed == TableShape /\ OneAdder /\ GivenRight /\ EmptyIsFirst
AtomInv == AtomTypeOK /\ (~mixed => Unmixed)

LEMMA AtomInitInv == AtomInit => AtomInv
<1> SUFFICES ASSUME AtomInit PROVE AtomInv
  OBVIOUS
<1>1. LastAtom = 1 /\ AtomTbl[1] = 0 /\ AtomTbl \in Seq(Addresses)
  BY AtomAssumption DEF AtomInit, LastAtom, Addresses
<1>2. AtomTypeOK
  <2>1. AtomBuf \in [Addresses -> Names \cup {Empty}] /\ AtomTail \in Addresses
    BY AtomAssumption DEF AtomInit, Addresses
  <2>2. NotInterning \in [pc : {"idle", "search", "copy", "advance"},
                          name : Names \cup {Empty}, i : 0 .. MaxAtoms]
    BY AtomAssumption DEF NotInterning
  <2>3. intern \in [AtomThreads -> [pc : {"idle", "search", "copy", "advance"},
                                  name : Names \cup {Empty}, i : 0 .. MaxAtoms]]
    BY <2>2 DEF AtomInit
  <2>4. given \subseteq (Names \cup {Empty}) \X (0 .. MaxAtoms) /\ mixed \in BOOLEAN
    BY DEF AtomInit
  <2>5. LastAtom \in 1 .. MaxAtoms
    BY <1>1, AtomAssumption
  <2> QED
    BY <1>1, <2>1, <2>3, <2>4, <2>5 DEF AtomTypeOK
<1>3. Unmixed
  BY <1>1, AtomAssumption DEF AtomInit, Unmixed, TableShape, OneAdder, GivenRight,
     EmptyIsFirst, AtomSlots, Adding, NotInterning, Addresses
<1> QED
  BY <1>2, <1>3 DEF AtomInv

LEMMA AtomStep ==
  ASSUME AtomInv, ~mixed, NEW t \in AtomThreads,
         \/ \E name \in Names \cup {Empty} : InternAtom(t, name)
         \/ Compare(t) \/ NotThere(t) \/ TakeEntry(t) \/ CopyName(t) \/ Advance(t)
  PROVE  AtomInv'
<1> DEFINE record == [pc : {"idle", "search", "copy", "advance"},
                      name : Names \cup {Empty}, i : 0 .. MaxAtoms]
<1>0. /\ AtomTypeOK /\ TableShape /\ OneAdder /\ GivenRight /\ EmptyIsFirst
      /\ MaxAtoms \in Nat /\ LastAtom \in 1 .. MaxAtoms /\ LastAtom = Len(AtomTbl)
      /\ intern \in [AtomThreads -> record]
  BY AtomAssumption DEF AtomInv, Unmixed, AtomTypeOK, LastAtom
<1>1. ASSUME NEW name \in Names \cup {Empty}, InternAtom(t, name) PROVE AtomInv'
  <2>1. /\ intern[t].pc = "idle" /\ ~Adding(t)
        /\ intern' = [intern EXCEPT ![t] = [pc |-> "search", name |-> name, i |-> 0]]
        /\ UNCHANGED <<AtomTbl, AtomBuf, AtomTail, given, mixed>>
    BY <1>1 DEF InternAtom, Adding
  <2>2. intern'[t].pc = "search" /\ intern'[t].i = 0 /\ \A u \in AtomThreads \ {t} : intern'[u] = intern[u]
    BY <1>0, <2>1
  <2>3. AtomTypeOK'
    BY <1>0, <2>1 DEF AtomTypeOK, LastAtom
  <2>4. TableShape' /\ GivenRight'
    BY <1>0, <2>1 DEF TableShape, GivenRight, AtomSlots, LastAtom
  <2>5. OneAdder' /\ EmptyIsFirst'
    BY <1>0, <2>1, <2>2 DEF OneAdder, EmptyIsFirst, AtomSlots, LastAtom, Adding
  <2> QED
    BY <2>3, <2>4, <2>5 DEF AtomInv, Unmixed
<1>2. CASE Compare(t)
  <2> DEFINE i == intern[t].i
  <2>1. /\ intern[t].pc = "search" /\ i < LastAtom /\ ~Adding(t) /\ i \in AtomSlots
        /\ UNCHANGED <<AtomTbl, AtomBuf, AtomTail, mixed>>
    BY <1>0, <1>2 DEF Compare, Adding, AtomSlots
  <2>2. NameOf(i) = AtomBuf[i]
    BY <1>0, <2>1 DEF NameOf, TableShape
  <2>3. CASE NameOf(i) = intern[t].name
    <3>1. /\ given' = given \cup {<<intern[t].name, i>>}
          /\ intern' = [intern EXCEPT ![t] = NotInterning]
      BY <1>2, <2>3 DEF Compare, Return
    <3>2. intern'[t].pc = "idle" /\ \A u \in AtomThreads \ {t} : intern'[u] = intern[u]
      BY <1>0, <3>1 DEF NotInterning
    <3>3. AtomTypeOK'
      BY <1>0, <2>1, <3>1 DEF AtomTypeOK, LastAtom, NotInterning
    <3>4. TableShape'
      BY <1>0, <2>1 DEF TableShape, AtomSlots, LastAtom
    <3>5. GivenRight'
      <4>1. AtomSlots' = AtomSlots /\ (intern[t].name = Empty => i = 0)
        BY <1>0, <2>1 DEF EmptyIsFirst, AtomSlots, LastAtom
      <4>2. AtomBuf'[i] = intern[t].name
        BY <2>1, <2>2, <2>3
      <4> QED
        BY <1>0, <2>1, <3>1, <4>1, <4>2 DEF GivenRight
    <3>6. OneAdder' /\ EmptyIsFirst'
      BY <1>0, <2>1, <3>2 DEF OneAdder, EmptyIsFirst, AtomSlots, LastAtom, Adding
    <3> QED
      BY <3>3, <3>4, <3>5, <3>6 DEF AtomInv, Unmixed
  <2>4. CASE NameOf(i) # intern[t].name
    <3>1. intern' = [intern EXCEPT ![t].i = i + 1] /\ given' = given
      BY <1>2, <2>4 DEF Compare
    <3>2. /\ intern'[t].pc = "search" /\ intern'[t].name = intern[t].name
          /\ \A u \in AtomThreads \ {t} : intern'[u] = intern[u]
      BY <1>0, <2>1, <3>1
    <3>3. AtomTypeOK'
      <4>1. [intern[t] EXCEPT !.i = i + 1] \in record
        BY <1>0, <2>1
      <4> QED
        BY <4>1, <1>0, <2>1, <3>1 DEF AtomTypeOK, LastAtom
    <3>4. TableShape' /\ GivenRight'
      BY <1>0, <2>1, <3>1 DEF TableShape, GivenRight, AtomSlots, LastAtom
    <3>5. intern[t].name # Empty
      BY <1>0, <2>1, <2>2, <2>4 DEF EmptyIsFirst, TableShape
    <3>6. LastAtom' = LastAtom /\ AtomSlots' = AtomSlots
      BY <2>1 DEF AtomSlots, LastAtom
    <3>7. /\ \A u \in AtomThreads : Adding(u)' = Adding(u)
          /\ intern'[t].pc \notin {"copy", "advance"}
      BY <2>1, <3>2 DEF Adding
    <3>8. OneAdder'
      BY <1>0, <2>1, <3>2, <3>6, <3>7 DEF OneAdder
    <3>9. EmptyIsFirst'
      BY <1>0, <3>2, <3>5 DEF EmptyIsFirst
    <3> QED
      BY <3>3, <3>4, <3>8, <3>9 DEF AtomInv, Unmixed
  <2> QED
    BY <2>3, <2>4
<1>3. CASE NotThere(t)
  <2>1. /\ intern[t].pc = "search" /\ ~Adding(t)
        /\ intern' = [intern EXCEPT ![t] = NotInterning]
        /\ UNCHANGED <<AtomTbl, AtomBuf, AtomTail, given, mixed>>
    BY <1>3 DEF NotThere, Adding
  <2>2. intern'[t].pc = "idle" /\ \A u \in AtomThreads \ {t} : intern'[u] = intern[u]
    BY <1>0, <2>1 DEF NotInterning
  <2>3. AtomTypeOK'
    BY <1>0, <2>1 DEF AtomTypeOK, LastAtom, NotInterning
  <2>4. TableShape' /\ GivenRight'
    BY <1>0, <2>1 DEF TableShape, GivenRight, AtomSlots, LastAtom
  <2>5. OneAdder' /\ EmptyIsFirst'
    BY <1>0, <2>1, <2>2 DEF OneAdder, EmptyIsFirst, AtomSlots, LastAtom, Adding
  <2> QED
    BY <2>3, <2>4, <2>5 DEF AtomInv, Unmixed
<1>4. CASE TakeEntry(t)
  <2>1. /\ intern[t].pc = "search" /\ ~Adding(t) /\ intern[t].i = LastAtom /\ LastAtom < MaxAtoms
        /\ AtomTbl' = Append(AtomTbl, AtomTail)
        /\ intern' = [intern EXCEPT ![t] = [pc |-> "copy", name |-> intern[t].name, i |-> LastAtom]]
        /\ UNCHANGED <<AtomBuf, AtomTail, given>>
    BY <1>4 DEF TakeEntry, Adding
  <2>2. mixed' \in BOOLEAN
    BY <1>4 DEF TakeEntry
  <2>3. /\ intern'[t].pc = "copy" /\ intern'[t].i = LastAtom /\ intern'[t].name = intern[t].name
        /\ \A u \in AtomThreads \ {t} : intern'[u] = intern[u]
    BY <1>0, <2>1
  <2>4. /\ LastAtom' = LastAtom + 1
        /\ AtomTbl' \in Seq(Addresses)
        /\ AtomTbl'[LastAtom + 1] = AtomTail
        /\ \A a \in AtomSlots : AtomTbl'[a + 1] = AtomTbl[a + 1]
    BY <1>0, <2>1 DEF AtomTypeOK, LastAtom, AtomSlots
  <2>5. AtomTypeOK'
    <3>1. [pc |-> "copy", name |-> intern[t].name, i |-> LastAtom] \in record
      BY <1>0
    <3>2. intern' \in [AtomThreads -> record]
      BY <3>1, <1>0, <2>1
    <3> QED
      BY <3>2, <1>0, <2>1, <2>2, <2>4 DEF AtomTypeOK
  <2>6. ASSUME ~mixed' PROVE Unmixed'
    <3>1. (\A u \in AtomThreads : ~Adding(u)) /\ ~Interned(intern[t].name)
      BY <1>4, <2>6 DEF TakeEntry
    <3>2. AtomTail = LastAtom
      BY <1>0, <3>1 DEF OneAdder
    <3>3. \A a \in AtomSlots : AtomBuf[a] # intern[t].name
      BY <1>0, <3>1 DEF Interned, NameOf, TableShape, AtomSlots
    <3>4. intern[t].name # Empty
      BY <1>0, <2>1 DEF EmptyIsFirst
    <3>5. AtomSlots' = AtomSlots \cup {LastAtom}
      BY <1>0, <2>4 DEF AtomSlots
    <3>6. AtomBuf[LastAtom] = Empty
      BY <1>0, <2>1 DEF OneAdder, Addresses
    <3>7. TableShape'
      BY <1>0, <2>1, <2>4, <3>2, <3>5, <3>6 DEF TableShape
    <3>8. \A u \in AtomThreads \ {t} : ~Adding(u)' /\ intern'[u].pc \notin {"copy", "advance"}
      BY <3>1, <2>3 DEF Adding
    <3>9. OneAdder'
      <4>1. LastAtom' - 1 = LastAtom /\ LastAtom' > 1
        BY <1>0, <2>4
      <4>2. \A a \in AtomSlots' : AtomBuf'[a] # intern'[t].name
        BY <2>1, <2>3, <3>3, <3>4, <3>5, <3>6
      <4>3. \A a \in Addresses : a >= LastAtom' => AtomBuf'[a] = Empty
        BY <1>0, <2>1, <2>4 DEF OneAdder, Addresses
      <4> QED
        BY <4>1, <4>2, <4>3, <2>1, <2>3, <3>2, <3>4, <3>6, <3>8 DEF OneAdder, Adding
    <3>10. GivenRight' /\ EmptyIsFirst'
      BY <1>0, <2>1, <2>3, <3>5 DEF GivenRight, EmptyIsFirst
    <3> QED
      BY <3>7, <3>9, <3>10 DEF Unmixed
  <2> QED
    BY <2>5, <2>6 DEF AtomInv
<1>5. CASE CopyName(t)
  <2> DEFINE last == LastAtom - 1
  <2>1. /\ intern[t].pc = "copy" /\ Adding(t)
        /\ intern' = [intern EXCEPT ![t].pc = "advance"]
        /\ UNCHANGED <<AtomTbl, AtomTail, given, mixed>>
    BY <1>5 DEF CopyName, Adding
  <2>2. /\ intern[t].i = last /\ last \in AtomSlots /\ last > 0
        /\ intern[t].name # Empty /\ AtomBuf[last] = Empty
        /\ \A a \in AtomSlots : AtomBuf[a] # intern[t].name
        /\ \A u \in AtomThreads \ {t} : ~Adding(u)
    BY <1>0, <2>1 DEF OneAdder, AtomSlots
  <2>3. AtomBuf' = [AtomBuf EXCEPT ![last] = intern[t].name]
    BY <1>5, <1>0, <2>2 DEF CopyName, TableShape
  <2>4. AtomBuf'[last] = intern[t].name /\ \A a \in Addresses \ {last} : AtomBuf'[a] = AtomBuf[a]
    BY <1>0, <2>3, <2>2 DEF AtomTypeOK, Addresses, AtomSlots
  <2>5. /\ intern'[t].pc = "advance" /\ intern'[t].name = intern[t].name /\ intern'[t].i = last
        /\ \A u \in AtomThreads \ {t} : intern'[u] = intern[u]
    BY <1>0, <2>1, <2>2
  <2>6. LastAtom' = LastAtom /\ AtomSlots' = AtomSlots /\ AtomSlots \subseteq Addresses
    BY <1>0, <2>1 DEF LastAtom, AtomSlots, Addresses
  <2>7. AtomTypeOK'
    <3>1. [intern[t] EXCEPT !.pc = "advance"] \in record
      BY <1>0
    <3>2. intern' \in [AtomThreads -> record]
      BY <3>1, <1>0, <2>1
    <3>3. AtomBuf' \in [Addresses -> Names \cup {Empty}]
      BY <1>0, <2>3 DEF AtomTypeOK
    <3> QED
      BY <3>2, <3>3, <1>0, <2>1, <2>6 DEF AtomTypeOK
  <2>8. TableShape'
    <3>1. \A a \in AtomSlots : AtomTbl'[a + 1] = a
      BY <1>0, <2>1 DEF TableShape
    <3>2. AtomBuf'[0] = Empty
      BY <1>0, <2>2, <2>4 DEF TableShape, Addresses
    <3>3. ASSUME NEW a \in AtomSlots, NEW b \in AtomSlots, AtomBuf'[a] = AtomBuf'[b]
          PROVE  AtomBuf'[a] = Empty \/ a = b
      BY <3>3, <1>0, <2>2, <2>4, <2>6 DEF TableShape
    <3> QED
      BY <3>1, <3>2, <3>3, <2>6 DEF TableShape
  <2>9. OneAdder'
    <3>1. \A u \in AtomThreads \ {t} : ~Adding(u)' /\ intern'[u].pc \notin {"copy", "advance"}
      BY <2>2, <2>5 DEF Adding
    <3>2. AtomTail' = LastAtom' - 1 /\ LastAtom' > 1
      BY <1>0, <2>1, <2>6 DEF OneAdder
    <3>3. \A a \in Addresses : a >= LastAtom => AtomBuf'[a] = Empty
      BY <1>0, <2>4 DEF OneAdder, Addresses
    <3> QED
      BY <3>1, <3>2, <3>3, <2>2, <2>4, <2>5, <2>6 DEF OneAdder, Adding
  <2>10. GivenRight'
    <3>1. \A p \in given : p[2] # last
      BY <1>0, <2>2 DEF GivenRight
    <3> QED
      BY <3>1, <1>0, <2>1, <2>4, <2>6 DEF GivenRight
  <2>11. EmptyIsFirst'
    BY <1>0, <2>5 DEF EmptyIsFirst
  <2> QED
    BY <2>7, <2>8, <2>9, <2>10, <2>11 DEF AtomInv, Unmixed
<1>6. CASE Advance(t)
  <2> DEFINE last == LastAtom - 1
  <2>1. /\ intern[t].pc = "advance" /\ Adding(t)
        /\ AtomTail' = AtomTail + 1
        /\ given' = given \cup {<<intern[t].name, intern[t].i>>}
        /\ intern' = [intern EXCEPT ![t] = NotInterning]
        /\ UNCHANGED <<AtomTbl, AtomBuf, mixed>>
    BY <1>6 DEF Advance, Return, Adding
  <2>2. /\ intern[t].i = last /\ last \in AtomSlots /\ last > 0 /\ AtomTail = last
        /\ intern[t].name # Empty /\ AtomBuf[last] = intern[t].name
        /\ \A u \in AtomThreads \ {t} : ~Adding(u)
    BY <1>0, <2>1 DEF OneAdder, AtomSlots
  <2>3. intern'[t].pc = "idle" /\ \A u \in AtomThreads \ {t} : intern'[u] = intern[u]
    BY <1>0, <2>1 DEF NotInterning
  <2>4. LastAtom' = LastAtom /\ AtomSlots' = AtomSlots /\ AtomTail' = LastAtom
    BY <1>0, <2>1, <2>2 DEF LastAtom, AtomSlots
  <2>5. AtomTypeOK'
    <3>1. intern' \in [AtomThreads -> record]
      BY <1>0, <2>1 DEF NotInterning
    <3>2. given' \subseteq (Names \cup {Empty}) \X (0 .. MaxAtoms)
      BY <1>0, <2>1 DEF AtomTypeOK
    <3>3. AtomTail' \in Addresses
      BY <1>0, <2>4 DEF Addresses
    <3> QED
      BY <3>1, <3>2, <3>3, <1>0, <2>1, <2>4 DEF AtomTypeOK
  <2>6. TableShape'
    BY <1>0, <2>1, <2>4 DEF TableShape
  <2>7. OneAdder'
    <3>1. \A u \in AtomThreads : ~Adding(u)' /\ intern'[u].pc \notin {"copy", "advance"}
      BY <2>2, <2>3 DEF Adding
    <3> QED
      BY <3>1, <1>0, <2>1, <2>4 DEF OneAdder
  <2>8. GivenRight'
    BY <1>0, <2>1, <2>2, <2>4 DEF GivenRight
  <2>9. EmptyIsFirst'
    BY <1>0, <2>3 DEF EmptyIsFirst
  <2> QED
    BY <2>5, <2>6, <2>7, <2>8, <2>9 DEF AtomInv, Unmixed
<1> QED
  BY <1>1, <1>2, <1>3, <1>4, <1>5, <1>6

LEMMA AtomInvariant == AtomSpec => []AtomInv
<1>1. AtomInv /\ [AtomNext]_atomVars => AtomInv'
  <2> SUFFICES ASSUME AtomInv, [AtomNext]_atomVars PROVE AtomInv'
    OBVIOUS
  <2>1. CASE AtomNext
    BY <2>1, AtomStep DEF AtomNext
  <2>2. CASE UNCHANGED atomVars
    BY <2>2 DEF atomVars, AtomInv, AtomTypeOK, Unmixed, TableShape, OneAdder, GivenRight,
       EmptyIsFirst, AtomSlots, LastAtom, Adding
  <2> QED
    BY <2>1, <2>2 DEF AtomNext
<1> QED
  BY <1>1, AtomInitInv, PTL DEF AtomSpec

(* The table keeps to its addresses and its size, also when two threads    *)
(* have added at once.                                                     *)
THEOREM AtomTypeCorrect == AtomSpec => []AtomTypeOK
BY AtomInvariant, PTL DEF AtomInv

(* The atoms that XInternAtom has returned are those of their names, and   *)
(* stay so.                                                                *)
THEOREM AtomsArePermanentHolds == AtomSpec => []AtomsArePermanent
<1>1. AtomInv => AtomsArePermanent
  <2> SUFFICES ASSUME AtomInv, ~mixed, NEW p \in given
               PROVE  /\ IF p[1] = Empty THEN p[2] = 0 ELSE XGetAtomName(p[2]) = p[1]
                      /\ \A q \in given : p[1] = q[1] <=> p[2] = q[2]
    BY DEF AtomsArePermanent
  <2>1. TableShape /\ GivenRight
    BY DEF AtomInv, Unmixed
  <2>2. /\ NameOf(p[2]) = p[1] /\ p[2] \in 0 .. LastAtom - 1
        /\ \A q \in given : p[1] = q[1] <=> p[2] = q[2]
    BY <2>1 DEF TableShape, GivenRight, NameOf, AtomSlots
  <2>3. LastAtom \in Nat /\ (p[1] = Empty => p[2] = 0) /\ (p[2] = 0 => p[1] = Empty)
    BY <2>1 DEF TableShape, GivenRight, AtomInv, AtomTypeOK
  <2>4. p[1] # Empty => XGetAtomName(p[2]) = p[1]
    BY <2>2, <2>3 DEF XGetAtomName
  <2> QED
    BY <2>2, <2>3, <2>4
<1> QED
  BY <1>1, AtomInvariant, PTL

-----------------------------------------------------------------------------
(***************************************************************************)
(* The cache of attributes, for any GCs, drawables, raster operations and  *)
(* colors.  The invariant says of each presentation space that it shows    *)
(* what ebhps->current says of it; setGCValues relies on that where it     *)
(* leaves an attribute alone, and re-establishes it for the new values.    *)
(***************************************************************************)

HPSType == [current : [GCAttrs -> Colors \cup MixModes],
            attr : [PSAttrs -> Colors \cup MixModes \cup {PMDefault, SetBehind}]]
ValidHPS(ps) == ps = NewHPS \/ Shows(ps, ps.current)
ValidAll(all) == all \in [Drawables -> HPSType] /\ \A d \in Drawables : ValidHPS(all[d])

LEMMA NewHPSType == NewHPS \in HPSType
BY GCAssumption DEF NewHPS, HPSType

LEMMA StdValuesType == stdgcvalues \in GCValues
BY GCAssumption DEF stdgcvalues, GCValues

LEMMA GCValuesAreFunctions ==
  ASSUME NEW values \in GCValues
  PROVE  /\ values \in [GCAttrs -> Colors \cup MixModes]
         /\ \A a \in PSAttrs : values[FromGC(a)] \in Colors \cup MixModes
<1>1. values \in [GCAttrs -> Colors \cup MixModes]
  BY DEF GCValues, GCAttrs
<1> QED
  BY <1>1 DEF FromGC, GCAttrs, PSAttrs

(* setGCValues on one space.                                               *)
LEMMA SetGCValuesShows ==
  ASSUME NEW ps \in HPSType, ValidHPS(ps), NEW values \in GCValues
  PROVE  LET new == SetGCValues(ps, values, ps = NewHPS)
         IN new \in HPSType /\ new.current = values /\ Shows(new, values)
<1> DEFINE new == SetGCValues(ps, values, ps = NewHPS)
           set(a) == IF ps = NewHPS \/ ps.current[FromGC(a)] # values[FromGC(a)]
                     THEN values[FromGC(a)] ELSE ps.attr[a]
<1>1. new.current = values /\ new.attr = [a \in PSAttrs |-> set(a)]
  BY DEF SetGCValues
<1>2. new = [current |-> values, attr |-> [a \in PSAttrs |-> set(a)]]
  BY DEF SetGCValues
<1>3. ASSUME NEW a \in PSAttrs
      PROVE  set(a) \in Colors \cup MixModes \cup {PMDefault, SetBehind}
  BY <1>3, GCValuesAreFunctions DEF HPSType
<1>4. new \in HPSType
  BY <1>2, <1>3, GCValuesAreFunctions DEF HPSType
<1>5. ASSUME NEW a \in PSAttrs
      PROVE  new.attr[a] = values[FromGC(a)] \/ (a \in {"backmix", "area"} /\ new.attr[a] = SetBehind)
  <2>1. new.attr[a] = set(a)
    BY <1>1, <1>5
  <2>2. CASE ps = NewHPS \/ ps.current[FromGC(a)] # values[FromGC(a)]
    BY <2>1, <2>2
  <2>3. CASE ps # NewHPS /\ ps.current[FromGC(a)] = values[FromGC(a)]
    <3>1. Shows(ps, ps.current) /\ set(a) = ps.attr[a]
      BY <2>3 DEF ValidHPS
    <3> QED
      BY <3>1, <2>1, <2>3 DEF Shows
  <2> QED
    BY <2>2, <2>3
<1>6. Shows(new, values)
  BY <1>5 DEF Shows
<1> QED
  BY <1>1, <1>4, <1>6

LEMMA GetCachedHPSValid ==
  ASSUME NEW all, ValidAll(all), NEW d \in Drawables, NEW values \in GCValues
  PROVE  LET new == GetCachedHPS(all, d, values)
         IN ValidAll(new) /\ new[d].current = values /\ Shows(new[d], values)
<1> DEFINE new == GetCachedHPS(all, d, values)
           ps == SetGCValues(all[d], values, all[d] = NewHPS)
<1>1. all[d] \in HPSType /\ ValidHPS(all[d])
  BY DEF ValidAll
<1>2. ps \in HPSType /\ ps.current = values /\ Shows(ps, values)
  BY <1>1, SetGCValuesShows
<1>3. new = [all EXCEPT ![d] = ps]
  BY DEF GetCachedHPS
<1>4. ValidHPS(ps)
  BY <1>2 DEF ValidHPS
<1> HIDE DEF ps, new
<1>5. new \in [Drawables -> HPSType] /\ new[d] = ps /\ \A e \in Drawables \ {d} : new[e] = all[e]
  BY <1>2, <1>3 DEF ValidAll
<1>6. ASSUME NEW e \in Drawables PROVE ValidHPS(new[e])
  BY <1>4, <1>5 DEF ValidAll
<1>7. ValidAll(new) /\ new[d].current = values /\ Shows(new[d], values)
  BY <1>2, <1>5, <1>6 DEF ValidAll
<1> QED
  BY <1>7 DEF new

(* A function that sets the back mix or the color of areas behind the      *)
(* cache leaves a space of which the cache is still right but for them.    *)
LEMMA LeaveValid ==
  ASSUME NEW all, ValidAll(all), NEW d \in Drawables, NEW values,
         all[d].current = values, Shows(all[d], values),
         NEW changed \in SUBSET {"backmix", "area"}
  PROVE  ValidAll(Leave(all, d, changed))
<1> DEFINE new == Leave(all, d, changed)
           left == [a \in PSAttrs |-> IF a \in changed THEN SetBehind ELSE all[d].attr[a]]
           ps == [all[d] EXCEPT !.attr = left]
<1>1. all \in [Drawables -> HPSType] /\ all[d] \in HPSType
  BY DEF ValidAll
<1>2. new = [all EXCEPT ![d] = ps]
  BY <1>1 DEF Leave
<1>3. left \in [PSAttrs -> Colors \cup MixModes \cup {PMDefault, SetBehind}]
  BY <1>1 DEF HPSType
<1>4. ps \in HPSType /\ ps.current = values /\ ps.attr = left
  BY <1>1, <1>3 DEF HPSType
<1>5. ASSUME NEW a \in PSAttrs
      PROVE  left[a] = values[FromGC(a)] \/ (a \in {"backmix", "area"} /\ left[a] = SetBehind)
  BY <1>5 DEF Shows
<1>6. ValidHPS(ps)
  BY <1>4, <1>5 DEF ValidHPS, Shows
<1> HIDE DEF ps, new
<1>7. new \in [Drawables -> HPSType] /\ new[d] = ps /\ \A e \in Drawables \ {d} : new[e] = all[e]
  BY <1>1, <1>2, <1>4
<1>8. ASSUME NEW e \in Drawables PROVE ValidHPS(new[e])
  BY <1>6, <1>7 DEF ValidAll
<1>9. ValidAll(new)
  BY <1>7, <1>8 DEF ValidAll
<1> QED
  BY <1>9 DEF new

LEMMA DrawingInv ==
  ASSUME CacheInv, NEW all, ValidAll(all), NEW d \in Drawables, NEW values,
         all[d].current = values, Shows(all[d], values),
         NEW changed \in SUBSET {"backmix", "area"},
         Drawing(all, d, values, changed)
  PROVE  CacheInv'
<1>1. gc' = gc /\ right' = TRUE /\ hps' = Leave(all, d, changed)
  BY DEF Drawing
<1>2. ValidAll(hps')
  BY <1>1, LeaveValid
<1> QED
  BY <1>1, <1>2 DEF CacheInv, GCTypeOK, ValidAll, ValidHPS, HPSType

LEMMA CacheIsValid == CacheInv => ValidAll(hps)
BY DEF CacheInv, GCTypeOK, ValidAll, ValidHPS, HPSType

LEMMA GCInitInv == GCInit => CacheInv
BY NewHPSType, StdValuesType DEF GCInit, CacheInv, GCTypeOK, HPSType

(* The functions that change a GC do not touch the spaces.                 *)
LEMMA ChangeGCInv ==
  ASSUME CacheInv, gc' \in [GCs -> GCValues], UNCHANGED <<hps, right>>
  PROVE  CacheInv'
BY DEF CacheInv, GCTypeOK

LEMMA GCNextInv == CacheInv /\ [GCNext]_gcVars => CacheInv'
<1> SUFFICES ASSUME CacheInv, [GCNext]_gcVars PROVE CacheInv'
  OBVIOUS
<1>0. ValidAll(hps) /\ gc \in [GCs -> GCValues]
  BY CacheIsValid DEF CacheInv, GCTypeOK
<1>1. ASSUME NEW g \in GCs, NEW v \in MixModes, UpdateGCCache(g, "function", v) PROVE CacheInv'
  <2>1. [gc[g] EXCEPT !["function"] = v] \in GCValues
    BY <1>0, <1>1 DEF GCValues
  <2> QED
    BY <2>1, <1>0, <1>1, ChangeGCInv DEF UpdateGCCache
<1>2. ASSUME NEW g \in GCs, NEW v \in Colors, UpdateGCCache(g, "foreground", v) PROVE CacheInv'
  <2>1. [gc[g] EXCEPT !["foreground"] = v] \in GCValues
    BY <1>0, <1>2 DEF GCValues
  <2> QED
    BY <2>1, <1>0, <1>2, ChangeGCInv DEF UpdateGCCache
<1>3. ASSUME NEW g \in GCs, NEW src \in GCs, NEW which \in SUBSET GCAttrs, CopyGC(src, g, which)
      PROVE  CacheInv'
  <2>1. [a \in GCAttrs |-> IF a \in which THEN gc[src][a] ELSE gc[g][a]] \in GCValues
    BY <1>0, <1>3 DEF GCValues, GCAttrs
  <2> QED
    BY <2>1, <1>0, <1>3, ChangeGCInv DEF CopyGC
<1>4. ASSUME NEW g \in GCs, CreateGC(g) PROVE CacheInv'
  BY <1>0, <1>4, StdValuesType, ChangeGCInv DEF CreateGC
<1>5. ASSUME NEW g \in GCs, NEW d \in Drawables, DrawShape(d, g) PROVE CacheInv'
  <2> DEFINE all == GetCachedHPS(hps, d, gc[g])
  <2>1. ValidAll(all) /\ all[d].current = gc[g] /\ Shows(all[d], gc[g])
    BY <1>0, <1>5, GetCachedHPSValid
  <2>2. Drawing(all, d, gc[g], {})
    BY <1>5 DEF DrawShape
  <2> HIDE DEF all
  <2> QED
    BY <2>1, <2>2, DrawingInv
<1>6. ASSUME NEW g \in GCs, NEW d \in Drawables, NEW opaque \in BOOLEAN, DrawText(d, g, opaque)
      PROVE  CacheInv'
  <2> DEFINE all == GetCachedHPS(hps, d, gc[g])
             changed == {"backmix"} \cup (IF opaque THEN {"area"} ELSE {})
  <2>1. ValidAll(all) /\ all[d].current = gc[g] /\ Shows(all[d], gc[g])
    BY <1>0, <1>6, GetCachedHPSValid
  <2>2. Drawing(all, d, gc[g], changed)
    BY <1>6 DEF DrawText
  <2>3. changed \in SUBSET {"backmix", "area"}
    OBVIOUS
  <2> HIDE DEF all, changed
  <2> QED
    BY <2>1, <2>2, <2>3, DrawingInv
<1>7. ASSUME NEW g \in GCs, NEW d \in Drawables, NEW src \in Drawables
      PROVE  LET both == GetBothHPS(src, d, g)
             IN ValidAll(both) /\ both[d].current = gc[g] /\ Shows(both[d], gc[g])
  <2>1. ValidAll(GetCachedHPS(hps, src, stdgcvalues))
    BY <1>0, <1>7, StdValuesType, GetCachedHPSValid
  <2> QED
    BY <2>1, <1>0, <1>7, GetCachedHPSValid DEF GetBothHPS
<1>8. ASSUME NEW g \in GCs, NEW d \in Drawables, NEW src \in Drawables, CopyArea(src, d, g)
      PROVE  CacheInv'
  <2> DEFINE both == GetBothHPS(src, d, g)
  <2>1. ValidAll(both) /\ both[d].current = gc[g] /\ Shows(both[d], gc[g])
    BY <1>7
  <2>2. Drawing(both, d, gc[g], {})
    BY <1>8 DEF CopyArea
  <2> HIDE DEF both
  <2> QED
    BY <2>1, <2>2, DrawingInv
<1>9. ASSUME NEW g \in GCs, NEW d \in Drawables, NEW src \in Drawables, CopyPlane(src, d, g)
      PROVE  CacheInv'
  <2> DEFINE both == GetBothHPS(src, d, g)
  <2>1. ValidAll(both) /\ both[d].current = gc[g] /\ Shows(both[d], gc[g])
    BY <1>7
  <2>2. Drawing(both, d, gc[g], {"area"})
    BY <1>9 DEF CopyPlane
  <2> HIDE DEF both
  <2> QED
    BY <2>1, <2>2, DrawingInv
<1>10. ASSUME NEW d \in Drawables, ClearWindow(d) PROVE CacheInv'
  BY <1>0, <1>10, StdValuesType, GetCachedHPSValid, DrawingInv DEF ClearWindow
<1>11. ASSUME NEW d \in Drawables, NewDrawable(d) PROVE CacheInv'
  <2>1. hps' \in [Drawables -> HPSType] /\ \A e \in Drawables : hps'[e] = NewHPS \/ hps'[e] = hps[e]
    BY <1>0, <1>11, NewHPSType DEF NewDrawable, ValidAll
  <2> QED
    BY <2>1, <1>11 DEF CacheInv, GCTypeOK, HPSType, NewDrawable
<1>12. CASE UNCHANGED gcVars
  BY <1>12 DEF gcVars, CacheInv, GCTypeOK
<1> QED
  BY <1>1, <1>2, <1>3, <1>4, <1>5, <1>6, <1>8, <1>9, <1>10, <1>11, <1>12 DEF GCNext

LEMMA GCInvariant == GCSpec => []CacheInv
BY GCInitInv, GCNextInv, PTL DEF GCSpec

(* What the cache notes and what PM has are values of their attributes.    *)
THEOREM GCTypeCorrect == GCSpec => []GCTypeOK
BY GCInvariant, PTL DEF CacheInv

(* What is drawn shows the GC it is drawn with, after any sequence of      *)
(* drawing, of changes to GCs and of drawables that come and go.           *)
THEOREM DrawsWithGCHolds == GCSpec => []DrawsWithGC
<1>1. CacheInv => DrawsWithGC
  BY DEF CacheInv, DrawsWithGC
<1> QED
  BY <1>1, GCInvariant, PTL

-----------------------------------------------------------------------------
(***************************************************************************)
(* The drift of a child under its gravity, for any size of windows and any *)
(* number of turns.  DriftBound alone is not inductive: in a run in one    *)
(* direction each step may add half a pixel of error or take it back, and  *)
(* which it does depends on the parity of the size that the step before    *)
(* has left.  Wave says so.                                                *)
(***************************************************************************)

(* What the rounding does: growing, the half of an odd size is lost, and   *)
(* shrinking, that of an odd size is won.                                  *)
LEMMA HalfIsExactButParity ==
  ASSUME NEW old \in Nat, NEW new \in Nat
  PROVE  /\ new > old => 2 * Half(old, new) = new - old + (old % 2) - (new % 2)
         /\ new < old => 2 * Half(old, new) = new - old - (old % 2) + (new % 2)
         /\ new = old => Half(old, new) = 0
         /\ Half(old, new) \in Int
<1> DEFINE a == old % 2
           b == new % 2
           c == old \div 2
           d == new \div 2
<1>1. old = 2 * c + a /\ new = 2 * d + b /\ a \in {0, 1} /\ b \in {0, 1} /\ c \in Int /\ d \in Int
  OBVIOUS
<1>2. CASE new > old
  <2>1. Half(old, new) = (new - old + 1 - b) \div 2
    BY <1>1, <1>2 DEF Half, HalfOf
  <2> QED
    BY <2>1, <1>1, <1>2
<1>3. CASE new < old
  <2>1. Half(old, new) = -((old - new + 1 - b) \div 2)
    BY <1>1, <1>3 DEF Half, HalfOf
  <2> QED
    BY <2>1, <1>1, <1>3
<1>4. CASE new = old
  <2>1. Half(old, new) = -((1 - b) \div 2)
    BY <1>1, <1>4 DEF Half, HalfOf
  <2> QED
    BY <2>1, <1>1, <1>4
<1> QED
  BY <1>2, <1>3, <1>4

(* A gravity that holds on to an end is followed exactly, and one that     *)
(* holds on to the middle as far as Half goes.                             *)
LEMMA OnlyTheMiddleErrs ==
  ASSUME GravityTypeOK, NEW old \in Nat, NEW new \in Nat, NEW g \in 0 .. 10
  PROVE  /\ Point(g) \in {0, 1, 2}
         /\ CalcDelta(old, new, g) \in Int
         /\ Point(g) = 0 => CalcDelta(old, new, g) = 0
         /\ Point(g) = 1 => CalcDelta(old, new, g) = Half(old, new)
         /\ Point(g) = 2 => CalcDelta(old, new, g) = new - old
<1>1. Half(old, new) \in Int
  BY HalfIsExactButParity
<1> QED
  BY <1>1 DEF GravityTypeOK, Point, CalcDelta, CalcXDelta, CalcYDelta, UnmapGravity,
     NorthWestGravity, NorthGravity, NorthEastGravity, WestGravity, CenterGravity,
     EastGravity, SouthGravity, SouthEastGravity

LEMMA GravityInitInv == GravityInit => GravityInv
BY GravityAssumption DEF GravityInit, GravityInv, GravityTypeOK, DriftBound, Wave,
   ForgetGravity, StaticGravity

(* The assignment in the frame's handler ends what was known about the     *)
(* run, which DriftBound outlives.                                         *)
LEMMA CalcValidRectsInv == GravityInv /\ CalcValidRects => GravityInv'
<1> SUFFICES ASSUME GravityInv, CalcValidRects PROVE GravityInv'
  OBVIOUS
<1>1. GravityTypeOK'
  BY DEF GravityInv, GravityTypeOK, CalcValidRects, StaticGravity
<1>2. DriftBound'
  BY DEF GravityInv, DriftBound, CalcValidRects
<1>3. Wave'
  <2>1. CASE bit' = bit
    BY <2>1 DEF GravityInv, Wave, CalcValidRects, Point
  <2>2. CASE bit' # bit
    BY <2>2 DEF GravityInv, Wave, CalcValidRects
  <2> QED
    BY <2>1, <2>2
<1> QED
  BY <1>1, <1>2, <1>3 DEF GravityInv

(* A step of a drag, for which only the parities of the two sizes count.   *)
LEMMA SizeInv ==
  ASSUME GravityInv, NEW new \in 0 .. MaxSize, Size(new)
  PROVE  GravityInv'
<1> DEFINE e == 2 * shift - exact
           odd == size % 2
           way == IF new > size THEN 1 ELSE IF new < size THEN -1 ELSE dir
           rest == IF way = 1 THEN odd - (new % 2) ELSE IF way = -1 THEN (new % 2) - odd ELSE 0
<1>1. GravityTypeOK /\ DriftBound /\ Wave
  BY DEF GravityInv
<1>2. /\ size \in Nat /\ new \in Nat /\ shift \in Int /\ exact \in Int
      /\ dir \in {-1, 0, 1} /\ runs \in Nat /\ MaxRuns \in Nat
      /\ win \in 0 .. 10 /\ bit \in 0 .. 10
  BY <1>1, GravityAssumption DEF GravityTypeOK
<1>3. /\ size' = new /\ dir' = way /\ runs' = (IF way = dir THEN runs ELSE runs + 1)
      /\ runs' <= MaxRuns /\ axis' = axis /\ framed' = framed /\ bit' = bit /\ win' = win
  BY DEF Size
<1>4. Point(win)' = Point(win) /\ Point(bit)' = Point(bit)
  BY <1>3 DEF Point
<1>5. /\ CalcDelta(size, new, win) \in Int /\ CalcDelta(size, new, bit) \in Int
      /\ Point(win) \in {0, 1, 2} /\ Point(bit) \in {0, 1, 2}
  BY <1>1, <1>2, OnlyTheMiddleErrs
<1>6. GravityTypeOK'
  <2>1. shift' \in Int /\ exact' \in Int /\ visible' \in BOOLEAN
    <3>1. CASE win = StaticGravity
      BY <3>1, <1>1 DEF Size, GravityTypeOK
    <3>2. CASE win # StaticGravity
      <4>1. /\ shift' = shift + CalcDelta(size, new, win) - CalcDelta(size, new, bit)
            /\ exact' = exact + (Point(win) - Point(bit)) * (new - size)
            /\ visible' \in BOOLEAN
        BY <3>2, <1>1 DEF Size, GravityTypeOK
      <4>2. ASSUME NEW a \in Int, NEW b \in Int PROVE a * b \in Int
        OBVIOUS
      <4> DEFINE step == (Point(win) - Point(bit)) * (new - size)
      <4>3. step \in Int
        BY <4>2, <1>2, <1>5
      <4>4. exact' = exact + step
        BY <4>1
      <4> HIDE DEF step
      <4>5. exact' \in Int
        BY <4>3, <4>4, <1>2
      <4>6. shift' = shift + CalcDelta(size, new, win) - CalcDelta(size, new, bit)
        BY <4>1
      <4>7. shift' \in Int
        BY <4>6, <1>2, <1>5
      <4> QED
        BY <4>1, <4>5, <4>7
    <3> QED
      BY <3>1, <3>2
  <2> QED
    BY <2>1, <1>1, <1>2, <1>3 DEF GravityTypeOK
<1>7. odd \in {0, 1} /\ new % 2 \in {0, 1} /\ way \in {-1, 0, 1} /\ e \in Int
  BY <1>2
<1>8. CASE win = StaticGravity
  <2>1. shift' = shift /\ exact' = exact
    BY <1>8 DEF Size
  <2>2. DriftBound'
    BY <2>1, <1>1, <1>2, <1>3 DEF DriftBound
  <2>3. Wave'
    BY <1>8, <1>1, <1>2, <1>3 DEF Wave
  <2> QED
    BY <1>6, <2>2, <2>3 DEF GravityInv
<1>9. CASE win # StaticGravity
  <2>1. /\ shift' = shift + CalcDelta(size, new, win) - CalcDelta(size, new, bit)
        /\ exact' = exact + (Point(win) - Point(bit)) * (new - size)
    BY <1>9 DEF Size
  <2>2. 2 * Half(size, new) = new - size + rest /\ Half(size, new) \in Int
    <3>1. /\ new > size => 2 * Half(size, new) = new - size + odd - (new % 2)
          /\ new < size => 2 * Half(size, new) = new - size - odd + (new % 2)
          /\ new = size => Half(size, new) = 0
          /\ Half(size, new) \in Int
      BY <1>2, HalfIsExactButParity
    <3>2. CASE new > size
      BY <3>1, <3>2, <1>2
    <3>3. CASE new < size
      BY <3>1, <3>3, <1>2
    <3>4. CASE new = size
      <4>1. rest = 0
        BY <3>4, <1>2
      <4> QED
        BY <4>1, <3>1, <3>4, <1>2
    <3> QED
      BY <3>2, <3>3, <3>4, <1>2
  <2>3. ASSUME NEW g \in {win, bit}
        PROVE  2 * CalcDelta(size, new, g)
                 = Point(g) * (new - size) + (IF Point(g) = 1 THEN rest ELSE 0)
    <3>1. /\ Point(g) \in {0, 1, 2}
          /\ Point(g) = 0 => CalcDelta(size, new, g) = 0
          /\ Point(g) = 1 => CalcDelta(size, new, g) = Half(size, new)
          /\ Point(g) = 2 => CalcDelta(size, new, g) = new - size
      BY <1>1, <1>2, OnlyTheMiddleErrs
    <3>2. CASE Point(g) = 0
      BY <3>1, <3>2, <1>2
    <3>3. CASE Point(g) = 1
      BY <3>1, <3>3, <1>2, <2>2
    <3>4. CASE Point(g) = 2
      BY <3>1, <3>4, <1>2
    <3> QED
      BY <3>1, <3>2, <3>3, <3>4
  <2>4. e' = e + (IF Point(win) = 1 THEN rest ELSE 0) - (IF Point(bit) = 1 THEN rest ELSE 0)
    <3>1. e' = 2 * shift' - exact'
      OBVIOUS
    <3>2. rest \in Int
      BY <1>7
    <3> DEFINE dw == CalcDelta(size, new, win)
               db == CalcDelta(size, new, bit)
               pw == Point(win) * (new - size)
               pb == Point(bit) * (new - size)
               rw == IF Point(win) = 1 THEN rest ELSE 0
               rb == IF Point(bit) = 1 THEN rest ELSE 0
    <3>3. 2 * dw = pw + rw /\ 2 * db = pb + rb
      BY <2>3
    <3>4. (Point(win) - Point(bit)) * (new - size) = pw - pb
      BY <1>2, <1>5
    <3>5. shift' = shift + dw - db /\ exact' = exact + (pw - pb)
      BY <2>1, <3>4
    <3>6. dw \in Int /\ db \in Int /\ pw \in Int /\ pb \in Int /\ rw \in Int /\ rb \in Int
      BY <1>2, <1>5, <3>2
    <3>7. e' = e + rw - rb
      <4> HIDE DEF dw, db, pw, pb, rw, rb, rest
      <4> QED
        BY <3>3, <3>5, <3>6, <1>2
    <3> QED
      BY <3>7
  <2>5. odd' = new % 2
    BY <1>3
  <2>6. /\ e' = 2 * shift' - exact'
        /\ -runs <= e /\ e <= runs
        /\ dir # 0 => runs > 0
    BY <1>1 DEF DriftBound, Wave
  <2>7. DriftBound' /\ Wave'
    <3>1. CASE Point(win) = 1 /\ Point(bit) # 1
      <4>1. e' = e + rest
        BY <3>1, <2>4, <1>7
      <4>2. /\ dir = 1 => 1 - runs <= e + odd /\ e + odd <= runs
            /\ dir = -1 => -runs <= e - odd /\ e - odd <= runs - 1
        BY <3>1, <1>1, <1>9 DEF Wave
      <4> QED
        BY <4>1, <4>2, <3>1, <2>5, <2>6, <1>2, <1>3, <1>4, <1>7 DEF DriftBound, Wave
    <3>2. CASE Point(win) # 1 /\ Point(bit) = 1
      <4>1. e' = e - rest
        BY <3>2, <2>4, <1>7
      <4>2. /\ dir = 1 => 1 - runs <= odd - e /\ odd - e <= runs
            /\ dir = -1 => -runs <= -e - odd /\ -e - odd <= runs - 1
        BY <3>2, <1>1, <1>9 DEF Wave
      <4> QED
        BY <4>1, <4>2, <3>2, <2>5, <2>6, <1>2, <1>3, <1>4, <1>7 DEF DriftBound, Wave
    <3>3. CASE (Point(win) = 1) <=> (Point(bit) = 1)
      <4>1. e' = e
        BY <3>3, <2>4, <1>7
      <4> QED
        BY <4>1, <3>3, <2>5, <2>6, <1>2, <1>3, <1>4, <1>7 DEF DriftBound, Wave
    <3> QED
      BY <3>1, <3>2, <3>3
  <2> QED
    BY <1>6, <2>7 DEF GravityInv
<1> QED
  BY <1>8, <1>9

LEMMA GravityInvariant == GravitySpec => []GravityInv
<1>1. GravityInv /\ [GravityNext]_gravityVars => GravityInv'
  <2> SUFFICES ASSUME GravityInv, [GravityNext]_gravityVars PROVE GravityInv'
    OBVIOUS
  <2>1. CASE CalcValidRects
    BY <2>1, CalcValidRectsInv
  <2>2. ASSUME NEW new \in 0 .. MaxSize, Size(new) PROVE GravityInv'
    BY <2>2, SizeInv
  <2>3. CASE UNCHANGED gravityVars
    BY <2>3 DEF gravityVars, GravityInv, GravityTypeOK, DriftBound, Wave, Point
  <2> QED
    BY <2>1, <2>2, <2>3 DEF GravityNext
<1> QED
  BY <1>1, GravityInitInv, PTL DEF GravitySpec

(* A drag keeps to the sizes and gravities there are.                      *)
THEOREM GravityTypeCorrect == GravitySpec => []GravityTypeOK
BY GravityInvariant, PTL DEF GravityInv

(* For every size of windows, every drag and every pair of gravities: a    *)
(* child is off by at most half a pixel for each time the drag has turned. *)
THEOREM DriftBoundHolds == GravitySpec => []DriftBound
BY GravityInvariant, PTL DEF GravityInv

-----------------------------------------------------------------------------
(***************************************************************************)
(* The bitmap of the shared heap, for any number of pages and any sizes    *)
(* that are asked for.  The invariant of the run is inductive together     *)
(* with the types: that blocks do not overlap is needed where one of them  *)
(* is given back.                                                          *)
(***************************************************************************)

HeapInv == HeapTypeOK /\ PagesMatchBlocks

(* A request is at least one page, and at least INCR_HEAPSIZE.             *)
LEMMA PagesForAsked ==
  ASSUME NEW bytes \in Sizes
  PROVE  PagesFor(bytes) \in Nat \ {0}
<1> DEFINE n == (bytes + PageSize) \div PageSize
<1>1. bytes + PageSize \in Nat /\ PageSize \in Nat \ {0}
  BY HeapAssumption
<1>2. n \in Int
  <2> HIDE DEF n
  <2> QED BY <1>1, SMT DEF n
<1>3. IncrPages \in Nat \ {0}
  BY HeapAssumption
<1>4. PagesFor(bytes) = IF n < IncrPages THEN IncrPages ELSE n
  BY DEF PagesFor
<1> HIDE DEF n
<1> QED BY <1>2, <1>3, <1>4

LEMMA HeapInitial == HeapInit => HeapInv
<1> SUFFICES ASSUME HeapInit PROVE HeapInv
  OBVIOUS
<1>1. IncrPages \in Nat \ {0} /\ IncrPages <= MaxHeapPages /\ MaxHeapPages \in Nat
  BY HeapAssumption
<1>2. pageBitmap \subseteq Pages /\ committed = pageBitmap
  BY <1>1 DEF HeapInit, Pages
<1>3. \A b \in blocks : b = [at |-> 0, len |-> IncrPages]
  BY DEF HeapInit
<1>4. BlockPages([at |-> 0, len |-> IncrPages]) = pageBitmap
  BY <1>1 DEF HeapInit, BlockPages
<1>5. blocks \subseteq [at : Pages, len : 1 .. MaxHeapPages]
  BY <1>1, <1>3 DEF Pages
<1>6. pageBitmap = UNION {BlockPages(b) : b \in blocks}
  BY <1>4 DEF HeapInit
<1> QED
  BY <1>2, <1>3, <1>5, <1>6 DEF HeapInv, HeapTypeOK, PagesMatchBlocks

(* A new block lies on pages that were free, all of them in the heap.      *)
LEMMA GetMoreSharedKeeps ==
  ASSUME HeapInv, NEW bytes \in Sizes, GetMoreShared(bytes)
  PROVE  HeapInv'
<1> DEFINE n == PagesFor(bytes)
<1>1. n \in Nat \ {0}
  BY PagesForAsked
<1> HIDE DEF n
<1>2. PICK at \in Pages :
        /\ FirstFit(n, at)
        /\ pageBitmap' = pageBitmap \cup at .. (at + n - 1)
        /\ committed' = committed \cup at .. (at + n - 1)
        /\ blocks' = blocks \cup {[at |-> at, len |-> n]}
  BY DEF GetMoreShared, n
<1> DEFINE new == [at |-> at, len |-> n]
<1>3. at \in Int /\ at >= 0 /\ MaxHeapPages \in Nat
  BY HeapAssumption DEF Pages
<1>4. /\ at + n <= MaxHeapPages
      /\ \A p \in at .. (at + n - 1) : p \notin pageBitmap
  BY <1>2 DEF FirstFit, Fits
<1>5. new \in [at : Pages, len : 1 .. MaxHeapPages]
  BY <1>1, <1>3, <1>4
<1>6. BlockPages(new) = at .. (at + n - 1)
  BY DEF BlockPages
<1>7. at .. (at + n - 1) \subseteq Pages
  BY <1>1, <1>3, <1>4 DEF Pages
<1>8. HeapTypeOK'
  BY <1>2, <1>5, <1>7 DEF HeapInv, HeapTypeOK
<1>9. \A b \in blocks : BlockPages(b) \cap BlockPages(new) = {}
  BY <1>4, <1>6 DEF HeapInv, PagesMatchBlocks
<1>10. \A b, c \in blocks' : b # c => BlockPages(b) \cap BlockPages(c) = {}
  BY <1>2, <1>9 DEF HeapInv, PagesMatchBlocks
<1>11. UNION {BlockPages(b) : b \in blocks'} = pageBitmap'
  BY <1>2, <1>6 DEF HeapInv, PagesMatchBlocks
<1>12. committed' = pageBitmap'
  BY <1>2 DEF HeapInv, PagesMatchBlocks
<1> QED
  BY <1>8, <1>10, <1>11, <1>12 DEF HeapInv, PagesMatchBlocks

(* What is left of a block is its first pages, and no other block has any  *)
(* of those that are given back.                                           *)
LEMMA ReleaseSharedKeeps ==
  ASSUME HeapInv, NEW b \in blocks, NEW len \in 1 .. b.len, ReleaseShared(b, len)
  PROVE  HeapInv'
<1> DEFINE gone == (b.at + b.len - len) .. (b.at + b.len - 1)
           rest == [at |-> b.at, len |-> b.len - len]
           left == IF len = b.len THEN {} ELSE {rest}
<1>1. /\ committed' = committed \ gone
      /\ pageBitmap' = pageBitmap \ gone
      /\ blocks' = (blocks \ {b}) \cup left
  BY DEF ReleaseShared
<1>2. b.at \in Pages /\ b.len \in 1 .. MaxHeapPages /\ MaxHeapPages \in Nat
  BY HeapAssumption DEF HeapInv, HeapTypeOK
<1>3. b.at \in Int /\ b.at >= 0 /\ b.len \in Int /\ len \in Int /\ 1 <= len /\ len <= b.len
  BY <1>2 DEF Pages
<1>4. len # b.len => rest \in [at : Pages, len : 1 .. MaxHeapPages]
  BY <1>2, <1>3
<1>5. HeapTypeOK'
  BY <1>1, <1>4 DEF HeapInv, HeapTypeOK
<1>6. gone \subseteq BlockPages(b)
  BY <1>3 DEF BlockPages
<1>7. \A c \in left : BlockPages(c) = BlockPages(b) \ gone
  BY <1>3 DEF BlockPages
<1>8. left = {} => BlockPages(b) = gone
  <2>1. left = {} => len = b.len
    OBVIOUS
  <2>2. b.at + b.len - b.len = b.at
    BY <1>3
  <2> QED
    BY <2>1, <2>2 DEF BlockPages
<1>9. \A c \in blocks \ {b} : BlockPages(c) \cap BlockPages(b) = {}
  BY DEF HeapInv, PagesMatchBlocks
<1>10. \A c, d \in blocks' : c # d => BlockPages(c) \cap BlockPages(d) = {}
  <2> SUFFICES ASSUME NEW c \in blocks', NEW d \in blocks', c # d
               PROVE  BlockPages(c) \cap BlockPages(d) = {}
    OBVIOUS
  <2>1. CASE c \in blocks \ {b} /\ d \in blocks \ {b}
    BY <2>1 DEF HeapInv, PagesMatchBlocks
  <2>2. CASE c \in blocks \ {b} /\ d \in left
    BY <2>2, <1>7, <1>9
  <2>3. CASE c \in left /\ d \in blocks \ {b}
    BY <2>3, <1>7, <1>9
  <2>4. ~(c \in left /\ d \in left)
    OBVIOUS
  <2> QED
    BY <1>1, <2>1, <2>2, <2>3, <2>4
<1> HIDE DEF gone, left
<1>11. UNION {BlockPages(c) : c \in blocks'} = pageBitmap \ gone
  <2>1. pageBitmap = UNION {BlockPages(c) : c \in blocks}
    BY DEF HeapInv, PagesMatchBlocks
  <2>2. ASSUME NEW p \in UNION {BlockPages(c) : c \in blocks'}
        PROVE  p \in pageBitmap \ gone
    BY <2>1, <1>1, <1>6, <1>7, <1>9
  <2>3. ASSUME NEW p \in pageBitmap \ gone
        PROVE  p \in UNION {BlockPages(c) : c \in blocks'}
    BY <2>1, <1>1, <1>7, <1>8
  <2> QED
    BY <2>2, <2>3
<1>12. committed' = pageBitmap'
  BY <1>1 DEF HeapInv, PagesMatchBlocks
<1> QED
  BY <1>1, <1>5, <1>10, <1>11, <1>12 DEF HeapInv, PagesMatchBlocks

LEMMA HeapStep == HeapInv /\ [HeapNext]_heapVars => HeapInv'
<1> SUFFICES ASSUME HeapInv, [HeapNext]_heapVars PROVE HeapInv'
  OBVIOUS
<1>1. ASSUME NEW bytes \in Sizes, GetMoreShared(bytes) PROVE HeapInv'
  BY <1>1, GetMoreSharedKeeps
<1>2. ASSUME NEW b \in blocks, NEW len \in 1 .. b.len, ReleaseShared(b, len) PROVE HeapInv'
  BY <1>2, ReleaseSharedKeeps
<1>3. CASE UNCHANGED heapVars
  BY <1>3 DEF heapVars, HeapInv, HeapTypeOK, PagesMatchBlocks
<1> QED
  BY <1>1, <1>2, <1>3 DEF HeapNext

LEMMA HeapInvariant == HeapSpec => []HeapInv
BY HeapInitial, HeapStep, PTL DEF HeapSpec

(* The bitmap, the committed pages and the blocks keep their types.        *)
THEOREM HeapTypeCorrect == HeapSpec => []HeapTypeOK
BY HeapInvariant, PTL DEF HeapInv

(* The bitmap marks the pages of the blocks and no others, and no page is  *)
(* in two blocks, for any sequence of getmoreShared and releaseShared.     *)
THEOREM PagesMatchBlocksHolds == HeapSpec => []PagesMatchBlocks
BY HeapInvariant, PTL DEF HeapInv

(* The free range at a place ends at a page that is taken, or at the end.  *)
RangeEnds(i, free) ==
  /\ free \in Nat /\ i + free <= MaxHeapPages
  /\ \A p \in i .. (i + free - 1) : p \notin pageBitmap
  /\ i + free = MaxHeapPages \/ i + free \in pageBitmap

(* GetPageRangeFree gives that range.                                      *)
LEMMA FreeRange ==
  ASSUME NEW i \in 0 .. MaxHeapPages
  PROVE  RangeEnds(i, GetPageRangeFree(i))
<1>1. MaxHeapPages \in Nat
  BY HeapAssumption
<1> DEFINE D == 0 .. MaxHeapPages
<1>2. \E f : f = [j \in D |-> IF j = MaxHeapPages \/ j \in pageBitmap THEN 0 ELSE 1 + f[j + 1]]
  <2> DEFINE stop == {MaxHeapPages} \cup pageBitmap
             base == [j \in D |-> 0]
             next == [j \in D |-> IF j = MaxHeapPages THEN j ELSE j + 1]
             step == [p \in D \X Nat |-> 1 + p[2]]
             rank == [j \in D |-> MaxHeapPages - j]
  <2>1. base \in [D -> Nat] /\ next \in [D -> D] /\ rank \in [D -> 0 .. MaxHeapPages]
    BY <1>1
  <2>2. step \in [D \X Nat -> Nat]
    OBVIOUS
  <2>3. \A j \in D \ stop : rank[next[j]] < rank[j]
    BY <1>1
  <2> HIDE DEF D, base, next, step, stop, rank
  <2>4. PICK f \in [D -> Nat] : Recurs(f, D, stop, base, next, step)
    BY <1>1, <2>1, <2>2, <2>3, RecursiveFunction
  <2>5. ASSUME NEW j \in D
        PROVE  f[j] = IF j = MaxHeapPages \/ j \in pageBitmap THEN 0 ELSE 1 + f[j + 1]
    <3>1. f[j] = IF j \in stop THEN base[j] ELSE step[<<j, f[next[j]]>>]
      BY <2>4 DEF Recurs
    <3>2. next[j] \in D /\ <<j, f[next[j]]>> \in D \X Nat
      BY <2>1, <2>4
    <3>3. step[<<j, f[next[j]]>>] = 1 + f[next[j]]
      BY <3>2 DEF step
    <3> QED BY <3>1, <3>3 DEF stop, base, next
  <2>6. f = [j \in D |-> f[j]]
    OBVIOUS
  <2> QED BY <2>5, <2>6
<1>3. PICK f : f = CHOOSE g : g = [j \in D |-> IF j = MaxHeapPages \/ j \in pageBitmap THEN 0
                                               ELSE 1 + g[j + 1]]
  OBVIOUS
<1>4. f = [j \in D |-> IF j = MaxHeapPages \/ j \in pageBitmap THEN 0 ELSE 1 + f[j + 1]]
  BY <1>2, <1>3
<1>5. GetPageRangeFree(i) = f[i]
  BY <1>3 DEF GetPageRangeFree
<1> DEFINE S == {j \in D : RangeEnds(j, f[j])}
<1>6. ASSUME NEW j \in D, \A k \in (j + 1) .. MaxHeapPages : k \in S PROVE j \in S
  <2>1. CASE j = MaxHeapPages \/ j \in pageBitmap
    BY <1>1, <1>4, <2>1 DEF RangeEnds
  <2>2. CASE ~(j = MaxHeapPages \/ j \in pageBitmap)
    <3>1. j + 1 \in D /\ j + 1 \in S
      BY <1>1, <1>6, <2>2
    <3>2. f[j] = 1 + f[j + 1]
      BY <1>4, <2>2
    <3>3. RangeEnds(j + 1, f[j + 1])
      BY <3>1
    <3>4. RangeEnds(j, 1 + f[j + 1])
      <4>1. f[j + 1] \in Nat /\ (j + 1) + f[j + 1] = j + (1 + f[j + 1])
        BY <3>3 DEF RangeEnds
      <4>2. ASSUME NEW p \in j .. (j + (1 + f[j + 1]) - 1) PROVE p \notin pageBitmap
        <5>1. p = j \/ p \in (j + 1) .. ((j + 1) + f[j + 1] - 1)
          BY <4>1
        <5> QED BY <2>2, <3>3, <5>1 DEF RangeEnds
      <4> QED BY <3>3, <4>1, <4>2 DEF RangeEnds
    <3> QED BY <3>2, <3>4
  <2> QED BY <2>1, <2>2
<1> HIDE DEF S
<1>7. D \subseteq S
  BY <1>1, <1>6, BackFromEnd
<1> QED BY <1>5, <1>7 DEF S

(* The search from a place on: it stops where n pages are free, and none   *)
(* of the places that it skips has as many.                                *)
FindsFrom(n, i, r) ==
  /\ r \in i .. MaxHeapPages
  /\ r = MaxHeapPages \/ GetPageRangeFree(r) >= n
  /\ \A p \in i .. (r - 1) : ~Fits(n, p)

(* The search of getmoreShared begins at the first page.                   *)
LEMMA SearchFinds ==
  ASSUME NEW n \in Nat \ {0}
  PROVE  FindsFrom(n, 0, SearchPages(n))
<1>1. MaxHeapPages \in Nat
  BY HeapAssumption
<1> DEFINE D == 0 .. MaxHeapPages
           After(i) == i + (IF GetPageRangeFree(i) = 0 THEN 1 ELSE GetPageRangeFree(i))
           Done(i) == i = MaxHeapPages \/ GetPageRangeFree(i) >= n
<1>2. ASSUME NEW i \in D, ~Done(i) PROVE After(i) \in D /\ After(i) > i
  BY <1>1, <1>2, FreeRange DEF RangeEnds
<1>3. \E f : f = [i \in D |-> IF i = MaxHeapPages THEN i
                              ELSE IF GetPageRangeFree(i) >= n THEN i ELSE f[After(i)]]
  <2> DEFINE stop == {i \in D : Done(i)}
             base == [i \in D |-> i]
             next == [i \in D |-> IF Done(i) THEN i ELSE After(i)]
             step == [p \in D \X D |-> p[2]]
             rank == [i \in D |-> MaxHeapPages - i]
  <2>1. /\ base \in [D -> D] /\ next \in [D -> D] /\ step \in [D \X D -> D]
        /\ rank \in [D -> 0 .. MaxHeapPages]
    BY <1>1, <1>2
  <2>2. ASSUME NEW i \in D \ stop PROVE rank[next[i]] < rank[i]
    <3>1. After(i) \in D /\ After(i) > i /\ next[i] = After(i)
      BY <1>2
    <3> QED BY <1>1, <3>1
  <2> HIDE DEF D, base, next, step, stop, rank
  <2>3. PICK f \in [D -> D] : Recurs(f, D, stop, base, next, step)
    BY <1>1, <2>1, <2>2, RecursiveFunction
  <2>4. ASSUME NEW i \in D PROVE f[i] = IF Done(i) THEN i ELSE f[After(i)]
    <3>1. f[i] = IF i \in stop THEN base[i] ELSE step[<<i, f[next[i]]>>]
      BY <2>3 DEF Recurs
    <3>2. next[i] \in D /\ <<i, f[next[i]]>> \in D \X D
      BY <2>1, <2>3
    <3>3. step[<<i, f[next[i]]>>] = f[next[i]]
      BY <3>2 DEF step
    <3> QED BY <3>1, <3>3 DEF stop, base, next
  <2>5. f = [i \in D |-> f[i]]
    OBVIOUS
  <2> QED BY <2>4, <2>5
<1>4. PICK f : f = CHOOSE g : g = [i \in D |-> IF i = MaxHeapPages THEN i
                              ELSE IF GetPageRangeFree(i) >= n THEN i ELSE g[After(i)]]
  OBVIOUS
<1>5. f = [i \in D |-> IF i = MaxHeapPages THEN i
                       ELSE IF GetPageRangeFree(i) >= n THEN i ELSE f[After(i)]]
  BY <1>3, <1>4
<1>6. SearchPages(n) = f[0]
  BY <1>4 DEF SearchPages
<1> DEFINE S == {i \in D : FindsFrom(n, i, f[i])}
<1>7. ASSUME NEW i \in D, \A k \in (i + 1) .. MaxHeapPages : k \in S PROVE i \in S
  <2>1. CASE Done(i)
    <3>1. f[i] = i
      BY <1>5, <2>1
    <3> QED BY <1>1, <2>1, <3>1 DEF FindsFrom
  <2>2. CASE ~Done(i)
    <3>1. PICK j : j = After(i)
      OBVIOUS
    <3>2. j \in D /\ j > i /\ j \in S
      BY <1>1, <1>2, <1>7, <2>2, <3>1
    <3>3. f[i] = f[j] /\ FindsFrom(n, j, f[j])
      BY <1>5, <2>2, <3>1, <3>2
    <3>4. ASSUME NEW p \in i .. (j - 1), Fits(n, p) PROVE FALSE
      <4>1. PICK free : free = GetPageRangeFree(i)
        OBVIOUS
      <4>2. /\ free \in Nat /\ free < n
            /\ i + free = MaxHeapPages \/ i + free \in pageBitmap
        BY <2>2, <4>1, FreeRange DEF RangeEnds
      <4>3. p + n <= MaxHeapPages /\ \A q \in p .. (p + n - 1) : q \notin pageBitmap
        BY <3>4 DEF Fits
      <4>4. i + free \in p .. (p + n - 1)
        BY <3>1, <3>2, <4>1, <4>2
      <4>5. i + free # MaxHeapPages
        BY <1>1, <4>2, <4>3, <4>4
      <4> QED BY <4>2, <4>3, <4>4, <4>5
    <3> QED BY <1>1, <3>2, <3>3, <3>4 DEF FindsFrom
  <2> QED BY <2>1, <2>2
<1> HIDE DEF S
<1>8. D \subseteq S
  BY <1>1, <1>7, BackFromEnd
<1>9. 0 \in D
  BY <1>1
<1> QED BY <1>6, <1>8, <1>9 DEF S

(* The search of getmoreShared, for a heap of any size, any pieces of free *)
(* pages and any request: the first place that is large enough, or none if *)
(* there is none.                                                          *)
THEOREM SearchIsFirstFitHolds == HeapSpec => []SearchIsFirstFit
<1>1. ASSUME NEW asked \in Sizes PROVE PagesFor(asked) \in Nat \ {0}
  BY PagesForAsked
<1>2. ASSUME NEW n \in Nat \ {0}, NEW found, found = SearchPages(n)
      PROVE  IF found = MaxHeapPages THEN \A i \in Pages : ~Fits(n, i) ELSE FirstFit(n, found)
  <2>1. MaxHeapPages \in Nat
    BY HeapAssumption
  <2>2. FindsFrom(n, 0, found)
    BY <1>2, SearchFinds
  <2>3. CASE found = MaxHeapPages
    BY <2>2, <2>3 DEF FindsFrom, Pages
  <2>4. CASE found # MaxHeapPages
    <3>1. found \in 0 .. MaxHeapPages /\ GetPageRangeFree(found) >= n
      BY <2>2, <2>4 DEF FindsFrom
    <3>2. RangeEnds(found, GetPageRangeFree(found))
      BY <3>1, FreeRange
    <3>3. Fits(n, found)
      BY <2>1, <3>1, <3>2 DEF Fits, RangeEnds
    <3>4. ASSUME NEW i \in Pages, Fits(n, i) PROVE found <= i
      BY <2>1, <2>2, <3>1, <3>4 DEF FindsFrom, Pages
    <3> QED BY <2>4, <3>3, <3>4 DEF FirstFit
  <2> QED BY <2>3, <2>4
<1>3. SearchIsFirstFit
  BY <1>1, <1>2 DEF SearchIsFirstFit
<1> QED BY <1>3, PTL
-----------------------------------------------------------------------------
(***************************************************************************)
(* What windows show and lists hold is there, for any number of clients,   *)
(* cursors, pixmaps and windows.  A cursor that is in a list can only be   *)
(* freed with the list, and is not if its count says that a window shows   *)
(* it besides; the count says so, or a client is about to count, in which  *)
(* case its call is torn.  A pixmap is counted once more than the windows  *)
(* that show it, so that taking windows away never brings it to zero.      *)
(***************************************************************************)

Living == {w \in ResWindows : There(w)}
Users(p) == {w \in ResWindows : There(w) /\ background[w] = p}
IsListed(r) == \E c \in ResClients : r \in list[c]
Pending(r) == \E c \in ResClients : doing[c].pc = "monitor" /\ doing[c].cur = r

(* What is in a list is there, and in no other list.                       *)
ListsHold ==
  /\ \A c \in ResClients : \A r \in list[c] :
       There(r) /\ (r \in Cursors => refcount[r] >= 1)
  /\ \A c, d \in ResClients : list[c] \cap list[d] # {} => c = d

(* A window that is being created is nobody else's; one that is to get a   *)
(* cursor has been created.                                                *)
CallsHold ==
  /\ \A c \in ResClients : doing[c].pc = "create" =>
       doing[c].w \in ResWindows /\ structure[doing[c].w] = "none"
  /\ \A c \in ResClients : doing[c].pc \in {"set", "monitor"} =>
       /\ doing[c].w \in ResWindows /\ structure[doing[c].w] # "none"
       /\ doing[c].cur \in Cursors
  /\ \A c, d \in ResClients :
       doing[c].pc = "create" /\ doing[d].pc = "create" /\ doing[c].w = doing[d].w => c = d

CursorsCounted ==
  \A w \in ResWindows : There(w) /\ cursor[w] # None =>
    /\ There(cursor[w])
    /\ IsListed(cursor[w]) => refcount[cursor[w]] >= 2 \/ Pending(cursor[w])

PixmapsCounted ==
  \A p \in Pixmaps :
    /\ structure[p] = "none" => Users(p) = {}
    /\ structure[p] # "none" => refcount[p] >= 1 + Cardinality(Users(p))

FreedOnRequest == \A p \in Pixmaps : structure[p] = "freed" => p \in unwanted

CountsHold == /\ IsFiniteSet(Living) /\ ListsHold /\ CallsHold
              /\ CursorsCounted /\ PixmapsCounted /\ FreedOnRequest
CountInv == CountTypeOK /\ (~torn => CountsHold)
-----------------------------------------------------------------------------
LEMMA Kinds ==
  /\ \A r \in Cursors : r \in Shared /\ r \notin Pixmaps /\ r \notin ResWindows /\ r # None
  /\ \A p \in Pixmaps : p \in Shared /\ p \notin Cursors /\ p \notin ResWindows /\ p # None
  /\ \A w \in ResWindows : w \notin Shared /\ w # None
BY CountAssumption DEF Shared

(* The windows that show a pixmap are finitely many.                       *)
LEMMA UsersAreFinite ==
  ASSUME IsFiniteSet(Living), NEW p
  PROVE  IsFiniteSet(Users(p)) /\ Cardinality(Users(p)) \in Nat
<1>1. Users(p) \subseteq Living
  BY DEF Users, Living
<1>2. IsFiniteSet(Users(p))
  BY <1>1, FS_Subset
<1> QED BY <1>2, FS_CardinalityType

LEMMA CountInitial == CountInit => CountInv
<1> SUFFICES ASSUME CountInit PROVE CountInv
  OBVIOUS
<1>1. CountTypeOK
  <2>1. NotDoing \in [pc : {"idle", "create", "set", "monitor"},
                      w : ResWindows \cup {None}, cur : Cursors \cup {None},
                      bg : Pixmaps \cup {None}]
    BY DEF NotDoing, Doing
  <2> QED BY <2>1 DEF CountInit, CountTypeOK
<1>2. Living = {} /\ \A p \in Pixmaps : Users(p) = {} /\ structure[p] = "none"
  BY Kinds DEF CountInit, Living, Users, There
<1>3. IsFiniteSet(Living)
  BY <1>2, FS_EmptySet
<1>4. ListsHold /\ CallsHold
  BY DEF CountInit, ListsHold, CallsHold, NotDoing, Doing
<1>5. CursorsCounted /\ PixmapsCounted /\ FreedOnRequest
  BY <1>2 DEF CountInit, CursorsCounted, PixmapsCounted, FreedOnRequest
<1> QED BY <1>1, <1>3, <1>4, <1>5 DEF CountInv, CountsHold
-----------------------------------------------------------------------------
LEMMA CreateCursorKeeps ==
  ASSUME CountTypeOK, CountsHold, NEW c \in ResClients, NEW r \in Cursors, CreateCursor(c, r)
  PROVE  CountTypeOK' /\ CountsHold'
<1> USE DEF CountsHold
<1>1. r \in Shared /\ r \notin ResWindows /\ r \notin Pixmaps /\ structure[r] = "none"
  BY Kinds DEF CreateCursor
<1>2. CountTypeOK'
  BY <1>1 DEF CreateCursor, CountTypeOK
<1>3. /\ \A x \in Shared \cup ResWindows : structure'[x] = IF x = r THEN "there" ELSE structure[x]
      /\ \A x \in Shared : refcount'[x] = IF x = r THEN 1 ELSE refcount[x]
      /\ \A d \in ResClients : list'[d] = IF d = c THEN list[d] \cup {r} ELSE list[d]
      /\ cursor' = cursor /\ background' = background /\ doing' = doing
      /\ unwanted' = unwanted
  BY <1>1 DEF CreateCursor, CountTypeOK
<1>4. \A d \in ResClients : r \notin list[d]
  BY <1>1 DEF ListsHold, There
<1>5. ListsHold'
  <2>1. \A d \in ResClients : list[d] \subseteq Cursors \cup ResWindows
    BY DEF CountTypeOK
  <2>2. ASSUME NEW d \in ResClients, NEW x \in list'[d]
        PROVE  There(x)' /\ (x \in Cursors => refcount'[x] >= 1)
    <3>1. CASE x = r
      BY <1>1, <1>3, <3>1 DEF There
    <3>2. CASE x # r
      <4>1. x \in list[d] /\ x \in Shared \cup ResWindows /\ (x \in Cursors => x \in Shared)
        BY <1>3, <2>1, <2>2, <3>2, Kinds DEF Shared
      <4>2. There(x) /\ (x \in Cursors => refcount[x] >= 1)
        BY <4>1 DEF ListsHold
      <4> QED BY <1>3, <3>2, <4>1, <4>2 DEF There
    <3> QED BY <3>1, <3>2
  <2>3. ASSUME NEW d \in ResClients, NEW e \in ResClients, list'[d] \cap list'[e] # {}
        PROVE  d = e
    <3>1. PICK x : x \in list'[d] /\ x \in list'[e]
      BY <2>3
    <3>2. CASE x = r
      BY <1>3, <1>4, <3>1, <3>2
    <3>3. CASE x # r
      <4>1. x \in list[d] /\ x \in list[e]
        BY <1>3, <3>1, <3>3
      <4> QED BY <4>1 DEF ListsHold
    <3> QED BY <3>2, <3>3
  <2> QED BY <2>2, <2>3 DEF ListsHold
<1>6. Living' = Living /\ \A p \in Pixmaps : (Users(p))' = Users(p)
  BY <1>1, <1>3 DEF Living, Users, There
<1>7. CallsHold'
  BY <1>1, <1>3 DEF CallsHold
<1>8. CursorsCounted'
  <2>1. \A x \in Cursors : x # r /\ IsListed(x)' => IsListed(x)
    BY <1>3 DEF IsListed
  <2>2. \A x \in Cursors : Pending(x)' <=> Pending(x)
    BY <1>3 DEF Pending
  <2>3. ASSUME NEW w \in ResWindows, There(w)', cursor'[w] # None
        PROVE  /\ There(cursor[w])'
               /\ IsListed(cursor[w])' => refcount'[cursor[w]] >= 2 \/ Pending(cursor[w])'
    <3>1. There(w) /\ cursor[w] # None
      BY <1>1, <1>3, <2>3 DEF There
    <3>2. cursor[w] \in Cursors /\ There(cursor[w]) /\ cursor[w] # r
      BY <1>1, <3>1 DEF CursorsCounted, There, CountTypeOK
    <3> QED BY <1>3, <2>1, <2>2, <3>1, <3>2, Kinds DEF CursorsCounted, There
  <2> QED BY <1>3, <2>3 DEF CursorsCounted
<1>9. PixmapsCounted' /\ FreedOnRequest'
  BY <1>1, <1>3, <1>6, Kinds DEF PixmapsCounted, FreedOnRequest
<1> QED BY <1>2, <1>5, <1>6, <1>7, <1>8, <1>9

LEMMA CreatePixmapKeeps ==
  ASSUME CountTypeOK, CountsHold, NEW c \in ResClients, NEW p \in Pixmaps, CreatePixmap(c, p)
  PROVE  CountTypeOK' /\ CountsHold'
<1> USE DEF CountsHold
<1>1. p \in Shared /\ p \notin ResWindows /\ p \notin Cursors /\ structure[p] = "none"
  BY Kinds DEF CreatePixmap
<1>2. CountTypeOK'
  BY <1>1 DEF CreatePixmap, CountTypeOK
<1>3. /\ \A x \in Shared \cup ResWindows : structure'[x] = IF x = p THEN "there" ELSE structure[x]
      /\ \A x \in Shared : refcount'[x] = IF x = p THEN 1 ELSE refcount[x]
      /\ list' = list /\ cursor' = cursor /\ background' = background /\ doing' = doing
      /\ unwanted' = unwanted
  BY <1>1 DEF CreatePixmap, CountTypeOK
<1>4. \A x \in Cursors : /\ x # p /\ structure'[x] = structure[x] /\ refcount'[x] = refcount[x]
                         /\ IsListed(x)' = IsListed(x) /\ Pending(x)' = Pending(x)
  BY <1>1, <1>3, Kinds DEF IsListed, Pending
<1>5. \A w \in ResWindows : structure'[w] = structure[w]
  BY <1>1, <1>3
<1>6. Living' = Living /\ \A q \in Pixmaps : (Users(q))' = Users(q)
  BY <1>3, <1>5 DEF Living, Users, There
<1>7. ListsHold'
  <2>1. \A d \in ResClients : list[d] \subseteq Cursors \cup ResWindows
    BY DEF CountTypeOK
  <2> QED BY <1>3, <1>4, <1>5, <2>1 DEF ListsHold, There
<1>8. CallsHold'
  BY <1>3, <1>5 DEF CallsHold
<1>9. CursorsCounted'
  <2>1. cursor \in [ResWindows -> Cursors \cup {None}]
    BY DEF CountTypeOK
  <2> QED BY <1>3, <1>4, <1>5, <2>1 DEF CursorsCounted, There
<1>10. PixmapsCounted'
  <2>1. Users(p) = {}
    BY <1>1 DEF PixmapsCounted
  <2>2. Cardinality(Users(p)) = 0
    BY <2>1, FS_EmptySet
  <2> QED BY <1>1, <1>3, <1>6, <2>2, Kinds DEF PixmapsCounted
<1>11. FreedOnRequest'
  BY <1>1, <1>3, Kinds DEF FreedOnRequest
<1> QED BY <1>2, <1>6, <1>7, <1>8, <1>9, <1>10, <1>11

LEMMA FreePixmapKeeps ==
  ASSUME CountTypeOK, CountsHold, NEW c \in ResClients, NEW p \in Pixmaps, FreePixmap(c, p)
  PROVE  CountTypeOK' /\ CountsHold'
<1> USE DEF CountsHold
<1>1. p \in Shared /\ p \notin ResWindows /\ p \notin Cursors /\ structure[p] = "there"
  BY Kinds DEF FreePixmap, There
<1>2. CountTypeOK'
  BY <1>1 DEF FreePixmap, CountTypeOK
<1>3. /\ \A x \in Shared \cup ResWindows : structure'[x] = IF x = p THEN "freed" ELSE structure[x]
      /\ refcount' = refcount
      /\ list' = list /\ cursor' = cursor /\ background' = background /\ doing' = doing
      /\ unwanted' = unwanted \cup {p}
  BY <1>1 DEF FreePixmap, CountTypeOK
<1>4. \A x \in Cursors : /\ x # p /\ structure'[x] = structure[x]
                         /\ IsListed(x)' = IsListed(x) /\ Pending(x)' = Pending(x)
  BY <1>1, <1>3, Kinds DEF IsListed, Pending
<1>5. \A w \in ResWindows : structure'[w] = structure[w]
  BY <1>1, <1>3
<1>6. Living' = Living /\ \A q \in Pixmaps : (Users(q))' = Users(q)
  BY <1>3, <1>5 DEF Living, Users, There
<1>7. ListsHold'
  <2>1. \A d \in ResClients : list[d] \subseteq Cursors \cup ResWindows
    BY DEF CountTypeOK
  <2> QED BY <1>3, <1>4, <1>5, <2>1 DEF ListsHold, There
<1>8. CallsHold'
  BY <1>3, <1>5 DEF CallsHold
<1>9. CursorsCounted'
  <2>1. cursor \in [ResWindows -> Cursors \cup {None}]
    BY DEF CountTypeOK
  <2> QED BY <1>3, <1>4, <1>5, <2>1 DEF CursorsCounted, There
<1>10. PixmapsCounted'
  BY <1>1, <1>3, <1>6, Kinds DEF PixmapsCounted
<1>11. FreedOnRequest'
  BY <1>1, <1>3, Kinds DEF FreedOnRequest
<1> QED BY <1>2, <1>6, <1>7, <1>8, <1>9, <1>10, <1>11
-----------------------------------------------------------------------------
(* A step that touches nothing but the places of the clients.              *)
LEMMA OnlyCalls ==
  ASSUME CountTypeOK, CountsHold, CallsHold',
         UNCHANGED <<list, refcount, structure, cursor, background, unwanted>>,
         \A r \in Cursors : Pending(r) => Pending(r)'
  PROVE  CountsHold'
<1> USE DEF CountsHold
<1>1. list' = list /\ refcount' = refcount /\ structure' = structure /\ cursor' = cursor
      /\ background' = background /\ unwanted' = unwanted
  OBVIOUS
<1>2. Living' = Living /\ \A p \in Pixmaps : (Users(p))' = Users(p)
  BY <1>1 DEF Living, Users, There
<1>3. ListsHold' /\ PixmapsCounted' /\ FreedOnRequest'
  BY <1>1, <1>2 DEF ListsHold, PixmapsCounted, FreedOnRequest, There
<1>4. CursorsCounted'
  <2>1. \A r : IsListed(r)' = IsListed(r)
    BY <1>1 DEF IsListed
  <2>2. cursor \in [ResWindows -> Cursors \cup {None}]
    BY DEF CountTypeOK
  <2> QED BY <1>1, <2>1, <2>2 DEF CursorsCounted, There
<1> QED BY <1>2, <1>3, <1>4

LEMMA FillWindowKeeps ==
  ASSUME CountTypeOK, CountsHold, NEW c \in ResClients, NEW w \in ResWindows,
         NEW cur \in Cursors \cup {None}, NEW bg \in Pixmaps \cup {None},
         FillWindow(c, w, cur, bg)
  PROVE  CountTypeOK' /\ CountsHold'
<1>1. doing' = [doing EXCEPT ![c] = Doing("create", w, cur, bg)]
  BY DEF FillWindow
<1>2. CountTypeOK'
  <2>1. Doing("create", w, cur, bg) \in
          [pc : {"idle", "create", "set", "monitor"}, w : ResWindows \cup {None},
           cur : Cursors \cup {None}, bg : Pixmaps \cup {None}]
    BY DEF Doing
  <2> QED BY <2>1 DEF FillWindow, CountTypeOK
<1>3. /\ doing'[c].pc = "create" /\ doing'[c].w = w
      /\ \A d \in ResClients : d # c => doing'[d] = doing[d] /\ doing[d].w # w
      /\ doing[c].pc = "idle" /\ structure[w] = "none" /\ structure' = structure
  BY <1>1 DEF FillWindow, CountTypeOK, Doing, IsIdle
<1>4. CallsHold'
  BY <1>3 DEF CountsHold, CallsHold
<1>5. \A r \in Cursors : Pending(r) => Pending(r)'
  BY <1>3 DEF Pending
<1> QED BY <1>2, <1>4, <1>5, OnlyCalls DEF FillWindow

LEMMA DefineCursorKeeps ==
  ASSUME CountTypeOK, CountsHold, NEW c \in ResClients, NEW w \in ResWindows,
         NEW r \in Cursors, DefineCursor(c, w, r)
  PROVE  CountTypeOK' /\ CountsHold'
<1>1. doing' = [doing EXCEPT ![c] = Doing("set", w, r, None)]
  BY DEF DefineCursor
<1>2. CountTypeOK'
  <2>1. Doing("set", w, r, None) \in
          [pc : {"idle", "create", "set", "monitor"}, w : ResWindows \cup {None},
           cur : Cursors \cup {None}, bg : Pixmaps \cup {None}]
    BY DEF Doing
  <2> QED BY <2>1 DEF DefineCursor, CountTypeOK
<1>3. /\ doing'[c].pc = "set" /\ doing'[c].w = w /\ doing'[c].cur = r
      /\ \A d \in ResClients : d # c => doing'[d] = doing[d]
      /\ doing[c].pc = "idle" /\ structure[w] = "there" /\ structure' = structure
  BY <1>1 DEF DefineCursor, CountTypeOK, Doing, IsIdle, There
<1>4. CallsHold'
  BY <1>3 DEF CountsHold, CallsHold
<1>5. \A x \in Cursors : Pending(x) => Pending(x)'
  BY <1>3 DEF Pending
<1> QED BY <1>2, <1>4, <1>5, OnlyCalls DEF DefineCursor
-----------------------------------------------------------------------------
(* The new window counts for its cursor and its background.                *)
LEMMA UmCreateWindowKeeps ==
  ASSUME CountTypeOK, CountsHold, NEW c \in ResClients, UmCreateWindow(c)
  PROVE  CountTypeOK' /\ (~torn' => CountsHold')
<1>0. PICK w, cur, bg : w = doing[c].w /\ cur = doing[c].cur /\ bg = doing[c].bg
  OBVIOUS
<1>1. /\ w \in ResWindows /\ structure[w] = "none" /\ doing[c].pc = "create"
      /\ cur \in Cursors \cup {None} /\ bg \in Pixmaps \cup {None}
  BY <1>0 DEF UmCreateWindow, CountsHold, CallsHold, CountTypeOK
<1>2. /\ structure' = [structure EXCEPT ![w] = "there"]
      /\ cursor' = [cursor EXCEPT ![w] = cur]
      /\ background' = [background EXCEPT ![w] = bg]
      /\ refcount' = [r \in Shared |-> IF r \in {cur, bg} \ {None} THEN refcount[r] + 1
                                       ELSE refcount[r]]
      /\ list' = [list EXCEPT ![c] = @ \cup {w}]
      /\ doing' = [doing EXCEPT ![c] = NotDoing]
      /\ torn' = \E r \in {cur, bg} \ {None} : ~There(r)
      /\ attached' = attached /\ unwanted' = unwanted
  BY <1>0 DEF UmCreateWindow
<1>3. CountTypeOK'
  <2>1. NotDoing \in [pc : {"idle", "create", "set", "monitor"},
                      w : ResWindows \cup {None}, cur : Cursors \cup {None},
                      bg : Pixmaps \cup {None}]
    BY DEF NotDoing, Doing
  <2>2. /\ attached' \subseteq ResClients /\ unwanted' \subseteq Pixmaps /\ torn' \in BOOLEAN
        /\ list' \in [ResClients -> SUBSET (Cursors \cup ResWindows)]
        /\ doing' \in [ResClients -> [pc : {"idle", "create", "set", "monitor"},
                        w : ResWindows \cup {None}, cur : Cursors \cup {None},
                        bg : Pixmaps \cup {None}]]
    BY <1>1, <1>2, <2>1 DEF CountTypeOK
  <2>3. /\ structure' \in [Shared \cup ResWindows -> {"none", "there", "freed"}]
        /\ cursor' \in [ResWindows -> Cursors \cup {None}]
        /\ background' \in [ResWindows -> Pixmaps \cup {None}]
    BY <1>1, <1>2 DEF CountTypeOK
  <2>4. refcount' \in [Shared -> Nat]
    BY <1>2 DEF CountTypeOK
  <2> QED BY <2>2, <2>3, <2>4 DEF CountTypeOK
<1> SUFFICES ASSUME ~torn' PROVE CountsHold'
  BY <1>3
<1>4. /\ \A x \in Shared \cup ResWindows : structure'[x] = IF x = w THEN "there" ELSE structure[x]
      /\ \A x \in Shared : refcount'[x] = IF x = cur \/ x = bg THEN refcount[x] + 1
                                          ELSE refcount[x]
      /\ \A d \in ResClients : list'[d] = IF d = c THEN list[d] \cup {w} ELSE list[d]
      /\ \A v \in ResWindows : v # w => cursor'[v] = cursor[v] /\ background'[v] = background[v]
      /\ cursor'[w] = cur /\ background'[w] = bg
      /\ \A d \in ResClients : doing'[d] = IF d = c THEN NotDoing ELSE doing[d]
  <2>1. \A x \in Shared : x # None
    BY Kinds DEF Shared
  <2> QED BY <1>1, <1>2, <2>1 DEF CountTypeOK
<1>list. \A d \in ResClients : list'[d] = IF d = c THEN list[d] \cup {w} ELSE list[d]
  BY <1>4
<1>5. (cur # None => There(cur)) /\ (bg # None => There(bg))
  BY <1>2
<1>6. \A x \in Shared : x # w /\ structure'[x] = structure[x] /\ refcount'[x] \in Nat
                        /\ refcount[x] \in Nat /\ refcount'[x] >= refcount[x]
  <2>1. refcount \in [Shared -> Nat]
    BY DEF CountTypeOK
  <2> QED BY <1>1, <1>4, <2>1, Kinds
<1>7. \A d \in ResClients : w \notin list[d] /\ list[d] \subseteq Cursors \cup ResWindows
  BY <1>1 DEF CountsHold, ListsHold, There, CountTypeOK
<1>8. ListsHold'
  <2>1. ASSUME NEW d \in ResClients, NEW x \in list'[d]
        PROVE  There(x)' /\ (x \in Cursors => refcount'[x] >= 1)
    <3>1. CASE x = w
      BY <1>1, <1>4, <3>1, Kinds DEF There
    <3>2. CASE x # w
      <4>1. x \in list[d] /\ x \in Shared \cup ResWindows /\ (x \in Cursors => x \in Shared)
        BY <1>list, <1>7, <2>1, <3>2, Kinds DEF Shared
      <4>2. There(x) /\ (x \in Cursors => refcount[x] >= 1)
        BY <4>1 DEF CountsHold, ListsHold
      <4> QED BY <1>4, <1>6, <3>2, <4>1, <4>2 DEF There
    <3> QED BY <3>1, <3>2
  <2>2. ASSUME NEW d \in ResClients, NEW e \in ResClients, list'[d] \cap list'[e] # {}
        PROVE  d = e
    <3>1. PICK x : x \in list'[d] /\ x \in list'[e]
      BY <2>2
    <3>2. CASE x = w
      BY <1>list, <1>7, <3>1, <3>2
    <3>3. CASE x # w
      <4>0. \A f \in ResClients : x \in list'[f] => x \in list[f]
        BY <1>list, <3>3
      <4>1. x \in list[d] /\ x \in list[e]
        BY <4>0, <3>1
      <4>2. list[d] \cap list[e] # {}
        BY <4>1
      <4> QED BY <4>2 DEF CountsHold, ListsHold
    <3> QED BY <3>2, <3>3
  <2> QED BY <2>1, <2>2 DEF ListsHold
<1>9. CallsHold'
  <2>1. NotDoing.pc = "idle"
    BY DEF NotDoing, Doing
  <2>2. ASSUME NEW d \in ResClients, doing'[d].pc # "idle"
        PROVE  d # c /\ doing'[d] = doing[d]
    BY <1>4, <2>1, <2>2
  <2>3. ASSUME NEW d \in ResClients, doing'[d].pc = "create"
        PROVE  doing'[d].w \in ResWindows /\ structure'[doing'[d].w] = "none"
    <3>1. d # c /\ doing'[d] = doing[d] /\ doing[d].pc = "create"
      BY <2>2, <2>3
    <3>2. doing[d].w \in ResWindows /\ structure[doing[d].w] = "none" /\ doing[d].w # w
      BY <1>0, <1>1, <3>1 DEF CountsHold, CallsHold
    <3> QED BY <1>4, <3>1, <3>2
  <2>4. ASSUME NEW d \in ResClients, doing'[d].pc \in {"set", "monitor"}
        PROVE  /\ doing'[d].w \in ResWindows /\ structure'[doing'[d].w] # "none"
               /\ doing'[d].cur \in Cursors
    <3>1. d # c /\ doing'[d] = doing[d]
      BY <2>2, <2>4
    <3> QED BY <1>4, <2>4, <3>1 DEF CountsHold, CallsHold
  <2>5. \A d, e \in ResClients :
          doing'[d].pc = "create" /\ doing'[e].pc = "create" /\ doing'[d].w = doing'[e].w => d = e
    BY <2>2 DEF CountsHold, CallsHold
  <2> QED BY <2>3, <2>4, <2>5 DEF CallsHold
<1>10. CursorsCounted'
  <2>1. \A x \in Cursors : x \in Shared /\ x # w /\ (IsListed(x)' => IsListed(x))
    BY <1>1, <1>list, Kinds DEF IsListed
  <2>2. \A x : Pending(x) => Pending(x)'
    BY <1>1, <1>4 DEF Pending
  <2>3. cursor \in [ResWindows -> Cursors \cup {None}]
    BY DEF CountTypeOK
  <2>4. ASSUME NEW v \in ResWindows, There(v)', cursor'[v] # None
        PROVE  /\ There(cursor[v])'
               /\ IsListed(cursor[v])' => refcount'[cursor'[v]] >= 2 \/ Pending(cursor[v])'
    <3>1. CASE v = w
      <4>1. cursor'[v] = cur /\ cur \in Cursors /\ There(cur) /\ cur \in Shared
        BY <1>1, <1>4, <1>5, <2>1, <2>4, <3>1 
      <4>2. IsListed(cur) => refcount[cur] >= 1
        BY <4>1 DEF CountsHold, ListsHold, IsListed
      <4>3. refcount'[cur] = refcount[cur] + 1
        BY <1>4, <4>1
      <4>4. refcount[cur] \in Nat /\ structure'[cur] = structure[cur]
        BY <1>6, <4>1
      <4>5. IsListed(cur)' => refcount'[cur] >= 2
        BY <2>1, <4>1, <4>2, <4>3, <4>4
      <4>6. There(cur)'
        BY <4>1, <4>4 DEF There
      <4> QED BY <4>1, <4>5, <4>6 DEF IsListed, There
    <3>2. CASE v # w
      <4>0. PICK x : x = cursor[v]
        OBVIOUS
      <4>1. cursor'[v] = x /\ There(v) /\ x \in Cursors /\ x \in Shared
        BY <4>0, <1>4, <2>1, <2>3, <2>4, <3>2 DEF There
      <4>2. There(x) /\ (IsListed(x) => refcount[x] >= 2 \/ Pending(x))
        BY <4>0, <2>4, <4>1 DEF CountsHold, CursorsCounted
      <4>3. refcount'[x] >= refcount[x] /\ refcount[x] \in Nat /\ refcount'[x] \in Nat
            /\ structure'[x] = structure[x]
        BY <1>6, <4>1
      <4> QED BY <2>1, <2>2, <4>1, <4>2, <4>3 DEF There, IsListed, Pending
    <3> QED BY <3>1, <3>2
  <2> QED BY <2>4 DEF CursorsCounted
<1>11. IsFiniteSet(Living')
  <2>1. Living' = Living \cup {w}
    BY <1>1, <1>4 DEF Living, There
  <2> QED BY <2>1, FS_AddElement DEF CountsHold
<1>12. PixmapsCounted'
  <2> SUFFICES ASSUME NEW p \in Pixmaps
               PROVE  /\ structure'[p] = "none" => (Users(p))' = {}
                      /\ structure'[p] # "none" =>
                           refcount'[p] >= 1 + Cardinality((Users(p))')
    BY DEF PixmapsCounted
  <2>1. /\ p \in Shared /\ p # w /\ structure'[p] = structure[p] /\ refcount[p] \in Nat
        /\ refcount'[p] >= refcount[p]
    BY <1>6, Kinds
  <2>2. /\ structure[p] = "none" => Users(p) = {}
        /\ structure[p] # "none" => refcount[p] >= 1 + Cardinality(Users(p))
    BY DEF CountsHold, PixmapsCounted
  <2>3. IsFiniteSet(Users(p)) /\ Cardinality(Users(p)) \in Nat
    BY UsersAreFinite DEF CountsHold
  <2>4. CASE p = bg
    <3>1. (Users(p))' = Users(p) \cup {w} /\ w \notin Users(p)
      BY <1>1, <1>4, <2>4 DEF Users, There
    <3>2. Cardinality((Users(p))') = Cardinality(Users(p)) + 1
      BY <2>3, <3>1, FS_AddElement
    <3>3. refcount'[p] = refcount[p] + 1
      BY <1>4, <2>1, <2>4
    <3>4. structure[p] # "none"
      BY <1>5, <2>4, Kinds DEF There
    <3> QED BY <2>1, <2>2, <2>3, <3>2, <3>3, <3>4
  <2>5. CASE p # bg
    <3>1. (Users(p))' = Users(p)
      BY <1>1, <1>4, <2>5 DEF Users, There
    <3> QED BY <1>6, <2>1, <2>2, <2>3, <3>1
  <2> QED BY <2>4, <2>5
<1>13. FreedOnRequest'
  BY <1>2, <1>6, Kinds DEF CountsHold, FreedOnRequest
<1> QED BY <1>8, <1>9, <1>10, <1>11, <1>12, <1>13 DEF CountsHold
-----------------------------------------------------------------------------
(* The window shows the cursor before it is counted: the call is pending.  *)
LEMMA SetCursorKeeps ==
  ASSUME CountTypeOK, CountsHold, NEW c \in ResClients, SetCursor(c)
  PROVE  CountTypeOK' /\ (~torn' => CountsHold')
<1>0. PICK w, cur : w = doing[c].w /\ cur = doing[c].cur
  OBVIOUS
<1>1. w \in ResWindows /\ cur \in Cursors /\ doing[c].pc = "set" /\ structure[w] # "none"
  BY <1>0 DEF SetCursor, CountsHold, CallsHold
<1>2. /\ cursor' = [cursor EXCEPT ![w] = cur]
      /\ doing' = [doing EXCEPT ![c] = [@ EXCEPT !.pc = "monitor"]]
      /\ torn' = ~(There(w) /\ There(cur))
      /\ attached' = attached /\ list' = list /\ refcount' = refcount
      /\ structure' = structure /\ background' = background /\ unwanted' = unwanted
  BY <1>0 DEF SetCursor, Turn
<1>3. CountTypeOK'
  <2>1. doing' \in [ResClients -> [pc : {"idle", "create", "set", "monitor"},
                        w : ResWindows \cup {None}, cur : Cursors \cup {None},
                        bg : Pixmaps \cup {None}]]
    BY <1>2 DEF CountTypeOK
  <2>2. cursor' \in [ResWindows -> Cursors \cup {None}]
    BY <1>1, <1>2 DEF CountTypeOK
  <2>3. torn' \in BOOLEAN
    BY <1>2
  <2> QED BY <1>2, <2>1, <2>2, <2>3 DEF CountTypeOK
<1> SUFFICES ASSUME ~torn' PROVE CountsHold'
  BY <1>3
<1>4. There(w) /\ There(cur)
  BY <1>2
<1>5. /\ cursor'[w] = cur /\ \A v \in ResWindows : v # w => cursor'[v] = cursor[v]
      /\ doing'[c].pc = "monitor" /\ doing'[c].w = w /\ doing'[c].cur = cur
      /\ \A d \in ResClients : d # c => doing'[d] = doing[d]
  BY <1>0, <1>1, <1>2 DEF CountTypeOK
<1>6. Living' = Living /\ \A p \in Pixmaps : (Users(p))' = Users(p)
  BY <1>2 DEF Living, Users, There
<1>7. ListsHold' /\ PixmapsCounted' /\ FreedOnRequest'
  BY <1>2, <1>6 DEF CountsHold, ListsHold, PixmapsCounted, FreedOnRequest, There
<1>8. CallsHold'
  BY <1>1, <1>2, <1>5 DEF CountsHold, CallsHold
<1>9. CursorsCounted'
  <2>1. \A x : IsListed(x)' <=> IsListed(x)
    BY <1>2 DEF IsListed
  <2>2. \A x : Pending(x) \/ x = cur => Pending(x)'
    BY <1>1, <1>5 DEF Pending
  <2>3. cursor \in [ResWindows -> Cursors \cup {None}]
    BY DEF CountTypeOK
  <2>4. ASSUME NEW v \in ResWindows, There(v)', cursor'[v] # None
        PROVE  /\ There(cursor[v])'
               /\ IsListed(cursor[v])' => refcount'[cursor'[v]] >= 2 \/ Pending(cursor[v])'
    <3>1. CASE v = w
      BY <1>2, <1>4, <1>5, <2>2, <3>1 DEF There, Pending
    <3>2. CASE v # w
      <4>1. PICK x : x = cursor[v]
        OBVIOUS
      <4>2. cursor'[v] = x /\ There(v) /\ x # None
        BY <1>2, <1>5, <2>4, <3>2, <4>1 DEF There
      <4>3. There(x) /\ (IsListed(x) => refcount[x] >= 2 \/ Pending(x))
        BY <4>1, <4>2 DEF CountsHold, CursorsCounted
      <4> QED BY <1>2, <2>1, <2>2, <4>2, <4>3 DEF There, IsListed, Pending
    <3> QED BY <3>1, <3>2
  <2> QED BY <2>4 DEF CursorsCounted
<1> QED BY <1>6, <1>7, <1>8, <1>9 DEF CountsHold

(* The cursor is counted: if it is in a list, it is now counted twice.     *)
LEMMA MonitorResourceKeeps ==
  ASSUME CountTypeOK, CountsHold, NEW c \in ResClients, MonitorResource(c)
  PROVE  CountTypeOK' /\ CountsHold'
<1>0. PICK cur : cur = doing[c].cur
  OBVIOUS
<1>1. cur \in Cursors /\ cur \in Shared /\ doing[c].pc = "monitor" /\ cur \notin Pixmaps
  BY <1>0, Kinds DEF MonitorResource, CountsHold, CallsHold
<1>2. /\ refcount' = [refcount EXCEPT ![cur] = @ + 1]
      /\ doing' = [doing EXCEPT ![c] = NotDoing]
      /\ attached' = attached /\ list' = list /\ torn' = torn /\ cursor' = cursor
      /\ structure' = structure /\ background' = background /\ unwanted' = unwanted
  BY <1>0 DEF MonitorResource
<1>3. CountTypeOK'
  <2>1. NotDoing \in [pc : {"idle", "create", "set", "monitor"},
                      w : ResWindows \cup {None}, cur : Cursors \cup {None},
                      bg : Pixmaps \cup {None}]
    BY DEF NotDoing, Doing
  <2>2. refcount' \in [Shared -> Nat]
    BY <1>1, <1>2 DEF CountTypeOK
  <2> QED BY <1>2, <2>1, <2>2 DEF CountTypeOK
<1>4. /\ refcount'[cur] = refcount[cur] + 1
      /\ \A x \in Shared : x # cur => refcount'[x] = refcount[x]
      /\ \A x \in Shared : refcount[x] \in Nat
      /\ doing'[c].pc = "idle"
      /\ \A d \in ResClients : d # c => doing'[d] = doing[d]
  BY <1>1, <1>2 DEF CountTypeOK, NotDoing, Doing
<1>5. Living' = Living /\ \A p \in Pixmaps : (Users(p))' = Users(p)
  BY <1>2 DEF Living, Users, There
<1>6. PixmapsCounted' /\ FreedOnRequest'
  BY <1>1, <1>2, <1>4, <1>5, Kinds DEF CountsHold, PixmapsCounted, FreedOnRequest
<1>7. \A x \in Cursors : refcount[x] >= 1 => refcount'[x] >= 1
  BY <1>1, <1>4, Kinds
<1>8. ListsHold'
  BY <1>2, <1>7 DEF CountsHold, ListsHold, There
<1>9. CallsHold'
  BY <1>2, <1>4 DEF CountsHold, CallsHold
<1>10. CursorsCounted'
  <2>1. \A x : IsListed(x)' <=> IsListed(x)
    BY <1>2 DEF IsListed
  <2>2. \A x : x # cur /\ Pending(x) => Pending(x)'
    BY <1>0, <1>4 DEF Pending
  <2>3. ASSUME NEW v \in ResWindows, There(v)', cursor'[v] # None
        PROVE  /\ There(cursor[v])'
               /\ IsListed(cursor[v])' => refcount'[cursor'[v]] >= 2 \/ Pending(cursor[v])'
    <3>1. PICK x : x = cursor[v]
      OBVIOUS
    <3>2. cursor'[v] = x /\ There(v) /\ x \in Cursors /\ x \in Shared
      BY <1>2, <2>3, <3>1, Kinds DEF There, CountTypeOK
    <3>3. There(x) /\ (IsListed(x) => refcount[x] >= 2 \/ Pending(x))
      BY <2>3, <1>2, <3>1, <3>2 DEF CountsHold, CursorsCounted, There
    <3>4. CASE x = cur
      <4>1. IsListed(x) => refcount[x] >= 1
        BY <3>2 DEF CountsHold, ListsHold, IsListed
      <4> QED BY <1>2, <1>4, <2>1, <3>2, <3>3, <3>4, <4>1 DEF There, IsListed
    <3>5. CASE x # cur
      BY <1>2, <1>4, <2>1, <2>2, <3>2, <3>3, <3>5 DEF There, IsListed, Pending
    <3> QED BY <3>4, <3>5
  <2> QED BY <2>3 DEF CursorsCounted
<1> QED BY <1>3, <1>5, <1>6, <1>8, <1>9, <1>10 DEF CountsHold
-----------------------------------------------------------------------------
(* What umMonitor takes back: each cursor of the list that goes once, and  *)
(* each pixmap once for each of its windows that go, which leaves it at    *)
(* least its own count.                                                    *)
LEMMA UnMonitorShape ==
  ASSUME CountTypeOK, CountsHold, NEW gone, gone \subseteq Cursors \cup ResWindows,
         \A r \in gone : There(r), \A r \in gone \cap Cursors : refcount[r] >= 1,
         background' = background, UnMonitor(gone)
  PROVE  /\ refcount' \in [Shared -> Nat]
         /\ structure' \in [Shared \cup ResWindows -> {"none", "there", "freed"}]
         /\ \A r \in Cursors :
              /\ refcount'[r] = IF r \in gone THEN refcount[r] - 1 ELSE refcount[r]
              /\ structure'[r] = IF r \in gone /\ refcount[r] = 1 THEN "freed"
                                 ELSE structure[r]
         /\ \A w \in ResWindows : structure'[w] = IF w \in gone THEN "freed" ELSE structure[w]
         /\ \A p \in Pixmaps : structure'[p] = structure[p]
         /\ Living' = Living \ gone /\ IsFiniteSet(Living')
         /\ PixmapsCounted'
<1> DEFINE Shown(r) == {w \in gone \cap ResWindows : background[w] = r}
<1> DEFINE uses(r) == Cardinality(Shown(r)) + IF r \in gone THEN 1 ELSE 0
<1>1. /\ refcount' = [r \in Shared |-> refcount[r] - uses(r)]
      /\ structure' = [r \in Shared \cup ResWindows |->
           IF r \in gone \cap ResWindows THEN "freed"
           ELSE IF r \in Shared /\ uses(r) # 0 /\ uses(r) = refcount[r] THEN "freed"
           ELSE structure[r]]
  BY DEF UnMonitor
<1>2. /\ refcount \in [Shared -> Nat]
      /\ structure \in [Shared \cup ResWindows -> {"none", "there", "freed"}]
      /\ background \in [ResWindows -> Pixmaps \cup {None}]
  BY DEF CountTypeOK
<1>3. \A r \in Cursors : uses(r) = IF r \in gone THEN 1 ELSE 0
  <2> SUFFICES ASSUME NEW r \in Cursors PROVE uses(r) = IF r \in gone THEN 1 ELSE 0
    OBVIOUS
  <2>1. Shown(r) = {}
    BY <1>2, Kinds
  <2>2. Cardinality(Shown(r)) = 0
    BY <2>1, FS_EmptySet
  <2> QED BY <2>2
<1>4. ASSUME NEW p \in Pixmaps
      PROVE  /\ uses(p) = Cardinality(Shown(p)) /\ uses(p) \in Nat
             /\ uses(p) # 0 => structure[p] # "none"
             /\ structure[p] # "none" => refcount[p] >= 1 + uses(p)
             /\ structure[p] # "none" =>
                  refcount[p] - uses(p) >= 1 + Cardinality(Users(p) \ Shown(p))
  <2>1. p \notin gone
    BY Kinds
  <2>2. Shown(p) \subseteq Users(p)
    BY DEF Users
  <2>3. IsFiniteSet(Users(p)) /\ Cardinality(Users(p)) \in Nat
    BY UsersAreFinite DEF CountsHold
  <2>4. IsFiniteSet(Shown(p)) /\ Cardinality(Shown(p)) \in Nat
        /\ Cardinality(Shown(p)) <= Cardinality(Users(p))
    BY <2>2, <2>3, FS_Subset, FS_CardinalityType
  <2>5. /\ structure[p] = "none" => Users(p) = {}
        /\ structure[p] # "none" => refcount[p] >= 1 + Cardinality(Users(p))
    BY DEF CountsHold, PixmapsCounted
  <2>6. structure[p] = "none" => Cardinality(Shown(p)) = 0
    BY <2>2, <2>5, FS_EmptySet
  <2>7. Cardinality(Users(p) \ Shown(p))
          = Cardinality(Users(p)) - Cardinality(Users(p) \cap Shown(p))
    BY <2>3, FS_Difference
  <2>8. Users(p) \cap Shown(p) = Shown(p)
    BY <2>2
  <2>9. refcount[p] \in Nat
    BY <1>2, Kinds
  <2>10. uses(p) = Cardinality(Shown(p))
    BY <2>1, <2>4
  <2> HIDE DEF uses, Shown
  <2>11. Cardinality(Users(p) \ Shown(p)) = Cardinality(Users(p)) - Cardinality(Shown(p))
    BY <2>7, <2>8
  <2> QED BY <2>3, <2>4, <2>5, <2>6, <2>9, <2>10, <2>11
<1> HIDE DEF uses
<1>5. \A r \in Cursors :
        /\ refcount'[r] = IF r \in gone THEN refcount[r] - 1 ELSE refcount[r]
        /\ structure'[r] = IF r \in gone /\ refcount[r] = 1 THEN "freed" ELSE structure[r]
  <2> SUFFICES ASSUME NEW r \in Cursors
               PROVE  /\ refcount'[r] = IF r \in gone THEN refcount[r] - 1 ELSE refcount[r]
                      /\ structure'[r] = IF r \in gone /\ refcount[r] = 1 THEN "freed"
                                         ELSE structure[r]
    OBVIOUS
  <2>1. r \in Shared /\ r \notin ResWindows /\ refcount[r] \in Nat
    BY <1>2, Kinds
  <2>2. refcount'[r] = refcount[r] - uses(r)
    BY <1>1, <2>1
  <2>3. structure'[r] = IF uses(r) # 0 /\ uses(r) = refcount[r] THEN "freed" ELSE structure[r]
    BY <1>1, <2>1
  <2> QED BY <1>3, <2>1, <2>2, <2>3
<1>6. \A w \in ResWindows : structure'[w] = IF w \in gone THEN "freed" ELSE structure[w]
  BY <1>1, Kinds
<1>7. \A p \in Pixmaps : structure'[p] = structure[p] /\ refcount'[p] = refcount[p] - uses(p)
                         /\ refcount'[p] \in Nat
  <2> SUFFICES ASSUME NEW p \in Pixmaps
               PROVE  structure'[p] = structure[p] /\ refcount'[p] = refcount[p] - uses(p)
                      /\ refcount'[p] \in Nat
    OBVIOUS
  <2>1. p \in Shared /\ p \notin ResWindows /\ refcount[p] \in Nat
    BY <1>2, Kinds
  <2>2. refcount'[p] = refcount[p] - uses(p)
    BY <1>1, <2>1
  <2>3. structure'[p] = IF uses(p) # 0 /\ uses(p) = refcount[p] THEN "freed" ELSE structure[p]
    BY <1>1, <2>1
  <2>4. /\ uses(p) \in Nat /\ (uses(p) # 0 => structure[p] # "none")
        /\ structure[p] # "none" => refcount[p] >= 1 + uses(p)
    BY <1>4
  <2> QED BY <2>1, <2>2, <2>3, <2>4
<1>8. refcount' \in [Shared -> Nat]
  <2>1. ASSUME NEW r \in Shared PROVE refcount'[r] \in Nat
    <3>1. CASE r \in Cursors
      <4>1. refcount[r] \in Nat
        BY <1>2
      <4> QED BY <1>5, <3>1, <4>1
    <3>2. CASE r \in Pixmaps
      BY <1>7, <3>2
    <3> QED BY <3>1, <3>2 DEF Shared
  <2> QED BY <1>1, <2>1
<1>9. structure' \in [Shared \cup ResWindows -> {"none", "there", "freed"}]
  BY <1>1, <1>2
<1>10. Living' = Living \ gone
  BY <1>6 DEF Living, There
<1>11. IsFiniteSet(Living')
  BY <1>10, FS_Subset DEF CountsHold
<1>12. PixmapsCounted'
  <2> SUFFICES ASSUME NEW p \in Pixmaps
               PROVE  /\ structure'[p] = "none" => (Users(p))' = {}
                      /\ structure'[p] # "none" =>
                           refcount'[p] >= 1 + Cardinality((Users(p))')
    BY DEF PixmapsCounted
  <2>1. (Users(p))' = Users(p) \ Shown(p)
    BY <1>6 DEF Users, There
  <2>2. structure[p] = "none" => Users(p) = {}
    BY DEF CountsHold, PixmapsCounted
  <2> QED BY <1>4, <1>7, <2>1, <2>2
<1> QED BY <1>5, <1>6, <1>7, <1>8, <1>9, <1>10, <1>11, <1>12

(* Windows and cursors go: a cursor goes with its list, and is kept if a   *)
(* window shows it, unless a call has yet to count it.                     *)
LEMMA GoneKeeps ==
  ASSUME CountTypeOK, CountsHold, NEW gone, gone \subseteq Cursors \cup ResWindows,
         \A r \in gone : There(r),
         \A r \in gone \cap Cursors : IsListed(r) /\ ~Pending(r),
         UnMonitor(gone), list' = [d \in ResClients |-> list[d] \ gone],
         \A d \in ResClients : doing'[d] = doing[d] \/ doing'[d] = NotDoing,
         \A r : Pending(r) => Pending(r)',
         cursor' = cursor, background' = background, unwanted' = unwanted
  PROVE  /\ refcount' \in [Shared -> Nat]
         /\ structure' \in [Shared \cup ResWindows -> {"none", "there", "freed"}]
         /\ list' \in [ResClients -> SUBSET (Cursors \cup ResWindows)]
         /\ CountsHold'
<1>1. \A r \in gone \cap Cursors : refcount[r] >= 1
  BY DEF IsListed, CountsHold, ListsHold
<1>2. /\ refcount' \in [Shared -> Nat]
      /\ structure' \in [Shared \cup ResWindows -> {"none", "there", "freed"}]
      /\ \A r \in Cursors :
           /\ refcount'[r] = IF r \in gone THEN refcount[r] - 1 ELSE refcount[r]
           /\ structure'[r] = IF r \in gone /\ refcount[r] = 1 THEN "freed" ELSE structure[r]
      /\ \A w \in ResWindows : structure'[w] = IF w \in gone THEN "freed" ELSE structure[w]
      /\ \A p \in Pixmaps : structure'[p] = structure[p]
      /\ Living' = Living \ gone /\ IsFiniteSet(Living')
      /\ PixmapsCounted'
  BY <1>1, UnMonitorShape
<1>3. /\ \A r \in Cursors : r \notin gone =>
           refcount'[r] = refcount[r] /\ structure'[r] = structure[r]
      /\ \A w \in ResWindows : w \notin gone => structure'[w] = structure[w]
  BY <1>2
<1>4. /\ list' \in [ResClients -> SUBSET (Cursors \cup ResWindows)]
      /\ \A d \in ResClients : list'[d] \subseteq list[d] /\ list'[d] \cap gone = {}
                               /\ list[d] \subseteq Cursors \cup ResWindows
  BY DEF CountTypeOK
<1>5. ListsHold'
  <2>1. ASSUME NEW d \in ResClients, NEW r \in list'[d]
        PROVE  There(r)' /\ (r \in Cursors => refcount'[r] >= 1)
    <3>1. r \in list[d] /\ r \notin gone /\ r \in Cursors \cup ResWindows
      BY <1>4, <2>1
    <3>2. There(r) /\ (r \in Cursors => refcount[r] >= 1)
      BY <3>1 DEF CountsHold, ListsHold
    <3> QED BY <1>3, <3>1, <3>2 DEF There
  <2>2. ASSUME NEW d \in ResClients, NEW e \in ResClients, list'[d] \cap list'[e] # {}
        PROVE  d = e
    <3>1. list[d] \cap list[e] # {}
      BY <1>4, <2>2
    <3> QED BY <3>1 DEF CountsHold, ListsHold
  <2> QED BY <2>1, <2>2 DEF ListsHold
<1>6. \A w \in ResWindows : /\ structure[w] = "none" => structure'[w] = "none"
                            /\ structure[w] # "none" => structure'[w] # "none"
  BY <1>2 DEF There
<1>7. CallsHold'
  <2>1. NotDoing.pc = "idle"
    BY DEF NotDoing, Doing
  <2>2. \A d \in ResClients : doing'[d].pc # "idle" => doing'[d] = doing[d]
    BY <2>1
  <2>3. ASSUME NEW d \in ResClients, doing'[d].pc = "create"
        PROVE  doing'[d].w \in ResWindows /\ structure'[doing'[d].w] = "none"
    BY <1>6, <2>2, <2>3 DEF CountsHold, CallsHold
  <2>4. ASSUME NEW d \in ResClients, doing'[d].pc \in {"set", "monitor"}
        PROVE  /\ doing'[d].w \in ResWindows /\ structure'[doing'[d].w] # "none"
               /\ doing'[d].cur \in Cursors
    BY <1>6, <2>2, <2>4 DEF CountsHold, CallsHold
  <2>5. \A d, e \in ResClients :
          doing'[d].pc = "create" /\ doing'[e].pc = "create" /\ doing'[d].w = doing'[e].w => d = e
    BY <2>2 DEF CountsHold, CallsHold
  <2> QED BY <2>3, <2>4, <2>5 DEF CallsHold
<1>8. CursorsCounted'
  <2> SUFFICES ASSUME NEW v \in ResWindows, There(v)', cursor'[v] # None
               PROVE  /\ There(cursor[v])'
                      /\ IsListed(cursor[v])' => refcount'[cursor'[v]] >= 2 \/ Pending(cursor[v])'
    BY DEF CursorsCounted
  <2>1. PICK x : x = cursor[v]
    OBVIOUS
  <2>2. cursor'[v] = x /\ x \in Cursors /\ x \in Shared
    BY <2>1, Kinds DEF CountTypeOK
  <2>3. There(v)
    BY <1>2 DEF There
  <2>4. There(x) /\ (IsListed(x) => refcount[x] >= 2 \/ Pending(x))
    BY <2>1, <2>2, <2>3 DEF CountsHold, CursorsCounted
  <2>5. IsListed(x)' => IsListed(x) /\ x \notin gone
    BY <1>4 DEF IsListed
  <2>6. CASE x \in gone
    <3>1. refcount[x] >= 2 /\ refcount[x] \in Nat
      BY <2>2, <2>4, <2>6 DEF CountTypeOK
    <3>2. structure'[x] = structure[x]
      BY <1>2, <2>2, <3>1
    <3> QED BY <2>2, <2>4, <2>5, <2>6, <3>2 DEF There, IsListed
  <2>7. CASE x \notin gone
    <3>1. structure'[x] = structure[x] /\ refcount'[x] = refcount[x]
      BY <1>3, <2>2, <2>7
    <3>2. Pending(x) => Pending(x)'
      OBVIOUS
    <3> QED BY <2>2, <2>4, <2>5, <3>1, <3>2 DEF There, IsListed, Pending
  <2> QED BY <2>6, <2>7
<1>9. FreedOnRequest'
  BY <1>2 DEF CountsHold, FreedOnRequest
<1> QED BY <1>2, <1>4, <1>5, <1>7, <1>8, <1>9 DEF CountsHold

LEMMA UmDestroyWindowKeeps ==
  ASSUME CountTypeOK, CountsHold, NEW w \in ResWindows, UmDestroyWindow(w)
  PROVE  CountTypeOK' /\ CountsHold'
<1>1. /\ There(w) /\ UnMonitor({w})
      /\ list' = [d \in ResClients |-> list[d] \ {w}]
      /\ attached' = attached /\ cursor' = cursor /\ background' = background
      /\ doing' = doing /\ unwanted' = unwanted /\ torn' = torn
  BY DEF UmDestroyWindow
<1>2. {w} \cap Cursors = {}
  BY Kinds
<1>3. \A r : Pending(r) => Pending(r)'
  BY <1>1 DEF Pending
<1>4. \A d \in ResClients : doing'[d] = doing[d] \/ doing'[d] = NotDoing
  BY <1>1
<1>5. /\ refcount' \in [Shared -> Nat]
      /\ structure' \in [Shared \cup ResWindows -> {"none", "there", "freed"}]
      /\ list' \in [ResClients -> SUBSET (Cursors \cup ResWindows)]
      /\ CountsHold'
  BY <1>1, <1>2, <1>3, <1>4, GoneKeeps
<1> QED BY <1>1, <1>5 DEF CountTypeOK

LEMMA UmFreeResourcesKeeps ==
  ASSUME CountTypeOK, CountsHold, NEW c \in ResClients, UmFreeResources(c)
  PROVE  CountTypeOK' /\ (~torn' => CountsHold')
<1>1. /\ attached' = attached \ {c} /\ UnMonitor(list[c])
      /\ list' = [list EXCEPT ![c] = {}]
      /\ doing' = [doing EXCEPT ![c] = NotDoing]
      /\ torn' = \E d \in ResClients : /\ doing[d].pc = "monitor"
                                       /\ d = c \/ doing[d].cur \in list[c]
      /\ cursor' = cursor /\ background' = background /\ unwanted' = unwanted
  BY DEF UmFreeResources
<1>2. PICK gone : gone = list[c]
  OBVIOUS
<1>3. gone \subseteq Cursors \cup ResWindows /\ \A r \in gone : There(r)
  BY <1>2 DEF CountTypeOK, CountsHold, ListsHold
<1>4. \A r \in gone \cap Cursors : IsListed(r) /\ refcount[r] >= 1
  BY <1>2 DEF IsListed, CountsHold, ListsHold
<1>5. /\ refcount' \in [Shared -> Nat]
      /\ structure' \in [Shared \cup ResWindows -> {"none", "there", "freed"}]
  BY <1>1, <1>2, <1>3, <1>4, UnMonitorShape
<1>6. CountTypeOK'
  <2>1. NotDoing \in [pc : {"idle", "create", "set", "monitor"},
                      w : ResWindows \cup {None}, cur : Cursors \cup {None},
                      bg : Pixmaps \cup {None}]
    BY DEF NotDoing, Doing
  <2>2. torn' \in BOOLEAN
    BY <1>1
  <2>3. /\ list' \in [ResClients -> SUBSET (Cursors \cup ResWindows)]
        /\ attached' \subseteq ResClients
    BY <1>1 DEF CountTypeOK
  <2> QED BY <1>1, <1>5, <2>1, <2>2, <2>3 DEF CountTypeOK
<1> SUFFICES ASSUME ~torn' PROVE CountsHold'
  BY <1>6
<1>7. list' = [d \in ResClients |-> list[d] \ gone]
  <2>1. \A d \in ResClients : list'[d] = list[d] \ gone
    <3> SUFFICES ASSUME NEW d \in ResClients PROVE list'[d] = list[d] \ gone
      OBVIOUS
    <3>1. CASE d = c
      BY <1>1, <1>2, <3>1 DEF CountTypeOK
    <3>2. CASE d # c
      <4>1. list[d] \cap gone = {}
        BY <1>2, <3>2 DEF CountsHold, ListsHold
      <4> QED BY <1>1, <3>2, <4>1 DEF CountTypeOK
    <3> QED BY <3>1, <3>2
  <2>2. list' = [d \in ResClients |-> list'[d]]
    BY <1>1 DEF CountTypeOK
  <2> QED BY <2>1, <2>2
<1>8. doing[c].pc # "monitor" /\ \A r \in gone : ~Pending(r)
  BY <1>1, <1>2 DEF Pending
<1>9. \A r : Pending(r) => Pending(r)'
  BY <1>1, <1>8 DEF Pending, CountTypeOK
<1>10. \A d \in ResClients : doing'[d] = doing[d] \/ doing'[d] = NotDoing
  BY <1>1 DEF CountTypeOK
<1> QED BY <1>1, <1>2, <1>3, <1>4, <1>7, <1>8, <1>9, <1>10, GoneKeeps
-----------------------------------------------------------------------------
LEMMA CountStep == CountInv /\ [CountNext]_countVars => CountInv'
<1> SUFFICES ASSUME CountInv, [CountNext]_countVars PROVE CountInv'
  OBVIOUS
<1>1. CASE UNCHANGED countVars
  <2>1. CountTypeOK'
    BY <1>1 DEF countVars, CountInv, CountTypeOK
  <2>2. Living' = Living /\ \A p \in Pixmaps : (Users(p))' = Users(p)
    BY <1>1 DEF countVars, Living, Users, There
  <2>3. \A r : (IsListed(r)' <=> IsListed(r)) /\ (Pending(r)' <=> Pending(r))
    BY <1>1 DEF countVars, IsListed, Pending
  <2>4. ASSUME CountsHold PROVE CountsHold'
    <3>1. CallsHold'
      BY <1>1, <2>4 DEF countVars, CountsHold, CallsHold
    <3>2. \A r \in Cursors : Pending(r) => Pending(r)'
      BY <2>3
    <3>3. UNCHANGED <<list, refcount, structure, cursor, background, unwanted>>
      BY <1>1 DEF countVars
    <3> QED BY <2>4, <3>1, <3>2, <3>3, OnlyCalls DEF CountInv
  <2> QED BY <1>1, <2>1, <2>4 DEF countVars, CountInv
<1>2. CASE CountNext
  <2>1. CountTypeOK /\ CountsHold /\ ~torn
    BY <1>2 DEF CountNext, CountInv
  <2>2. ASSUME NEW c \in ResClients, NEW r \in Cursors, CreateCursor(c, r) PROVE CountInv'
    BY <2>1, <2>2, CreateCursorKeeps DEF CountInv
  <2>3. ASSUME NEW c \in ResClients, NEW p \in Pixmaps, CreatePixmap(c, p) PROVE CountInv'
    BY <2>1, <2>3, CreatePixmapKeeps DEF CountInv
  <2>4. ASSUME NEW c \in ResClients, NEW p \in Pixmaps, FreePixmap(c, p) PROVE CountInv'
    BY <2>1, <2>4, FreePixmapKeeps DEF CountInv
  <2>5. ASSUME NEW c \in ResClients, NEW w \in ResWindows, NEW cur \in Cursors \cup {None},
               NEW bg \in Pixmaps \cup {None}, FillWindow(c, w, cur, bg)
        PROVE  CountInv'
    BY <2>1, <2>5, FillWindowKeeps DEF CountInv
  <2>6. ASSUME NEW c \in ResClients, NEW w \in ResWindows, NEW r \in Cursors,
               DefineCursor(c, w, r)
        PROVE  CountInv'
    BY <2>1, <2>6, DefineCursorKeeps DEF CountInv
  <2>7. ASSUME NEW c \in ResClients, UmCreateWindow(c) PROVE CountInv'
    BY <2>1, <2>7, UmCreateWindowKeeps DEF CountInv
  <2>8. ASSUME NEW c \in ResClients, SetCursor(c) PROVE CountInv'
    BY <2>1, <2>8, SetCursorKeeps DEF CountInv
  <2>9. ASSUME NEW c \in ResClients, MonitorResource(c) PROVE CountInv'
    BY <2>1, <2>9, MonitorResourceKeeps DEF CountInv
  <2>10. ASSUME NEW c \in ResClients, UmFreeResources(c) PROVE CountInv'
    BY <2>1, <2>10, UmFreeResourcesKeeps DEF CountInv
  <2>11. ASSUME NEW w \in ResWindows, UmDestroyWindow(w) PROVE CountInv'
    BY <2>1, <2>11, UmDestroyWindowKeeps DEF CountInv
  <2> QED BY <1>2, <2>2, <2>3, <2>4, <2>5, <2>6, <2>7, <2>8, <2>9, <2>10, <2>11
          DEF CountNext
<1> QED BY <1>1, <1>2

LEMMA CountInvariant == CountSpec => []CountInv
<1>1. CountInit => CountInv
  BY CountInitial
<1>2. CountInv /\ [CountNext]_countVars => CountInv'
  BY CountStep
<1> QED BY <1>1, <1>2, PTL DEF CountSpec

(* The types, of which one is no matter of course: no count is taken below *)
(* zero.                                                                   *)
THEOREM CountTypeCorrect == CountSpec => []CountTypeOK
<1>1. CountInv => CountTypeOK
  BY DEF CountInv
<1> QED BY <1>1, CountInvariant, PTL

(* What a window shows and what a list holds has its structure, and no     *)
(* pixmap is freed but by XFreePixmap, whoever leaves and whatever windows *)
(* are destroyed.                                                          *)
THEOREM UsedIsThereHolds == CountSpec => []UsedIsThere
<1>1. CountInv => UsedIsThere
  <2> SUFFICES ASSUME CountInv, ~torn PROVE UsedIsThere
    BY DEF UsedIsThere
  <2>1. \A w \in ResWindows : There(w) /\ cursor[w] # None => There(cursor[w])
    BY DEF CountInv, CountsHold, CursorsCounted
  <2>2. \A c \in attached : \A r \in list[c] : There(r)
    BY DEF CountInv, CountTypeOK, CountsHold, ListsHold
  <2> QED BY <2>1, <2>2 DEF CountInv, CountsHold, FreedOnRequest, UsedIsThere
<1> QED BY <1>1, CountInvariant, PTL
-----------------------------------------------------------------------------
(***************************************************************************)
(* Contexts are found, for any keys, hashes and data, any size that the    *)
(* table begins with, and any number of threads.  The table holds exactly  *)
(* the entries that are saved, each in the bucket that the mask gives it;  *)
(* a thread that is about to link an entry has found none of its key, and  *)
(* nobody has saved one since, or he would have used the bucket.           *)
(***************************************************************************)
EntryType == [key : Keys, data : Data]
Counting == {t \in Threads : saving[t].pc = "count"}
Entry(k, d) == [key |-> k, data |-> d]
SavedEntries(s) == {Entry(k, s[k]) : k \in {j \in Keys : s[j] # Unsaved}}
Placed(t, m) ==
  /\ m \in Nat /\ t \in [0 .. m -> SUBSET EntryType]
  /\ \A b \in 0 .. m : \A e \in t[b] : Hash(e.key, m) = b
SavingHolds ==
  \A t \in Threads : saving[t].pc # "idle" =>
    /\ saving[t].key \in Keys /\ saving[t].data \in Data
    /\ saving[t].pc = "link" => saved[saving[t].key] = Unsaved
PlaceType == [pc : {"idle", "make", "lock", "walk", "link", "count"},
              key : Keys \cup {Unsaved}, data : Data \cup {Unsaved}]
SaveTypes ==
  /\ saving \in [Threads -> PlaceType]
  /\ saved \in [Keys -> Data \cup {Unsaved}]
  /\ numentries \in Int
Sized == IsFiniteSet(AllEntries(table)) /\ IsFiniteSet(Counting) /\ CountIsRight
Unraced == /\ SaveTypes /\ Placed(table, mask) /\ AllEntries(table) = SavedEntries(saved)
           /\ SavingHolds /\ Sized
ContextInv == ~raced => Unraced

(* The hash of a key is a bucket.                                          *)
LEMMA HashIsBucket ==
  ASSUME NEW k \in Keys, NEW m \in Nat
  PROVE  Hash(k, m) \in 0 .. m
<1>1. KeyHash[k] \in Nat /\ m + 1 \in Nat /\ m + 1 > 0
  BY ContextAssumption
<1> QED BY <1>1 DEF Hash

(* Buckets is what its recursion says: each doubling goes nearer to n.     *)
Doubling(f, n) == f = [k \in Nat |-> IF k + k < n THEN f[k + k] ELSE k]

LEMMA BucketsDouble ==
  ASSUME NEW n \in Int
  PROVE  \E f : Doubling(f, n) /\ Buckets(n) = f[InitHashMask + 1]
<1>1. PICK top \in Nat : n <= top
  <2>1. CASE n <= 0
    BY <2>1
  <2>2. CASE ~(n <= 0)
    BY <2>2
  <2> QED BY <2>1, <2>2
<1>2. \E f : f = [k \in Nat |-> IF k + k < n THEN f[k + k] ELSE k]
  <2> DEFINE stop == {k \in Nat : ~(k + k < n) \/ k = 0}
             base == [k \in Nat |-> k]
             next == [k \in Nat |-> k + k]
             step == [p \in Nat \X Nat |-> p[2]]
             rank == [k \in Nat |-> IF k < top THEN top - k ELSE 0]
  <2>1. base \in [Nat -> Nat] /\ next \in [Nat -> Nat] /\ rank \in [Nat -> 0 .. top]
    OBVIOUS
  <2>2. step \in [Nat \X Nat -> Nat]
    OBVIOUS
  <2>3. \A k \in Nat \ stop : rank[next[k]] < rank[k]
    BY <1>1
  <2> HIDE DEF base, next, step, stop, rank
  <2>4. PICK f \in [Nat -> Nat] : Recurs(f, Nat, stop, base, next, step)
    BY <2>1, <2>2, <2>3, RecursiveFunction
  <2>5. ASSUME NEW k \in Nat PROVE f[k] = IF k + k < n THEN f[k + k] ELSE k
    <3>1. f[k] = IF k \in stop THEN base[k] ELSE step[<<k, f[next[k]]>>]
      BY <2>4 DEF Recurs
    <3>2. next[k] = k + k /\ base[k] = k /\ <<k, f[k + k]>> \in Nat \X Nat
      BY <2>4 DEF next, base
    <3>3. step[<<k, f[next[k]]>>] = f[k + k]
      BY <3>2 DEF step
    <3>4. CASE k = 0 /\ ~(k + k < n)
      BY <3>1, <3>2, <3>4 DEF stop
    <3>5. CASE k = 0 /\ k + k < n
      <4>1. 0 + 0 = 0
        OBVIOUS
      <4> QED BY <3>5, <4>1
    <3>6. CASE k # 0
      BY <3>1, <3>2, <3>3, <3>6 DEF stop
    <3> QED BY <3>4, <3>5, <3>6
  <2>6. f = [k \in Nat |-> f[k]]
    OBVIOUS
  <2> QED BY <2>5, <2>6
<1>3. PICK f : f = CHOOSE g : g = [k \in Nat |-> IF k + k < n THEN g[k + k] ELSE k]
  OBVIOUS
<1>4. Doubling(f, n)
  BY <1>2, <1>3 DEF Doubling
<1>5. Buckets(n) = f[InitHashMask + 1]
  BY <1>3 DEF Buckets
<1> QED BY <1>4, <1>5

(* The number of buckets is positive, however often it is doubled.         *)
LEMMA BucketsArePositive ==
  ASSUME NEW n \in Int
  PROVE  Buckets(n) \in Nat \ {0}
<1>1. PICK top \in Nat : n <= top
  <2>1. CASE n <= 0
    BY <2>1
  <2>2. CASE ~(n <= 0)
    BY <2>2
  <2> QED BY <2>1, <2>2
<1>2. PICK f : Doubling(f, n) /\ Buckets(n) = f[InitHashMask + 1]
  BY BucketsDouble
<1>3. f = [k \in Nat |-> IF k + k < n THEN f[k + k] ELSE k]
  BY <1>2 DEF Doubling
<1> DEFINE S == {k \in 0 .. top : k # 0 => f[k] \in Nat \ {0}}
<1>4. ASSUME NEW k \in 0 .. top, \A i \in (k + 1) .. top : i \in S PROVE k \in S
  <2>1. f[k] = IF k + k < n THEN f[k + k] ELSE k
    BY <1>3
  <2>2. CASE k # 0 /\ k + k < n
    <3>1. k + k \in (k + 1) .. top /\ k + k # 0
      BY <1>1, <2>2
    <3> QED BY <1>4, <2>1, <2>2, <3>1
  <2> QED BY <2>1, <2>2
<1> HIDE DEF S
<1>5. 0 .. top \subseteq S
  BY <1>4, BackFromEnd
<1>6. ASSUME NEW k \in Nat \ {0} PROVE f[k] \in Nat \ {0}
  <2>1. CASE k \in 0 .. top
    BY <1>5, <2>1 DEF S
  <2>2. CASE k \notin 0 .. top
    BY <1>1, <1>3, <2>2
  <2> QED BY <2>1, <2>2
<1> QED BY <1>2, <1>6, ContextAssumption

(* A few entries do with the buckets of the beginning.                     *)
LEMMA BucketsOfFew ==
  ASSUME NEW n \in Int, n <= 2 * (InitHashMask + 1)
  PROVE  Buckets(n) = InitHashMask + 1
<1>1. PICK f : Doubling(f, n) /\ Buckets(n) = f[InitHashMask + 1]
  BY BucketsDouble
<1>2. InitHashMask + 1 \in Nat /\ ~(InitHashMask + 1 + (InitHashMask + 1) < n)
  BY ContextAssumption
<1> QED BY <1>1, <1>2 DEF Doubling

(* An entry of the table is in the bucket of its key.                      *)
LEMMA EntriesPlaced ==
  ASSUME NEW t, NEW m, Placed(t, m)
  PROVE  /\ AllEntries(t) \subseteq EntryType
         /\ \A e \in AllEntries(t) : Hash(e.key, m) \in 0 .. m /\ e \in t[Hash(e.key, m)]
<1>1. DOMAIN t = 0 .. m /\ AllEntries(t) = UNION {t[b] : b \in 0 .. m}
  BY DEF Placed, AllEntries
<1>2. ASSUME NEW e \in AllEntries(t)
      PROVE  e \in EntryType /\ Hash(e.key, m) \in 0 .. m /\ e \in t[Hash(e.key, m)]
  <2>1. PICK b \in 0 .. m : e \in t[b]
    BY <1>1
  <2> QED BY <2>1 DEF Placed
<1> QED BY <1>2

(* Rehash keeps the entries and puts each where the new mask wants it.     *)
LEMMA RehashKeeps ==
  ASSUME NEW t, AllEntries(t) \subseteq EntryType, NEW m \in Nat
  PROVE  Placed(Rehash(t, m), m) /\ AllEntries(Rehash(t, m)) = AllEntries(t)
<1>1. PICK r : r = Rehash(t, m)
  OBVIOUS
<1>2. r = [b \in 0 .. m |-> {e \in AllEntries(t) : Hash(e.key, m) = b}]
  BY <1>1 DEF Rehash
<1>3. Placed(r, m)
  BY <1>2 DEF Placed
<1>4. AllEntries(r) = UNION {r[b] : b \in 0 .. m}
  BY <1>2 DEF AllEntries
<1>5. ASSUME NEW e \in AllEntries(t) PROVE e \in AllEntries(r)
  <2>1. e.key \in Keys
    BY DEF EntryType
  <2>2. Hash(e.key, m) \in 0 .. m
    BY <2>1, HashIsBucket
  <2>3. e \in r[Hash(e.key, m)]
    BY <1>2, <2>2
  <2> QED BY <1>4, <2>2, <2>3
<1>6. AllEntries(r) \subseteq AllEntries(t)
  BY <1>2, <1>4
<1> QED BY <1>1, <1>3, <1>5, <1>6

(* ResizeTable keeps the entries, with the new mask or the old.            *)
LEMMA ResizeKeeps ==
  ASSUME NEW t, Placed(t, mask), NEW n \in Int, NEW condition \in BOOLEAN,
         ResizeTable(t, n, condition)
  PROVE  Placed(table', mask') /\ AllEntries(table') = AllEntries(t)
<1>1. CASE condition
  <2>1. PICK m : m = Buckets(n) - 1
    OBVIOUS
  <2>2. m \in Nat
    BY <2>1, BucketsArePositive
  <2>3. mask' = m /\ table' = Rehash(t, m)
    BY <1>1, <2>1 DEF ResizeTable
  <2>4. Placed(Rehash(t, m), m) /\ AllEntries(Rehash(t, m)) = AllEntries(t)
    BY <2>2, EntriesPlaced, RehashKeeps
  <2> QED BY <2>3, <2>4
<1>2. CASE ~condition
  <2>1. mask' = mask /\ table' = t
    BY <1>2 DEF ResizeTable
  <2> QED BY <2>1
<1> QED BY <1>1, <1>2

(* What is found in the bucket of a key is what is saved for it.           *)
LEMMA HoldingIsSaved ==
  ASSUME Placed(table, mask), AllEntries(table) = SavedEntries(saved), NEW k \in Keys
  PROVE  Holding(k, table, mask) = IF saved[k] = Unsaved THEN {} ELSE {Entry(k, saved[k])}
<1>1. ASSUME NEW e PROVE e \in Holding(k, table, mask) <=> e \in SavedEntries(saved) /\ e.key = k
  <2>1. ASSUME e \in Holding(k, table, mask) PROVE e \in SavedEntries(saved) /\ e.key = k
    <3>1. e \in table[Hash(k, mask)] /\ e.key = k /\ Hash(k, mask) \in DOMAIN table
      BY <2>1, HashIsBucket DEF Holding, Placed
    <3> QED BY <3>1 DEF AllEntries
  <2>2. ASSUME e \in SavedEntries(saved), e.key = k PROVE e \in Holding(k, table, mask)
    BY <2>2, EntriesPlaced DEF Holding
  <2> QED BY <2>1, <2>2
<1>2. ASSUME NEW e
      PROVE  e \in SavedEntries(saved) /\ e.key = k <=> saved[k] # Unsaved /\ e = Entry(k, saved[k])
  BY DEF SavedEntries, Entry
<1> QED BY <1>1, <1>2

(* What is saved for a key is one entry at most.                           *)
SavedFor(k, d) == IF d = Unsaved THEN {} ELSE {Entry(k, d)}
OfOthers(k, entries) == {e \in entries : e.key # k}
Bucketed(t, m, k, d) == [t EXCEPT ![Hash(k, m)] = (@ \ Holding(k, t, m)) \cup SavedFor(k, d)]
SavedWith(s, k, d) == [s EXCEPT ![k] = d]

(* A change of the bucket of a key changes nothing for other keys.         *)
LEMMA BucketChange ==
  ASSUME NEW t, NEW m, Placed(t, m), NEW k \in Keys, NEW d \in Data \cup {Unsaved},
         NEW t2, t2 = Bucketed(t, m, k, d)
  PROVE  Placed(t2, m) /\ AllEntries(t2) = OfOthers(k, AllEntries(t)) \cup SavedFor(k, d)
<1>1. Hash(k, m) \in 0 .. m /\ m \in Nat
  BY HashIsBucket DEF Placed
<1>2. SavedFor(k, d) \subseteq EntryType /\ \A e \in SavedFor(k, d) : e.key = k
  BY DEF SavedFor, Entry, EntryType
<1>3. DOMAIN t = 0 .. m /\ DOMAIN t2 = 0 .. m /\ t \in [0 .. m -> SUBSET EntryType]
  BY DEF Placed, Bucketed
<1>4. ASSUME NEW b \in 0 .. m
      PROVE  /\ b = Hash(k, m) => t2[b] = OfOthers(k, t[b]) \cup SavedFor(k, d)
             /\ b # Hash(k, m) => t2[b] = t[b]
  BY <1>1, <1>3 DEF Holding, OfOthers, Bucketed
<1>5. ASSUME NEW b \in 0 .. m, NEW e \in t2[b] PROVE e \in EntryType /\ Hash(e.key, m) = b
  <2>1. CASE e \in t[b]
    BY <2>1 DEF Placed
  <2>2. CASE e \notin t[b]
    <3>1. b = Hash(k, m) /\ e \in SavedFor(k, d)
      BY <1>4, <1>5, <2>2 DEF OfOthers
    <3> QED BY <1>2, <3>1
  <2> QED BY <2>1, <2>2
<1>6. Placed(t2, m)
  <2>1. t2 = [b \in 0 .. m |-> t2[b]]
    BY <1>1, <1>3 DEF Bucketed
  <2>2. \A b \in 0 .. m : t2[b] \subseteq EntryType
    BY <1>5
  <2>3. t2 \in [0 .. m -> SUBSET EntryType]
    BY <2>1, <2>2
  <2> QED BY <1>1, <1>5, <2>3 DEF Placed
<1>7. ASSUME NEW e \in AllEntries(t2) PROVE e \in OfOthers(k, AllEntries(t)) \cup SavedFor(k, d)
  <2>1. PICK b \in 0 .. m : e \in t2[b]
    BY <1>3 DEF AllEntries
  <2>2. CASE e \in SavedFor(k, d)
    BY <2>2
  <2>3. CASE e \notin SavedFor(k, d)
    <3>1. e \in t[b]
      BY <1>4, <2>1, <2>3 DEF OfOthers
    <3>2. e.key # k
      <4>1. CASE b = Hash(k, m)
        BY <1>4, <2>1, <2>3, <4>1 DEF OfOthers
      <4>2. CASE b # Hash(k, m)
        BY <3>1, <4>2 DEF Placed
      <4> QED BY <4>1, <4>2
    <3>3. e \in AllEntries(t)
      BY <1>3, <3>1 DEF AllEntries
    <3> QED BY <3>2, <3>3 DEF OfOthers
  <2> QED BY <2>2, <2>3
<1>8. ASSUME NEW e \in OfOthers(k, AllEntries(t)) \cup SavedFor(k, d) PROVE e \in AllEntries(t2)
  <2>1. \E b \in 0 .. m : e \in t2[b]
    <3>1. CASE e \in SavedFor(k, d)
      <4>1. e \in t2[Hash(k, m)]
        BY <1>1, <1>4, <3>1
      <4> QED BY <1>1, <4>1
    <3>2. CASE e \in OfOthers(k, AllEntries(t))
      <4>1. PICK b \in 0 .. m : e \in t[b]
        BY <1>3, <3>2 DEF OfOthers, AllEntries
      <4>2. e \in t2[b]
        BY <1>4, <3>2, <4>1 DEF OfOthers
      <4> QED BY <4>2
    <3> QED BY <1>8, <3>1, <3>2
  <2> QED BY <1>3, <2>1 DEF AllEntries
<1> QED BY <1>6, <1>7, <1>8

(* Saving for one key changes the entries and their number so.             *)
LEMMA SavingChange ==
  ASSUME NEW s, s \in [Keys -> Data \cup {Unsaved}], NEW k \in Keys, NEW d \in Data \cup {Unsaved},
         NEW s2, s2 = SavedWith(s, k, d)
  PROVE  /\ SavedEntries(s2) = OfOthers(k, SavedEntries(s)) \cup SavedFor(k, d)
         /\ SavedEntries(s) = OfOthers(k, SavedEntries(s)) \cup SavedFor(k, s[k])
<1>1. ASSUME NEW e
      PROVE  /\ e \in SavedEntries(s2) <=> \E j \in Keys : s2[j] # Unsaved /\ e = Entry(j, s2[j])
             /\ e \in SavedEntries(s) <=> \E j \in Keys : s[j] # Unsaved /\ e = Entry(j, s[j])
  BY DEF SavedEntries
<1>2. \A j \in Keys : s2[j] = IF j = k THEN d ELSE s[j]
  BY DEF SavedWith
<1>3. \A j, x : Entry(j, x).key = j
  BY DEF Entry
<1>4. ASSUME NEW e
      PROVE  /\ e \in SavedEntries(s2) <=> e \in OfOthers(k, SavedEntries(s)) \cup SavedFor(k, d)
             /\ e \in SavedEntries(s) <=> e \in OfOthers(k, SavedEntries(s)) \cup SavedFor(k, s[k])
  <2>1. e \in SavedEntries(s) <=> e \in OfOthers(k, SavedEntries(s)) \cup SavedFor(k, s[k])
    BY <1>1, <1>3 DEF OfOthers, SavedFor
  <2>2. ASSUME e \in SavedEntries(s2) PROVE e \in OfOthers(k, SavedEntries(s)) \cup SavedFor(k, d)
    <3>1. PICK j \in Keys : s2[j] # Unsaved /\ e = Entry(j, s2[j])
      BY <1>1, <2>2
    <3>2. CASE j = k
      BY <1>2, <3>1, <3>2 DEF SavedFor
    <3>3. CASE j # k
      <4>1. s[j] # Unsaved /\ e = Entry(j, s[j])
        BY <1>2, <3>1, <3>3
      <4>2. e \in SavedEntries(s) /\ e.key # k
        BY <1>1, <1>3, <3>3, <4>1
      <4> QED BY <4>2 DEF OfOthers
    <3> QED BY <3>2, <3>3
  <2>3. ASSUME e \in OfOthers(k, SavedEntries(s)) \cup SavedFor(k, d) PROVE e \in SavedEntries(s2)
    <3>1. CASE e \in SavedFor(k, d)
      BY <1>1, <1>2, <3>1 DEF SavedFor
    <3>2. CASE e \in OfOthers(k, SavedEntries(s))
      <4>1. PICK j \in Keys : s[j] # Unsaved /\ e = Entry(j, s[j])
        BY <1>1, <3>2 DEF OfOthers
      <4>2. j # k
        BY <1>3, <3>2, <4>1 DEF OfOthers
      <4>3. s2[j] # Unsaved /\ e = Entry(j, s2[j])
        BY <1>2, <4>1, <4>2
      <4> QED BY <1>1, <4>3
    <3> QED BY <2>3, <3>1, <3>2
  <2> QED BY <2>1, <2>2, <2>3
<1> QED BY <1>4

One(d) == IF d = Unsaved THEN 0 ELSE 1

(* How many entries there are before and after.                            *)
LEMMA SavingCount ==
  ASSUME NEW s, s \in [Keys -> Data \cup {Unsaved}], NEW k \in Keys, NEW d \in Data \cup {Unsaved},
         NEW s2, s2 = SavedWith(s, k, d), IsFiniteSet(SavedEntries(s))
  PROVE  /\ IsFiniteSet(SavedEntries(s2))
         /\ Cardinality(SavedEntries(s)) \in Nat /\ Cardinality(SavedEntries(s2)) \in Nat
         /\ Cardinality(SavedEntries(s2)) + One(s[k]) = Cardinality(SavedEntries(s)) + One(d)
<1> DEFINE rest == OfOthers(k, SavedEntries(s))
<1>1. IsFiniteSet(rest)
  <2>1. rest \subseteq SavedEntries(s)
    BY DEF OfOthers
  <2> QED BY <2>1, FS_Subset
<1>2. SavedEntries(s2) = rest \cup SavedFor(k, d) /\ SavedEntries(s) = rest \cup SavedFor(k, s[k])
  BY SavingChange
<1>3. \A x : Entry(k, x) \notin rest
  BY DEF OfOthers, Entry
<1> HIDE DEF rest
<1>4. Cardinality(rest) \in Nat
  BY <1>1, FS_CardinalityType
<1>5. ASSUME NEW x
      PROVE  /\ IsFiniteSet(rest \cup SavedFor(k, x))
             /\ Cardinality(rest \cup SavedFor(k, x)) = Cardinality(rest) + One(x)
  <2>1. CASE x = Unsaved
    <3>1. SavedFor(k, x) = {} /\ One(x) = 0
      BY <2>1 DEF SavedFor, One
    <3>2. rest \cup SavedFor(k, x) = rest
      BY <3>1
    <3>3. Cardinality(rest) = Cardinality(rest) + One(x)
      BY <1>4, <3>1
    <3> QED BY <1>1, <3>2, <3>3
  <2>2. CASE x # Unsaved
    <3>1. PICK e : e = Entry(k, x)
      OBVIOUS
    <3>2. rest \cup SavedFor(k, x) = rest \cup {e} /\ One(x) = 1 /\ e \notin rest
      BY <1>3, <2>2, <3>1 DEF SavedFor, One
    <3>3. IsFiniteSet(rest \cup {e}) /\ Cardinality(rest \cup {e}) = Cardinality(rest) + 1
      BY <1>1, <3>2, FS_AddElement
    <3> QED BY <3>2, <3>3
  <2> QED BY <2>1, <2>2
<1>6. One(d) \in Nat /\ One(s[k]) \in Nat
  BY DEF One
<1>7. s[k] \in Data \cup {Unsaved}
  OBVIOUS
<1>8. /\ Cardinality(SavedEntries(s2)) = Cardinality(rest) + One(d)
      /\ Cardinality(SavedEntries(s)) = Cardinality(rest) + One(s[k])
  BY <1>2, <1>5
<1>9. IsFiniteSet(SavedEntries(s2))
  BY <1>2, <1>5
<1> QED BY <1>4, <1>6, <1>8, <1>9

(* The threads that are about to count.                                    *)
LEMMA CountingChange ==
  ASSUME saving \in [Threads -> PlaceType], IsFiniteSet(Counting), NEW t \in Threads, NEW r,
         saving' = [saving EXCEPT ![t] = r]
  PROVE  /\ Cardinality(Counting) \in Nat /\ IsFiniteSet(Counting')
         /\ saving[t].pc # "count" /\ r.pc # "count" =>
              Cardinality(Counting') = Cardinality(Counting)
         /\ saving[t].pc # "count" /\ r.pc = "count" =>
              Cardinality(Counting') = Cardinality(Counting) + 1
         /\ saving[t].pc = "count" /\ r.pc # "count" =>
              Cardinality(Counting') = Cardinality(Counting) - 1
<1>1. PICK after : after = Counting'
  OBVIOUS
<1>2. Cardinality(Counting) \in Nat
  BY FS_CardinalityType
<1>3. ASSUME NEW u
      PROVE  u \in after <=> u \in Threads /\ (IF u = t THEN r.pc ELSE saving[u].pc) = "count"
  <2>1. after = {v \in Threads : saving'[v].pc = "count"}
    BY <1>1 DEF Counting
  <2> QED BY <2>1
<1>4. \A u : u \in Counting <=> u \in Threads /\ saving[u].pc = "count"
  BY DEF Counting
<1>5. CASE saving[t].pc # "count" /\ r.pc # "count"
  <2>1. after = Counting
    BY <1>3, <1>4, <1>5
  <2> QED BY <1>1, <1>2, <1>5, <2>1
<1>6. CASE saving[t].pc # "count" /\ r.pc = "count"
  <2>1. after = Counting \cup {t} /\ t \notin Counting
    BY <1>3, <1>4, <1>6
  <2>2. IsFiniteSet(after) /\ Cardinality(after) = Cardinality(Counting) + 1
    BY <2>1, FS_AddElement
  <2> QED BY <1>1, <1>2, <1>6, <2>2
<1>7. CASE saving[t].pc = "count" /\ r.pc # "count"
  <2>1. after = Counting \ {t} /\ t \in Counting
    BY <1>3, <1>4, <1>7
  <2>2. IsFiniteSet(after) /\ Cardinality(after) = Cardinality(Counting) - 1
    BY <2>1, FS_RemoveElement
  <2> QED BY <1>1, <1>2, <1>7, <2>2
<1>8. CASE saving[t].pc = "count" /\ r.pc = "count"
  <2>1. after = Counting
    BY <1>3, <1>4, <1>8
  <2> QED BY <1>1, <1>2, <1>8, <2>1
<1> QED BY <1>5, <1>6, <1>7, <1>8

(* A place in XSaveContext that fits what is saved.                        *)
PlaceFits(r, s) ==
  /\ r \in PlaceType
  /\ r.pc # "idle" => r.key \in Keys /\ r.data \in Data /\ (r.pc = "link" => s[r.key] = Unsaved)
MovedTo(t, place) == [pc |-> place, key |-> saving[t].key, data |-> saving[t].data]

(* A step to a place leaves the key and the data.                          *)
LEMMA AtPlace ==
  ASSUME saving \in [Threads -> PlaceType], NEW t \in Threads, NEW place, At(t, place)
  PROVE  saving' = [saving EXCEPT ![t] = MovedTo(t, place)]
<1>1. saving[t] \in PlaceType
  OBVIOUS
<1>2. [saving[t] EXCEPT !.pc = place] = MovedTo(t, place)
  BY <1>1 DEF PlaceType, MovedTo
<1> QED BY <1>2 DEF At

(* A thread goes on, and what the others found missing still is.           *)
LEMMA PlacesFit ==
  ASSUME SaveTypes, SavingHolds, NEW t \in Threads, NEW r, saving' = [saving EXCEPT ![t] = r],
         PlaceFits(r, saved'),
         \A u \in Threads \ {t} : saving[u].pc = "link" => saved'[saving[u].key] = Unsaved
  PROVE  saving' \in [Threads -> PlaceType] /\ SavingHolds'
<1>1. saving \in [Threads -> PlaceType] /\ r \in PlaceType
  BY DEF SaveTypes, PlaceFits
<1>2. \A u \in Threads : saving'[u] = IF u = t THEN r ELSE saving[u]
  BY <1>1
<1>3. saving' \in [Threads -> PlaceType]
  BY <1>1
<1>4. ASSUME NEW u \in Threads, saving'[u].pc # "idle"
      PROVE  /\ saving'[u].key \in Keys /\ saving'[u].data \in Data
             /\ saving'[u].pc = "link" => saved'[saving'[u].key] = Unsaved
  <2>1. CASE u = t
    <3>1. saving'[u] = r
      BY <1>2, <2>1
    <3> QED BY <1>4, <3>1 DEF PlaceFits
  <2>2. CASE u # t
    <3>1. saving'[u] = saving[u]
      BY <1>2, <2>2
    <3> QED BY <1>4, <2>2, <3>1 DEF SavingHolds
  <2> QED BY <2>1, <2>2
<1> QED BY <1>3, <1>4 DEF SavingHolds

(* A step of one thread that leaves the table as it is.                    *)
LEMMA ThreadStep ==
  ASSUME Unraced, NEW t \in Threads, NEW r, saving' = [saving EXCEPT ![t] = r], PlaceFits(r, saved),
         saving[t].pc # "count", r.pc # "count", UNCHANGED <<mask, table, numentries, saved>>
  PROVE  Unraced'
<1>1. SaveTypes /\ SavingHolds /\ saving \in [Threads -> PlaceType]
  BY DEF Unraced, SaveTypes
<1>2. saving' \in [Threads -> PlaceType] /\ SavingHolds'
  <2>1. \A u \in Threads \ {t} : saving[u].pc = "link" => saved'[saving[u].key] = Unsaved
    BY <1>1 DEF SavingHolds
  <2>2. PlaceFits(r, saved')
    OBVIOUS
  <2> QED BY <1>1, <2>1, <2>2, PlacesFit
<1>3. SaveTypes'
  BY <1>1, <1>2 DEF SaveTypes
<1>4. Sized /\ Placed(table, mask) /\ AllEntries(table) = SavedEntries(saved)
  BY DEF Unraced
<1>5. IsFiniteSet(Counting') /\ Cardinality(Counting') = Cardinality(Counting)
  BY <1>1, <1>4, CountingChange DEF Sized
<1>6. numentries' = numentries /\ table' = table /\ mask' = mask /\ saved' = saved
  OBVIOUS
<1>7. CountIsRight'
  BY <1>4, <1>5, <1>6 DEF Sized, CountIsRight, Counting
<1>8. Sized'
  BY <1>4, <1>5, <1>6, <1>7 DEF Sized, AllEntries
<1>9. Placed(table, mask)' /\ (AllEntries(table) = SavedEntries(saved))'
  BY <1>4, <1>6 DEF Placed, AllEntries, SavedEntries
<1> QED BY <1>2, <1>3, <1>8, <1>9 DEF Unraced

(* What is saved for a key, and its bucket, change together.               *)
BucketWith(k, d) == Bucketed(table, mask, k, d)

(* The entries stay those that are saved.                                  *)
LEMMA TogetherChange ==
  ASSUME Unraced, NEW k \in Keys, NEW d \in Data \cup {Unsaved}, saved' = SavedWith(saved, k, d)
  PROVE  /\ Placed(BucketWith(k, d), mask)
         /\ AllEntries(BucketWith(k, d)) = SavedEntries(saved')
         /\ IsFiniteSet(SavedEntries(saved'))
         /\ Cardinality(AllEntries(table)) \in Nat /\ Cardinality(SavedEntries(saved')) \in Nat
         /\ Cardinality(SavedEntries(saved')) + One(saved[k])
              = Cardinality(AllEntries(table)) + One(d)
<1>1. /\ Placed(table, mask) /\ AllEntries(table) = SavedEntries(saved)
      /\ saved \in [Keys -> Data \cup {Unsaved}] /\ IsFiniteSet(SavedEntries(saved))
  BY DEF Unraced, SaveTypes, Sized
<1>2. PICK t2 : t2 = BucketWith(k, d)
  OBVIOUS
<1>3. t2 = Bucketed(table, mask, k, d)
  BY <1>2 DEF BucketWith
<1>4. Placed(t2, mask) /\ AllEntries(t2) = OfOthers(k, AllEntries(table)) \cup SavedFor(k, d)
  BY <1>1, <1>3, BucketChange
<1>5. PICK s2 : s2 = saved'
  OBVIOUS
<1>6. s2 = SavedWith(saved, k, d)
  BY <1>5
<1>7. SavedEntries(s2) = OfOthers(k, SavedEntries(saved)) \cup SavedFor(k, d)
  BY <1>1, <1>6, SavingChange
<1>8. /\ IsFiniteSet(SavedEntries(s2))
      /\ Cardinality(SavedEntries(saved)) \in Nat /\ Cardinality(SavedEntries(s2)) \in Nat
      /\ Cardinality(SavedEntries(s2)) + One(saved[k]) = Cardinality(SavedEntries(saved)) + One(d)
  BY <1>1, <1>6, SavingCount
<1>9. AllEntries(t2) = SavedEntries(s2)
  BY <1>1, <1>4, <1>7
<1> QED BY <1>1, <1>2, <1>4, <1>5, <1>8, <1>9

(* A call begins.                                                          *)
LEMMA SaveContextStep ==
  ASSUME Unraced, NEW t \in Threads, NEW k \in Keys, NEW d \in Data, SaveContext(t, k, d)
  PROVE  Unraced'
<1>1. PICK r : r = [pc |-> IF made THEN "lock" ELSE "make", key |-> k, data |-> d]
  OBVIOUS
<1>2. /\ saving' = [saving EXCEPT ![t] = r] /\ saving[t].pc = "idle"
      /\ UNCHANGED <<mask, table, numentries, saved>>
  BY <1>1 DEF SaveContext
<1>3. r.pc \in {"lock", "make"} /\ r.key = k /\ r.data = d /\ r \in PlaceType
  BY <1>1 DEF PlaceType
<1>4. PlaceFits(r, saved)
  BY <1>3 DEF PlaceFits
<1> QED BY <1>2, <1>3, <1>4, ThreadStep

(* A step from place to place.                                             *)
LEMMA AtStep ==
  ASSUME Unraced, NEW t \in Threads, NEW place \in {"lock", "walk", "link"}, At(t, place),
         saving[t].pc \notin {"idle", "count"},
         place = "link" => saved[saving[t].key] = Unsaved,
         UNCHANGED <<mask, table, numentries, saved>>
  PROVE  Unraced'
<1>1. PICK r : r = MovedTo(t, place)
  OBVIOUS
<1>2. saving \in [Threads -> PlaceType] /\ saving[t].key \in Keys /\ saving[t].data \in Data
  BY DEF Unraced, SaveTypes, SavingHolds
<1>3. saving' = [saving EXCEPT ![t] = r]
  BY <1>1, <1>2, AtPlace
<1>4. r.pc = place /\ r.key = saving[t].key /\ r.data = saving[t].data /\ r \in PlaceType
  BY <1>1, <1>2 DEF MovedTo, PlaceType
<1>5. PlaceFits(r, saved)
  BY <1>2, <1>4 DEF PlaceFits
<1>6. saving[t].pc # "count" /\ r.pc # "count"
  BY <1>4
<1> QED BY <1>3, <1>5, <1>6, ThreadStep

(* An entry that is found is replaced; none is found if none is saved.     *)
LEMMA WalkBucketStep ==
  ASSUME Unraced, NEW t \in Threads, WalkBucket(t)
  PROVE  Unraced'
<1> DEFINE k == saving[t].key
           d == saving[t].data
           old == Holding(k, table, mask)
<1>1. saving[t].pc = "walk" /\ mask' = mask /\ numentries' = numentries
  BY DEF WalkBucket
<1>2. k \in Keys /\ d \in Data /\ d # Unsaved /\ SaveTypes /\ SavingHolds
  BY <1>1, UnsavedAssumption DEF Unraced, SavingHolds
<1>3. old = SavedFor(k, saved[k])
  BY <1>2, HoldingIsSaved DEF Unraced, SavedFor
<1>4. CASE old = {}
  <2>1. saved[k] = Unsaved
    BY <1>3, <1>4 DEF SavedFor
  <2>2. At(t, "link") /\ table' = table /\ saved' = saved
    BY <1>4 DEF WalkBucket
  <2> QED BY <1>1, <2>1, <2>2, AtStep
<1>5. CASE old # {}
  <2>1. saved[k] # Unsaved
    BY <1>3, <1>5 DEF SavedFor
  <2>2. /\ table' = [table EXCEPT ![Hash(k, mask)] = (@ \ old) \cup {Entry(k, d)}]
        /\ saved' = [saved EXCEPT ![k] = d]
        /\ saving' = [saving EXCEPT ![t] = NotSaving]
    BY <1>5 DEF WalkBucket, Entry
  <2>3. SavedFor(k, d) = {Entry(k, d)}
    BY <1>2 DEF SavedFor
  <2>4. table' = BucketWith(k, d)
    BY <2>2, <2>3 DEF BucketWith, Bucketed
  <2>5. saved' = SavedWith(saved, k, d)
    BY <2>2 DEF SavedWith
  <2> HIDE DEF k, d, old
  <2>6. /\ Placed(table', mask) /\ AllEntries(table') = SavedEntries(saved')
        /\ IsFiniteSet(SavedEntries(saved'))
        /\ Cardinality(AllEntries(table)) \in Nat /\ Cardinality(SavedEntries(saved')) \in Nat
        /\ Cardinality(SavedEntries(saved')) + One(saved[k]) = Cardinality(AllEntries(table)) + One(d)
    BY <1>2, <2>4, <2>5, TogetherChange
  <2>7. One(saved[k]) = 1 /\ One(d) = 1
    BY <1>2, <2>1 DEF One
  <2>8. Cardinality(AllEntries(table')) = Cardinality(AllEntries(table))
    BY <2>6, <2>7
  <2>9. NotSaving.pc = "idle" /\ PlaceFits(NotSaving, saved')
    BY DEF NotSaving, PlaceFits, PlaceType
  <2>10. \A u \in Threads \ {t} : saving[u].pc = "link" => saved'[saving[u].key] = Unsaved
    <3> SUFFICES ASSUME NEW u \in Threads, saving[u].pc = "link"
                 PROVE  saved'[saving[u].key] = Unsaved
      OBVIOUS
    <3>1. saving[u].key \in Keys /\ saved[saving[u].key] = Unsaved
      BY <1>2 DEF SavingHolds
    <3>2. saving[u].key # k
      BY <2>1, <3>1
    <3> QED BY <1>2, <2>2, <3>1, <3>2 DEF SaveTypes
  <2>11. saving' \in [Threads -> PlaceType] /\ SavingHolds'
    BY <1>2, <2>2, <2>9, <2>10, PlacesFit
  <2>12. SaveTypes'
    BY <1>1, <1>2, <2>2, <2>11 DEF SaveTypes
  <2>13. IsFiniteSet(Counting') /\ Cardinality(Counting') = Cardinality(Counting)
    BY <1>1, <1>2, <2>2, <2>9, CountingChange DEF SaveTypes, Unraced, Sized
  <2>14. CountIsRight'
    BY <1>1, <2>8, <2>13 DEF CountIsRight, Counting, Unraced, Sized
  <2>15. Sized'
    BY <2>6, <2>13, <2>14 DEF Sized
  <2>16. Placed(table, mask)' /\ (AllEntries(table) = SavedEntries(saved))'
    BY <1>1, <2>6 DEF Placed, AllEntries, SavedEntries
  <2> QED BY <2>11, <2>12, <2>15, <2>16 DEF Unraced
<1> QED BY <1>4, <1>5

(* The parts of the invariant after a step.                                *)
LEMMA UnracedAfter ==
  ASSUME SaveTypes', SavingHolds', Placed(table', mask'),
         AllEntries(table') = SavedEntries(saved'), IsFiniteSet(SavedEntries(saved')),
         IsFiniteSet(Counting'),
         numentries' + Cardinality(Counting') = Cardinality(AllEntries(table'))
  PROVE  Unraced'
<1>1. CountIsRight' /\ IsFiniteSet(AllEntries(table'))
  BY DEF CountIsRight, Counting, AllEntries
<1>2. Sized'
  BY <1>1 DEF Sized, AllEntries
<1>3. Placed(table, mask)' /\ (AllEntries(table) = SavedEntries(saved))'
  BY DEF Placed, AllEntries, SavedEntries
<1> QED BY <1>2, <1>3 DEF Unraced

(* An entry is linked for a key that still has none.                       *)
LEMMA LinkEntryStep ==
  ASSUME Unraced, NEW t \in Threads, LinkEntry(t), ~raced'
  PROVE  Unraced'
<1> DEFINE k == saving[t].key
           d == saving[t].data
<1>1. saving[t].pc = "link" /\ mask' = mask /\ numentries' = numentries /\ At(t, "count")
  BY DEF LinkEntry
<1>2. k \in Keys /\ d \in Data /\ d # Unsaved /\ SaveTypes /\ SavingHolds /\ saved[k] = Unsaved
  BY <1>1, UnsavedAssumption DEF Unraced, SavingHolds
<1>3. Holding(k, table, mask) = {} /\ SavedFor(k, d) = {Entry(k, d)}
  BY <1>2, HoldingIsSaved DEF Unraced, SavedFor
<1>4. table' = BucketWith(k, d)
  <2>1. table' = [table EXCEPT ![Hash(k, mask)] = @ \cup {Entry(k, d)}]
    BY DEF LinkEntry, Entry
  <2> QED BY <1>3, <2>1 DEF BucketWith, Bucketed
<1>5. saved' = SavedWith(saved, k, d)
  BY DEF LinkEntry, SavedWith
<1>6. \A u \in Threads \ {t} : saving[u].pc = "link" => saving[u].key # k
  BY <1>1 DEF LinkEntry, InTable
<1> HIDE DEF k, d
<1>7. /\ Placed(table', mask) /\ AllEntries(table') = SavedEntries(saved')
      /\ IsFiniteSet(SavedEntries(saved'))
      /\ Cardinality(AllEntries(table)) \in Nat /\ Cardinality(SavedEntries(saved')) \in Nat
      /\ Cardinality(SavedEntries(saved')) + One(saved[k]) = Cardinality(AllEntries(table)) + One(d)
  BY <1>2, <1>4, <1>5, TogetherChange
<1>8. One(saved[k]) = 0 /\ One(d) = 1
  BY <1>2 DEF One
<1>9. Cardinality(AllEntries(table')) = Cardinality(AllEntries(table)) + 1
  BY <1>7, <1>8
<1>10. PICK r : r = MovedTo(t, "count")
  OBVIOUS
<1>11. r.pc = "count" /\ saving' = [saving EXCEPT ![t] = r] /\ PlaceFits(r, saved')
  <2>1. r.pc = "count" /\ r.key = k /\ r.data = d /\ r \in PlaceType
    BY <1>2, <1>10 DEF MovedTo, PlaceType, k, d
  <2>2. PlaceFits(r, saved')
    BY <1>2, <2>1 DEF PlaceFits
  <2>3. saving' = [saving EXCEPT ![t] = r]
    BY <1>1, <1>2, <1>10, AtPlace DEF SaveTypes
  <2> QED BY <2>1, <2>2, <2>3
<1>12. \A u \in Threads \ {t} : saving[u].pc = "link" => saved'[saving[u].key] = Unsaved
  BY <1>2, <1>5, <1>6 DEF SavedWith, SavingHolds, SaveTypes
<1>13. saving' \in [Threads -> PlaceType] /\ SavingHolds'
  BY <1>2, <1>11, <1>12, PlacesFit
<1>14. SaveTypes'
  BY <1>1, <1>2, <1>5, <1>13 DEF SaveTypes, SavedWith
<1>15. IsFiniteSet(Counting') /\ Cardinality(Counting') = Cardinality(Counting) + 1
       /\ Cardinality(Counting) \in Nat
  BY <1>1, <1>2, <1>11, CountingChange DEF SaveTypes, Unraced, Sized
<1>16. numentries + Cardinality(Counting) = Cardinality(AllEntries(table)) /\ numentries \in Int
  BY DEF Unraced, Sized, CountIsRight, Counting, SaveTypes
<1>17. numentries' + Cardinality(Counting') = Cardinality(AllEntries(table'))
  BY <1>1, <1>7, <1>9, <1>15, <1>16
<1> QED BY <1>1, <1>7, <1>13, <1>14, <1>15, <1>17, UnracedAfter

(* The thread no longer counts; the number does.                           *)
LEMMA CountEntryStep ==
  ASSUME Unraced, NEW t \in Threads, CountEntry(t)
  PROVE  Unraced'
<1> DEFINE grow == numentries + 1 > mask * 4
<1>1. /\ saving[t].pc = "count" /\ numentries' = numentries + 1 /\ saved' = saved
      /\ ResizeTable(table, numentries + 1, grow) /\ saving' = [saving EXCEPT ![t] = NotSaving]
  BY DEF CountEntry
<1>2. /\ SaveTypes /\ SavingHolds /\ Placed(table, mask) /\ numentries + 1 \in Int
      /\ AllEntries(table) = SavedEntries(saved) /\ IsFiniteSet(SavedEntries(saved))
  BY DEF Unraced, SaveTypes, Sized
<1>3. grow \in BOOLEAN
  OBVIOUS
<1> HIDE DEF grow
<1>4. Placed(table', mask') /\ AllEntries(table') = AllEntries(table)
  BY <1>1, <1>2, <1>3, ResizeKeeps
<1>5. NotSaving.pc = "idle" /\ PlaceFits(NotSaving, saved')
  BY DEF NotSaving, PlaceFits, PlaceType
<1>6. \A u \in Threads \ {t} : saving[u].pc = "link" => saved'[saving[u].key] = Unsaved
  BY <1>1, <1>2 DEF SavingHolds
<1>7. saving' \in [Threads -> PlaceType] /\ SavingHolds'
  BY <1>1, <1>2, <1>5, <1>6, PlacesFit
<1>8. SaveTypes'
  BY <1>1, <1>2, <1>7 DEF SaveTypes
<1>9. IsFiniteSet(Counting') /\ Cardinality(Counting') = Cardinality(Counting) - 1
      /\ Cardinality(Counting) \in Nat
  BY <1>1, <1>2, <1>5, CountingChange DEF SaveTypes, Unraced, Sized
<1>10. numentries + Cardinality(Counting) = Cardinality(AllEntries(table)) /\ numentries \in Int
  BY DEF Unraced, Sized, CountIsRight, Counting, SaveTypes
<1>11. numentries' + Cardinality(Counting') = Cardinality(AllEntries(table'))
  BY <1>1, <1>4, <1>9, <1>10
<1>12. AllEntries(table') = SavedEntries(saved') /\ IsFiniteSet(SavedEntries(saved'))
  BY <1>1, <1>2, <1>4
<1> QED BY <1>4, <1>7, <1>8, <1>9, <1>11, <1>12, UnracedAfter

(* The entry is gone, from the table and from what is saved.               *)
LEMMA DeleteContextStep ==
  ASSUME Unraced, NEW t \in Threads, NEW k \in Keys, DeleteContext(t, k)
  PROVE  Unraced'
<1> DEFINE old == Holding(k, table, mask)
           without == [table EXCEPT ![Hash(k, mask)] = @ \ old]
           shrink == numentries - 1 < mask /\ mask > InitHashMask
<1>1. /\ old # {} /\ numentries' = numentries - 1 /\ saving' = saving
      /\ ResizeTable(without, numentries - 1, shrink) /\ saved' = [saved EXCEPT ![k] = Unsaved]
  BY DEF DeleteContext
<1>2. /\ SaveTypes /\ SavingHolds /\ numentries - 1 \in Int /\ numentries \in Int
      /\ saved \in [Keys -> Data \cup {Unsaved}]
  BY DEF Unraced, SaveTypes
<1>3. saved[k] # Unsaved
  BY <1>1, HoldingIsSaved DEF Unraced
<1>4. without = BucketWith(k, Unsaved) /\ saved' = SavedWith(saved, k, Unsaved)
  <2>1. SavedFor(k, Unsaved) = {}
    BY DEF SavedFor
  <2> QED BY <1>1, <2>1 DEF BucketWith, Bucketed, SavedWith
<1>5. shrink \in BOOLEAN
  OBVIOUS
<1> HIDE DEF shrink, without, old
<1>6. /\ Placed(without, mask) /\ AllEntries(without) = SavedEntries(saved')
      /\ IsFiniteSet(SavedEntries(saved'))
      /\ Cardinality(AllEntries(table)) \in Nat /\ Cardinality(SavedEntries(saved')) \in Nat
      /\ Cardinality(SavedEntries(saved')) + One(saved[k])
           = Cardinality(AllEntries(table)) + One(Unsaved)
  BY <1>4, TogetherChange
<1>7. One(saved[k]) = 1 /\ One(Unsaved) = 0
  BY <1>3 DEF One
<1>8. Placed(table', mask') /\ AllEntries(table') = AllEntries(without)
  BY <1>1, <1>2, <1>5, <1>6, ResizeKeeps
<1>9. Cardinality(AllEntries(table')) = Cardinality(AllEntries(table)) - 1
  BY <1>6, <1>7, <1>8
<1>10. \A j \in Keys : saved[j] = Unsaved => saved'[j] = Unsaved
  BY <1>1, <1>2
<1>11. SavingHolds'
  BY <1>1, <1>2, <1>10 DEF SavingHolds
<1>12. SaveTypes'
  BY <1>1, <1>2 DEF SaveTypes
<1>13. Counting' = Counting /\ IsFiniteSet(Counting) /\ Cardinality(Counting) \in Nat
  BY <1>1, FS_CardinalityType DEF Counting, Unraced, Sized
<1>14. numentries + Cardinality(Counting) = Cardinality(AllEntries(table))
  BY DEF Unraced, Sized, CountIsRight, Counting
<1>15. numentries' + Cardinality(Counting') = Cardinality(AllEntries(table'))
  BY <1>1, <1>2, <1>9, <1>13, <1>14
<1> QED BY <1>6, <1>8, <1>11, <1>12, <1>13, <1>15, UnracedAfter

(* At first the table is empty.                                            *)
LEMMA ContextInitInv ==
  ASSUME ContextInit
  PROVE  ContextInv
<1>1. AllEntries(table) = {} /\ SavedEntries(saved) = {} /\ Counting = {}
  BY DEF ContextInit, AllEntries, SavedEntries, Counting, NotSaving
<1>2. SaveTypes
  BY DEF ContextInit, SaveTypes, PlaceType, NotSaving
<1>3. Placed(table, mask)
  BY ContextAssumption DEF ContextInit, Placed
<1>4. SavingHolds
  BY DEF ContextInit, SavingHolds, NotSaving
<1>5. Sized
  <2>1. IsFiniteSet({}) /\ Cardinality({}) = 0
    BY FS_EmptySet
  <2>2. numentries = 0 /\ {t \in Threads : saving[t].pc = "count"} = {}
    BY <1>1 DEF ContextInit, Counting
  <2>3. numentries + Cardinality({t \in Threads : saving[t].pc = "count"})
          = Cardinality(AllEntries(table))
    <3>1. 0 + 0 = 0
      OBVIOUS
    <3> QED BY <1>1, <2>1, <2>2, <3>1
  <2> QED BY <1>1, <2>1, <2>3 DEF Sized, CountIsRight
<1> QED BY <1>1, <1>2, <1>3, <1>4, <1>5 DEF ContextInv, Unraced

(* Each action, as long as nobody has been raced.                          *)
LEMMA ContextNextInv ==
  ASSUME ContextInv, [ContextNext]_contextVars
  PROVE  ContextInv'
<1> SUFFICES ASSUME ~raced' PROVE Unraced'
  BY DEF ContextInv
<1>1. CASE ContextNext
  <2>1. Unraced
    BY <1>1 DEF ContextNext, ContextInv
  <2>2. PICK t \in Threads :
          \/ \E k \in Keys : DeleteContext(t, k) \/ \E d \in Data : SaveContext(t, k, d)
          \/ MakeTable(t) \/ ReadHead(t) \/ WalkBucket(t) \/ LinkEntry(t) \/ CountEntry(t)
    BY <1>1 DEF ContextNext
  <2>3. CASE \E k \in Keys : DeleteContext(t, k)
    BY <2>1, <2>3, DeleteContextStep
  <2>4. CASE \E k \in Keys, d \in Data : SaveContext(t, k, d)
    BY <2>1, <2>4, SaveContextStep
  <2>5. CASE MakeTable(t)
    BY <2>1, <2>5, AtStep DEF MakeTable
  <2>6. CASE ReadHead(t)
    BY <2>1, <2>6, AtStep DEF ReadHead
  <2>7. CASE WalkBucket(t)
    BY <2>1, <2>7, WalkBucketStep
  <2>8. CASE LinkEntry(t)
    BY <2>1, <2>8, LinkEntryStep
  <2>9. CASE CountEntry(t)
    BY <2>1, <2>9, CountEntryStep
  <2> QED BY <2>2, <2>3, <2>4, <2>5, <2>6, <2>7, <2>8, <2>9
<1>2. CASE UNCHANGED contextVars
  <2>1. Unraced
    BY <1>2 DEF contextVars, ContextInv
  <2> QED BY <1>2, <2>1 DEF contextVars, Unraced, SaveTypes, Placed, AllEntries, SavedEntries,
             SavingHolds, Sized, CountIsRight, Counting
<1> QED BY <1>1, <1>2

(* The invariant of the contexts.                                          *)
LEMMA ContextInvariant == ContextSpec => []ContextInv
<1>1. ContextInit => ContextInv
  BY ContextInitInv
<1>2. ContextInv /\ [ContextNext]_contextVars => ContextInv'
  BY ContextNextInv
<1> QED BY <1>1, <1>2, PTL DEF ContextSpec

(* What is saved is found, and the count is right.                         *)
THEOREM SavedIsFoundHolds == ContextSpec => []SavedIsFound
<1>1. ASSUME ContextInv PROVE SavedIsFound
  <2>1. SUFFICES ASSUME Unraced
                 PROVE  CountIsRight /\ \A k \in Keys : FindContext(k) = {saved[k]} \ {Unsaved}
    BY <1>1 DEF SavedIsFound, ContextInv
  <2>2. CountIsRight
    BY <2>1 DEF Unraced, Sized
  <2>3. ASSUME NEW k \in Keys PROVE FindContext(k) = {saved[k]} \ {Unsaved}
    <3>1. Holding(k, table, mask) = IF saved[k] = Unsaved THEN {} ELSE {Entry(k, saved[k])}
      BY <2>1, HoldingIsSaved DEF Unraced
    <3>2. Entry(k, saved[k]).data = saved[k]
      BY DEF Entry
    <3> QED BY <3>1, <3>2 DEF FindContext
  <2> QED BY <2>2, <2>3
<1> QED BY <1>1, ContextInvariant, PTL

(* There is an entry for each key at most.                                 *)
LEMMA EntriesAreFew ==
  ASSUME IsFiniteSet(Keys), NEW s
  PROVE  /\ IsFiniteSet(SavedEntries(s))
         /\ Cardinality(SavedEntries(s)) <= Cardinality(Keys)
<1>1. PICK f : f = [e \in SavedEntries(s) |-> e.key]
  OBVIOUS
<1>2. \A j, x : Entry(j, x).key = j
  BY DEF Entry
<1>3. \A e \in SavedEntries(s) : e.key \in Keys /\ e = Entry(e.key, s[e.key])
  BY <1>2 DEF SavedEntries
<1>4. f \in [SavedEntries(s) -> Keys]
  BY <1>1, <1>3
<1>5. \A d, e \in SavedEntries(s) : f[d] = f[e] => d = e
  BY <1>1, <1>3
<1>6. f \in Injection(SavedEntries(s), Keys)
  BY <1>1, <1>4, <1>5 DEF Injection, IsInjective
<1> QED BY <1>6, FS_Injection

TableSizes == {Buckets(n) : n \in 0 .. Cardinality(Keys)}

(* A resizing is for a number of entries that there may be.                *)
LEMMA ResizeTypes ==
  ASSUME IsFiniteSet(Keys), mask + 1 \in TableSizes, mask \in Int, NEW t, NEW n \in Int,
         NEW condition \in BOOLEAN, ResizeTable(t, n, condition), condition => n <= Cardinality(Keys)
  PROVE  mask' + 1 \in TableSizes
<1>1. CASE ~condition
  BY <1>1 DEF ResizeTable
<1>2. CASE condition
  <2>1. mask' = Buckets(n) - 1 /\ Buckets(n) \in Nat
    BY <1>2, BucketsArePositive DEF ResizeTable
  <2>2. mask' + 1 = Buckets(n)
    BY <2>1
  <2>3. Cardinality(Keys) \in Nat
    BY FS_CardinalityType
  <2>4. CASE n >= 0
    BY <1>2, <2>2, <2>3, <2>4 DEF TableSizes
  <2>5. CASE n < 0
    <3>1. Buckets(n) = InitHashMask + 1 /\ Buckets(0) = InitHashMask + 1
      BY <2>5, BucketsOfFew, ContextAssumption
    <3> QED BY <2>2, <2>3, <3>1 DEF TableSizes
  <2> QED BY <2>4, <2>5
<1> QED BY <1>1, <1>2

(* The types after a step that leaves the entries right.                   *)
LEMMA TypesOfUnraced ==
  ASSUME Unraced, made \in BOOLEAN, raced \in BOOLEAN, mask + 1 \in TableSizes
  PROVE  ContextTypeOK
BY DEF Unraced, SaveTypes, Placed, PlaceType, EntryType, ContextTypeOK, TableSizes

LEMMA ContextTypeStep ==
  ASSUME IsFiniteSet(Keys), ContextInv, ContextTypeOK, [ContextNext]_contextVars
  PROVE  ContextTypeOK'
<1>1. CASE UNCHANGED contextVars
  BY <1>1 DEF contextVars, ContextTypeOK
<1>2. ASSUME Unraced', made' \in BOOLEAN, raced' \in BOOLEAN, mask' + 1 \in TableSizes
      PROVE  ContextTypeOK'
  BY <1>2 DEF Unraced, SaveTypes, Placed, PlaceType, EntryType, ContextTypeOK, TableSizes
<1>3. CASE ContextNext
  <2>1. Unraced
    BY <1>3 DEF ContextNext, ContextInv
  <2>2. /\ made \in BOOLEAN /\ raced \in BOOLEAN /\ mask + 1 \in TableSizes
        /\ mask \in Int /\ numentries \in Int
    BY <2>1 DEF ContextTypeOK, TableSizes, Unraced, Placed
  <2>3. /\ numentries + Cardinality(Counting) = Cardinality(AllEntries(table))
        /\ IsFiniteSet(Counting) /\ Cardinality(Counting) \in Nat
        /\ Cardinality(AllEntries(table)) <= Cardinality(Keys)
        /\ Cardinality(AllEntries(table)) \in Nat /\ Cardinality(Keys) \in Nat
    BY <2>1, EntriesAreFew, FS_CardinalityType DEF Unraced, Sized, CountIsRight, Counting
  <2>4. PICK t \in Threads :
          \/ \E k \in Keys : DeleteContext(t, k) \/ \E d \in Data : SaveContext(t, k, d)
          \/ MakeTable(t) \/ ReadHead(t) \/ WalkBucket(t) \/ LinkEntry(t) \/ CountEntry(t)
    BY <1>3 DEF ContextNext
  <2>5. ASSUME NEW k \in Keys, DeleteContext(t, k) PROVE ContextTypeOK'
    <3> DEFINE without == [table EXCEPT ![Hash(k, mask)] = @ \ Holding(k, table, mask)]
               shrink == numentries - 1 < mask /\ mask > InitHashMask
    <3>1. /\ ResizeTable(without, numentries - 1, shrink) /\ made' = made
          /\ raced' \in BOOLEAN
      BY <2>5 DEF DeleteContext
    <3>2. numentries - 1 \in Int /\ numentries - 1 <= Cardinality(Keys) /\ shrink \in BOOLEAN
      BY <2>2, <2>3
    <3> HIDE DEF without, shrink
    <3>3. mask' + 1 \in TableSizes
      BY <2>2, <3>1, <3>2, ResizeTypes
    <3>4. Unraced'
      BY <2>1, <2>5, DeleteContextStep
    <3> QED BY <1>2, <2>2, <3>1, <3>3, <3>4
  <2>6. ASSUME NEW k \in Keys, NEW d \in Data, SaveContext(t, k, d) PROVE ContextTypeOK'
    BY <1>2, <2>1, <2>2, <2>6, SaveContextStep DEF SaveContext
  <2>7. CASE MakeTable(t)
    BY <1>2, <2>1, <2>2, <2>7, AtStep DEF MakeTable
  <2>8. CASE ReadHead(t)
    BY <1>2, <2>1, <2>2, <2>8, AtStep DEF ReadHead
  <2>9. CASE WalkBucket(t)
    BY <1>2, <2>1, <2>2, <2>9, WalkBucketStep DEF WalkBucket
  <2>10. CASE LinkEntry(t)
    <3>1. /\ saving[t].pc = "link" /\ saving[t].key \in Keys /\ saving[t].data \in Data
          /\ saving \in [Threads -> PlaceType]
      BY <2>1, <2>10 DEF LinkEntry, Unraced, SavingHolds, SaveTypes
    <3>2. PICK b : b = Hash(saving[t].key, mask)
      OBVIOUS
    <3>3. table' = [table EXCEPT ![b] = @ \cup {Entry(saving[t].key, saving[t].data)}]
      BY <2>10, <3>2 DEF LinkEntry, Entry
    <3>4. b \in 0 .. mask /\ Entry(saving[t].key, saving[t].data) \in EntryType
      BY <2>1, <3>1, <3>2, HashIsBucket DEF Unraced, Placed, Entry, EntryType
    <3>5. table' \in [0 .. mask -> SUBSET EntryType]
      BY <2>1, <3>3, <3>4 DEF Unraced, Placed
    <3>6. saving' \in [Threads -> PlaceType]
      <4>1. MovedTo(t, "count") \in PlaceType
        BY <3>1 DEF MovedTo, PlaceType
      <4>2. saving' = [saving EXCEPT ![t] = MovedTo(t, "count")]
        BY <2>10, <3>1, AtPlace DEF LinkEntry
      <4> QED BY <3>1, <4>1, <4>2
    <3>7. saved' \in [Keys -> Data \cup {Unsaved}]
      BY <2>1, <2>10, <3>1 DEF LinkEntry, Unraced, SaveTypes
    <3>8. UNCHANGED <<made, mask, numentries>> /\ raced' \in BOOLEAN
      BY <2>10 DEF LinkEntry
    <3> QED BY <2>2, <3>5, <3>6, <3>7, <3>8 DEF ContextTypeOK, PlaceType, EntryType, TableSizes
  <2>11. CASE CountEntry(t)
    <3> DEFINE grow == numentries + 1 > mask * 4
    <3>1. /\ ResizeTable(table, numentries + 1, grow) /\ made' = made /\ raced' \in BOOLEAN
          /\ saving[t].pc = "count"
      BY <2>11 DEF CountEntry
    <3>2. t \in Counting
      BY <3>1 DEF Counting
    <3>3. Cardinality(Counting) # 0
      BY <2>3, <3>2, FS_EmptySet
    <3>4. numentries + 1 \in Int /\ numentries + 1 <= Cardinality(Keys) /\ grow \in BOOLEAN
      BY <2>2, <2>3, <3>3
    <3> HIDE DEF grow
    <3>5. mask' + 1 \in TableSizes
      BY <2>2, <3>1, <3>4, ResizeTypes
    <3>6. Unraced'
      BY <2>1, <2>11, CountEntryStep
    <3> QED BY <1>2, <2>2, <3>1, <3>5, <3>6
  <2> QED BY <2>4, <2>5, <2>6, <2>7, <2>8, <2>9, <2>10, <2>11
<1> QED BY <1>1, <1>3

(* The types of the contexts, also after a race: the number of buckets is  *)
(* one that some number of entries asks for, of which there is one for     *)
(* each key at most.                                                       *)
THEOREM ContextTypeCorrect ==
  ASSUME IsFiniteSet(Keys)
  PROVE  ContextSpec => []ContextTypeOK
<1>1. ContextInit => ContextTypeOK
  <2> SUFFICES ASSUME ContextInit PROVE ContextTypeOK
    OBVIOUS
  <2>1. Buckets(0) = InitHashMask + 1
    BY BucketsOfFew, ContextAssumption
  <2>2. 0 \in 0 .. Cardinality(Keys)
    BY FS_CardinalityType
  <2>3. mask + 1 \in TableSizes
    BY <2>1, <2>2 DEF ContextInit, TableSizes
  <2>4. Unraced
    BY ContextInitInv DEF ContextInv, ContextInit
  <2> QED BY <2>3, <2>4, TypesOfUnraced DEF ContextInit
<1>2. ContextInv /\ ContextTypeOK /\ [ContextNext]_contextVars => ContextTypeOK'
  BY ContextTypeStep
<1> QED BY <1>1, <1>2, ContextInvariant, PTL DEF ContextSpec
-----------------------------------------------------------------------------
(***************************************************************************)
(* A window of the daemon is found by its handle, for any number of        *)
(* clients, handles and entries, as long as no two processes change the    *)
(* same place of a bucket at once.  A bucket is what can be reached from   *)
(* its first entry; the invariant says that it is a list, and of a client  *)
(* that is in getWindow that the entries up to the last one it has met     *)
(* begin the bucket and are not what it looks for: if nothing follows on   *)
(* that entry, the handle is not in the bucket.                            *)
(***************************************************************************)

InBuckets == InBucket(0) \cup InBucket(512)
MadeEntries == Entries \ NewEntries
WindowEntryType == [hwnd : Handles, next : Entries \cup {Nil}, own : BOOLEAN, gone : BOOLEAN]

(* Handles that lead to a bucket and are entered as hwnd.                  *)
Leads(hwnd, b) == \E h \in Handles : Alias(h) = hwnd /\ Bucket[h] = b

(* The entries of a bucket are a list: what is first follows on nothing,   *)
(* and nothing follows on two entries; it ends, and has each handle once.  *)
BucketHolds(b) ==
  /\ \A e \in InBucket(b) : ~entry[e].gone /\ Leads(entry[e].hwnd, b)
  /\ \A e, f \in InBucket(b) : entry[e].next = entry[f].next /\ entry[e].next # Nil => e = f
  /\ \A e \in InBucket(b) : entry[e].next # hashtable[b]
  /\ InBucket(b) # {} => \E e \in InBucket(b) : entry[e].next = Nil
  /\ \A e, f \in InBucket(b) : entry[e].hwnd = entry[f].hwnd => e = f

(* The daemon has the entry of each of its windows.                        *)
WindowsHold ==
  \A h \in Handles :
    /\ Alias(h) = HWND_DESKTOP => exists[h] = "foreign"
    /\ exists[h] = "xpm" => /\ xid[h] \in InBucket(Bucket[h])
                            /\ entry[xid[h]].hwnd = h
                            /\ h \notin stale => entry[xid[h]].own

(* The entries met, of which the last one is where the client is.          *)
Passed(c, b, met) ==
  /\ Leads(look[c].h, b)
  /\ met \subseteq InBucket(b)
  /\ look[c].last # Nil => look[c].last \in met /\ hashtable[b] \in met
  /\ look[c].last = Nil => met = {}
  /\ \A e \in met : /\ entry[e].hwnd # look[c].h
                    /\ e # look[c].last => entry[e].next \in met
  /\ look[c].pc = "walk" /\ look[c].cur # Nil =>
       look[c].cur = IF look[c].last = Nil THEN hashtable[b] ELSE entry[look[c].last].next
LooksHold ==
  \A c \in TableClients : look[c].pc # "idle" =>
    \E b \in {0, 512} : \E met \in SUBSET Entries : Passed(c, b, met)

(* An entry that is not in a bucket yet is known to its client only.       *)
Making(c) == look[c].pc \in {"append", "first"}
MadeHold ==
  /\ \A c \in TableClients : Making(c) =>
       /\ look[c].cur \in MadeEntries /\ look[c].cur \notin InBuckets
       /\ entry[look[c].cur].hwnd = look[c].h /\ entry[look[c].cur].next = Nil
       /\ ~entry[look[c].cur].gone
  /\ \A c, d \in TableClients :
       Making(c) /\ Making(d) /\ look[c].cur = look[d].cur => c = d

TableHolds ==
  /\ \A b \in {0, 512} : hashtable[b] \notin NewEntries /\ BucketHolds(b)
  /\ InBucket(0) \cap InBucket(512) = {}
  /\ WindowsHold /\ LooksHold /\ MadeHold
NextMade == \A e \in MadeEntries : entry[e].next \notin NewEntries
TableInv == TableTypeOK /\ (~clash => NextMade /\ TableHolds)
-----------------------------------------------------------------------------

LEMMA NewEntryIsNew ==
  ASSUME TableTypeOK, NewEntries # {}
  PROVE  NewEntry \in NewEntries /\ NewEntry \in Entries
<1>1. NewEntries \subseteq Nat /\ NewEntries \subseteq Entries
  BY TableAssumption DEF NewEntries, Entries
<1>2. \E e \in NewEntries : \A f \in NewEntries : e <= f
  BY <1>1, LeastNumber
<1> QED BY <1>1, <1>2 DEF NewEntry

LEMMA Handling ==
  /\ \A h \in Handles : /\ Alias(h) \in Handles /\ Alias(Alias(h)) = Alias(h)
                        /\ Alias(h) # HWND_DESKTOP => Alias(h) = h
                        /\ Bucket[h] \in {0, 512} /\ h # Nil
  /\ HWND_DESKTOP \in Handles
BY TableAssumption DEF Alias

(* An entry that has been made is a record, and not the null pointer.        *)
LEMMA MadeAreEntries ==
  ASSUME TableTypeOK
  PROVE  /\ \A e \in MadeEntries : e \in Entries /\ e # Nil /\ entry[e] \in WindowEntryType
         /\ \A e \in Entries : e # Nil /\ (entry[e] \in WindowEntryType => e \in MadeEntries)
BY TableAssumption DEF TableTypeOK, MadeEntries, NewEntries, Entries, WindowEntryType

(* A bucket is within every set of entries that is closed under next.      *)
LEMMA BucketIsLeast ==
  ASSUME NEW b, NEW S \in SUBSET MadeEntries, Closed(b, S)
  PROVE  InBucket(b) \subseteq S
<1>1. ASSUME NEW e \in InBucket(b), e \notin S PROVE FALSE
  <2>1. S \in SUBSET (MadeEntries \ {e})
    BY <1>1
  <2> QED BY <1>1, <2>1 DEF InBucket, MadeEntries
<1> QED BY <1>1

(* What follows on an entry of a bucket is in the bucket.                  *)
LEMMA BucketIsClosed ==
  ASSUME TableTypeOK, NextMade, NEW b \in {0, 512}, hashtable[b] \notin NewEntries
  PROVE  /\ InBucket(b) \subseteq MadeEntries
         /\ hashtable[b] \in InBucket(b) \cup {Nil}
         /\ \A e \in InBucket(b) : entry[e].next \in InBucket(b) \cup {Nil}
<1>1. InBucket(b) \subseteq MadeEntries
  BY DEF InBucket, MadeEntries
<1>2. hashtable[b] \in MadeEntries \cup {Nil}
  BY DEF TableTypeOK, MadeEntries
<1>3. \A e \in MadeEntries : entry[e].next \in MadeEntries \cup {Nil}
  <2> SUFFICES ASSUME NEW e \in MadeEntries PROVE entry[e].next \in MadeEntries \cup {Nil}
    OBVIOUS
  <2>1. entry[e].next \in Entries \cup {Nil}
    BY MadeAreEntries DEF WindowEntryType
  <2> QED BY <2>1 DEF NextMade, MadeEntries
<1>4. ASSUME NEW f \in MadeEntries, \A S \in SUBSET MadeEntries : Closed(b, S) => f \in S
      PROVE  f \in InBucket(b)
  BY <1>4 DEF InBucket, MadeEntries
<1>5. hashtable[b] # Nil => hashtable[b] \in InBucket(b)
  BY <1>2, <1>4 DEF Closed
<1>6. ASSUME NEW e \in InBucket(b), entry[e].next # Nil PROVE entry[e].next \in InBucket(b)
  <2>1. e \in MadeEntries /\ entry[e].next \in MadeEntries
    BY <1>1, <1>3, <1>6
  <2>2. ASSUME NEW S \in SUBSET MadeEntries, Closed(b, S) PROVE entry[e].next \in S
    <3>1. e \in S
      BY <2>2, BucketIsLeast
    <3> QED BY <1>6, <2>2, <3>1 DEF Closed
  <2> QED BY <1>4, <2>1, <2>2
<1> QED BY <1>1, <1>5, <1>6

LEMMA BucketAfter ==
  ASSUME NEW b, NEW X, X \subseteq MadeEntries', Closed(b, X)',
         \A S \in SUBSET MadeEntries' : Closed(b, S)' => X \subseteq S
  PROVE  InBucket(b)' = X
BY DEF InBucket, MadeEntries

(* A bucket stays as long as its entries are linked as before.             *)
LEMMA SameBucket ==
  ASSUME TableTypeOK, NextMade, NEW b \in {0, 512}, hashtable[b] \notin NewEntries,
         hashtable'[b] = hashtable[b],
         \A e \in InBucket(b) : e \in MadeEntries' /\ entry'[e].next = entry[e].next
  PROVE  InBucket(b)' = InBucket(b)
<1>1. PICK X : X = InBucket(b)
  OBVIOUS
<1>2. /\ X \subseteq MadeEntries /\ hashtable[b] \in X \cup {Nil}
      /\ \A e \in X : entry[e].next \in X \cup {Nil}
  BY <1>1, BucketIsClosed
<1>3. X \subseteq MadeEntries'
  BY <1>1
<1>4. Closed(b, X)'
  BY <1>1, <1>2 DEF Closed
<1>5. ASSUME NEW S \in SUBSET MadeEntries', Closed(b, S)' PROVE X \subseteq S
  <2>1. Closed(b, S \cap X)
    BY <1>1, <1>2, <1>5 DEF Closed
  <2>2. X \subseteq S \cap X
    BY <1>1, <1>2, <2>1, BucketIsLeast
  <2> QED BY <2>2
<1>6. InBucket(b)' = X
  BY <1>3, <1>4, <1>5, BucketAfter
<1> QED BY <1>1, <1>6

(* ebw->next = current at the end of a bucket.                             *)
LEMMA BucketAppended ==
  ASSUME TableTypeOK, NextMade, NEW b \in {0, 512}, hashtable[b] \notin NewEntries,
         NEW t \in InBucket(b), entry[t].next = Nil,
         NEW e \in Entries, e \notin InBucket(b), e \in MadeEntries',
         entry'[e].next = Nil, entry'[t].next = e, hashtable'[b] = hashtable[b],
         \A x \in InBucket(b) : x \in MadeEntries' /\ (x # t => entry'[x].next = entry[x].next)
  PROVE  InBucket(b)' = InBucket(b) \cup {e}
<1>1. PICK X : X = InBucket(b)
  OBVIOUS
<1>2. /\ X \subseteq MadeEntries /\ hashtable[b] \in X \cup {Nil}
      /\ \A x \in X : entry[x].next \in X \cup {Nil}
  BY <1>1, BucketIsClosed
<1>3. X \cup {e} \subseteq MadeEntries'
  BY <1>1
<1>4. Closed(b, X \cup {e})'
  BY <1>1, <1>2 DEF Closed
<1>5. ASSUME NEW S \in SUBSET MadeEntries', Closed(b, S)' PROVE X \cup {e} \subseteq S
  <2>1. Closed(b, S \cap X)
    BY <1>1, <1>2, <1>5 DEF Closed
  <2>2. X \subseteq S \cap X
    BY <1>1, <1>2, <2>1, BucketIsLeast
  <2>3. t \in S
    BY <1>1, <2>2
  <2>4. e # Nil
    BY MadeAreEntries
  <2>5. e \in S
    BY <1>5, <2>3, <2>4 DEF Closed
  <2> QED BY <2>2, <2>5
<1>6. InBucket(b)' = X \cup {e}
  BY <1>3, <1>4, <1>5, BucketAfter
<1> QED BY <1>1, <1>6

(* hashtable[hwnd & HASHMASK] = current in an empty one.                   *)
LEMMA BucketEntered ==
  ASSUME TableTypeOK, NextMade, NEW b \in {0, 512}, hashtable[b] = Nil,
         NEW e \in Entries, e \in MadeEntries', entry'[e].next = Nil, hashtable'[b] = e
  PROVE  InBucket(b) = {} /\ InBucket(b)' = {e}
<1>1. Closed(b, {})
  BY DEF Closed
<1>2. InBucket(b) \subseteq {}
  BY <1>1, BucketIsLeast
<1>3. e # Nil
  BY MadeAreEntries
<1>4. Closed(b, {e})'
  BY DEF Closed
<1>5. ASSUME NEW S \in SUBSET MadeEntries', Closed(b, S)' PROVE {e} \subseteq S
  BY <1>3, <1>5 DEF Closed
<1>6. InBucket(b)' = {e}
  BY <1>4, <1>5, BucketAfter
<1> QED BY <1>2, <1>6

(* An entry that does not begin its bucket follows on one other entry.     *)
LEMMA HasPrevious ==
  ASSUME TableTypeOK, NextMade, NEW b \in {0, 512}, hashtable[b] \notin NewEntries,
         BucketHolds(b), NEW q \in InBucket(b), hashtable[b] # q
  PROVE  \E p \in InBucket(b) : /\ p # q /\ entry[p].next = q
                                /\ \A x \in InBucket(b) : entry[x].next = q => x = p
<1>1. PICK X : X = InBucket(b)
  OBVIOUS
<1>2. /\ X \subseteq MadeEntries /\ hashtable[b] \in X \cup {Nil}
      /\ \A x \in X : entry[x].next \in X \cup {Nil}
  BY <1>1, BucketIsClosed
<1>3. ~Closed(b, X \ {q})
  <2>1. X \ {q} \in SUBSET MadeEntries
    BY <1>2
  <2> QED BY <1>1, <2>1, BucketIsLeast
<1>4. \E p \in X \ {q} : entry[p].next = q
  BY <1>2, <1>3 DEF Closed
<1>5. q # Nil
  BY <1>1, <1>2, MadeAreEntries
<1> QED BY <1>1, <1>4, <1>5 DEF BucketHolds

(* removeWindow                                                            *)
LEMMA BucketWithout ==
  ASSUME TableTypeOK, NextMade, NEW b \in {0, 512}, hashtable[b] \notin NewEntries,
         BucketHolds(b), NEW q \in InBucket(b),
         hashtable'[b] = IF hashtable[b] = q THEN entry[q].next ELSE hashtable[b],
         \A x \in InBucket(b) : /\ x \in MadeEntries'
                                /\ entry'[x].next = IF entry[x].next = q THEN entry[q].next
                                                    ELSE entry[x].next
  PROVE  InBucket(b)' = InBucket(b) \ {q}
<1>1. PICK X : X = InBucket(b)
  OBVIOUS
<1>2. /\ X \subseteq MadeEntries /\ hashtable[b] \in X \cup {Nil}
      /\ \A x \in X : entry[x].next \in X \cup {Nil}
  BY <1>1, BucketIsClosed
<1>3. entry[q].next # q
  <2>1. CASE hashtable[b] = q
    BY <2>1 DEF BucketHolds
  <2>2. CASE hashtable[b] # q
    BY <2>2, HasPrevious
  <2> QED BY <2>1, <2>2
<1>4. Closed(b, X \ {q})'
  <2>1. hashtable'[b] \in (X \ {q}) \cup {Nil}
    BY <1>1, <1>2, <1>3
  <2>2. \A x \in X \ {q} : entry'[x].next \in (X \ {q}) \cup {Nil}
    BY <1>1, <1>2, <1>3
  <2> QED BY <2>1, <2>2 DEF Closed
<1>5. ASSUME NEW S \in SUBSET MadeEntries', Closed(b, S)' PROVE X \ {q} \subseteq S
  <2>1. CASE \E p \in S \cap X : p # q /\ entry[p].next = q
    <3>1. entry[q].next \in S \cup {Nil}
      BY <1>1, <1>5, <2>1 DEF Closed
    <3>2. Closed(b, (S \cap X) \cup {q})
      BY <1>1, <1>2, <1>5, <3>1 DEF Closed
    <3>3. X \subseteq (S \cap X) \cup {q}
      BY <1>1, <1>2, <3>2, BucketIsLeast
    <3> QED BY <3>3
  <2>2. CASE hashtable[b] = q
    <3>1. entry[q].next \in S \cup {Nil}
      BY <1>5, <2>2 DEF Closed
    <3>2. Closed(b, (S \cap X) \cup {q})
      BY <1>1, <1>2, <1>5, <2>2, <3>1 DEF Closed
    <3>3. X \subseteq (S \cap X) \cup {q}
      BY <1>1, <1>2, <3>2, BucketIsLeast
    <3> QED BY <3>3
  <2>3. CASE hashtable[b] # q /\ \A p \in S \cap X : p # q => entry[p].next # q
    <3>1. Closed(b, (S \cap X) \ {q})
      BY <1>1, <1>2, <1>5, <2>3 DEF Closed
    <3>2. X \subseteq (S \cap X) \ {q}
      <4>1. (S \cap X) \ {q} \in SUBSET MadeEntries
        BY <1>2
      <4> QED BY <1>1, <3>1, <4>1, BucketIsLeast
    <3> QED BY <3>2
  <2> QED BY <2>1, <2>2, <2>3
<1>6. InBucket(b)' = X \ {q}
  <2>1. X \ {q} \subseteq MadeEntries'
    BY <1>1
  <2> QED BY <1>4, <1>5, <2>1, BucketAfter
<1> QED BY <1>1, <1>6
-----------------------------------------------------------------------------
(* What a step leaves of the entries there are.                            *)
Kept(x) == /\ x \in MadeEntries' /\ entry'[x].hwnd = entry[x].hwnd
           /\ entry'[x].own = entry[x].own /\ entry'[x].gone = entry[x].gone
KeptAndNext(x) == Kept(x) /\ entry'[x].next = entry[x].next

LEMMA BucketKept ==
  ASSUME TableTypeOK, NextMade, NEW b \in {0, 512}, hashtable[b] \notin NewEntries,
         BucketHolds(b), hashtable'[b] = hashtable[b], \A x \in InBucket(b) : KeptAndNext(x)
  PROVE  InBucket(b)' = InBucket(b) /\ BucketHolds(b)'
<1>1. InBucket(b)' = InBucket(b)
  BY SameBucket DEF Kept, KeptAndNext
<1>2. PICK X : X = InBucket(b) /\ X = InBucket(b)'
  BY <1>1
<1>3. \A x \in X : ~entry'[x].gone /\ Leads(entry'[x].hwnd, b)
  BY <1>2 DEF BucketHolds, Kept, KeptAndNext
<1>4. \A x, y \in X : entry'[x].next = entry'[y].next /\ entry'[x].next # Nil => x = y
  BY <1>2 DEF BucketHolds, KeptAndNext
<1>5. \A x \in X : entry'[x].next # hashtable'[b]
  BY <1>2 DEF BucketHolds, KeptAndNext
<1>6. X # {} => \E x \in X : entry'[x].next = Nil
  BY <1>2 DEF BucketHolds, KeptAndNext
<1>7. \A x, y \in X : entry'[x].hwnd = entry'[y].hwnd => x = y
  BY <1>2 DEF BucketHolds, Kept, KeptAndNext
<1> QED BY <1>1, <1>2, <1>3, <1>4, <1>5, <1>6, <1>7 DEF BucketHolds

(* The entry e is put behind t, which ends the bucket b.                   *)
Appended(b, t, e) ==
  /\ t \in InBucket(b) /\ entry[t].next = Nil /\ Kept(t) /\ entry'[t].next = e
  /\ e \in Entries /\ e \notin InBuckets /\ e \in MadeEntries'
  /\ entry'[e].next = Nil /\ ~entry'[e].gone /\ Leads(entry'[e].hwnd, b)
  /\ \A x \in InBucket(b) : entry[x].hwnd # entry'[e].hwnd
  /\ \A x \in MadeEntries \ {t, e} : KeptAndNext(x)
  /\ hashtable' = hashtable

(* Of the buckets when b gets one entry more.                              *)
LEMMA AppendKeeps ==
  ASSUME TableTypeOK, NextMade, TableHolds, NEW b \in {0, 512}, NEW t, NEW e,
         Appended(b, t, e)
  PROVE  /\ InBucket(b)' = InBucket(b) \cup {e}
         /\ \A a \in {0, 512} \ {b} : InBucket(a)' = InBucket(a)
         /\ \A a \in {0, 512} : BucketHolds(a)'
<1>0. /\ t \in InBucket(b) /\ entry[t].next = Nil /\ Kept(t) /\ entry'[t].next = e
      /\ e \in Entries /\ e \notin InBuckets /\ e \in MadeEntries'
      /\ entry'[e].next = Nil /\ ~entry'[e].gone /\ Leads(entry'[e].hwnd, b)
      /\ \A x \in InBucket(b) : entry[x].hwnd # entry'[e].hwnd
      /\ \A x \in MadeEntries \ {t, e} : KeptAndNext(x)
      /\ hashtable' = hashtable
  BY DEF Appended
<1>1. \A a \in {0, 512} : /\ hashtable[a] \notin NewEntries /\ BucketHolds(a)
                          /\ InBucket(a) \subseteq MadeEntries /\ e \notin InBucket(a)
                          /\ hashtable[a] \in InBucket(a) \cup {Nil}
                          /\ \A x \in InBucket(a) : entry[x].next \in InBucket(a) \cup {Nil}
  BY <1>0, BucketIsClosed DEF TableHolds, InBuckets
<1>2. \A x \in InBucket(b) : Kept(x) /\ (x # t => KeptAndNext(x))
  BY <1>0, <1>1 DEF KeptAndNext
<1>3. InBucket(b)' = InBucket(b) \cup {e}
  BY <1>0, <1>1, <1>2, BucketAppended DEF Kept, KeptAndNext
<1>4. ASSUME NEW a \in {0, 512} \ {b} PROVE InBucket(a)' = InBucket(a) /\ BucketHolds(a)'
  <2>1. t \notin InBucket(a)
    BY <1>0 DEF TableHolds
  <2>2. \A x \in InBucket(a) : KeptAndNext(x)
    BY <1>0, <1>1, <2>1
  <2> QED BY <1>0, <1>1, <2>2, BucketKept
<1>5. BucketHolds(b)'
  <2>1. PICK X : X = InBucket(b)
    OBVIOUS
  <2>2. /\ t \in X /\ e \notin X /\ e # Nil
        /\ \A x \in X : x # t => entry'[x].next = entry[x].next
        /\ \A x \in X : entry[x].next \in X \cup {Nil}
        /\ hashtable[b] \in X
    <3>1. hashtable[b] # Nil
      <4>1. hashtable[b] = Nil => Closed(b, {})
        BY DEF Closed
      <4>2. hashtable[b] = Nil => InBucket(b) \subseteq {}
        BY <4>1, BucketIsLeast
      <4> QED BY <1>0, <4>2
    <3>2. e # Nil
      BY <1>0, MadeAreEntries
    <3>3. \A x \in X : x # t => entry'[x].next = entry[x].next
      BY <1>2, <2>1 DEF KeptAndNext
    <3>4. t \in X /\ e \notin X /\ hashtable[b] \in X /\ \A x \in X : entry[x].next \in X \cup {Nil}
      BY <1>0, <1>1, <2>1, <3>1
    <3> QED BY <3>2, <3>3, <3>4
  <2>3. \A x \in X \cup {e} : ~entry'[x].gone /\ Leads(entry'[x].hwnd, b)
    BY <1>0, <1>1, <1>2, <2>1 DEF BucketHolds, Kept
  <2>4. \A x, y \in X \cup {e} : entry'[x].next = entry'[y].next /\ entry'[x].next # Nil => x = y
    <3>1. \A x, y \in X : entry[x].next = entry[y].next /\ entry[x].next # Nil => x = y
      BY <1>0, <1>1, <2>1 DEF BucketHolds
    <3> QED BY <1>0, <2>2, <3>1
  <2>5. \A x \in X \cup {e} : entry'[x].next # hashtable'[b]
    <3>1. \A x \in X : entry[x].next # hashtable[b]
      BY <1>0, <1>1, <2>1 DEF BucketHolds
    <3>2. hashtable[b] # e /\ hashtable[b] # Nil
      BY <1>0, <1>1, <2>1, <2>2, MadeAreEntries
    <3> QED BY <1>0, <2>2, <3>1, <3>2
  <2>6. \A x, y \in X \cup {e} : entry'[x].hwnd = entry'[y].hwnd => x = y
    <3>1. \A x, y \in X : entry[x].hwnd = entry[y].hwnd => x = y
      BY <1>0, <1>1, <2>1 DEF BucketHolds
    <3>2. \A x \in X : entry'[x].hwnd = entry[x].hwnd /\ entry[x].hwnd # entry'[e].hwnd
      BY <1>0, <1>2, <2>1 DEF Kept
    <3> QED BY <1>0, <3>1, <3>2
  <2>7. InBucket(b)' = X \cup {e}
    BY <1>0, <1>3, <2>1
  <2> QED BY <1>0, <2>3, <2>4, <2>5, <2>6, <2>7 DEF BucketHolds
<1> QED BY <1>0, <1>3, <1>4, <1>5

(* ... and when b was empty.                                               *)
LEMMA EnterKeeps ==
  ASSUME TableTypeOK, NextMade, TableHolds, NEW b \in {0, 512}, hashtable[b] = Nil,
         NEW e \in Entries, e \notin InBuckets, e \in MadeEntries',
         entry'[e].next = Nil, ~entry'[e].gone, Leads(entry'[e].hwnd, b),
         hashtable' = [hashtable EXCEPT ![b] = e],
         \A x \in MadeEntries \ {e} : KeptAndNext(x)
  PROVE  /\ InBucket(b) = {} /\ InBucket(b)' = {e}
         /\ \A a \in {0, 512} \ {b} : InBucket(a)' = InBucket(a)
         /\ \A a \in {0, 512} : BucketHolds(a)'
<1>1. \A a \in {0, 512} : /\ hashtable[a] \notin NewEntries /\ BucketHolds(a)
                          /\ InBucket(a) \subseteq MadeEntries /\ e \notin InBucket(a)
  BY BucketIsClosed DEF TableHolds, InBuckets
<1>2. /\ hashtable'[b] = e
      /\ \A a \in {0, 512} \ {b} : hashtable'[a] = hashtable[a]
  BY DEF TableTypeOK
<1>3. InBucket(b) = {} /\ InBucket(b)' = {e}
  BY <1>2, BucketEntered
<1>4. ASSUME NEW a \in {0, 512} \ {b} PROVE InBucket(a)' = InBucket(a) /\ BucketHolds(a)'
  <2>1. \A x \in InBucket(a) : KeptAndNext(x)
    BY <1>1
  <2> QED BY <1>1, <1>2, <2>1, BucketKept
<1>5. BucketHolds(b)'
  <2>1. e # Nil
    BY MadeAreEntries
  <2> QED BY <1>2, <1>3, <2>1 DEF BucketHolds
<1> QED BY <1>3, <1>4, <1>5

(* ... and when an entry is taken out of b.                                *)
LEMMA RemoveKeeps ==
  ASSUME TableTypeOK, NextMade, TableHolds, NEW b \in {0, 512}, NEW q \in InBucket(b),
         hashtable'[b] = IF hashtable[b] = q THEN entry[q].next ELSE hashtable[b],
         \A a \in {0, 512} \ {b} : hashtable'[a] = hashtable[a],
         \A x \in MadeEntries : x \in MadeEntries' /\ (x # q => Kept(x)),
         \A x \in InBucket(b) : entry'[x].next = IF entry[x].next = q THEN entry[q].next
                                                 ELSE entry[x].next,
         \A x \in MadeEntries \ InBucket(b) : KeptAndNext(x)
  PROVE  /\ InBucket(b)' = InBucket(b) \ {q}
         /\ \A a \in {0, 512} \ {b} : InBucket(a)' = InBucket(a)
         /\ \A a \in {0, 512} : BucketHolds(a)'
<1>1. \A a \in {0, 512} : /\ hashtable[a] \notin NewEntries /\ BucketHolds(a)
                          /\ InBucket(a) \subseteq MadeEntries
                          /\ hashtable[a] \in InBucket(a) \cup {Nil}
                          /\ \A x \in InBucket(a) : entry[x].next \in InBucket(a) \cup {Nil}
  BY BucketIsClosed DEF TableHolds
<1>2. InBucket(b)' = InBucket(b) \ {q}
  BY <1>1, BucketWithout
<1>3. ASSUME NEW a \in {0, 512} \ {b} PROVE InBucket(a)' = InBucket(a) /\ BucketHolds(a)'
  <2>1. InBucket(a) \cap InBucket(b) = {}
    BY DEF TableHolds
  <2>2. \A x \in InBucket(a) : KeptAndNext(x)
    BY <1>1, <2>1
  <2> QED BY <1>1, <2>2, BucketKept
<1>4. BucketHolds(b)'
  <2>1. PICK X : X = InBucket(b)
    OBVIOUS
  <2>2. q \in X /\ q # Nil /\ entry[q].next # q
    <3>1. CASE hashtable[b] = q
      BY <1>1, <2>1, <3>1, MadeAreEntries DEF BucketHolds
    <3>2. CASE hashtable[b] # q
      BY <1>1, <2>1, <3>2, HasPrevious, MadeAreEntries
    <3> QED BY <3>1, <3>2
  <2>3. \A x \in X \ {q} : Kept(x)
    BY <1>1, <2>1
  <2>4. \A x \in X \ {q} : ~entry'[x].gone /\ Leads(entry'[x].hwnd, b)
    BY <1>1, <2>1, <2>3 DEF BucketHolds, Kept
  <2>5. \A x, y \in X : entry[x].next = entry[y].next /\ entry[x].next # Nil => x = y
    BY <1>1, <2>1 DEF BucketHolds
  <2>6. \A x \in X : entry'[x].next = IF entry[x].next = q THEN entry[q].next ELSE entry[x].next
    BY <2>1
  <2>7. \A x, y \in X \ {q} :
          entry'[x].next = entry'[y].next /\ entry'[x].next # Nil => x = y
    <3> SUFFICES ASSUME NEW x \in X \ {q}, NEW y \in X \ {q},
                        entry'[x].next = entry'[y].next, entry'[x].next # Nil
                 PROVE  x = y
      OBVIOUS
    <3>1. CASE entry[x].next = q /\ entry[y].next = q
      BY <2>2, <2>5, <3>1
    <3>2. CASE entry[x].next = q /\ entry[y].next # q
      BY <2>2, <2>5, <2>6, <3>2
    <3>3. CASE entry[x].next # q /\ entry[y].next = q
      BY <2>2, <2>5, <2>6, <3>3
    <3>4. CASE entry[x].next # q /\ entry[y].next # q
      BY <2>5, <2>6, <3>4
    <3> QED BY <3>1, <3>2, <3>3, <3>4
  <2>8. ASSUME NEW x \in X \ {q} PROVE entry'[x].next # hashtable'[b]
    <3>0. \A y \in X : entry[y].next # hashtable[b]
      BY <1>1, <2>1 DEF BucketHolds
    <3>1. CASE hashtable[b] = q
      <4>1. hashtable'[b] = entry[q].next /\ entry[x].next # q
        BY <3>0, <3>1
      <4>2. entry'[x].next = entry[x].next
        BY <2>6, <4>1
      <4>3. entry[x].next = entry[q].next => entry[q].next = Nil
        BY <2>2, <2>5
      <4>4. CASE entry[q].next # Nil
        BY <4>1, <4>2, <4>3, <4>4
      <4>5. CASE entry[q].next = Nil
        <5>1. Closed(b, {q})
          BY <3>1, <4>5 DEF Closed
        <5>2. X \subseteq {q}
          BY <1>1, <2>1, <5>1, BucketIsLeast
        <5> QED BY <5>2
      <4> QED BY <4>4, <4>5
    <3>2. CASE hashtable[b] # q
      BY <2>2, <2>6, <3>0, <3>2
    <3> QED BY <3>1, <3>2
  <2>9. ASSUME X \ {q} # {} PROVE \E x \in X \ {q} : entry'[x].next = Nil
    <3>1. PICK z \in X : entry[z].next = Nil
      BY <1>1, <2>1, <2>9 DEF BucketHolds
    <3>2. CASE z # q
      BY <2>2, <2>6, <3>1, <3>2
    <3>3. CASE z = q /\ hashtable[b] # q
      <4>1. PICK p \in X : p # q /\ entry[p].next = q
        BY <1>1, <2>1, <3>3, HasPrevious
      <4> QED BY <2>6, <3>1, <3>3, <4>1
    <3>4. CASE z = q /\ hashtable[b] = q
      <4>1. Closed(b, {q})
        BY <3>1, <3>4 DEF Closed
      <4>2. X \subseteq {q}
        BY <1>1, <2>1, <4>1, BucketIsLeast
      <4> QED BY <2>9, <4>2
    <3> QED BY <3>2, <3>3, <3>4
  <2>10. \A x, y \in X \ {q} : entry'[x].hwnd = entry'[y].hwnd => x = y
    BY <1>1, <2>1, <2>3 DEF BucketHolds, Kept
  <2>11. InBucket(b)' = X \ {q}
    BY <1>2, <2>1
  <2> QED BY <2>4, <2>7, <2>8, <2>9, <2>10, <2>11 DEF BucketHolds
<1> QED BY <1>2, <1>3, <1>4
-----------------------------------------------------------------------------
(* A client in getWindow stays where it is when an entry is appended: it   *)
(* is at the last entry, and has read no next, or it is not.               *)
LEMMA AppendKeepsLook ==
  ASSUME TableTypeOK, NextMade, TableHolds, NEW b \in {0, 512},
         NEW t \in InBucket(b), entry[t].next = Nil, hashtable' = hashtable,
         \A a \in {0, 512} : InBucket(a) \subseteq InBucket(a)',
         \A x \in InBuckets : Kept(x) /\ (x # t => KeptAndNext(x)),
         NEW c \in TableClients, look'[c] = look[c],
         NEW a \in {0, 512}, NEW met, Passed(c, a, met)
  PROVE  Passed(c, a, met)'
<1>1. PICK l : l = look[c] /\ l = look'[c]
  OBVIOUS
<1>2. /\ Leads(l.h, a) /\ met \subseteq InBucket(a)
      /\ l.last # Nil => l.last \in met /\ hashtable[a] \in met
      /\ l.last = Nil => met = {}
      /\ \A e \in met : entry[e].hwnd # l.h /\ (e # l.last => entry[e].next \in met)
      /\ l.pc = "walk" /\ l.cur # Nil =>
           l.cur = IF l.last = Nil THEN hashtable[a] ELSE entry[l.last].next
  BY <1>1 DEF Passed
<1>3. met \subseteq InBuckets /\ Nil \notin met
  BY <1>2, BucketIsClosed, MadeAreEntries DEF TableHolds, InBuckets
<1>4. \A e \in met : entry'[e].hwnd # l.h /\ (e # l.last => entry'[e].next \in met)
  <2> SUFFICES ASSUME NEW e \in met
               PROVE  entry'[e].hwnd # l.h /\ (e # l.last => entry'[e].next \in met)
    OBVIOUS
  <2>1. entry'[e].hwnd = entry[e].hwnd
    BY <1>3 DEF Kept
  <2>2. ASSUME e # l.last PROVE e # t
    BY <1>2, <1>3, <2>2
  <2> QED BY <1>2, <1>3, <2>1, <2>2 DEF KeptAndNext
<1>5. ASSUME l.pc = "walk", l.cur # Nil
      PROVE  l.cur = IF l.last = Nil THEN hashtable'[a] ELSE entry'[l.last].next
  <2>1. CASE l.last = Nil
    BY <1>2, <1>5, <2>1
  <2>2. CASE l.last # Nil
    <3>1. l.last \in InBuckets /\ l.last # t
      BY <1>2, <1>3, <1>5, <2>2
    <3> QED BY <1>2, <1>5, <2>2, <3>1 DEF KeptAndNext
  <2> QED BY <2>1, <2>2
<1>6. met \subseteq InBucket(a)'
  BY <1>2
<1> QED BY <1>1, <1>2, <1>4, <1>5, <1>6 DEF Passed, Leads

(* When a bucket gets its first entry, it has met none there.              *)
LEMMA EnterKeepsLook ==
  ASSUME TableTypeOK, NextMade, TableHolds, NEW b \in {0, 512},
         hashtable[b] = Nil, InBucket(b) = {},
         \A a \in {0, 512} \ {b} : hashtable'[a] = hashtable[a] /\ InBucket(a)' = InBucket(a),
         \A x \in InBuckets : KeptAndNext(x),
         NEW c \in TableClients, look'[c] = look[c],
         NEW a \in {0, 512}, NEW met, Passed(c, a, met)
  PROVE  Passed(c, a, met)'
<1>1. PICK l : l = look[c] /\ l = look'[c]
  OBVIOUS
<1>2. /\ Leads(l.h, a) /\ met \subseteq InBucket(a)
      /\ l.last # Nil => l.last \in met /\ hashtable[a] \in met
      /\ l.last = Nil => met = {}
      /\ \A e \in met : entry[e].hwnd # l.h /\ (e # l.last => entry[e].next \in met)
      /\ l.pc = "walk" /\ l.cur # Nil =>
           l.cur = IF l.last = Nil THEN hashtable[a] ELSE entry[l.last].next
  BY <1>1 DEF Passed
<1>3. met \subseteq InBuckets
  BY <1>2 DEF InBuckets
<1>4. CASE a = b
  <2>1. met = {} /\ l.last = Nil /\ ~(l.pc = "walk" /\ l.cur # Nil)
    BY <1>2, <1>4
  <2> QED BY <1>1, <1>2, <2>1 DEF Passed, Leads
<1>5. CASE a # b
  <2>1. hashtable'[a] = hashtable[a] /\ InBucket(a)' = InBucket(a)
    BY <1>5
  <2>2. \A e \in met : entry'[e].hwnd = entry[e].hwnd /\ entry'[e].next = entry[e].next
    BY <1>3 DEF KeptAndNext, Kept
  <2>3. \A e \in met : entry'[e].hwnd # l.h /\ (e # l.last => entry'[e].next \in met)
    BY <1>2, <2>2
  <2>4. l.last # Nil => entry'[l.last].next = entry[l.last].next
    BY <1>2, <2>2
  <2>5. met \subseteq InBucket(a)'
    BY <1>2, <2>1
  <2>6. l.pc = "walk" /\ l.cur # Nil =>
          l.cur = IF l.last = Nil THEN hashtable'[a] ELSE entry'[l.last].next
    BY <1>2, <2>1, <2>4
  <2>7. l.last # Nil => l.last \in met /\ hashtable'[a] \in met
    BY <1>2, <2>1
  <2> QED BY <1>1, <1>2, <2>3, <2>5, <2>6, <2>7 DEF Passed, Leads
<1> QED BY <1>4, <1>5

(* When an entry is taken out that it is not at and is not going to: it    *)
(* may have met it before.                                                 *)
LEMMA RemoveKeepsLook ==
  ASSUME TableTypeOK, NextMade, TableHolds, NEW b \in {0, 512}, NEW q \in InBucket(b),
         hashtable'[b] = IF hashtable[b] = q THEN entry[q].next ELSE hashtable[b],
         \A a \in {0, 512} \ {b} : hashtable'[a] = hashtable[a] /\ InBucket(a)' = InBucket(a),
         InBucket(b)' = InBucket(b) \ {q},
         \A x \in InBuckets \ {q} : Kept(x),
         \A x \in InBucket(b) : entry'[x].next = IF entry[x].next = q THEN entry[q].next
                                                 ELSE entry[x].next,
         \A x \in InBuckets \ InBucket(b) : KeptAndNext(x),
         NEW c \in TableClients, look'[c] = look[c], q \notin {look[c].cur, look[c].last},
         NEW a \in {0, 512}, NEW met, Passed(c, a, met)
  PROVE  Passed(c, a, met \ {q})'
<1>1. PICK l : l = look[c] /\ l = look'[c] /\ l.cur # q /\ l.last # q
  OBVIOUS
<1>2. /\ Leads(l.h, a) /\ met \subseteq InBucket(a)
      /\ l.last # Nil => l.last \in met /\ hashtable[a] \in met
      /\ l.last = Nil => met = {}
      /\ \A e \in met : entry[e].hwnd # l.h /\ (e # l.last => entry[e].next \in met)
      /\ l.pc = "walk" /\ l.cur # Nil =>
           l.cur = IF l.last = Nil THEN hashtable[a] ELSE entry[l.last].next
  BY <1>1 DEF Passed
<1>3. met \subseteq InBuckets
  BY <1>2 DEF InBuckets
<1>4. \A e \in met \ {q} : entry'[e].hwnd # l.h
  BY <1>2, <1>3 DEF Kept
<1>5. CASE a # b
  <2>1. /\ hashtable'[a] = hashtable[a] /\ InBucket(a)' = InBucket(a)
        /\ q \notin InBucket(a) /\ InBucket(a) \cap InBucket(b) = {}
    BY <1>5 DEF TableHolds
  <2>2. met \ {q} = met /\ \A e \in met : entry'[e].next = entry[e].next
    BY <1>2, <1>3, <2>1 DEF KeptAndNext
  <2>3. \A e \in met \ {q} : e # l.last => entry'[e].next \in met \ {q}
    BY <1>2, <2>2
  <2>4. met \ {q} \subseteq InBucket(a)'
    BY <1>2, <2>1
  <2>5. l.pc = "walk" /\ l.cur # Nil =>
          l.cur = IF l.last = Nil THEN hashtable'[a] ELSE entry'[l.last].next
    BY <1>2, <2>1, <2>2
  <2>6. l.last # Nil => l.last \in met \ {q} /\ hashtable'[a] \in met \ {q}
    BY <1>2, <2>1, <2>2
  <2> QED BY <1>1, <1>2, <1>4, <2>3, <2>4, <2>5, <2>6 DEF Passed, Leads
<1>6. CASE a = b
  <2>0. entry[q].next # q
    <3>0. hashtable[b] \notin NewEntries /\ BucketHolds(b)
      BY DEF TableHolds
    <3>1. CASE hashtable[b] = q
      BY <3>0, <3>1 DEF BucketHolds
    <3>2. CASE hashtable[b] # q
      BY <3>0, <3>2, HasPrevious
    <3> QED BY <3>1, <3>2
  <2>1. \A e \in met \ {q} : e # l.last => entry'[e].next \in met \ {q}
    <3> SUFFICES ASSUME NEW e \in met \ {q}, e # l.last PROVE entry'[e].next \in met \ {q}
      OBVIOUS
    <3>1. entry'[e].next = IF entry[e].next = q THEN entry[q].next ELSE entry[e].next
      BY <1>2, <1>6
    <3>2. entry[e].next \in met
      BY <1>2
    <3>3. entry[e].next = q => entry[q].next \in met
      BY <1>1, <1>2, <3>2
    <3> QED BY <2>0, <3>1, <3>2, <3>3
  <2>2. met \ {q} \subseteq InBucket(a)'
    BY <1>2, <1>6
  <2>3. l.pc = "walk" /\ l.cur # Nil =>
          l.cur = IF l.last = Nil THEN hashtable'[a] ELSE entry'[l.last].next
    BY <1>1, <1>2, <1>6
  <2>4. l.last # Nil => l.last \in met \ {q} /\ hashtable'[a] \in met \ {q}
    BY <1>1, <1>2, <1>6, <2>0
  <2>5. l.last = Nil => met \ {q} = {}
    BY <1>2
  <2> QED BY <1>1, <1>2, <1>4, <2>1, <2>2, <2>3, <2>4, <2>5 DEF Passed, Leads
<1> QED BY <1>5, <1>6

(* The entries that clients are about to link, and the windows' entries.   *)
LEMMA MadeKept ==
  ASSUME MadeHold,
         \A c \in TableClients : Making(c)' =>
           look'[c] = look[c] /\ look[c].cur \notin InBuckets' /\ KeptAndNext(look[c].cur)
  PROVE  MadeHold'
<1>1. \A c \in TableClients : Making(c)' => Making(c)
  BY DEF Making
<1>2. ASSUME NEW c \in TableClients, Making(c)'
      PROVE  /\ look'[c].cur \in MadeEntries' /\ look'[c].cur \notin InBuckets'
             /\ entry'[look'[c].cur].hwnd = look'[c].h /\ entry'[look'[c].cur].next = Nil
             /\ ~entry'[look'[c].cur].gone
  <2>1. PICK l : l = look[c] /\ l = look'[c]
    BY <1>2
  <2>2. Kept(l.cur) /\ entry'[l.cur].next = entry[l.cur].next /\ l.cur \notin InBuckets'
    BY <1>2, <2>1 DEF KeptAndNext
  <2>3. entry[l.cur].hwnd = l.h /\ entry[l.cur].next = Nil /\ ~entry[l.cur].gone
    BY <1>1, <1>2, <2>1 DEF MadeHold
  <2> QED BY <2>1, <2>2, <2>3 DEF Kept
<1>3. \A c, d \in TableClients :
        Making(c)' /\ Making(d)' /\ look'[c].cur = look'[d].cur => c = d
  BY <1>1 DEF MadeHold
<1> QED BY <1>2, <1>3 DEF MadeHold, Making

LEMMA WindowsKept ==
  ASSUME TableTypeOK, WindowsHold, exists' = exists, xid' = xid, stale' = stale,
         \A a \in {0, 512} : InBucket(a) \subseteq InBucket(a)',
         \A x \in InBuckets : Kept(x)
  PROVE  WindowsHold'
<1>1. ASSUME NEW h \in Handles, exists[h] = "xpm"
      PROVE  /\ xid[h] \in InBucket(Bucket[h])' /\ entry'[xid[h]].hwnd = h
             /\ h \notin stale => entry'[xid[h]].own
  <2>1. PICK e : e = xid[h]
    OBVIOUS
  <2>2. PICK b \in {0, 512} : b = Bucket[h]
    BY Handling
  <2>3. e \in InBucket(b) /\ entry[e].hwnd = h /\ (h \notin stale => entry[e].own)
    BY <1>1, <2>1, <2>2 DEF WindowsHold
  <2>4. e \in InBucket(b)' /\ e \in InBuckets
    BY <2>3 DEF InBuckets
  <2> QED BY <2>1, <2>2, <2>3, <2>4 DEF Kept
<1> QED BY <1>1 DEF WindowsHold
-----------------------------------------------------------------------------
LEMMA TableInitial == TableInit => TableInv
<1> SUFFICES ASSUME TableInit PROVE TableInv
  OBVIOUS
<1>1. TableTypeOK
  <2>1. NotLooking \in [pc : {"idle", "walk", "append", "first"}, h : Handles \cup {Nil},
                        cur : Entries \cup {Nil}, last : Entries \cup {Nil}]
    BY DEF NotLooking
  <2> QED BY <2>1 DEF TableInit, TableTypeOK
<1>2. NewEntries = Entries
  BY DEF TableInit, NewEntries
<1>3. InBucket(0) = {} /\ InBucket(512) = {} /\ NextMade
  BY <1>2 DEF InBucket, NextMade, MadeEntries
<1>4. \A b \in {0, 512} : hashtable[b] \notin NewEntries /\ BucketHolds(b)
  BY <1>2, <1>3, TableAssumption DEF TableInit, BucketHolds, Entries
<1>5. WindowsHold
  BY TableAssumption DEF TableInit, WindowsHold
<1>6. \A c \in TableClients : look[c].pc = "idle"
  BY DEF TableInit, NotLooking
<1>7. LooksHold /\ MadeHold
  BY <1>6 DEF LooksHold, MadeHold, Making
<1> QED BY <1>1, <1>3, <1>4, <1>5, <1>7 DEF TableInv, TableHolds

(* A step that leaves the buckets and the clients alone.                   *)
LEMMA OnlyWindows ==
  ASSUME NextMade, TableHolds, hashtable' = hashtable, entry' = entry, look' = look,
         WindowsHold'
  PROVE  NextMade' /\ TableHolds'
<1>1. NewEntries' = NewEntries
  BY DEF NewEntries
<1>2. \A b : InBucket(b)' = InBucket(b)
  BY <1>1 DEF InBucket, Closed
<1>3. InBuckets' = InBuckets /\ MadeEntries' = MadeEntries
  BY <1>1, <1>2 DEF InBuckets, MadeEntries
<1>4. NextMade'
  BY <1>1, <1>3 DEF NextMade
<1>5. ASSUME NEW b \in {0, 512} PROVE hashtable'[b] \notin NewEntries' /\ BucketHolds(b)'
  <2>1. hashtable[b] \notin NewEntries /\ BucketHolds(b)
    BY DEF TableHolds
  <2> QED BY <1>1, <1>2, <2>1 DEF BucketHolds
<1>6. LooksHold'
  <2>1. \A c, b, met : Passed(c, b, met)' <=> Passed(c, b, met)
    BY <1>2 DEF Passed
  <2> QED BY <2>1 DEF LooksHold, TableHolds
<1>7. MadeHold'
  BY <1>1, <1>3 DEF MadeHold, TableHolds, Making
<1> QED BY <1>2, <1>4, <1>5, <1>6, <1>7 DEF TableHolds

(* An entry is made: whose next is Nil, and which is in no bucket.           *)
LEMMA OneMadeMore ==
  ASSUME TableTypeOK, NextMade, NEW e \in NewEntries,
         e \in MadeEntries', entry'[e].next = Nil,
         \A x \in MadeEntries : x \in MadeEntries' /\ entry'[x].next \in {entry[x].next, e},
         \A x \in Entries \ {e} : entry'[x] = Nil <=> entry[x] = Nil
  PROVE  NextMade' /\ NewEntries' = NewEntries \ {e}
<1>1. NewEntries' = NewEntries \ {e} /\ MadeEntries' = MadeEntries \cup {e}
  BY MadeAreEntries DEF NewEntries, MadeEntries
<1>2. Nil \notin NewEntries
  BY TableAssumption DEF NewEntries, Entries
<1> QED BY <1>1, <1>2 DEF NextMade

LEMMA LastIsLast ==
  ASSUME TableTypeOK, NextMade, TableHolds, NEW b \in {0, 512}, hashtable[b] # Nil
  PROVE  /\ LastOf(b) \in InBucket(b) /\ entry[LastOf(b)].next = Nil
         /\ LastOf(b) \in MadeEntries
<1>1. hashtable[b] \in InBucket(b) /\ InBucket(b) \subseteq MadeEntries /\ BucketHolds(b)
  BY BucketIsClosed DEF TableHolds
<1>2. \E e \in InBucket(b) : entry[e].next = Nil
  BY <1>1 DEF BucketHolds
<1> QED BY <1>1, <1>2 DEF LastOf

LEMMA CreateXpmWindowType ==
  ASSUME TableTypeOK, NextMade, TableHolds, NEW h \in Handles, CreateXpmWindow(h)
  PROVE  TableTypeOK'
<1>1. /\ exists' = [exists EXCEPT ![h] = "xpm"]
      /\ stale' = IF Found(h) = {} THEN stale \ {h} ELSE stale \cup {h}
      /\ look' = look /\ clash' = clash /\ NewEntries # {}
  BY DEF CreateXpmWindow
<1>2. NewEntry \in Entries
  BY <1>1, NewEntryIsNew
<1>3. /\ xid' \in [Handles -> Entries \cup {Nil}]
      /\ hashtable' \in [{0, 512} -> Entries \cup {Nil}]
      /\ entry' \in [Entries -> WindowEntryType \cup {Nil}]
  <2>1. CASE Found(h) # {}
    <3>1. (CHOOSE e \in Found(h) : TRUE) \in Entries
      <4>1. (CHOOSE e \in Found(h) : TRUE) \in Found(h)
        BY <2>1
      <4> QED BY <4>1 DEF Found, InBucket
    <3>2. xid' = [xid EXCEPT ![h] = CHOOSE e \in Found(h) : TRUE]
          /\ hashtable' = hashtable /\ entry' = entry
      BY <2>1 DEF CreateXpmWindow
    <3> QED BY <3>1, <3>2 DEF TableTypeOK, WindowEntryType
  <2>2. CASE Found(h) = {}
    <3>1. PICK filled : filled = [entry EXCEPT ![NewEntry] =
                                [hwnd |-> h, next |-> Nil, own |-> TRUE, gone |-> FALSE]]
      OBVIOUS
    <3>2. filled \in [Entries -> WindowEntryType \cup {Nil}]
      <4>1. [hwnd |-> h, next |-> Nil, own |-> TRUE, gone |-> FALSE] \in WindowEntryType
        BY DEF WindowEntryType
      <4> QED BY <3>1, <4>1 DEF TableTypeOK, WindowEntryType
    <3>3. /\ xid' = [xid EXCEPT ![h] = NewEntry]
          /\ \/ /\ hashtable' = [hashtable EXCEPT ![Bucket[h]] = NewEntry]
                /\ entry' = filled
             \/ /\ entry' = [filled EXCEPT ![LastOf(Bucket[h])].next = NewEntry]
                /\ hashtable' = hashtable /\ hashtable[Bucket[h]] # Nil
      BY <2>2, <3>1 DEF CreateXpmWindow
    <3>4. ASSUME hashtable[Bucket[h]] # Nil
          PROVE  [filled EXCEPT ![LastOf(Bucket[h])].next = NewEntry]
                   \in [Entries -> WindowEntryType \cup {Nil}]
      <4>1. PICK l : l = LastOf(Bucket[h])
        OBVIOUS
      <4>2. l \in MadeEntries
        BY <3>4, <4>1, LastIsLast, Handling
      <4>3. filled[l] \in WindowEntryType
        <5>1. entry[l] \in WindowEntryType /\ l \in Entries /\ l \notin NewEntries
          BY <4>2, MadeAreEntries DEF MadeEntries
        <5>2. l # NewEntry
          BY <1>1, <5>1, NewEntryIsNew
        <5> QED BY <3>1, <5>1, <5>2 DEF TableTypeOK
      <4>4. [filled[l] EXCEPT !.next = NewEntry] \in WindowEntryType
        BY <1>2, <4>3 DEF WindowEntryType
      <4> QED BY <3>2, <4>1, <4>4
    <3>5. xid' \in [Handles -> Entries \cup {Nil}]
      BY <1>2, <3>3 DEF TableTypeOK
    <3>6. hashtable' \in [{0, 512} -> Entries \cup {Nil}]
      <4>1. hashtable' = [hashtable EXCEPT ![Bucket[h]] = NewEntry] \/ hashtable' = hashtable
        BY <3>3
      <4>2. Bucket[h] \in {0, 512}
        BY Handling
      <4> QED BY <1>2, <4>1, <4>2 DEF TableTypeOK
    <3>7. entry' \in [Entries -> WindowEntryType \cup {Nil}]
      <4>1. CASE entry' = filled
        BY <3>2, <4>1
      <4>2. CASE entry' # filled
        <5>1. /\ entry' = [filled EXCEPT ![LastOf(Bucket[h])].next = NewEntry]
              /\ hashtable[Bucket[h]] # Nil
          BY <3>3, <4>2, Zenon
        <5> QED BY <3>4, <5>1, Zenon
      <4> QED BY <4>1, <4>2
    <3> QED BY <3>5, <3>6, <3>7
  <2> QED BY <2>1, <2>2
<1>4. exists' \in [Handles -> {"none", "xpm", "foreign"}]
  BY <1>1 DEF TableTypeOK
<1>5. stale' \subseteq Handles
  BY <1>1 DEF TableTypeOK
<1>6. look' = look /\ clash' = clash
  BY <1>1
<1> QED BY <1>3, <1>4, <1>5, <1>6 DEF TableTypeOK, WindowEntryType

(* The hook enters the window: it is found, or an entry is filled for it and *)
(* put at the end of its bucket.                                           *)
LEMMA CreateXpmWindowKeeps ==
  ASSUME TableTypeOK, NextMade, TableHolds, NEW h \in Handles, CreateXpmWindow(h)
  PROVE  NextMade' /\ TableHolds'
<1>0. PICK b \in {0, 512} : b = Bucket[h]
  BY Handling
<1>1. /\ exists[h] = "none" /\ NewEntries # {}
      /\ exists' = [exists EXCEPT ![h] = "xpm"]
      /\ stale' = IF Found(h) = {} THEN stale \ {h} ELSE stale \cup {h}
      /\ look' = look
  BY DEF CreateXpmWindow
<1>2. Alias(h) = h /\ Alias(h) # HWND_DESKTOP /\ Leads(h, b)
  BY <1>0, <1>1, Handling DEF TableHolds, WindowsHold, Leads
<1>3. Found(h) = {e \in InBucket(b) : entry[e].hwnd = h}
  BY <1>0, <1>2 DEF Found
<1>4. exists'[h] = "xpm" /\ \A g \in Handles : g # h => exists'[g] = exists[g]
  BY <1>1 DEF TableTypeOK
<1>5. \A g \in Handles : g # h => (g \notin stale' <=> g \notin stale)
  BY <1>1
<1>6. CASE Found(h) # {}
  <2>1. PICK e : e = CHOOSE x \in Found(h) : TRUE
    OBVIOUS
  <2>2. e \in InBucket(b) /\ entry[e].hwnd = h
    BY <1>3, <1>6, <2>1
  <2>3. xid' = [xid EXCEPT ![h] = e] /\ hashtable' = hashtable /\ entry' = entry
    BY <1>6, <2>1 DEF CreateXpmWindow
  <2>4. \A a : InBucket(a)' = InBucket(a)
    BY <2>3 DEF InBucket, Closed, NewEntries
  <2>5. WindowsHold'
    <3> SUFFICES ASSUME NEW g \in Handles
                 PROVE  /\ Alias(g) = HWND_DESKTOP => exists'[g] = "foreign"
                        /\ exists'[g] = "xpm" => /\ xid'[g] \in InBucket(Bucket[g])'
                                                 /\ entry'[xid'[g]].hwnd = g
                                                 /\ g \notin stale' => entry'[xid'[g]].own
      BY DEF WindowsHold
    <3>1. CASE g = h
      <4>1. xid'[g] = e /\ g \in stale'
        BY <1>1, <1>6, <2>3, <3>1 DEF TableTypeOK
      <4> QED BY <1>0, <1>2, <2>2, <2>3, <2>4, <3>1, <4>1
    <3>2. CASE g # h
      <4>1. xid'[g] = xid[g]
        BY <2>3, <3>2 DEF TableTypeOK
      <4> QED BY <1>4, <1>5, <2>3, <2>4, <3>2, <4>1 DEF TableHolds, WindowsHold
    <3> QED BY <3>1, <3>2
  <2> QED BY <1>1, <2>3, <2>5, OnlyWindows
<1>7. CASE Found(h) = {}
  <2>1. PICK e : e = NewEntry
    OBVIOUS
  <2>2. e \in NewEntries /\ e \in Entries /\ e \notin MadeEntries /\ e # Nil
    BY <1>1, <2>1, NewEntryIsNew, MadeAreEntries DEF MadeEntries
  <2>3. \A a \in {0, 512} : /\ hashtable[a] \notin NewEntries
                            /\ InBucket(a) \subseteq MadeEntries
                            /\ hashtable[a] \in InBucket(a) \cup {Nil}
    BY BucketIsClosed DEF TableHolds
  <2>4. e \notin InBuckets /\ InBuckets \subseteq MadeEntries
    BY <2>2, <2>3 DEF InBuckets
  <2> DEFINE r == [hwnd |-> h, next |-> Nil, own |-> TRUE, gone |-> FALSE]
  <2>6. /\ r.hwnd = h /\ r.next = Nil /\ r.own /\ ~r.gone /\ r \in WindowEntryType
    BY DEF WindowEntryType
  <2>7. xid' = [xid EXCEPT ![h] = e]
        /\ IF hashtable[b] = Nil
           THEN hashtable' = [hashtable EXCEPT ![b] = e] /\ entry' = [entry EXCEPT ![e] = r]
           ELSE /\ entry' = [[entry EXCEPT ![e] = r] EXCEPT ![LastOf(b)].next = e]
                /\ hashtable' = hashtable
    BY <1>0, <1>7, <2>1 DEF CreateXpmWindow
  <2> HIDE DEF r
  <2>8. \A x \in InBucket(b) : entry[x].hwnd # h
    BY <1>3, <1>7
  <2>9. /\ \A a \in {0, 512} : /\ BucketHolds(a)' /\ InBucket(a) \subseteq InBucket(a)'
                               /\ InBucket(a)' \subseteq InBucket(a) \cup {e}
                               /\ hashtable'[a] \in {hashtable[a], e}
                               /\ a # b => InBucket(a)' = InBucket(a)
        /\ e \in InBucket(b)' /\ entry'[e] = r /\ e \in MadeEntries'
        /\ \A x \in MadeEntries : Kept(x) /\ entry'[x].next \in {entry[x].next, e}
        /\ \A x \in MadeEntries \ InBuckets : KeptAndNext(x)
        /\ \A x \in Entries \ {e} : entry'[x] = Nil <=> entry[x] = Nil
        /\ \A c \in TableClients, a \in {0, 512}, met \in SUBSET Entries :
             Passed(c, a, met) => Passed(c, a, met)'
    <3>1. CASE hashtable[b] = Nil
      <4>1. hashtable' = [hashtable EXCEPT ![b] = e] /\ entry' = [entry EXCEPT ![e] = r]
        BY <2>7, <3>1
      <4>2. entry'[e] = r /\ \A x \in Entries \ {e} : entry'[x] = entry[x]
        BY <2>2, <4>1 DEF TableTypeOK
      <4>3. e \in MadeEntries'
        BY <2>2, <2>6, <4>2, TableAssumption DEF MadeEntries, NewEntries, WindowEntryType, Entries
      <4>4. \A x \in MadeEntries : KeptAndNext(x)
        <5>1. \A x \in MadeEntries : x \in Entries /\ x # e /\ entry[x] # Nil
          BY <2>2 DEF MadeEntries, NewEntries
        <5> QED BY <4>2, <5>1 DEF KeptAndNext, Kept, MadeEntries, NewEntries
      <4>5. /\ InBucket(b) = {} /\ InBucket(b)' = {e}
            /\ \A a \in {0, 512} \ {b} : InBucket(a)' = InBucket(a)
            /\ \A a \in {0, 512} : BucketHolds(a)'
        <5>1. entry'[e].next = Nil /\ ~entry'[e].gone /\ Leads(entry'[e].hwnd, b)
          BY <1>2, <2>6, <4>2 DEF Leads
        <5>2. \A x \in MadeEntries \ {e} : KeptAndNext(x)
          BY <4>4
        <5>3. hashtable' = [hashtable EXCEPT ![b] = e] /\ e \in Entries /\ e \notin InBuckets
          BY <2>2, <2>4, <4>1
        <5> QED BY <3>1, <4>3, <5>1, <5>2, <5>3, EnterKeeps, ZenonT(30)
      <4>6. \A a \in {0, 512} : hashtable'[a] = IF a = b THEN e ELSE hashtable[a]
        BY <4>1 DEF TableTypeOK
      <4>7. \A c \in TableClients, a \in {0, 512}, met \in SUBSET Entries :
             Passed(c, a, met) => Passed(c, a, met)'
        <5>1. \A a \in {0, 512} \ {b} : hashtable'[a] = hashtable[a] /\ InBucket(a)' = InBucket(a)
          BY <4>5, <4>6
        <5>2. \A x \in InBuckets : KeptAndNext(x)
          BY <2>4, <4>4
        <5>3. \A c \in TableClients : look'[c] = look[c]
          BY <1>1
        <5> QED BY <3>1, <4>5, <5>1, <5>2, <5>3, EnterKeepsLook
      <4> QED BY <4>2, <4>3, <4>4, <4>5, <4>6, <4>7 DEF KeptAndNext
    <3>2. CASE hashtable[b] # Nil
      <4>0. PICK t : t = LastOf(b)
        OBVIOUS
      <4>1. t \in InBucket(b) /\ entry[t].next = Nil /\ t \in MadeEntries /\ t # e
            /\ t \in InBuckets /\ entry[t] \in WindowEntryType /\ t \in Entries
        BY <2>4, <3>2, <4>0, LastIsLast, MadeAreEntries DEF InBuckets
      <4>2. hashtable' = hashtable /\ entry' = [[entry EXCEPT ![e] = r] EXCEPT ![t].next = e]
        BY <2>7, <3>2, <4>0
      <4>3. /\ entry'[e] = r /\ \A x \in Entries \ {e, t} : entry'[x] = entry[x]
            /\ entry'[t] = [entry[t] EXCEPT !.next = e]
        BY <2>2, <4>1, <4>2 DEF TableTypeOK
      <4>4. /\ entry'[t].next = e /\ entry'[t].hwnd = entry[t].hwnd /\ entry'[t].own = entry[t].own
            /\ entry'[t].gone = entry[t].gone /\ entry'[t] \in WindowEntryType
        BY <2>2, <4>1, <4>3 DEF WindowEntryType
      <4>5. e \in MadeEntries' /\ t \in MadeEntries'
        BY <2>2, <2>6, <4>1, <4>3, <4>4, TableAssumption
           DEF MadeEntries, NewEntries, WindowEntryType, Entries
      <4>6. \A x \in MadeEntries \ {t, e} : KeptAndNext(x)
        <5>1. \A x \in MadeEntries : x \in Entries /\ x # e /\ entry[x] # Nil
          BY <2>2 DEF MadeEntries, NewEntries
        <5> QED BY <4>3, <5>1 DEF KeptAndNext, Kept, MadeEntries, NewEntries
      <4>7. Kept(t)
        BY <4>4, <4>5 DEF Kept
      <4>8. /\ InBucket(b)' = InBucket(b) \cup {e}
            /\ \A a \in {0, 512} \ {b} : InBucket(a)' = InBucket(a)
            /\ \A a \in {0, 512} : BucketHolds(a)'
        <5>1. entry'[e].next = Nil /\ ~entry'[e].gone /\ Leads(entry'[e].hwnd, b)
              /\ \A x \in InBucket(b) : entry[x].hwnd # entry'[e].hwnd
          BY <1>2, <2>6, <2>8, <4>3
        <5>2. /\ t \in InBucket(b) /\ entry[t].next = Nil /\ e \in Entries /\ e \notin InBuckets
              /\ e \in MadeEntries' /\ hashtable' = hashtable /\ entry'[t].next = e
          BY <2>2, <2>4, <4>1, <4>2, <4>4, <4>5
        <5>3. Appended(b, t, e)
          BY <4>6, <4>7, <5>1, <5>2 DEF Appended
        <5> QED BY <5>3, AppendKeeps
      <4>9. \A x \in MadeEntries : Kept(x) /\ (x # t => KeptAndNext(x))
        BY <2>2, <4>6, <4>7 DEF KeptAndNext
      <4>10. \A c \in TableClients, a \in {0, 512}, met \in SUBSET Entries :
             Passed(c, a, met) => Passed(c, a, met)'
        <5>1. \A a \in {0, 512} : InBucket(a) \subseteq InBucket(a)'
          BY <4>8
        <5>2. \A x \in InBuckets : Kept(x) /\ (x # t => KeptAndNext(x))
          BY <2>4, <4>9
        <5>3. \A c \in TableClients : look'[c] = look[c]
          BY <1>1
        <5> QED BY <4>1, <4>2, <5>1, <5>2, <5>3, AppendKeepsLook
      <4>11. \A x \in MadeEntries : entry'[x].next \in {entry[x].next, e}
        BY <4>4, <4>9 DEF KeptAndNext
      <4>12. \A x \in MadeEntries \ InBuckets : KeptAndNext(x)
        BY <4>1, <4>9
      <4>13. \A x \in Entries \ {e} : entry'[x] = Nil <=> entry[x] = Nil
        <5>1. entry[t] # Nil /\ entry'[t] # Nil
          BY <4>1, <4>5 DEF MadeEntries, NewEntries
        <5> QED BY <4>3, <5>1
      <4>14. \A a \in {0, 512} : /\ BucketHolds(a)' /\ InBucket(a) \subseteq InBucket(a)'
                                 /\ InBucket(a)' \subseteq InBucket(a) \cup {e}
                                 /\ hashtable'[a] \in {hashtable[a], e}
                                 /\ a # b => InBucket(a)' = InBucket(a)
        BY <4>2, <4>8
      <4>15. /\ e \in InBucket(b)' /\ entry'[e] = r /\ e \in MadeEntries'
             /\ \A x \in MadeEntries : Kept(x) /\ entry'[x].next \in {entry[x].next, e}
        BY <4>3, <4>5, <4>8, <4>9, <4>11
      <4> QED BY <4>10, <4>12, <4>13, <4>14, <4>15
    <3> QED BY <3>1, <3>2
  <2>10. NextMade' /\ NewEntries' = NewEntries \ {e}
    <3>1. entry'[e].next = Nil
      BY <2>6, <2>9
    <3>2. \A x \in MadeEntries : x \in MadeEntries' /\ entry'[x].next \in {entry[x].next, e}
      BY <2>9 DEF Kept
    <3> QED BY <2>2, <2>9, <3>1, <3>2, OneMadeMore
  <2>11. \A a \in {0, 512} : hashtable'[a] \notin NewEntries'
    BY <2>3, <2>9, <2>10
  <2>12. (InBucket(0) \cap InBucket(512) = {})'
    <3>1. InBucket(0) \cap InBucket(512) = {} /\ e \notin InBucket(0) /\ e \notin InBucket(512)
      BY <2>4 DEF TableHolds, InBuckets
    <3>2. CASE b = 0
      BY <2>9, <3>1, <3>2
    <3>3. CASE b = 512
      BY <2>9, <3>1, <3>3
    <3> QED BY <3>2, <3>3
  <2>13. InBuckets' \subseteq InBuckets \cup {e}
    BY <2>9 DEF InBuckets
  <2>14. LooksHold'
    BY <1>1, <2>9 DEF LooksHold, TableHolds
  <2>15. MadeHold'
    <3>1. ASSUME NEW c \in TableClients, Making(c)'
          PROVE  /\ look'[c] = look[c] /\ look[c].cur \notin InBuckets' /\ KeptAndNext(look[c].cur)
      <4>1. look'[c] = look[c] /\ Making(c)
        BY <1>1, <3>1 DEF Making
      <4>2. look[c].cur \in MadeEntries /\ look[c].cur \notin InBuckets
        BY <4>1 DEF TableHolds, MadeHold
      <4> QED BY <2>2, <2>9, <2>13, <4>1, <4>2
    <3> QED BY <3>1, MadeKept DEF TableHolds
  <2>16. WindowsHold'
    <3> SUFFICES ASSUME NEW g \in Handles
                 PROVE  /\ Alias(g) = HWND_DESKTOP => exists'[g] = "foreign"
                        /\ exists'[g] = "xpm" => /\ xid'[g] \in InBucket(Bucket[g])'
                                                 /\ entry'[xid'[g]].hwnd = g
                                                 /\ g \notin stale' => entry'[xid'[g]].own
      BY DEF WindowsHold
    <3>1. CASE g = h
      <4>1. xid'[g] = e
        BY <2>7, <3>1 DEF TableTypeOK
      <4> QED BY <1>0, <1>2, <2>6, <2>9, <3>1, <4>1
    <3>2. CASE g # h
      <4>1. xid'[g] = xid[g] /\ exists'[g] = exists[g] /\ (g \notin stale' <=> g \notin stale)
        BY <1>4, <1>5, <2>7, <3>2 DEF TableTypeOK
      <4>2. ASSUME exists[g] = "xpm"
            PROVE  /\ xid[g] \in InBucket(Bucket[g])' /\ entry'[xid[g]].hwnd = g
                   /\ g \notin stale => entry'[xid[g]].own
        <5>1. PICK x : x = xid[g]
          OBVIOUS
        <5>2. PICK a \in {0, 512} : a = Bucket[g]
          BY Handling
        <5>3. x \in InBucket(a) /\ entry[x].hwnd = g /\ (g \notin stale => entry[x].own)
          BY <4>2, <5>1, <5>2 DEF TableHolds, WindowsHold
        <5>4. x \in MadeEntries /\ x \in InBucket(a)'
          BY <2>3, <2>9, <5>3
        <5>5. Kept(x)
          BY <2>9, <5>4
        <5> QED BY <5>1, <5>2, <5>3, <5>4, <5>5 DEF Kept
      <4> QED BY <4>1, <4>2 DEF TableHolds, WindowsHold
    <3> QED BY <3>1, <3>2
  <2> QED BY <2>9, <2>10, <2>11, <2>12, <2>14, <2>15, <2>16 DEF TableHolds
<1> QED BY <1>6, <1>7

(* The daemon destroys a window: it finds the entry that it entered then,  *)
(* which nothing leads to any more.                                        *)
TakenOut(h, freeing, b, q) ==
  /\ b = Bucket[h] /\ q \in InBucket(b) /\ q \in MadeEntries /\ entry[q].hwnd = h
  /\ exists' = [exists EXCEPT ![h] = "none"] /\ xid' = [xid EXCEPT ![h] = Nil]
  /\ hashtable' = [hashtable EXCEPT ![b] = IF @ = q THEN entry[q].next ELSE @]
  /\ entry' \in [Entries -> WindowEntryType \cup {Nil}]
  /\ entry'[q] = [entry[q] EXCEPT !.gone = @ \/ freeing]
  /\ \A x \in Entries \ {q} :
       entry'[x] = IF x \in InBucket(b) /\ entry[x].next = q
                   THEN [entry[x] EXCEPT !.next = entry[q].next] ELSE entry[x]
  /\ clash' = \E c \in TableClients : q \in {look[c].cur, look[c].last}
  /\ look' = look /\ stale' = stale

LEMMA DestroyXpmWindowDoes ==
  ASSUME TableTypeOK, NextMade, TableHolds, NEW h \in Handles, NEW freeing \in BOOLEAN,
         DestroyXpmWindow(h, freeing)
  PROVE  \E b \in {0, 512}, q \in Entries : TakenOut(h, freeing, b, q)
<1>1. PICK b \in {0, 512} : b = Bucket[h]
  BY Handling
<1>2. PICK q : q = xid[h]
  OBVIOUS
<1>3. exists[h] = "xpm"
  BY DEF DestroyXpmWindow
<1>4. Alias(h) = h
  BY <1>3, Handling DEF TableHolds, WindowsHold
<1>5. q \in InBucket(b) /\ entry[q].hwnd = h
  BY <1>1, <1>2, <1>3 DEF TableHolds, WindowsHold
<1>6. hashtable[b] \notin NewEntries /\ BucketHolds(b) /\ InBucket(b) \subseteq MadeEntries
  BY BucketIsClosed DEF TableHolds
<1>7. Found(h) = {q}
  BY <1>1, <1>4, <1>5, <1>6 DEF Found, BucketHolds
<1>8. (CHOOSE e \in Found(h) : TRUE) = q /\ Found(h) # {}
  BY <1>7
<1>9. q \in Entries /\ entry[q] \in WindowEntryType
  BY <1>5, <1>6, MadeAreEntries
<1> DEFINE void == [entry EXCEPT ![q].gone = @ \/ freeing]
<1>10. /\ exists' = [exists EXCEPT ![h] = "none"] /\ xid' = [xid EXCEPT ![h] = Nil]
       /\ look' = look /\ stale' = stale
       /\ clash' = \E c \in TableClients : {look[c].cur, look[c].last} \cap {q} # {}
       /\ IF hashtable[b] = q
          THEN entry' = void /\ hashtable' = [hashtable EXCEPT ![b] = entry[q].next]
          ELSE /\ entry' = [void EXCEPT ![CHOOSE e \in InBucket(b) : entry[e].next = q].next
                              = entry[q].next]
               /\ hashtable' = hashtable
  <2>1. PICK old : old = CHOOSE e \in Found(h) : TRUE
    OBVIOUS
  <2>2. /\ exists' = [exists EXCEPT ![h] = "none"] /\ xid' = [xid EXCEPT ![h] = Nil]
        /\ look' = look /\ stale' = stale
        /\ clash' = \E c \in TableClients : {look[c].cur, look[c].last} \cap {old} # {}
    BY <1>8, <2>1 DEF DestroyXpmWindow
  <2>3. IF hashtable[b] = old
        THEN entry' = void /\ hashtable' = [hashtable EXCEPT ![b] = entry[old].next]
        ELSE /\ entry' = [void EXCEPT ![CHOOSE e \in InBucket(b) : entry[e].next = old].next
                            = entry[old].next]
             /\ hashtable' = hashtable
    BY <1>1, <1>2, <1>8, <2>1 DEF DestroyXpmWindow
  <2>4. old = q
    BY <1>8, <2>1
  <2> QED BY <2>2, <2>3, <2>4
<1>11. /\ void \in [Entries -> WindowEntryType \cup {Nil}]
       /\ void[q] = [entry[q] EXCEPT !.gone = @ \/ freeing]
       /\ \A x \in Entries \ {q} : void[x] = entry[x]
  <2>1. entry \in [Entries -> WindowEntryType \cup {Nil}]
    BY DEF TableTypeOK, WindowEntryType
  <2>2. [entry[q] EXCEPT !.gone = @ \/ freeing] \in WindowEntryType
    BY <1>9 DEF WindowEntryType
  <2> QED BY <1>9, <2>1, <2>2
<1> HIDE DEF void
<1>12. hashtable' = [hashtable EXCEPT ![b] = IF @ = q THEN entry[q].next ELSE @]
  <2>1. hashtable \in [{0, 512} -> Entries \cup {Nil}]
    BY DEF TableTypeOK
  <2> QED BY <1>10, <2>1
<1>13. /\ entry' \in [Entries -> WindowEntryType \cup {Nil}]
       /\ entry'[q] = void[q]
       /\ \A x \in Entries \ {q} :
            entry'[x] = IF x \in InBucket(b) /\ entry[x].next = q
                        THEN [entry[x] EXCEPT !.next = entry[q].next] ELSE entry[x]
  <2>1. CASE hashtable[b] = q
    <3>1. \A x \in InBucket(b) : entry[x].next # q
      BY <1>6, <2>1 DEF BucketHolds
    <3> QED BY <1>10, <1>11, <2>1, <3>1
  <2>2. CASE hashtable[b] # q
    <3>1. PICK p \in InBucket(b) : /\ p # q /\ entry[p].next = q
                                   /\ \A x \in InBucket(b) : entry[x].next = q => x = p
      BY <1>5, <1>6, <2>2, HasPrevious
    <3>2. (CHOOSE e \in InBucket(b) : entry[e].next = q) = p
      BY <3>1
    <3>3. entry' = [void EXCEPT ![p].next = entry[q].next]
      BY <1>10, <2>2, <3>2
    <3>4. p \in Entries /\ entry[p] \in WindowEntryType /\ void[p] = entry[p]
      BY <1>6, <1>11, <3>1, MadeAreEntries
    <3>5. [entry[p] EXCEPT !.next = entry[q].next] \in WindowEntryType
      BY <1>9, <3>4 DEF WindowEntryType
    <3>6. entry' \in [Entries -> WindowEntryType \cup {Nil}]
      BY <1>11, <3>3, <3>4, <3>5
    <3>7. entry'[p] = [entry[p] EXCEPT !.next = entry[q].next]
      BY <1>11, <3>3, <3>4
    <3>8. \A x \in Entries \ {p} : entry'[x] = void[x]
      BY <1>11, <3>3
    <3> QED BY <1>9, <1>11, <3>1, <3>4, <3>6, <3>7, <3>8
  <2> QED BY <2>1, <2>2
<1>14. clash' = \E c \in TableClients : q \in {look[c].cur, look[c].last}
  <2>1. \A c \in TableClients :
          {look[c].cur, look[c].last} \cap {q} # {} <=> q \in {look[c].cur, look[c].last}
    <3> SUFFICES ASSUME NEW c \in TableClients
                 PROVE  {look[c].cur, look[c].last} \cap {q} # {}
                          <=> q \in {look[c].cur, look[c].last}
      OBVIOUS
    <3> PICK x : x = look[c].cur
      OBVIOUS
    <3> PICK y : y = look[c].last
      OBVIOUS
    <3>1. ASSUME q \in {x, y} PROVE q \in {x, y} \cap {q}
      BY <3>1
    <3>2. ASSUME NEW z \in {x, y} \cap {q} PROVE q \in {x, y}
      OBVIOUS
    <3> QED BY <3>1, <3>2
  <2> QED BY <1>10, <2>1
<1>15. TakenOut(h, freeing, b, q)
  BY <1>1, <1>5, <1>6, <1>10, <1>11, <1>12, <1>13, <1>14 DEF TakenOut
<1> QED BY <1>9, <1>15

LEMMA DestroyXpmWindowKeeps ==
  ASSUME TableTypeOK, NextMade, TableHolds, NEW h \in Handles, NEW freeing \in BOOLEAN,
         DestroyXpmWindow(h, freeing)
  PROVE  TableTypeOK' /\ (~clash' => NextMade' /\ TableHolds')
<1>0. PICK b \in {0, 512}, q \in Entries : TakenOut(h, freeing, b, q)
  BY DestroyXpmWindowDoes
<1>1. /\ b = Bucket[h] /\ q \in InBucket(b) /\ q \in MadeEntries /\ entry[q].hwnd = h
      /\ exists' = [exists EXCEPT ![h] = "none"] /\ xid' = [xid EXCEPT ![h] = Nil]
      /\ hashtable' = [hashtable EXCEPT ![b] = IF @ = q THEN entry[q].next ELSE @]
      /\ entry' \in [Entries -> WindowEntryType \cup {Nil}]
      /\ entry'[q] = [entry[q] EXCEPT !.gone = @ \/ freeing]
      /\ \A x \in Entries \ {q} :
             entry'[x] = IF x \in InBucket(b) /\ entry[x].next = q
                         THEN [entry[x] EXCEPT !.next = entry[q].next] ELSE entry[x]
      /\ clash' = \E c \in TableClients : q \in {look[c].cur, look[c].last}
      /\ look' = look /\ stale' = stale
  BY <1>0 DEF TakenOut
<1>2. q \in Entries /\ entry[q] \in WindowEntryType
  BY <1>1, MadeAreEntries
<1>3. TableTypeOK'
  <2>1. hashtable' \in [{0, 512} -> Entries \cup {Nil}]
    <3>1. entry[q].next \in Entries \cup {Nil}
      BY <1>2 DEF WindowEntryType
    <3> QED BY <1>1, <3>1 DEF TableTypeOK
  <2>2. exists' \in [Handles -> {"none", "xpm", "foreign"}] /\ xid' \in [Handles -> Entries \cup {Nil}]
    BY <1>1 DEF TableTypeOK
  <2>3. clash' \in BOOLEAN
    BY <1>1
  <2> QED BY <1>1, <2>1, <2>2, <2>3 DEF TableTypeOK, WindowEntryType
<1>4. /\ hashtable'[b] = IF hashtable[b] = q THEN entry[q].next ELSE hashtable[b]
      /\ \A a \in {0, 512} \ {b} : hashtable'[a] = hashtable[a]
  BY <1>1 DEF TableTypeOK
<1>5. /\ entry'[q].hwnd = entry[q].hwnd /\ entry'[q].next = entry[q].next
      /\ entry'[q].own = entry[q].own /\ entry'[q] \in WindowEntryType
  BY <1>1, <1>2 DEF WindowEntryType
<1>6. \A x \in Entries : entry'[x] = Nil <=> entry[x] = Nil
  <2> SUFFICES ASSUME NEW x \in Entries PROVE entry'[x] = Nil <=> entry[x] = Nil
    OBVIOUS
  <2>1. Nil \notin WindowEntryType
    BY TableAssumption DEF WindowEntryType, Entries
  <2>2. CASE x = q
    BY <1>2, <1>5, <2>1, <2>2
  <2>3. CASE x # q /\ x \in InBucket(b) /\ entry[x].next = q
    <3>1. entry[x] \in WindowEntryType
      BY <2>3, BucketIsClosed, MadeAreEntries DEF TableHolds
    <3>2. [entry[x] EXCEPT !.next = entry[q].next] \in WindowEntryType
      BY <1>2, <3>1 DEF WindowEntryType
    <3> QED BY <1>1, <2>1, <2>3, <3>1, <3>2
  <2>4. CASE x # q /\ ~(x \in InBucket(b) /\ entry[x].next = q)
    BY <1>1, <2>4
  <2> QED BY <2>2, <2>3, <2>4
<1>7. NewEntries' = NewEntries /\ MadeEntries' = MadeEntries
  BY <1>6 DEF NewEntries, MadeEntries
<1>8. \A x \in MadeEntries :
        /\ x # q => Kept(x)
        /\ entry'[x].next = IF x \in InBucket(b) /\ entry[x].next = q THEN entry[q].next
                            ELSE entry[x].next
  <2> SUFFICES ASSUME NEW x \in MadeEntries
               PROVE  /\ x # q => Kept(x)
                      /\ entry'[x].next = IF x \in InBucket(b) /\ entry[x].next = q
                                          THEN entry[q].next ELSE entry[x].next
    OBVIOUS
  <2>1. x \in Entries /\ entry[x] \in WindowEntryType /\ x \in MadeEntries'
    BY <1>7, MadeAreEntries
  <2>2. CASE x = q
    BY <1>5, <2>2
  <2>3. CASE x # q /\ x \in InBucket(b) /\ entry[x].next = q
    <3>1. entry'[x] = [entry[x] EXCEPT !.next = entry[q].next]
      BY <1>1, <2>1, <2>3
    <3> QED BY <2>1, <2>3, <3>1 DEF WindowEntryType, Kept
  <2>4. CASE x # q /\ ~(x \in InBucket(b) /\ entry[x].next = q)
    <3>1. entry'[x] = entry[x]
      BY <1>1, <2>1, <2>4
    <3> QED BY <2>1, <2>4, <3>1 DEF Kept
  <2> QED BY <2>2, <2>3, <2>4
<1>9. ASSUME ~clash' PROVE NextMade' /\ TableHolds'
  <2>1. InBuckets \subseteq MadeEntries /\ \A a \in {0, 512} : InBucket(a) \subseteq MadeEntries
    BY BucketIsClosed DEF TableHolds, InBuckets
  <2>2. \A x \in InBucket(b) : entry'[x].next = IF entry[x].next = q THEN entry[q].next
                                                ELSE entry[x].next
    BY <1>8, <2>1
  <2>3. \A x \in MadeEntries \ InBucket(b) : KeptAndNext(x)
    BY <1>1, <1>8 DEF KeptAndNext
  <2>4. \A x \in MadeEntries : x \in MadeEntries' /\ (x # q => Kept(x))
    BY <1>7, <1>8
  <2>5. /\ InBucket(b)' = InBucket(b) \ {q}
        /\ \A a \in {0, 512} \ {b} : InBucket(a)' = InBucket(a)
        /\ \A a \in {0, 512} : BucketHolds(a)'
    BY <1>1, <1>4, <2>2, <2>3, <2>4, RemoveKeeps
  <2>6. NextMade'
    <3>1. \A x \in MadeEntries : entry[x].next \notin NewEntries
      BY DEF NextMade
    <3> QED BY <1>1, <1>7, <1>8, <3>1 DEF NextMade
  <2>7. \A a \in {0, 512} : hashtable'[a] \notin NewEntries'
    BY <1>1, <1>4, <1>7 DEF TableHolds, NextMade
  <2>8. \A a \in {0, 512} : InBucket(a)' \subseteq InBucket(a)
    BY <2>5
  <2>9. (InBucket(0) \cap InBucket(512) = {})'
    BY <2>8 DEF TableHolds
  <2>10. LooksHold'
    <3> SUFFICES ASSUME NEW c \in TableClients, look'[c].pc # "idle"
                 PROVE  \E a \in {0, 512} : \E met \in SUBSET Entries : Passed(c, a, met)'
      BY DEF LooksHold
    <3>1. look'[c] = look[c] /\ look[c].pc # "idle"
      BY <1>1
    <3>2. PICK a \in {0, 512}, met \in SUBSET Entries : Passed(c, a, met)
      BY <3>1 DEF LooksHold, TableHolds
    <3>3. q \notin {look[c].cur, look[c].last}
      BY <1>1, <1>9
    <3>4. \A x \in InBuckets \ {q} : Kept(x)
      BY <2>1, <2>4
    <3>5. \A x \in InBuckets \ InBucket(b) : KeptAndNext(x)
      BY <2>1, <2>3
    <3>6. \A d \in {0, 512} \ {b} : hashtable'[d] = hashtable[d] /\ InBucket(d)' = InBucket(d)
      BY <1>4, <2>5
    <3>7. Passed(c, a, met \ {q})'
      BY <1>1, <1>4, <2>2, <2>5, <3>1, <3>2, <3>3, <3>4, <3>5, <3>6, RemoveKeepsLook
    <3> QED BY <3>7
  <2>11. MadeHold'
    <3>1. ASSUME NEW c \in TableClients, Making(c)'
          PROVE  /\ look'[c] = look[c] /\ look[c].cur \notin InBuckets' /\ KeptAndNext(look[c].cur)
      <4>1. look'[c] = look[c] /\ Making(c)
        BY <1>1, <3>1 DEF Making
      <4>2. look[c].cur \in MadeEntries /\ look[c].cur \notin InBuckets
        BY <4>1 DEF TableHolds, MadeHold
      <4>3. look[c].cur \notin InBuckets'
        BY <2>8, <4>2 DEF InBuckets
      <4>4. look[c].cur \notin InBucket(b)
        BY <4>2 DEF InBuckets
      <4> QED BY <2>3, <4>1, <4>2, <4>3, <4>4
    <3> QED BY <3>1, MadeKept DEF TableHolds
  <2>12. WindowsHold'
    <3> SUFFICES ASSUME NEW g \in Handles
                 PROVE  /\ Alias(g) = HWND_DESKTOP => exists'[g] = "foreign"
                        /\ exists'[g] = "xpm" => /\ xid'[g] \in InBucket(Bucket[g])'
                                                 /\ entry'[xid'[g]].hwnd = g
                                                 /\ g \notin stale' => entry'[xid'[g]].own
      BY DEF WindowsHold
    <3>1. CASE g = h
      <4>1. exists'[g] = "none" /\ exists[h] = "xpm"
        BY <1>1, <3>1 DEF TableTypeOK, DestroyXpmWindow
      <4>2. Alias(g) # HWND_DESKTOP
        BY <3>1, <4>1 DEF TableHolds, WindowsHold
      <4> QED BY <4>1, <4>2
    <3>2. CASE g # h
      <4>1. xid'[g] = xid[g] /\ exists'[g] = exists[g] /\ stale' = stale
        BY <1>1, <3>2 DEF TableTypeOK
      <4>2. ASSUME exists[g] = "xpm"
            PROVE  /\ xid[g] \in InBucket(Bucket[g])' /\ entry'[xid[g]].hwnd = g
                   /\ g \notin stale => entry'[xid[g]].own
        <5>1. PICK x : x = xid[g]
          OBVIOUS
        <5>2. PICK a \in {0, 512} : a = Bucket[g]
          BY Handling
        <5>3. x \in InBucket(a) /\ entry[x].hwnd = g /\ (g \notin stale => entry[x].own)
          BY <4>2, <5>1, <5>2 DEF TableHolds, WindowsHold
        <5>4. x # q
          BY <1>1, <3>2, <5>3
        <5>5. x \in InBucket(a)' /\ x \in MadeEntries
          BY <2>1, <2>5, <5>3, <5>4
        <5>6. Kept(x)
          BY <2>4, <5>4, <5>5
        <5> QED BY <5>1, <5>2, <5>3, <5>5, <5>6 DEF Kept
      <4> QED BY <4>1, <4>2 DEF TableHolds, WindowsHold
    <3> QED BY <3>1, <3>2
  <2> QED BY <2>5, <2>6, <2>7, <2>9, <2>10, <2>11, <2>12 DEF TableHolds
<1> QED BY <1>3, <1>9

(* Windows that no hook sees.                                              *)
LEMMA ForeignWindowKeeps ==
  ASSUME TableTypeOK, NextMade, TableHolds, NEW h \in Handles,
         CreateForeignWindow(h) \/ DestroyForeignWindow(h)
  PROVE  TableTypeOK' /\ NextMade' /\ TableHolds'
<1>1. /\ hashtable' = hashtable /\ entry' = entry /\ xid' = xid /\ look' = look
      /\ clash' = clash /\ stale' = stale
  BY DEF CreateForeignWindow, DestroyForeignWindow
<1>2. PICK now \in {"foreign", "none"} : exists' = [exists EXCEPT ![h] = now]
  BY DEF CreateForeignWindow, DestroyForeignWindow
<1>3. exists[h] # "xpm" /\ (Alias(h) = HWND_DESKTOP => exists'[h] = "foreign")
  <2>1. CASE CreateForeignWindow(h)
    BY <2>1 DEF CreateForeignWindow, TableHolds, WindowsHold
  <2>2. CASE DestroyForeignWindow(h)
    BY <2>2 DEF DestroyForeignWindow
  <2> QED BY <2>1, <2>2
<1>4. exists'[h] = now /\ \A g \in Handles \ {h} : exists'[g] = exists[g]
  BY <1>2 DEF TableTypeOK
<1>5. TableTypeOK'
  BY <1>1, <1>2 DEF TableTypeOK
<1>6. \A a : InBucket(a)' = InBucket(a)
  BY <1>1 DEF InBucket, Closed, NewEntries
<1>7. WindowsHold'
  <2> SUFFICES ASSUME NEW g \in Handles
               PROVE  /\ Alias(g) = HWND_DESKTOP => exists'[g] = "foreign"
                      /\ exists'[g] = "xpm" => /\ xid[g] \in InBucket(Bucket[g])
                                               /\ entry[xid[g]].hwnd = g
                                               /\ g \notin stale => entry[xid[g]].own
    BY <1>1, <1>6 DEF WindowsHold
  <2>1. CASE g = h
    BY <1>3, <1>4, <2>1
  <2>2. CASE g # h
    BY <1>4, <2>2 DEF TableHolds, WindowsHold
  <2> QED BY <2>1, <2>2
<1> QED BY <1>1, <1>5, <1>7, OnlyWindows
-----------------------------------------------------------------------------
(* A step of one client that changes nothing but where it is.              *)
LEMMA OnlyLook ==
  ASSUME TableTypeOK, NextMade, TableHolds, NEW c \in TableClients,
         UNCHANGED <<exists, hashtable, entry, xid, stale>>,
         \A d \in TableClients \ {c} : look'[d] = look[d],
         look'[c].pc = "idle" \/ /\ look'[c].pc = "walk"
                                 /\ \E b \in {0, 512} : \E met \in SUBSET Entries : Passed(c, b, met)'
  PROVE  NextMade' /\ TableHolds'
<1>1. NewEntries' = NewEntries
  BY DEF NewEntries
<1>2. \A b : InBucket(b)' = InBucket(b)
  BY <1>1 DEF InBucket, Closed
<1>3. InBuckets' = InBuckets /\ MadeEntries' = MadeEntries
  BY <1>1, <1>2 DEF InBuckets, MadeEntries
<1>4. NextMade'
  BY <1>1, <1>3 DEF NextMade
<1>5. ASSUME NEW b \in {0, 512} PROVE hashtable'[b] \notin NewEntries' /\ BucketHolds(b)'
  <2>1. hashtable[b] \notin NewEntries /\ BucketHolds(b)
    BY DEF TableHolds
  <2> QED BY <1>1, <1>2, <2>1 DEF BucketHolds
<1>6. LooksHold'
  <2> SUFFICES ASSUME NEW d \in TableClients, look'[d].pc # "idle"
               PROVE  \E b \in {0, 512} : \E met \in SUBSET Entries : Passed(d, b, met)'
    BY DEF LooksHold
  <2>1. ASSUME d # c PROVE \E b \in {0, 512} : \E met \in SUBSET Entries : Passed(d, b, met)'
    <3>1. look'[d] = look[d]
      BY <2>1
    <3>2. PICK b \in {0, 512}, met \in SUBSET Entries : Passed(d, b, met)
      BY <3>1 DEF TableHolds, LooksHold
    <3>3. Passed(d, b, met)'
      BY <1>2, <3>1, <3>2 DEF Passed
    <3> QED BY <3>3
  <2> QED BY <2>1
<1>7. MadeHold'
  <2>1. ASSUME NEW d \in TableClients, Making(d)' PROVE d # c /\ look'[d] = look[d] /\ Making(d)
    BY <2>1 DEF Making
  <2>2. ASSUME NEW d \in TableClients, Making(d)'
        PROVE  look'[d] = look[d] /\ look[d].cur \notin InBuckets' /\ KeptAndNext(look[d].cur)
    <3>1. look[d].cur \in MadeEntries /\ look[d].cur \notin InBuckets
      BY <2>1, <2>2 DEF TableHolds, MadeHold
    <3> QED BY <1>3, <2>1, <2>2, <3>1 DEF KeptAndNext, Kept
  <2> QED BY <2>2, MadeKept DEF TableHolds
<1>8. WindowsHold'
  BY <1>2 DEF TableHolds, WindowsHold
<1> QED BY <1>2, <1>4, <1>5, <1>6, <1>7, <1>8 DEF TableHolds

LEMMA GetWindowKeeps ==
  ASSUME TableTypeOK, NextMade, TableHolds, NEW c \in TableClients, NEW h \in Handles,
         GetWindow(c, h)
  PROVE  TableTypeOK' /\ NextMade' /\ TableHolds'
<1>1. PICK b \in {0, 512} : b = Bucket[h]
  BY Handling
<1> DEFINE l == [pc |-> "walk", h |-> Alias(h), cur |-> hashtable[b], last |-> Nil]
<1>2. /\ look' = [look EXCEPT ![c] = l] /\ clash' = clash
      /\ UNCHANGED <<exists, hashtable, entry, xid, stale>>
  BY <1>1 DEF GetWindow
<1>3. /\ l \in [pc : {"idle", "walk", "append", "first"}, h : Handles \cup {Nil},
                cur : Entries \cup {Nil}, last : Entries \cup {Nil}]
      /\ l.pc = "walk" /\ l.h = Alias(h) /\ l.cur = hashtable[b] /\ l.last = Nil
  BY Handling DEF TableTypeOK
<1> HIDE DEF l
<1>4. TableTypeOK'
  BY <1>2, <1>3 DEF TableTypeOK
<1>5. look'[c] = l /\ \A d \in TableClients \ {c} : look'[d] = look[d]
  BY <1>2 DEF TableTypeOK
<1>6. Passed(c, b, {})'
  BY <1>1, <1>2, <1>3, <1>5 DEF Passed, Leads
<1> QED BY <1>2, <1>3, <1>4, <1>5, <1>6, OnlyLook

(* The loop meets one entry more, and goes on to what follows on it.       *)
LEMMA WalkKeeps ==
  ASSUME TableTypeOK, NextMade, TableHolds, NEW c \in TableClients, Walk(c)
  PROVE  TableTypeOK' /\ NextMade' /\ TableHolds'
<1>1. PICK l : l = look[c]
  OBVIOUS
<1>2. PICK e : e = l.cur
  OBVIOUS
<1>3. /\ l.pc = "walk" /\ e # Nil /\ clash' = clash
      /\ UNCHANGED <<exists, hashtable, entry, xid, stale>>
      /\ look' = [look EXCEPT ![c] = IF entry[e].hwnd = l.h THEN NotLooking
                                     ELSE [l EXCEPT !.cur = entry[e].next, !.last = e]]
  BY <1>1, <1>2 DEF Walk, TableTypeOK
<1>4. PICK b \in {0, 512}, met \in SUBSET Entries : Passed(c, b, met)
  BY <1>1, <1>3 DEF TableHolds, LooksHold
<1>5. /\ Leads(l.h, b) /\ met \subseteq InBucket(b)
      /\ l.last # Nil => l.last \in met /\ hashtable[b] \in met
      /\ l.last = Nil => met = {}
      /\ \A x \in met : entry[x].hwnd # l.h /\ (x # l.last => entry[x].next \in met)
      /\ e = IF l.last = Nil THEN hashtable[b] ELSE entry[l.last].next
  BY <1>1, <1>2, <1>3, <1>4 DEF Passed
<1>6. e \in InBucket(b) /\ e \in Entries /\ entry[e] \in WindowEntryType
  <2>1. /\ hashtable[b] \in InBucket(b) \cup {Nil} /\ InBucket(b) \subseteq MadeEntries
        /\ \A x \in InBucket(b) : entry[x].next \in InBucket(b) \cup {Nil}
    BY BucketIsClosed DEF TableHolds
  <2>2. e \in InBucket(b)
    BY <1>3, <1>5, <2>1
  <2> QED BY <2>1, <2>2, MadeAreEntries
<1> DEFINE m == [l EXCEPT !.cur = entry[e].next, !.last = e]
           Type == [pc : {"idle", "walk", "append", "first"}, h : Handles \cup {Nil},
                    cur : Entries \cup {Nil}, last : Entries \cup {Nil}]
<1>7. l \in Type /\ look \in [TableClients -> Type]
  BY <1>1 DEF TableTypeOK
<1>8. /\ m \in Type /\ NotLooking \in Type /\ NotLooking.pc = "idle"
      /\ m.pc = "walk" /\ m.h = l.h /\ m.cur = entry[e].next /\ m.last = e
  BY <1>3, <1>6, <1>7 DEF WindowEntryType, NotLooking
<1> HIDE DEF m
<1>9. look' = [look EXCEPT ![c] = IF entry[e].hwnd = l.h THEN NotLooking ELSE m]
  BY <1>3 DEF m
<1>10. look' \in [TableClients -> Type]
  BY <1>7, <1>8, <1>9
<1>11. TableTypeOK'
  BY <1>3, <1>10 DEF TableTypeOK
<1>12. \A d \in TableClients \ {c} : look'[d] = look[d]
  BY <1>7, <1>9
<1>13. CASE entry[e].hwnd = l.h
  <2>1. look'[c] = NotLooking
    BY <1>7, <1>9, <1>13
  <2>2. look'[c].pc = "idle"
    BY <1>8, <2>1
  <2>3. UNCHANGED <<exists, hashtable, entry, xid, stale>>
    BY <1>3
  <2>4. NextMade' /\ TableHolds'
    BY <1>12, <2>2, <2>3, OnlyLook
  <2> QED BY <1>11, <2>4
<1>14. CASE entry[e].hwnd # l.h
  <2>1. look'[c] = m
    BY <1>7, <1>9, <1>14
  <2>2. InBucket(b)' = InBucket(b)
    BY <1>3 DEF InBucket, Closed, NewEntries
  <2>3. \A x \in met \cup {e} : /\ entry[x].hwnd # l.h
                                /\ x # e => entry[x].next \in met \cup {e}
    BY <1>5, <1>14
  <2>4. hashtable[b] \in met \cup {e}
    BY <1>5
  <2>5. met \cup {e} \subseteq InBucket(b)
    BY <1>5, <1>6
  <2>6. e # Nil /\ Leads(l.h, b)
    BY <1>3, <1>5
  <2>7. Passed(c, b, met \cup {e})'
    BY <1>3, <1>8, <2>1, <2>2, <2>3, <2>4, <2>5, <2>6 DEF Passed, Leads
  <2>8. met \cup {e} \in SUBSET Entries
    BY <1>6
  <2> QED BY <1>3, <1>8, <1>11, <1>12, <2>1, <2>7, <2>8, OnlyLook
<1> QED BY <1>13, <1>14

(* Nobody but its client knows the entry that getWindow makes.             *)
LEMMA MakeEntryKeeps ==
  ASSUME TableTypeOK, NextMade, TableHolds, NEW c \in TableClients, MakeEntry(c)
  PROVE  TableTypeOK' /\ NextMade' /\ TableHolds'
<1>1. PICK l : l = look[c]
  OBVIOUS
<1>2. PICK e : e = NewEntry
  OBVIOUS
<1> DEFINE r == [hwnd |-> l.h, next |-> Nil, own |-> FALSE, gone |-> FALSE]
           Type == [pc : {"idle", "walk", "append", "first"}, h : Handles \cup {Nil},
                    cur : Entries \cup {Nil}, last : Entries \cup {Nil}]
<1>3. /\ l.pc = "walk" /\ l.cur = Nil /\ NewEntries # {}
      /\ UNCHANGED <<exists, hashtable, xid, clash, stale>>
      /\ entry' = [entry EXCEPT ![e] = r]
  BY <1>1, <1>2 DEF MakeEntry
<1>4. PICK way \in {"first", "append"} : look' = [look EXCEPT ![c] = [l EXCEPT !.pc = way, !.cur = e]]
  <2>1. look' = [look EXCEPT ![c].pc = IF hashtable[Bucket[look[c].h]] = Nil THEN "first"
                                       ELSE "append", ![c].cur = e]
    BY <1>2 DEF MakeEntry
  <2>2. look \in [TableClients -> Type]
    BY DEF TableTypeOK
  <2>3. CASE hashtable[Bucket[look[c].h]] = Nil
    BY <1>1, <2>1, <2>2, <2>3
  <2>4. CASE hashtable[Bucket[look[c].h]] # Nil
    BY <1>1, <2>1, <2>2, <2>4
  <2> QED BY <2>3, <2>4
<1>7. e \in NewEntries /\ e \in Entries /\ e \notin MadeEntries /\ e # Nil
  BY <1>2, <1>3, NewEntryIsNew, MadeAreEntries DEF MadeEntries
<1> DEFINE m == [l EXCEPT !.pc = way, !.cur = e]
<1>9. l \in Type /\ look \in [TableClients -> Type]
  BY <1>1 DEF TableTypeOK
<1>10. m \in Type /\ m.pc = way /\ m.cur = e /\ m.h = l.h /\ m.last = l.last
  <2>1. way \in {"idle", "walk", "append", "first"} /\ e \in Entries \cup {Nil}
    BY <1>4, <1>7
  <2>2. l \in Type
    BY <1>9
  <2>3. m \in Type
    BY <2>1, <2>2
  <2>4. m.pc = way /\ m.cur = e
    BY <2>2
  <2>5. m.h = l.h /\ m.last = l.last
    BY <2>2
  <2> QED BY <2>3, <2>4, <2>5
<1>5. PICK b \in {0, 512}, met \in SUBSET Entries : Passed(c, b, met)
  BY <1>1, <1>3 DEF TableHolds, LooksHold
<1>6. /\ Leads(l.h, b) /\ met \subseteq InBucket(b)
      /\ l.last # Nil => l.last \in met /\ hashtable[b] \in met
      /\ l.last = Nil => met = {}
      /\ \A x \in met : entry[x].hwnd # l.h /\ (x # l.last => entry[x].next \in met)
  BY <1>1, <1>3, <1>5 DEF Passed
<1>8. r \in WindowEntryType /\ r.hwnd = l.h /\ r.next = Nil /\ ~r.gone
  BY <1>6, Handling DEF WindowEntryType, Leads
<1> HIDE DEF r, m
<1>11. look'[c] = m /\ look' \in [TableClients -> Type]
       /\ \A d \in TableClients \ {c} : look'[d] = look[d]
  BY <1>4, <1>9, <1>10 DEF m
<1>12. /\ entry' \in [Entries -> WindowEntryType \cup {Nil}]
       /\ entry'[e] = r /\ \A x \in Entries \ {e} : entry'[x] = entry[x]
  <2>1. entry \in [Entries -> WindowEntryType \cup {Nil}]
    BY DEF TableTypeOK, WindowEntryType
  <2> QED BY <1>3, <1>7, <1>8, <2>1
<1>13. TableTypeOK'
  BY <1>3, <1>11, <1>12 DEF TableTypeOK, WindowEntryType
<1>14. e \in MadeEntries'
  BY <1>7, <1>8, <1>12, TableAssumption DEF MadeEntries, NewEntries, WindowEntryType, Entries
<1>15. \A x \in MadeEntries : KeptAndNext(x)
  <2>1. \A x \in MadeEntries : x \in Entries /\ x # e /\ entry[x] # Nil
    BY <1>7 DEF MadeEntries, NewEntries
  <2> QED BY <1>12, <2>1 DEF KeptAndNext, Kept, MadeEntries, NewEntries
<1>16. NextMade' /\ NewEntries' = NewEntries \ {e}
  <2>1. \A x \in MadeEntries : x \in MadeEntries' /\ entry'[x].next \in {entry[x].next, e}
    BY <1>15 DEF KeptAndNext, Kept
  <2>2. entry'[e].next = Nil
    BY <1>8, <1>12
  <2>3. \A x \in Entries \ {e} : entry'[x] = Nil <=> entry[x] = Nil
    BY <1>12
  <2> QED BY <1>7, <1>14, <2>1, <2>2, <2>3, OneMadeMore
<1>17. \A a \in {0, 512} : InBucket(a) \subseteq MadeEntries /\ hashtable[a] \notin NewEntries
                           /\ BucketHolds(a)
  BY BucketIsClosed DEF TableHolds
<1>18. \A a \in {0, 512} : InBucket(a)' = InBucket(a) /\ BucketHolds(a)'
  BY <1>3, <1>15, <1>17, BucketKept
<1>19. InBuckets' = InBuckets /\ InBuckets \subseteq MadeEntries
  BY <1>17, <1>18 DEF InBuckets
<1>20. LooksHold'
  <2> SUFFICES ASSUME NEW d \in TableClients, look'[d].pc # "idle"
               PROVE  \E a \in {0, 512} : \E seen \in SUBSET Entries : Passed(d, a, seen)'
    BY DEF LooksHold
  <2>1. CASE d = c
    <3>1. look'[d] = m
      BY <1>11, <2>1
    <3>2. \A x \in met : entry'[x].hwnd = entry[x].hwnd /\ entry'[x].next = entry[x].next
      BY <1>6, <1>15, <1>17 DEF KeptAndNext, Kept
    <3>3. m.pc # "walk"
      BY <1>10
    <3>4. \A x \in met : entry'[x].hwnd # l.h /\ (x # l.last => entry'[x].next \in met)
      BY <1>6, <3>2
    <3>5. met \subseteq InBucket(b)'
      BY <1>6, <1>18
    <3>6. (l.last # Nil => l.last \in met /\ hashtable'[b] \in met) /\ (l.last = Nil => met = {})
      BY <1>3, <1>6
    <3>7. Passed(d, b, met)'
      BY <1>6, <1>10, <3>1, <3>3, <3>4, <3>5, <3>6 DEF Passed, Leads
    <3> QED BY <3>7
  <2>2. CASE d # c
    <3>1. look'[d] = look[d]
      BY <1>11, <2>2
    <3>2. PICK a \in {0, 512}, seen \in SUBSET Entries : Passed(d, a, seen)
      BY <3>1 DEF TableHolds, LooksHold
    <3>3. PICK n : n = look[d] /\ n = look'[d]
      BY <3>1
    <3>4. /\ Leads(n.h, a) /\ seen \subseteq InBucket(a)
          /\ n.last # Nil => n.last \in seen /\ hashtable[a] \in seen
          /\ n.last = Nil => seen = {}
          /\ \A x \in seen : entry[x].hwnd # n.h /\ (x # n.last => entry[x].next \in seen)
          /\ n.pc = "walk" /\ n.cur # Nil =>
               n.cur = IF n.last = Nil THEN hashtable[a] ELSE entry[n.last].next
      BY <3>2, <3>3 DEF Passed
    <3>5. \A x \in seen : entry'[x].hwnd = entry[x].hwnd /\ entry'[x].next = entry[x].next
      BY <1>15, <1>17, <3>4 DEF KeptAndNext, Kept
    <3>6. \A x \in seen : entry'[x].hwnd # n.h /\ (x # n.last => entry'[x].next \in seen)
      BY <3>4, <3>5
    <3>7. seen \subseteq InBucket(a)' /\ hashtable' = hashtable
      BY <1>3, <1>18, <3>4
    <3>8. n.pc = "walk" /\ n.cur # Nil =>
            n.cur = IF n.last = Nil THEN hashtable'[a] ELSE entry'[n.last].next
      BY <3>4, <3>5, <3>7
    <3>9. Passed(d, a, seen)'
      BY <3>3, <3>4, <3>6, <3>7, <3>8 DEF Passed, Leads
    <3> QED BY <3>9
  <2> QED BY <2>1, <2>2
<1>21. MadeHold'
  <2>1. ASSUME NEW d \in TableClients, d # c, Making(d)'
        PROVE  /\ look'[d] = look[d] /\ Making(d) /\ look[d].cur # e
               /\ look[d].cur \in MadeEntries /\ look[d].cur \notin InBuckets
               /\ entry[look[d].cur].hwnd = look[d].h /\ entry[look[d].cur].next = Nil
               /\ ~entry[look[d].cur].gone
    <3>1. look'[d] = look[d] /\ Making(d)
      BY <1>11, <2>1 DEF Making
    <3> QED BY <1>7, <3>1 DEF TableHolds, MadeHold
  <2>2. ASSUME NEW d \in TableClients, Making(d)'
        PROVE  /\ look'[d].cur \in MadeEntries' /\ look'[d].cur \notin InBuckets'
               /\ entry'[look'[d].cur].hwnd = look'[d].h /\ entry'[look'[d].cur].next = Nil
               /\ ~entry'[look'[d].cur].gone
    <3>1. CASE d = c
      <4>1. look'[d] = m
        BY <1>11, <3>1
      <4> QED BY <1>7, <1>8, <1>10, <1>12, <1>14, <1>19, <4>1
    <3>2. CASE d # c
      <4>1. PICK n : n = look[d] /\ n = look'[d]
        BY <2>1, <2>2, <3>2
      <4>2. /\ n.cur \in MadeEntries /\ n.cur \notin InBuckets
            /\ entry[n.cur].hwnd = n.h /\ entry[n.cur].next = Nil /\ ~entry[n.cur].gone
        BY <2>1, <2>2, <3>2, <4>1
      <4> QED BY <1>15, <1>19, <4>1, <4>2 DEF KeptAndNext, Kept
    <3> QED BY <3>1, <3>2
  <2>3. ASSUME NEW d \in TableClients, NEW f \in TableClients,
               Making(d)', Making(f)', look'[d].cur = look'[f].cur
        PROVE  d = f
    <3>1. look'[c].cur = e
      BY <1>10, <1>11
    <3>2. ASSUME d # c, f # c PROVE d = f
      BY <2>1, <2>3, <3>2 DEF TableHolds, MadeHold
    <3>3. ASSUME d = c, f # c PROVE FALSE
      BY <2>1, <2>3, <3>1, <3>3
    <3>4. ASSUME d # c, f = c PROVE FALSE
      BY <2>1, <2>3, <3>1, <3>4
    <3> QED BY <3>2, <3>3, <3>4
  <2> QED BY <2>2, <2>3 DEF MadeHold, Making
<1>22. WindowsHold'
  <2>1. \A x \in InBuckets : Kept(x)
    BY <1>15, <1>19 DEF KeptAndNext
  <2> QED BY <1>3, <1>18, <2>1, WindowsKept DEF TableHolds
<1>23. \A a \in {0, 512} : hashtable'[a] \notin NewEntries'
  BY <1>3, <1>16, <1>17
<1>24. (InBucket(0) \cap InBucket(512) = {})'
  BY <1>18 DEF TableHolds
<1> QED BY <1>13, <1>16, <1>18, <1>20, <1>21, <1>22, <1>23, <1>24 DEF TableHolds

(* A client that has appended or entered what it filled leaves getWindow.   *)
LEMMA LeftType ==
  ASSUME TableTypeOK, NEW c \in TableClients, look' = [look EXCEPT ![c] = NotLooking]
  PROVE  /\ look' \in [TableClients -> [pc : {"idle", "walk", "append", "first"},
              h : Handles \cup {Nil}, cur : Entries \cup {Nil}, last : Entries \cup {Nil}]]
         /\ look'[c].pc = "idle" /\ \A d \in TableClients \ {c} : look'[d] = look[d]
<1>1. NotLooking \in [pc : {"idle", "walk", "append", "first"}, h : Handles \cup {Nil},
                      cur : Entries \cup {Nil}, last : Entries \cup {Nil}]
      /\ NotLooking.pc = "idle"
  BY DEF NotLooking
<1> HIDE DEF NotLooking
<1> QED BY <1>1 DEF TableTypeOK

(* The other clients' entries when one puts e into a bucket.               *)
LEMMA OthersMade ==
  ASSUME MadeHold, NEW c \in TableClients, Making(c), look'[c].pc = "idle",
         \A d \in TableClients \ {c} : look'[d] = look[d],
         InBuckets' \subseteq InBuckets \cup {look[c].cur},
         \A x \in MadeEntries \ InBuckets : KeptAndNext(x)
  PROVE  MadeHold'
<1>1. ASSUME NEW d \in TableClients, Making(d)'
      PROVE  /\ look'[d] = look[d] /\ look[d].cur \notin InBuckets' /\ KeptAndNext(look[d].cur)
  <2>1. d # c /\ look'[d] = look[d] /\ Making(d)
    BY <1>1 DEF Making
  <2>2. look[d].cur \in MadeEntries \ InBuckets /\ look[d].cur # look[c].cur
    BY <2>1 DEF MadeHold
  <2> QED BY <2>1, <2>2
<1> QED BY <1>1, MadeKept

(* ebw->next = current: if nothing follows on the last entry met, all the  *)
(* entries of the bucket are met, and none has the handle.                 *)
LEMMA AppendEntryKeeps ==
  ASSUME TableTypeOK, NextMade, TableHolds, NEW c \in TableClients, AppendEntry(c)
  PROVE  TableTypeOK' /\ (~clash' => NextMade' /\ TableHolds')
<1>1. PICK l : l = look[c]
  OBVIOUS
<1>2. PICK t : t = l.last
  OBVIOUS
<1>3. PICK e : e = l.cur
  OBVIOUS
<1>4. /\ l.pc = "append" /\ look' = [look EXCEPT ![c] = NotLooking]
      /\ UNCHANGED <<exists, hashtable, xid, stale>>
      /\ IF t = Nil THEN clash' = TRUE /\ entry' = entry
         ELSE clash' = (entry[t].next # Nil) /\ entry' = [entry EXCEPT ![t].next = e]
  BY <1>1, <1>2, <1>3 DEF AppendEntry
<1>5. Making(c)
  BY <1>1, <1>4 DEF Making
<1>6. /\ e \in MadeEntries /\ e \notin InBuckets /\ entry[e].hwnd = l.h
      /\ entry[e].next = Nil /\ ~entry[e].gone /\ e \in Entries
  BY <1>1, <1>3, <1>5 DEF TableHolds, MadeHold, MadeEntries
<1>7. PICK b \in {0, 512}, met \in SUBSET Entries : Passed(c, b, met)
  BY <1>1, <1>4 DEF TableHolds, LooksHold
<1>8. /\ Leads(l.h, b) /\ met \subseteq InBucket(b)
      /\ t # Nil => t \in met /\ hashtable[b] \in met
      /\ \A x \in met : entry[x].hwnd # l.h /\ (x # t => entry[x].next \in met)
  BY <1>1, <1>2, <1>7 DEF Passed
<1>9. InBuckets \subseteq MadeEntries /\ \A a \in {0, 512} : InBucket(a) \subseteq MadeEntries
  BY BucketIsClosed DEF TableHolds, InBuckets
<1>10. t # Nil => t \in InBucket(b) /\ t \in MadeEntries /\ t # e /\ t \in InBuckets
                  /\ entry[t] \in WindowEntryType /\ t \in Entries
  BY <1>6, <1>8, <1>9, MadeAreEntries DEF InBuckets
<1>11. TableTypeOK'
  <2>1. entry' \in [Entries -> WindowEntryType \cup {Nil}]
    <3>1. entry \in [Entries -> WindowEntryType \cup {Nil}]
      BY DEF TableTypeOK, WindowEntryType
    <3>2. CASE t = Nil
      BY <1>4, <3>1, <3>2
    <3>3. CASE t # Nil
      <4>1. [entry[t] EXCEPT !.next = e] \in WindowEntryType
        BY <1>6, <1>10, <3>3 DEF WindowEntryType
      <4> QED BY <1>4, <1>10, <3>1, <3>3, <4>1
    <3> QED BY <3>2, <3>3
  <2>2. clash' \in BOOLEAN
    BY <1>4
  <2> QED BY <1>4, <2>1, <2>2, LeftType DEF TableTypeOK, WindowEntryType
<1>12. ASSUME ~clash' PROVE NextMade' /\ TableHolds'
  <2>1. /\ t # Nil /\ entry[t].next = Nil /\ entry' = [entry EXCEPT ![t].next = e]
    BY <1>4, <1>12
  <2>2. InBucket(b) \subseteq met
    <3>1. Closed(b, met)
      BY <1>8, <2>1 DEF Closed
    <3>2. met \in SUBSET MadeEntries
      BY <1>8, <1>9
    <3> QED BY <3>1, <3>2, BucketIsLeast
  <2>3. /\ \A x \in Entries \ {t} : entry'[x] = entry[x]
        /\ entry'[t] = [entry[t] EXCEPT !.next = e]
    BY <1>10, <2>1 DEF TableTypeOK
  <2>4. /\ entry'[t].next = e /\ entry'[t].hwnd = entry[t].hwnd
        /\ entry'[t].own = entry[t].own /\ entry'[t].gone = entry[t].gone
        /\ entry'[t] \in WindowEntryType
    BY <1>6, <1>10, <2>1, <2>3 DEF WindowEntryType
  <2>5. NewEntries' = NewEntries /\ MadeEntries' = MadeEntries
    <3>1. entry[t] # Nil /\ entry'[t] # Nil
      <4>1. Nil \notin WindowEntryType
        BY TableAssumption DEF WindowEntryType, Entries
      <4> QED BY <1>10, <2>1, <2>4, <4>1
    <3> QED BY <2>3, <3>1 DEF NewEntries, MadeEntries
  <2>6. \A x \in MadeEntries : Kept(x) /\ (x # t => KeptAndNext(x))
    <3>1. \A x \in MadeEntries : x \in Entries /\ x \in MadeEntries'
      BY <2>5 DEF MadeEntries
    <3>2. ASSUME NEW x \in MadeEntries, x # t PROVE KeptAndNext(x)
      <4>1. entry'[x] = entry[x] /\ x \in MadeEntries'
        BY <2>3, <3>1, <3>2
      <4> QED BY <4>1 DEF Kept, KeptAndNext
    <3>3. ASSUME t \in MadeEntries PROVE Kept(t)
      <4>1. t \in MadeEntries'
        BY <3>1, <3>3
      <4> QED BY <2>4, <4>1 DEF Kept
    <3> QED BY <3>2, <3>3, Zenon DEF KeptAndNext
  <2>7. entry'[e] = entry[e] /\ e \in MadeEntries'
    BY <1>6, <1>10, <2>1, <2>3, <2>5
  <2>8. Appended(b, t, e)
    <3>1. \A x \in InBucket(b) : entry[x].hwnd # entry'[e].hwnd
      BY <1>6, <1>8, <2>2, <2>7
    <3>2. Leads(entry'[e].hwnd, b)
      BY <1>6, <1>8, <2>7
    <3>3. entry'[e].next = Nil /\ ~entry'[e].gone
      BY <1>6, <2>7
    <3>4. Kept(t) /\ \A x \in MadeEntries \ {t, e} : KeptAndNext(x)
      BY <1>10, <2>1, <2>6
    <3>5. hashtable' = hashtable
      BY <1>4
    <3> QED BY <1>6, <1>10, <2>1, <2>4, <2>7, <3>1, <3>2, <3>3, <3>4, <3>5 DEF Appended
  <2>9. /\ InBucket(b)' = InBucket(b) \cup {e}
        /\ \A a \in {0, 512} \ {b} : InBucket(a)' = InBucket(a)
        /\ \A a \in {0, 512} : BucketHolds(a)'
    BY <2>8, AppendKeeps
  <2>10. NextMade'
    <3>1. \A x \in MadeEntries : entry'[x].next \in {entry[x].next, e}
      BY <2>4, <2>6 DEF KeptAndNext
    <3> QED BY <1>6, <2>5, <3>1 DEF NextMade, MadeEntries
  <2>11. \A a \in {0, 512} : hashtable'[a] \notin NewEntries'
    BY <1>4, <2>5 DEF TableHolds
  <2>12. \A a \in {0, 512} : InBucket(a) \subseteq InBucket(a)'
    BY <2>9
  <2>13. (InBucket(0) \cap InBucket(512) = {})' /\ InBuckets' \subseteq InBuckets \cup {e}
    <3>1. InBucket(0) \cap InBucket(512) = {} /\ e \notin InBucket(0) /\ e \notin InBucket(512)
      BY <1>6 DEF TableHolds, InBuckets
    <3>2. CASE b = 0
      BY <2>9, <3>1, <3>2 DEF InBuckets
    <3>3. CASE b = 512
      BY <2>9, <3>1, <3>3 DEF InBuckets
    <3> QED BY <3>2, <3>3
  <2>14. look'[c].pc = "idle" /\ \A d \in TableClients \ {c} : look'[d] = look[d]
    BY <1>4, LeftType
  <2>15. LooksHold'
    <3> SUFFICES ASSUME NEW d \in TableClients, look'[d].pc # "idle"
                 PROVE  \E a \in {0, 512} : \E seen \in SUBSET Entries : Passed(d, a, seen)'
      BY DEF LooksHold
    <3>1. look'[d] = look[d]
      BY <2>14
    <3>2. PICK a \in {0, 512}, seen \in SUBSET Entries : Passed(d, a, seen)
      BY <3>1 DEF TableHolds, LooksHold
    <3>3. \A x \in InBuckets : Kept(x) /\ (x # t => KeptAndNext(x))
      BY <1>9, <2>6
    <3>4. hashtable' = hashtable
      BY <1>4
    <3>5. t \in InBucket(b)
      BY <1>10, <2>1
    <3>6. Passed(d, a, seen)'
      BY <2>1, <2>12, <3>1, <3>2, <3>3, <3>4, <3>5, AppendKeepsLook
    <3> QED BY <3>6
  <2>16. MadeHold'
    <3>1. \A x \in MadeEntries \ InBuckets : KeptAndNext(x)
      BY <1>10, <2>1, <2>6
    <3> QED BY <1>1, <1>3, <1>5, <2>13, <2>14, <3>1, OthersMade DEF TableHolds
  <2>17. WindowsHold'
    <3>1. \A x \in InBuckets : Kept(x)
      BY <1>9, <2>6
    <3> QED BY <1>4, <2>12, <3>1, WindowsKept DEF TableHolds
  <2> QED BY <2>9, <2>10, <2>11, <2>13, <2>15, <2>16, <2>17 DEF TableHolds
<1> QED BY <1>11, <1>12

(* hashtable[hwnd & HASHMASK] = current                                    *)
LEMMA MakeFirstKeeps ==
  ASSUME TableTypeOK, NextMade, TableHolds, NEW c \in TableClients, MakeFirst(c)
  PROVE  TableTypeOK' /\ (~clash' => NextMade' /\ TableHolds')
<1>1. PICK l : l = look[c]
  OBVIOUS
<1>2. PICK b : b = Bucket[l.h]
  OBVIOUS
<1>3. PICK e : e = l.cur
  OBVIOUS
<1>4. /\ l.pc = "first" /\ look' = [look EXCEPT ![c] = NotLooking]
      /\ UNCHANGED <<exists, entry, xid, stale>>
      /\ clash' = (hashtable[b] # Nil) /\ hashtable' = [hashtable EXCEPT ![b] = e]
  BY <1>1, <1>2, <1>3 DEF MakeFirst
<1>5. Making(c)
  BY <1>1, <1>4 DEF Making
<1>6. /\ e \in MadeEntries /\ e \notin InBuckets /\ entry[e].hwnd = l.h
      /\ entry[e].next = Nil /\ ~entry[e].gone /\ e \in Entries
  BY <1>1, <1>3, <1>5 DEF TableHolds, MadeHold, MadeEntries
<1>7. b \in {0, 512} /\ Leads(l.h, b)
  <2>1. PICK a \in {0, 512}, met \in SUBSET Entries : Passed(c, a, met)
    BY <1>1, <1>4 DEF TableHolds, LooksHold
  <2>2. Leads(l.h, a)
    BY <1>1, <2>1 DEF Passed
  <2>3. l.h \in Handles /\ Alias(l.h) = l.h
    BY <2>2, Handling DEF Leads
  <2> QED BY <1>2, <2>3, Handling DEF Leads
<1>8. TableTypeOK'
  <2>1. hashtable' \in [{0, 512} -> Entries \cup {Nil}] /\ clash' \in BOOLEAN
    BY <1>4, <1>6, <1>7 DEF TableTypeOK
  <2> QED BY <1>4, <2>1, LeftType DEF TableTypeOK
<1>9. ASSUME ~clash' PROVE NextMade' /\ TableHolds'
  <2>1. hashtable[b] = Nil
    BY <1>4, <1>9
  <2>2. NewEntries' = NewEntries /\ MadeEntries' = MadeEntries
    BY <1>4 DEF NewEntries, MadeEntries
  <2>3. \A x \in MadeEntries : KeptAndNext(x)
    BY <1>4, <2>2 DEF KeptAndNext, Kept
  <2>4. /\ InBucket(b) = {} /\ InBucket(b)' = {e}
        /\ \A a \in {0, 512} \ {b} : InBucket(a)' = InBucket(a)
        /\ \A a \in {0, 512} : BucketHolds(a)'
    <3>1. entry'[e].next = Nil /\ ~entry'[e].gone /\ Leads(entry'[e].hwnd, b) /\ e \in MadeEntries'
      BY <1>4, <1>6, <1>7, <2>2
    <3>2. \A x \in MadeEntries \ {e} : KeptAndNext(x)
      BY <2>3
    <3>3. hashtable' = [hashtable EXCEPT ![b] = e] /\ e \in Entries /\ e \notin InBuckets
      BY <1>4, <1>6
    <3> QED BY <1>7, <2>1, <3>1, <3>2, <3>3, EnterKeeps, ZenonT(30)
  <2>5. NextMade'
    BY <1>4, <2>2 DEF NextMade
  <2>6. \A a \in {0, 512} : hashtable'[a] = IF a = b THEN e ELSE hashtable[a]
    BY <1>4 DEF TableTypeOK
  <2>7. \A a \in {0, 512} : hashtable'[a] \notin NewEntries'
    BY <1>6, <2>2, <2>6 DEF TableHolds, MadeEntries
  <2>8. (InBucket(0) \cap InBucket(512) = {})' /\ InBuckets' \subseteq InBuckets \cup {e}
    <3>1. e \notin InBucket(0) /\ e \notin InBucket(512)
      BY <1>6 DEF InBuckets
    <3>2. CASE b = 0
      BY <2>4, <3>1, <3>2 DEF InBuckets
    <3>3. CASE b = 512
      BY <2>4, <3>1, <3>3 DEF InBuckets
    <3> QED BY <1>7, <3>2, <3>3
  <2>9. look'[c].pc = "idle" /\ \A d \in TableClients \ {c} : look'[d] = look[d]
    BY <1>4, LeftType
  <2>10. InBuckets \subseteq MadeEntries
    BY BucketIsClosed DEF TableHolds, InBuckets
  <2>11. LooksHold'
    <3> SUFFICES ASSUME NEW d \in TableClients, look'[d].pc # "idle"
                 PROVE  \E a \in {0, 512} : \E seen \in SUBSET Entries : Passed(d, a, seen)'
      BY DEF LooksHold
    <3>1. look'[d] = look[d]
      BY <2>9
    <3>2. PICK a \in {0, 512}, seen \in SUBSET Entries : Passed(d, a, seen)
      BY <3>1 DEF TableHolds, LooksHold
    <3>3. \A x \in InBuckets : KeptAndNext(x)
      BY <2>3, <2>10
    <3>4. \A f \in {0, 512} \ {b} : hashtable'[f] = hashtable[f] /\ InBucket(f)' = InBucket(f)
      BY <2>4, <2>6
    <3>5. InBucket(b) = {}
      BY <2>4
    <3>6. Passed(d, a, seen)'
      BY <1>7, <2>1, <3>1, <3>2, <3>3, <3>4, <3>5, EnterKeepsLook
    <3> QED BY <3>6
  <2>12. MadeHold'
    BY <1>1, <1>3, <1>5, <2>3, <2>8, <2>9, OthersMade DEF TableHolds
  <2>13. WindowsHold'
    <3>1. \A x \in InBuckets : Kept(x)
      BY <2>3, <2>10 DEF KeptAndNext
    <3>2. \A a \in {0, 512} : InBucket(a) \subseteq InBucket(a)'
      BY <2>4
    <3> QED BY <1>4, <3>1, <3>2, WindowsKept DEF TableHolds
  <2> QED BY <2>4, <2>5, <2>7, <2>8, <2>11, <2>12, <2>13 DEF TableHolds
<1> QED BY <1>8, <1>9
-----------------------------------------------------------------------------
LEMMA TableStep == TableInv /\ [TableNext]_tableVars => TableInv'
<1> SUFFICES ASSUME TableInv, [TableNext]_tableVars PROVE TableInv'
  OBVIOUS
<1>1. ASSUME TableNext PROVE TableInv'
  <2>1. TableTypeOK /\ NextMade /\ TableHolds
    BY <1>1 DEF TableInv, TableNext
  <2>2. ASSUME NEW h \in Handles, CreateXpmWindow(h) PROVE TableInv'
    BY <2>1, <2>2, CreateXpmWindowType, CreateXpmWindowKeeps DEF TableInv
  <2>3. ASSUME NEW h \in Handles, CreateForeignWindow(h) \/ DestroyForeignWindow(h)
        PROVE  TableInv'
    BY <2>1, <2>3, ForeignWindowKeeps DEF TableInv
  <2>4. ASSUME NEW h \in Handles, NEW freeing \in BOOLEAN, DestroyXpmWindow(h, freeing)
        PROVE  TableInv'
    BY <2>1, <2>4, DestroyXpmWindowKeeps DEF TableInv
  <2>5. ASSUME NEW c \in TableClients, NEW h \in Handles, GetWindow(c, h) PROVE TableInv'
    BY <2>1, <2>5, GetWindowKeeps DEF TableInv
  <2>6. ASSUME NEW c \in TableClients, Walk(c) PROVE TableInv'
    BY <2>1, <2>6, WalkKeeps DEF TableInv
  <2>7. ASSUME NEW c \in TableClients, MakeEntry(c) PROVE TableInv'
    BY <2>1, <2>7, MakeEntryKeeps DEF TableInv
  <2>8. ASSUME NEW c \in TableClients, AppendEntry(c) PROVE TableInv'
    BY <2>1, <2>8, AppendEntryKeeps DEF TableInv
  <2>9. ASSUME NEW c \in TableClients, MakeFirst(c) PROVE TableInv'
    BY <2>1, <2>9, MakeFirstKeeps DEF TableInv
  <2> QED BY <1>1, <2>2, <2>3, <2>4, <2>5, <2>6, <2>7, <2>8, <2>9 DEF TableNext
<1>2. ASSUME UNCHANGED tableVars PROVE TableInv'
  <2>1. TableTypeOK'
    BY <1>2 DEF TableInv, TableTypeOK, tableVars
  <2>2. ASSUME ~clash' PROVE NextMade' /\ TableHolds'
    <3>1. ~clash /\ NextMade /\ TableHolds
      BY <1>2, <2>2 DEF TableInv, tableVars
    <3>2. \A a : InBucket(a)' = InBucket(a)
      BY <1>2 DEF tableVars, InBucket, Closed, NewEntries
    <3>3. WindowsHold'
      BY <1>2, <3>1, <3>2 DEF tableVars, TableHolds, WindowsHold
    <3> QED BY <1>2, <3>1, <3>3, OnlyWindows DEF tableVars
  <2> QED BY <2>1, <2>2 DEF TableInv
<1> QED BY <1>1, <1>2

THEOREM TableInvariant == TableSpec => []TableInv
BY TableInitial, TableStep, PTL DEF TableSpec

(* The table of windows keeps its type: a pointer in a bucket, in an entry *)
(* or in a client that walks is an EB_Window or the null pointer.          *)
THEOREM TableTypeCorrect == TableSpec => []TableTypeOK
<1>1. TableInv => TableTypeOK
  BY DEF TableInv
<1> QED BY <1>1, TableInvariant, PTL

(* Of any number of windows, clients and entries: as long as nobody has    *)
(* used what another had changed, every handle has one entry in the table, *)
(* none in it is freed, and getWindow finds for each window of the daemon  *)
(* the structure with its attributes.                                      *)
THEOREM WindowIsFoundHolds == TableSpec => []WindowIsFound
<1>1. TableInv => WindowIsFound
  <2> SUFFICES ASSUME TableTypeOK, TableHolds PROVE WindowIsFound
    BY DEF TableInv, WindowIsFound
  <2>1. \A b \in {0, 512} : BucketHolds(b)
    BY DEF TableHolds
  <2>2. OneEntry
    <3> SUFFICES ASSUME NEW e \in InBuckets, NEW f \in InBuckets, entry[e].hwnd = entry[f].hwnd,
                        e # f
                 PROVE  /\ entry[e].hwnd = HWND_DESKTOP
                        /\ Bucket[RealDesktop] # Bucket[HWND_DESKTOP]
      BY DEF OneEntry, InBuckets
    <3>1. PICK a \in {0, 512} : e \in InBucket(a)
      BY DEF InBuckets
    <3>2. PICK b \in {0, 512} : f \in InBucket(b)
      BY DEF InBuckets
    <3>3. a # b
      BY <2>1, <3>1, <3>2 DEF BucketHolds
    <3>4. Leads(entry[e].hwnd, a) /\ Leads(entry[e].hwnd, b)
      BY <2>1, <3>1, <3>2 DEF BucketHolds
    <3> QED BY <3>3, <3>4 DEF Leads, Alias
  <2>3. \A b \in {0, 512} : \A e \in InBucket(b) : ~entry[e].gone
    BY <2>1 DEF BucketHolds
  <2>4. ASSUME NEW h \in Handles \ stale, exists[h] = "xpm"
        PROVE  Found(h) = {xid[h]} /\ entry[xid[h]].own
    <3>1. PICK b \in {0, 512} : b = Bucket[h]
      BY Handling
    <3>2. xid[h] \in InBucket(b) /\ entry[xid[h]].hwnd = h /\ entry[xid[h]].own
      BY <2>4, <3>1 DEF TableHolds, WindowsHold
    <3>3. Alias(h) = h
      BY <2>4, Handling DEF TableHolds, WindowsHold
    <3> QED BY <2>1, <3>1, <3>2, <3>3 DEF Found, BucketHolds
  <2> QED BY <2>2, <2>3, <2>4 DEF WindowIsFound
<1> QED BY <1>1, TableInvariant, PTL
-----------------------------------------------------------------------------
(***************************************************************************)
(* The tables of the server side by side.                                  *)
(***************************************************************************)

(* A behaviour of MCSharedTables is one of each of the parts: a step of    *)
(* one of them is a step that the others do not take part in.              *)
THEOREM PartsKeepTheirSpecs ==
  Spec => /\ MasksSpec /\ TableSpec /\ HeapSpec /\ GravitySpec /\ GCSpec /\ AtomSpec /\ CountSpec
<1>1. Init => /\ MasksInit /\ TableInit /\ HeapInit /\ GravityInit /\ GCInit /\ AtomInit /\ CountInit
  BY DEF Init
<1>2. [Next]_vars => /\ [MasksNext]_maskVars /\ [TableNext]_tableVars /\ [HeapNext]_heapVars
                     /\ [GravityNext]_gravityVars /\ [GCNext]_gcVars /\ [AtomNext]_atomVars
                     /\ [CountNext]_countVars
  BY DEF Next, vars, maskVars, tableVars, heapVars, gravityVars, gcVars, atomVars, countVars
<1> QED BY <1>1, <1>2, PTL DEF Spec, MasksSpec, TableSpec, HeapSpec, GravitySpec, GCSpec, AtomSpec,
                               CountSpec

(* All tables keep their types together.                                   *)
THEOREM TablesTyped == Spec => []TypeOK
<1>1. Spec => /\ []MasksTypeOK /\ []TableTypeOK /\ []HeapTypeOK /\ []GravityTypeOK /\ []GCTypeOK
              /\ []AtomTypeOK /\ []CountTypeOK
  BY PartsKeepTheirSpecs, MasksTyped, TableTypeCorrect, HeapTypeCorrect, GravityTypeCorrect,
     GCTypeCorrect, AtomTypeCorrect, CountTypeCorrect, PTL
<1>2. MasksTypeOK /\ TableTypeOK /\ HeapTypeOK /\ GravityTypeOK /\ GCTypeOK /\ AtomTypeOK /\ CountTypeOK
        => TypeOK
  BY DEF TypeOK
<1> QED BY <1>1, <1>2, PTL

(* What holds of each of them holds of them together: the chains of        *)
(* clients stay walkable and intact and events go to whoever asked, a      *)
(* window is found, the pages match the blocks, children drift no further, *)
(* drawing is with the attributes of the GC, atoms are permanent and what  *)
(* is used is there.                                                       *)
THEOREM TablesHold ==
  Spec => [](/\ WalksAreSafe /\ ChainsIntact /\ SelectorsGetEvents /\ OneKeyPressClient
             /\ WindowIsFound /\ PagesMatchBlocks /\ SearchIsFirstFit /\ DriftBound
             /\ DrawsWithGC /\ AtomsArePermanent /\ UsedIsThere)
BY PartsKeepTheirSpecs, WalksSafe, ChainsStayIntact, SelectorsGet, OneHasKeyPress,
   WindowIsFoundHolds, PagesMatchBlocksHolds, SearchIsFirstFitHolds, DriftBoundHolds,
   DrawsWithGCHolds, AtomsArePermanentHolds, UsedIsThereHolds, PTL
=============================================================================
