---------------------------- MODULE ContextTable ----------------------------
(***************************************************************************)
(* The context manager of a display: a hash from a resource and a context  *)
(* to a pointer, which grows and shrinks with its entries.  XFindContext   *)
(* and XDeleteContext hold its mutex while they look; XSaveContext holds   *)
(* it to find the bucket and to count the entry, but not in between.  The  *)
(* heap gives memory again that has been freed.  The mutex is granted: that*)
(* a request may time out, which the code does not look at, is left out.   *)
(***************************************************************************)
EXTENDS Integers, FiniteSets

CONSTANTS Threads,        \* threads of the client
          Keys,           \* pairs of a resource and a context
          KeyHash,        \* (rid << 1) + context of each
          Data,           \* what is saved
          InitHashMask    \* INITHASHMASK, 63

ASSUME ContextAssumption ==
  /\ KeyHash \in [Keys -> Nat]
  /\ InitHashMask \in Nat \ {0}

VARIABLES made,         \* is there a db at display->context_db
          mask,         \* db->mask, one less than the number of buckets
          table,        \* bucket -> its entries
          numentries,
          saving,       \* thread -> its place in XSaveContext
          saved,        \* history: what was saved last and not deleted
          raced         \* history: somebody used what another had changed

contextVars == <<made, mask, table, numentries, saving, saved, raced>>
-----------------------------------------------------------------------------
Unsaved == "nothing"

(* What is saved is not mistaken for nothing.                              *)
ASSUME UnsavedAssumption == Unsaved \notin Data

NotSaving == [pc |-> "idle", key |-> Unsaved, data |-> Unsaved]
AllEntries(t) == UNION {t[b] : b \in DOMAIN t}
Hash(k, m) == KeyHash[k] % (m + 1)
Holding(k, t, m) == {e \in t[Hash(k, m)] : e.key = k}

(* The number of buckets for n entries: INITHASHMASK + 1, and twice that   *)
(* as often as it stays below n.                                           *)
Buckets(n) ==
  LET fit[k \in Nat] == IF k + k < n THEN fit[k + k] ELSE k
  IN fit[InitHashMask + 1]

Rehash(t, m) == [b \in 0 .. m |-> {e \in AllEntries(t) : Hash(e.key, m) = b}]

(* ResizeTable, which the caller does under a condition.                   *)
ResizeTable(t, n, condition) ==
  LET m == IF condition THEN Buckets(n) - 1 ELSE mask
  IN /\ mask' = m
     /\ table' = IF condition THEN Rehash(t, m) ELSE t

(* Threads that have a pointer to the head of a bucket, or to an entry.    *)
InTable(t) == saving[t].pc \in {"walk", "link"}
At(t, place) == saving' = [saving EXCEPT ![t].pc = place]

ContextInit ==
  /\ made = FALSE
  /\ mask = InitHashMask
  /\ table = [b \in 0 .. InitHashMask |-> {}]
  /\ numentries = 0
  /\ saving = [t \in Threads |-> NotSaving]
  /\ saved = [k \in Keys |-> Unsaved]
  /\ raced = FALSE
-----------------------------------------------------------------------------
(* XSaveContext looks whether there is a db ...                            *)
SaveContext(t, k, d) ==
  /\ saving[t].pc = "idle"
  /\ saving' = [saving EXCEPT ![t] =
       [pc |-> IF made THEN "lock" ELSE "make", key |-> k, data |-> d]]
  /\ UNCHANGED <<made, mask, table, numentries, saved, raced>>

(* ... and stores a new one, over one that another thread has stored.      *)
MakeTable(t) ==
  /\ saving[t].pc = "make"
  /\ made' = TRUE
  /\ raced' = made
  /\ At(t, "lock")
  /\ UNCHANGED <<mask, table, numentries, saved>>

(* head = &Hash(db, rid, context), under the mutex.                        *)
ReadHead(t) ==
  /\ saving[t].pc = "lock"
  /\ At(t, "walk")
  /\ UNCHANGED <<made, mask, table, numentries, saved, raced>>

\* Mutant: an entry that is found is counted like a new one.
WalkAndCount(t) ==
  LET k == saving[t].key
      b == Hash(k, mask)
      old == Holding(k, table, mask)
  IN /\ saving[t].pc = "walk"
     /\ IF old = {} THEN At(t, "link") /\ UNCHANGED <<table, saved>>
        ELSE /\ table' = [table EXCEPT ![b] = (@ \ old) \cup {[key |-> k, data |-> saving[t].data]}]
             /\ saved' = [saved EXCEPT ![k] = saving[t].data]
             /\ At(t, "count")
     /\ UNCHANGED <<made, mask, numentries, raced>>

(* The loop over the bucket without it: an entry that is found gets the    *)
(* data, and the call is done.                                             *)
WalkBucket(t) ==
  LET k == saving[t].key
      b == Hash(k, mask)
      old == Holding(k, table, mask)
  IN /\ saving[t].pc = "walk"
     /\ IF old = {} THEN At(t, "link") /\ UNCHANGED <<table, saved>>
        ELSE /\ table' = [table EXCEPT ![b] = (@ \ old) \cup {[key |-> k, data |-> saving[t].data]}]
             /\ saved' = [saved EXCEPT ![k] = saving[t].data]
             /\ saving' = [saving EXCEPT ![t] = NotSaving]
     /\ UNCHANGED <<made, mask, numentries, raced>>

(* entry->next = *head; *head = entry, if nobody has put another entry     *)
(* into the bucket since the loop: he may have saved the same key.         *)
LinkEntry(t) ==
  LET b == Hash(saving[t].key, mask)
  IN /\ saving[t].pc = "link"
     /\ table' = [table EXCEPT ![b] = @ \cup {[key |-> saving[t].key, data |-> saving[t].data]}]
     /\ raced' = \E u \in Threads \ {t} :
                   InTable(u) /\ Hash(saving[u].key, mask) = b
     /\ saved' = [saved EXCEPT ![saving[t].key] = saving[t].data]
     /\ At(t, "count")
     /\ UNCHANGED <<made, mask, numentries>>

(* db->numentries++ and ResizeTable under the mutex.  The old table is     *)
(* freed, whoever points into it.                                          *)
CountEntry(t) ==
  LET grow == numentries + 1 > mask * 4
  IN /\ saving[t].pc = "count"
     /\ numentries' = numentries + 1
     /\ ResizeTable(table, numentries + 1, grow)
     /\ raced' = (grow /\ \E u \in Threads : InTable(u))
     /\ saving' = [saving EXCEPT ![t] = NotSaving]
     /\ UNCHANGED <<made, saved>>

(* XDeleteContext, under the mutex; the entry is freed, and the bucket is  *)
(* changed under the eyes of another thread.                               *)
DeleteContext(t, k) ==
  LET old == Holding(k, table, mask)
      without == [table EXCEPT ![Hash(k, mask)] = @ \ old]
      shrink == numentries - 1 < mask /\ mask > InitHashMask
  IN /\ saving[t].pc = "idle"
     /\ old # {}
     /\ numentries' = numentries - 1
     /\ ResizeTable(without, numentries - 1, shrink)
     /\ raced' = \E u \in Threads :
                   InTable(u) /\ (shrink \/ Hash(saving[u].key, mask) = Hash(k, mask))
     /\ saved' = [saved EXCEPT ![k] = Unsaved]
     /\ UNCHANGED <<made, saving>>

ContextNext ==
  /\ ~raced
  /\ \E t \in Threads :
       \/ \E k \in Keys : DeleteContext(t, k) \/ \E d \in Data : SaveContext(t, k, d)
       \/ MakeTable(t) \/ ReadHead(t) \/ WalkBucket(t) \/ LinkEntry(t) \/ CountEntry(t)

ContextSpec == ContextInit /\ [][ContextNext]_contextVars
-----------------------------------------------------------------------------
ContextTypeOK ==
  /\ made \in BOOLEAN
  /\ mask + 1 \in {Buckets(n) : n \in 0 .. Cardinality(Keys)}
  /\ table \in [0 .. mask -> SUBSET [key : Keys, data : Data]]
  /\ numentries \in Int
  /\ saving \in [Threads -> [pc : {"idle", "make", "lock", "walk", "link", "count"},
                             key : Keys \cup {Unsaved}, data : Data \cup {Unsaved}]]
  /\ saved \in [Keys -> Data \cup {Unsaved}]
  /\ raced \in BOOLEAN

(* XFindContext: the data in the bucket that the mask gives now.           *)
FindContext(k) == {e.data : e \in Holding(k, table, mask)}

(* The count that decides about the size is the number of entries, less    *)
(* those whose threads are about to count them.                            *)
CountIsRight ==
  numentries + Cardinality({t \in Threads : saving[t].pc = "count"})
    = Cardinality(AllEntries(table))

(* However the table grows and shrinks, and whatever the threads save at   *)
(* once in different buckets: XFindContext returns what was saved last for *)
(* the key, and nothing if that was deleted; and the table is resized by a *)
(* count that is right.                                                    *)
SavedIsFound ==
  ~raced => CountIsRight /\ \A k \in Keys : FindContext(k) = {saved[k]} \ {Unsaved}
=============================================================================
