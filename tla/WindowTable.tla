---------------------------- MODULE WindowTable ----------------------------
(***************************************************************************)
(* The hash of PM window handles, through which daemon and clients find    *)
(* the EB_Window of a window.  The hooks of the time critical daemon enter *)
(* a window when PM creates it and take it out when PM destroys it; a      *)
(* client enters whatever handle PM shows it, foreign windows as well,     *)
(* access by access and without a lock.                                    *)
(***************************************************************************)
EXTENDS Naturals, FiniteSets

CONSTANTS TableClients,     \* processes that look windows up
          Handles,          \* window handles of PM, which it uses again
          HWND_DESKTOP, RealDesktop,   \* the desktop, by its two handles
          Bucket,           \* hwnd & HASHMASK, which is hwnd & 512
          MaxEntries,       \* bound: EB_Window structures ever made
          Nil              \* the null pointer

ASSUME TableAssumption ==
  /\ {HWND_DESKTOP, RealDesktop} \subseteq Handles
  /\ Bucket \in [Handles -> {0, 512}]
  /\ MaxEntries \in Nat
  /\ Nil \notin Handles \cup 1 .. MaxEntries
  /\ Nil \notin [hwnd : Handles, next : 1 .. MaxEntries \cup {Nil}, own : BOOLEAN,
                 gone : BOOLEAN]

VARIABLES exists,     \* handle -> "none", "xpm" or "foreign"
          hashtable,  \* the first entry of each bucket
          entry,      \* hwnd and next of each EB_Window; whether it was
                      \* made by XCreateWindow; whether it is freed
          xid,        \* handle -> the entry um_createWindow has returned
          look,       \* client -> its place in getWindow
          clash,      \* history: somebody used what another had changed
          stale       \* history: handles with an entry older than the window

tableVars == <<exists, hashtable, entry, xid, look, clash, stale>>
-----------------------------------------------------------------------------
Entries == 1 .. MaxEntries
NewEntries == {e \in Entries : entry[e] = Nil}
NewEntry == CHOOSE e \in NewEntries : \A f \in NewEntries : e <= f
Alias(h) == IF h = RealDesktop THEN HWND_DESKTOP ELSE h
NotLooking == [pc |-> "idle", h |-> Nil, cur |-> Nil, last |-> Nil]

(* The entries that a loop over next meets in a bucket: those without which*)
(* no set has the first entry and what follows on each of its own.         *)
Closed(b, S) ==
  /\ hashtable[b] \in S \cup {Nil}
  /\ \A e \in S : entry[e].next \in S \cup {Nil}
InBucket(b) ==
  LET made == Entries \ NewEntries
  IN {e \in made : \A S \in SUBSET (made \ {e}) : ~Closed(b, S)}

(* What getWindow finds, and where its search ends.                        *)
Found(h) == {e \in InBucket(Bucket[h]) : entry[e].hwnd = Alias(h)}
LastOf(b) == CHOOSE e \in InBucket(b) : entry[e].next = Nil

TableInit ==
  /\ exists = [h \in Handles |-> IF Alias(h) = HWND_DESKTOP THEN "foreign" ELSE "none"]
  /\ hashtable = [b \in {0, 512} |-> Nil]
  /\ entry = [e \in Entries |-> Nil]
  /\ xid = [h \in Handles |-> Nil]
  /\ look = [c \in TableClients |-> NotLooking]
  /\ clash = FALSE
  /\ stale = {}
-----------------------------------------------------------------------------
(* PM creates a window of the daemon, and its WM_CREATE hook calls         *)
(* getWindow(hwnd, TRUE, ebw).  Not here: borders, and windows whose parent*)
(* is not in the table, which the hook leaves alone; a lookup of WM_SHOW   *)
(* adds no case, because a window of the daemon is entered before.         *)
CreateXpmWindow(h) ==
  /\ exists[h] = "none" /\ NewEntries # {}
  /\ exists' = [exists EXCEPT ![h] = "xpm"]
  /\ stale' = IF Found(h) = {} THEN stale \ {h} ELSE stale \cup {h}
  /\ IF Found(h) # {}
     THEN /\ xid' = [xid EXCEPT ![h] = CHOOSE e \in Found(h) : TRUE]
          /\ UNCHANGED <<hashtable, entry>>
     ELSE LET made == [entry EXCEPT ![NewEntry] =
                         [hwnd |-> h, next |-> Nil, own |-> TRUE, gone |-> FALSE]]
          IN /\ xid' = [xid EXCEPT ![h] = NewEntry]
             /\ IF hashtable[Bucket[h]] = Nil
                THEN /\ hashtable' = [hashtable EXCEPT ![Bucket[h]] = NewEntry]
                     /\ entry' = made
                ELSE /\ entry' = [made EXCEPT ![LastOf(Bucket[h])].next = NewEntry]
                     /\ UNCHANGED hashtable
  /\ UNCHANGED <<look, clash>>

\* Mutant: the entry of a window that is freed stays in the table.
DestroyInPlace(h, freeing) ==
  /\ exists[h] = "xpm"
  /\ exists' = [exists EXCEPT ![h] = "none"]
  /\ entry' = [entry EXCEPT ![xid[h]].gone = @ \/ freeing]
  /\ xid' = [xid EXCEPT ![h] = Nil]
  /\ UNCHANGED <<hashtable, look, clash, stale>>

(* WM_DESTROY: removeWindow takes the first entry with the handle out and  *)
(* leaves its next alone.  freeResource follows if it was um_destroyWindow *)
(* that destroyed the window, not PM with the parent.                      *)
DestroyXpmWindow(h, freeing) ==
  LET b == Bucket[h]
      old == CHOOSE e \in Found(h) : TRUE
      after == entry[old].next
      void == [entry EXCEPT ![xid[h]].gone = @ \/ freeing]
      lost == IF Found(h) = {} THEN {} ELSE {old}
  IN /\ exists[h] = "xpm"
     /\ exists' = [exists EXCEPT ![h] = "none"]
     /\ IF Found(h) = {} THEN entry' = void /\ UNCHANGED hashtable
        ELSE IF hashtable[b] = old
        THEN entry' = void /\ hashtable' = [hashtable EXCEPT ![b] = after]
        ELSE /\ entry' = [void EXCEPT ![CHOOSE e \in InBucket(b) : entry[e].next = old].next = after]
             /\ UNCHANGED hashtable
     /\ xid' = [xid EXCEPT ![h] = Nil]
     /\ clash' = \E c \in TableClients : {look[c].cur, look[c].last} \cap lost # {}
     /\ UNCHANGED <<look, stale>>

(* Another program's windows come and go: no hook of the daemon sees it.   *)
CreateForeignWindow(h) ==
  /\ exists[h] = "none"
  /\ exists' = [exists EXCEPT ![h] = "foreign"]
  /\ UNCHANGED <<hashtable, entry, xid, look, clash, stale>>

DestroyForeignWindow(h) ==
  /\ exists[h] = "foreign" /\ Alias(h) # HWND_DESKTOP
  /\ exists' = [exists EXCEPT ![h] = "none"]
  /\ UNCHANGED <<hashtable, entry, xid, look, clash, stale>>
-----------------------------------------------------------------------------
(* A client calls getWindow(h, TRUE, Nil) for a handle that PM has given  *)
(* it: the bucket is computed before the desktop's handle is replaced.     *)
GetWindow(c, h) ==
  /\ look[c].pc = "idle" /\ exists[h] # "none"
  /\ look' = [look EXCEPT ![c] = [pc |-> "walk", h |-> Alias(h),
                                  cur |-> hashtable[Bucket[h]], last |-> Nil]]
  /\ UNCHANGED <<exists, hashtable, entry, xid, clash, stale>>

(* One turn of the loop.                                                   *)
Walk(c) ==
  LET e == look[c].cur
  IN /\ look[c].pc = "walk" /\ e # Nil
     /\ look' = [look EXCEPT ![c] =
          IF entry[e].hwnd = look[c].h THEN NotLooking
          ELSE [@ EXCEPT !.cur = entry[e].next, !.last = e]]
     /\ UNCHANGED <<exists, hashtable, entry, xid, clash, stale>>

(* Not found: a structure is made, and the bucket looked at once more.     *)
MakeEntry(c) ==
  /\ look[c].pc = "walk" /\ look[c].cur = Nil /\ NewEntries # {}
  /\ entry' = [entry EXCEPT ![NewEntry] =
                 [hwnd |-> look[c].h, next |-> Nil, own |-> FALSE, gone |-> FALSE]]
  /\ look' = [look EXCEPT ![c].pc = IF hashtable[Bucket[look[c].h]] = Nil THEN "first"
                                    ELSE "append", ![c].cur = NewEntry]
  /\ UNCHANGED <<exists, hashtable, xid, clash, stale>>

(* ebw->next = current, where ebw is the last entry the loop has met; it   *)
(* is not initialised if the loop has met none.                            *)
AppendEntry(c) ==
  LET last == look[c].last
  IN /\ look[c].pc = "append"
     /\ IF last = Nil THEN clash' = TRUE /\ UNCHANGED entry
        ELSE /\ clash' = (entry[last].next # Nil)
             /\ entry' = [entry EXCEPT ![last].next = look[c].cur]
     /\ look' = [look EXCEPT ![c] = NotLooking]
     /\ UNCHANGED <<exists, hashtable, xid, stale>>

(* hashtable[hwnd & HASHMASK] = current                                    *)
MakeFirst(c) ==
  LET b == Bucket[look[c].h]
  IN /\ look[c].pc = "first"
     /\ clash' = (hashtable[b] # Nil)
     /\ hashtable' = [hashtable EXCEPT ![b] = look[c].cur]
     /\ look' = [look EXCEPT ![c] = NotLooking]
     /\ UNCHANGED <<exists, entry, xid, stale>>

TableNext ==
  /\ ~clash
  /\ \/ \E h \in Handles :
          \/ CreateXpmWindow(h) \/ CreateForeignWindow(h) \/ DestroyForeignWindow(h)
          \/ \E freeing \in BOOLEAN : DestroyXpmWindow(h, freeing)
          \/ \E c \in TableClients : GetWindow(c, h)
     \/ \E c \in TableClients : Walk(c) \/ MakeEntry(c) \/ AppendEntry(c) \/ MakeFirst(c)

TableSpec == TableInit /\ [][TableNext]_tableVars
-----------------------------------------------------------------------------
TableTypeOK ==
  /\ exists \in [Handles -> {"none", "xpm", "foreign"}]
  /\ hashtable \in [{0, 512} -> Entries \cup {Nil}]
  /\ entry \in [Entries -> [hwnd : Handles, next : Entries \cup {Nil}, own : BOOLEAN,
                            gone : BOOLEAN] \cup {Nil}]
  /\ xid \in [Handles -> Entries \cup {Nil}]
  /\ look \in [TableClients -> [pc : {"idle", "walk", "append", "first"},
                 h : Handles \cup {Nil}, cur : Entries \cup {Nil}, last : Entries \cup {Nil}]]
  /\ clash \in BOOLEAN
  /\ stale \subseteq Handles

(* A handle has one EB_Window, unless it is the desktop's and its two      *)
(* handles fall into different buckets.                                    *)
OneEntry ==
  \A e, f \in InBucket(0) \cup InBucket(512) :
    entry[e].hwnd = entry[f].hwnd =>
      e = f \/ /\ entry[e].hwnd = HWND_DESKTOP
               /\ Bucket[RealDesktop] # Bucket[HWND_DESKTOP]

(* A window that XCreateWindow has made is found by its handle as long as  *)
(* it exists, as the one structure with its attributes, which is not       *)
(* freed; so is no other.  Not so if the handle was in the table before:   *)
(* nobody takes out the windows of other programs.                         *)
WindowIsFound ==
  ~clash => /\ OneEntry
            /\ \A b \in {0, 512} : \A e \in InBucket(b) : ~entry[e].gone
            /\ \A h \in Handles \ stale : exists[h] = "xpm" =>
                 Found(h) = {xid[h]} /\ entry[xid[h]].own
=============================================================================
