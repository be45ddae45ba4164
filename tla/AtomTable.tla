----------------------------- MODULE AtomTable -----------------------------
(***************************************************************************)
(* The atoms of a process.  XInternAtom looks the name up entry by entry   *)
(* and adds it behind the last: it counts the entry, sets its address,     *)
(* copies the string there and moves on where the next string will go.     *)
(* Nothing is locked ("add locking" is on the list at the head of Atom.c). *)
(***************************************************************************)
EXTENDS Naturals, Sequences

CONSTANTS AtomThreads,   \* threads of the client
          Names,         \* strings other than the empty one
          MaxAtoms       \* entries of AtomTbl, 1024

ASSUME AtomAssumption == MaxAtoms \in Nat \ {0}

VARIABLES AtomTbl,       \* addresses of strings; an atom is an index less 1
          AtomBuf,       \* address -> the string that is there
          AtomTail,      \* where the next string goes
          intern,        \* thread -> its place in XInternAtom
          given,         \* history: the atoms that XInternAtom has returned
          mixed          \* history: somebody used what another had changed

atomVars == <<AtomTbl, AtomBuf, AtomTail, intern, given, mixed>>
-----------------------------------------------------------------------------
Empty == ""
Addresses == 0 .. MaxAtoms
NotInterning == [pc |-> "idle", name |-> Empty, i |-> 0]
LastAtom == Len(AtomTbl)
NoName == "NULL"
NameOf(atom) == AtomBuf[AtomTbl[atom + 1]]
XGetAtomName(atom) == IF atom \in 1 .. LastAtom THEN NameOf(atom) ELSE NoName
Interned(name) == \E atom \in 0 .. LastAtom - 1 : NameOf(atom) = name
Adding(t) == intern[t].pc \in {"copy", "advance"}

AtomInit ==
  /\ AtomTbl = <<0>>
  /\ AtomBuf = [a \in Addresses |-> Empty]
  /\ AtomTail = 1
  /\ intern = [t \in AtomThreads |-> NotInterning]
  /\ given = {}
  /\ mixed = FALSE

Return(t, atom) ==
  /\ given' = given \cup {<<intern[t].name, atom>>}
  /\ intern' = [intern EXCEPT ![t] = NotInterning]
-----------------------------------------------------------------------------
InternAtom(t, name) ==
  /\ intern[t].pc = "idle"
  /\ intern' = [intern EXCEPT ![t] = [pc |-> "search", name |-> name, i |-> 0]]
  /\ UNCHANGED <<AtomTbl, AtomBuf, AtomTail, given, mixed>>

(* One turn of the loop, which reads LastAtom each time.                   *)
Compare(t) ==
  LET i == intern[t].i
  IN /\ intern[t].pc = "search" /\ i < LastAtom
     /\ IF NameOf(i) = intern[t].name THEN Return(t, i)
        ELSE /\ intern' = [intern EXCEPT ![t].i = i + 1]
             /\ UNCHANGED given
     /\ UNCHANGED <<AtomTbl, AtomBuf, AtomTail, mixed>>

(* only_if_exists: None, which is the atom of the empty string too.        *)
NotThere(t) ==
  /\ intern[t].pc = "search" /\ intern[t].i = LastAtom
  /\ intern' = [intern EXCEPT ![t] = NotInterning]
  /\ UNCHANGED <<AtomTbl, AtomBuf, AtomTail, given, mixed>>

(* AtomTbl[i = LastAtom++] = AtomTail.  Another thread may be adding a     *)
(* name at the same address, or have added the same name since the search. *)
(* That the table is full is not looked at: the bound is the model's.      *)
TakeEntry(t) ==
  /\ intern[t].pc = "search" /\ intern[t].i = LastAtom
  /\ LastAtom < MaxAtoms
  /\ AtomTbl' = Append(AtomTbl, AtomTail)
  /\ intern' = [intern EXCEPT ![t] = [pc |-> "copy", name |-> @.name, i |-> LastAtom]]
  /\ mixed' = \/ \E u \in AtomThreads : Adding(u)
              \/ Interned(intern[t].name)
  /\ UNCHANGED <<AtomBuf, AtomTail, given>>

(* strcpy(AtomTbl[i], atom_name)                                           *)
CopyName(t) ==
  /\ intern[t].pc = "copy"
  /\ AtomBuf' = [AtomBuf EXCEPT ![AtomTbl[intern[t].i + 1]] = intern[t].name]
  /\ intern' = [intern EXCEPT ![t].pc = "advance"]
  /\ UNCHANGED <<AtomTbl, AtomTail, given, mixed>>

\* Mutant: AtomTail stays on the string that was copied.
StayThere(t) ==
  /\ intern[t].pc = "advance"
  /\ Return(t, intern[t].i)
  /\ UNCHANGED <<AtomTbl, AtomBuf, AtomTail, mixed>>

(* AtomTail += strlen(atom_name) + 1                                       *)
Advance(t) ==
  /\ intern[t].pc = "advance"
  /\ AtomTail' = AtomTail + 1
  /\ Return(t, intern[t].i)
  /\ UNCHANGED <<AtomTbl, AtomBuf, mixed>>

AtomNext ==
  /\ ~mixed
  /\ \E t \in AtomThreads :
       \/ \E name \in Names \cup {Empty} : InternAtom(t, name)
       \/ Compare(t) \/ NotThere(t) \/ TakeEntry(t) \/ CopyName(t) \/ Advance(t)

AtomSpec == AtomInit /\ [][AtomNext]_atomVars
-----------------------------------------------------------------------------
AtomTypeOK ==
  /\ AtomTbl \in Seq(Addresses) /\ LastAtom \in 1 .. MaxAtoms
  /\ AtomBuf \in [Addresses -> Names \cup {Empty}]
  /\ AtomTail \in Addresses
  /\ intern \in [AtomThreads -> [pc : {"idle", "search", "copy", "advance"},
                   name : Names \cup {Empty}, i : 0 .. MaxAtoms]]
  /\ given \subseteq (Names \cup {Empty}) \X (0 .. MaxAtoms)
  /\ mixed \in BOOLEAN

(* An atom once returned is that of its name for good: XGetAtomName gives  *)
(* the name, and no other name has the atom nor the name another atom,     *)
(* though threads search while another adds.  The empty string has atom 0, *)
(* for which XGetAtomName has no name.                                     *)
AtomsArePermanent ==
  ~mixed => \A p \in given :
     /\ IF p[1] = Empty THEN p[2] = 0 ELSE XGetAtomName(p[2]) = p[1]
     /\ \A q \in given : p[1] = q[1] <=> p[2] = q[2]
=============================================================================
