--------------------------- MODULE MCSharedTables ---------------------------
(***************************************************************************)
(* The tables and caches of the server in one run.  They share no state:   *)
(* a behaviour is one of one of them, chosen at the beginning, while the   *)
(* others stay as they are.                                                *)
(***************************************************************************)
EXTENDS EventMasks, WindowTable, HeapPages, Gravity, GCCache, AtomTable, ResourceCount, TLC

CONSTANTS desk, real, h1, w1, w2, key, move

VARIABLE part

MCAsked == (w1 :> {{}, {key}}) @@ (w2 :> {{move}})
MCHandles == {desk, real, h1}
MCBucket == [h \in MCHandles |-> IF h = desk THEN 0 ELSE 512]

(* The threads and clients of all the tables are the same two values, and  *)
(* so are cursors and what is drawn on, so that the run permutes two pairs *)
(* of values only.                                                         *)
Symmetry == Permutations(MaskClients) \cup Permutations(Drawables)

vars == <<part, maskVars, tableVars, heapVars, gravityVars, gcVars, atomVars, countVars>>

(* The gravities are chosen at the start; elsewhere one choice stands for  *)
(* all of them.                                                            *)
Init ==
  /\ part \in {"masks", "table", "heap", "gravity", "gc", "atoms", "counts"}
  /\ MasksInit /\ TableInit /\ HeapInit /\ GravityInit /\ GCInit /\ AtomInit /\ CountInit
  /\ part # "gravity" =>
       axis = "x" /\ framed = FALSE /\ bit = StaticGravity /\ win = StaticGravity /\ size = 0

Next ==
  \/ /\ part = "masks" /\ MasksNext
     /\ UNCHANGED <<part, tableVars, heapVars, gravityVars, gcVars, atomVars, countVars>>
  \/ /\ part = "table" /\ TableNext
     /\ UNCHANGED <<part, maskVars, heapVars, gravityVars, gcVars, atomVars, countVars>>
  \/ /\ part = "heap" /\ HeapNext
     /\ UNCHANGED <<part, maskVars, tableVars, gravityVars, gcVars, atomVars, countVars>>
  \/ /\ part = "gravity" /\ GravityNext
     /\ UNCHANGED <<part, maskVars, tableVars, heapVars, gcVars, atomVars, countVars>>
  \/ /\ part = "gc" /\ GCNext
     /\ UNCHANGED <<part, maskVars, tableVars, heapVars, gravityVars, atomVars, countVars>>
  \/ /\ part = "atoms" /\ AtomNext
     /\ UNCHANGED <<part, maskVars, tableVars, heapVars, gravityVars, gcVars, countVars>>
  \/ /\ part = "counts" /\ CountNext
     /\ UNCHANGED <<part, maskVars, tableVars, heapVars, gravityVars, gcVars, atomVars>>

Spec == Init /\ [][Next]_vars

(* One invariant for the types of all of them.                             *)
TypeOK ==
  /\ part = "masks" => MasksTypeOK
  /\ part = "table" => TableTypeOK
  /\ part = "heap" => HeapTypeOK
  /\ part = "gravity" => GravityTypeOK
  /\ part = "gc" => GCTypeOK
  /\ part = "atoms" => AtomTypeOK
  /\ part = "counts" => CountTypeOK
=============================================================================
