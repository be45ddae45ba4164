----------------------------- MODULE MCPixmapCache -----------------------------
(* Instance of PixmapCache: a process with two threads and one with one; a     *)
(* pixmap on which one thread draws, and one to which all of them copy.        *)
EXTENDS PixmapCache

CONSTANTS p1, p2, t1, t2, t3, own, shared

MCProcs   == {p1, p2}
MCThreads == {t1, t2, t3}
MCProcOf  == [t \in MCThreads |-> IF t = t3 THEN p2 ELSE p1]
MCPixmaps == {own, shared}

MCMayDraw     == [t \in MCThreads |-> IF t = t1 THEN {own} ELSE {}]
MCMayCopyTo   == [t \in MCThreads |-> {shared}]
MCMayCopyFrom == [t \in MCThreads |-> IF t = t2 THEN {shared} ELSE {own}]
MCMayGet      == [t \in MCThreads |-> CASE t = t1 -> {own}
                                        [] t = t2 -> {}
                                        [] t = t3 -> {shared}]
===============================================================================
