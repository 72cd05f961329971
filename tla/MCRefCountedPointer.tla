------------------------ MODULE MCRefCountedPointer ------------------------
(***************************************************************************)
(* RefCountedPointer with two variables of one thread, which start as      *)
(* copies of one pointer, and one of another thread: they share the heap   *)
(* but no object.                                                          *)
(***************************************************************************)
EXTENDS RefCountedPointer, TLC

CONSTANTS t1, t2, v1, v2, v3

\* Who owns which variable.
Owners == [v \in {v1, v2, v3} |-> IF v = v3 THEN t2 ELSE t1]

\* The program is one the invariants are about.
ASSUME MCConfined == Confined

\* One address is like another.
Addresses == Permutations(Obj) \cup Permutations(Cell)
=============================================================================
