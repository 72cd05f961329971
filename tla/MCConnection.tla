---------------------------- MODULE MCConnection ----------------------------
(***************************************************************************)
(* Connection with two connections and three sessions.                     *)
(***************************************************************************)
EXTENDS Connection, TLC
Symmetry == Permutations(Connections)
=============================================================================
