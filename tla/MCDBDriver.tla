----------------------------- MODULE MCDBDriver -----------------------------
(***************************************************************************)
(* DBDriver with one or two options of each kind and three connects.       *)
(***************************************************************************)
EXTENDS DBDriver, TLC
=============================================================================
