------------------------------ MODULE MCValues ------------------------------
(* The inputs are the ones each module lists: nothing to instantiate. *)
EXTENDS Values
=============================================================================
