----------------------- MODULE MCSimpleConnectionPool -----------------------
(***************************************************************************)
(* SimpleConnectionPool with a limit of two connections (Limit = 1, the    *)
(* code's 8 lets nine through) and a narrow counter.                       *)
(***************************************************************************)
EXTENDS SimpleConnectionPool, TLC

MCSymmetry == Permutations(Thread) \cup Permutations(Conn)
=============================================================================
