-------------------------- MODULE MCConnectionPool --------------------------
(***************************************************************************)
(* ConnectionPool on a small instance: two threads that hold as many       *)
(* connections as they like, addresses few enough to be reused.            *)
(***************************************************************************)
EXTENDS ConnectionPool, TLC

\* Threads and addresses are interchangeable: no property names one.
MCSymmetry == Permutations(Thread) \cup Permutations(Conn)
=============================================================================
