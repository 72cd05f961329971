------------------------------ MODULE MCQuery ------------------------------
(***************************************************************************)
(* Query with a template of one placeholder, one of two in reverse order   *)
(* of their numbers and with one used twice, and plain text.               *)
(***************************************************************************)
EXTENDS Query

MCTexts == {
    <<Lit("a"), Hole(0, "q", "x")>>,
    <<Hole(1, " ", "y"), Hole(0, "q", "x"), Hole(1, " ", "y")>>}

MCParameters == {Adapter(<<Lit("s")>>, TRUE), NullAdapter}
\* The program's templates are ones the invariants are about.
ASSUME MCDisciplined == Disciplined

MCSymmetry == Permutations(Queries)
=============================================================================
