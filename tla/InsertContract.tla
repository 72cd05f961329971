--------------------------- MODULE InsertContract ---------------------------
(***************************************************************************)
(* What a caller of Query::insertfrom() may count on, told without         *)
(* statements, policies and transactions.  The rows of a call reach the    *)
(* table from the first one on, so that a call that fails leaves a         *)
(* beginning of them there, and nothing else changes the table.            *)
(***************************************************************************)
EXTENDS Naturals, Sequences

VARIABLES
    atomic,     \* the call is in a Transaction whose connection throws
    honest,     \* query and connection throw: what goes wrong is reported
    table,      \* the rows in the table
    job,        \* the rows to insert, each of them new
    outcome     \* "none" before the first call, "running", or how it ended

Init ==
    /\ atomic \in BOOLEAN /\ honest \in BOOLEAN
    /\ table = {} /\ job = <<>>
    /\ outcome = "none"

\* insertfrom() is called; without rows it returns at once.
Start ==
    /\ outcome # "running"
    /\ \A i \in DOMAIN job' : job'[i] \notin table
    /\ outcome' = IF job' = <<>> THEN "returned" ELSE "running"
    /\ UNCHANGED <<atomic, honest, table>>

\* The table comes to hold the first k rows; a call that is atomic stores all
\* of them together, and a return without an exception, where there would be
\* one, means that they are all there.
Beginning(k) == {job[i] : i \in 1..k}

Work ==
    /\ outcome = "running"
    /\ \E k \in 0..Len(job) :
          /\ table' = table \cup Beginning(k)
          /\ atomic => k = 0 \/ (k = Len(job) /\ Beginning(k) \cap table = {})
    /\ outcome' \in {"running", "returned", "thrown"}
    /\ honest /\ outcome' = "returned" => Beginning(Len(job)) \subseteq table'
    /\ UNCHANGED <<atomic, honest, job>>

Next == Start \/ Work

Spec == Init /\ [][Next]_<<atomic, honest, table, job, outcome>>
=============================================================================
