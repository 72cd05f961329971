-------------------------- MODULE ConnectionLoans --------------------------
(***************************************************************************)
(* What a connection pool promises, with no mutex, no list and no clock:   *)
(* doc/userman/threads.dbx compares it with a library, where "a thread     *)
(* checks one out, uses it, and then returns it".  A connection is on the  *)
(* shelf or lent to exactly one thread; a new one is bought only when the  *)
(* shelf is empty; only what is on the shelf may be weeded out.            *)
(***************************************************************************)

CONSTANTS
    Thread,     \* the threads that use the pool
    Conn        \* every Connection object that can exist

VARIABLES
    shelf,      \* connections anyone may take
    loans       \* thread -> connections lent to it

loanVars == <<shelf, loans>>

OnLoan == UNION {loans[t] : t \in Thread}

LoanInit ==
    /\ shelf = {}
    /\ loans = [t \in Thread |-> {}]

CheckOut(t) ==
    \E c \in shelf :
        /\ shelf' = shelf \ {c}
        /\ loans' = [loans EXCEPT ![t] = @ \cup {c}]

CheckOutNew(t) ==
    /\ shelf = {}
    /\ \E c \in Conn \ OnLoan :
          loans' = [loans EXCEPT ![t] = @ \cup {c}]
    /\ UNCHANGED shelf

GiveBack(t) ==
    \E c \in loans[t] :
        /\ shelf' = shelf \cup {c}
        /\ loans' = [loans EXCEPT ![t] = @ \ {c}]

Discard(t) ==
    \E c \in loans[t] :
        /\ loans' = [loans EXCEPT ![t] = @ \ {c}]
        /\ UNCHANGED shelf

Weed ==
    /\ shelf' \subseteq shelf
    /\ UNCHANGED loans

Close ==
    /\ shelf' = {}
    /\ loans' = [t \in Thread |-> {}]

LoanNext ==
    \/ \E t \in Thread :
          CheckOut(t) \/ CheckOutNew(t) \/ GiveBack(t) \/ Discard(t)
    \/ Weed
    \/ Close

LoanSpec == LoanInit /\ [][LoanNext]_loanVars
=============================================================================
