------------------------ MODULE SimpleConnectionPool ------------------------
(***************************************************************************)
(* The pool of examples/cpool.cpp, which the user manual presents: a       *)
(* ConnectionPool whose grab() waits while too many connections are in     *)
(* use, and which keeps its own count of those.  safe_grab() and           *)
(* exchange() call grab() and release() virtually, so they get the         *)
(* overrides; remove() is not virtual.                                     *)
(*                                                                         *)
(* conns_in_use_ is a plain unsigned int outside the mutex: ++ and -- are  *)
(* a load and a store, and other threads run in between.                   *)
(***************************************************************************)
EXTENDS ConnectionPool

CONSTANTS
    Limit,      \* grab() waits while conns_in_use_ > Limit (8 in the code)
    Width       \* conns_in_use_ counts modulo this (2^32 in the code)

ASSUME LimitAssumption == Limit \in Nat /\ Width \in Nat /\ Limit + 1 < Width

VARIABLES
    conns_in_use_,  \* "Number of connections currently in use"
    gate,           \* thread -> where it is in an override
    seen            \* thread -> the count it loaded

limitVars == <<conns_in_use_, gate, seen>>
allVars == <<vars, limitVars>>

LimitInit ==
    /\ Init
    /\ conns_in_use_ = 0
    /\ gate = [t \in Thread |-> "open"]
    /\ seen = [t \in Thread |-> 0]

Pass(t, place) == gate' = [gate EXCEPT ![t] = place]

(***************************************************************************)
(* Calls the application makes between two overrides.                      *)
(***************************************************************************)
LimitCall(t) ==
    /\ gate[t] = "open"
    /\ \/ CallGrab(t) /\ Pass(t, "check")
       \/ (CallRelease(t) \/ CallRemove(t) \/ CallShrink(t) \/ End(t))
             /\ UNCHANGED gate
    /\ UNCHANGED <<conns_in_use_, seen>>

(***************************************************************************)
(* grab(): the waiting loop, then ++conns_in_use_, then the base class.    *)
(***************************************************************************)
\* Mutant: one connection too many let through.
CheckOneMore(t) ==
    /\ gate[t] = "check"
    /\ IF conns_in_use_ > Limit + 1
       THEN UNCHANGED gate
       ELSE Pass(t, "load")
    /\ UNCHANGED <<vars, conns_in_use_, seen>>

Check(t) ==
    /\ gate[t] = "check"
    /\ IF conns_in_use_ > Limit
       THEN UNCHANGED gate
       ELSE Pass(t, "load")
    /\ UNCHANGED <<vars, conns_in_use_, seen>>

Load(t) ==
    /\ gate[t] \in {"load", "unload"}
    /\ seen' = [seen EXCEPT ![t] = conns_in_use_]
    /\ Pass(t, IF gate[t] = "load" THEN "store" ELSE "unstore")
    /\ UNCHANGED <<vars, conns_in_use_>>

\* Mutant: conns_in_use_ = conns_in_use_++.
IncrementLost(t) ==
    /\ gate[t] = "store"
    /\ conns_in_use_' = seen[t]
    /\ Pass(t, "open")
    /\ UNCHANGED <<vars, seen>>

Increment(t) ==
    /\ gate[t] = "store"
    /\ conns_in_use_' = (seen[t] + 1) % Width
    /\ Pass(t, "open")
    /\ UNCHANGED <<vars, seen>>

(***************************************************************************)
(* release(): the base class, then --conns_in_use_.                        *)
(***************************************************************************)
LimitRelease(t) ==
    /\ Release(t)
    /\ Pass(t, "unload")
    /\ UNCHANGED <<conns_in_use_, seen>>

Decrement(t) ==
    /\ gate[t] = "unstore"
    /\ conns_in_use_' = (seen[t] + Width - 1) % Width
    /\ Pass(t, "open")
    /\ UNCHANGED <<vars, seen>>

(***************************************************************************)
(* remove() in safe_grab() and exchange() is followed by a virtual grab(). *)
(***************************************************************************)
LimitRemove(t) ==
    /\ Remove(t)
    /\ IF op[t] = "remove" THEN UNCHANGED gate ELSE Pass(t, "check")
    /\ UNCHANGED <<conns_in_use_, seen>>

BaseStep(t) ==
    /\ gate[t] = "open"
    /\ \/ Lock(t) \/ Purge(t) \/ FindMru(t) \/ FindNone(t)
       \/ Create(t) \/ CreateThrows(t) \/ Ping(t) \/ Clear(t)
    /\ UNCHANGED limitVars

LimitStep(t) ==
    \/ Check(t) \/ Load(t) \/ Increment(t) \/ Decrement(t)
    \/ LimitRelease(t) \/ LimitRemove(t) \/ BaseStep(t)

LimitNext ==
    \/ \E t \in Thread : LimitCall(t) \/ LimitStep(t)
    \/ /\ Teardown \/ Tick \/ Drop \/ Terminated
       /\ UNCHANGED limitVars

LimitSpec == LimitInit /\ [][LimitNext]_allVars

(***************************************************************************)
(* The example's worker_thread: a ScopedConnection per iteration, so each  *)
(* call is safe_grab() followed by release().  An exception from create()  *)
(* is not caught there and ends the program.                               *)
(***************************************************************************)
WorkerCall(t) ==
    /\ gate[t] = "open"
    /\ \/ held[t] = {} /\ Call(t, "safe_grab", "purge", None) /\ Pass(t, "check")
       \/ CallRelease(t) /\ UNCHANGED gate
       \/ held[t] = {} /\ calls[t] = MaxCalls /\ End(t) /\ UNCHANGED gate
    /\ UNCHANGED <<conns_in_use_, seen>>

WorkerStep(t) == WorkerCall(t) \/ (LimitStep(t) /\ ~CreateThrows(t))

WorkerNext ==
    \/ \E t \in Thread : WorkerStep(t)
    \/ /\ Teardown \/ Tick \/ Drop \/ Terminated
       /\ UNCHANGED limitVars

\* worker_thread is a loop of six iterations and the scheduler runs it.
WorkerSpec ==
    /\ LimitInit /\ [][WorkerNext]_allVars
    /\ \A t \in Thread : WF_allVars(WorkerStep(t))

-----------------------------------------------------------------------------
\* In a program with one thread the limit holds: at most one more than Limit
\* in use.
LimitKept == Cardinality(in_use) <= Limit + 1

\* With one thread, what makes that inductive: an override works on the count
\* as it is, and counts a connection before the base class lends it and until
\* after it is back.  So the count errs on one side only: a failed ping, a
\* failed create() or a remove() leaves it too high, nothing makes it too low.
CountedAhead(t) ==
    \/ gate[t] = "open" /\ pc[t] \in {"purge", "find", "create"}
    \/ gate[t] \in {"unload", "unstore"}

LimitInv ==
    /\ conns_in_use_ \in 0 .. Limit + 1
    /\ gate \in [Thread -> {"open", "check", "load", "store", "unload", "unstore"}]
    /\ seen \in [Thread -> Nat]
    /\ IsFiniteSet(in_use)
    /\ \A t \in Thread :
          /\ gate[t] \in {"check", "load", "store"} => pc[t] = "purge"
          /\ gate[t] \in {"unload", "unstore"} => pc[t] = "idle"
          /\ gate[t] \in {"load", "store"} => conns_in_use_ <= Limit
          /\ gate[t] \in {"store", "unstore"} => seen[t] = conns_in_use_
          /\ ~torn => Cardinality(in_use) <= conns_in_use_
          /\ ~torn /\ CountedAhead(t) => Cardinality(in_use) < conns_in_use_

\* grab() waits "until there are a reasonably low number in use already":
\* a worker at the gate gets through while others give back what they took.
WorkersEnd == \A t \in Thread : <>(pc[t] = "ended")
=============================================================================
