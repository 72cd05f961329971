--------------------------- MODULE ConnectionPool ---------------------------
(***************************************************************************)
(* lib/cpool.h and lib/cpool.cpp: a pool of Connection objects shared by   *)
(* threads, guarded by one non-recursive mutex.  A thread is an            *)
(* application thread that calls the pool's public methods in any order    *)
(* the documentation allows: it passes release(), remove() and exchange()  *)
(* only a connection the pool lent it and it has not given up since.       *)
(*                                                                         *)
(* Abstractions.  pool_ is a set, so among equally recent connections the  *)
(* one std::max_element would pick from the list is any of them.  A        *)
(* Connection is the address of its object: destroying it makes the        *)
(* address available to a later create(), as operator new may.  The        *)
(* server may drop a connection at any moment (Drop), which only ping()    *)
(* notices.  create() returns a connected object, as cpool.h asks, or      *)
(* throws; the ReconnectOption is not set.                                 *)
(***************************************************************************)
EXTENDS Integers, FiniteSets

CONSTANTS
    Thread,     \* application threads
    Conn,       \* addresses Connection objects may have
    None,       \* no thread, no connection
    MaxIdle,    \* what max_idle_time() returns, in clock ticks
    MaxTime,    \* bound: the clock stops here
    MaxCalls,   \* bound: calls each thread makes to the pool
    MaxDrops    \* bound: connections the server drops

ASSUME NoneAssumption == None \notin Thread \cup Conn
ASSUME IdleAssumption == MaxIdle \in Nat
ASSUME BoundAssumption == /\ MaxTime \in Nat
                          /\ MaxCalls \in Nat
                          /\ MaxDrops \in Nat

VARIABLES
    pool_,      \* connections in the pool's list
    in_use,     \* those whose ConnectionInfo::in_use is set
    last_used,  \* connection -> ConnectionInfo::last_used
    mutex_,     \* the thread inside a ScopedLock, or None
    heap,       \* connections created and not destroyed
    down,       \* connections the server has dropped
    now,        \* time(0)
    drops,      \* connections dropped so far
    pc,         \* thread -> where it is in the pool's code
    op,         \* thread -> the public method it called
    arg,        \* thread -> the method's local pc, a Connection*
    held,       \* thread -> connections the pool lent to it
    calls,      \* thread -> calls made so far
    torn        \* the subclass's destructor has run

poolVars == <<pool_, in_use, last_used, heap, down>>
clientVars == <<op, arg, held, calls>>
envVars == <<now, drops, torn>>
vars == <<poolVars, mutex_, pc, clientVars, envVars>>

(***************************************************************************)
(* pc[t] names the critical section t is in, or waits to enter when it is  *)
(* not the mutex's owner.  A grab() goes through purge, find and, when     *)
(* nothing is free, create under one ScopedLock.                           *)
(***************************************************************************)
Entry == {"purge", "remove", "release", "clear"}
Inside == {"find", "create"}
PC == Entry \cup Inside \cup {"idle", "ping", "ended"}
Op == {"none", "grab", "safe_grab", "exchange", "remove", "release", "shrink"}

Init ==
    /\ pool_ = {} /\ in_use = {} /\ heap = {} /\ down = {}
    /\ last_used = [c \in Conn |-> 0]
    /\ mutex_ = None
    /\ now = 0 /\ drops = 0 /\ torn = FALSE
    /\ pc = [t \in Thread |-> "idle"]
    /\ op = [t \in Thread |-> "none"]
    /\ arg = [t \in Thread |-> None]
    /\ held = [t \in Thread |-> {}]
    /\ calls = [t \in Thread |-> 0]

Goto(t, place) == pc' = [pc EXCEPT ![t] = place]
InSection(t, place) == pc[t] = place /\ mutex_ = t
Unlock == mutex_' = None

(***************************************************************************)
(* remove(PoolIt) on each element of S: destroy() it, erase it.            *)
(***************************************************************************)
Erase(S) ==
    /\ pool_' = pool_ \ S
    /\ in_use' = in_use \ S
    /\ heap' = heap \ S
    /\ down' = down \ S
    /\ last_used' = [c \in Conn |-> IF c \in S THEN 0 ELSE last_used[c]]

(***************************************************************************)
(* The application's calls.                                                *)
(***************************************************************************)
Call(t, method, place, c) ==
    /\ pc[t] = "idle"
    /\ calls[t] < MaxCalls
    /\ calls' = [calls EXCEPT ![t] = @ + 1]
    /\ op' = [op EXCEPT ![t] = method]
    /\ arg' = [arg EXCEPT ![t] = c]
    /\ Goto(t, place)
    /\ UNCHANGED <<poolVars, mutex_, held, envVars>>

CallGrab(t) ==
    \E method \in {"grab", "safe_grab"} : Call(t, method, "purge", None)
CallShrink(t) == Call(t, "shrink", "clear", None)
CallRelease(t) == \E c \in held[t] : Call(t, "release", "release", c)
CallRemove(t) ==
    \E c \in held[t], method \in {"remove", "exchange"} :
        Call(t, method, "remove", c)

End(t) ==
    /\ pc[t] = "idle"
    /\ Goto(t, "ended")
    /\ UNCHANGED <<poolVars, mutex_, clientVars, envVars>>

(***************************************************************************)
(* ScopedLock's constructor.  Its destructor is the Unlock of the step     *)
(* that ends the critical section, by return or by exception.              *)
(***************************************************************************)
Lock(t) ==
    /\ pc[t] \in Entry
    /\ mutex_ = None
    /\ mutex_' = t
    /\ UNCHANGED <<poolVars, pc, clientVars, envVars>>

(***************************************************************************)
(* grab(): remove_old_connections(), find_mru(), create().                 *)
(***************************************************************************)
\* Mutant: the in_use test forgotten.
TooOldInUse(c) == last_used[c] <= now - MaxIdle

TooOld(c) == c \notin in_use /\ last_used[c] <= now - MaxIdle

Purge(t) ==
    /\ InSection(t, "purge")
    /\ Erase({c \in pool_ : TooOld(c)})
    /\ Goto(t, "find")
    /\ UNCHANGED <<mutex_, clientVars, envVars>>

(***************************************************************************)
(* ConnectionInfo::operator<: connections in use come before free ones,    *)
(* and within each group the less recently used come first.                *)
(***************************************************************************)
\* Mutant: the less recently used comes last.
LessLRU(c, d) ==
    IF (c \in in_use) = (d \in in_use)
    THEN last_used[d] < last_used[c]
    ELSE c \in in_use

Less(c, d) ==
    IF (c \in in_use) = (d \in in_use)
    THEN last_used[c] < last_used[d]
    ELSE c \in in_use

MaxElements == {c \in pool_ : \A d \in pool_ : ~Less(c, d)}

(***************************************************************************)
(* grab() hands c to its caller: the application, or safe_grab()'s loop.   *)
(***************************************************************************)
Return(t, c) ==
    /\ held' = [held EXCEPT ![t] = @ \cup {c}]
    /\ arg' = [arg EXCEPT ![t] = c]
    /\ Goto(t, IF op[t] = "safe_grab" THEN "ping" ELSE "idle")
    /\ Unlock

\* Mutants: find_mru() without its in_use test, and without in_use = true.
FindMruInUse(t) ==
    /\ InSection(t, "find")
    /\ \E c \in MaxElements :
          /\ in_use' = in_use \cup {c}
          /\ Return(t, c)
    /\ UNCHANGED <<pool_, last_used, heap, down, op, calls, envVars>>
FindMruUnmarked(t) ==
    /\ InSection(t, "find")
    /\ \E c \in MaxElements : c \notin in_use /\ Return(t, c)
    /\ UNCHANGED <<poolVars, op, calls, envVars>>

FindMru(t) ==
    /\ InSection(t, "find")
    /\ \E c \in MaxElements :
          /\ c \notin in_use
          /\ in_use' = in_use \cup {c}
          /\ Return(t, c)
    /\ UNCHANGED <<pool_, last_used, heap, down, op, calls, envVars>>

FindNone(t) ==
    /\ InSection(t, "find")
    /\ MaxElements \subseteq in_use
    /\ Goto(t, "create")
    /\ UNCHANGED <<poolVars, mutex_, clientVars, envVars>>

Create(t) ==
    /\ InSection(t, "create")
    /\ \E c \in Conn \ heap :
          /\ heap' = heap \cup {c}
          /\ pool_' = pool_ \cup {c}
          /\ in_use' = in_use \cup {c}
          /\ last_used' = [last_used EXCEPT ![c] = now]
          /\ Return(t, c)
    /\ UNCHANGED <<down, op, calls, envVars>>

(***************************************************************************)
(* create() throws, say BadConnection: the exception leaves grab() and     *)
(* whatever called it, and the mutex is released on the way.               *)
(***************************************************************************)
CreateThrows(t) ==
    /\ InSection(t, "create")
    /\ Goto(t, "idle")
    /\ Unlock
    /\ UNCHANGED <<poolVars, clientVars, envVars>>

(***************************************************************************)
(* safe_grab(): grab, ping, and on failure remove and start again.         *)
(***************************************************************************)
\* Mutant: mysql_ping()'s zero taken for failure.
PingInverted(t) ==
    /\ pc[t] = "ping"
    /\ Goto(t, IF arg[t] \in down THEN "idle" ELSE "remove")
    /\ UNCHANGED <<poolVars, mutex_, clientVars, envVars>>

Ping(t) ==
    /\ pc[t] = "ping"
    /\ Goto(t, IF arg[t] \in down THEN "remove" ELSE "idle")
    /\ UNCHANGED <<poolVars, mutex_, clientVars, envVars>>

(***************************************************************************)
(* remove() of a pointer.  For exchange() and safe_grab() a grab()         *)
(* follows, after the mutex has been given up.                             *)
(***************************************************************************)
\* Mutant: safe_grab() as its comment has it, releasing what fails its ping.
RemoveReleases(t) ==
    /\ InSection(t, "remove")
    /\ IF op[t] = "safe_grab"
       THEN /\ in_use' = in_use \ {arg[t]}
            /\ last_used' = [last_used EXCEPT ![arg[t]] = now]
            /\ UNCHANGED <<pool_, heap, down>>
       ELSE Erase({c \in pool_ : c = arg[t]})
    /\ held' = [held EXCEPT ![t] = @ \ {arg[t]}]
    /\ Goto(t, IF op[t] = "remove" THEN "idle" ELSE "purge")
    /\ Unlock
    /\ UNCHANGED <<op, arg, calls, envVars>>

Remove(t) ==
    /\ InSection(t, "remove")
    /\ Erase({c \in pool_ : c = arg[t]})
    /\ held' = [held EXCEPT ![t] = @ \ {arg[t]}]
    /\ Goto(t, IF op[t] = "remove" THEN "idle" ELSE "purge")
    /\ Unlock
    /\ UNCHANGED <<op, arg, calls, envVars>>

\* Mutant: in_use = false forgotten.
ReleaseUnmarked(t) ==
    /\ InSection(t, "release")
    /\ last_used' = IF arg[t] \in pool_
                    THEN [last_used EXCEPT ![arg[t]] = now]
                    ELSE last_used
    /\ held' = [held EXCEPT ![t] = @ \ {arg[t]}]
    /\ Goto(t, "idle")
    /\ Unlock
    /\ UNCHANGED <<pool_, in_use, heap, down, op, arg, calls, envVars>>

Release(t) ==
    /\ InSection(t, "release")
    /\ in_use' = in_use \ {arg[t]}
    /\ last_used' = IF arg[t] \in pool_
                    THEN [last_used EXCEPT ![arg[t]] = now]
                    ELSE last_used
    /\ held' = [held EXCEPT ![t] = @ \ {arg[t]}]
    /\ Goto(t, "idle")
    /\ Unlock
    /\ UNCHANGED <<pool_, heap, down, op, arg, calls, envVars>>

(***************************************************************************)
(* clear(all): shrink() is clear(false); a subclass's destructor, which    *)
(* runs when no thread uses the pool any more, calls clear(true).  A       *)
(* thread may have ended without giving back what it held.                 *)
(***************************************************************************)
Cleared(all) == {c \in pool_ : all \/ c \notin in_use}

\* Mutant: shrink() calls clear(), whose default is all = true.
ClearAll(t) ==
    /\ InSection(t, "clear")
    /\ Erase(Cleared(TRUE))
    /\ Goto(t, "idle")
    /\ Unlock
    /\ UNCHANGED <<clientVars, envVars>>

Clear(t) ==
    /\ InSection(t, "clear")
    /\ Erase(Cleared(FALSE))
    /\ Goto(t, "idle")
    /\ Unlock
    /\ UNCHANGED <<clientVars, envVars>>

Teardown ==
    /\ ~torn
    /\ \A t \in Thread : pc[t] = "ended"
    /\ mutex_ = None
    /\ Erase(Cleared(TRUE))
    /\ held' = [t \in Thread |-> {}]
    /\ torn' = TRUE
    /\ UNCHANGED <<mutex_, pc, op, arg, calls, now, drops>>

(***************************************************************************)
(* The environment: time passes, the server drops connections.             *)
(***************************************************************************)
Tick ==
    /\ now < MaxTime
    /\ now' = now + 1
    /\ UNCHANGED <<poolVars, mutex_, pc, clientVars, drops, torn>>

Drop ==
    /\ drops < MaxDrops
    /\ drops' = drops + 1
    /\ \E c \in heap \ down : down' = down \cup {c}
    /\ UNCHANGED <<pool_, in_use, last_used, heap, mutex_, pc, clientVars,
                   now, torn>>

Terminated == torn /\ UNCHANGED vars

-----------------------------------------------------------------------------
AppStep(t) ==
    \/ CallGrab(t) \/ CallShrink(t) \/ CallRelease(t) \/ CallRemove(t)
    \/ End(t)

PoolStep(t) ==
    \/ Lock(t) \/ Purge(t) \/ FindMru(t) \/ FindNone(t)
    \/ Create(t) \/ CreateThrows(t) \/ Ping(t)
    \/ Remove(t) \/ Release(t) \/ Clear(t)

Next ==
    \/ \E t \in Thread : AppStep(t) \/ PoolStep(t)
    \/ Teardown \/ Tick \/ Drop \/ Terminated

Spec == Init /\ [][Next]_vars

(***************************************************************************)
(* A thread inside the pool keeps running; nothing is asked of the others.  *)
(* The mutex is not fair, and need not be: each thread makes finitely      *)
(* many calls, so a waiting thread's Lock is not for ever preempted.       *)
(***************************************************************************)
Fairness == \A t \in Thread : WF_vars(PoolStep(t))

FairSpec == Spec /\ Fairness

-----------------------------------------------------------------------------
\* Every variable has its type.
TypeOK ==
    /\ pool_ \subseteq Conn /\ in_use \subseteq pool_
    /\ heap \subseteq Conn /\ down \subseteq heap
    /\ last_used \in [Conn -> Nat]
    /\ mutex_ \in Thread \cup {None}
    /\ now \in Nat /\ drops \in Nat /\ torn \in BOOLEAN
    /\ pc \in [Thread -> PC]
    /\ op \in [Thread -> Op]
    /\ arg \in [Thread -> Conn \cup {None}]
    /\ held \in [Thread -> SUBSET Conn]
    /\ calls \in [Thread -> Nat]

\* threads.dbx compares connections with library books: no connection is
\* ever lent to two threads, whatever they call and whoever waits for the
\* mutex in between.
ExclusiveUse ==
    \A t, u \in Thread : t # u => held[t] \cap held[u] = {}

\* A connection is marked in use exactly while some thread may use it, so
\* none is lost to the pool and none is taken back behind a user's back.
AllAccounted == in_use = UNION {held[t] : t \in Thread}

\* What a thread holds has not been destroyed, and the pool alone owns
\* every object create() made: nothing leaks, even from remove() and
\* create() failing, and the destructor's clear(true) leaves nothing, so
\* that assert(empty()) in ~ConnectionPool() cannot fire.
NoDangling ==
    /\ \A t \in Thread : held[t] \subseteq heap
    /\ heap = pool_
    /\ torn => heap = {}

\* grab() creates a connection only when every one it has is in use: the
\* in-use-first ordering never hides a free connection from find_mru().
CreateOnlyWhenBusy ==
    \A t \in Thread : pc[t] = "create" => pool_ \subseteq in_use

\* What makes the invariants above inductive: the lock and the program
\* counters agree; the argument of a call belongs to its caller until the
\* call's critical section, and safe_grab() comes to remove() only with a
\* dead one; the pool outlives its users; nothing was used in the future.
SectionOK ==
    /\ \A t \in Thread : pc[t] \in Inside => mutex_ = t
    /\ mutex_ # None => pc[mutex_] \in Entry \cup Inside
    /\ torn => \A t \in Thread : pc[t] = "ended"
    /\ \A c \in Conn : last_used[c] <= now

ArgumentOK ==
    \A t \in Thread :
        /\ pc[t] \in {"ping", "remove", "release"} => arg[t] \in held[t]
        /\ pc[t] = "release" => op[t] = "release"
        /\ pc[t] = "remove" /\ op[t] = "safe_grab" => arg[t] \in down

IInv ==
    /\ TypeOK /\ SectionOK /\ ArgumentOK
    /\ ExclusiveUse /\ AllAccounted /\ NoDangling /\ CreateOnlyWhenBusy

\* "Always return the most recently used connection that's not being used
\* right now" (cpool.h): a pooled connection is lent only if no free one
\* was released later.
MRUStep ==
    \A t \in Thread : \A c \in pool_ \cap (held'[t] \ held[t]) :
        \A d \in pool_ \ in_use : last_used[d] <= last_used[c]
MRUFirst == [][MRUStep]_vars

\* A connection in use is destroyed only by the thread that holds it, in
\* its own remove(), until the whole pool goes: neither the idle timeout
\* nor shrink() takes a connection from under its user.
HolderStep ==
    \A c \in in_use \ heap' :
        torn' \/ \E t \in Thread : /\ c \in held[t]
                                   /\ mutex_ = t
                                   /\ pc[t] = "remove"
OnlyHolderDestroys == [][HolderStep]_vars

\* safe_grab() throws away only connections the server has dropped: the
\* one it pinged is still that one when, after waiting for the mutex,
\* remove() destroys it.
SafeGrabStep ==
    \A t \in Thread :
        op[t] = "safe_grab" /\ ~torn' => (held[t] \ held'[t]) \subseteq down
SafeGrabRemovesDead == [][SafeGrabStep]_vars

\* Every call returns: no path through the pool's code leaves the mutex
\* locked, and safe_grab() loops only as long as it finds dead connections.
CallsReturn ==
    \A t \in Thread :
        pc[t] \notin {"idle", "ended"} ~> pc[t] = "idle"

-----------------------------------------------------------------------------
Loans == INSTANCE ConnectionLoans
            WITH shelf <- pool_ \ in_use, loans <- held

\* The pool implements the library of ConnectionLoans: its mutex, list,
\* clock and pings only decide which lending step happens when.
LendsLikeALibrary == Loans!LoanSpec
=============================================================================
