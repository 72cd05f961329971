------------------------- MODULE RefCountedPointer -------------------------
(***************************************************************************)
(* lib/refcounted.h: pointers that share an object through a count on the  *)
(* heap; the last one to go destroys both.  Row, the result classes,       *)
(* String and SQLTypeAdapter share their data this way, and Rows may live  *)
(* in other threads than the result they came from.                        *)
(*                                                                         *)
(* A slot is a RefCountedPointer object: a variable of the application,    *)
(* used by one thread only, or the temporary of assign()'s create-and-swap *)
(* idiom, which is named by its thread.  ++ and -- on the shared count are *)
(* a plain load and a plain store, with other threads in between.          *)
(***************************************************************************)
EXTENDS Integers, FiniteSets

CONSTANTS
    Thread,
    Var,        \* the application's pointer variables
    Owner,      \* Var -> the thread that uses it
    Shared,     \* the variables that start as copies of one pointer
    Obj,        \* addresses of managed objects
    Cell,       \* addresses of counts
    None

ASSUME OwnerAssumption == Owner \in [Var -> Thread] /\ Shared \subseteq Var
ASSUME SharedAssumption == IsFiniteSet(Shared)
ASSUME SlotAssumption == Var \cap Thread = {}
ASSUME AddressAssumption == None \notin Obj \cup Cell

VARIABLES
    counted_,   \* slot -> the object it points to, or None
    refs_,      \* slot -> the count it uses, or None
    count,      \* cell -> the number in it
    objects,    \* objects alive
    cells,      \* counts alive
    pc,         \* thread -> where it is in an assignment
    dest,       \* thread -> the variable assigned to
    loaded      \* thread -> the count it loaded

slots == <<counted_, refs_>>
memory == <<count, objects, cells>>
vars == <<slots, memory, pc, dest, loaded>>

Slot == Var \cup Thread
PC == {"idle", "load_inc", "inc", "swap", "load_dec", "dec"}

Init ==
    /\ \E o \in Obj, c \in Cell :
          /\ counted_ = [s \in Slot |-> IF s \in Shared THEN o ELSE None]
          /\ refs_ = [s \in Slot |-> IF s \in Shared THEN c ELSE None]
          /\ objects = IF Shared = {} THEN {} ELSE {o}
          /\ cells = IF Shared = {} THEN {} ELSE {c}
          /\ count = [x \in Cell |-> IF x = c THEN Cardinality(Shared) ELSE 0]
    /\ pc = [t \in Thread |-> "idle"]
    /\ dest \in [Thread -> Var]
    /\ loaded = [t \in Thread |-> 0]

Goto(t, place) == pc' = [pc EXCEPT ![t] = place]

\* Slot s becomes a pointer to o counted in c.
Point(s, o, c) ==
    /\ counted_' = [counted_ EXCEPT ![s] = o]
    /\ refs_' = [refs_ EXCEPT ![s] = c]

Begin(t, v, place) ==
    /\ pc[t] = "idle" /\ Owner[v] = t
    /\ dest' = [dest EXCEPT ![t] = v]
    /\ Goto(t, place)

(***************************************************************************)
(* RefCountedPointer(c): a count of its own, which starts at 1.            *)
(***************************************************************************)
Construct(s, o) ==
    \E c \in Cell \ cells :
        /\ Point(s, o, c)
        /\ count' = [count EXCEPT ![c] = 1]
        /\ cells' = cells \cup {c}
        /\ objects' = objects \cup {o}

(***************************************************************************)
(* assign() of a raw pointer to a new object.                              *)
(***************************************************************************)
AssignNew(t, v) ==
    /\ Begin(t, v, "swap")
    /\ \E o \in Obj \ objects : Construct(t, o)
    /\ UNCHANGED loaded

(***************************************************************************)
(* assign() of another pointer w, or of v itself: the temporary copies it. *)
(***************************************************************************)
\* Mutant: an early return for what is the same object already, which
\* forgets that the temporary's copy is still to be counted.
AssignUncounted(t, v, w) ==
    /\ Owner[w] = t
    /\ Begin(t, v, IF counted_[w] \in {None, counted_[v]} THEN "swap" ELSE "load_inc")
    /\ Point(t, counted_[w], IF counted_[w] = None THEN None ELSE refs_[w])
    /\ UNCHANGED <<memory, loaded>>

Assign(t, v, w) ==
    /\ Owner[w] = t
    /\ Begin(t, v, IF counted_[w] = None THEN "swap" ELSE "load_inc")
    /\ Point(t, counted_[w], IF counted_[w] = None THEN None ELSE refs_[w])
    /\ UNCHANGED <<memory, loaded>>

(***************************************************************************)
(* v goes out of scope: from now on what it held is the temporary's to     *)
(* drop, and v stands for the next, default constructed pointer.           *)
(***************************************************************************)
Expire(t, v) ==
    /\ Begin(t, v, "load_dec")
    /\ counted_' = [counted_ EXCEPT ![t] = counted_[v], ![v] = None]
    /\ refs_' = [refs_ EXCEPT ![t] = refs_[v], ![v] = None]
    /\ UNCHANGED <<memory, loaded>>

(***************************************************************************)
(* The copy constructor's ++, swap(), and the destructor's --.             *)
(***************************************************************************)
Load(t, from, to) ==
    /\ pc[t] = from
    /\ refs_[t] # None
    /\ loaded' = [loaded EXCEPT ![t] = count[refs_[t]]]
    /\ Goto(t, to)
    /\ UNCHANGED <<slots, memory, dest>>

Increment(t) ==
    /\ pc[t] = "inc"
    /\ count' = [count EXCEPT ![refs_[t]] = loaded[t] + 1]
    /\ Goto(t, "swap")
    /\ UNCHANGED <<slots, objects, cells, dest, loaded>>

\* Mutant: swap() leaves refs_ where it is.
SwapPointer(t) ==
    /\ pc[t] = "swap"
    /\ counted_' = [counted_ EXCEPT ![t] = counted_[dest[t]],
                                    ![dest[t]] = counted_[t]]
    /\ Goto(t, "load_dec")
    /\ UNCHANGED <<refs_, memory, dest, loaded>>

Swap(t) ==
    /\ pc[t] = "swap"
    /\ counted_' = [counted_ EXCEPT ![t] = counted_[dest[t]],
                                    ![dest[t]] = counted_[t]]
    /\ refs_' = [refs_ EXCEPT ![t] = refs_[dest[t]], ![dest[t]] = refs_[t]]
    /\ Goto(t, "load_dec")
    /\ UNCHANGED <<memory, dest, loaded>>

DropNothing(t) ==
    /\ pc[t] = "load_dec"
    /\ refs_[t] = None
    /\ Goto(t, "idle")
    /\ UNCHANGED <<slots, memory, dest, loaded>>

\* Mutant: the destructor tests the count before it decrements it.
DecrementLate(t) ==
    /\ pc[t] = "dec"
    /\ count' = [count EXCEPT ![refs_[t]] = loaded[t] - 1]
    /\ IF loaded[t] = 0
       THEN objects' = objects \ {counted_[t]} /\ cells' = cells \ {refs_[t]}
       ELSE UNCHANGED <<objects, cells>>
    /\ Point(t, None, None)
    /\ Goto(t, "idle")
    /\ UNCHANGED <<dest, loaded>>

Decrement(t) ==
    /\ pc[t] = "dec"
    /\ count' = [count EXCEPT ![refs_[t]] = loaded[t] - 1]
    /\ IF loaded[t] = 1
       THEN objects' = objects \ {counted_[t]} /\ cells' = cells \ {refs_[t]}
       ELSE UNCHANGED <<objects, cells>>
    /\ Point(t, None, None)
    /\ Goto(t, "idle")
    /\ UNCHANGED <<dest, loaded>>

-----------------------------------------------------------------------------
Operation(t) ==
    \/ \E v \in Var : AssignNew(t, v) \/ Expire(t, v)
    \/ \E v, w \in Var : Assign(t, v, w)

Continue(t) ==
    \/ Load(t, "load_inc", "inc") \/ Increment(t) \/ Swap(t)
    \/ DropNothing(t) \/ Load(t, "load_dec", "dec") \/ Decrement(t)

Next == \E t \in Thread : Operation(t) \/ Continue(t)

Spec == Init /\ [][Next]_vars

-----------------------------------------------------------------------------
\* Every variable has its type.
TypeOK ==
    /\ counted_ \in [Slot -> Obj \cup {None}]
    /\ refs_ \in [Slot -> Cell \cup {None}]
    /\ count \in [Cell -> Nat]
    /\ objects \subseteq Obj /\ cells \subseteq Cell
    /\ pc \in [Thread -> PC]
    /\ dest \in [Thread -> Var]
    /\ loaded \in [Thread -> Nat]

\* "These shared data structures stick around until the last object needing
\* them gets destroyed" (threads.dbx): what a pointer points to is alive.
NothingDangles ==
    \A s \in Slot : counted_[s] # None => counted_[s] \in objects

\* The last user turns out the lights: an object and a count exist only while
\* somebody points to them, also half-way through an assignment.
NothingLeaks ==
    /\ \A o \in objects : \E s \in Slot : counted_[s] = o
    /\ \A c \in cells : \E s \in Slot : refs_[s] = c

\* Pointers share an object exactly when they share its count.
OneCountPerObject ==
    \A r, s \in Slot :
        counted_[r] # None =>
            ((counted_[r] = counted_[s]) <=> (refs_[r] = refs_[s]))

\* A pointer has both its object and its count, or neither, and both are alive.
PointersWhole ==
    \A s \in Slot :
        /\ counted_[s] = None <=> refs_[s] = None
        /\ counted_[s] # None => counted_[s] \in objects /\ refs_[s] \in cells

\* The pointers a count is for: all that use it, but for the temporary of a
\* thread that has not stored its increment yet.
Uncounted(s) == s \in Thread /\ pc[s] \in {"load_inc", "inc"}
Sharers(c) == {s \in Slot : refs_[s] = c /\ ~Uncounted(s)}

\* Every count is the number of its pointers, and is gone at zero.
CountsExact ==
    \A c \in cells :
        /\ IsFiniteSet(Sharers(c)) /\ Sharers(c) # {}
        /\ count[c] = Cardinality(Sharers(c))

\* Pointers that share a count are used by one thread: none is ever shared by
\* two if the program does not start with one that is (Confined).
User(s) == IF s \in Thread THEN s ELSE Owner[s]
Confined == \A v, w \in Shared : Owner[v] = Owner[w]
SharedWithinThread ==
    \A r, s \in Slot :
        refs_[r] = refs_[s] /\ refs_[r] # None => User(r) = User(s)

\* A temporary lives as long as its assignment, which is to a variable of the
\* thread's own, and nobody changes a count between its load and its store.
AssignmentsOK ==
    \A t \in Thread :
        /\ pc[t] = "idle" => refs_[t] = None
        /\ pc[t] # "idle" => Owner[dest[t]] = t
        /\ pc[t] \in {"load_inc", "inc", "dec"} => refs_[t] # None
        /\ pc[t] \in {"inc", "dec"} => loaded[t] = count[refs_[t]]

\* The inductive invariant, for programs that share within a thread only: no
\* copy starts a count of its own, no update of a count is lost, and the count
\* that says who is last is right at every step of an assignment.
IInv ==
    /\ TypeOK
    /\ OneCountPerObject /\ PointersWhole /\ NothingLeaks
    /\ CountsExact /\ SharedWithinThread /\ AssignmentsOK

-----------------------------------------------------------------------------
\* What the counts are for: an object is destroyed by the last of its pointers
\* to go, the temporaries of assignments included, and by no other step.
Ownership == INSTANCE SharedOwnership WITH points <- counted_, alive <- objects
LastOneDestroys == Ownership!Spec
=============================================================================
