-------------------------- MODULE SharedOwnership --------------------------
(***************************************************************************)
(* What sharing through RefCountedPointer promises, told without counts:   *)
(* an object lives exactly as long as there is a pointer to it.            *)
(***************************************************************************)
CONSTANTS
    Slot,       \* the pointers
    Obj,        \* the objects they may point to
    None        \* what the others point to

VARIABLES
    points,     \* pointer -> object, or None
    alive       \* the objects that have been created and not destroyed

Pointed(p) == {p[s] : s \in Slot} \ {None}

Init ==
    /\ points \in [Slot -> Obj \cup {None}]
    /\ alive = Pointed(points)

\* A pointer to nothing becomes the first to point to a new object,
Create(s, o) ==
    /\ points[s] = None /\ o \notin alive
    /\ points' = [points EXCEPT ![s] = o]
    /\ alive' = alive \cup {o}

\* or one more that points to an object of another.
Share(s, r) ==
    /\ points[s] = None /\ points[r] # None
    /\ points' = [points EXCEPT ![s] = points[r]]
    /\ alive' = alive

Trade(s, r) ==
    /\ points' = [points EXCEPT ![s] = points[r], ![r] = points[s]]
    /\ alive' = alive

\* A pointer lets go.  The last one to an object destroys it.
Drop(s) ==
    /\ points[s] # None
    /\ points' = [points EXCEPT ![s] = None]
    /\ alive' = IF \E r \in Slot \ {s} : points[r] = points[s] THEN alive
                ELSE alive \ {points[s]}

Next ==
    \/ \E s \in Slot, o \in Obj : Create(s, o)
    \/ \E s, r \in Slot : Share(s, r) \/ Trade(s, r)
    \/ \E s \in Slot : Drop(s)

Spec == Init /\ [][Next]_<<points, alive>>
=============================================================================
