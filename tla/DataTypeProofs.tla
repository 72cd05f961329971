-------------------------- MODULE DataTypeProofs --------------------------
(***************************************************************************)
(* The library's small types.                                              *)
(*                                                                         *)
(* RefCountedPointer's invariants, for any threads, variables, objects and *)
(* counts, in a program whose threads do not start with a pointer that two *)
(* of them share (Confined).  Without that they do not hold: ++ and -- of  *)
(* two threads lose each other's stores.                                   *)
(*                                                                         *)
(* And of the values, whose modules are operators, those that walk over no *)
(* text: the order of moments, tiny_int's arithmetic, and Null<>, each for *)
(* every value where the run "values" takes those of a small set.          *)
(***************************************************************************)
EXTENDS RefCountedPointer, FiniteSetTheorems, TLAPS

D == INSTANCE Dates
N == INSTANCE Conversions
L == INSTANCE Adapters

(***************************************************************************)
(* One sharer in another's place leaves their number as it is.             *)
(***************************************************************************)
LEMMA Replaced ==
    ASSUME NEW S, IsFiniteSet(S), NEW x \in S, NEW y, y \notin S
    PROVE  /\ IsFiniteSet((S \ {x}) \cup {y})
           /\ Cardinality((S \ {x}) \cup {y}) = Cardinality(S)
<1>1. IsFiniteSet(S \ {x}) /\ Cardinality(S \ {x}) = Cardinality(S) - 1
    BY FS_RemoveElement
<1>2. /\ IsFiniteSet((S \ {x}) \cup {y})
      /\ Cardinality((S \ {x}) \cup {y}) = Cardinality(S \ {x}) + 1
    BY <1>1, FS_AddElement
<1>3. Cardinality(S) \in Nat
    BY FS_CardinalityType
<1> QED BY <1>1, <1>2, <1>3

LEMMA InitInv == ASSUME Confined, Init PROVE IInv
<1> USE SlotAssumption, AddressAssumption, OwnerAssumption
<1>1. PICK o \in Obj, c \in Cell :
          /\ counted_ = [s \in Slot |-> IF s \in Shared THEN o ELSE None]
          /\ refs_ = [s \in Slot |-> IF s \in Shared THEN c ELSE None]
          /\ objects = IF Shared = {} THEN {} ELSE {o}
          /\ cells = IF Shared = {} THEN {} ELSE {c}
          /\ count = [x \in Cell |-> IF x = c THEN Cardinality(Shared) ELSE 0]
    BY DEF Init
<1>2. pc = [t \in Thread |-> "idle"] /\ dest \in [Thread -> Var]
      /\ loaded = [t \in Thread |-> 0]
    BY DEF Init
<1>3. Cardinality(Shared) \in Nat
    BY SharedAssumption, FS_CardinalityType
<1>4. TypeOK
    BY <1>1, <1>2, <1>3 DEF TypeOK, PC
<1>5. OneCountPerObject /\ PointersWhole /\ NothingLeaks
    BY <1>1 DEF OneCountPerObject, PointersWhole, NothingLeaks, Slot
<1>6. Sharers(c) = Shared
    BY <1>1, <1>2 DEF Sharers, Uncounted, Slot
<1>7. CountsExact
    BY <1>1, <1>6, SharedAssumption DEF CountsExact
<1>8. SharedWithinThread
    BY <1>1 DEF SharedWithinThread, Confined, User, Slot
<1>9. AssignmentsOK
    BY <1>1, <1>2 DEF AssignmentsOK, Slot
<1> QED BY <1>4, <1>5, <1>7, <1>8, <1>9 DEF IInv

(***************************************************************************)
(* A count whose sharers and value stay as they are stays exact.           *)
(***************************************************************************)
LEMMA CountKept ==
    ASSUME CountsExact, NEW c \in cells, Sharers(c)' = Sharers(c), count'[c] = count[c]
    PROVE  /\ IsFiniteSet(Sharers(c)') /\ Sharers(c)' # {}
           /\ count'[c] = Cardinality(Sharers(c)')
BY DEF CountsExact

LEMMA AssignNewInv ==
    ASSUME IInv, NEW t \in Thread, NEW v \in Var, AssignNew(t, v)
    PROVE  IInv'
<1> USE SlotAssumption, AddressAssumption
<1>1. /\ pc[t] = "idle" /\ pc' = [pc EXCEPT ![t] = "swap"]
      /\ Owner[v] = t /\ dest' = [dest EXCEPT ![t] = v] /\ loaded' = loaded
    BY DEF AssignNew, Begin, Goto
<1>2. PICK o \in Obj \ objects, c \in Cell \ cells :
          /\ counted_' = [counted_ EXCEPT ![t] = o]
          /\ refs_' = [refs_ EXCEPT ![t] = c]
          /\ count' = [count EXCEPT ![c] = 1]
          /\ cells' = cells \cup {c}
          /\ objects' = objects \cup {o}
    BY DEF AssignNew, Construct, Point
<1>3. /\ counted_'[t] = o /\ refs_'[t] = c /\ refs_[t] = None
      /\ \A s \in Slot \ {t} : /\ counted_'[s] = counted_[s] /\ counted_[s] # o
                               /\ refs_'[s] = refs_[s] /\ refs_[s] # c
    BY <1>1, <1>2 DEF IInv, TypeOK, Slot, PointersWhole, AssignmentsOK
<1>4. TypeOK'
    BY <1>1, <1>2 DEF IInv, TypeOK, PC, Slot
<1>5. OneCountPerObject' /\ PointersWhole' /\ NothingLeaks'
    <2>1. OneCountPerObject'
        BY <1>3 DEF IInv, OneCountPerObject, Slot
    <2>2. PointersWhole'
        BY <1>2, <1>3 DEF IInv, PointersWhole, Slot
    <2>3. counted_[t] = None
        BY <1>3 DEF IInv, PointersWhole, Slot
    <2>4. NothingLeaks'
        BY <1>2, <1>3, <2>3 DEF IInv, TypeOK, NothingLeaks, Slot
    <2> QED BY <2>1, <2>2, <2>4
<1>6. CountsExact'
    <2>1. Sharers(c)' = {t}
        BY <1>1, <1>3 DEF Sharers, Uncounted, Slot, IInv, TypeOK
    <2>2. \A d \in cells : Sharers(d)' = Sharers(d) /\ count'[d] = count[d]
        BY <1>1, <1>2, <1>3 DEF Sharers, Uncounted, Slot, IInv, TypeOK
    <2>3. count'[c] = 1
        BY <1>2 DEF IInv, TypeOK
    <2>4. \A d \in cells : /\ IsFiniteSet(Sharers(d)') /\ Sharers(d)' # {}
                           /\ count'[d] = Cardinality(Sharers(d)')
        BY <2>2, CountKept DEF IInv
    <2>5. IsFiniteSet({t}) /\ Cardinality({t}) = 1
        BY FS_Singleton
    <2> QED BY <1>2, <2>1, <2>3, <2>4, <2>5 DEF CountsExact
<1>7. SharedWithinThread'
    BY <1>3 DEF IInv, SharedWithinThread, User, Slot
<1>8. AssignmentsOK'
    <2>1. \A u \in Thread \ {t} : refs_[u] # None => count'[refs_[u]] = count[refs_[u]]
        BY <1>2, <1>3 DEF IInv, TypeOK, Slot, PointersWhole
    <2> QED BY <1>1, <1>3, <2>1 DEF IInv, TypeOK, AssignmentsOK, Slot
<1> QED BY <1>4, <1>5, <1>6, <1>7, <1>8 DEF IInv

LEMMA AssignInv ==
    ASSUME IInv, NEW t \in Thread, NEW v \in Var, NEW w \in Var, Assign(t, v, w)
    PROVE  IInv'
<1> USE SlotAssumption, AddressAssumption
<1>1. /\ pc[t] = "idle" /\ Owner[v] = t /\ Owner[w] = t
      /\ pc' = [pc EXCEPT ![t] = IF counted_[w] = None THEN "swap" ELSE "load_inc"]
      /\ dest' = [dest EXCEPT ![t] = v]
      /\ UNCHANGED <<count, objects, cells, loaded>>
    BY DEF Assign, Begin, Goto, memory
<1>2. /\ counted_' = [counted_ EXCEPT ![t] = counted_[w]]
      /\ refs_' = [refs_ EXCEPT ![t] = refs_[w]]
    BY DEF Assign, Point, IInv, PointersWhole, Slot
<1>3. /\ counted_'[t] = counted_[w] /\ refs_'[t] = refs_[w] /\ refs_[t] = None
      /\ \A s \in Slot \ {t} : counted_'[s] = counted_[s] /\ refs_'[s] = refs_[s]
      /\ w # t /\ t \in Slot /\ w \in Slot
    BY <1>1, <1>2 DEF IInv, TypeOK, Slot, AssignmentsOK
<1>4. TypeOK'
    BY <1>1, <1>2 DEF IInv, TypeOK, PC, Slot
<1>5. OneCountPerObject' /\ PointersWhole' /\ NothingLeaks'
    <2>1. OneCountPerObject'
        BY <1>3 DEF IInv, OneCountPerObject
    <2>2. PointersWhole'
        BY <1>1, <1>3 DEF IInv, PointersWhole
    <2>3. counted_[t] = None
        BY <1>3 DEF IInv, PointersWhole
    <2>4. NothingLeaks'
        BY <1>1, <1>3, <2>3 DEF IInv, TypeOK, NothingLeaks
    <2> QED BY <2>1, <2>2, <2>4
<1>6. CountsExact'
    <2>1. counted_[w] = None <=> refs_[w] = None
        BY <1>3 DEF IInv, PointersWhole
    <2>2. \A d \in cells : Sharers(d)' = Sharers(d)
        BY <1>1, <1>3, <2>1 DEF Sharers, Uncounted, IInv, TypeOK
    <2> QED BY <1>1, <2>2, CountKept DEF IInv, CountsExact
<1>7. SharedWithinThread'
    <2>1. User(w) = t /\ User(t) = t
        BY <1>1 DEF User
    <2> QED BY <1>3, <2>1 DEF IInv, SharedWithinThread, User
<1>8. AssignmentsOK'
    <2>1. counted_[w] = None <=> refs_[w] = None
        BY <1>3 DEF IInv, PointersWhole
    <2> QED BY <1>1, <1>3, <2>1 DEF IInv, TypeOK, AssignmentsOK, Slot
<1> QED BY <1>4, <1>5, <1>6, <1>7, <1>8 DEF IInv

(***************************************************************************)
(* Two slots that trade places.  Expire and Swap are of this kind: the     *)
(* temporary is counted, before and after, for whatever it points to.      *)
(***************************************************************************)
Trade(r, s) ==
    /\ counted_' = [counted_ EXCEPT ![r] = counted_[s], ![s] = counted_[r]]
    /\ refs_' = [refs_ EXCEPT ![r] = refs_[s], ![s] = refs_[r]]

LEMMA TradeKeeps ==
    ASSUME IInv, NEW t \in Thread, NEW v \in Var, Owner[v] = t, Trade(t, v),
           pc[t] \notin {"load_inc", "inc"}, pc' = [pc EXCEPT ![t] = "load_dec"],
           UNCHANGED memory
    PROVE  /\ OneCountPerObject' /\ PointersWhole' /\ NothingLeaks'
           /\ CountsExact' /\ SharedWithinThread'
<1> USE SlotAssumption, AddressAssumption
<1>1. /\ t # v /\ t \in Slot /\ v \in Slot
      /\ counted_'[t] = counted_[v] /\ refs_'[t] = refs_[v]
      /\ counted_'[v] = counted_[t] /\ refs_'[v] = refs_[t]
      /\ \A s \in Slot \ {t, v} : counted_'[s] = counted_[s] /\ refs_'[s] = refs_[s]
    BY DEF IInv, TypeOK, Slot, Trade
<1>2. OneCountPerObject'
    BY <1>1 DEF IInv, OneCountPerObject
<1>3. PointersWhole'
    BY <1>1 DEF IInv, PointersWhole, memory
<1>4. NothingLeaks'
    <2>1. ASSUME NEW s \in Slot
          PROVE  \E r \in Slot : counted_'[r] = counted_[s] /\ refs_'[r] = refs_[s]
        BY <1>1
    <2> QED BY <2>1 DEF IInv, NothingLeaks, memory
<1>5. CountsExact'
    <2>1. SUFFICES ASSUME NEW c \in cells
                   PROVE  /\ IsFiniteSet(Sharers(c)') /\ Sharers(c)' # {}
                          /\ count[c] = Cardinality(Sharers(c)')
        BY DEF CountsExact, memory
    <2>2. IsFiniteSet(Sharers(c)) /\ Sharers(c) # {}
          /\ count[c] = Cardinality(Sharers(c))
        BY DEF IInv, CountsExact
    <2>3. \A s \in Slot : s \notin {t, v} => (s \in Sharers(c)' <=> s \in Sharers(c))
        BY <1>1 DEF Sharers, Uncounted, IInv, TypeOK
    <2>4. /\ t \in Sharers(c) <=> refs_[t] = c
          /\ v \in Sharers(c) <=> refs_[v] = c
          /\ t \in Sharers(c)' <=> refs_[v] = c
          /\ v \in Sharers(c)' <=> refs_[t] = c
        BY <1>1 DEF Sharers, Uncounted, IInv, TypeOK
    <2>5. Sharers(c) \subseteq Slot /\ Sharers(c)' \subseteq Slot
        BY DEF Sharers, Slot
    <2>6. CASE refs_[t] = c <=> refs_[v] = c
        <3>1. Sharers(c)' = Sharers(c)
            BY <2>3, <2>4, <2>5, <2>6
        <3> QED BY <2>2, <3>1
    <2>7. CASE refs_[t] = c /\ refs_[v] # c
        <3>1. Sharers(c)' = (Sharers(c) \ {t}) \cup {v}
            BY <1>1, <2>3, <2>4, <2>5, <2>7
        <3>2. t \in Sharers(c) /\ v \notin Sharers(c)
            BY <2>4, <2>7
        <3> HIDE DEF Sharers
        <3> QED BY <2>2, <3>1, <3>2, Replaced
    <2>8. CASE refs_[t] # c /\ refs_[v] = c
        <3>1. Sharers(c)' = (Sharers(c) \ {v}) \cup {t}
            BY <1>1, <2>3, <2>4, <2>5, <2>8
        <3>2. v \in Sharers(c) /\ t \notin Sharers(c)
            BY <2>4, <2>8
        <3> QED BY <2>2, <3>1, <3>2, Replaced
    <2> QED BY <2>6, <2>7, <2>8
<1>6. SharedWithinThread'
    <2>1. User(t) = t /\ User(v) = t
        BY DEF User
    <2> QED BY <1>1, <2>1 DEF IInv, SharedWithinThread, User
<1> QED BY <1>2, <1>3, <1>4, <1>5, <1>6

LEMMA ExpireInv ==
    ASSUME IInv, NEW t \in Thread, NEW v \in Var, Expire(t, v)
    PROVE  IInv'
<1> USE SlotAssumption, AddressAssumption
<1>1. /\ pc[t] = "idle" /\ Owner[v] = t
      /\ pc' = [pc EXCEPT ![t] = "load_dec"]
      /\ dest' = [dest EXCEPT ![t] = v]
      /\ UNCHANGED <<memory, loaded>>
    BY DEF Expire, Begin, Goto
<1>2. Trade(t, v)
    BY <1>1 DEF Expire, Trade, IInv, AssignmentsOK, PointersWhole, Slot
<1>3. /\ OneCountPerObject' /\ PointersWhole' /\ NothingLeaks'
      /\ CountsExact' /\ SharedWithinThread'
    BY <1>1, <1>2, TradeKeeps
<1>4. TypeOK'
    BY <1>1, <1>2 DEF IInv, TypeOK, PC, Slot, Trade, memory
<1>5. AssignmentsOK'
    BY <1>1, <1>2 DEF IInv, TypeOK, AssignmentsOK, Slot, Trade, memory
<1> QED BY <1>3, <1>4, <1>5 DEF IInv

LEMMA SwapInv ==
    ASSUME IInv, NEW t \in Thread, Swap(t)
    PROVE  IInv'
<1> USE SlotAssumption, AddressAssumption
<1> DEFINE v == dest[t]
<1>1. /\ pc[t] = "swap" /\ v \in Var /\ Owner[v] = t
      /\ pc' = [pc EXCEPT ![t] = "load_dec"]
      /\ UNCHANGED <<memory, dest, loaded>>
    BY DEF Swap, Goto, IInv, TypeOK, AssignmentsOK
<1>2. Trade(t, v)
    BY DEF Swap, Trade
<1> HIDE DEF v
<1>3. /\ OneCountPerObject' /\ PointersWhole' /\ NothingLeaks'
      /\ CountsExact' /\ SharedWithinThread'
    BY <1>1, <1>2, TradeKeeps
<1>4. TypeOK'
    BY <1>1, <1>2 DEF IInv, TypeOK, PC, Slot, Trade, memory
<1>5. AssignmentsOK'
    BY <1>1, <1>2 DEF IInv, TypeOK, AssignmentsOK, Slot, Trade, memory
<1> QED BY <1>3, <1>4, <1>5 DEF IInv

(***************************************************************************)
(* A step that only moves a thread on, in or out of the part where its     *)
(* temporary is not counted yet: it is not in there, or stays in there.    *)
(***************************************************************************)
LEMMA MovingOn ==
    ASSUME IInv, NEW t \in Thread, NEW place, pc' = [pc EXCEPT ![t] = place],
           pc[t] \in {"load_inc", "inc"} <=> place \in {"load_inc", "inc"},
           UNCHANGED <<slots, memory>>
    PROVE  /\ OneCountPerObject' /\ PointersWhole' /\ NothingLeaks'
           /\ CountsExact' /\ SharedWithinThread'
<1>1. OneCountPerObject' /\ PointersWhole' /\ NothingLeaks' /\ SharedWithinThread'
    BY DEF IInv, OneCountPerObject, PointersWhole, NothingLeaks,
           SharedWithinThread, User, slots, memory
<1>2. \A c \in cells : Sharers(c)' = Sharers(c)
    BY DEF Sharers, Uncounted, IInv, TypeOK, slots
<1>3. CountsExact'
    BY <1>2, CountKept DEF IInv, CountsExact, memory
<1> QED BY <1>1, <1>3

LEMMA LoadInv ==
    ASSUME IInv, NEW t \in Thread,
           Load(t, "load_inc", "inc") \/ Load(t, "load_dec", "dec")
    PROVE  IInv'
<1>1. PICK from, to \in PC :
          /\ <<from, to>> \in {<<"load_inc", "inc">>, <<"load_dec", "dec">>}
          /\ pc[t] = from /\ refs_[t] # None
          /\ loaded' = [loaded EXCEPT ![t] = count[refs_[t]]]
          /\ pc' = [pc EXCEPT ![t] = to]
          /\ UNCHANGED <<slots, memory, dest>>
    BY DEF Load, Goto, PC
<1>2. /\ OneCountPerObject' /\ PointersWhole' /\ NothingLeaks'
      /\ CountsExact' /\ SharedWithinThread'
    BY <1>1, MovingOn
<1>3. TypeOK'
    BY <1>1 DEF IInv, TypeOK, Slot, slots, memory
<1>4. AssignmentsOK'
    BY <1>1 DEF IInv, TypeOK, AssignmentsOK, slots, memory
<1> QED BY <1>2, <1>3, <1>4 DEF IInv

LEMMA DropNothingInv ==
    ASSUME IInv, NEW t \in Thread, DropNothing(t)
    PROVE  IInv'
<1>1. /\ pc[t] = "load_dec" /\ refs_[t] = None
      /\ pc' = [pc EXCEPT ![t] = "idle"]
      /\ UNCHANGED <<slots, memory, dest, loaded>>
    BY DEF DropNothing, Goto
<1>2. /\ OneCountPerObject' /\ PointersWhole' /\ NothingLeaks'
      /\ CountsExact' /\ SharedWithinThread'
    BY <1>1, MovingOn
<1>3. TypeOK'
    BY <1>1 DEF IInv, TypeOK, PC, slots, memory
<1>4. AssignmentsOK'
    BY <1>1 DEF IInv, TypeOK, AssignmentsOK, slots, memory
<1> QED BY <1>2, <1>3, <1>4 DEF IInv

(***************************************************************************)
(* The two stores to a count.  Nobody else is about to store: whoever uses *)
(* this count is a slot of the same thread.                                *)
(***************************************************************************)
LEMMA OnlyUser ==
    ASSUME IInv, NEW t \in Thread, refs_[t] # None,
           NEW u \in Thread, refs_[u] = refs_[t]
    PROVE  u = t
BY DEF IInv, SharedWithinThread, User, Slot

LEMMA IncrementInv ==
    ASSUME IInv, NEW t \in Thread, Increment(t)
    PROVE  IInv'
<1> USE SlotAssumption, AddressAssumption
<1> DEFINE c == refs_[t]
<1>1. /\ pc[t] = "inc" /\ c # None /\ c \in cells /\ t \in Slot
      /\ loaded[t] = count[c]
    BY DEF Increment, IInv, TypeOK, PointersWhole, AssignmentsOK, Slot
<1>2. /\ count' = [count EXCEPT ![c] = count[c] + 1]
      /\ pc' = [pc EXCEPT ![t] = "swap"]
      /\ UNCHANGED <<counted_, refs_, objects, cells, dest, loaded>>
    BY <1>1 DEF Increment, Goto, slots
<1>3. TypeOK'
    BY <1>1, <1>2 DEF IInv, TypeOK, PC
<1>4. OneCountPerObject' /\ PointersWhole' /\ NothingLeaks' /\ SharedWithinThread'
    BY <1>2 DEF IInv, OneCountPerObject, PointersWhole, NothingLeaks,
                SharedWithinThread, User
<1>5. CountsExact'
    <2>1. Sharers(c)' = Sharers(c) \cup {t} /\ t \notin Sharers(c)
        BY <1>1, <1>2 DEF Sharers, Uncounted, IInv, TypeOK
    <2>2. \A d \in cells \ {c} : Sharers(d)' = Sharers(d) /\ count'[d] = count[d]
        BY <1>2 DEF Sharers, Uncounted, IInv, TypeOK
    <2>3. IsFiniteSet(Sharers(c)) /\ count[c] = Cardinality(Sharers(c))
        BY <1>1 DEF IInv, CountsExact
    <2>4. /\ IsFiniteSet(Sharers(c)') /\ Sharers(c)' # {}
          /\ Cardinality(Sharers(c)') = count[c] + 1
        BY <2>1, <2>3, FS_AddElement
    <2>5. count'[c] = count[c] + 1
        BY <1>1, <1>2 DEF IInv, TypeOK
    <2>6. \A d \in cells \ {c} : /\ IsFiniteSet(Sharers(d)') /\ Sharers(d)' # {}
                                 /\ count'[d] = Cardinality(Sharers(d)')
        BY <2>2, CountKept DEF IInv
    <2> QED BY <1>2, <2>4, <2>5, <2>6 DEF CountsExact
<1>6. AssignmentsOK'
    <2>1. \A u \in Thread \ {t} : refs_[u] # None => count'[refs_[u]] = count[refs_[u]]
        BY <1>1, <1>2, OnlyUser DEF IInv, TypeOK
    <2> QED BY <1>1, <1>2, <2>1 DEF IInv, TypeOK, AssignmentsOK
<1> QED BY <1>3, <1>4, <1>5, <1>6 DEF IInv

LEMMA DecrementInv ==
    ASSUME IInv, NEW t \in Thread, Decrement(t)
    PROVE  IInv'
<1> USE SlotAssumption, AddressAssumption
<1>0. PICK c, o : c = refs_[t] /\ o = counted_[t]
    OBVIOUS
<1>1. /\ pc[t] = "dec" /\ t \in Slot
      /\ c # None /\ o # None /\ c \in cells /\ o \in objects
      /\ loaded[t] = count[c]
    BY <1>0 DEF Decrement, IInv, TypeOK, PointersWhole, AssignmentsOK, Slot
<1>2. /\ count' = [count EXCEPT ![c] = count[c] - 1]
      /\ counted_' = [counted_ EXCEPT ![t] = None]
      /\ refs_' = [refs_ EXCEPT ![t] = None]
      /\ pc' = [pc EXCEPT ![t] = "idle"]
      /\ UNCHANGED <<dest, loaded>>
    BY <1>0, <1>1 DEF Decrement, Point, Goto
<1>3. \/ count[c] = 1 /\ objects' = objects \ {o} /\ cells' = cells \ {c}
      \/ count[c] # 1 /\ objects' = objects /\ cells' = cells
    BY <1>0, <1>1 DEF Decrement
<1>4. /\ IsFiniteSet(Sharers(c)) /\ Sharers(c) # {}
      /\ count[c] = Cardinality(Sharers(c)) /\ count[c] \in Nat
    BY <1>1 DEF IInv, TypeOK, CountsExact
<1>5. \A s \in Slot : refs_[s] = c <=> s \in Sharers(c)
    BY <1>0, <1>1, OnlyUser DEF Sharers, Uncounted
<1>6. \A s \in Slot : /\ counted_[s] = o <=> s \in Sharers(c)
                      /\ s # t => counted_'[s] = counted_[s] /\ refs_'[s] = refs_[s]
    BY <1>0, <1>1, <1>2, <1>5 DEF IInv, TypeOK, OneCountPerObject
<1>7. t \in Sharers(c) /\ counted_'[t] = None /\ refs_'[t] = None
    BY <1>0, <1>1, <1>2, <1>5 DEF IInv, TypeOK
<1>8. \/ Sharers(c) = {t} /\ count[c] = 1
      \/ \E r \in Sharers(c) \ {t} : count[c] > 1
    <2>1. /\ IsFiniteSet(Sharers(c) \ {t})
          /\ Cardinality(Sharers(c) \ {t}) = count[c] - 1
        BY <1>4, <1>7, FS_RemoveElement
    <2>2. Cardinality(Sharers(c) \ {t}) = 0 <=> Sharers(c) \ {t} = {}
        BY <2>1, FS_EmptySet
    <2>3. Cardinality(Sharers(c) \ {t}) \in Nat
        BY <2>1, FS_CardinalityType
    <2>4. CASE Sharers(c) \ {t} = {}
        <3>1. Sharers(c) = {t}
            BY <1>7, <2>4
        <3> QED BY <1>4, <2>1, <2>2, <2>4, <3>1
    <2>5. CASE Sharers(c) \ {t} # {}
        <3>1. count[c] > 1
            BY <1>4, <2>1, <2>2, <2>3, <2>5
        <3> QED BY <2>5, <3>1
    <2> QED BY <2>4, <2>5
<1>9. Sharers(c) \subseteq Slot
    BY DEF Sharers, Slot
<1>10. TypeOK'
    <2>1. count[c] - 1 \in Nat
        BY <1>4, <1>8
    <2> QED BY <1>1, <1>2, <1>3, <2>1 DEF IInv, TypeOK, PC
<1>11. OneCountPerObject'
    BY <1>6, <1>7 DEF IInv, OneCountPerObject, PointersWhole
<1>12. PointersWhole'
    <2>1. ASSUME NEW s \in Slot \ {t}, count[c] = 1
          PROVE  counted_[s] # o /\ refs_[s] # c
        BY <1>5, <1>6, <1>8, <2>1
    <2> QED BY <1>3, <1>6, <1>7, <2>1 DEF IInv, PointersWhole
<1>13. NothingLeaks'
    <2>1. \A s \in Slot : s \notin Sharers(c) =>
              counted_'[s] = counted_[s] /\ refs_'[s] = refs_[s]
        BY <1>6, <1>7
    <2>2. \A p \in objects \ {o} : \E s \in Slot : counted_'[s] = p
        BY <1>6, <2>1 DEF IInv, NothingLeaks
    <2>3. \A d \in cells \ {c} : \E s \in Slot : refs_'[s] = d
        BY <1>5, <2>1 DEF IInv, NothingLeaks
    <2>4. CASE count[c] = 1
        BY <1>3, <2>2, <2>3, <2>4 DEF NothingLeaks
    <2>5. CASE count[c] # 1
        <3>1. PICK r \in Sharers(c) \ {t} : count[c] > 1
            BY <1>8, <2>5
        <3>2. r \in Slot /\ counted_'[r] = o /\ refs_'[r] = c
            BY <1>5, <1>6, <1>9, <3>1
        <3> QED BY <1>3, <2>2, <2>3, <2>5, <3>2 DEF NothingLeaks
    <2> QED BY <2>4, <2>5
<1>14. CountsExact'
    <2>1. \A d \in cells \ {c} : Sharers(d)' = Sharers(d) /\ count'[d] = count[d]
        BY <1>1, <1>2, <1>6, <1>7 DEF Sharers, Uncounted, IInv, TypeOK
    <2>2. \A d \in cells \ {c} : /\ IsFiniteSet(Sharers(d)') /\ Sharers(d)' # {}
                                 /\ count'[d] = Cardinality(Sharers(d)')
        BY <2>1, CountKept DEF IInv
    <2>3. CASE count[c] = 1
        BY <1>3, <2>2, <2>3 DEF CountsExact
    <2>4. CASE count[c] # 1
        <3>1. Sharers(c)' = Sharers(c) \ {t}
            BY <1>1, <1>2, <1>5, <1>6, <1>7 DEF Sharers, Uncounted, IInv, TypeOK
        <3>2. /\ IsFiniteSet(Sharers(c) \ {t})
              /\ Cardinality(Sharers(c) \ {t}) = count[c] - 1
            BY <1>4, <1>7, FS_RemoveElement
        <3>3. Sharers(c) \ {t} # {}
            BY <1>8, <2>4
        <3>4. count'[c] = count[c] - 1
            BY <1>1, <1>2 DEF IInv, TypeOK
        <3> QED BY <1>3, <2>2, <2>4, <3>1, <3>2, <3>3, <3>4 DEF CountsExact
    <2> QED BY <2>3, <2>4
<1>15. SharedWithinThread'
    BY <1>6, <1>7 DEF IInv, SharedWithinThread, User
<1>16. AssignmentsOK'
    <2>1. \A u \in Thread \ {t} : refs_[u] # None => count'[refs_[u]] = count[refs_[u]]
        BY <1>0, <1>1, <1>2, OnlyUser DEF IInv, TypeOK
    <2>2. \A u \in Thread : u # t => refs_'[u] = refs_[u]
        BY <1>6 DEF Slot
    <2> QED BY <1>2, <1>7, <2>1, <2>2 DEF IInv, TypeOK, AssignmentsOK
<1> QED BY <1>10, <1>11, <1>12, <1>13, <1>14, <1>15, <1>16 DEF IInv

LEMMA StepInv == IInv /\ [Next]_vars => IInv'
<1> SUFFICES ASSUME IInv, [Next]_vars PROVE IInv'
    OBVIOUS
<1>1. ASSUME NEW t \in Thread, Operation(t) PROVE IInv'
    BY <1>1, AssignNewInv, AssignInv, ExpireInv DEF Operation
<1>2. ASSUME NEW t \in Thread, Continue(t) PROVE IInv'
    BY <1>2, LoadInv, IncrementInv, SwapInv, DropNothingInv, DecrementInv
       DEF Continue
<1>3. CASE UNCHANGED vars
    BY <1>3 DEF IInv, TypeOK, OneCountPerObject, PointersWhole, NothingLeaks,
                CountsExact, Sharers, Uncounted, SharedWithinThread, User,
                AssignmentsOK, vars, slots, memory
<1> QED BY <1>1, <1>2, <1>3 DEF Next

(***************************************************************************)
(* Every count is exact at every step of every assignment.                 *)
(***************************************************************************)
THEOREM CountsStayExact == ASSUME Confined PROVE Spec => []IInv
BY InitInv, StepInv, PTL DEF Spec

(***************************************************************************)
(* What a pointer points to is alive: the object is not destroyed while a  *)
(* Row, a result or an adapter still shares it.                            *)
(***************************************************************************)
THEOREM SharedDataStaysAlive == ASSUME Confined PROVE Spec => []NothingDangles
<1>1. IInv => NothingDangles
    BY DEF IInv, PointersWhole, NothingDangles
<1> QED BY <1>1, CountsStayExact, PTL

(***************************************************************************)
(* The last pointer takes the object and the count with it.                *)
(***************************************************************************)
THEOREM LastOneCleansUp == ASSUME Confined PROVE Spec => []NothingLeaks
BY CountsStayExact, PTL DEF IInv

-----------------------------------------------------------------------------
(***************************************************************************)
(* The counts do what they are for: each step is one of SharedOwnership's. *)
(***************************************************************************)
\* The thread that stores the decrement is the last to let go exactly when it
\* has loaded a 1.
LEMMA LastIsAlone ==
    ASSUME IInv, NEW t \in Thread, pc[t] = "dec"
    PROVE  /\ t \in Slot /\ counted_[t] # None
           /\ loaded[t] = 1 <=> ~\E r \in Slot \ {t} : counted_[r] = counted_[t]
<1> USE SlotAssumption, AddressAssumption
<1>0. PICK c : c = refs_[t]
    OBVIOUS
<1>1. /\ t \in Slot /\ c # None /\ counted_[t] # None /\ c \in cells
      /\ loaded[t] = count[c]
    BY <1>0 DEF IInv, TypeOK, PointersWhole, AssignmentsOK, Slot
<1>2. IsFiniteSet(Sharers(c)) /\ count[c] = Cardinality(Sharers(c))
    BY <1>1 DEF IInv, CountsExact
<1>3. \A s \in Slot : counted_[s] = counted_[t] <=> s \in Sharers(c)
    <2>1. \A s \in Slot : refs_[s] = c <=> s \in Sharers(c)
        BY <1>0, <1>1, OnlyUser DEF Sharers, Uncounted
    <2> QED BY <1>0, <1>1, <2>1 DEF IInv, OneCountPerObject
<1>4. t \in Sharers(c) /\ Sharers(c) \subseteq Slot
    BY <1>1, <1>3 DEF Sharers
<1>5. /\ IsFiniteSet(Sharers(c) \ {t})
      /\ Cardinality(Sharers(c) \ {t}) = count[c] - 1
    BY <1>2, <1>4, FS_RemoveElement
<1>6. /\ Cardinality(Sharers(c) \ {t}) = 0 <=> Sharers(c) \ {t} = {}
      /\ Cardinality(Sharers(c) \ {t}) \in Nat
    BY <1>5, FS_EmptySet, FS_CardinalityType
<1>7. count[c] \in Nat
    BY <1>1 DEF IInv, TypeOK
<1>8. count[c] = 1 <=> Sharers(c) \ {t} = {}
    BY <1>5, <1>6, <1>7
<1> QED BY <1>1, <1>3, <1>4, <1>8

LEMMA StepShares ==
    ASSUME IInv, [Next]_vars
    PROVE  [Ownership!Next]_<<counted_, objects>>
<1> USE SlotAssumption, AddressAssumption
<1>0. /\ \A t \in Thread : t \in Slot
      /\ \A v \in Var : v \in Slot
      /\ \A t \in Thread : pc[t] = "idle" => counted_[t] = None
    BY DEF IInv, AssignmentsOK, PointersWhole, Slot
<1>1. ASSUME NEW t \in Thread, NEW v \in Var, AssignNew(t, v)
      PROVE  Ownership!Next
    <2>1. PICK o \in Obj \ objects, c \in Cell \ cells :
              Point(t, o, c) /\ objects' = objects \cup {o}
        BY <1>1 DEF AssignNew, Construct
    <2>2. Ownership!Create(t, o)
        BY <1>0, <1>1, <2>1 DEF Ownership!Create, AssignNew, Begin, Point
    <2> QED BY <1>0, <2>2 DEF Ownership!Next
<1>2. ASSUME NEW t \in Thread, NEW v \in Var, NEW w \in Var, Assign(t, v, w)
      PROVE  [Ownership!Next]_<<counted_, objects>>
    <2>1. /\ counted_[t] = None /\ objects' = objects
          /\ counted_' = [counted_ EXCEPT ![t] = counted_[w]]
        BY <1>0, <1>2 DEF Assign, Begin, Point, memory
    <2>2. CASE counted_[w] = None
        BY <1>0, <2>1, <2>2 DEF IInv, TypeOK
    <2>3. CASE counted_[w] # None
        <3>1. Ownership!Share(t, w)
            BY <2>1, <2>3 DEF Ownership!Share
        <3> QED BY <1>0, <3>1 DEF Ownership!Next
    <2> QED BY <2>2, <2>3
<1>3. ASSUME NEW t \in Thread, NEW v \in Var, Trade(t, v), objects' = objects
      PROVE  Ownership!Next
    <2>1. Ownership!Trade(t, v)
        BY <1>3 DEF Trade, Ownership!Trade
    <2> QED BY <1>0, <2>1 DEF Ownership!Next
<1>4. ASSUME NEW t \in Thread, NEW v \in Var, Expire(t, v) PROVE Ownership!Next
    <2>1. Trade(t, v) /\ objects' = objects
        BY <1>4 DEF Expire, Begin, Trade, IInv, AssignmentsOK, PointersWhole, Slot, memory
    <2> QED BY <1>3, <2>1
<1>5. ASSUME NEW t \in Thread, Swap(t) PROVE Ownership!Next
    <2>1. Trade(t, dest[t]) /\ dest[t] \in Var /\ objects' = objects
        BY <1>5 DEF Swap, Trade, IInv, TypeOK, memory
    <2> QED BY <1>3, <2>1
<1>6. ASSUME NEW t \in Thread, Decrement(t) PROVE Ownership!Next
    <2>1. /\ pc[t] = "dec"
          /\ counted_' = [counted_ EXCEPT ![t] = None]
          /\ objects' = IF loaded[t] = 1 THEN objects \ {counted_[t]} ELSE objects
        BY <1>6 DEF Decrement, Point
    <2>2. Ownership!Drop(t)
        BY <2>1, LastIsAlone DEF Ownership!Drop
    <2> QED BY <1>0, <2>2 DEF Ownership!Next
<1>7. ASSUME NEW t \in Thread, Continue(t)
      PROVE  [Ownership!Next]_<<counted_, objects>>
    <2>1. CASE Load(t, "load_inc", "inc") \/ Load(t, "load_dec", "dec") \/ DropNothing(t)
        BY <2>1 DEF Load, DropNothing, slots, memory
    <2>2. CASE Increment(t)
        BY <2>2 DEF Increment, slots
    <2> QED BY <1>5, <1>6, <1>7, <2>1, <2>2 DEF Continue
<1>8. CASE UNCHANGED vars
    BY <1>8 DEF vars, slots, memory
<1> QED BY <1>1, <1>2, <1>4, <1>7, <1>8 DEF Next, Operation

LEMMA InitShares == Init => Ownership!Init
<1> SUFFICES ASSUME Init PROVE Ownership!Init
    OBVIOUS
<1>1. PICK o \in Obj :
          /\ counted_ = [s \in Slot |-> IF s \in Shared THEN o ELSE None]
          /\ objects = IF Shared = {} THEN {} ELSE {o}
    BY DEF Init
<1>2. Shared \subseteq Slot /\ o # None
    BY OwnerAssumption, AddressAssumption DEF Slot
<1>3. Ownership!Pointed(counted_) = objects
    BY <1>1, <1>2 DEF Ownership!Pointed
<1> QED BY <1>1, <1>3 DEF Ownership!Init

(***************************************************************************)
(* RefCountedPointer implements shared ownership, for any threads and      *)
(* pointers that are not shared between threads: the destructor that       *)
(* counts down to zero is that of the last pointer, and of no other.       *)
(***************************************************************************)
THEOREM CountsOwn == ASSUME Confined PROVE Spec => LastOneDestroys
BY InitShares, StepShares, CountsStayExact, PTL
   DEF Spec, LastOneDestroys, Ownership!Spec

-----------------------------------------------------------------------------
Moment == [year : Int, month : Int, day : Int, hour : Int, minute : Int, second : Int, now : {FALSE}]
          \cup {D!NOW}

LEMMA MomentFields ==
    ASSUME NEW m \in Moment
    PROVE  /\ m.year \in Int /\ m.month \in Int /\ m.day \in Int
           /\ m.hour \in Int /\ m.minute \in Int /\ m.second \in Int
           /\ m.now \in BOOLEAN
           /\ m.now => m = D!NOW
<1>1. CASE m = D!NOW
    BY <1>1 DEF D!NOW
<1>2. CASE m # D!NOW
    BY <1>2 DEF Moment
<1> QED BY <1>1, <1>2

\* The difference of the first fields that differ, the date's before the time's.
LEMMA CompareIs ==
    ASSUME NEW a \in Moment, NEW b \in Moment
    PROVE  D!Compare(a, b) =
             IF a.year # b.year THEN a.year - b.year
             ELSE IF a.month # b.month THEN a.month - b.month
             ELSE IF a.day # b.day THEN a.day - b.day
             ELSE IF a.hour # b.hour THEN a.hour - b.hour
             ELSE IF a.minute # b.minute THEN a.minute - b.minute
             ELSE a.second - b.second
<1>1. D!CompareDate(D!DatePart(a), D!DatePart(b)) =
          IF a.year # b.year THEN a.year - b.year
          ELSE IF a.month # b.month THEN a.month - b.month ELSE a.day - b.day
    BY DEF D!CompareDate, D!DatePart, D!Date
<1>2. D!CompareTime(D!TimePart(a), D!TimePart(b)) =
          IF a.hour # b.hour THEN a.hour - b.hour
          ELSE IF a.minute # b.minute THEN a.minute - b.minute ELSE a.second - b.second
    BY DEF D!CompareTime, D!TimePart, D!Time
<1>3. CASE a.now /\ b.now
    <2>1. a = b
        BY <1>3, MomentFields
    <2> QED BY <1>3, <2>1, MomentFields DEF D!Compare
<1>4. CASE ~(a.now /\ b.now)
    BY <1>1, <1>2, <1>4, MomentFields DEF D!Compare
<1> QED BY <1>3, <1>4

(***************************************************************************)
(* DateTime::compare() (lib/datetime.cpp:234): two moments compare as      *)
(* their fields do, from the year down to the second, and the six          *)
(* operators agree with each other, for all values of the fields and for   *)
(* the moment that is a call of NOW().                                     *)
(***************************************************************************)
THEOREM MomentsOrdered ==
    ASSUME NEW a \in Moment, NEW b \in Moment
    PROVE  D!OrderedByFields(a, b)
<1>1. D!Before(a, b) <=> D!Precedes(a, b)
    <2>1. \A m \in Moment : /\ D!Key(m)[1] = m.year /\ D!Key(m)[2] = m.month /\ D!Key(m)[3] = m.day
                            /\ D!Key(m)[4] = m.hour /\ D!Key(m)[5] = m.minute /\ D!Key(m)[6] = m.second
        BY DEF D!Key
    <2> DEFINE Decides(i) == D!Key(a)[i] < D!Key(b)[i] /\ \A j \in 1..(i - 1) : D!Key(a)[j] = D!Key(b)[j]
    <2>2. D!Precedes(a, b) <=> \/ Decides(1) \/ Decides(2) \/ Decides(3)
                               \/ Decides(4) \/ Decides(5) \/ Decides(6)
        <3>1. \A i \in 1..6 : i = 1 \/ i = 2 \/ i = 3 \/ i = 4 \/ i = 5 \/ i = 6
            OBVIOUS
        <3>2. D!Precedes(a, b) <=> \E i \in 1..6 : Decides(i)
            BY DEF D!Precedes
        <3> HIDE DEF Decides
        <3> QED BY <3>1, <3>2
    <2>3. Decides(1) <=> a.year < b.year
        BY <2>1
    <2>4. Decides(2) <=> a.year = b.year /\ a.month < b.month
        BY <2>1
    <2>5. Decides(3) <=> a.year = b.year /\ a.month = b.month /\ a.day < b.day
        BY <2>1
    <2>6. Decides(4) <=> a.year = b.year /\ a.month = b.month /\ a.day = b.day /\ a.hour < b.hour
        BY <2>1
    <2>7. Decides(5) <=> a.year = b.year /\ a.month = b.month /\ a.day = b.day /\ a.hour = b.hour
                      /\ a.minute < b.minute
        BY <2>1
    <2>8. Decides(6) <=> a.year = b.year /\ a.month = b.month /\ a.day = b.day /\ a.hour = b.hour
                      /\ a.minute = b.minute /\ a.second < b.second
        BY <2>1
    <2> HIDE DEF Decides
    <2> QED BY <2>2, <2>3, <2>4, <2>5, <2>6, <2>7, <2>8, CompareIs, MomentFields DEF D!Before
<1>2. D!After(a, b) <=> D!Before(b, a)
    BY CompareIs, MomentFields DEF D!Before, D!After
<1>3. D!Equal(a, b) <=> D!Key(a) = D!Key(b)
    <2>1. D!Key(a) = D!Key(b) <=> /\ a.year = b.year /\ a.month = b.month /\ a.day = b.day
                                  /\ a.hour = b.hour /\ a.minute = b.minute /\ a.second = b.second
        BY DEF D!Key
    <2> QED BY <2>1, CompareIs, MomentFields DEF D!Equal
<1>4. D!Compare(a, b) \in Int
    BY CompareIs, MomentFields
<1> QED BY <1>1, <1>2, <1>3, <1>4
       DEF D!OrderedByFields, D!Unequal, D!Equal, D!NotAfter, D!NotBefore, D!After, D!Before

-----------------------------------------------------------------------------
\* tiny_int<signed char> and tiny_int<unsigned char>.
TinyC == {"char", "uchar"}
LEMMA TinyBits == \A c \in TinyC : 2 ^ N!Bits(c) = 256
<1>1. \A c \in TinyC : N!Bits(c) = 8
    BY DEF N!Bits, TinyC
<1>2. \A c \in TinyC : 2 ^ N!Bits(c) = 2 ^ 8
    BY <1>1
<1>3. 2 ^ 8 = 256
    OBVIOUS
<1> QED BY <1>2, <1>3

LEMMA TinyRange ==
    /\ N!Least("char") = -128 /\ N!Most("char") = 127
    /\ N!Least("uchar") = 0 /\ N!Most("uchar") = 255
<1>1. N!Bits("char") = 8 /\ N!Bits("uchar") = 8
    BY DEF N!Bits
<1>2. N!Signed("char") /\ ~N!Signed("uchar")
    BY DEF N!Signed
<1>3. N!Least("char") = -(2 ^ (8 - 1)) /\ N!Least("uchar") = 0
    BY <1>1, <1>2 DEF N!Least
<1>4. N!Most("char") = 2 ^ (8 - 1) - 1 /\ N!Most("uchar") = 2 ^ 8 - 1
    BY <1>1, <1>2 DEF N!Most
<1>5. 2 ^ (8 - 1) = 128 /\ 2 ^ 8 = 256
    OBVIOUS
<1> QED BY <1>3, <1>4, <1>5

\* A number that is cut to a byte changes by a multiple of 256, and one that
\* fits is kept.
LEMMA TinyFacts ==
    ASSUME NEW c \in TinyC, NEW n \in Int
    PROVE  /\ N!Tiny(c, n) \in N!Values(c) /\ N!Tiny(c, n) \in Int
           /\ \E k \in Int : N!Tiny(c, n) = n + 256 * k
           /\ n \in N!Values(c) => N!Tiny(c, n) = n
<1> DEFINE low == N!Least(c)
<1>1. low \in Int /\ N!Values(c) = low..low + 255
    <2>1. N!Least(c) \in Int /\ N!Most(c) = N!Least(c) + 255
        BY TinyRange DEF TinyC
    <2> QED BY <2>1 DEF N!Values
<1>2. \A m \in Int : N!Tiny(c, m) = ((m - low) % 256) + low
    BY TinyBits DEF N!Tiny, N!Narrow
<1> HIDE DEF low
<1>3. N!Tiny(c, n) \in low..low + 255
    BY <1>1, <1>2
<1>4. \E k \in Int : N!Tiny(c, n) = n + 256 * k
    <2> DEFINE q == (n - low) \div 256
    <2>1. q \in Int /\ n - low = 256 * q + ((n - low) % 256)
        BY <1>1
    <2> HIDE DEF q
    <2>2. N!Tiny(c, n) = n + 256 * (-q) /\ -q \in Int
        BY <1>1, <1>2, <2>1
    <2> QED BY <2>2
<1>5. n \in low..low + 255 => N!Tiny(c, n) = n
    BY <1>1, <1>2
<1> QED BY <1>1, <1>3, <1>4, <1>5

LEMMA TinyWraps ==
    ASSUME NEW c \in TinyC, NEW n \in Int, NEW k \in Int
    PROVE  N!Tiny(c, n + 256 * k) = N!Tiny(c, n)
<1> DEFINE low == N!Least(c)
<1>1. low \in Int
    BY TinyRange DEF TinyC
<1>2. \A m \in Int : N!Tiny(c, m) = ((m - low) % 256) + low
    BY TinyBits DEF N!Tiny, N!Narrow
<1> HIDE DEF low
<1>3. (n + 256 * k - low) % 256 = (n - low) % 256
    BY <1>1
<1> QED BY <1>1, <1>2, <1>3

LEMMA QuotientIsInteger ==
    ASSUME NEW a \in Int, NEW b \in Int, b # 0
    PROVE  N!Quotient(a, b) \in Int
<1> DEFINE u == IF a < 0 THEN -a ELSE a
           v == IF b < 0 THEN -b ELSE b
<1>1. u \in Int /\ v \in Int /\ v > 0
    OBVIOUS
<1> HIDE DEF u, v
<1>2. u \div v \in Int
    BY <1>1
<1>3. N!Quotient(a, b) = IF (a < 0) # (b < 0) THEN -(u \div v) ELSE u \div v
    BY DEF N!Quotient, u, v
<1> QED BY <1>2, <1>3

(***************************************************************************)
(* tiny_int (lib/tiny_int.h:55) computes modulo 256 in either type: what   *)
(* an operator does its inverse takes back, quotient and remainder add up, *)
(* and a compound operator, which cuts its operand first, agrees with the  *)
(* simple one, whatever the operands.                                      *)
(***************************************************************************)
THEOREM TinyIntegersWrap ==
    ASSUME NEW c \in TinyC, NEW a \in Int, NEW b \in Int
    PROVE  N!TinyIsModular(c, a, b)
<1> DEFINE x == N!Tiny(c, a)
           y == N!Tiny(c, b)
<1>1. x \in Int /\ y \in Int /\ N!Tiny(c, x) = x
    BY TinyFacts
<1>2. \A m \in Int : \E k \in Int : N!Tiny(c, m) = m + 256 * k
    BY TinyFacts
<1>3. \A m \in Int : \A k \in Int : N!Tiny(c, m + 256 * k) = N!Tiny(c, m)
    BY TinyWraps
<1> HIDE DEF x, y
<1>4. ASSUME NEW m \in Int, NEW n \in Int
      PROVE  /\ N!TinyBinary(c, "+", m, n) = N!Tiny(c, m + n)
             /\ N!TinyBinary(c, "-", m, n) = N!Tiny(c, m - n)
             /\ N!TinyBinary(c, "*", m, n) = N!Tiny(c, m * n)
             /\ N!TinyBinary(c, "/", m, n) = N!Tiny(c, N!Quotient(m, n))
             /\ N!TinyBinary(c, "%", m, n) = N!Tiny(c, m - n * N!Quotient(m, n))
    BY DEF N!TinyBinary, N!Apply
<1>5. N!TinyBinary(c, "-", N!TinyBinary(c, "+", x, y), y) = x
    <2>1. PICK k \in Int : N!Tiny(c, x + y) = x + y + 256 * k
        BY <1>1, <1>2
    <2>2. x + y + 256 * k - y = x + 256 * k /\ x + y + 256 * k \in Int
        BY <1>1
    <2>3. N!Tiny(c, x + 256 * k) = x
        BY <1>1, <1>3
    <2>4. N!TinyBinary(c, "+", x, y) = x + y + 256 * k
        BY <1>1, <1>4, <2>1
    <2>5. N!TinyBinary(c, "-", x + y + 256 * k, y) = N!Tiny(c, x + 256 * k)
        BY <1>1, <1>4, <2>2
    <2> QED BY <2>3, <2>4, <2>5
<1>6. ASSUME y # 0
      PROVE  N!TinyBinary(c, "+", N!TinyBinary(c, "*", N!TinyBinary(c, "/", x, y), y),
                                  N!TinyBinary(c, "%", x, y)) = x
    <2> DEFINE q == N!Quotient(x, y)
    <2>1. q \in Int
        BY <1>1, <1>6, QuotientIsInteger
    <2>2. N!TinyBinary(c, "/", x, y) = N!Tiny(c, q) /\ N!TinyBinary(c, "%", x, y) = N!Tiny(c, x - y * q)
        BY <1>1, <1>4
    <2> HIDE DEF q
    <2>3. q * y \in Int /\ y * q = q * y
        BY <1>1, <2>1
    <2>4. PICK k1 \in Int : N!Tiny(c, q) = q + 256 * k1
        BY <1>2, <2>1
    <2>5. (q + 256 * k1) * y = q * y + 256 * (k1 * y) /\ k1 * y \in Int /\ q + 256 * k1 \in Int
        BY <1>1, <2>1
    <2>6. N!TinyBinary(c, "*", N!Tiny(c, q), y) = N!Tiny(c, q * y)
        <3>1. N!TinyBinary(c, "*", q + 256 * k1, y) = N!Tiny(c, q * y + 256 * (k1 * y))
            BY <1>1, <1>4, <2>5
        <3>2. N!Tiny(c, q * y + 256 * (k1 * y)) = N!Tiny(c, q * y)
            BY <1>3, <2>3, <2>5
        <3> QED BY <2>4, <3>1, <3>2
    <2>7. PICK k2 \in Int : N!Tiny(c, q * y) = q * y + 256 * k2
        BY <1>2, <2>3
    <2>8. PICK k3 \in Int : N!Tiny(c, x - q * y) = x - q * y + 256 * k3
        <3>1. x - q * y \in Int
            BY <1>1, <2>3
        <3> QED BY <1>2, <3>1
    <2>9. (q * y + 256 * k2) + (x - q * y + 256 * k3) = x + 256 * (k2 + k3) /\ k2 + k3 \in Int
          /\ q * y + 256 * k2 \in Int /\ x - q * y + 256 * k3 \in Int
        BY <1>1, <2>3
    <2>10. N!Tiny(c, x + 256 * (k2 + k3)) = x
        BY <1>1, <1>3, <2>9
    <2>11. N!TinyBinary(c, "+", q * y + 256 * k2, x - q * y + 256 * k3) = x
        BY <1>4, <2>9, <2>10
    <2> QED BY <2>2, <2>3, <2>6, <2>7, <2>8, <2>11
<1>7. N!TinyInc(c, N!TinyDec(c, x)) = x
    <2>1. PICK k \in Int : N!Tiny(c, x - 1) = x - 1 + 256 * k
        BY <1>1, <1>2
    <2>2. x - 1 + 256 * k + 1 = x + 256 * k
        BY <1>1
    <2>3. N!Tiny(c, x + 256 * k) = x
        BY <1>1, <1>3
    <2> QED BY <2>1, <2>2, <2>3 DEF N!TinyInc, N!TinyDec
<1>8. N!TinyDec(c, N!TinyInc(c, x)) = x
    <2>1. PICK k \in Int : N!Tiny(c, x + 1) = x + 1 + 256 * k
        BY <1>1, <1>2
    <2>2. x + 1 + 256 * k - 1 = x + 256 * k
        BY <1>1
    <2>3. N!Tiny(c, x + 256 * k) = x
        BY <1>1, <1>3
    <2>4. N!TinyInc(c, x) = x + 1 + 256 * k
        BY <2>1 DEF N!TinyInc
    <2>5. N!TinyDec(c, x + 1 + 256 * k) = N!Tiny(c, x + 256 * k)
        BY <1>1, <2>2 DEF N!TinyDec
    <2> QED BY <2>3, <2>4, <2>5
<1>9. \A op \in {"+", "-", "*"} : N!TinyAssign(c, op, x, b) = N!TinyBinary(c, op, x, y)
    BY DEF N!TinyAssign, N!TinyBinary, y
<1>10. N!TinyBinary(c, "+", x, y) \in N!Values(c)
    BY <1>1, <1>4, TinyFacts
<1> QED BY <1>5, <1>6, <1>7, <1>8, <1>9, <1>10 DEF N!TinyIsModular, x, y

-----------------------------------------------------------------------------
(***************************************************************************)
(* Null<> (lib/null.h:264): of two values exactly one is less, or they are *)
(* equal; null comes first, equals null whatever the data member was left  *)
(* at, and assigning to it ends it.                                        *)
(***************************************************************************)
THEOREM NullsOrdered ==
    ASSUME NEW a \in [data : Int, null : BOOLEAN], NEW b \in [data : Int, null : BOOLEAN]
    PROVE  L!NullsOrdered(a, b)
<1> DEFINE order == <<L!NullLess(a, b), L!NullEqual(a, b), L!NullLess(b, a)>>
<1>1. \E i \in 1..3 : \A j \in 1..3 : order[j] <=> j = i
    <2>1. /\ order[1] <=> L!NullLess(a, b)
          /\ order[2] <=> L!NullEqual(a, b)
          /\ order[3] <=> L!NullLess(b, a)
        OBVIOUS
    <2>2. \/ L!NullLess(a, b) /\ ~L!NullEqual(a, b) /\ ~L!NullLess(b, a)
          \/ ~L!NullLess(a, b) /\ L!NullEqual(a, b) /\ ~L!NullLess(b, a)
          \/ ~L!NullLess(a, b) /\ ~L!NullEqual(a, b) /\ L!NullLess(b, a)
        BY DEF L!NullLess, L!NullEqual
    <2> HIDE DEF order
    <2>3. \A j \in 1..3 : j = 1 \/ j = 2 \/ j = 3
        OBVIOUS
    <2>4. CASE order[1] /\ ~order[2] /\ ~order[3]
        BY <2>3, <2>4
    <2>5. CASE ~order[1] /\ order[2] /\ ~order[3]
        BY <2>3, <2>5
    <2>6. CASE ~order[1] /\ ~order[2] /\ order[3]
        BY <2>3, <2>6
    <2> QED BY <2>1, <2>2, <2>4, <2>5, <2>6
<1>2. a.null /\ ~b.null => L!NullLess(a, b)
    BY DEF L!NullLess
<1>3. L!NullEqual(L!NullAssignNull(a), L!NullAssignNull(b))
    BY DEF L!NullEqual, L!NullAssignNull
<1>4. L!NullEqual(L!NullAssign(L!NullAssignNull(a), 1), L!NullAssign(b, 1))
    BY DEF L!NullEqual, L!NullAssign
<1> QED BY <1>1, <1>2, <1>3, <1>4 DEF L!NullsOrdered
=============================================================================
