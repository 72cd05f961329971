----------------------- MODULE ConnectionPoolProofs -----------------------
(***************************************************************************)
(* What the pool's runs show on small instances, for any threads,          *)
(* addresses, idle time and bounds: first of ConnectionPool, then of the   *)
(* subclass of examples/cpool.cpp.                                         *)
(***************************************************************************)
EXTENDS SimpleConnectionPool, NaturalsInduction, WellFoundedInduction,
        FiniteSetTheorems, TLAPS

(***************************************************************************)
(* When some pooled connection is free, the greatest element under         *)
(* operator< is free too: find_mru() may look at that one alone.           *)
(***************************************************************************)
LEMMA FreeIsGreatest ==
    ASSUME TypeOK, SectionOK, NEW d \in pool_ \ in_use
    PROVE  \E c \in MaxElements : c \notin in_use
<1> DEFINE Ages == {now - last_used[c] : c \in pool_ \ in_use}
<1>1. Ages \subseteq Nat /\ Ages # {}
    BY DEF TypeOK, SectionOK
<1>2. PICK a \in Ages : \A b \in Ages : ~(<<b, a>> \in OpToRel(<, Nat))
    <2> HIDE DEF Ages
    <2> QED BY <1>1, NatLessThanWellFounded, WFMin
<1>3. PICK c \in pool_ \ in_use : a = now - last_used[c]
    OBVIOUS
<1>4. \A e \in pool_ \ in_use : ~(now - last_used[e] < now - last_used[c])
    BY <1>1, <1>2, <1>3 DEF OpToRel
<1>5. \A e \in pool_ \ in_use : last_used[e] <= last_used[c]
    BY <1>4 DEF TypeOK
<1>6. \A e \in pool_ : ~Less(c, e)
    BY <1>5 DEF Less, TypeOK
<1> QED BY <1>3, <1>6 DEF MaxElements

LEMMA InitInv == Init => IInv
<1> SUFFICES ASSUME Init PROVE IInv
    OBVIOUS
<1>1. TypeOK
    BY DEF Init, TypeOK, PC, Op
<1>2. SectionOK /\ ArgumentOK /\ CreateOnlyWhenBusy
    BY DEF Init, SectionOK, ArgumentOK, CreateOnlyWhenBusy, Inside
<1>3. ExclusiveUse /\ AllAccounted /\ NoDangling
    BY DEF Init, ExclusiveUse, AllAccounted, NoDangling
<1> QED BY <1>1, <1>2, <1>3 DEF IInv

(***************************************************************************)
(* A step that changes none of the pool's data and nobody's loans keeps    *)
(* what the invariant says of them.                                        *)
(***************************************************************************)
LEMMA LoansKept ==
    ASSUME ExclusiveUse, AllAccounted, NoDangling,
           UNCHANGED <<poolVars, held, torn>>
    PROVE  ExclusiveUse' /\ AllAccounted' /\ NoDangling'
BY DEF ExclusiveUse, AllAccounted, NoDangling, poolVars

(***************************************************************************)
(* The same for removing free connections, as the idle timeout and         *)
(* shrink() do.                                                            *)
(***************************************************************************)
LEMMA ErasingFree ==
    ASSUME IInv, NEW S \in SUBSET (pool_ \ in_use), Erase(S),
           UNCHANGED <<held, now, torn>>
    PROVE  /\ ExclusiveUse' /\ AllAccounted' /\ NoDangling'
           /\ in_use' = in_use /\ pool_' \subseteq pool_
           /\ pool_' \subseteq Conn /\ in_use' \subseteq pool_'
           /\ heap' \subseteq Conn /\ down' \subseteq heap'
           /\ last_used' \in [Conn -> Nat]
           /\ \A c \in Conn : last_used'[c] <= now'
           /\ \A c \in in_use : c \in down => c \in down'
<1>1. in_use' = in_use
    BY DEF Erase
<1>2. ExclusiveUse' /\ AllAccounted'
    BY <1>1 DEF IInv, ExclusiveUse, AllAccounted
<1>3. \A t \in Thread : held[t] \subseteq in_use
    BY DEF IInv, AllAccounted
<1>4. NoDangling'
    BY <1>3 DEF IInv, NoDangling, Erase
<1>5. /\ pool_' \subseteq Conn /\ in_use' \subseteq pool_'
      /\ heap' \subseteq Conn /\ down' \subseteq heap'
    BY DEF IInv, TypeOK, Erase
<1>6. last_used' \in [Conn -> Nat] /\ \A c \in Conn : last_used'[c] <= now'
    BY DEF IInv, TypeOK, SectionOK, Erase
<1> QED BY <1>1, <1>2, <1>4, <1>5, <1>6 DEF Erase

LEMMA StepInv == IInv /\ [Next]_vars => IInv'
<1> SUFFICES ASSUME IInv, [Next]_vars PROVE IInv'
    OBVIOUS
<1> USE NoneAssumption
<1>0. \A t \in Thread : held[t] \subseteq in_use
    BY DEF IInv, AllAccounted
<1>1. ASSUME NEW t \in Thread, AppStep(t) PROVE IInv'
    <2>1. ExclusiveUse' /\ AllAccounted' /\ NoDangling'
        <3>1. UNCHANGED <<poolVars, held, torn>>
            BY <1>1 DEF AppStep, CallGrab, CallShrink, CallRelease, CallRemove,
                        Call, End, clientVars, envVars
        <3> QED BY <3>1, LoansKept DEF IInv
    <2>2. CASE End(t)
        BY <2>1, <2>2 DEF IInv, End, TypeOK, SectionOK, ArgumentOK, Goto,
                     CreateOnlyWhenBusy, PC, Entry, Inside,
                     poolVars, clientVars, envVars
    <2>3. ASSUME NEW method \in Op, NEW place \in Entry,
                 NEW c \in Conn \cup {None}, Call(t, method, place, c),
                 place \in {"release", "remove"} => c \in held[t],
                 place = "release" => method = "release",
                 place = "remove" => method # "safe_grab"
          PROVE  IInv'
        <3>1. TypeOK'
            BY <2>3 DEF IInv, TypeOK, Call, Goto, PC, poolVars, envVars
        <3>2. SectionOK'
            BY <2>3 DEF IInv, TypeOK, SectionOK, Call, Goto, Entry, Inside,
                        poolVars, envVars
        <3>3. ArgumentOK'
            BY <2>3 DEF IInv, TypeOK, ArgumentOK, Call, Goto, Entry, poolVars
        <3>4. CreateOnlyWhenBusy'
            BY <2>3 DEF IInv, TypeOK, CreateOnlyWhenBusy, Call, Goto, Entry,
                        poolVars
        <3> QED BY <2>1, <3>1, <3>2, <3>3, <3>4 DEF IInv
    <2>4. CASE CallGrab(t)
        BY <2>3, <2>4 DEF CallGrab, Op, Entry
    <2>5. CASE CallShrink(t)
        BY <2>3, <2>5 DEF CallShrink, Op, Entry
    <2>6. CASE CallRelease(t)
        BY <2>3, <2>6 DEF CallRelease, Op, Entry, IInv, TypeOK
    <2>7. CASE CallRemove(t)
        BY <2>3, <2>7 DEF CallRemove, Op, Entry, IInv, TypeOK
    <2> QED BY <1>1, <2>2, <2>4, <2>5, <2>6, <2>7 DEF AppStep
<1>2. ASSUME NEW t \in Thread, Lock(t) PROVE IInv'
    <2>1. ExclusiveUse' /\ AllAccounted' /\ NoDangling'
        BY <1>2, LoansKept DEF IInv, Lock, clientVars, envVars
    <2>2. TypeOK' /\ ArgumentOK' /\ CreateOnlyWhenBusy'
        BY <1>2 DEF IInv, TypeOK, ArgumentOK, CreateOnlyWhenBusy, Lock,
                    poolVars, clientVars, envVars
    <2>3. SectionOK'
        BY <1>2 DEF IInv, TypeOK, SectionOK, Lock, Entry, Inside,
                    poolVars, clientVars, envVars
    <2> QED BY <2>1, <2>2, <2>3 DEF IInv
<1>3. ASSUME NEW t \in Thread, Purge(t) PROVE IInv'
    <2> DEFINE S == {c \in pool_ : TooOld(c)}
    <2>1. S \in SUBSET (pool_ \ in_use) /\ Erase(S)
        BY <1>3 DEF Purge, TooOld
    <2>2. UNCHANGED <<held, now, torn, mutex_, op, arg, calls, drops>>
        BY <1>3 DEF Purge, clientVars, envVars
    <2> HIDE DEF S
    <2>3. /\ ExclusiveUse' /\ AllAccounted' /\ NoDangling'
          /\ in_use' = in_use /\ pool_' \subseteq pool_
          /\ pool_' \subseteq Conn /\ in_use' \subseteq pool_'
          /\ heap' \subseteq Conn /\ down' \subseteq heap'
          /\ last_used' \in [Conn -> Nat]
          /\ \A c \in Conn : last_used'[c] <= now'
          /\ \A c \in in_use : c \in down => c \in down'
        BY <2>1, <2>2, ErasingFree
    <2>4. pc[t] = "purge" /\ mutex_ = t /\ pc' = [pc EXCEPT ![t] = "find"]
        BY <1>3 DEF Purge, InSection, Goto
    <2>5. TypeOK'
        BY <2>2, <2>3, <2>4 DEF IInv, TypeOK, PC, Inside
    <2>6. SectionOK'
        BY <2>2, <2>3, <2>4 DEF IInv, TypeOK, SectionOK, Inside
    <2>7. ArgumentOK'
        BY <1>0, <2>2, <2>3, <2>4 DEF IInv, TypeOK, ArgumentOK
    <2>8. CreateOnlyWhenBusy'
        BY <2>3, <2>4 DEF IInv, TypeOK, CreateOnlyWhenBusy
    <2> QED BY <2>3, <2>5, <2>6, <2>7, <2>8 DEF IInv
<1>4. ASSUME NEW t \in Thread, FindMru(t) PROVE IInv'
    <2>1. PICK c \in MaxElements : /\ c \notin in_use
                                   /\ in_use' = in_use \cup {c}
                                   /\ Return(t, c)
        BY <1>4 DEF FindMru
    <2>2. c \in pool_ /\ c \in Conn
        BY DEF MaxElements, IInv, TypeOK
    <2>3. /\ mutex_ = t /\ mutex_' = None /\ pc[t] = "find"
          /\ \E place \in {"ping", "idle"} : pc' = [pc EXCEPT ![t] = place]
          /\ held' = [held EXCEPT ![t] = @ \cup {c}]
          /\ arg' = [arg EXCEPT ![t] = c]
          /\ UNCHANGED <<pool_, last_used, heap, down, op, calls, now, drops, torn>>
        BY <1>4, <2>1 DEF FindMru, InSection, Return, Goto, Unlock, envVars
    <2>4. TypeOK'
        BY <2>1, <2>2, <2>3 DEF IInv, TypeOK, PC
    <2>5. SectionOK' /\ CreateOnlyWhenBusy'
        BY <2>1, <2>3 DEF IInv, TypeOK, SectionOK, CreateOnlyWhenBusy, Inside
    <2>6. ArgumentOK'
        BY <2>3 DEF IInv, TypeOK, ArgumentOK
    <2>7. ExclusiveUse'
        BY <1>0, <2>1, <2>3 DEF IInv, TypeOK, ExclusiveUse
    <2>8. AllAccounted'
        BY <2>1, <2>3 DEF IInv, TypeOK, AllAccounted
    <2>9. NoDangling'
        BY <2>2, <2>3 DEF IInv, TypeOK, NoDangling
    <2> QED BY <2>4, <2>5, <2>6, <2>7, <2>8, <2>9 DEF IInv
<1>5. ASSUME NEW t \in Thread, FindNone(t) PROVE IInv'
    <2>1. ExclusiveUse' /\ AllAccounted' /\ NoDangling'
        BY <1>5, LoansKept DEF IInv, FindNone, clientVars, envVars
    <2>2. pool_ \subseteq in_use
        BY <1>5, FreeIsGreatest DEF IInv, FindNone
    <2>3. TypeOK' /\ ArgumentOK'
        BY <1>5 DEF IInv, TypeOK, ArgumentOK, FindNone, Goto, PC, Inside,
                    poolVars, clientVars, envVars
    <2>4. SectionOK' /\ CreateOnlyWhenBusy'
        BY <1>5, <2>2 DEF IInv, TypeOK, SectionOK, CreateOnlyWhenBusy, FindNone,
                    InSection, Goto, Inside, poolVars, clientVars, envVars
    <2> QED BY <2>1, <2>3, <2>4 DEF IInv
<1>6. ASSUME NEW t \in Thread, Create(t) PROVE IInv'
    <2>1. PICK c \in Conn \ heap :
              /\ heap' = heap \cup {c}
              /\ pool_' = pool_ \cup {c}
              /\ in_use' = in_use \cup {c}
              /\ last_used' = [last_used EXCEPT ![c] = now]
              /\ Return(t, c)
        BY <1>6 DEF Create
    <2>2. /\ mutex_ = t /\ mutex_' = None /\ pc[t] = "create"
          /\ \E place \in {"ping", "idle"} : pc' = [pc EXCEPT ![t] = place]
          /\ held' = [held EXCEPT ![t] = @ \cup {c}]
          /\ arg' = [arg EXCEPT ![t] = c]
          /\ UNCHANGED <<down, op, calls, now, drops, torn>>
        BY <1>6, <2>1 DEF Create, InSection, Return, Goto, Unlock, envVars
    <2>3. c \notin in_use
        BY DEF IInv, TypeOK, NoDangling
    <2>4. TypeOK'
        BY <2>1, <2>2 DEF IInv, TypeOK, PC
    <2>5. SectionOK' /\ CreateOnlyWhenBusy'
        BY <2>1, <2>2 DEF IInv, TypeOK, SectionOK, CreateOnlyWhenBusy, Inside
    <2>6. ArgumentOK'
        BY <2>2 DEF IInv, TypeOK, ArgumentOK
    <2>7. ExclusiveUse'
        BY <1>0, <2>2, <2>3 DEF IInv, TypeOK, ExclusiveUse
    <2>8. AllAccounted'
        BY <2>1, <2>2 DEF IInv, TypeOK, AllAccounted
    <2>9. NoDangling'
        <3>1. ~torn
            BY <2>2 DEF IInv, SectionOK
        <3> QED BY <2>1, <2>2, <3>1 DEF IInv, TypeOK, NoDangling
    <2> QED BY <2>4, <2>5, <2>6, <2>7, <2>8, <2>9 DEF IInv
<1>7. ASSUME NEW t \in Thread, CreateThrows(t) PROVE IInv'
    <2>1. ExclusiveUse' /\ AllAccounted' /\ NoDangling'
        BY <1>7, LoansKept DEF IInv, CreateThrows, clientVars, envVars
    <2>2. TypeOK' /\ ArgumentOK'
        BY <1>7 DEF IInv, TypeOK, ArgumentOK, CreateThrows, Goto, Unlock, PC,
                    poolVars, clientVars, envVars
    <2>3. SectionOK' /\ CreateOnlyWhenBusy'
        BY <1>7 DEF IInv, TypeOK, SectionOK, CreateOnlyWhenBusy, CreateThrows,
                    InSection, Goto, Unlock, Inside,
                    poolVars, clientVars, envVars
    <2> QED BY <2>1, <2>2, <2>3 DEF IInv
<1>8. ASSUME NEW t \in Thread, Ping(t) PROVE IInv'
    <2>1. ExclusiveUse' /\ AllAccounted' /\ NoDangling'
        BY <1>8, LoansKept DEF IInv, Ping, clientVars, envVars
    <2>2. TypeOK' /\ ArgumentOK'
        BY <1>8 DEF IInv, TypeOK, ArgumentOK, Ping, Goto, PC, Entry,
                    poolVars, clientVars, envVars
    <2>3. SectionOK' /\ CreateOnlyWhenBusy'
        BY <1>8 DEF IInv, TypeOK, SectionOK, CreateOnlyWhenBusy, Ping,
                    Goto, Entry, Inside, poolVars, clientVars, envVars
    <2> QED BY <2>1, <2>2, <2>3 DEF IInv
<1>9. ASSUME NEW t \in Thread, Remove(t) PROVE IInv'
    <2> DEFINE c == arg[t]
    <2>1. /\ mutex_ = t /\ mutex_' = None /\ pc[t] = "remove"
          /\ \E place \in {"idle", "purge"} : pc' = [pc EXCEPT ![t] = place]
          /\ held' = [held EXCEPT ![t] = @ \ {c}]
          /\ UNCHANGED <<op, arg, calls, now, drops, torn>>
        BY <1>9 DEF Remove, InSection, Goto, Unlock, envVars
    <2>2. c \in held[t] /\ c \in in_use /\ c \in pool_ /\ c \in Conn
        BY <1>0, <2>1 DEF IInv, TypeOK, ArgumentOK
    <2>3. /\ pool_' = pool_ \ {c} /\ in_use' = in_use \ {c}
          /\ heap' = heap \ {c} /\ down' = down \ {c}
          /\ last_used' = [d \in Conn |-> IF d = c THEN 0 ELSE last_used[d]]
        <3>1. {d \in pool_ : d = c} = {c}
            BY <2>2
        <3> QED BY <1>9, <3>1 DEF Remove, Erase
    <2>4. \A u \in Thread : u # t => c \notin held[u]
        BY <2>2 DEF IInv, ExclusiveUse
    <2> HIDE DEF c
    <2>5. TypeOK'
        BY <2>1, <2>2, <2>3 DEF IInv, TypeOK, PC, Entry
    <2>6. SectionOK' /\ CreateOnlyWhenBusy'
        BY <2>1, <2>2, <2>3 DEF IInv, TypeOK, SectionOK, CreateOnlyWhenBusy,
                                Inside
    <2>7. ArgumentOK'
        BY <2>1, <2>3, <2>4 DEF IInv, TypeOK, ArgumentOK
    <2>8. ExclusiveUse'
        BY <2>1 DEF IInv, TypeOK, ExclusiveUse
    <2>9. AllAccounted'
        BY <2>1, <2>3, <2>4 DEF IInv, TypeOK, AllAccounted
    <2>10. NoDangling'
        BY <2>1, <2>3, <2>4 DEF IInv, TypeOK, NoDangling
    <2> QED BY <2>5, <2>6, <2>7, <2>8, <2>9, <2>10 DEF IInv
<1>10. ASSUME NEW t \in Thread, Release(t) PROVE IInv'
    <2> DEFINE c == arg[t]
    <2>1. /\ mutex_ = t /\ mutex_' = None /\ pc[t] = "release"
          /\ pc' = [pc EXCEPT ![t] = "idle"]
          /\ held' = [held EXCEPT ![t] = @ \ {c}]
          /\ in_use' = in_use \ {c}
          /\ UNCHANGED <<pool_, heap, down, op, arg, calls, now, drops, torn>>
        BY <1>10 DEF Release, InSection, Goto, Unlock, envVars
    <2>2. c \in held[t] /\ c \in pool_ /\ c \in Conn
        BY <1>0, <2>1 DEF IInv, TypeOK, ArgumentOK
    <2>3. last_used' = [last_used EXCEPT ![c] = now]
        BY <1>10, <2>2 DEF Release
    <2>4. \A u \in Thread : u # t => c \notin held[u]
        BY <2>2 DEF IInv, ExclusiveUse
    <2> HIDE DEF c
    <2>5. TypeOK'
        BY <2>1, <2>2, <2>3 DEF IInv, TypeOK, PC
    <2>6. SectionOK' /\ CreateOnlyWhenBusy'
        <3>1. \A u \in Thread : pc'[u] # "create"
            BY <2>1 DEF IInv, TypeOK, SectionOK, Inside
        <3> QED BY <2>1, <2>2, <2>3, <3>1 DEF IInv, TypeOK, SectionOK,
                                              CreateOnlyWhenBusy, Inside
    <2>7. ArgumentOK'
        BY <2>1, <2>4 DEF IInv, TypeOK, ArgumentOK
    <2>8. ExclusiveUse'
        BY <2>1 DEF IInv, TypeOK, ExclusiveUse
    <2>9. AllAccounted'
        BY <2>1, <2>4 DEF IInv, TypeOK, AllAccounted
    <2>10. NoDangling'
        BY <2>1 DEF IInv, TypeOK, NoDangling
    <2> QED BY <2>5, <2>6, <2>7, <2>8, <2>9, <2>10 DEF IInv
<1>11. ASSUME NEW t \in Thread, Clear(t) PROVE IInv'
    <2>1. Cleared(FALSE) \in SUBSET (pool_ \ in_use) /\ Erase(Cleared(FALSE))
        BY <1>11 DEF Clear, Cleared
    <2>2. UNCHANGED <<held, now, torn, op, arg, calls, drops>>
        BY <1>11 DEF Clear, clientVars, envVars
    <2>3. /\ ExclusiveUse' /\ AllAccounted' /\ NoDangling'
          /\ in_use' = in_use /\ pool_' \subseteq pool_
          /\ pool_' \subseteq Conn /\ in_use' \subseteq pool_'
          /\ heap' \subseteq Conn /\ down' \subseteq heap'
          /\ last_used' \in [Conn -> Nat]
          /\ \A c \in Conn : last_used'[c] <= now'
          /\ \A c \in in_use : c \in down => c \in down'
        BY <2>1, <2>2, ErasingFree
    <2>4. /\ pc[t] = "clear" /\ mutex_ = t /\ mutex_' = None
          /\ pc' = [pc EXCEPT ![t] = "idle"]
        BY <1>11 DEF Clear, InSection, Goto, Unlock
    <2>5. TypeOK'
        BY <2>2, <2>3, <2>4 DEF IInv, TypeOK, PC
    <2>6. SectionOK'
        BY <2>2, <2>3, <2>4 DEF IInv, TypeOK, SectionOK, Inside
    <2>7. ArgumentOK'
        BY <1>0, <2>2, <2>3, <2>4 DEF IInv, TypeOK, ArgumentOK
    <2>8. CreateOnlyWhenBusy'
        BY <2>3, <2>4 DEF IInv, TypeOK, CreateOnlyWhenBusy
    <2> QED BY <2>3, <2>5, <2>6, <2>7, <2>8 DEF IInv
<1>12. CASE Teardown
    <2>1. pool_' = {} /\ heap' = {}
        BY <1>12 DEF IInv, NoDangling, Teardown, Erase, Cleared
    <2>2. in_use' = {} /\ down' = {}
        BY <1>12 DEF IInv, TypeOK, NoDangling, Teardown, Erase, Cleared
    <2>3. /\ held' = [t \in Thread |-> {}] /\ torn' = TRUE
          /\ \A t \in Thread : pc[t] = "ended"
          /\ UNCHANGED <<mutex_, pc, op, arg, calls, now, drops>>
        BY <1>12 DEF Teardown
    <2>4. /\ last_used' \in [Conn -> Nat]
          /\ \A c \in Conn : last_used'[c] <= now
        <3>1. PICK S : Erase(S)
            BY <1>12 DEF Teardown
        <3> QED BY <2>3, <3>1 DEF IInv, TypeOK, SectionOK, Erase
    <2>5. TypeOK'
        BY <2>1, <2>2, <2>3, <2>4 DEF IInv, TypeOK
    <2>6. SectionOK' /\ ArgumentOK' /\ CreateOnlyWhenBusy'
        BY <2>3, <2>4 DEF IInv, SectionOK, ArgumentOK, CreateOnlyWhenBusy
    <2>7. ExclusiveUse' /\ AllAccounted' /\ NoDangling'
        BY <2>1, <2>2, <2>3 DEF ExclusiveUse, AllAccounted, NoDangling
    <2> QED BY <2>5, <2>6, <2>7 DEF IInv
<1>13. CASE Tick
    <2>1. ExclusiveUse' /\ AllAccounted' /\ NoDangling'
        BY <1>13, LoansKept DEF IInv, Tick, clientVars
    <2>2. TypeOK' /\ SectionOK' /\ ArgumentOK' /\ CreateOnlyWhenBusy'
        BY <1>13 DEF IInv, TypeOK, SectionOK, ArgumentOK, CreateOnlyWhenBusy,
                     Tick, poolVars, clientVars
    <2> QED BY <2>1, <2>2 DEF IInv
<1>14. CASE Drop
    <2>1. ExclusiveUse' /\ AllAccounted' /\ NoDangling'
        BY <1>14 DEF IInv, ExclusiveUse, AllAccounted, NoDangling, Drop,
                     clientVars
    <2>2. TypeOK'
        BY <1>14 DEF IInv, TypeOK, Drop, clientVars
    <2>3. SectionOK' /\ ArgumentOK' /\ CreateOnlyWhenBusy'
        BY <1>14 DEF IInv, SectionOK, ArgumentOK, CreateOnlyWhenBusy, Drop,
                     clientVars
    <2> QED BY <2>1, <2>2, <2>3 DEF IInv
<1>15. CASE UNCHANGED vars
    <2>1. ExclusiveUse' /\ AllAccounted' /\ NoDangling'
        BY <1>15, LoansKept DEF IInv, vars, clientVars, envVars
    <2>2. TypeOK' /\ SectionOK' /\ ArgumentOK' /\ CreateOnlyWhenBusy'
        BY <1>15 DEF IInv, TypeOK, SectionOK, ArgumentOK, CreateOnlyWhenBusy,
                     vars, poolVars, clientVars, envVars
    <2> QED BY <2>1, <2>2 DEF IInv
<1> QED
    BY <1>1, <1>2, <1>3, <1>4, <1>5, <1>6, <1>7, <1>8, <1>9, <1>10, <1>11,
       <1>12, <1>13, <1>14, <1>15 DEF Next, PoolStep, Terminated

(***************************************************************************)
(* The inductive invariant holds in every reachable state.                 *)
(***************************************************************************)
THEOREM Invariance == Spec => []IInv
BY InitInv, StepInv, PTL DEF Spec

(***************************************************************************)
(* threads.dbx, library books: no connection is ever lent to two threads.  *)
(***************************************************************************)
THEOREM Exclusion == Spec => []ExclusiveUse
BY Invariance, PTL DEF IInv

(***************************************************************************)
(* in_use marks exactly the connections some thread may use.               *)
(***************************************************************************)
THEOREM Accounting == Spec => []AllAccounted
BY Invariance, PTL DEF IInv

(***************************************************************************)
(* What a thread holds is alive, and the pool leaks no connection.         *)
(***************************************************************************)
THEOREM Lifetime == Spec => []NoDangling
BY Invariance, PTL DEF IInv

(***************************************************************************)
(* grab() creates only when every connection is in use.  The step that     *)
(* needs an argument is FindNone: see FreeIsGreatest.                      *)
(***************************************************************************)
THEOREM Frugality == Spec => []CreateOnlyWhenBusy
BY Invariance, PTL DEF IInv

(***************************************************************************)
(* The steps that change who holds what.                                   *)
(***************************************************************************)
Lends(t, c) == FindMru(t) /\ c \in MaxElements /\ c \notin in_use
Buys(t, c) == Create(t) /\ c \notin heap

LEMMA HeldGrows ==
    ASSUME IInv, [Next]_vars, NEW t \in Thread, NEW c \in held'[t] \ held[t]
    PROVE  Lends(t, c) \/ Buys(t, c)
<1>1. held' # held
    OBVIOUS
<1>2. ASSUME NEW u \in Thread, NEW d, held' = [held EXCEPT ![u] = @ \cup {d}]
      PROVE  u = t /\ d = c
    BY <1>2 DEF IInv, TypeOK
<1>3. ASSUME NEW u \in Thread, NEW d, held' = [held EXCEPT ![u] = @ \ {d}]
      PROVE  FALSE
    BY <1>3 DEF IInv, TypeOK
<1>4. CASE \E u \in Thread : FindMru(u)
    BY <1>2, <1>4 DEF FindMru, Return, Lends
<1>5. CASE \E u \in Thread : Create(u)
    BY <1>2, <1>5 DEF Create, Return, Buys
<1>6. CASE \E u \in Thread : Remove(u) \/ Release(u)
    BY <1>3, <1>6 DEF Remove, Release
<1>7. CASE Teardown
    BY <1>7 DEF Teardown
<1>8. CASE \E u \in Thread : AppStep(u)
    BY <1>1, <1>8 DEF AppStep, CallGrab, CallShrink, CallRelease, CallRemove,
                      Call, End, clientVars
<1>9. CASE \E u \in Thread : Lock(u) \/ Purge(u) \/ FindNone(u)
                             \/ CreateThrows(u) \/ Ping(u) \/ Clear(u)
    BY <1>1, <1>9 DEF Lock, Purge, FindNone, CreateThrows, Ping, Clear,
                      clientVars
<1>10. CASE Tick \/ Drop \/ UNCHANGED vars
    BY <1>1, <1>10 DEF Tick, Drop, vars, clientVars
<1> QED BY <1>4, <1>5, <1>6, <1>7, <1>8, <1>9, <1>10
        DEF Next, PoolStep, Terminated

LEMMA HeldShrinks ==
    ASSUME IInv, [Next]_vars, NEW t \in Thread, NEW c \in held[t] \ held'[t]
    PROVE  torn' \/ (c = arg[t] /\ (Remove(t) \/ Release(t)))
<1>1. held' # held
    OBVIOUS
<1>2. ASSUME NEW u \in Thread, NEW d, held' = [held EXCEPT ![u] = @ \cup {d}]
      PROVE  FALSE
    BY <1>2 DEF IInv, TypeOK
<1>3. ASSUME NEW u \in Thread, NEW d, held' = [held EXCEPT ![u] = @ \ {d}]
      PROVE  u = t /\ d = c
    BY <1>3 DEF IInv, TypeOK
<1>4. CASE \E u \in Thread : FindMru(u) \/ Create(u)
    BY <1>2, <1>4 DEF FindMru, Create, Return
<1>5. CASE \E u \in Thread : Remove(u) \/ Release(u)
    <2>1. PICK u \in Thread : Remove(u) \/ Release(u)
        BY <1>5
    <2>2. held' = [held EXCEPT ![u] = @ \ {arg[u]}]
        BY <2>1 DEF Remove, Release
    <2> QED BY <1>3, <2>1, <2>2
<1>6. CASE Teardown
    BY <1>6 DEF Teardown
<1>7. CASE \E u \in Thread : AppStep(u)
    BY <1>1, <1>7 DEF AppStep, CallGrab, CallShrink, CallRelease, CallRemove,
                      Call, End, clientVars
<1>8. CASE \E u \in Thread : Lock(u) \/ Purge(u) \/ FindNone(u)
                             \/ CreateThrows(u) \/ Ping(u) \/ Clear(u)
    BY <1>1, <1>8 DEF Lock, Purge, FindNone, CreateThrows, Ping, Clear,
                      clientVars
<1>9. CASE Tick \/ Drop \/ UNCHANGED vars
    BY <1>1, <1>9 DEF Tick, Drop, vars, clientVars
<1> QED BY <1>4, <1>5, <1>6, <1>7, <1>8, <1>9
        DEF Next, PoolStep, Terminated

(***************************************************************************)
(* A pooled connection is lent only when no free one was released later.   *)
(***************************************************************************)
THEOREM MostRecentFirst == Spec => MRUFirst
<1>1. ASSUME IInv, [Next]_vars PROVE MRUStep
    <2>1. SUFFICES ASSUME NEW t \in Thread,
                          NEW c \in pool_ \cap (held'[t] \ held[t]),
                          NEW d \in pool_ \ in_use
                   PROVE  last_used[d] <= last_used[c]
        BY DEF MRUStep
    <2>2. Lends(t, c)
        BY <1>1, HeldGrows DEF Buys, IInv, NoDangling
    <2>3. ~Less(c, d) /\ c \notin in_use
        BY <2>2 DEF Lends, MaxElements
    <2> QED BY <1>1, <2>3 DEF Less, IInv, TypeOK
<1> QED BY <1>1, Invariance, PTL DEF Spec, MRUFirst

(***************************************************************************)
(* safe_grab() destroys only connections the server has dropped.           *)
(***************************************************************************)
THEOREM OnlyDeadDestroyed == Spec => SafeGrabRemovesDead
<1>1. ASSUME IInv, [Next]_vars PROVE SafeGrabStep
    <2>1. SUFFICES ASSUME NEW t \in Thread, op[t] = "safe_grab", ~torn',
                          NEW c \in held[t] \ held'[t]
                   PROVE  c \in down
        BY DEF SafeGrabStep
    <2>2. c = arg[t] /\ (Remove(t) \/ Release(t))
        BY <1>1, <2>1, HeldShrinks
    <2>3. pc[t] # "release"
        BY <1>1, <2>1 DEF IInv, ArgumentOK
    <2>4. pc[t] = "remove"
        BY <2>2, <2>3 DEF Remove, Release, InSection
    <2> QED BY <1>1, <2>1, <2>2, <2>4 DEF IInv, ArgumentOK
<1> QED BY <1>1, Invariance, PTL DEF Spec, SafeGrabRemovesDead

(***************************************************************************)
(* Nobody destroys a connection that another thread is using.              *)
(***************************************************************************)
THEOREM HolderDestroys == Spec => OnlyHolderDestroys
<1>1. ASSUME IInv, [Next]_vars PROVE HolderStep
    <2>1. SUFFICES ASSUME NEW c \in in_use \ heap', ~torn'
                   PROVE  \E t \in Thread : /\ c \in held[t]
                                            /\ mutex_ = t
                                            /\ pc[t] = "remove"
        BY DEF HolderStep
    <2>2. IInv'
        BY <1>1, StepInv
    <2>3. PICK t \in Thread : c \in held[t]
        BY <1>1 DEF IInv, AllAccounted
    <2>4. c \notin held'[t]
        BY <2>2 DEF IInv, NoDangling
    <2>5. c = arg[t] /\ (Remove(t) \/ Release(t))
        BY <1>1, <2>1, <2>3, <2>4, HeldShrinks
    <2>6. c \in heap
        BY <1>1, <2>3 DEF IInv, NoDangling
    <2>7. Remove(t)
        BY <2>5, <2>6 DEF Release
    <2> QED BY <2>3, <2>7 DEF Remove, InSection
<1> QED BY <1>1, Invariance, PTL DEF Spec, OnlyHolderDestroys

(***************************************************************************)
(* The pool implements ConnectionLoans, the library of threads.dbx.        *)
(***************************************************************************)
LEMMA StepLoans ==
    IInv /\ [Next]_vars => [Loans!LoanNext]_(Loans!loanVars)
<1> SUFFICES ASSUME IInv, [Next]_vars, UNCHANGED Loans!loanVars => FALSE
             PROVE  Loans!LoanNext
    OBVIOUS
<1> USE DEF Loans!LoanNext
<1>0. held' # held \/ pool_' \ in_use' # pool_ \ in_use
    BY DEF Loans!loanVars
<1>1. \A t \in Thread : held[t] \subseteq in_use
    BY DEF IInv, AllAccounted
<1>2. ASSUME NEW t \in Thread, FindMru(t) PROVE Loans!CheckOut(t)
    <2>1. PICK c \in MaxElements : c \notin in_use /\ in_use' = in_use \cup {c}
                                   /\ Return(t, c)
        BY <1>2 DEF FindMru
    <2> QED BY <1>2, <2>1 DEF Loans!CheckOut, FindMru, Return, MaxElements
<1>3. ASSUME NEW t \in Thread, Create(t) PROVE Loans!CheckOutNew(t)
    <2>1. PICK c \in Conn \ heap : /\ pool_' = pool_ \cup {c}
                                   /\ in_use' = in_use \cup {c}
                                   /\ Return(t, c)
        BY <1>3 DEF Create
    <2>2. pool_ \ in_use = {} /\ pool_' \ in_use' = {}
        BY <1>3, <2>1 DEF IInv, CreateOnlyWhenBusy, Create, InSection
    <2>3. c \notin Loans!OnLoan
        BY DEF Loans!OnLoan, IInv, NoDangling
    <2> QED BY <2>1, <2>2, <2>3 DEF Loans!CheckOutNew, Return
<1>4. ASSUME NEW t \in Thread, Release(t) PROVE Loans!GiveBack(t)
    <2>1. arg[t] \in held[t] /\ arg[t] \in pool_ /\ arg[t] \in in_use
        BY <1>1, <1>4 DEF Release, InSection, IInv, TypeOK, ArgumentOK
    <2> QED BY <1>4, <2>1 DEF Loans!GiveBack, Release
<1>5. ASSUME NEW t \in Thread, Remove(t) PROVE Loans!Discard(t)
    <2>1. arg[t] \in held[t] /\ arg[t] \in in_use
        BY <1>1, <1>5 DEF Remove, InSection, IInv, ArgumentOK
    <2>2. pool_' \ in_use' = pool_ \ in_use
        BY <1>5, <2>1 DEF Remove, Erase
    <2> QED BY <1>5, <2>1, <2>2 DEF Loans!Discard, Remove
<1>6. ASSUME NEW t \in Thread, Purge(t) \/ Clear(t) PROVE Loans!Weed
    <2>1. held' = held
        BY <1>6 DEF Purge, Clear, clientVars
    <2>2. \E S : pool_' = pool_ \ S /\ in_use' = in_use \ S
                 /\ S \cap in_use = {}
        BY <1>6 DEF Purge, Clear, Erase, TooOld, Cleared
    <2> QED BY <2>1, <2>2 DEF Loans!Weed
<1>7. CASE Teardown
    <2>1. pool_' = {}
        BY <1>7 DEF Teardown, Erase, Cleared
    <2> QED BY <1>7, <2>1 DEF Loans!Close, Teardown
<1>8. CASE \E t \in Thread : AppStep(t)
    BY <1>0, <1>8 DEF AppStep, CallGrab, CallShrink, CallRelease, CallRemove,
                      Call, End, clientVars, poolVars
<1>9. CASE \E t \in Thread : Lock(t) \/ FindNone(t) \/ CreateThrows(t) \/ Ping(t)
    BY <1>0, <1>9 DEF Lock, FindNone, CreateThrows, Ping, clientVars, poolVars
<1>10. CASE Tick \/ Drop \/ UNCHANGED vars
    BY <1>0, <1>10 DEF Tick, Drop, vars, clientVars, poolVars
<1> QED BY <1>2, <1>3, <1>4, <1>5, <1>6, <1>7, <1>8, <1>9, <1>10
        DEF Next, PoolStep, Terminated

\* The pool lends its connections as a library lends its items: each step is
\* one of ConnectionLoans, or leaves shelf and loans alone.
THEOREM Refinement == Spec => LendsLikeALibrary
<1>1. Init => Loans!LoanInit
    BY DEF Init, Loans!LoanInit
<1> QED BY <1>1, StepLoans, Invariance, PTL
        DEF Spec, LendsLikeALibrary, Loans!LoanSpec

-----------------------------------------------------------------------------
(***************************************************************************)
(* What the overrides of examples/cpool.cpp keep and what they add.        *)
(* Whatever the number of threads, SimpleConnectionPool is still a         *)
(* ConnectionPool.  Its limit is proved of a program with one thread: the  *)
(* count is not protected, and with two it means nothing.                  *)
(***************************************************************************)
(***************************************************************************)
(* Each step of an override is one of the base class's, or none.           *)
(***************************************************************************)
LEMMA StepIsBaseStep == [LimitNext]_allVars => [Next]_vars
<1> SUFFICES ASSUME [LimitNext]_allVars PROVE [Next]_vars
    OBVIOUS
<1>1. ASSUME NEW t \in Thread, LimitCall(t) PROVE Next
    BY <1>1 DEF LimitCall, Next, AppStep
<1>2. ASSUME NEW t \in Thread, LimitStep(t) PROVE [Next]_vars
    <2>1. CASE Check(t) \/ Load(t) \/ Increment(t) \/ Decrement(t)
        BY <2>1 DEF Check, Load, Increment, Decrement
    <2>2. CASE LimitRelease(t) \/ LimitRemove(t) \/ BaseStep(t)
        BY <2>2 DEF LimitRelease, LimitRemove, BaseStep, Next, PoolStep
    <2> QED BY <1>2, <2>1, <2>2 DEF LimitStep
<1> QED BY <1>1, <1>2 DEF LimitNext, Next, allVars

(***************************************************************************)
(* Overriding grab() and release(), without remove(), does not break the   *)
(* pool: what is proved of ConnectionPool holds here, for any threads.     *)
(***************************************************************************)
THEOREM StillAPool == LimitSpec => Spec
<1>1. LimitInit => Init
    BY DEF LimitInit
<1> QED BY <1>1, StepIsBaseStep, PTL DEF LimitSpec, Spec

\* So the base class's inductive invariant holds of the example: among others
\* that no connection is lent to two threads.
THEOREM StillExclusive == LimitSpec => []IInv
BY StillAPool, Invariance, PTL

-----------------------------------------------------------------------------
(***************************************************************************)
(* The limit, in a program with one thread.                                *)
(***************************************************************************)
OneThread == \E t : Thread = {t}

(***************************************************************************)
(* Counting: what a step does to the number of connections in use.         *)
(***************************************************************************)
LEMMA OneMore ==
    ASSUME NEW S, IsFiniteSet(S), NEW c, c \notin S
    PROVE  /\ IsFiniteSet(S \cup {c})
           /\ Cardinality(S) \in Nat
           /\ Cardinality(S \cup {c}) = Cardinality(S) + 1
BY FS_AddElement, FS_CardinalityType

LEMMA OneLess ==
    ASSUME NEW S, IsFiniteSet(S), NEW c \in S
    PROVE  /\ IsFiniteSet(S \ {c})
           /\ Cardinality(S) \in Nat /\ Cardinality(S \ {c}) \in Nat
           /\ Cardinality(S \ {c}) = Cardinality(S) - 1
BY FS_RemoveElement, FS_CardinalityType

LEMMA InitLimit == LimitInit => LimitInv
<1> SUFFICES ASSUME LimitInit PROVE LimitInv
    OBVIOUS
<1>1. in_use = {} /\ IsFiniteSet({}) /\ Cardinality({}) = 0
    BY FS_EmptySet DEF LimitInit, Init
<1> QED BY <1>1, LimitAssumption DEF LimitInit, Init, LimitInv, CountedAhead

(***************************************************************************)
(* The count itself: no arithmetic of the overrides wraps.                 *)
(***************************************************************************)
LEMMA CountSteps ==
    ASSUME IInv, LimitInv, OneThread, NEW t \in Thread,
           Check(t) \/ Load(t) \/ Increment(t) \/ Decrement(t)
    PROVE  LimitInv'
<1>1. /\ UNCHANGED <<in_use, torn, pc>>
      BY DEF Check, Load, Increment, Decrement, vars, poolVars, envVars
<1>2. Thread = {t}
    BY DEF OneThread
<1>3. /\ gate \in [Thread -> {"open", "check", "load", "store", "unload", "unstore"}]
      /\ seen \in [Thread -> Nat] /\ IsFiniteSet(in_use)
      /\ conns_in_use_ \in 0 .. Limit + 1 /\ Cardinality(in_use) \in Nat
      BY FS_CardinalityType DEF LimitInv
<1>4. CASE Check(t)
    <2>1. /\ gate[t] = "check" /\ UNCHANGED <<conns_in_use_, seen>>
          /\ \/ gate' = gate
             \/ conns_in_use_ <= Limit /\ gate' = [gate EXCEPT ![t] = "load"]
        <3>1. conns_in_use_ > Limit \/ conns_in_use_ <= Limit
            BY <1>3, LimitAssumption
        <3> QED BY <1>4, <3>1 DEF Check, Pass
    <2>2. CASE gate' = gate
        BY <1>1, <1>2, <2>1, <2>2 DEF LimitInv, CountedAhead
    <2>3. CASE conns_in_use_ <= Limit /\ gate' = [gate EXCEPT ![t] = "load"]
        BY <1>1, <1>2, <1>3, <2>1, <2>3 DEF LimitInv, CountedAhead
    <2> QED BY <2>1, <2>2, <2>3
<1>5. CASE Load(t)
    <2>1. PICK place \in {"store", "unstore"} :
              /\ gate' = [gate EXCEPT ![t] = place]
              /\ place = "store" => gate[t] = "load"
              /\ place = "unstore" => gate[t] = "unload"
        BY <1>5 DEF Load, Pass
    <2>2. /\ seen' = [seen EXCEPT ![t] = conns_in_use_]
          /\ conns_in_use_' = conns_in_use_ /\ conns_in_use_ \in Nat
        BY <1>3, <1>5, LimitAssumption DEF Load
    <2>3. /\ gate'[t] = place /\ seen'[t] = conns_in_use_
          /\ CountedAhead(t)' => CountedAhead(t)
        BY <1>1, <1>3, <2>1, <2>2 DEF CountedAhead
    <2>4. /\ gate' \in [Thread -> {"open", "check", "load", "store", "unload", "unstore"}]
          /\ seen' \in [Thread -> Nat]
        BY <1>3, <2>1, <2>2
    <2>5. /\ gate[t] = "load" => pc[t] = "purge" /\ conns_in_use_ <= Limit
          /\ gate[t] = "unload" => pc[t] = "idle"
          /\ ~torn => Cardinality(in_use) <= conns_in_use_
          /\ ~torn /\ CountedAhead(t) => Cardinality(in_use) < conns_in_use_
        BY DEF LimitInv
    <2> QED BY <1>1, <1>2, <1>3, <2>1, <2>2, <2>3, <2>4, <2>5 DEF LimitInv
<1>6. CASE Increment(t)
    <2>1. gate[t] = "store" /\ seen[t] = conns_in_use_ /\ conns_in_use_ <= Limit
        BY <1>6 DEF Increment, LimitInv
    <2>2. conns_in_use_' = conns_in_use_ + 1
        BY <1>3, <1>6, <2>1, LimitAssumption DEF Increment
    <2>3. gate' = [gate EXCEPT ![t] = "open"] /\ seen' = seen
        BY <1>6 DEF Increment, Pass
    <2>4. ~torn => Cardinality(in_use) <= conns_in_use_
        BY DEF LimitInv
    <2> QED BY <1>1, <1>2, <1>3, <2>1, <2>2, <2>3, <2>4, LimitAssumption
               DEF LimitInv, CountedAhead
<1>7. CASE Decrement(t)
    <2>1. /\ gate[t] = "unstore" /\ seen[t] = conns_in_use_ /\ pc[t] = "idle"
          /\ ~torn /\ Cardinality(in_use) < conns_in_use_
        BY <1>7 DEF Decrement, LimitInv, CountedAhead, IInv, SectionOK
    <2>2. conns_in_use_' = conns_in_use_ - 1
        <3>1. conns_in_use_ \in 1 .. Limit + 1 /\ Limit + 1 < Width
            BY <1>3, <2>1, LimitAssumption
        <3>2. PICK k \in Nat : k = conns_in_use_ - 1 /\ k < Width
            BY <3>1, LimitAssumption
        <3>3. conns_in_use_' = (k + Width) % Width
            BY <1>7, <2>1, <3>1, <3>2, LimitAssumption DEF Decrement
        <3>4. (k + Width) % Width = k
            BY <3>2, LimitAssumption
        <3> QED BY <3>2, <3>3, <3>4
    <2>3. gate' = [gate EXCEPT ![t] = "open"] /\ seen' = seen
        BY <1>7 DEF Decrement, Pass
    <2> QED BY <1>1, <1>2, <1>3, <2>1, <2>2, <2>3, LimitAssumption
               DEF LimitInv, CountedAhead
<1> QED BY <1>4, <1>5, <1>6, <1>7

(***************************************************************************)
(* The steps of the pool, by what they do to in_use: nothing, one more for *)
(* a thread counted ahead, one less for a thread that holds it.            *)
(***************************************************************************)
LEMMA UsersUnchanged ==
    ASSUME LimitInv, OneThread, NEW t \in Thread,
           UNCHANGED <<in_use, torn, conns_in_use_, seen>>,
           gate' = gate \/ (gate[t] = "open" /\ gate' = [gate EXCEPT ![t] = "check"]),
           gate'[t] = "check" => pc'[t] = "purge",
           gate'[t] = "open" /\ pc'[t] \in {"purge", "find", "create"} =>
               pc[t] \in {"purge", "find", "create"},
           gate'[t] \notin {"open", "check"} => pc' = pc
    PROVE  LimitInv'
<1>1. Thread = {t}
    BY DEF OneThread
<1>2. gate' \in [Thread -> {"open", "check", "load", "store", "unload", "unstore"}]
    BY DEF LimitInv
<1>3. CountedAhead(t)' => CountedAhead(t)
    BY <1>2 DEF CountedAhead, LimitInv
<1>4. /\ gate'[t] \in {"load", "store", "unload", "unstore"} => gate'[t] = gate[t]
      /\ gate'[t] \in {"load", "store"} => pc'[t] = "purge"
      /\ gate'[t] \in {"unload", "unstore"} => pc'[t] = "idle"
    BY DEF LimitInv
<1> QED BY <1>1, <1>2, <1>3, <1>4 DEF LimitInv

LEMMA UserLeaves ==
    ASSUME LimitInv, OneThread, NEW t \in Thread, NEW c \in in_use, ~torn,
           in_use' = in_use \ {c},
           UNCHANGED <<torn, conns_in_use_, seen>>,
           \/ gate' = gate /\ pc'[t] = "idle" /\ gate[t] = "open"
           \/ gate' = [gate EXCEPT ![t] = "check"] /\ pc'[t] = "purge"
           \/ gate' = [gate EXCEPT ![t] = "unload"] /\ pc'[t] = "idle"
    PROVE  LimitInv'
<1>1. Thread = {t}
    BY DEF OneThread
<1>2. /\ gate' \in [Thread -> {"open", "check", "load", "store", "unload", "unstore"}]
      /\ gate'[t] \in {"open", "check", "unload"}
      /\ gate'[t] = "check" => pc'[t] = "purge"
      /\ gate'[t] = "unload" => pc'[t] = "idle"
    BY DEF LimitInv
<1>3. /\ IsFiniteSet(in_use') /\ Cardinality(in_use) \in Nat
      /\ Cardinality(in_use') = Cardinality(in_use) - 1
    BY OneLess DEF LimitInv
<1>4. /\ Cardinality(in_use) <= conns_in_use_
      /\ conns_in_use_ \in 0 .. Limit + 1 /\ seen \in [Thread -> Nat]
    BY DEF LimitInv
<1>5. Cardinality(in_use') < conns_in_use_
    BY <1>3, <1>4, LimitAssumption
<1> QED BY <1>1, <1>2, <1>3, <1>4, <1>5, LimitAssumption DEF LimitInv

LEMMA UserEnters ==
    ASSUME LimitInv, OneThread, NEW t \in Thread, NEW c, c \notin in_use, ~torn,
           gate[t] = "open", pc[t] \in {"find", "create"},
           in_use' = in_use \cup {c}, pc'[t] \in {"ping", "idle"},
           UNCHANGED <<torn, conns_in_use_, seen, gate>>
    PROVE  LimitInv'
<1>1. Thread = {t}
    BY DEF OneThread
<1>2. /\ IsFiniteSet(in_use') /\ Cardinality(in_use) \in Nat
      /\ Cardinality(in_use') = Cardinality(in_use) + 1
    BY OneMore DEF LimitInv
<1>3. /\ Cardinality(in_use) < conns_in_use_
      /\ conns_in_use_ \in 0 .. Limit + 1
    BY DEF LimitInv, CountedAhead
<1>4. Cardinality(in_use') <= conns_in_use_
    BY <1>2, <1>3, LimitAssumption
<1>5. ~CountedAhead(t)'
    BY DEF CountedAhead
<1> QED BY <1>1, <1>2, <1>3, <1>4, <1>5 DEF LimitInv

(***************************************************************************)
(* The application calls when no override is under way.                    *)
(***************************************************************************)
LEMMA CallLimit ==
    ASSUME IInv, LimitInv, OneThread, NEW t \in Thread, LimitCall(t)
    PROVE  LimitInv'
<1>1. gate[t] = "open" /\ UNCHANGED <<conns_in_use_, seen>> /\ pc \in [Thread -> PC]
      /\ gate \in [Thread -> {"open", "check", "load", "store", "unload", "unstore"}]
    BY DEF LimitCall, IInv, TypeOK, LimitInv
<1>2. CASE CallGrab(t) /\ Pass(t, "check")
    <2>1. UNCHANGED <<in_use, torn>> /\ pc' = [pc EXCEPT ![t] = "purge"]
        BY <1>2 DEF CallGrab, Call, Goto, poolVars, envVars
    <2>2. gate' = [gate EXCEPT ![t] = "check"]
        BY <1>2 DEF Pass
    <2>3. gate'[t] = "check" /\ pc'[t] = "purge"
        BY <1>1, <2>1, <2>2
    <2> QED BY <1>1, <2>1, <2>2, <2>3, UsersUnchanged
<1>3. CASE (CallRelease(t) \/ CallRemove(t) \/ CallShrink(t) \/ End(t)) /\ gate' = gate
    <2>1. /\ UNCHANGED <<in_use, torn>>
          /\ \E place \in {"release", "remove", "clear", "ended"} :
                pc' = [pc EXCEPT ![t] = place]
        BY <1>3 DEF CallRelease, CallRemove, CallShrink, Call, End, Goto,
                    poolVars, envVars
    <2>2. pc'[t] \in {"release", "remove", "clear", "ended"} /\ gate'[t] = "open"
        BY <1>1, <1>3, <2>1
    <2> QED BY <1>1, <1>3, <2>1, <2>2, UsersUnchanged
<1> QED BY <1>2, <1>3 DEF LimitCall

LEMMA BaseLimit ==
    ASSUME IInv, LimitInv, OneThread, NEW t \in Thread, BaseStep(t)
    PROVE  LimitInv'
<1>1. /\ gate[t] = "open" /\ UNCHANGED <<conns_in_use_, gate, seen>>
      /\ pc \in [Thread -> PC]
    BY DEF BaseStep, limitVars, IInv, TypeOK
<1>2. CASE Lock(t) \/ FindNone(t) \/ CreateThrows(t) \/ Ping(t)
    <2>1. UNCHANGED <<in_use, torn>>
        BY <1>2 DEF Lock, FindNone, CreateThrows, Ping, poolVars, envVars
    <2>2. pc'[t] \in {"purge", "find", "create"} => pc[t] \in {"purge", "find", "create"}
        BY <1>1, <1>2 DEF Lock, FindNone, CreateThrows, Ping, Goto, InSection
    <2> QED BY <1>1, <2>1, <2>2, UsersUnchanged
<1>3. CASE Purge(t) \/ Clear(t)
    <2>1. in_use' = in_use /\ torn' = torn
        <3>1. PICK S \in SUBSET (pool_ \ in_use) : Erase(S)
            BY <1>3 DEF Purge, Clear, TooOld, Cleared
        <3> QED BY <1>3, <3>1 DEF Purge, Clear, Erase, envVars
    <2>2. pc'[t] \in {"purge", "find", "create"} => pc[t] \in {"purge", "find", "create"}
        BY <1>1, <1>3 DEF Purge, Clear, Goto, InSection
    <2> QED BY <1>1, <2>1, <2>2, UsersUnchanged
<1>4. CASE FindMru(t) \/ Create(t)
    <2>1. PICK c : c \notin in_use /\ in_use' = in_use \cup {c} /\ Return(t, c)
        <3>1. in_use \subseteq heap
            BY DEF IInv, TypeOK, NoDangling
        <3> QED BY <1>4, <3>1 DEF FindMru, Create
    <2>2. /\ mutex_ = t /\ pc[t] \in {"find", "create"} /\ torn' = torn
          /\ \E place \in {"ping", "idle"} : pc' = [pc EXCEPT ![t] = place]
        BY <1>4, <2>1 DEF FindMru, Create, InSection, Return, Goto, envVars
    <2>3. ~torn
        BY <2>2 DEF IInv, SectionOK
    <2>4. pc'[t] \in {"ping", "idle"}
        BY <1>1, <2>2
    <2> QED BY <1>1, <2>1, <2>2, <2>3, <2>4, UserEnters
<1> QED BY <1>2, <1>3, <1>4 DEF BaseStep

(***************************************************************************)
(* release() and remove() take one connection from the thread's own.       *)
(***************************************************************************)
LEMMA LeaveLimit ==
    ASSUME IInv, LimitInv, OneThread, NEW t \in Thread,
           LimitRelease(t) \/ LimitRemove(t)
    PROVE  LimitInv'
<1>1. /\ UNCHANGED <<conns_in_use_, seen, torn>>
      /\ pc[t] \in {"release", "remove"} /\ pc \in [Thread -> PC]
    BY DEF LimitRelease, LimitRemove, Release, Remove, InSection, envVars, IInv, TypeOK
<1>2. arg[t] \in in_use /\ arg[t] \in pool_ /\ ~torn
    <2>1. arg[t] \in held[t]
        BY <1>1 DEF IInv, ArgumentOK
    <2> QED BY <1>1, <2>1 DEF IInv, TypeOK, AllAccounted, SectionOK
<1>3. gate[t] = "open"
    BY <1>1 DEF LimitInv
<1>4. in_use' = in_use \ {arg[t]}
    BY <1>2 DEF LimitRelease, LimitRemove, Release, Remove, Erase
<1>5. CASE LimitRelease(t)
    <2>1. gate' = [gate EXCEPT ![t] = "unload"] /\ pc'[t] = "idle"
        BY <1>1, <1>5 DEF LimitRelease, Release, Pass, Goto
    <2> QED BY <1>1, <1>2, <1>4, <2>1, UserLeaves
<1>6. CASE LimitRemove(t)
    <2>1. \/ gate' = gate /\ pc'[t] = "idle"
          \/ gate' = [gate EXCEPT ![t] = "check"] /\ pc'[t] = "purge"
        BY <1>1, <1>6 DEF LimitRemove, Remove, Pass, Goto
    <2> QED BY <1>1, <1>2, <1>3, <1>4, <2>1, UserLeaves
<1> QED BY <1>5, <1>6

LEMMA StepLimit == OneThread /\ IInv /\ LimitInv /\ [LimitNext]_allVars => LimitInv'
<1> SUFFICES ASSUME OneThread, IInv, LimitInv, [LimitNext]_allVars PROVE LimitInv'
    OBVIOUS
<1>1. ASSUME NEW t \in Thread, LimitCall(t) PROVE LimitInv'
    BY <1>1, CallLimit
<1>2. ASSUME NEW t \in Thread, LimitStep(t) PROVE LimitInv'
    BY <1>2, CountSteps, BaseLimit, LeaveLimit DEF LimitStep
<1>3. CASE Teardown /\ UNCHANGED limitVars
    <2>1. torn' /\ in_use' \subseteq in_use /\ pc' = pc
        BY <1>3 DEF Teardown, Erase
    <2>2. IsFiniteSet(in_use')
        BY <2>1, FS_Subset DEF LimitInv
    <2> QED BY <1>3, <2>1, <2>2 DEF limitVars, LimitInv
<1>4. CASE (Tick \/ Drop \/ Terminated) /\ UNCHANGED limitVars
    <2>1. UNCHANGED <<in_use, torn, pc, conns_in_use_, gate, seen>>
        BY <1>4 DEF Tick, Drop, Terminated, vars, poolVars, envVars, limitVars
    <2> QED BY <2>1 DEF LimitInv, CountedAhead
<1>5. CASE UNCHANGED allVars
    <2>1. UNCHANGED <<in_use, torn, pc, conns_in_use_, gate, seen>>
        BY <1>5 DEF allVars, vars, poolVars, envVars, limitVars
    <2> QED BY <2>1 DEF LimitInv, CountedAhead
<1> QED BY <1>1, <1>2, <1>3, <1>4, <1>5 DEF LimitNext

LEMMA LimitInvariance ==
    ASSUME OneThread
    PROVE  LimitSpec => [](IInv /\ LimitInv)
<1>1. IInv /\ LimitInv /\ [LimitNext]_allVars => LimitInv'
    BY StepLimit
<1> QED BY <1>1, InitLimit, StillExclusive, PTL DEF LimitSpec

(***************************************************************************)
(* In a program with one thread the count is what the overrides take it    *)
(* for: each works on its current value, none wraps, and it is never below *)
(* the connections in use, counted before they are lent.  Failed pings,    *)
(* failing create(), exchange() and remove() leave it too high, never too  *)
(* low.                                                                    *)
(***************************************************************************)
THEOREM CountIsSound ==
    ASSUME OneThread
    PROVE  LimitSpec => []LimitInv
BY LimitInvariance, PTL

(***************************************************************************)
(* So at most one connection more than the limit is in use, at any moment. *)
(***************************************************************************)
THEOREM LimitHolds ==
    ASSUME OneThread
    PROVE  LimitSpec => []LimitKept
<1>1. ASSUME IInv, LimitInv
      PROVE  LimitKept
    <2>1. CASE torn
        <3>1. in_use = {}
            BY <2>1, <1>1 DEF IInv, TypeOK, NoDangling
        <3> QED BY <3>1, FS_EmptySet, LimitAssumption DEF LimitKept
    <2>2. CASE ~torn
        <3>1. /\ Cardinality(in_use) <= conns_in_use_
              /\ conns_in_use_ \in 0 .. Limit + 1
              /\ Cardinality(in_use) \in Nat
            BY <1>1, <2>2, FS_CardinalityType DEF OneThread, LimitInv
        <3> QED BY <3>1, LimitAssumption DEF LimitKept
    <2> QED BY <2>1, <2>2
<1> QED BY <1>1, LimitInvariance, PTL
=============================================================================
