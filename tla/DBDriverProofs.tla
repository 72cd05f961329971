--------------------------- MODULE DBDriverProofs ---------------------------
(***************************************************************************)
(* DBDriver's invariants for any options and any number of connects.       *)
(***************************************************************************)
EXTENDS DBDriver, SequenceTheorems, TLAPS

(***************************************************************************)
(* What is in the lists that the driver's calls make of its two lists.     *)
(***************************************************************************)
LEMMA ElementsOfAppend ==
    ASSUME NEW S, NEW s \in Seq(S), NEW x
    PROVE  Elements(Append(s, x)) = Elements(s) \cup {x}
<1>1. DOMAIN Append(s, x) = 1..(Len(s) + 1) /\ DOMAIN s = 1..Len(s) /\ Len(s) \in Nat
    OBVIOUS
<1>2. \A i \in 1..Len(s) : Append(s, x)[i] = s[i]
    OBVIOUS
<1>3. Append(s, x)[Len(s) + 1] = x
    OBVIOUS
<1>4. ASSUME NEW e \in Elements(Append(s, x)) PROVE e \in Elements(s) \cup {x}
    <2>1. PICK i \in 1..(Len(s) + 1) : e = Append(s, x)[i]
        BY <1>1, <1>4 DEF Elements
    <2>2. CASE i = Len(s) + 1
        BY <1>3, <2>1, <2>2
    <2>3. CASE i \in 1..Len(s)
        BY <1>1, <1>2, <2>1, <2>3 DEF Elements
    <2> QED BY <1>1, <2>2, <2>3
<1>5. ASSUME NEW e \in Elements(s) PROVE e \in Elements(Append(s, x))
    <2>1. PICK i \in 1..Len(s) : e = s[i]
        BY <1>1, <1>5 DEF Elements
    <2>2. i \in DOMAIN Append(s, x) /\ e = Append(s, x)[i]
        BY <1>1, <1>2, <2>1
    <2> QED BY <2>2 DEF Elements
<1>6. x \in Elements(Append(s, x))
    <2>1. Len(s) + 1 \in DOMAIN Append(s, x)
        BY <1>1
    <2> QED BY <1>3, <2>1 DEF Elements
<1> QED BY <1>4, <1>5, <1>6

LEMMA ElementsOfConcat ==
    ASSUME NEW S, NEW s \in Seq(S), NEW t \in Seq(S)
    PROVE  Elements(s \o t) = Elements(s) \cup Elements(t)
<1>1. /\ DOMAIN s = 1..Len(s) /\ Len(s) \in Nat
      /\ DOMAIN t = 1..Len(t) /\ Len(t) \in Nat
      /\ DOMAIN (s \o t) = 1..(Len(s) + Len(t))
    OBVIOUS
<1>2. \A i \in 1..Len(s) : (s \o t)[i] = s[i]
    OBVIOUS
<1>3. \A i \in 1..Len(t) : (s \o t)[Len(s) + i] = t[i]
    OBVIOUS
<1>4. ASSUME NEW e \in Elements(s \o t) PROVE e \in Elements(s) \cup Elements(t)
    <2>1. PICK i \in 1..(Len(s) + Len(t)) : e = (s \o t)[i]
        BY <1>1, <1>4 DEF Elements
    <2>2. CASE i \in 1..Len(s)
        BY <1>1, <1>2, <2>1, <2>2 DEF Elements
    <2>3. CASE i > Len(s)
        <3>1. i - Len(s) \in 1..Len(t) /\ i = Len(s) + (i - Len(s))
            BY <1>1, <2>3
        <3>2. e = t[i - Len(s)]
            BY <1>3, <2>1, <3>1
        <3> QED BY <1>1, <3>1, <3>2 DEF Elements
    <2> QED BY <1>1, <2>2, <2>3
<1>5. ASSUME NEW e \in Elements(s) PROVE e \in Elements(s \o t)
    <2>1. PICK i \in 1..Len(s) : e = s[i]
        BY <1>1, <1>5 DEF Elements
    <2>2. i \in DOMAIN (s \o t) /\ e = (s \o t)[i]
        BY <1>1, <1>2, <2>1
    <2> QED BY <2>2 DEF Elements
<1>6. ASSUME NEW e \in Elements(t) PROVE e \in Elements(s \o t)
    <2>1. PICK i \in 1..Len(t) : e = t[i]
        BY <1>1, <1>6 DEF Elements
    <2>2. Len(s) + i \in DOMAIN (s \o t) /\ e = (s \o t)[Len(s) + i]
        BY <1>1, <1>3, <2>1
    <2> QED BY <2>2 DEF Elements
<1> QED BY <1>4, <1>5, <1>6

LEMMA ElementsOfPrefix ==
    ASSUME NEW S, NEW s \in Seq(S), NEW n \in 0..Len(s)
    PROVE  /\ SubSeq(s, 1, n) \in Seq(S)
           /\ Elements(SubSeq(s, 1, n)) = {s[i] : i \in 1..n}
           /\ Elements(SubSeq(s, 1, n)) \subseteq Elements(s)
           /\ n = Len(s) => Elements(SubSeq(s, 1, n)) = Elements(s)
<1>1. /\ DOMAIN s = 1..Len(s) /\ Len(s) \in Nat /\ n \in Nat
      /\ \A i \in 1..n : i \in 1..Len(s)
    OBVIOUS
<1>2. SubSeq(s, 1, n) \in Seq(S)
    BY <1>1
<1>3. Len(SubSeq(s, 1, n)) = n /\ \A i \in 1..n : SubSeq(s, 1, n)[i] = s[i]
    BY <1>1
<1>4. DOMAIN SubSeq(s, 1, n) = 1..n
    BY <1>2, <1>3
<1>5. Elements(SubSeq(s, 1, n)) = {s[i] : i \in 1..n}
    BY <1>3, <1>4 DEF Elements
<1> QED BY <1>1, <1>2, <1>5 DEF Elements

LEMMA InitInv == Init => IInv
<1> SUFFICES ASSUME Init PROVE IInv
    OBVIOUS
<1>1. Elements(<<>>) = {} /\ NoDuplicates(<<>>) /\ <<>> \in Seq(Option)
    BY DEF Elements, NoDuplicates
<1> QED BY <1>1 DEF Init, IInv, TypeOK, ConnectedDrained, EachIsOwned,
                    FirstConnectPending, FirstConnectApplies

(***************************************************************************)
(* set_option(), while disconnected and while connected.                   *)
(***************************************************************************)
LEMMA QueueOptionInv ==
    ASSUME IInv, NEW o \in Option, QueueOption(o) PROVE IInv'
<1>1. /\ state = "alive" /\ ~is_connected_ /\ o \notin given
      /\ given' = given \cup {o} /\ alive' = alive \cup {o}
      /\ pending_options_' = Append(pending_options_, o)
      /\ wanted' = wanted \cup {o}
      /\ UNCHANGED <<is_connected_, applied_options_, in_force, connects, state>>
    BY DEF QueueOption, Give
<1>2. pending_options_ \in Seq(Option)
    BY DEF IInv, TypeOK
<1>3. Elements(pending_options_)' = Elements(pending_options_) \cup {o}
    BY <1>1, <1>2, ElementsOfAppend
<1>4. NoDuplicates(pending_options_)'
    <2>1. o \notin Elements(pending_options_)
        BY <1>1 DEF IInv, TypeOK
    <2>2. \A i \in 1..Len(pending_options_) : pending_options_[i] # o
        BY <1>2, <2>1 DEF Elements
    <2> QED BY <1>1, <1>2, <2>2 DEF NoDuplicates, IInv, TypeOK
<1>5. TypeOK'
    BY <1>1, <1>2, <1>3, <1>4 DEF IInv, TypeOK
<1>6. ConnectedDrained' /\ EachIsOwned'
    BY <1>1, <1>3 DEF IInv, ConnectedDrained, EachIsOwned
<1>7. FirstConnectPending' /\ FirstConnectApplies'
    BY <1>1, <1>3 DEF IInv, FirstConnectPending, FirstConnectApplies
<1> QED BY <1>5, <1>6, <1>7 DEF IInv

LEMMA SetOptionInv ==
    ASSUME IInv, NEW o \in Option, SetOption(o) PROVE IInv'
<1>1. /\ state = "alive" /\ is_connected_ /\ o \notin given
      /\ given' = given \cup {o} /\ alive' = alive \cup {o}
      /\ applied_options_' = Append(applied_options_, o)
      /\ in_force' = in_force \cup {o} /\ wanted' = wanted \cup {o}
      /\ UNCHANGED <<is_connected_, pending_options_, connects, state>>
    BY DEF SetOption, Give
<1>2. applied_options_ \in Seq(Option)
    BY DEF IInv, TypeOK
<1>3. Elements(applied_options_)' = Elements(applied_options_) \cup {o}
    BY <1>1, <1>2, ElementsOfAppend
<1>4. TypeOK'
    BY <1>1, <1>2, <1>3 DEF IInv, TypeOK
<1>5. ConnectedDrained' /\ EachIsOwned'
    BY <1>1, <1>3 DEF IInv, ConnectedDrained, EachIsOwned
<1>6. FirstConnectPending' /\ FirstConnectApplies'
    BY <1>1 DEF IInv, FirstConnectPending, FirstConnectApplies
<1> QED BY <1>4, <1>5, <1>6 DEF IInv

\* An option that is refused, or taken for the default of one applied before,
\* is deleted within the call.
LEMMA DeletedAtOnceInv ==
    ASSUME IInv, NEW o \in Option, RefuseOption(o) \/ DropDefault(o) PROVE IInv'
<1>1. /\ given' = given \cup {o}
      /\ UNCHANGED <<is_connected_, pending_options_, applied_options_, alive,
                     in_force, wanted, connects, state>>
    BY DEF RefuseOption, DropDefault, Give
<1> QED BY <1>1 DEF IInv, TypeOK, ConnectedDrained, EachIsOwned,
                    FirstConnectPending, FirstConnectApplies

(***************************************************************************)
(* connect().  A prefix of the queue is what the loop got through.         *)
(***************************************************************************)
LEMMA AppliesPrefix ==
    ASSUME TypeOK, NEW n \in 0..Len(pending_options_), Applies(n)
    PROVE  /\ applied_options_' \in Seq(Option)
           /\ Elements(applied_options_)' =
                  Elements(applied_options_)
                      \cup Elements(SubSeq(pending_options_, 1, n))
           /\ Elements(SubSeq(pending_options_, 1, n)) \subseteq Elements(pending_options_)
           /\ n = Len(pending_options_) =>
                  Elements(SubSeq(pending_options_, 1, n)) = Elements(pending_options_)
<1>1. pending_options_ \in Seq(Option) /\ applied_options_ \in Seq(Option)
    BY DEF TypeOK
<1>2. SubSeq(pending_options_, 1, n) \in Seq(Option)
    BY <1>1, ElementsOfPrefix
<1>3. applied_options_' = applied_options_ \o SubSeq(pending_options_, 1, n)
    BY DEF Applies
<1>4. Elements(applied_options_)' =
          Elements(applied_options_) \cup Elements(SubSeq(pending_options_, 1, n))
    BY <1>1, <1>2, <1>3, ElementsOfConcat
<1>5. applied_options_' \in Seq(Option)
    BY <1>1, <1>2, <1>3
<1> QED BY <1>1, <1>4, <1>5, ElementsOfPrefix

LEMMA ConnectInv == ASSUME IInv, Connect PROVE IInv'
<1>1. /\ state = "alive" /\ connects' = connects + 1
      /\ Applies(Len(pending_options_))
      /\ pending_options_' = <<>>
      /\ in_force' = Elements(pending_options_)
      /\ is_connected_' \in BOOLEAN
      /\ wanted' = IF is_connected_ THEN {} ELSE wanted
      /\ UNCHANGED <<alive, given, state>>
    BY DEF Connect, Calling, Wanted
<1>2. Len(pending_options_) \in 0..Len(pending_options_)
    BY DEF IInv, TypeOK
<1>3. /\ applied_options_' \in Seq(Option)
      /\ Elements(applied_options_)' =
             Elements(applied_options_) \cup Elements(pending_options_)
    BY <1>1, <1>2, AppliesPrefix DEF IInv
<1>4. Elements(pending_options_)' = {} /\ NoDuplicates(pending_options_)'
    BY <1>1 DEF Elements, NoDuplicates
<1>5. TypeOK'
    BY <1>1, <1>3, <1>4 DEF IInv, TypeOK
<1>6. ConnectedDrained' /\ EachIsOwned'
    BY <1>1, <1>3 DEF IInv, ConnectedDrained, EachIsOwned
<1>7. FirstConnectPending' /\ FirstConnectApplies'
    BY <1>1 DEF IInv, TypeOK, FirstConnectPending, FirstConnectApplies
<1> QED BY <1>5, <1>6, <1>7 DEF IInv

LEMMA ConnectRefusesOptionInv == ASSUME IInv, ConnectRefusesOption PROVE IInv'
<1>1. PICK n \in 0..(Len(pending_options_) - 1) :
          /\ Applies(n)
          /\ alive' = alive \ {pending_options_[n + 1]}
          /\ wanted' = Wanted \ {pending_options_[n + 1]}
          /\ in_force' = Elements(SubSeq(pending_options_, 1, n))
    BY DEF ConnectRefusesOption
<1>2. /\ state = "alive" /\ connects' = connects + 1 /\ is_connected_' = FALSE
      /\ UNCHANGED <<pending_options_, given, state>>
    BY DEF ConnectRefusesOption, Calling
<1>3. n \in 0..Len(pending_options_)
    BY DEF IInv, TypeOK
<1>4. /\ applied_options_' \in Seq(Option)
      /\ Elements(applied_options_)' = Elements(applied_options_) \cup in_force'
      /\ in_force' \subseteq Elements(pending_options_)
    BY <1>1, <1>3, AppliesPrefix DEF IInv
<1>5. TypeOK'
    <2>1. alive' \subseteq given' /\ wanted' \subseteq given' /\ connects' \in Nat
        BY <1>1, <1>2 DEF IInv, TypeOK, Wanted
    <2>2. Elements(pending_options_)' \cup Elements(applied_options_)' \subseteq given'
        BY <1>2, <1>4 DEF IInv, TypeOK
    <2>3. NoDuplicates(pending_options_)'
        BY <1>2 DEF IInv, TypeOK, NoDuplicates
    <2> QED BY <1>2, <1>4, <2>1, <2>2, <2>3 DEF IInv, TypeOK
<1>6. ConnectedDrained' /\ EachIsOwned'
    BY <1>1, <1>2, <1>4 DEF IInv, ConnectedDrained, EachIsOwned
<1>7. FirstConnectPending' /\ FirstConnectApplies'
    BY <1>2 DEF IInv, TypeOK, FirstConnectPending, FirstConnectApplies
<1> QED BY <1>5, <1>6, <1>7 DEF IInv

LEMMA ConnectUsesDeletedInv == ASSUME IInv, ConnectUsesDeleted PROVE IInv'
<1>1. PICK n \in 0..(Len(pending_options_) - 1) : Applies(n)
    BY DEF ConnectUsesDeleted
<1>2. /\ connects' = connects + 1 /\ state' = "corrupted"
      /\ UNCHANGED <<is_connected_, pending_options_, alive, given, in_force, wanted>>
    BY DEF ConnectUsesDeleted, Calling
<1>3. n \in 0..Len(pending_options_) /\ pending_options_ # <<>>
    BY DEF IInv, TypeOK
<1>4. /\ applied_options_' \in Seq(Option)
      /\ Elements(applied_options_)' \subseteq
             Elements(applied_options_) \cup Elements(pending_options_)
    BY <1>1, <1>3, AppliesPrefix DEF IInv
<1>5. ~is_connected_
    BY <1>3 DEF IInv, ConnectedDrained
<1>6. TypeOK'
    BY <1>2, <1>4 DEF IInv, TypeOK
<1>7. ConnectedDrained' /\ EachIsOwned'
    BY <1>2, <1>5 DEF ConnectedDrained, EachIsOwned
<1>8. FirstConnectPending' /\ FirstConnectApplies'
    BY <1>2, <1>5 DEF IInv, TypeOK, FirstConnectPending, FirstConnectApplies
<1> QED BY <1>6, <1>7, <1>8 DEF IInv

(***************************************************************************)
(* disconnect() and the destructor.                                        *)
(***************************************************************************)
LEMMA DisconnectInv == ASSUME IInv, Disconnect PROVE IInv'
BY DEF Disconnect, IInv, TypeOK, ConnectedDrained, EachIsOwned,
       FirstConnectPending, FirstConnectApplies

LEMMA DestroyInv == ASSUME IInv, Destroy PROVE IInv'
<1>1. state' \in {"destroyed", "corrupted"}
    BY DEF Destroy
<1>2. /\ is_connected_' = FALSE /\ in_force' = {} /\ wanted' = {}
      /\ alive' = alive \ Elements(applied_options_)
      /\ UNCHANGED <<pending_options_, applied_options_, given, connects>>
    BY DEF Destroy
<1> QED BY <1>1, <1>2 DEF IInv, TypeOK, ConnectedDrained, EachIsOwned,
                          FirstConnectPending, FirstConnectApplies

LEMMA StepInv == IInv /\ [Next]_vars => IInv'
<1> SUFFICES ASSUME IInv, [Next]_vars PROVE IInv'
    OBVIOUS
<1>1. CASE UNCHANGED vars
    BY <1>1 DEF IInv, TypeOK, ConnectedDrained, EachIsOwned, FirstConnectPending,
                FirstConnectApplies, Elements, NoDuplicates, vars
<1> QED BY <1>1, QueueOptionInv, SetOptionInv, DeletedAtOnceInv, ConnectInv,
           ConnectRefusesOptionInv, ConnectUsesDeletedInv, DisconnectInv,
           DestroyInv DEF Next, Stopped

(***************************************************************************)
(* The driver owns every option it has not deleted, whatever connect() got *)
(* through, and nothing waits in the queue while it is connected.          *)
(***************************************************************************)
THEOREM OptionsAreOwned == Spec => []IInv
BY InitInv, StepInv, PTL DEF Spec

(***************************************************************************)
(* If the first connect() succeeds, no option that was accepted is lost.   *)
(***************************************************************************)
THEOREM FirstConnectLosesNothing == Spec => []FirstConnectApplies
BY OptionsAreOwned, PTL DEF IInv
=============================================================================
