-------------------------- MODULE InsertFromProofs --------------------------
(***************************************************************************)
(* InsertFrom's invariants, for any policies, containers and header.       *)
(***************************************************************************)
EXTENDS InsertFrom, NaturalsInduction, WellFoundedInduction, TLAPS

(***************************************************************************)
(* Sums: the function that Length is defined with exists.  A least n for   *)
(* which there were none would have one before it to extend.               *)
(***************************************************************************)
SumsTo(a, n, f) == \A k \in 0..n : f[k] = IF k = 0 THEN 0 ELSE f[k - 1] + a[k]
Summable(a, n) == \E f \in [0..n -> Int] : SumsTo(a, n, f)

\* The sums of row lengths exist: there is no least number of rows without.
LEMMA SumsExist ==
    ASSUME NEW N \in Nat, NEW a \in [1..N -> Int]
    PROVE  Summable(a, N)
<1> DEFINE Bad == {n \in 0..N : ~Summable(a, n)}
<1>1. SUFFICES ASSUME ~Summable(a, N) PROVE FALSE
    OBVIOUS
<1>2. N \in Bad /\ Bad \subseteq Nat
    BY <1>1
<1>3. PICK n \in Bad : \A m \in Bad : ~(<<m, n>> \in OpToRel(<, Nat))
    <2> HIDE DEF Bad
    <2> QED BY <1>2, NatLessThanWellFounded, WFMin
<1>4. n \in 0..N /\ ~Summable(a, n)
    OBVIOUS
<1>5. CASE n = 0
    <2>1. SumsTo(a, 0, [k \in 0..0 |-> 0])
        BY DEF SumsTo
    <2> QED BY <1>4, <1>5, <2>1 DEF Summable
<1>6. CASE n # 0
    <2>1. n - 1 \in 0..N /\ <<n - 1, n>> \in OpToRel(<, Nat)
        BY <1>4, <1>6 DEF OpToRel
    <2>2. Summable(a, n - 1)
        BY <1>3, <2>1
    <2>3. PICK f \in [0..(n - 1) -> Int] : SumsTo(a, n - 1, f)
        BY <2>2 DEF Summable
    <2> DEFINE g == [k \in 0..n |-> IF k = n THEN f[n - 1] + a[n] ELSE f[k]]
    <2>4. g \in [0..n -> Int]
        BY <1>4, <1>6
    <2>5. ASSUME NEW k \in 0..n PROVE g[k] = IF k = 0 THEN 0 ELSE g[k - 1] + a[k]
        <3>1. CASE k = n
            BY <1>4, <1>6, <3>1
        <3>2. CASE k # n
            <4>1. f[k] = IF k = 0 THEN 0 ELSE f[k - 1] + a[k]
                BY <1>4, <2>3, <3>2 DEF SumsTo
            <4> QED BY <1>4, <3>2, <4>1
        <3> QED BY <3>1, <3>2
    <2>6. SumsTo(a, n, g)
        BY <2>5 DEF SumsTo
    <2> QED BY <1>4, <2>4, <2>6 DEF Summable
<1> QED BY <1>5, <1>6

\* And it is the only one, also for a longer list that begins in the same way.
AgreeTo(b, a, n) == \A k \in 1..n : b[k] = a[k]

\* And are determined by the rows: there is no least one where two differ.
LEMMA SumsAgree ==
    ASSUME NEW N \in Nat, NEW a, NEW f, SumsTo(a, N, f),
           NEW M \in Nat, N <= M, NEW b, NEW g, SumsTo(b, M, g),
           AgreeTo(b, a, N)
    PROVE  \A k \in 0..N : g[k] = f[k]
<1> DEFINE Bad == {k \in 0..N : g[k] # f[k]}
<1>1. SUFFICES ASSUME Bad # {} PROVE FALSE
    OBVIOUS
<1>2. PICK n \in Bad : \A m \in Bad : ~(<<m, n>> \in OpToRel(<, Nat))
    <2>1. Bad \subseteq Nat
        OBVIOUS
    <2> HIDE DEF Bad
    <2> QED BY <1>1, <2>1, NatLessThanWellFounded, WFMin
<1>3. n \in 0..N /\ g[n] # f[n]
    OBVIOUS
<1>4. n # 0
    BY <1>3 DEF SumsTo
<1>5. n - 1 \in 0..N /\ <<n - 1, n>> \in OpToRel(<, Nat)
    BY <1>3, <1>4 DEF OpToRel
<1>6. g[n - 1] = f[n - 1]
    BY <1>2, <1>5
<1>7. /\ f[n] = f[n - 1] + a[n]
      /\ g[n] = g[n - 1] + b[n]
      /\ b[n] = a[n]
    BY <1>3, <1>4 DEF SumsTo, AgreeTo
<1> QED BY <1>3, <1>6, <1>7

\* The sum of a list, and of what it becomes by one more element.
HasSum(a, n, v) == \E f \in [0..n -> Int] : SumsTo(a, n, f) /\ v = f[n]

LEMMA SumGrows ==
    ASSUME NEW N \in Nat, NEW a, NEW v, HasSum(a, N, v),
           NEW M, M = N + 1, NEW b, NEW w, HasSum(b, M, w), AgreeTo(b, a, N)
    PROVE  w = v + b[M] /\ v \in Int
<1>1. PICK f \in [0..N -> Int] : SumsTo(a, N, f) /\ v = f[N]
    BY DEF HasSum
<1>2. PICK g \in [0..M -> Int] : SumsTo(b, M, g) /\ w = g[M]
    BY DEF HasSum
<1>3. M \in Nat /\ N <= M /\ N \in 0..N /\ M \in 0..M /\ M # 0 /\ M - 1 = N
    OBVIOUS
<1>4. \A k \in 0..N : g[k] = f[k]
    BY <1>1, <1>2, <1>3, SumsAgree
<1>5. g[M] = g[N] + b[M]
    BY <1>2, <1>3 DEF SumsTo
<1> QED BY <1>1, <1>2, <1>3, <1>4, <1>5

LEMMA LengthIsSum ==
    ASSUME NEW c \in Seq(Nat), NEW s \in Seq(DOMAIN c)
    PROVE  HasSum([i \in 1..Len(s) |-> Part(c, s, i)], Len(s), LengthIn(c, s))
<1> DEFINE a == [i \in 1..Len(s) |-> Part(c, s, i)]
           IsUpTo(f) == f = [n \in 0..Len(s) |-> IF n = 0 THEN 0 ELSE f[n - 1] + Part(c, s, n)]
           upTo == CHOOSE f : IsUpTo(f)
<1>1. /\ Len(s) \in Nat /\ \A i \in 1..Len(s) : s[i] \in DOMAIN c
      /\ \A d \in DOMAIN c : c[d] \in Nat
    OBVIOUS
<1>2. ASSUME NEW i \in 1..Len(s) PROVE Part(c, s, i) \in Int
    <2>1. c[s[i]] \in Int
        BY <1>1
    <2>2. (IF i = 1 THEN Header + 1 ELSE 3) \in Int
        BY HeaderAssumption
    <2> QED BY <2>1, <2>2 DEF Part
<1>3. a \in [1..Len(s) -> Int]
    BY <1>2
<1>4. PICK f \in [0..Len(s) -> Int] : SumsTo(a, Len(s), f)
    <2> HIDE DEF a
    <2> QED BY <1>1, <1>3, SumsExist DEF Summable
<1>5. ASSUME NEW n \in 0..Len(s), n # 0 PROVE a[n] = Part(c, s, n)
    BY <1>1, <1>5
<1>6. \A n \in 0..Len(s) : f[n] = IF n = 0 THEN 0 ELSE f[n - 1] + Part(c, s, n)
    <2> HIDE DEF a
    <2> QED BY <1>4, <1>5 DEF SumsTo
<1>7. IsUpTo(f)
    BY <1>6
<1>8. IsUpTo(upTo)
    <2> HIDE DEF IsUpTo
    <2> QED BY <1>7
<1>9. LengthIn(c, s) = upTo[Len(s)]
    BY DEF LengthIn
<1>10. \A n \in 0..Len(s) : upTo[n] = IF n = 0 THEN 0 ELSE upTo[n - 1] + Part(c, s, n)
    <2> HIDE DEF upTo
    <2> QED BY <1>8
<1>11. SumsTo(a, Len(s), upTo)
    <2> HIDE DEF a, upTo
    <2> QED BY <1>5, <1>10 DEF SumsTo
<1>12. upTo[Len(s)] = f[Len(s)]
    <2> HIDE DEF a, upTo
    <2>1. PICK n \in Nat : n = Len(s)
        BY <1>1
    <2>2. SumsTo(a, n, f) /\ SumsTo(a, n, upTo) /\ AgreeTo(a, a, n)
        BY <1>4, <1>11, <2>1 DEF AgreeTo
    <2>3. \A k \in 0..n : upTo[k] = f[k]
        <3>1. n <= n
            OBVIOUS
        <3> QED BY <2>2, <3>1, SumsAgree
    <2>4. n \in 0..n
        OBVIOUS
    <2> QED BY <2>1, <2>3, <2>4
<1> HIDE DEF a, upTo
<1>13. HasSum(a, Len(s), LengthIn(c, s))
    BY <1>4, <1>9, <1>12 DEF HasSum
<1> QED BY <1>13 DEF a

(***************************************************************************)
(* The length of a statement, and of what it becomes by one more row.      *)
(***************************************************************************)
LEMMA LengthType ==
    ASSUME NEW c \in Seq(Nat), NEW s \in Seq(DOMAIN c)
    PROVE  LengthIn(c, s) \in Int
<1>1. PICK f \in [0..Len(s) -> Int] : LengthIn(c, s) = f[Len(s)]
    BY LengthIsSum DEF HasSum
<1>2. Len(s) \in 0..Len(s)
    OBVIOUS
<1> QED BY <1>1, <1>2

LEMMA LengthOfAppend ==
    ASSUME NEW c \in Seq(Nat), NEW s \in Seq(DOMAIN c), s # <<>>,
           NEW r \in DOMAIN c
    PROVE  LengthIn(c, Append(s, r)) = LengthIn(c, s) + c[r] + 3
<1>1. PICK n \in Nat : n = Len(s) /\ n # 0
    OBVIOUS
<1>2. PICK t \in Seq(DOMAIN c) : t = Append(s, r)
    <2>1. Append(s, r) \in Seq(DOMAIN c)
        OBVIOUS
    <2> QED BY <2>1
<1>3. Len(t) = n + 1 /\ t[n + 1] = r /\ \A i \in 1..n : t[i] = s[i]
    BY <1>1, <1>2
<1>4. PICK a : a = [i \in 1..n |-> Part(c, s, i)]
    OBVIOUS
<1>5. PICK b : b = [i \in 1..(n + 1) |-> Part(c, t, i)]
    OBVIOUS
<1>6. HasSum(a, n, LengthIn(c, s))
    BY <1>1, <1>4, LengthIsSum
<1>7. HasSum(b, n + 1, LengthIn(c, t))
    BY <1>3, <1>5, LengthIsSum
<1>8. ASSUME NEW k \in 1..n PROVE b[k] = a[k]
    <2>1. k \in 1..(n + 1)
        OBVIOUS
    <2>2. t[k] = s[k]
        BY <1>3
    <2>3. Part(c, t, k) = Part(c, s, k)
        BY <2>2 DEF Part
    <2> QED BY <1>4, <1>5, <2>1, <2>3
<1>9. b[n + 1] = c[r] + 3
    <2>1. n + 1 \in 1..(n + 1) /\ n + 1 # 1
        BY <1>1
    <2>2. Part(c, t, n + 1) = c[r] + 3
        BY <1>3, <2>1 DEF Part
    <2> QED BY <1>5, <2>1, <2>2
<1>10. LengthIn(c, t) = LengthIn(c, s) + b[n + 1]
    <2>1. AgreeTo(b, a, n)
        BY <1>8 DEF AgreeTo
    <2>2. PICK m : m = n + 1
        OBVIOUS
    <2>3. HasSum(b, m, LengthIn(c, t))
        BY <1>7, <2>2
    <2>4. LengthIn(c, t) = LengthIn(c, s) + b[m]
        BY <1>6, <2>1, <2>2, <2>3, SumGrows
    <2> QED BY <2>2, <2>4
<1>11. c[r] \in Int
    OBVIOUS
<1> QED BY <1>2, <1>9, <1>10, <1>11, LengthType

LEMMA FrontOfAppend ==
    ASSUME NEW S, NEW s \in Seq(S), NEW r \in S
    PROVE  /\ Len(Append(s, r)) = Len(s) + 1
           /\ Front(Append(s, r)) = s
BY DEF Front

(***************************************************************************)
(* Runs of rows.                                                           *)
(***************************************************************************)
LEMMA RunOfRows ==
    ASSUME NEW r \in Nat, NEW n \in Nat, NEW s \in Seq(Nat), Run(s, r, n)
    PROVE  /\ r <= n /\ Len(s) = n - r
           /\ \A i \in 1..Len(s) : s[i] = r + i - 1
           /\ s # <<>> => r < n /\ Last(s) = n - 1
           /\ s = <<>> => r = n
<1>1. r <= n /\ n - r \in Nat /\ s = [i \in 1..(n - r) |-> r + i - 1]
    BY DEF Run
<1>2. Len(s) = n - r /\ \A i \in 1..Len(s) : s[i] = r + i - 1
    BY <1>1
<1>3. ASSUME s # <<>> PROVE r < n /\ Last(s) = n - 1
    <2>1. Len(s) \in Nat /\ Len(s) # 0
        BY <1>3
    <2>2. n - r # 0 /\ s[n - r] = n - 1
        BY <1>1, <1>2, <2>1
    <2> QED BY <1>1, <1>2, <2>2 DEF Last
<1>4. s = <<>> => r = n
    BY <1>1, <1>2
<1> QED BY <1>1, <1>2, <1>3, <1>4

LEMMA RunGrows ==
    ASSUME NEW r \in Nat, NEW n \in Nat, NEW s \in Seq(Nat), Run(s, r, n)
    PROVE  Run(Append(s, n), r, n + 1)
<1>1. PICK t \in Seq(Nat) : t = Append(s, n)
    <2>1. Append(s, n) \in Seq(Nat)
        OBVIOUS
    <2> QED BY <2>1
<1>2. PICK m \in Nat : m = n - r /\ r <= n /\ Len(s) = m
    BY RunOfRows
<1>3. Len(t) = m + 1 /\ t[m + 1] = n /\ \A i \in 1..m : t[i] = s[i]
    BY <1>1, <1>2
<1>4. ASSUME NEW i \in 1..(m + 1) PROVE t[i] = r + i - 1
    <2>1. i \in 1..m => s[i] = r + i - 1
        BY <1>2, RunOfRows
    <2> QED BY <1>2, <1>3, <2>1
<1>5. t = [i \in 1..(m + 1) |-> r + i - 1]
    BY <1>3, <1>4
<1>6. m + 1 = (n + 1) - r /\ r <= n + 1
    BY <1>2
<1> QED BY <1>1, <1>5, <1>6 DEF Run

LEMMA Positions ==
    ASSUME NEW c \in Seq(Nat), NEW s \in Seq(DOMAIN c)
    PROVE  s \in Seq(Nat)
<1>1. DOMAIN c \subseteq Nat
    OBVIOUS
<1>2. Len(s) \in Nat /\ s = [i \in 1..Len(s) |-> s[i]] /\ \A i \in 1..Len(s) : s[i] \in Nat
    BY <1>1
<1> QED BY <1>2

LEMMA RunOfNone == ASSUME NEW n \in Nat PROVE Run(<<>>, n, n)
<1>1. n - n = 0 /\ <<>> = [i \in 1..0 |-> n + i - 1]
    OBVIOUS
<1> QED BY <1>1 DEF Run

(***************************************************************************)
(* What the provers need of the types, conjunct by conjunct.               *)
(***************************************************************************)
LEMMA Typed ==
    ASSUME TypeOK
    PROVE  /\ setup.policy.kind \in {"RowCount", "SizeThreshold", "MaxPacket"}
           /\ Limit \in Nat
           /\ setup.transactions \in BOOLEAN /\ setup.connThrows \in BOOLEAN
           /\ setup.queryThrows \in BOOLEAN
           /\ rows \in Seq(Nat) /\ Len(rows) \in Nat /\ DOMAIN rows = 1..Len(rows)
           /\ it \in Nat /\ 1 <= it /\ it <= Len(rows) + 1
           /\ buffer \in Seq(DOMAIN rows) /\ buffer \in Seq(Nat) /\ Len(buffer) \in Nat
           /\ sent \in Seq(Seq(DOMAIN rows)) /\ Len(sent) \in Nat
           /\ success \in BOOLEAN /\ finished_ \in BOOLEAN /\ open \in BOOLEAN
           /\ copacetic_ \in BOOLEAN
           /\ cur_rows_ \in Nat /\ cur_rows_ <= Limit
           /\ calls \in Nat
           /\ Length(buffer) \in Int
<1>1. setup.policy \in Policies
    BY DEF TypeOK
<1>2. Limit \in Nat /\ setup.policy.kind \in {"RowCount", "SizeThreshold", "MaxPacket"}
    BY <1>1, PoliciesAssumption DEF Limit
<1>3. rows \in Seq(Nat) /\ buffer \in Seq(DOMAIN rows) /\ buffer \in Seq(Nat)
    BY Positions DEF TypeOK
<1>4. Length(buffer) \in Int
    BY <1>3, LengthType DEF Length
<1>5. /\ setup.transactions \in BOOLEAN /\ setup.connThrows \in BOOLEAN
      /\ setup.queryThrows \in BOOLEAN
    BY DEF TypeOK
<1>6. /\ success \in BOOLEAN /\ finished_ \in BOOLEAN /\ open \in BOOLEAN
      /\ copacetic_ \in BOOLEAN
    BY DEF TypeOK
<1>7. /\ cur_rows_ \in Nat /\ cur_rows_ <= Limit
      /\ it \in Nat /\ 1 <= it /\ it <= Len(rows) + 1
    BY <1>2, <1>3 DEF TypeOK
<1>8. /\ Len(rows) \in Nat /\ DOMAIN rows = 1..Len(rows) /\ Len(buffer) \in Nat
      /\ sent \in Seq(Seq(DOMAIN rows)) /\ Len(sent) \in Nat /\ calls \in Nat
    BY <1>3 DEF TypeOK
<1> QED BY <1>2, <1>3, <1>4, <1>5, <1>6, <1>7, <1>8

LEMMA ReachedType ==
    ASSUME TypeOK, EachRowOnce, NEW k \in 0..Len(sent)
    PROVE  Reached(sent, k) \in Nat /\ Reached(sent, k) >= 1
<1>1. CASE k = 0
    BY <1>1 DEF Reached
<1>2. CASE k # 0
    <2>1. k \in DOMAIN sent /\ sent[k] \in Seq(DOMAIN rows) /\ rows \in Seq(Nat)
        BY <1>2, Typed
    <2>2. sent[k] \in Seq(Nat) /\ sent[k] # <<>>
        BY <2>1, Positions DEF EachRowOnce
    <2>3. Len(sent[k]) \in 1..Len(sent[k]) /\ Last(sent[k]) \in Nat
        BY <2>2 DEF Last
    <2> QED BY <1>2, <2>3 DEF Reached
<1> QED BY <1>1, <1>2

LEMMA ReachedNow ==
    ASSUME TypeOK, EachRowOnce
    PROVE  \E r \in Nat :
              /\ r = Reached(sent, Len(sent)) /\ Run(buffer, r, it)
              /\ 1 <= r /\ r <= it /\ Len(buffer) = it - r
              /\ \A i \in 1..Len(buffer) : buffer[i] = r + i - 1
              /\ buffer # <<>> => Last(buffer) = it - 1
              /\ buffer = <<>> => r = it
<1>1. Len(sent) \in 0..Len(sent)
    BY Typed
<1>2. PICK r \in Nat : r = Reached(sent, Len(sent)) /\ 1 <= r
    BY <1>1, ReachedType
<1>3. Run(buffer, r, it) /\ it \in Nat /\ buffer \in Seq(Nat)
    BY <1>2, Typed DEF EachRowOnce
<1>4. /\ r <= it /\ Len(buffer) = it - r
      /\ \A i \in 1..Len(buffer) : buffer[i] = r + i - 1
      /\ buffer # <<>> => Last(buffer) = it - 1
      /\ buffer = <<>> => r = it
    BY <1>3, RunOfRows
<1> QED BY <1>2, <1>3, <1>4

(***************************************************************************)
(* The part of the invariant that is about the statements.                 *)
(***************************************************************************)
Statements == EachRowOnce /\ RowCountKept /\ ThresholdKept /\ PacketsKept /\ BufferKept

\* It stays when no row is added and no statement sent, if the loop goes on
\* only with the same count of rows or with none in the buffer.
LEMMA StatementsStay ==
    ASSUME IInv, UNCHANGED <<setup, rows, it, buffer, sent>>, cur_rows_' \in Nat,
           Looping' => /\ Looping \/ pc = "begin"
                       /\ cur_rows_' = cur_rows_ \/ buffer = <<>>
    PROVE  Statements'
<1>1. TypeOK /\ Position /\ Statements
    BY DEF IInv, Statements
<1>2. EachRowOnce'
    BY <1>1 DEF Statements, EachRowOnce, Reached
<1>3. RowCountKept' /\ PacketsKept'
    BY <1>1 DEF Statements, RowCountKept, PacketsKept, Fits, Length, Limit
<1>4. ThresholdKept'
    BY <1>1 DEF Statements, ThresholdKept, Full, NotFullBefore, Length, Limit
<1>5. BufferKept'
    <2>1. CASE setup.policy.kind = "RowCount"
        <3>1. Looping' => Len(buffer) <= cur_rows_'
            BY <1>1, <2>1, Typed DEF Statements, BufferKept, Position
        <3> QED BY <2>1, <3>1 DEF BufferKept
    <2>2. CASE setup.policy.kind = "SizeThreshold"
        <3>1. Looping' => \A k \in DOMAIN sent : Full(sent[k])
            BY <1>1, <2>2 DEF Statements, BufferKept, Position
        <3>2. buffer # <<>> => NotFullBefore(buffer)
            BY <1>1, <2>2 DEF Statements, BufferKept
        <3> QED BY <2>2, <3>1, <3>2 DEF BufferKept, Full, NotFullBefore, Length, Limit
    <2>3. CASE setup.policy.kind = "MaxPacket"
        BY <1>1, <2>3 DEF Statements, BufferKept, Fits, Length, Limit
    <2> QED BY <1>1, <2>1, <2>2, <2>3, Typed
<1> QED BY <1>2, <1>3, <1>4, <1>5 DEF Statements

\* A row goes where the run of the buffer ends.
LEMMA AddStatements ==
    ASSUME IInv, Looping, it <= Len(rows), AddRow("loop")
    PROVE  Statements'
<1>1. /\ TypeOK /\ Statements
      /\ CanAdd(buffer) /\ cur_rows_' = Counted(TRUE)
      /\ buffer' = Append(buffer, it) /\ it' = it + 1 /\ pc' = "loop"
      /\ UNCHANGED <<setup, rows, sent>>
    BY DEF IInv, Statements, AddRow
<1>2. it \in DOMAIN rows
    BY <1>1, Typed
<1>3. Front(buffer') = buffer /\ Len(buffer') = Len(buffer) + 1
    BY <1>1, <1>2, Typed, FrontOfAppend
<1>4. EachRowOnce'
    <2>1. PICK r : r = Reached(sent, Len(sent))
        OBVIOUS
    <2>2. r \in Nat /\ Run(buffer, r, it)
        BY <1>1, <2>1, Typed, ReachedType DEF Statements, EachRowOnce
    <2>3. Run(buffer', r, it')
        BY <1>1, <2>2, Typed, RunGrows
    <2> QED BY <1>1, <2>1, <2>3 DEF Statements, EachRowOnce, Reached
<1>5. RowCountKept' /\ PacketsKept'
    BY <1>1 DEF Statements, RowCountKept, PacketsKept, Fits, Length, Limit
<1>6. ThresholdKept' /\ BufferKept'
    <2>1. CASE setup.policy.kind = "RowCount"
        <3>1. cur_rows_' = cur_rows_ + 1 /\ Len(buffer) <= cur_rows_
            BY <1>1, <2>1 DEF Counted, Statements, BufferKept
        <3>2. Len(buffer') <= cur_rows_'
            <4>1. cur_rows_ \in Nat /\ Len(buffer) \in Nat
                BY <1>1, Typed
            <4> QED BY <1>3, <3>1, <4>1
        <3> QED BY <1>1, <2>1, <3>2 DEF ThresholdKept, BufferKept
    <2>2. CASE setup.policy.kind = "SizeThreshold"
        <3>1. \A k \in DOMAIN sent : Full(sent[k]) /\ NotFullBefore(sent[k])
            BY <1>1, <2>2 DEF Statements, BufferKept, ThresholdKept
        <3>2. Length(buffer) <= Limit - 1
            BY <1>1, <2>2, Typed DEF CanAdd, ThresholdAllows
        <3> QED BY <1>1, <1>3, <2>2, <3>1, <3>2
                DEF ThresholdKept, BufferKept, Full, NotFullBefore, Length, Limit
    <2>3. CASE setup.policy.kind = "MaxPacket"
        <3>1. Length(buffer) + rows[it] + 3 <= Limit
            BY <1>1, <2>3 DEF CanAdd, PacketAllows
        <3>2. buffer # <<>> => LengthIn(rows, Append(buffer, it)) <= Limit
            BY <1>1, <1>2, <3>1, Typed, LengthOfAppend DEF Length
        <3>3. buffer = <<>> => Len(Append(buffer, it)) = 1
            OBVIOUS
        <3> QED BY <1>1, <2>3, <3>2, <3>3 DEF ThresholdKept, BufferKept, Fits, Length, Limit
    <2> QED BY <1>1, <2>1, <2>2, <2>3, Typed
<1> QED BY <1>4, <1>5, <1>6 DEF Statements

\* The statement sent is the run of rows up to it.
LEMMA ExecuteStatements ==
    ASSUME IInv, pc = "loop", buffer # <<>>, UNCHANGED <<setup, rows, it>>,
           cur_rows_' \in Nat, NEW next \in {"retry", "finish"}, Execute(next),
           next = "retry" => ~CanAdd(buffer), next = "finish" => it > Len(rows)
    PROVE  /\ Statements'
           /\ Reached(sent', Len(sent')) = it
<1>1. /\ TypeOK /\ Statements
      /\ sent' = Append(sent, buffer) /\ buffer' = <<>> /\ pc' = next
    BY DEF IInv, Statements, Execute
<1>2. PICK n \in Nat : n = Len(sent)
    BY <1>1, Typed
<1>3. /\ Len(sent') = n + 1 /\ sent'[n + 1] = buffer /\ DOMAIN sent' = 1..(n + 1)
      /\ \A k \in 1..n : sent'[k] = sent[k]
    BY <1>1, <1>2, Typed
<1>4. PICK r \in Nat :
          r = Reached(sent, n) /\ Run(buffer, r, it) /\ Last(buffer) = it - 1
    BY <1>1, <1>2, ReachedNow DEF Statements
<1>5. Reached(sent', n + 1) = it /\ \A k \in 0..n : Reached(sent', k) = Reached(sent, k)
    <2>1. it \in Nat
        BY <1>1, Typed
    <2>2. Last(buffer) + 1 = it /\ n + 1 # 0
        BY <1>4, <2>1
    <2> QED BY <1>3, <2>2 DEF Reached
<1>6. EachRowOnce'
    <2>1. ASSUME NEW k \in 1..n
          PROVE  sent'[k] # <<>> /\ Run(sent'[k], Reached(sent', k - 1), Reached(sent', k))
        <3>1. k \in 0..n /\ k - 1 \in 0..n /\ k \in DOMAIN sent
            BY <1>1, <1>2, Typed
        <3>2. sent[k] # <<>> /\ Run(sent[k], Reached(sent, k - 1), Reached(sent, k))
            BY <1>1, <3>1 DEF Statements, EachRowOnce
        <3> QED BY <1>3, <1>5, <3>1, <3>2
    <2>2. Run(sent'[n + 1], Reached(sent', n), Reached(sent', n + 1))
        <3>1. Reached(sent', n) = r
            BY <1>4, <1>5
        <3> QED BY <1>3, <1>4, <1>5, <3>1
    <2>3. Run(<<>>, it, it)
        BY <1>1, Typed, RunOfNone
    <2>4. \A k \in 1..(n + 1) :
              sent'[k] # <<>> /\ Run(sent'[k], Reached(sent', k - 1), Reached(sent', k))
        <3>1. sent'[n + 1] # <<>> /\ (n + 1) - 1 = n
            BY <1>1, <1>3
        <3>2. \A k \in 1..(n + 1) : k \in 1..n \/ k = n + 1
            OBVIOUS
        <3> QED BY <2>1, <2>2, <3>1, <3>2
    <2> QED BY <1>1, <1>3, <1>5, <2>3, <2>4 DEF EachRowOnce
<1>7. RowCountKept'
    <2>1. ASSUME setup.policy.kind = "RowCount" PROVE Len(buffer) <= Limit
        BY <1>1, <2>1, Typed DEF Statements, BufferKept, Looping
    <2> QED BY <1>1, <1>3, <2>1 DEF Statements, RowCountKept, Limit
<1>8. PacketsKept'
    <2>1. ASSUME setup.policy.kind = "MaxPacket" PROVE Fits(buffer)
        BY <1>1, <2>1 DEF Statements, BufferKept
    <2> QED BY <1>1, <1>3, <2>1 DEF Statements, PacketsKept, Fits, Length, Limit
<1>9. ASSUME setup.policy.kind = "SizeThreshold"
       PROVE  /\ \A k \in 1..n : Full(sent[k]) /\ NotFullBefore(sent[k])
              /\ NotFullBefore(buffer)
              /\ next = "retry" => Full(buffer)
    <2>1. \A k \in 1..n : Full(sent[k]) /\ NotFullBefore(sent[k])
        BY <1>1, <1>2, <1>9, Typed DEF Statements, BufferKept, ThresholdKept, Looping
    <2>2. NotFullBefore(buffer)
        BY <1>1, <1>9 DEF Statements, BufferKept
    <2>3. next = "retry" => Full(buffer)
        BY <1>1, <1>9, Typed DEF CanAdd, ThresholdAllows, Full
    <2> QED BY <2>1, <2>2, <2>3
<1>10. ThresholdKept'
    <2>1. CASE setup.policy.kind # "SizeThreshold"
        BY <2>1 DEF ThresholdKept
    <2>2. CASE setup.policy.kind = "SizeThreshold"
        <3>1. ASSUME NEW k \in 1..(n + 1)
              PROVE  /\ k < n + 1 \/ it <= Len(rows) => Full(sent'[k])
                     /\ NotFullBefore(sent'[k])
            <4>1. CASE k = n + 1
                <5>1. sent'[k] = buffer /\ NotFullBefore(buffer) /\ ~(k < n + 1)
                    BY <1>3, <1>9, <2>2, <4>1
                <5>2. it <= Len(rows) => next = "retry"
                    <6>1. it \in Nat /\ Len(rows) \in Nat
                        BY <1>1, Typed
                    <6> QED BY <6>1
                <5> QED BY <1>9, <2>2, <5>1, <5>2
            <4>2. CASE k # n + 1
                <5>1. k \in 1..n
                    BY <4>2
                <5> QED BY <1>3, <1>9, <2>2, <5>1
            <4> QED BY <4>1, <4>2
        <3> QED BY <1>3, <2>2, <3>1
                DEF ThresholdKept, Full, NotFullBefore, Length, Limit
    <2> QED BY <2>1, <2>2
<1>11. BufferKept'
    <2>1. CASE setup.policy.kind = "RowCount"
        BY <1>1, <2>1 DEF BufferKept
    <2>2. CASE setup.policy.kind = "SizeThreshold"
        <3>1. next = "retry" => \A k \in 1..(n + 1) : Full(sent'[k])
            BY <1>3, <1>9, <2>2
        <3> QED BY <1>1, <1>3, <2>2, <3>1 DEF BufferKept, Looping, Full, Length, Limit
    <2>3. CASE setup.policy.kind = "MaxPacket"
        BY <1>1, <2>3 DEF BufferKept, Fits
    <2> QED BY <1>1, <2>1, <2>2, <2>3, Typed
<1> QED BY <1>2, <1>3, <1>4, <1>5, <1>6, <1>7, <1>8, <1>10, <1>11 DEF Statements

(***************************************************************************)
(* The rows that have been sent, and those of the statement being sent.    *)
(***************************************************************************)
LEMMA SentByExecute ==
    ASSUME IInv, pc = "loop", buffer # <<>>, UNCHANGED <<setup, rows, it, calls>>,
           cur_rows_' \in Nat, NEW next \in {"retry", "finish"}, Execute(next),
           next = "retry" => ~CanAdd(buffer), next = "finish" => it > Len(rows)
    PROVE  SentRows' = SentRows \cup RowIds(buffer)
<1>1. TypeOK /\ EachRowOnce
    BY DEF IInv
<1>2. PICK r \in Nat :
          /\ r = Reached(sent, Len(sent)) /\ 1 <= r /\ r <= it /\ Len(buffer) = it - r
          /\ \A i \in 1..Len(buffer) : buffer[i] = r + i - 1
    BY <1>1, ReachedNow
<1>3. Reached(sent', Len(sent')) = it
    BY ExecuteStatements
<1>4. it \in Nat /\ DOMAIN buffer = 1..Len(buffer)
    BY <1>1, Typed
<1>5. RowIds(buffer) = {<<calls, i>> : i \in r..(it - 1)}
    <2>1. ASSUME NEW i \in DOMAIN buffer PROVE buffer[i] \in r..(it - 1)
        BY <1>2, <1>4
    <2>2. ASSUME NEW j \in r..(it - 1)
          PROVE  j - r + 1 \in DOMAIN buffer /\ buffer[j - r + 1] = j
        BY <1>2, <1>4
    <2> QED BY <2>1, <2>2 DEF RowIds
<1>6. 1..(it - 1) = (1..(r - 1)) \cup (r..(it - 1))
    BY <1>2, <1>4
<1>7. calls' = calls
    OBVIOUS
<1> QED BY <1>2, <1>3, <1>5, <1>6, <1>7 DEF SentRows

\* When all has been sent, that is every row.
LEMMA SentAll ==
    ASSUME IInv, pc = "finish", success
    PROVE  SentRows = Inserted
<1>1. TypeOK /\ EachRowOnce /\ it = Len(rows) + 1 /\ buffer = <<>>
    BY DEF IInv, Position
<1>2. Reached(sent, Len(sent)) = Len(rows) + 1
    BY <1>1, ReachedNow
<1>3. DOMAIN rows = 1..(Len(rows) + 1 - 1)
    BY <1>1, Typed
<1> QED BY <1>2, <1>3 DEF SentRows, Inserted

(***************************************************************************)
(* The part of the invariant that is about the transaction and the table.  *)
(***************************************************************************)
Traced ==
    /\ TransactionKnown /\ NoOpenTransaction
    /\ RowsTraced /\ ThrowingAllOrNothing /\ ReturnMeansStored

LEMMA Split == IInv <=> TypeOK /\ Position /\ Statements /\ Traced
BY DEF IInv, Statements, Traced

\* The loop goes on without a statement.
LEMMA LoopTraced ==
    ASSUME IInv, Looping, pc' \in {"loop", "retry"},
           UNCHANGED <<setup, rows, sent, finished_, calls, server>>
    PROVE  Traced'
<1>1. Traced /\ TypeOK
    BY Split
<1>2. TransactionKnown' /\ NoOpenTransaction'
    BY <1>1 DEF Traced, TransactionKnown, NoOpenTransaction, Idle, Looping, server
<1>3. RowsTraced'
    BY <1>1 DEF Traced, RowsTraced, Looping, SentRows, Inserted, server
<1>4. ThrowingAllOrNothing' /\ ReturnMeansStored'
    BY DEF ThrowingAllOrNothing, ReturnMeansStored, Idle
<1> QED BY <1>2, <1>3, <1>4 DEF Traced

\* A statement succeeds.
LEMMA ExecuteTraced ==
    ASSUME IInv, pc = "loop", buffer # <<>>,
           UNCHANGED <<setup, rows, it, finished_, calls>>,
           cur_rows_' \in Nat, NEW next \in {"retry", "finish"}, Execute(next),
           next = "retry" => ~CanAdd(buffer), next = "finish" => it > Len(rows)
    PROVE  Traced'
<1>1. /\ Traced /\ TypeOK
      /\ Writes(RowIds(buffer)) /\ pc' = next /\ success' = success
    BY Split DEF Execute
<1>2. SentRows' = SentRows \cup RowIds(buffer) /\ Inserted' = Inserted
    BY SentByExecute DEF Inserted
<1>3. PICK ids : ids = RowIds(buffer)
    OBVIOUS
<1>4. /\ open' = open
      /\ open => written' = written \cup ids /\ stored' = stored
      /\ ~open => stored' = stored \cup ids /\ written' = written
    BY <1>1, <1>3 DEF Writes
<1>5. TransactionKnown' /\ NoOpenTransaction'
    BY <1>1, <1>4 DEF Traced, TransactionKnown, NoOpenTransaction, Idle
<1>6. RowsTraced'
    <2>1. /\ open => written = SentRows
          /\ ~open => SentRows \subseteq stored
          /\ setup.transactions /\ setup.connThrows => Inserted \cap stored = {} /\ open
        BY <1>1 DEF Traced, RowsTraced, Looping
    <2>2. CASE open
        BY <1>1, <1>2, <1>3, <1>4, <2>1, <2>2 DEF RowsTraced
    <2>3. CASE ~open
        BY <1>1, <1>2, <1>3, <1>4, <2>1, <2>3 DEF RowsTraced
    <2> QED BY <2>2, <2>3
<1>7. ThrowingAllOrNothing' /\ ReturnMeansStored'
    BY <1>1 DEF ThrowingAllOrNothing, ReturnMeansStored, Idle
<1> QED BY <1>5, <1>6, <1>7 DEF Traced

\* A statement fails, or a row is too long for any.
LEMMA GiveUpTraced ==
    ASSUME IInv, Looping, GiveUp, Fails \/ UNCHANGED server,
           UNCHANGED <<setup, rows, sent, finished_, calls>>
    PROVE  Traced'
<1>1. /\ Traced /\ TypeOK
      /\ success' = FALSE /\ pc' \in {"unwind", "finish"}
      /\ stored' = stored
      /\ UNCHANGED <<open, written>> \/ (open' = FALSE /\ written' = {})
    BY Split DEF GiveUp, Fails, TransactionEnds, server
<1>2. TransactionKnown' /\ NoOpenTransaction'
    BY <1>1 DEF Traced, TransactionKnown, NoOpenTransaction, Idle
<1>3. RowsTraced'
    <2>1. setup.transactions /\ setup.connThrows => Inserted \cap stored = {}
        BY <1>1 DEF Traced, RowsTraced, Looping
    <2>2. Inserted' = Inserted
        BY DEF Inserted
    <2> QED BY <1>1, <2>1, <2>2 DEF RowsTraced, Looping, AllOrNothing
<1>4. ThrowingAllOrNothing' /\ ReturnMeansStored'
    BY <1>1 DEF ThrowingAllOrNothing, ReturnMeansStored, Idle
<1> QED BY <1>2, <1>3, <1>4 DEF Traced

(***************************************************************************)
(* Every step keeps the whole.                                             *)
(***************************************************************************)
LEMMA InitInv == Init => IInv
<1> SUFFICES ASSUME Init PROVE IInv
    OBVIOUS
<1>1. setup.policy \in Policies
    BY DEF Init
<1>2. Limit \in Nat /\ setup.policy.kind \in {"RowCount", "SizeThreshold", "MaxPacket"}
    BY <1>1, PoliciesAssumption DEF Limit
<1>3. TypeOK
    <2>1. /\ <<>> \in Seq(Nat) /\ <<>> \in Seq(DOMAIN <<>>)
          /\ <<>> \in Seq(Seq(DOMAIN <<>>)) /\ Len(<<>>) = 0
        OBVIOUS
    <2>2. /\ rows \in Seq(Nat) /\ it \in 1..(Len(rows) + 1)
          /\ buffer \in Seq(DOMAIN rows) /\ sent \in Seq(Seq(DOMAIN rows))
        BY <2>1 DEF Init
    <2>3. {success, copacetic_, finished_, open} \subseteq BOOLEAN
        BY DEF Init
    <2> QED BY <1>2, <2>2, <2>3 DEF Init, TypeOK
<1>4. Position
    BY DEF Init, Position
<1>5. Statements
    <2>1. Run(<<>>, 1, 1)
        BY RunOfNone
    <2>2. EachRowOnce
        BY <2>1 DEF Init, EachRowOnce, Reached
    <2>3. RowCountKept /\ ThresholdKept /\ PacketsKept
        BY DEF Init, RowCountKept, ThresholdKept, PacketsKept
    <2>4. BufferKept
        <3>1. ~Looping /\ buffer = <<>> /\ Fits(buffer)
            BY DEF Init, Looping, Fits
        <3> QED BY <1>2, <3>1 DEF BufferKept
    <2> QED BY <2>2, <2>3, <2>4 DEF Statements
<1>6. Traced
    BY DEF Init, Traced, TransactionKnown, NoOpenTransaction, RowsTraced, Looping,
           ThrowingAllOrNothing, ReturnMeansStored, AllOrNothing, Inserted
<1> QED BY <1>3, <1>4, <1>5, <1>6, Split

LEMMA CallInv ==
    ASSUME IInv, NEW c \in Containers, Call(c)
    PROVE  IInv'
<1>1. TypeOK /\ Traced /\ Idle /\ c \in Seq(Nat) /\ calls \in Nat
    BY Split, Typed, ContainersAssumption DEF Call
<1>2. /\ calls' = calls + 1 /\ rows' = c /\ it' = 1 /\ buffer' = <<>> /\ sent' = <<>>
      /\ success' = TRUE /\ finished_' = TRUE
      /\ pc' = IF c = <<>> THEN "returned" ELSE "begin"
      /\ UNCHANGED <<setup, cur_rows_, copacetic_, open, written, stored>>
    BY DEF Call, server
<1>3. stored \subseteq (0..calls) \X Nat /\ written = {} /\ ~open
    BY <1>1 DEF TypeOK, Traced, NoOpenTransaction
<1>4. TypeOK'
    <2>1. (0..calls) \X Nat \subseteq (0..(calls + 1)) \X Nat
        BY <1>1
    <2>2. 1 \in 1..(Len(c) + 1)
        BY <1>1
    <2> QED BY <1>1, <1>2, <1>3, <2>1, <2>2 DEF TypeOK, Limit
<1>5. Position'
    BY <1>2 DEF Position
<1>6. Statements'
    <2>1. EachRowOnce'
        BY <1>2, RunOfNone DEF EachRowOnce, Reached
    <2>2. RowCountKept' /\ ThresholdKept' /\ PacketsKept'
        BY <1>2 DEF RowCountKept, ThresholdKept, PacketsKept
    <2>3. BufferKept'
        <3>1. ~Looping' /\ buffer' = <<>> /\ Fits(buffer)'
            BY <1>2 DEF Looping, Fits
        <3>2. setup'.policy.kind \in {"RowCount", "SizeThreshold", "MaxPacket"}
            BY <1>1, <1>2, Typed
        <3> QED BY <3>1, <3>2 DEF BufferKept
    <2> QED BY <2>1, <2>2, <2>3 DEF Statements
<1>7. Traced'
    <2>1. Inserted' \cap stored' = {} /\ (c = <<>> => Inserted' = {})
        BY <1>1, <1>2, <1>3 DEF Inserted
    <2>2. TransactionKnown' /\ NoOpenTransaction'
        BY <1>2, <1>3 DEF TransactionKnown, NoOpenTransaction
    <2>3. RowsTraced'
        BY <1>2, <2>1 DEF RowsTraced, Looping
    <2>4. ThrowingAllOrNothing' /\ ReturnMeansStored'
        BY <1>2, <2>1 DEF ThrowingAllOrNothing, AllOrNothing, ReturnMeansStored
    <2> QED BY <2>2, <2>3, <2>4 DEF Traced
<1> QED BY <1>4, <1>5, <1>6, <1>7 DEF IInv, Statements, Traced

LEMMA BeginInv ==
    ASSUME IInv, NoBegin \/ Begin \/ BeginFails
    PROVE  IInv'
<1>1. /\ TypeOK /\ Position /\ Traced
      /\ pc = "begin" /\ pc' \in {"loop", "thrown"}
      /\ UNCHANGED <<setup, cur_rows_, it, buffer, rows, sent, success, copacetic_, calls>>
    BY Split DEF NoBegin, Begin, BeginFails, building
<1>2. /\ ~open /\ written = {} /\ stored' = stored /\ written' = {}
      /\ finished_' \in BOOLEAN /\ open' \in BOOLEAN
      /\ open' => setup.transactions /\ ~finished_' /\ pc' = "loop"
    <2>1. ~open /\ written = {} /\ open \in BOOLEAN /\ finished_ \in BOOLEAN
          /\ setup.connThrows \in BOOLEAN
        BY <1>1, Typed DEF Traced, TransactionKnown
    <2>2. CASE NoBegin
        BY <2>1, <2>2 DEF NoBegin, server
    <2>3. CASE Begin
        BY <2>1, <2>3 DEF Begin
    <2>4. CASE BeginFails
        <3>1. stored' = stored /\ ~open' /\ open' \in BOOLEAN /\ written' = {}
            <4>1. Fails
                BY <2>4 DEF BeginFails
            <4>2. CASE UNCHANGED <<open, written>>
                BY <2>1, <4>1, <4>2 DEF Fails
            <4>3. CASE TransactionEnds
                BY <4>1, <4>3 DEF Fails, TransactionEnds
            <4> QED BY <4>1, <4>2, <4>3 DEF Fails
        <3> QED BY <2>1, <2>4, <3>1 DEF BeginFails
    <2> QED BY <2>2, <2>3, <2>4
<1>3. TypeOK'
    BY <1>1, <1>2 DEF TypeOK, Limit
<1>4. Position'
    BY <1>1 DEF Position
<1>5. Statements'
    BY <1>1, Typed, StatementsStay DEF Looping
<1>6. Traced'
    <2>1. TransactionKnown' /\ NoOpenTransaction'
        BY <1>1, <1>2 DEF TransactionKnown, NoOpenTransaction, Idle
    <2>2. SentRows' = {} /\ Inserted' = Inserted
        BY <1>1 DEF SentRows, Position, Reached, Inserted
    <2>3. RowsTraced'
        <3>1. setup.transactions /\ setup.connThrows => Inserted \cap stored = {}
            BY <1>1 DEF Traced, RowsTraced
        <3>2. setup.transactions /\ setup.connThrows /\ pc' = "loop" => open'
            BY <1>1 DEF NoBegin, Begin, BeginFails
        <3> QED BY <1>1, <1>2, <2>2, <3>1, <3>2 DEF RowsTraced, Looping
    <2>4. ThrowingAllOrNothing' /\ ReturnMeansStored'
        <3>1. setup.transactions /\ setup.connThrows => Inserted \cap stored = {}
            BY <1>1 DEF Traced, RowsTraced
        <3> QED BY <1>1, <1>2, <2>2, <3>1
                DEF ThrowingAllOrNothing, AllOrNothing, ReturnMeansStored
    <2> QED BY <2>1, <2>3, <2>4 DEF Traced
<1> QED BY <1>3, <1>4, <1>5, <1>6 DEF IInv, Statements, Traced

LEMMA AddInv ==
    ASSUME IInv, Add \/ Retry
    PROVE  IInv'
<1>1. /\ TypeOK /\ Position /\ Looping /\ it <= Len(rows)
      /\ AddRow("loop")
    BY Split DEF Add, Retry, Looping, Position
<1>2. /\ CanAdd(buffer) /\ cur_rows_' = Counted(TRUE)
      /\ buffer' = Append(buffer, it) /\ it' = it + 1 /\ pc' = "loop"
      /\ UNCHANGED <<setup, rows, sent, success, copacetic_, finished_, open, written,
                     stored, calls>>
    BY <1>1 DEF AddRow, server
<1>3. TypeOK'
    <2>1. it \in DOMAIN rows /\ it' \in 1..(Len(rows) + 1)
        BY <1>1, <1>2, Typed
    <2>2. Append(buffer, it) \in Seq(DOMAIN rows)
        BY <1>1, <2>1, Typed
    <2>3. cur_rows_' \in 0..Limit
        <3>1. CASE setup.policy.kind = "RowCount"
            <4>1. cur_rows_ + 1 <= Limit /\ cur_rows_' = cur_rows_ + 1
                BY <1>2, <3>1 DEF Counted, CanAdd, RowCountAllows
            <4> QED BY <1>1, <4>1, Typed
        <3>2. CASE setup.policy.kind # "RowCount"
            BY <1>2, <1>1, <3>2 DEF Counted, TypeOK
        <3> QED BY <3>1, <3>2
    <2> QED BY <1>1, <1>2, <2>1, <2>2, <2>3 DEF TypeOK, Limit
<1>4. Position'
    <2>1. buffer \in Seq(Nat) /\ it \in Nat
        BY <1>1, Typed
    <2>2. Append(buffer, it) # <<>>
        BY <2>1
    <2> QED BY <1>1, <1>2, <2>2 DEF Position, Looping
<1>5. Statements'
    BY <1>1, AddStatements
<1>6. Traced'
    BY <1>1, <1>2, LoopTraced DEF server
<1> QED BY <1>3, <1>4, <1>5, <1>6 DEF IInv, Statements, Traced

\* What a failed statement or a row that is too long does to the rest.
LEMMA GiveUpInv ==
    ASSUME IInv, Looping, GiveUp, Fails \/ UNCHANGED server,
           cur_rows_' \in 0..Limit, copacetic_' \in BOOLEAN,
           UNCHANGED <<setup, rows, it, buffer, sent, finished_, calls>>
    PROVE  IInv'
<1>1. /\ TypeOK /\ Position
      /\ success' = FALSE /\ pc' = IF setup.queryThrows THEN "unwind" ELSE "finish"
    BY Split DEF GiveUp
<1>2. /\ written' \subseteq written /\ stored' = stored
      /\ open' \in BOOLEAN
    BY <1>1, Typed DEF Fails, TransactionEnds, server
<1>3. TypeOK'
    BY <1>1, <1>2 DEF TypeOK, Limit
<1>4. Position'
    BY <1>1, Typed DEF Position
<1>5. Statements'
    <2>1. cur_rows_' \in Nat /\ ~Looping'
        BY <1>1, Typed DEF Looping
    <2> QED BY <2>1, StatementsStay
<1>6. Traced'
    BY GiveUpTraced
<1> QED BY <1>3, <1>4, <1>5, <1>6 DEF IInv, Statements, Traced

\* What a statement that succeeds does.
LEMMA ExecuteInv ==
    ASSUME IInv, pc = "loop", buffer # <<>>,
           UNCHANGED <<setup, rows, it, finished_, calls>>,
           cur_rows_' \in 0..Limit, NEW next \in {"retry", "finish"}, Execute(next),
           next = "retry" => ~CanAdd(buffer) /\ it <= Len(rows),
           next = "finish" => it > Len(rows)
    PROVE  IInv'
<1>1. /\ TypeOK /\ Position
      /\ Writes(RowIds(buffer)) /\ sent' = Append(sent, buffer)
      /\ buffer' = <<>> /\ copacetic_' = TRUE /\ pc' = next /\ success' = success
    BY Split DEF Execute
<1>2. cur_rows_' \in Nat
    BY <1>1, Typed
<1>3. TypeOK'
    <2>1. RowIds(buffer) \subseteq (0..calls) \X Nat
        <3>1. \A i \in DOMAIN buffer : buffer[i] \in Nat
            BY <1>1, Typed
        <3>2. calls \in 0..calls
            BY <1>1, Typed
        <3> QED BY <3>1, <3>2 DEF RowIds
    <2>2. open' = open /\ written' \cup stored' \subseteq (0..calls) \X Nat
        BY <1>1, <2>1 DEF TypeOK, Writes
    <2>3. Append(sent, buffer) \in Seq(Seq(DOMAIN rows)) /\ <<>> \in Seq(DOMAIN rows)
        BY <1>1, Typed
    <2> QED BY <1>1, <2>2, <2>3 DEF TypeOK, Limit
<1>4. Position'
    <2>1. success /\ rows # <<>> /\ (next = "finish" => it = Len(rows) + 1)
        BY <1>1, Typed DEF Position
    <2> QED BY <1>1, <2>1 DEF Position
<1>5. Statements'
    BY <1>2, ExecuteStatements
<1>6. Traced'
    BY <1>2, ExecuteTraced
<1> QED BY <1>3, <1>4, <1>5, <1>6 DEF IInv, Statements, Traced

LEMMA CountReset == ASSUME TypeOK PROVE Counted(FALSE) \in 0..Limit
<1>1. Limit \in Nat /\ cur_rows_ \in 0..Limit
    BY Typed DEF TypeOK
<1> QED BY <1>1 DEF Counted

LEMMA ShipInv ==
    ASSUME IInv, Ship
    PROVE  IInv'
<1>1. /\ TypeOK /\ Position
      /\ pc = "loop" /\ Looping /\ it <= Len(rows) /\ ~CanAdd(buffer)
      /\ cur_rows_' \in 0..Limit
      /\ UNCHANGED <<setup, rows, it, finished_, calls>>
    BY Split, CountReset DEF Ship, Looping
<1>2. CASE buffer # <<>> /\ Execute("retry")
    BY <1>1, <1>2, ExecuteInv
<1>3. CASE buffer # <<>> /\ ExecuteFails
    BY <1>1, <1>3, GiveUpInv DEF ExecuteFails
<1>4. CASE /\ buffer = <<>> /\ pc' = "retry"
           /\ UNCHANGED <<buffer, sent, success, copacetic_, server>>
    <2>1. TypeOK'
        BY <1>1, <1>4 DEF TypeOK, server, Limit
    <2>2. Position'
        BY <1>1, <1>4 DEF Position
    <2>3. Statements'
        <3>1. cur_rows_' \in Nat
            BY <1>1, Typed
        <3> QED BY <1>1, <1>4, <3>1, StatementsStay
    <2>4. Traced'
        BY <1>1, <1>4, LoopTraced
    <2> QED BY <2>1, <2>2, <2>3, <2>4 DEF IInv, Statements, Traced
<1> QED BY <1>2, <1>3, <1>4 DEF Ship

LEMMA TooStrictInv ==
    ASSUME IInv, TooStrict
    PROVE  IInv'
<1>1. /\ Looping /\ GiveUp /\ cur_rows_' \in 0..Limit /\ copacetic_' \in BOOLEAN
      /\ UNCHANGED <<setup, rows, it, buffer, sent, finished_, server, calls>>
    BY Split, Typed, CountReset DEF TooStrict, Looping
<1> QED BY <1>1, GiveUpInv

LEMMA ShipLastInv ==
    ASSUME IInv, ShipLast
    PROVE  IInv'
<1>1. /\ TypeOK /\ Position
      /\ pc = "loop" /\ Looping /\ it > Len(rows)
      /\ cur_rows_' \in 0..Limit
      /\ UNCHANGED <<setup, rows, it, finished_, calls>>
    BY Split DEF ShipLast, Looping, TypeOK
<1>2. buffer # <<>>
    <2>1. rows # <<>> /\ (it = 1 \/ buffer # <<>>)
        BY <1>1 DEF Position
    <2>2. Len(rows) >= 1
        BY <1>1, <2>1, Typed
    <2> QED BY <1>1, <2>1, <2>2, Typed
<1>3. CASE Execute("finish")
    BY <1>1, <1>2, <1>3, ExecuteInv
<1>4. CASE ExecuteFails
    BY <1>1, <1>4, GiveUpInv DEF ExecuteFails
<1> QED BY <1>3, <1>4 DEF ShipLast

LEMMA FinishInv ==
    ASSUME IInv, NoFinish \/ Finish \/ FinishFails
    PROVE  IInv'
<1>1. /\ TypeOK /\ Position /\ Traced
      /\ pc = "finish" /\ pc' \in {"returned", "unwind"}
      /\ UNCHANGED <<setup, cur_rows_, it, buffer, rows, sent, success, copacetic_, calls>>
    BY Split DEF NoFinish, Finish, FinishFails, Finishing, building
<1>2. /\ open' = FALSE /\ written' = {} /\ finished_' \in BOOLEAN
      /\ stored' = stored \/ (success /\ stored' = stored \cup written)
    <2>1. CASE NoFinish
        <3>1. ~open /\ written = {} /\ open \in BOOLEAN /\ finished_ \in BOOLEAN
            BY <1>1, <2>1, Typed DEF NoFinish, Traced, TransactionKnown
        <3> QED BY <2>1, <3>1 DEF NoFinish, server
    <2>2. CASE Finish
        BY <2>2 DEF Finish, Commits, RollsBack, TransactionEnds
    <2>3. CASE FinishFails
        <3>1. (~setup.connThrows) \in BOOLEAN
            OBVIOUS
        <3> QED BY <2>3, <3>1 DEF FinishFails, Commits, RollsBack, TransactionEnds
    <2> QED BY <2>1, <2>2, <2>3
<1>3. TypeOK'
    BY <1>1, <1>2 DEF TypeOK, Limit
<1>4. Position'
    BY <1>1 DEF Position
<1>5. Statements'
    BY <1>1, Typed, StatementsStay DEF Looping
<1>6. Inserted' = Inserted /\ (success => SentRows = Inserted)
    BY <1>1, SentAll DEF Inserted
<1>7. ASSUME setup.transactions, setup.connThrows
      PROVE  AllOrNothing' /\ (success => Inserted \subseteq stored \cup written)
    <2>1. Inserted \cap stored = {} /\ (success => written = SentRows)
        BY <1>1, <1>7 DEF Traced, RowsTraced
    <2> QED BY <1>2, <1>6, <2>1 DEF AllOrNothing
<1>8. ASSUME pc' = "returned", setup.connThrows, setup.queryThrows
      PROVE  Inserted' \subseteq stored'
    <2>1. success
        BY <1>1, <1>8 DEF Position
    <2>2. CASE NoFinish
        <3>1. ~open
            BY <1>1, <2>2 DEF NoFinish, Traced, TransactionKnown
        <3> QED BY <1>1, <1>6, <2>1, <2>2, <3>1 DEF NoFinish, Traced, RowsTraced, server
    <2>3. CASE Finish
        BY <1>6, <1>7, <1>8, <2>1, <2>3 DEF Finish, Finishing, Commits
    <2>4. CASE FinishFails
        BY <1>8, <2>4 DEF FinishFails
    <2> QED BY <2>2, <2>3, <2>4
<1>9. Traced'
    <2>1. TransactionKnown' /\ NoOpenTransaction'
        BY <1>2 DEF TransactionKnown, NoOpenTransaction
    <2>2. RowsTraced' /\ ThrowingAllOrNothing' /\ ReturnMeansStored'
        BY <1>1, <1>7, <1>8 DEF RowsTraced, Looping, ThrowingAllOrNothing, ReturnMeansStored
    <2> QED BY <2>1, <2>2 DEF Traced
<1> QED BY <1>3, <1>4, <1>5, <1>9 DEF IInv, Statements, Traced

LEMMA UnwindInv ==
    ASSUME IInv, Unwind
    PROVE  IInv'
<1>1. /\ TypeOK /\ Position /\ Traced
      /\ pc = "unwind" /\ pc' = "thrown"
      /\ UNCHANGED <<setup, cur_rows_, it, buffer, rows, sent, success, copacetic_,
                     finished_, calls>>
    BY Split DEF Unwind, building
<1>2. open' = FALSE /\ written' = {} /\ stored' = stored
    <2>1. CASE setup.transactions /\ ~finished_
        BY <2>1 DEF Unwind, RollsBack, TransactionEnds
    <2>2. CASE ~(setup.transactions /\ ~finished_)
        <3>1. ~open /\ written = {} /\ open \in BOOLEAN
            BY <1>1, <2>2, Typed DEF Traced, TransactionKnown
        <3> QED BY <2>2, <3>1 DEF Unwind, server
    <2> QED BY <2>1, <2>2
<1>3. TypeOK'
    BY <1>1, <1>2 DEF TypeOK, Limit
<1>4. Position'
    BY <1>1 DEF Position
<1>5. Statements'
    BY <1>1, Typed, StatementsStay DEF Looping
<1>6. Traced'
    <2>1. setup.transactions /\ setup.connThrows => AllOrNothing
        BY <1>1 DEF Traced, RowsTraced
    <2> QED BY <1>1, <1>2, <2>1
            DEF Traced, TransactionKnown, NoOpenTransaction, RowsTraced, Looping,
                ThrowingAllOrNothing, AllOrNothing, Inserted, ReturnMeansStored
<1> QED BY <1>3, <1>4, <1>5, <1>6 DEF IInv, Statements, Traced

LEMMA StepInv == IInv /\ [Next]_vars => IInv'
<1> SUFFICES ASSUME IInv, [Next]_vars PROVE IInv'
    OBVIOUS
<1>1. ASSUME NEW c \in Containers, Call(c) PROVE IInv'
    BY <1>1, CallInv
<1>2. CASE NoBegin \/ Begin \/ BeginFails
    BY <1>2, BeginInv
<1>3. CASE Add \/ Retry
    BY <1>3, AddInv
<1>4. CASE Ship \/ TooStrict \/ ShipLast
    BY <1>4, ShipInv, TooStrictInv, ShipLastInv
<1>5. CASE NoFinish \/ Finish \/ FinishFails
    BY <1>5, FinishInv
<1>6. CASE Unwind
    BY <1>6, UnwindInv
<1>7. CASE UNCHANGED vars
    <2>1. /\ TypeOK /\ Position /\ Traced
          /\ UNCHANGED <<setup, cur_rows_, rows, it, buffer, sent, success, copacetic_,
                         finished_, open, written, stored, calls, pc>>
        BY <1>7, Split DEF vars
    <2>2. TypeOK' /\ Position'
        BY <2>1 DEF TypeOK, Limit, Position
    <2>3. Statements'
        BY <2>1, Typed, StatementsStay DEF Looping
    <2>4. Traced'
        BY <2>1 DEF Traced, TransactionKnown, NoOpenTransaction, RowsTraced, Looping,
                    ThrowingAllOrNothing, AllOrNothing, Inserted, SentRows,
                    ReturnMeansStored, Idle
    <2> QED BY <2>2, <2>3, <2>4 DEF IInv, Statements, Traced
<1> QED BY <1>1, <1>2, <1>3, <1>4, <1>5, <1>6, <1>7 DEF Next, Stopped

(***************************************************************************)
(* Whatever the container and the server do, the statements of a policy    *)
(* keep within its limit, and the loop knows where each row is.            *)
(***************************************************************************)
THEOREM PoliciesKeepTheirPromises == Spec => []IInv
BY InitInv, StepInv, PTL DEF Spec

(***************************************************************************)
(* No row is left out, sent twice or out of order, and no statement is     *)
(* empty.                                                                  *)
(***************************************************************************)
THEOREM RowsAreSentInOrder == Spec => []EachRowOnce
BY PoliciesKeepTheirPromises, PTL DEF IInv

(***************************************************************************)
(* insertfrom() never returns or throws with a transaction open.           *)
(***************************************************************************)
THEOREM TransactionsEnd == Spec => []NoOpenTransaction
BY PoliciesKeepTheirPromises, PTL DEF IInv

(***************************************************************************)
(* In a Transaction on a connection that throws, all rows are stored or    *)
(* none.                                                                   *)
(***************************************************************************)
THEOREM InsertIsAtomic == Spec => []ThrowingAllOrNothing
BY PoliciesKeepTheirPromises, PTL DEF IInv

(***************************************************************************)
(* When query and connection throw, no exception means that all is stored. *)
(***************************************************************************)
THEOREM ReturnIsSuccess == Spec => []ReturnMeansStored
BY PoliciesKeepTheirPromises, PTL DEF IInv

-----------------------------------------------------------------------------
(***************************************************************************)
(* The contract: job and its beginnings, in the terms of InsertFrom.       *)
(***************************************************************************)
Job == [i \in DOMAIN rows |-> <<calls, i>>]
First(k) == {<<calls, i>> : i \in 1..k}
Atomic == setup.transactions /\ setup.connThrows
Honest == setup.connThrows /\ setup.queryThrows
AllIn(k) == k = Len(rows) /\ First(k) \cap stored = {}

LEMMA JobIs ==
    ASSUME TypeOK
    PROVE  /\ Len(Job) = Len(rows) /\ Len(rows) \in Nat
           /\ Job = <<>> <=> rows = <<>>
           /\ \A k \in 0..Len(rows) : {Job[i] : i \in 1..k} = First(k)
           /\ First(Len(rows)) = Inserted
<1>1. rows \in Seq(Nat) /\ Len(rows) \in Nat /\ DOMAIN rows = 1..Len(rows)
    BY DEF TypeOK
<1>2. Job \in Seq({<<calls, i>> : i \in Nat}) /\ Len(Job) = Len(rows)
    BY <1>1 DEF Job
<1>3. Job = <<>> <=> rows = <<>>
    BY <1>1, <1>2
<1>4. ASSUME NEW k \in 0..Len(rows) PROVE {Job[i] : i \in 1..k} = First(k)
    <2>1. \A i \in 1..k : Job[i] = <<calls, i>>
        BY <1>1 DEF Job
    <2> HIDE DEF Job
    <2> QED BY <2>1 DEF First
<1> QED BY <1>1, <1>2, <1>3, <1>4 DEF First, Inserted

(***************************************************************************)
(* What a step of a call has to do to keep it.                             *)
(***************************************************************************)
Works ==
    /\ Outcome = "running"
    /\ \E k \in 0..Len(rows) :
          /\ stored' = stored \cup First(k)
          /\ Atomic => k = 0 \/ AllIn(k)
    /\ pc' # "idle"
    /\ UNCHANGED <<setup, rows, calls>>

LEMMA WorksIsWork ==
    ASSUME IInv, IInv', Works
    PROVE  Contract!Next
<1>1. TypeOK /\ ReturnMeansStored' /\ DOMAIN rows = 1..Len(rows)
    BY DEF IInv, TypeOK
<1>2. PICK k \in 0..Len(rows) :
          /\ stored' = stored \cup First(k)
          /\ Atomic => k = 0 \/ AllIn(k)
    BY DEF Works
<1>3. Contract!Beginning(k) = First(k) /\ Len(Job) = Len(rows)
    BY <1>1, JobIs DEF Contract!Beginning, Job
<1>4. Outcome' \in {"running", "returned", "thrown"}
    BY DEF Works, Outcome
<1>5. Honest /\ Outcome' = "returned" => Inserted \subseteq stored'
    BY <1>1 DEF Works, Honest, Outcome, ReturnMeansStored, Inserted
<1>6. Contract!Beginning(Len(Job)) = Inserted
    <2>1. \A n \in 0..Len(rows) : Contract!Beginning(n) = First(n)
        BY <1>1, JobIs DEF Contract!Beginning, Job
    <2>2. Len(rows) \in 0..Len(rows) /\ First(Len(rows)) = Inserted
        BY <1>1, JobIs
    <2> QED BY <1>3, <2>1, <2>2
<1>7. Job' = Job /\ Atomic' = Atomic /\ Honest' = Honest
    BY DEF Works, Job, Atomic, Honest
<1>8. Contract!Work
    BY <1>2, <1>3, <1>4, <1>5, <1>6, <1>7
       DEF Works, Contract!Work, Job, Atomic, Honest, AllIn
<1> QED BY <1>8 DEF Contract!Next

\* Most steps store nothing.
LEMMA StoresNothing ==
    ASSUME TypeOK, Outcome = "running", stored' = stored, pc' # "idle",
           UNCHANGED <<setup, rows, calls>>
    PROVE  Works
<1>1. 0 \in 0..Len(rows) /\ First(0) = {}
    BY DEF TypeOK, First
<1> QED BY <1>1 DEF Works

\* A call begins.
LEMMA CallStarts ==
    ASSUME IInv, IInv', NEW c \in Containers, Call(c)
    PROVE  Contract!Next
<1>1. /\ Idle /\ c \in Seq(Nat) /\ calls \in Nat
      /\ rows' = c /\ calls' = calls + 1
      /\ stored' = stored /\ setup' = setup
      /\ pc' = IF c = <<>> THEN "returned" ELSE "begin"
    BY ContainersAssumption DEF Call, server, IInv, TypeOK
<1>2. Outcome # "running"
    BY <1>1 DEF Outcome, Idle
<1>3. Outcome' = IF Job' = <<>> THEN "returned" ELSE "running"
    <2>1. Job' = [i \in DOMAIN rows' |-> <<calls', i>>] /\ DOMAIN rows' = 1..Len(c)
        BY <1>1 DEF Job
    <2>2. Len(c) \in Nat /\ (c = <<>> <=> Len(c) = 0)
        BY <1>1
    <2>3. Job' \in Seq({<<calls', i>> : i \in Nat}) /\ Len(Job') = Len(c)
        BY <2>1, <2>2
    <2>4. Job' = <<>> <=> c = <<>>
        BY <2>2, <2>3
    <2> QED BY <1>1, <2>4 DEF Outcome
<1>4. ASSUME NEW i \in DOMAIN Job' PROVE Job'[i] \notin stored
    <2>1. Job'[i] = <<calls + 1, i>>
        BY <1>1, <1>4 DEF Job
    <2>2. stored \subseteq (0..calls) \X Nat
        BY DEF IInv, TypeOK
    <2> QED BY <1>1, <2>1, <2>2
<1>5. Contract!Start
    BY <1>1, <1>2, <1>3, <1>4 DEF Contract!Start, Job
<1> QED BY <1>5 DEF Contract!Next

\* A statement goes through: outside a transaction, and so not where the call
\* is atomic, its rows follow those that are in the table.
LEMMA ExecuteWorks ==
    ASSUME IInv, pc = "loop", buffer # <<>>,
           UNCHANGED <<setup, rows, it, finished_, calls>>,
           cur_rows_' \in Nat, NEW next \in {"retry", "finish"}, Execute(next),
           next = "retry" => ~CanAdd(buffer), next = "finish" => it > Len(rows)
    PROVE  Works
<1>1. /\ TypeOK /\ RowsTraced /\ TransactionKnown /\ EachRowOnce
      /\ Writes(RowIds(buffer)) /\ pc' = next /\ Outcome = "running"
    BY DEF IInv, Execute, Outcome
<1>2. CASE open
    BY <1>1, <1>2, StoresNothing DEF Writes
<1>3. CASE ~open
    <2>1. ~Atomic /\ SentRows \subseteq stored
        BY <1>1, <1>3 DEF RowsTraced, Looping, Atomic
    <2>2. SentRows' = SentRows \cup RowIds(buffer) /\ stored' = stored \cup RowIds(buffer)
        BY <1>1, <1>3, SentByExecute DEF Writes
    <2>3. it - 1 \in 0..Len(rows) /\ SentRows' = First(it - 1)
        <3>1. Reached(sent', Len(sent')) = it
            BY ExecuteStatements
        <3> QED BY <1>1, <3>1, Typed DEF SentRows, First
    <2>4. stored' = stored \cup First(it - 1)
        BY <2>1, <2>2, <2>3
    <2> QED BY <1>1, <2>1, <2>3, <2>4 DEF Works
<1> QED BY <1>2, <1>3

\* What a COMMIT stores is every row of the call, and none was there before.
LEMMA FinishWorks ==
    ASSUME IInv, NoFinish \/ Finish \/ FinishFails
    PROVE  Works
<1>1. /\ TypeOK /\ RowsTraced /\ TransactionKnown
      /\ pc = "finish" /\ Outcome = "running" /\ pc' \in {"returned", "unwind"}
      /\ UNCHANGED <<setup, rows, calls>>
    BY DEF IInv, NoFinish, Finish, FinishFails, Finishing, Outcome, building
<1>2. stored' = stored \/ (success /\ stored' = stored \cup written)
    BY DEF NoFinish, Finish, FinishFails, Commits, RollsBack, server
<1>3. CASE stored' = stored
    BY <1>1, <1>3, StoresNothing
<1>4. CASE stored' # stored
    <2>1. open /\ written = Inserted /\ (Atomic => Inserted \cap stored = {})
        <3>1. open /\ success
            BY <1>1, <1>2, <1>4, Typed DEF TransactionKnown
        <3> QED BY <1>1, <3>1, SentAll DEF RowsTraced, Atomic
    <2>2. First(Len(rows)) = Inserted /\ Len(rows) \in 0..Len(rows)
        BY <1>1, JobIs
    <2> QED BY <1>1, <1>2, <1>4, <2>1, <2>2 DEF Works, AllIn
<1> QED BY <1>3, <1>4

LEMMA StepKeepsContract ==
    ASSUME IInv, IInv', [Next]_vars
    PROVE  [Contract!Next]_<<Atomic, Honest, stored, Job, Outcome>>
<1>0. TypeOK /\ Position
    BY DEF IInv
<1>1. ASSUME NEW c \in Containers, Call(c) PROVE Contract!Next
    BY <1>1, CallStarts
<1>2. ASSUME Works PROVE Contract!Next
    BY <1>2, WorksIsWork
<1>3. CASE NoBegin \/ Begin \/ BeginFails
    <2>1. written = {} /\ pc = "begin"
        BY <1>3 DEF IInv, TransactionKnown, NoBegin, Begin, BeginFails
    <2>2. /\ stored' = stored /\ pc' # "idle"
          /\ UNCHANGED <<setup, rows, calls>>
        BY <1>3, <2>1 DEF NoBegin, Begin, BeginFails, Fails, server
    <2>3. Outcome = "running"
        BY <2>1 DEF Outcome
    <2> QED BY <1>0, <1>2, <2>2, <2>3, StoresNothing
<1>4. CASE Add \/ Retry \/ TooStrict \/ Unwind
    <2>1. /\ stored' = stored /\ pc' # "idle" /\ Outcome = "running"
          /\ UNCHANGED <<setup, rows, calls>>
        BY <1>4 DEF Add, Retry, AddRow, TooStrict, GiveUp, Unwind, RollsBack, server, Outcome
    <2> QED BY <1>0, <1>2, <2>1, StoresNothing
<1>5. ASSUME ExecuteFails, pc = "loop", UNCHANGED <<setup, rows, calls>> PROVE Works
    BY <1>0, <1>5, StoresNothing DEF ExecuteFails, Fails, GiveUp, Outcome
<1>6. CASE Ship
    <2>1. /\ pc = "loop" /\ ~CanAdd(buffer) /\ cur_rows_' \in Nat
          /\ UNCHANGED <<setup, rows, it, finished_, calls>>
        <3>1. cur_rows_' \in 0..Limit /\ Limit \in Nat
            BY <1>0, <1>6, CountReset, Typed DEF Ship
        <3>2. cur_rows_' \in Nat
            BY <3>1
        <3> QED BY <1>6, <3>2 DEF Ship
    <2>2. CASE buffer # <<>> /\ Execute("retry")
        BY <1>2, <2>1, <2>2, ExecuteWorks
    <2>3. CASE buffer # <<>> /\ ExecuteFails
        BY <1>2, <1>5, <2>1, <2>3
    <2>4. CASE pc' = "retry" /\ UNCHANGED server
        BY <1>0, <1>2, <2>1, <2>4, StoresNothing DEF server, Outcome
    <2> QED BY <1>6, <2>2, <2>3, <2>4 DEF Ship
<1>7. CASE ShipLast
    <2>1. /\ pc = "loop" /\ it > Len(rows) /\ cur_rows_' \in Nat
          /\ UNCHANGED <<setup, rows, it, finished_, calls>>
        BY <1>0, <1>7, Typed DEF ShipLast, TypeOK
    <2>2. buffer # <<>>
        BY <1>0, <2>1, Typed DEF Position
    <2>3. CASE Execute("finish")
        BY <1>2, <2>1, <2>2, <2>3, ExecuteWorks
    <2>4. CASE ExecuteFails
        BY <1>2, <1>5, <2>1, <2>4
    <2> QED BY <1>7, <2>3, <2>4 DEF ShipLast
<1>8. CASE NoFinish \/ Finish \/ FinishFails
    BY <1>2, <1>8, FinishWorks
<1>9. CASE UNCHANGED vars
    BY <1>9 DEF vars, Atomic, Honest, Job, Outcome
<1> QED BY <1>1, <1>3, <1>4, <1>6, <1>7, <1>8, <1>9 DEF Next, Stopped

(***************************************************************************)
(* insertfrom() keeps its contract: the table gets a beginning of the      *)
(* container, all of it or nothing in a Transaction on a connection that   *)
(* throws, and all of it if nothing is thrown where failures are reported. *)
(***************************************************************************)
THEOREM KeepsContract == Spec => InsertsInOrder
<1>1. Init => Contract!Init
    <2> SUFFICES ASSUME Init PROVE Contract!Init
        OBVIOUS
    <2>1. setup.transactions \in BOOLEAN /\ setup.connThrows \in BOOLEAN
          /\ setup.queryThrows \in BOOLEAN
        BY DEF Init
    <2>2. Job = <<>> /\ Outcome = "none" /\ stored = {}
        BY DEF Init, Job, Outcome
    <2> QED BY <2>1, <2>2 DEF Contract!Init, Job
<1>2. IInv /\ IInv' /\ [Next]_vars =>
          [Contract!Next]_<<setup.transactions /\ setup.connThrows,
                            setup.connThrows /\ setup.queryThrows, stored,
                            [i \in DOMAIN rows |-> <<calls, i>>], Outcome>>
    BY StepKeepsContract DEF Atomic, Honest, Job
<1> QED BY <1>1, <1>2, PoliciesKeepTheirPromises, PTL DEF Spec, InsertsInOrder, Contract!Spec
=============================================================================
