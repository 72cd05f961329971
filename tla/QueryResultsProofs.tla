------------------------- MODULE QueryResultsProofs -------------------------
(***************************************************************************)
(* What TLAPS proves of module QueryResults, for any number of holders,    *)
(* rows, statements and queries.                                           *)
(***************************************************************************)
EXTENDS QueryResults, SequenceTheorems, TLAPS

Inv == TypeOK /\ BusyOnlyIfHeld

\* A query string is a sequence of at least one statement.
LEMMA QueryStringsAreSequences ==
    ASSUME NEW q \in QueryStrings
    PROVE  Head(q) \in Answers /\ Tail(q) \in Seq(Answers)
<1>1. PICK k \in 1 .. MaxStatements : q \in [1 .. k -> Answers]
      BY DEF QueryStrings
<1>2. q \in Seq(Answers) /\ q # <<>>
      BY <1>1, SizeAssumption
<1> QED BY <1>2, HeadTailProperties

\* The C API's calls keep a session well-formed; what they do to its status.
LEMMA RealQueryType ==
    ASSUME NEW s \in Session, NEW q \in QueryStrings
    PROVE  /\ RealQuery(s, q) \in Session
           /\ ~Failed(RealQuery(s, q)) => ~Busy(s)
           /\ RealQuery(s, q).status = "get" =>
                 s.status = "get" \/ ~Failed(RealQuery(s, q))
           /\ Busy(s) => RealQuery(s, q).status = s.status
           /\ ~Busy(s) => RealQuery(s, q).status # "use"
<1>1. Head(q) \in Answers /\ Tail(q) \in Seq(Answers)
      BY QueryStringsAreSequences
<1>2. CASE Busy(s)
      BY <1>2 DEF RealQuery, OutOfSync, Session, Failed
<1>3. CASE ~Busy(s)
      <2>1. RealQuery(s, q) = Arrive(s, Head(q), Tail(q))
            BY <1>3 DEF RealQuery
      <2>2. 0 \in 0 .. MaxRows /\ (Head(q).kind \in Returning) \in BOOLEAN
            BY SizeAssumption
      <2> QED BY <1>1, <1>3, <2>1, <2>2 
                DEF Arrive, Session, Answers, Failed, Busy, Returning
<1> QED BY <1>2, <1>3

LEMMA NextResultType ==
    ASSUME NEW s \in Session
    PROVE  /\ NextResult(s) \in Session
           /\ s.status # "ready" => NextResult(s).status = s.status
           /\ s.status = "ready" => NextResult(s).status # "use"
           /\ NextResult(s).status = "get" =>
                 s.status = "get" \/ (Moves(s) /\ ~Failed(NextResult(s)))
<1>1. CASE s.status # "ready"
      BY <1>1 DEF NextResult, OutOfSync, Session, Moves
<1>2. CASE s.status = "ready" /\ ~MoreResults(s)
      BY <1>2 DEF NextResult, Session, Moves
<1>3. CASE Moves(s)
      <2>1. Head(s.pending) \in Answers /\ Tail(s.pending) \in Seq(Answers)
            BY <1>3 DEF Moves, MoreResults, Session
      <2>2. NextResult(s) = Arrive(s, Head(s.pending), Tail(s.pending))
            BY <1>3 DEF NextResult, Moves
      <2>3. 0 \in 0 .. MaxRows /\ (Head(s.pending).kind \in Returning) \in BOOLEAN
            BY SizeAssumption
      <2> QED BY <1>3, <2>1, <2>2, <2>3 
                DEF Arrive, Session, Answers, Failed, Moves, Returning
<1> QED BY <1>1, <1>2, <1>3 DEF Moves

\* After store_result() the connection is not left with a result to fetch.
LEMMA StoredType ==
    ASSUME NEW s \in Session
    PROVE  /\ Stored(s) \in Session
           /\ s.status # "get" => Stored(s) = s
           /\ s.status = "get" /\ ~Failed(s) => Stored(s).status = "ready"
<1>1. ErrorOf(s.answer) \in {"ok", "sql"} /\ s.answer.n \in 0 .. MaxRows
      BY DEF ErrorOf, Session, Answers
<1> QED BY <1>1 DEF Stored, StoreResult, ReadOut, Session

LEMMA UsedType ==
    ASSUME NEW s \in Session
    PROVE  /\ Used(s) \in Session
           /\ s.status # "get" => Used(s) = s
           /\ s.status = "get" /\ ~Failed(s) => Used(s).status = "use"
           /\ Failed(Used(s)) = Failed(s)
BY DEF Used, UseResult, Session, Failed

LEMMA FreeResultType ==
    ASSUME NEW s \in Session
    PROVE  FreeResult(s) \in Session /\ FreeResult(s).status = "ready"
<1>1. ErrorOf(s.answer) \in {"ok", "sql"}
      BY DEF ErrorOf
<1> QED BY <1>1 DEF FreeResult, ReadOut, Session

LEMMA EmptiedType ==
    ASSUME NEW s \in Session
    PROVE  /\ Emptied(s) \in Session
           /\ s.status = "use" => Emptied(s).status = "ready"
           /\ s.status # "use" => Emptied(s) = s
<1>1. ErrorOf(s.answer) \in {"ok", "sql"} /\ s.answer.n \in 0 .. MaxRows
      BY DEF ErrorOf, Session, Answers
<1> QED BY <1>1 DEF Emptied, ReadOut, Session

LEMMA FetchRowType ==
    ASSUME NEW s \in Session, s.status = "use"
    PROVE  FetchRow(s) \in Session /\ FetchRow(s).status \in {"ready", "use"}
<1>1. ErrorOf(s.answer) \in {"ok", "sql"} /\ s.answer.n \in 0 .. MaxRows
      BY DEF ErrorOf, Session, Answers
<1>2. CASE HasRow(s)
      <2>1. s.read + 1 \in 0 .. MaxRows
            BY <1>1, <1>2, SizeAssumption DEF HasRow, Session
      <2> QED BY <1>2, <2>1 DEF FetchRow, Session
<1>3. CASE ~HasRow(s)
      BY <1>1, <1>3 DEF FetchRow, ReadOut, Session
<1> QED BY <1>2, <1>3


\* What assigning to a UseQueryResult leaves behind: nothing dangles, nothing
\* is without a holder, and the connection is freed with its last one.
LEMMA AssignKeeps ==
    ASSUME NEW s \in Session, NEW all, NEW wire \in all \cup {NoResult},
           NEW r \in all \cup {NoResult}, NEW v \in Holders,
           NoResult \notin all,
           holder \in [Holders -> all \cup {NoResult}],
           \A x \in all : x = r \/ \E w \in Holders : holder[w] = x,
           s.status # "get", s.status = "use" <=> wire # NoResult,
           Assign(v, r, s, wire, all)
    PROVE  /\ session' \in Session /\ results' \subseteq all
           /\ live' \in results' \cup {NoResult}
           /\ holder' \in [Holders -> results' \cup {NoResult}]
           /\ BusyOnlyIfHeld'
<1> DEFINE frees == LastHolder(v) /\ holder[v] # r
           stops == frees /\ holder[v] = wire
<1>1. /\ holder' = [holder EXCEPT ![v] = r]
      /\ results' = IF frees THEN all \ {holder[v]} ELSE all
      /\ live' = IF stops THEN NoResult ELSE wire
      /\ session' = IF stops THEN FreeResult(s) ELSE s
      BY DEF Assign
<1>2. /\ session' \in Session
      /\ session'.status # "get"
      /\ session'.status = "use" <=> live' # NoResult
      BY <1>1, FreeResultType
<1>3. /\ results' \subseteq all /\ live' \in results' \cup {NoResult}
      BY <1>1
<1>4. \A w \in Holders : holder'[w] \in results' \cup {NoResult}
      <2>1. holder'[v] \in results' \cup {NoResult}
            BY <1>1
      <2>2. ASSUME NEW w \in Holders \ {v}
            PROVE  holder'[w] \in results' \cup {NoResult}
            <3>1. holder'[w] = holder[w]
                  BY <1>1
            <3>2. frees => holder[w] # holder[v]
                  BY DEF LastHolder
            <3> QED BY <1>1, <3>1, <3>2
      <2> QED BY <2>1, <2>2
<1>5. ASSUME NEW x \in results'
      PROVE  \E w \in Holders : holder'[w] = x
      <2>1. CASE x = r
            BY <1>1, <2>1
      <2>2. CASE x # r
            <3>1. PICK w \in Holders : holder[w] = x
                  BY <1>3, <2>2
            <3>2. CASE w # v
                  BY <1>1, <3>1, <3>2
            <3>3. CASE w = v
                  \* v gives x up, and x survives: somebody else holds it.
                  <4>1. x # NoResult /\ ~frees
                        BY <1>1, <1>3, <3>1, <3>3
                  <4>2. PICK u \in Holders \ {v} : holder[u] = x
                        BY <2>2, <3>1, <3>3, <4>1 DEF LastHolder
                  <4> QED BY <1>1, <4>2
            <3> QED BY <3>2, <3>3
      <2> QED BY <2>1, <2>2
<1> QED BY <1>1, <1>2, <1>3, <1>4, <1>5 DEF BusyOnlyIfHeld

\* A step that leaves results and holders alone and the connection idle, or
\* as it was, keeps the invariant.
LEMMA HoldersUntouched ==
    ASSUME Inv, session' \in Session,
           UNCHANGED <<results, live, holder, throws>>,
           copacetic_' \in BOOLEAN, draining' \in BOOLEAN,
           taken' \in 0 .. MaxQueries, taken' >= taken,
           session'.status = session.status
               \/ (session.status = "ready" /\ session'.status = "ready")
    PROVE  Inv'
<1>1. taken \in 0 .. MaxQueries /\ 1 .. taken \subseteq 1 .. taken'
      BY HolderAssumption DEF Inv, TypeOK
<1>2. TypeOK'
      BY <1>1 DEF Inv, TypeOK
<1>3. BusyOnlyIfHeld'
      BY DEF Inv, BusyOnlyIfHeld
<1> QED BY <1>2, <1>3 DEF Inv

LEMMA BeginType ==
    ASSUME Inv, NEW q, NEW first, Idle, Begin(q, first)
    PROVE  /\ taken' \in 0 .. MaxQueries /\ taken' >= taken
           /\ ~Busy(session) => taken' = taken + 1
BY HolderAssumption DEF Inv, TypeOK, Idle, Begin

LEMMA AskedIsQueryStrings ==
    ASSUME NEW q \in Asked
    PROVE  q \in QueryStrings
<1>1. CASE Busy(session)
      <2>1. q = <<Fresh.answer>> /\ 1 \in 1 .. MaxStatements
            BY <1>1, SizeAssumption DEF Asked
      <2>2. Fresh.answer \in Answers /\ Fresh.answer.n = 0 /\ Fresh.answer.kind = "none"
            BY SizeAssumption DEF Fresh, Answers
      <2>3. q \in [1 .. 1 -> Answers]
            BY <2>1, <2>2
      <2> QED BY <2>1, <2>2, <2>3, SizeAssumption DEF QueryStrings, Wrong
<1>2. CASE ~Busy(session)
      BY <1>2 DEF Asked
<1> QED BY <1>1, <1>2

\* The connection after a query was refused, failed, or was begun.
LEMMA AfterUsed ==
    ASSUME Inv, NEW q \in QueryStrings
    PROVE  LET s == Used(RealQuery(session, q)) IN
           /\ s \in Session /\ s.status # "get"
           /\ Busy(session) => s.status = session.status /\ Failed(s)
           /\ ~Busy(session) /\ s.status = "use" => ~Failed(s)
<1>1. session \in Session /\ session.status # "get"
      BY DEF Inv, TypeOK, BusyOnlyIfHeld
<1>2. Busy(session) => Failed(RealQuery(session, q))
      BY <1>1 DEF RealQuery, OutOfSync, Failed, Session
<1> QED BY <1>1, <1>2, RealQueryType, UsedType DEF Failed


----------------------------------------------------------------------------
LEMMA InitInv == Init => Inv
<1> SUFFICES ASSUME Init PROVE Inv
    OBVIOUS
<1>1. Fresh \in Session /\ Fresh.status = "ready"
      <2>1. [kind |-> "none", n |-> 0] \in Answers /\ 0 \in 0 .. MaxRows
            BY SizeAssumption DEF Answers
      <2>2. <<>> \in Seq(Answers)
            OBVIOUS
      <2> QED BY <2>1, <2>2 DEF Fresh, Session
<1>2. TypeOK
      <2>1. /\ session \in Session /\ throws \in BOOLEAN
            /\ copacetic_ \in BOOLEAN /\ draining \in BOOLEAN
            BY <1>1 DEF Init
      <2>2. /\ results \subseteq 1 .. taken /\ live \in results \cup {NoResult}
            /\ taken \in 0 .. MaxQueries
            BY HolderAssumption DEF Init
      <2>3. holder \in [Holders -> results \cup {NoResult}]
            BY DEF Init
      <2> QED BY <2>1, <2>2, <2>3 DEF TypeOK
<1>3. BusyOnlyIfHeld
      BY <1>1 DEF Init, BusyOnlyIfHeld
<1> QED BY <1>2, <1>3 DEF Inv

LEMMA ExecInv ==
    ASSUME Inv, NEW q \in QueryStrings, Exec(q)
    PROVE  Inv'
<1>1. session \in Session /\ session.status # "get"
      BY DEF Inv, TypeOK, BusyOnlyIfHeld
<1>2. session' \in Session
      BY <1>1, RealQueryType DEF Exec
<1>3. taken' \in 0 .. MaxQueries /\ taken' >= taken
      BY BeginType DEF Exec
<1>4. CASE Busy(session)
      <2>1. session'.status = session.status
            BY <1>1, <1>4, RealQueryType DEF Exec
      <2> QED BY <1>2, <1>3, <2>1, HoldersUntouched DEF Exec, Inv, TypeOK
<1>5. CASE ~Busy(session)
      <2>1. q \in Seq(Answers) /\ q # <<>> /\ Head(q) = q[1] /\ 1 \in DOMAIN q
            <3>1. PICK k \in 1 .. MaxStatements : q \in [1 .. k -> Answers]
                  BY DEF QueryStrings
            <3> QED BY <3>1, SizeAssumption
      <2>2. Head(q).kind \notin Returning
            BY <2>1 DEF Exec
      <2>3. session'.status = "ready" /\ session.status = "ready"
            BY <1>1, <1>5, <2>2 DEF Exec, RealQuery, Arrive, Busy, Session
      <2> QED BY <1>2, <1>3, <2>3, HoldersUntouched DEF Exec, Inv, TypeOK
<1> QED BY <1>4, <1>5

LEMMA StoreInv ==
    ASSUME Inv, NEW q \in QueryStrings, Store(q)
    PROVE  Inv'
<1> DEFINE r == RealQuery(session, q)
<1>1. session \in Session /\ session.status # "get" /\ r \in Session
      BY RealQueryType DEF Inv, TypeOK, BusyOnlyIfHeld
<1>2. session' = Stored(r) /\ session' \in Session
      BY <1>1, StoredType DEF Store
<1>3. taken' \in 0 .. MaxQueries /\ taken' >= taken
      BY BeginType DEF Store
<1>4. session'.status = session.status
          \/ (session.status = "ready" /\ session'.status = "ready")
      <2>1. CASE Busy(session)
            <3>1. r.status = session.status
                  BY <1>1, <2>1, RealQueryType
            <3> HIDE DEF r
            <3> QED BY <1>1, <1>2, <3>1, StoredType
      <2>2. CASE ~Busy(session)
            <3>1. /\ r.status = "get" => ~Failed(r)
                  /\ r.status # "use" /\ session.status = "ready"
                  BY <1>1, <2>2, RealQueryType DEF Busy
            <3>2. Stored(r).status = "ready"
                  BY <1>1, <3>1, StoredType DEF Session
            <3> QED BY <1>2, <3>1, <3>2
      <2> QED BY <2>1, <2>2
<1> QED BY <1>2, <1>3, <1>4, HoldersUntouched DEF Store, Inv, TypeOK

LEMMA UseInv ==
    ASSUME Inv, NEW q \in QueryStrings, NEW v \in Holders, Use(v, q)
    PROVE  Inv'
<1> DEFINE s == Used(RealQuery(session, q))
           new == taken + 1
<1>1. /\ s \in Session /\ s.status # "get"
      /\ Busy(session) => s.status = session.status /\ Failed(s)
      /\ ~Busy(session) /\ s.status = "use" => ~Failed(s)
      BY AfterUsed
<1>2. /\ taken' \in 0 .. MaxQueries /\ taken' >= taken
      /\ ~Busy(session) => taken' = taken + 1
      BY BeginType DEF Use
<1>3. /\ results \subseteq 1 .. taken /\ taken \in 0 .. MaxQueries
      /\ live \in results \cup {NoResult}
      /\ holder \in [Holders -> results \cup {NoResult}]
      /\ throws' \in BOOLEAN /\ draining' \in BOOLEAN
      /\ copacetic_' \in BOOLEAN
      BY DEF Inv, TypeOK, Use
<1>4. NoResult \notin 1 .. taken'
      BY <1>2, HolderAssumption
<1>5. 1 .. taken \subseteq 1 .. taken' /\ results \subseteq 1 .. taken'
      BY <1>2, <1>3, HolderAssumption
<1>6. CASE Threw(s)
      <2>1. session' = s /\ UNCHANGED <<results, live, holder, throws>>
            BY <1>6 DEF Use
      <2>2. s.status = session.status
                \/ (session.status = "ready" /\ s.status = "ready")
            BY <1>1, <1>6 DEF Threw, Busy, Session
      <2> QED BY <1>1, <1>2, <1>3, <2>1, <2>2, HoldersUntouched
<1>7. CASE ~Threw(s) /\ ~Failed(s) /\ s.status = "use"
      <2>1. Assign(v, new, s, new, results \cup {new})
            BY <1>7 DEF Use
      <2>2. ~Busy(session) /\ taken' = new
            BY <1>1, <1>2, <1>7
      <2>3. new \in 1 .. taken' /\ new # NoResult
            BY <1>2, <1>3, <1>4, <2>2, HolderAssumption
      <2>4. \A x \in results : \E w \in Holders : holder[w] = x
            BY DEF Inv, BusyOnlyIfHeld
      <2>5. /\ session' \in Session /\ results' \subseteq results \cup {new}
            /\ live' \in results' \cup {NoResult}
            /\ holder' \in [Holders -> results' \cup {NoResult}]
            /\ BusyOnlyIfHeld'
            <3> HIDE DEF s, new
            <3>1. /\ NoResult \notin results \cup {new}
                  /\ holder \in [Holders -> (results \cup {new}) \cup {NoResult}]
                  /\ \A x \in results \cup {new} : x = new \/ \E w \in Holders : holder[w] = x
                  /\ s.status # "get" /\ (s.status = "use" <=> new # NoResult)
                  BY <1>3, <1>4, <1>5, <1>7, <2>3, <2>4
            <3> QED BY <1>1, <2>1, <3>1, AssignKeeps
      <2>6. results' \subseteq 1 .. taken'
            BY <1>5, <2>3, <2>5
      <2> QED BY <1>2, <1>3, <2>5, <2>6 DEF Inv, TypeOK
<1>8. CASE ~Threw(s) /\ ~(~Failed(s) /\ s.status = "use")
      <2>1. Assign(v, NoResult, s, live, results)
            BY <1>8 DEF Use
      <2>2. s.status = "use" <=> live # NoResult
            <3>1. session.status = "use" <=> live # NoResult
                  BY DEF Inv, BusyOnlyIfHeld
            <3>2. CASE Busy(session)
                  BY <1>1, <3>1, <3>2
            <3>3. CASE ~Busy(session)
                  BY <1>1, <1>8, <3>1, <3>3 DEF Busy
            <3> QED BY <3>2, <3>3
      <2>3. \A x \in results : \E w \in Holders : holder[w] = x
            BY DEF Inv, BusyOnlyIfHeld
      <2>4. /\ session' \in Session /\ results' \subseteq results
            /\ live' \in results' \cup {NoResult}
            /\ holder' \in [Holders -> results' \cup {NoResult}]
            /\ BusyOnlyIfHeld'
            <3> HIDE DEF s
            <3> QED BY <1>1, <1>3, <1>4, <1>5, <2>1, <2>2, <2>3, AssignKeeps
      <2> QED BY <1>2, <1>3, <1>5, <2>4 DEF Inv, TypeOK
<1> QED BY <1>6, <1>7, <1>8


LEMMA StoreinInv ==
    ASSUME Inv, NEW q \in QueryStrings, Storein(q)
    PROVE  Inv'
<1> DEFINE s == Used(RealQuery(session, q))
           e == IF Failed(s) THEN s ELSE Emptied(s)
<1>1. /\ s \in Session /\ s.status # "get"
      /\ Busy(session) => s.status = session.status /\ Failed(s)
      /\ ~Busy(session) /\ s.status = "use" => ~Failed(s)
      BY AfterUsed
<1>2. /\ taken' \in 0 .. MaxQueries /\ taken' >= taken
      /\ session' = e /\ copacetic_' \in BOOLEAN
      /\ UNCHANGED <<results, live, holder, throws, draining>>
      BY BeginType DEF Storein
<1>3. e \in Session
      <2> HIDE DEF s
      <2> QED BY <1>1, EmptiedType
<1>4. e.status = session.status \/ (session.status = "ready" /\ e.status = "ready")
      <2>1. CASE Busy(session)
            BY <1>1, <2>1
      <2>2. CASE ~Busy(session)
            <3>1. session.status = "ready"
                  BY <2>2 DEF Busy
            <3>2. e.status = "ready"
                  <4>1. s.status \in {"ready", "use"}
                        BY <1>1 DEF Session
                  <4> HIDE DEF s
                  <4> QED BY <1>1, <2>2, <4>1, EmptiedType
            <3> QED BY <3>1, <3>2
      <2> QED BY <2>1, <2>2
<1>5. session' \in Session /\ draining' \in BOOLEAN
      BY <1>2, <1>3 DEF Inv, TypeOK
<1> HIDE DEF e
<1> QED BY <1>2, <1>4, <1>5, HoldersUntouched

LEMMA ForEachInv ==
    ASSUME Inv, NEW q \in QueryStrings, NEW k \in Nat, ForEach(q, k)
    PROVE  Inv'
<1> DEFINE s == Used(RealQuery(session, q))
           opened == ~Failed(s) /\ s.status = "use"
           stops == opened /\ k < s.answer.n
           e == IF stops THEN Abandoned(s, k)
                ELSE IF opened THEN Emptied(s) ELSE s
<1>1. /\ s \in Session /\ s.status # "get"
      /\ Busy(session) => s.status = session.status /\ Failed(s)
      /\ ~Busy(session) /\ s.status = "use" => ~Failed(s)
      BY AfterUsed
<1>2. /\ taken' \in 0 .. MaxQueries /\ taken' >= taken
      /\ session' = e /\ copacetic_' \in BOOLEAN
      /\ UNCHANGED <<results, live, holder, throws, draining>>
      BY BeginType DEF ForEach
<1>3. stops => Abandoned(s, k) \in Session /\ Abandoned(s, k).status = "ready"
      <2> HIDE DEF s
      <2> SUFFICES ASSUME k < s.answer.n
                   PROVE  /\ Abandoned(s, k) \in Session
                          /\ Abandoned(s, k).status = "ready"
          OBVIOUS
      <2>1. k + 1 \in 0 .. MaxRows
            BY <1>1, SizeAssumption DEF Session, Answers
      <2>2. [s EXCEPT !.read = k + 1] \in Session
            BY <1>1, <2>1 DEF Session
      <2> QED BY <2>2, FreeResultType DEF Abandoned
<1>4. e \in Session
      <2> HIDE DEF s
      <2> QED BY <1>1, <1>3, EmptiedType
<1>5. e.status = session.status \/ (session.status = "ready" /\ e.status = "ready")
      <2>1. CASE Busy(session)
            BY <1>1, <2>1
      <2>2. CASE ~Busy(session)
            <3>1. session.status = "ready"
                  BY <2>2 DEF Busy
            <3>2. s.status \in {"ready", "use"}
                  BY <1>1 DEF Session
            <3>3. e.status = "ready"
                  <4> HIDE DEF s
                  <4> QED BY <1>1, <1>3, <2>2, <3>2, EmptiedType
            <3> QED BY <3>1, <3>3
      <2> QED BY <2>1, <2>2
<1>6. session' \in Session /\ draining' \in BOOLEAN
      BY <1>2, <1>4 DEF Inv, TypeOK
<1> HIDE DEF e
<1> QED BY <1>2, <1>5, <1>6, HoldersUntouched

LEMMA StoreNextInv ==
    ASSUME Inv, StoreNext
    PROVE  Inv'
<1> DEFINE r == NextResult(session)
<1>1. session \in Session /\ session.status # "get" /\ r \in Session
      BY NextResultType DEF Inv, TypeOK, BusyOnlyIfHeld
<1>2. session' = IF Moves(session) THEN Stored(r) ELSE r
      BY DEF StoreNext, Advanced
<1>3. /\ session' \in Session
      /\ session'.status = session.status
            \/ (session.status = "ready" /\ session'.status = "ready")
      <2>1. /\ session.status # "ready" => r.status = session.status
            /\ session.status = "ready" => r.status # "use"
            /\ r.status = "get" => Moves(session) /\ ~Failed(r)
            BY <1>1, NextResultType
      <2>2. r.status \in {"ready", "get", "use"}
            BY <1>1 DEF Session
      <2>3. Moves(session) => session.status = "ready"
            BY DEF Moves
      <2> HIDE DEF r
      <2>4. CASE Moves(session)
            BY <1>1, <1>2, <2>1, <2>2, <2>3, <2>4, StoredType
      <2>5. CASE ~Moves(session)
            BY <1>1, <1>2, <2>1, <2>2, <2>5 DEF Session
      <2> QED BY <2>4, <2>5
<1>4. /\ UNCHANGED <<results, live, holder, throws, copacetic_, taken>>
      /\ draining' \in BOOLEAN /\ copacetic_' \in BOOLEAN
      /\ taken' \in 0 .. MaxQueries /\ taken' >= taken
      BY HolderAssumption DEF StoreNext, Inv, TypeOK
<1> QED BY <1>3, <1>4, HoldersUntouched

LEMMA FetchFromInv ==
    ASSUME Inv, NEW v \in Holders, FetchFrom(v)
    PROVE  Inv'
<1>1. CASE holder[v] = live
      <2>1. session.status = "use" /\ session \in Session
            BY <1>1 DEF Inv, TypeOK, BusyOnlyIfHeld, FetchFrom
      <2>2. /\ FetchRow(session) \in Session
            /\ FetchRow(session).status \in {"ready", "use"}
            BY <2>1, FetchRowType
      <2>3. /\ session' = FetchRow(session)
            /\ live' = IF FetchRow(session).status = "ready" THEN NoResult ELSE live
            /\ live # NoResult
            /\ UNCHANGED <<results, holder, throws, copacetic_, draining, taken>>
            BY <1>1 DEF FetchFrom
      <2>4. TypeOK'
            BY <2>2, <2>3 DEF Inv, TypeOK
      <2>5. BusyOnlyIfHeld'
            BY <2>2, <2>3 DEF Inv, BusyOnlyIfHeld
      <2> QED BY <2>4, <2>5 DEF Inv
<1>2. CASE holder[v] # live
      BY <1>2 DEF FetchFrom, Inv, TypeOK, BusyOnlyIfHeld
<1> QED BY <1>1, <1>2

\* Copying and dropping a UseQueryResult.
LEMMA AssignInv ==
    ASSUME Inv, NEW v \in Holders, NEW r \in results \cup {NoResult},
           Assign(v, r, session, live, results),
           UNCHANGED <<throws, copacetic_, draining, taken>>
    PROVE  Inv'
<1>1. /\ session \in Session /\ live \in results \cup {NoResult}
      /\ holder \in [Holders -> results \cup {NoResult}]
      /\ results \subseteq 1 .. taken /\ taken \in 0 .. MaxQueries
      BY DEF Inv, TypeOK
<1>2. NoResult \notin results
      <2>1. 1 .. taken \subseteq 1 .. MaxQueries
            BY <1>1, HolderAssumption
      <2> QED BY <1>1, <2>1, HolderAssumption
<1>3. /\ session.status # "get" /\ (session.status = "use" <=> live # NoResult)
      /\ \A x \in results : \E w \in Holders : holder[w] = x
      BY DEF Inv, BusyOnlyIfHeld
<1>4. /\ session' \in Session /\ results' \subseteq results
      /\ live' \in results' \cup {NoResult}
      /\ holder' \in [Holders -> results' \cup {NoResult}]
      /\ BusyOnlyIfHeld'
      BY <1>1, <1>2, <1>3, AssignKeeps
<1> QED BY <1>4 DEF Inv, TypeOK

LEMMA PingInv ==
    ASSUME Inv, Ping
    PROVE  Inv'
<1>1. session \in Session
      BY DEF Inv, TypeOK
<1>2. session' \in Session /\ session'.status = session.status
      BY <1>1 DEF Ping, OutOfSync, Session
<1> QED BY <1>2, HolderAssumption, HoldersUntouched DEF Ping, Inv, TypeOK

LEMMA NextInv == Inv /\ [Next]_vars => Inv'
<1> SUFFICES ASSUME Inv, [Next]_vars PROVE Inv'
    OBVIOUS
<1>1. ASSUME NEW q \in Asked, Exec(q) PROVE Inv'
      BY <1>1, AskedIsQueryStrings, ExecInv
<1>2. ASSUME NEW q \in Asked, Store(q) PROVE Inv'
      BY <1>2, AskedIsQueryStrings, StoreInv
<1>3. ASSUME NEW q \in Asked, Storein(q) PROVE Inv'
      BY <1>3, AskedIsQueryStrings, StoreinInv
<1>4. ASSUME NEW q \in Asked, NEW v \in Holders, Use(v, q) PROVE Inv'
      BY <1>4, AskedIsQueryStrings, UseInv
<1>5. ASSUME NEW q \in Asked, NEW k \in 0 .. Head(q).n, ForEach(q, k) PROVE Inv'
      <2>1. k \in Nat
            BY AskedIsQueryStrings, QueryStringsAreSequences DEF Answers
      <2> QED BY <1>5, <2>1, AskedIsQueryStrings, ForEachInv
<1>6. CASE StoreNext
      BY <1>6, StoreNextInv
<1>7. CASE StartDrain \/ EndDrain \/ UNCHANGED vars
      BY <1>7 DEF StartDrain, EndDrain, vars, Inv, TypeOK, BusyOnlyIfHeld
<1>8. CASE Ping
      BY <1>8, PingInv
<1>9. ASSUME NEW v \in Holders, FetchFrom(v) PROVE Inv'
      BY <1>9, FetchFromInv
<1>10. ASSUME NEW v \in Holders, FetchFromNone(v) PROVE Inv'
      BY <1>10 DEF FetchFromNone, Inv, TypeOK, BusyOnlyIfHeld
<1>11. ASSUME NEW v \in Holders, DropResult(v) PROVE Inv'
      BY <1>11, AssignInv DEF DropResult
<1>12. ASSUME NEW v \in Holders, NEW w \in Holders, CopyResult(v, w) PROVE Inv'
      <2>1. holder[w] \in results \cup {NoResult}
            BY DEF Inv, TypeOK
      <2> QED BY <1>12, <2>1, AssignInv DEF CopyResult
<1> QED BY <1>1, <1>2, <1>3, <1>4, <1>5, <1>6, <1>7, <1>8, <1>9, <1>10,
           <1>11, <1>12 DEF Next

\* Whatever a program does with its results, every session, holder and
\* MYSQL_RES is what it should be: no UseQueryResult points to a result that
\* was freed (result.cpp:147, RefCountedPointer under UseQueryResult::copy).
THEOREM ResultsTyped == Spec => []TypeOK
<1>1. Inv => TypeOK
      BY DEF Inv
<1> QED BY InitInv, NextInv, <1>1, PTL DEF Spec

\* Between calls the connection is busy only with a result that some
\* UseQueryResult holds, and no MYSQL_RES is left without a holder: after
\* exceptions, refused queries and functors that throw as well.
THEOREM ConnectionBusyOnlyIfHeld == Spec => []BusyOnlyIfHeld
<1>1. Inv => BusyOnlyIfHeld
      BY DEF Inv
<1> QED BY InitInv, NextInv, <1>1, PTL DEF Spec

----------------------------------------------------------------------------
(***************************************************************************)
(* How calls end.  An error is not lost again before the call returns:     *)
(* freeing a result keeps its number or puts another in its place.         *)
(***************************************************************************)
LEMMA FailedStays ==
    ASSUME NEW s \in Session, Failed(s)
    PROVE  Used(s) = s /\ Failed(FreeResult(s))
<1>1. s.answer.kind = "cut" => ErrorOf(s.answer) = "sql"
      BY DEF ErrorOf, Wrong
<1> QED BY <1>1 DEF Used, Failed, FreeResult, ReadOut, Session

\* Only a statement that returns rows has fields, and use() opens it.
LEMMA FieldsAreOpened ==
    ASSUME Inv, NEW q \in QueryStrings
    PROVE  LET s == Used(RealQuery(session, q))
           IN  ~Failed(s) /\ s.fields => s.status = "use"
<1>1. session \in Session /\ Head(q) \in Answers /\ Tail(q) \in Seq(Answers)
      BY QueryStringsAreSequences DEF Inv, TypeOK
<1>2. CASE Busy(session)
      <2>1. Failed(RealQuery(session, q)) /\ RealQuery(session, q) \in Session
            BY <1>1, <1>2, RealQueryType DEF RealQuery, OutOfSync, Failed, Session
      <2> QED BY <2>1, FailedStays
<1>3. CASE ~Busy(session)
      <2>1. RealQuery(session, q) = Arrive(session, Head(q), Tail(q))
            BY <1>3 DEF RealQuery
      <2>2. PICK r \in Session : r = RealQuery(session, q)
            BY <1>1, RealQueryType
      <2>3. r.fields => r.status = "get"
            BY <1>1, <2>1, <2>2 DEF Arrive, Session
      <2>4. ~Failed(Used(r)) /\ Used(r).fields => Used(r).status = "use"
            BY <2>2, <2>3 DEF Used, UseResult, Session, Failed
      <2> QED BY <2>2, <2>4
<1> QED BY <1>2, <1>3

LEMMA ToldQuery ==
    ASSUME Inv, NEW q \in QueryStrings,
           \/ Exec(q) \/ Store(q) \/ Storein(q)
           \/ \E k \in Nat : ForEach(q, k)
           \/ \E v \in Holders : Use(v, q)
    PROVE  Told'
<1>1. throws \in BOOLEAN
      BY DEF Inv, TypeOK
<1>2. CASE Exec(q)
      BY <1>1, <1>2 DEF Exec, Tell, Told, Threw, Failed
<1>3. CASE Store(q)
      <2>1. PICK s : s = Stored(RealQuery(session, q))
            OBVIOUS
      <2>2. /\ session' = s /\ copacetic_' = ~Failed(s) /\ throws' = throws
            /\ Tell("store", Failed(s), Threw(s))
            BY <1>3, <2>1 DEF Store
      <2> QED BY <1>1, <2>2 DEF Tell, Told, Threw, Failed
<1>4. PICK s : s = Used(RealQuery(session, q))
      OBVIOUS
<1>5. s \in Session /\ (~Failed(s) /\ s.fields => s.status = "use")
      BY <1>4, AfterUsed, FieldsAreOpened
<1>6. CASE Storein(q)
      <2>1. PICK e : e = IF Failed(s) THEN s ELSE Emptied(s)
            OBVIOUS
      <2>2. PICK threw \in BOOLEAN : threw = (Failed(s) /\ throws)
            OBVIOUS
      <2>3. session' = e /\ throws' = throws /\ Tell("storein", Failed(e), threw)
            BY <1>4, <1>5, <1>6, <2>1, <2>2 DEF Storein
      <2> QED BY <1>1, <2>1, <2>2, <2>3 DEF Tell, Told, Failed
<1>7. ASSUME NEW k \in Nat, ForEach(q, k) PROVE Told'
      <2> DEFINE opened == ~Failed(s) /\ s.status = "use"
      <2>1. throws' = throws
            BY <1>7 DEF ForEach
      <2>2. CASE opened /\ k < s.answer.n
            BY <1>4, <1>7, <2>2 DEF ForEach, Tell, Told
      <2>3. CASE ~(opened /\ k < s.answer.n)
            <3>1. PICK e : e = IF opened THEN Emptied(s) ELSE s
                  OBVIOUS
            <3>2. session' = e /\ Tell("for_each", Failed(e), Threw(s))
                  BY <1>4, <1>7, <2>3, <3>1 DEF ForEach
            <3>3. Threw(s) => Failed(e) /\ throws
                  BY <3>1 DEF Threw
            <3> QED BY <1>1, <2>1, <3>2, <3>3 DEF Tell, Told, Failed, Threw
      <2> QED BY <2>2, <2>3
<1>8. ASSUME NEW v \in Holders, Use(v, q) PROVE Told'
      <2>1. /\ copacetic_' = ~Failed(s) /\ throws' = throws
            /\ Tell("use", Failed(s), Threw(s))
            BY <1>4, <1>8 DEF Use
      <2>2. Failed(s) => session' \in {s, FreeResult(s)}
            BY <1>4, <1>8 DEF Use, Assign
      <2>3. Failed(s) => Failed(session')
            BY <1>5, <2>2, FailedStays
      <2> QED BY <1>1, <2>1, <2>3 DEF Tell, Told, Failed, Threw
<1> QED BY <1>2, <1>3, <1>6, <1>7, <1>8

LEMMA ToldStep == Inv /\ Told /\ [Next]_vars => Told'
<1> SUFFICES ASSUME Inv, Told, [Next]_vars PROVE Told'
    OBVIOUS
<1>1. throws \in BOOLEAN
      BY DEF Inv, TypeOK
<1>2. ASSUME NEW q \in Asked, Exec(q) \/ Store(q) \/ Storein(q) PROVE Told'
      BY <1>2, AskedIsQueryStrings, ToldQuery
<1>3. ASSUME NEW q \in Asked, NEW v \in Holders, Use(v, q) PROVE Told'
      BY <1>3, AskedIsQueryStrings, ToldQuery
<1>4. ASSUME NEW q \in Asked, NEW k \in 0 .. Head(q).n, ForEach(q, k) PROVE Told'
      <2>1. k \in Nat
            BY AskedIsQueryStrings, QueryStringsAreSequences DEF Answers
      <2> QED BY <1>4, <2>1, AskedIsQueryStrings, ToldQuery
<1>5. CASE StoreNext
      <2>1. PICK s : s = Advanced(session)
            OBVIOUS
      <2>2. session' = s /\ throws' = throws /\ Tell("store_next", Failed(s), Threw(s))
            BY <1>5, <2>1 DEF StoreNext
      <2> QED BY <1>1, <2>2 DEF Tell, Told, Threw, Failed
<1>6. CASE StartDrain \/ EndDrain \/ UNCHANGED vars
      BY <1>6 DEF StartDrain, EndDrain, vars, Told
<1>7. CASE Ping
      <2>1. session \in Session
            BY DEF Inv, TypeOK
      <2> QED BY <1>7, <2>1 DEF Ping, Tell, Told, OutOfSync, Session
<1>8. ASSUME NEW v \in Holders, FetchFrom(v) PROVE Told'
      <2>1. CASE holder[v] = live
            <3>1. PICK s : s = FetchRow(session)
                  OBVIOUS
            <3>2. session' = s /\ Tell("fetch", Failed(s), FALSE)
                  BY <1>8, <2>1, <3>1 DEF FetchFrom
            <3> QED BY <3>2 DEF Tell, Told, Failed
      <2>2. CASE holder[v] # live
            BY <1>8, <2>2 DEF FetchFrom, Tell, Told
      <2> QED BY <2>1, <2>2
<1>9. ASSUME NEW v \in Holders, FetchFromNone(v) \/ DropResult(v) PROVE Told'
      <2>1. CASE FetchFromNone(v)
            <3>1. Exceptions(v)
                  BY <2>1 DEF FetchFromNone, Exceptions
            <3>2. told' = [call |-> "fetch_none", missed |-> TRUE, threw |-> TRUE]
                  BY <2>1, <3>1 DEF FetchFromNone, Tell
            <3> QED BY <3>2 DEF Told
      <2>2. CASE DropResult(v)
            BY <2>2 DEF DropResult, Tell, Told
      <2> QED BY <1>9, <2>1, <2>2
<1>10. ASSUME NEW v \in Holders, NEW w \in Holders, CopyResult(v, w) PROVE Told'
      BY <1>10 DEF CopyResult, Tell, Told
<1> QED BY <1>2, <1>3, <1>4, <1>5, <1>6, <1>7, <1>8, <1>9, <1>10 DEF Next

\* A call that brought less than it should is told from one that did not:
\* by errnum(), by a false query object, and by an exception if asked for;
\* only fetch_row() of an empty result throws unasked, and it always does
\* (query.cpp:552, query.cpp:585, query.cpp:684, result.cpp:168).
THEOREM FailuresAreTold == Spec => []Told
<1>1. Init => Told
      BY DEF Init, Told
<1> QED BY <1>1, InitInv, NextInv, ToldStep, PTL DEF Spec

----------------------------------------------------------------------------
(***************************************************************************)
(* What a call does to a result that is being read.                        *)
(***************************************************************************)
ReadingGoesOn == live' = live /\ session'.read = session.read

\* A connection with a result in use refuses every query.
LEMMA RefusedQuery ==
    ASSUME Inv, live # NoResult, NEW q
    PROVE  LET s == RealQuery(session, q) IN
           /\ Failed(s) /\ s.read = session.read
           /\ Stored(s) = s /\ Used(s) = s
<1>1. session \in Session /\ session.status = "use"
      BY DEF Inv, TypeOK, BusyOnlyIfHeld
<1>2. RealQuery(session, q) = OutOfSync(session)
      BY <1>1 DEF RealQuery, Busy
<1>3. OutOfSync(session).errno = "sync" /\ OutOfSync(session).read = session.read
      BY <1>1 DEF OutOfSync, Session
<1> QED BY <1>2, <1>3 DEF Failed, Stored, Used

\* An assignment stops the reading only with the result's last holder.
LEMMA AssignReads ==
    ASSUME Inv, live # NoResult, NEW v \in Holders, NEW r, NEW s, NEW all,
           s.read = session.read, Assign(v, r, s, live, all),
           \E w \in Holders : holder'[w] = live
    PROVE  ReadingGoesOn
<1>1. PICK w \in Holders : holder'[w] = live
      OBVIOUS
<1>2. holder' = [holder EXCEPT ![v] = r] /\ DOMAIN holder = Holders
      BY DEF Assign, Inv, TypeOK
<1>3. ~(LastHolder(v) /\ holder[v] # r /\ holder[v] = live)
      BY <1>1, <1>2 DEF LastHolder
<1> QED BY <1>3 DEF Assign, ReadingGoesOn

LEMMA ReadingStep ==
    ASSUME Inv, Next, live # NoResult, \E w \in Holders : holder'[w] = live
    PROVE  ReadingGoesOn \/ told'.call = "fetch"
<1>1. session \in Session /\ session.status = "use"
      BY DEF Inv, TypeOK, BusyOnlyIfHeld
<1>2. ASSUME NEW q \in Asked, Exec(q) \/ Store(q) \/ Storein(q) PROVE ReadingGoesOn
      <2>1. session' = RealQuery(session, q) /\ live' = live
            BY <1>2, RefusedQuery DEF Exec, Store, Storein
      <2> QED BY <2>1, RefusedQuery DEF ReadingGoesOn
<1>3. ASSUME NEW q \in Asked, NEW v \in Holders, Use(v, q) PROVE ReadingGoesOn
      <2>1. PICK s : s = RealQuery(session, q)
            OBVIOUS
      <2>2. Failed(s) /\ s.read = session.read /\ Used(s) = s
            BY <2>1, RefusedQuery
      <2>3. \/ session' = s /\ live' = live
            \/ Assign(v, NoResult, s, live, results)
            BY <1>3, <2>1, <2>2 DEF Use
      <2> QED BY <2>2, <2>3, AssignReads DEF ReadingGoesOn
<1>4. ASSUME NEW q \in Asked, NEW k \in 0 .. Head(q).n, ForEach(q, k)
      PROVE  ReadingGoesOn
      <2>1. session' = RealQuery(session, q) /\ live' = live
            BY <1>4, RefusedQuery DEF ForEach
      <2> QED BY <2>1, RefusedQuery DEF ReadingGoesOn
<1>5. OutOfSync(session).read = session.read
      BY <1>1 DEF OutOfSync, Session
<1>6. CASE StoreNext
      <2>1. Advanced(session) = OutOfSync(session)
            BY <1>1 DEF Advanced, Moves, NextResult
      <2> QED BY <1>5, <1>6, <2>1 DEF StoreNext, ReadingGoesOn
<1>7. CASE StartDrain \/ EndDrain
      BY <1>7 DEF StartDrain, EndDrain, ReadingGoesOn
<1>8. CASE Ping
      BY <1>1, <1>5, <1>8 DEF Ping, Busy, ReadingGoesOn
<1>9. ASSUME NEW v \in Holders, FetchFrom(v) PROVE told'.call = "fetch"
      BY <1>9 DEF FetchFrom, Tell
<1>10. ASSUME NEW v \in Holders, FetchFromNone(v) PROVE ReadingGoesOn
      BY <1>10 DEF FetchFromNone, ReadingGoesOn
<1>11. ASSUME NEW v \in Holders, DropResult(v) PROVE ReadingGoesOn
      BY <1>11, AssignReads DEF DropResult
<1>12. ASSUME NEW v \in Holders, NEW w \in Holders, CopyResult(v, w)
       PROVE  ReadingGoesOn
      BY <1>12, AssignReads DEF CopyResult
<1> QED BY <1>2, <1>3, <1>4, <1>6, <1>7, <1>8, <1>9, <1>10, <1>11, <1>12 DEF Next

\* A result that is being read, and that somebody still holds after a step,
\* is where it was: a refused query, ping() or store_next(), and assigning
\* or destroying another of its holders, take no row away.
THEOREM UnreadRowsStay == Spec => UnreadRowsKept
<1>1. ASSUME Inv, [Next]_vars
      PROVE  [live # NoResult /\ (\E v \in Holders : holder'[v] = live) =>
                 \/ live' = live /\ session'.read = session.read
                 \/ told'.call = "fetch"]_vars
      BY <1>1, ReadingStep DEF ReadingGoesOn
<1> QED BY <1>1, InitInv, NextInv, PTL DEF Spec, UnreadRowsKept

----------------------------------------------------------------------------
(***************************************************************************)
(* The order of the results.  InOrder is not inductive: it does not say    *)
(* which statements are pending, or which one a result being read belongs  *)
(* to.  HistoryKept does.                                                  *)
(***************************************************************************)
HInv == Inv /\ HistoryKept /\ InOrder

Items == [how : {"store", "use"}, rows : 0 .. MaxRows]

LEMMA QueryStringFacts ==
    ASSUME NEW q \in QueryStrings
    PROVE  /\ q \in Seq(Answers) /\ q # <<>> /\ 1 \in DOMAIN q
           /\ Head(q) = q[1] /\ q[1] \in Answers /\ Tail(q) \in Seq(Answers)
           /\ Len(q) \in Nat \ {0} /\ Len(Tail(q)) = Len(q) - 1
           /\ \A i \in DOMAIN Tail(q) : Tail(q)[i] = q[1 + i]
           /\ \A i \in DOMAIN q : /\ q[i].kind \notin Returning => q[i].n = 0
                                  /\ q[i].kind \in Wrong => i = Len(q)
<1>1. PICK k \in 1 .. MaxStatements : q \in [1 .. k -> Answers]
      BY DEF QueryStrings
<1>2. q \in Seq(Answers) /\ q # <<>> /\ 1 \in DOMAIN q
      BY <1>1, SizeAssumption
<1> QED BY <1>2, HeadTailProperties DEF QueryStrings

\* What storing, or using, the statement that arrived comes to.
LEMMA ArriveFacts ==
    ASSUME NEW s \in Session, NEW a \in Answers, NEW rest \in Seq(Answers),
           a.kind \notin Returning => a.n = 0,
           NEW r, r = Arrive(s, a, rest)
    PROVE  /\ Stored(r).pending = rest /\ Stored(r).status = "ready"
           /\ Failed(Stored(r)) <=> a.kind \in Wrong
           /\ ~Failed(Stored(r)) => Stored(r).read = a.n
           /\ Used(r).pending = rest /\ Used(r).answer = a /\ Used(r).read = 0
           /\ Failed(Used(r)) <=> a.kind = "fail"
<1>1. r = Arrive(s, a, rest)
      OBVIOUS
<1>2. /\ r.status = IF a.kind \in Returning THEN "get" ELSE "ready"
      /\ r.answer = a /\ r.read = 0 /\ r.pending = rest
      /\ r.errno = IF a.kind = "fail" THEN "sql" ELSE "ok"
      BY <1>1 DEF Arrive, Session
<1>3. r \in Session
      <2>1. 0 \in 0 .. MaxRows /\ (a.kind \in Returning) \in BOOLEAN
            BY SizeAssumption
      <2> QED BY <1>1, <2>1 DEF Arrive, Session
<1>4. /\ Used(r).pending = rest /\ Used(r).answer = a /\ Used(r).read = 0
      /\ Failed(Used(r)) <=> a.kind = "fail"
      BY <1>2, <1>3 DEF Used, UseResult, Failed, Session
<1>5. CASE a.kind \in Returning
      <2>1. Stored(r) = [ReadOut(r) EXCEPT !.read = a.n]
            BY <1>2, <1>5 DEF Stored, StoreResult, Failed, Returning
      <2>2. /\ Stored(r).pending = rest /\ Stored(r).status = "ready"
            /\ Stored(r).errno = (IF a.kind \in Wrong THEN "sql" ELSE "ok")
            /\ Stored(r).read = a.n
            BY <1>2, <1>3, <2>1 DEF ReadOut, ErrorOf, Session
      <2> QED BY <1>1, <1>4, <2>2 DEF Failed
<1>6. CASE a.kind \notin Returning
      <2>1. Stored(r) = r /\ a.kind \in {"none", "fail"}
            BY <1>2, <1>6 DEF Stored, StoreResult, Answers, Returning
      <2> QED BY <1>1, <1>2, <1>4, <1>6, <2>1 DEF Failed, Wrong
<1> QED BY <1>5, <1>6

\* A call that gives the program nothing leaves the history as it was.
LEMMA SameHistory ==
    ASSUME HInv, UNCHANGED <<sent, got>>,
           session'.pending = session.pending,
           session'.status = "use" => /\ session.status = "use"
                                      /\ session'.read = session.read
                                      /\ session'.answer = session.answer
    PROVE  HistoryKept' /\ InOrder'
BY DEF HInv, HistoryKept, InOrder

\* A query begins a new history, with what its first statement gave.
LEMMA HistoryBegins ==
    ASSUME NEW q \in QueryStrings, sent' = q,
           session'.pending = Tail(q),
           \/ /\ got' = <<>> /\ q[1].kind \in Wrong
              /\ session'.status # "use"
           \/ \E how \in {"store", "use"}, n \in 0 .. MaxRows :
                 /\ got' = <<Given(how, n)>>
                 /\ n <= q[1].n
                 /\ how = "store" => n = q[1].n /\ q[1].kind \in {"rows", "none"}
                 /\ session'.status = "use" =>
                       how = "use" /\ n = session'.read /\ session'.answer = q[1]
    PROVE  HistoryKept' /\ InOrder'
<1>1. /\ q \in Seq(Answers) /\ Len(q) \in Nat \ {0} /\ 1 \in DOMAIN q
      /\ Len(Tail(q)) = Len(q) - 1
      /\ \A i \in DOMAIN Tail(q) : Tail(q)[i] = q[1 + i]
      /\ q[1].kind \in Wrong => Len(q) = 1
      BY QueryStringFacts
<1>2. CASE got' = <<>> /\ q[1].kind \in Wrong /\ session'.status # "use"
      <2>1. Tail(q) = <<>> /\ Len(q) = 1
            BY <1>1, <1>2, QueryStringFacts
      <2>2. HistoryKept'
            BY <1>2, <2>1 DEF HistoryKept
      <2> QED BY <1>2, <2>1, <2>2 DEF InOrder
<1>3. ASSUME NEW how \in {"store", "use"}, NEW n \in 0 .. MaxRows,
             got' = <<Given(how, n)>>, n <= q[1].n,
             how = "store" => n = q[1].n /\ q[1].kind \in {"rows", "none"},
             session'.status = "use" =>
                 how = "use" /\ n = session'.read /\ session'.answer = q[1]
      PROVE  HistoryKept' /\ InOrder'
      <2>1. /\ got' \in Seq(Items) /\ Len(got') = 1 /\ got' # <<>>
            /\ got'[1].how = how /\ got'[1].rows = n /\ DOMAIN got' = {1}
            BY <1>3 DEF Given, Items
      <2>2. HistoryKept'
            <3>1. \A i \in DOMAIN session'.pending : session'.pending[i] = sent'[Len(got') + i]
                  BY <1>1, <2>1
            <3> QED BY <1>3, <2>1, <3>1 DEF HistoryKept, Items, Given
      <2>3. InOrder'
            <3>1. Len(got') + Len(session'.pending) = Len(sent')
                  BY <1>1, <2>1
            <3> QED BY <1>3, <2>1, <3>1 DEF InOrder
      <2> QED BY <2>2, <2>3
<1> QED BY <1>2, <1>3

\* Where a query gets to: refused on a busy connection, begun on an idle one.
LEMMA QueryArrives ==
    ASSUME Inv, NEW q \in QueryStrings
    PROVE  LET r == RealQuery(session, q) IN
           /\ Busy(session) =>
                 /\ r = OutOfSync(session) /\ Failed(r)
                 /\ Stored(r) = r /\ Used(r) = r
           /\ ~Busy(session) => r = Arrive(session, q[1], Tail(q))
BY QueryStringFacts DEF Inv, TypeOK, RealQuery, OutOfSync, Failed, Session,
                        Stored, Used

LEMMA OutOfSyncHistory ==
    ASSUME HInv, UNCHANGED <<sent, got>>, session' = OutOfSync(session)
    PROVE  HistoryKept' /\ InOrder'
<1>1. session \in Session
      BY DEF HInv, Inv, TypeOK
<1> QED BY <1>1, SameHistory DEF OutOfSync, Session

LEMMA ExecHistory ==
    ASSUME HInv, NEW q \in QueryStrings, Exec(q)
    PROVE  HistoryKept' /\ InOrder'
<1>1. Inv /\ session \in Session
      BY DEF HInv, Inv, TypeOK
<1>2. CASE Busy(session)
      BY <1>1, <1>2, QueryArrives, OutOfSyncHistory DEF Exec, Begin
<1>3. CASE ~Busy(session)
      <2>1. PICK s : s = RealQuery(session, q)
            OBVIOUS
      <2>2. s = Arrive(session, q[1], Tail(q)) /\ q[1].kind \notin Returning
            BY <1>1, <1>3, <2>1, QueryArrives, QueryStringFacts DEF Exec
      <2>3. /\ s.status = "ready" /\ s.pending = Tail(q)
            /\ Failed(s) => q[1].kind \in Wrong
            /\ ~Failed(s) => q[1].kind = "none" /\ q[1].n = 0
            BY <1>1, <2>2, QueryStringFacts
               DEF Arrive, Session, Failed, Returning, Wrong, Answers
      <2>4. /\ session' = s /\ sent' = q
            /\ got' = IF Failed(s) THEN <<>> ELSE <<Given("store", 0)>>
            BY <1>3, <2>1 DEF Exec, Begin
      <2>5. 0 \in 0 .. MaxRows
            BY SizeAssumption
      <2> QED BY <2>3, <2>4, <2>5, HistoryBegins
<1> QED BY <1>2, <1>3

LEMMA StoreHistory ==
    ASSUME HInv, NEW q \in QueryStrings, Store(q)
    PROVE  HistoryKept' /\ InOrder'
<1>1. Inv /\ session \in Session
      BY DEF HInv, Inv, TypeOK
<1>2. CASE Busy(session)
      BY <1>1, <1>2, QueryArrives, OutOfSyncHistory DEF Store, Begin
<1>3. CASE ~Busy(session)
      <2>1. PICK s : s = Stored(RealQuery(session, q))
            OBVIOUS
      <2>2. /\ q[1] \in Answers /\ Tail(q) \in Seq(Answers)
            /\ q[1].kind \notin Returning => q[1].n = 0
            /\ s = Stored(Arrive(session, q[1], Tail(q)))
            BY <1>1, <1>3, <2>1, QueryArrives, QueryStringFacts
      <2>3. /\ s.status = "ready" /\ s.pending = Tail(q)
            /\ Failed(s) => q[1].kind \in Wrong
            /\ ~Failed(s) => s.read = q[1].n /\ q[1].kind \in {"rows", "none"}
            <3>1. PICK a \in Answers, rest \in Seq(Answers) :
                      a = q[1] /\ rest = Tail(q)
                  BY <2>2
            <3>2. PICK r : r = Arrive(session, a, rest)
                  OBVIOUS
            <3>3. s = Stored(r) /\ (a.kind \notin Returning => a.n = 0)
                  BY <2>2, <3>1, <3>2
            <3>4. /\ Stored(r).pending = rest /\ Stored(r).status = "ready"
                  /\ Failed(Stored(r)) <=> a.kind \in Wrong
                  /\ ~Failed(Stored(r)) => Stored(r).read = a.n
                  BY <1>1, <3>2, <3>3, ArriveFacts
            <3> QED BY <3>1, <3>3, <3>4 DEF Wrong, Answers
      <2>4. /\ session' = s /\ sent' = q
            /\ got' = IF Failed(s) THEN <<>> ELSE <<Given("store", s.read)>>
            BY <1>3, <2>1 DEF Store, Begin
      <2>5. q[1].n \in 0 .. MaxRows /\ q[1].n <= q[1].n
            BY <2>2 DEF Answers
      <2> QED BY <2>3, <2>4, <2>5, HistoryBegins
<1> QED BY <1>2, <1>3

\* What use() makes of a query on an idle connection.
LEMMA UsedQuery ==
    ASSUME Inv, NEW q \in QueryStrings, ~Busy(session)
    PROVE  LET s == Used(RealQuery(session, q)) IN
           /\ s \in Session /\ s.pending = Tail(q) /\ s.answer = q[1] /\ s.read = 0
           /\ Failed(s) => q[1].kind \in Wrong /\ s.status # "use"
           /\ s.status # "use" /\ ~Failed(s) => q[1].n = 0
           /\ q[1].n \in 0 .. MaxRows
<1>1. PICK s : s = Used(RealQuery(session, q))
      OBVIOUS
<1>2. session \in Session /\ s \in Session /\ (s.status = "use" => ~Failed(s))
      BY <1>1, AfterUsed DEF Inv, TypeOK
<1>3. /\ q[1] \in Answers /\ Tail(q) \in Seq(Answers)
      /\ q[1].kind \notin Returning => q[1].n = 0
      /\ s = Used(Arrive(session, q[1], Tail(q)))
      BY <1>1, QueryArrives, QueryStringFacts
<1>4. /\ s.pending = Tail(q) /\ s.answer = q[1] /\ s.read = 0
      /\ Failed(s) <=> q[1].kind = "fail"
      <2>1. PICK a \in Answers, rest \in Seq(Answers) : a = q[1] /\ rest = Tail(q)
            BY <1>3
      <2>2. PICK r : r = Arrive(session, a, rest)
            OBVIOUS
      <2>3. s = Used(r) /\ (a.kind \notin Returning => a.n = 0)
            BY <1>3, <2>1, <2>2
      <2>4. /\ Used(r).pending = rest /\ Used(r).answer = a /\ Used(r).read = 0
            /\ Failed(Used(r)) <=> a.kind = "fail"
            BY <1>2, <2>2, <2>3, ArriveFacts
      <2> QED BY <2>1, <2>3, <2>4
<1>5. q[1].kind \in Returning /\ ~Failed(s) => s.status = "use"
      BY <1>2, <1>3, <1>4 DEF Used, UseResult, Arrive, Session, Failed
<1> QED BY <1>1, <1>2, <1>3, <1>4, <1>5 DEF Wrong, Answers

LEMMA UseHistory ==
    ASSUME HInv, NEW q \in QueryStrings, NEW v \in Holders, Use(v, q)
    PROVE  HistoryKept' /\ InOrder'
<1>1. Inv /\ session \in Session
      BY DEF HInv, Inv, TypeOK
<1>2. PICK s : s = Used(RealQuery(session, q))
      OBVIOUS
<1>3. s \in Session /\ s.status # "get"
      BY <1>1, <1>2, AfterUsed
<1>4. session' \in {s, FreeResult(s)}
      BY <1>2 DEF Use, Assign
<1>5. FreeResult(s).pending = s.pending /\ FreeResult(s).status = "ready"
      BY <1>3 DEF FreeResult, ReadOut, Session
<1>6. CASE Busy(session)
      <2>1. s = OutOfSync(session) /\ UNCHANGED <<sent, got>>
            BY <1>1, <1>2, <1>6, QueryArrives DEF Use, Begin
      <2>2. /\ s.pending = session.pending /\ s.status = session.status
            /\ s.read = session.read /\ s.answer = session.answer
            BY <1>1, <2>1 DEF OutOfSync, Session
      <2> QED BY <1>4, <1>5, <2>1, <2>2, SameHistory
<1>7. CASE ~Busy(session)
      <2>1. /\ s.pending = Tail(q) /\ s.answer = q[1] /\ s.read = 0
            /\ Failed(s) => q[1].kind \in Wrong /\ s.status # "use"
            /\ q[1].n \in 0 .. MaxRows
            BY <1>1, <1>2, <1>7, UsedQuery
      <2>2. /\ sent' = q
            /\ got' = IF Failed(s) THEN <<>> ELSE <<Given("use", 0)>>
            BY <1>2, <1>7 DEF Use, Begin
      <2>3. /\ session'.pending = Tail(q)
            /\ session'.status = "use" => session' = s
            BY <1>4, <1>5, <2>1
      <2>4. CASE Failed(s)
            BY <1>4, <1>5, <2>1, <2>2, <2>3, <2>4, HistoryBegins
      <2>5. CASE ~Failed(s)
            <3>1. 0 \in 0 .. MaxRows /\ 0 <= q[1].n
                  BY <2>1, SizeAssumption
            <3> QED BY <2>1, <2>2, <2>3, <2>5, <3>1, HistoryBegins
      <2> QED BY <2>4, <2>5
<1> QED BY <1>6, <1>7

\* storein() and for_each(): one statement read to its end, or given up.
LEMMA ReadThroughHistory ==
    ASSUME HInv, NEW q \in QueryStrings, NEW k \in Nat, Storein(q) \/ ForEach(q, k)
    PROVE  HistoryKept' /\ InOrder'
<1>1. Inv /\ session \in Session
      BY DEF HInv, Inv, TypeOK
<1>2. PICK s : s = Used(RealQuery(session, q))
      OBVIOUS
<1>3. s \in Session /\ s.status # "get"
      BY <1>1, <1>2, AfterUsed
<1>4. PICK e : e = session'
      OBVIOUS
<1>5. /\ Begin(q, IF Failed(s) THEN <<>> ELSE <<Given("use", e.read)>>)
      /\ \/ e = s /\ (s.status = "use" => Failed(s))
         \/ ~Failed(s) /\ s.status = "use" /\ e = Emptied(s)
         \/ ~Failed(s) /\ s.status = "use" /\ k < s.answer.n /\ e = Abandoned(s, k)
      BY <1>2, <1>4 DEF Storein, ForEach, Emptied
<1>6. CASE Busy(session)
      <2>1. s = OutOfSync(session) /\ Failed(s) /\ UNCHANGED <<sent, got>>
            BY <1>1, <1>2, <1>5, <1>6, QueryArrives DEF Begin
      <2> QED BY <1>4, <1>5, <2>1, OutOfSyncHistory
<1>7. CASE ~Busy(session)
      <2>1. /\ s.pending = Tail(q) /\ s.answer = q[1] /\ s.read = 0
            /\ Failed(s) => q[1].kind \in Wrong /\ s.status # "use"
            /\ q[1].n \in 0 .. MaxRows
            BY <1>1, <1>2, <1>7, UsedQuery
      <2>2. /\ sent' = q
            /\ got' = IF Failed(s) THEN <<>> ELSE <<Given("use", e.read)>>
            BY <1>5, <1>7 DEF Begin
      <2>3. /\ e.pending = Tail(q) /\ e.status # "use"
            /\ ~Failed(s) => e.read \in 0 .. q[1].n
            <3>1. CASE e = s /\ (s.status = "use" => Failed(s))
                  BY <2>1, <3>1, SizeAssumption
            <3>2. CASE s.status = "use" /\ e = Emptied(s)
                  BY <1>3, <2>1, <3>2 DEF Emptied, ReadOut, Session
            <3>3. CASE k < s.answer.n /\ e = Abandoned(s, k)
                  <4>1. PICK r : r = [s EXCEPT !.read = k + 1]
                        OBVIOUS
                  <4>2. r.pending = s.pending /\ r.read = k + 1 /\ DOMAIN r = DOMAIN s
                        BY <1>3, <4>1 DEF Session
                  <4>3. k + 1 \in 0 .. q[1].n
                        BY <2>1, <3>3
                  <4>4. e = FreeResult(r)
                        BY <3>3, <4>1 DEF Abandoned
                  <4>5. e.pending = r.pending /\ e.read = r.read /\ e.status = "ready"
                        BY <1>3, <4>1, <4>4 DEF FreeResult, ReadOut, Session
                  <4> QED BY <2>1, <4>2, <4>3, <4>5
            <3> QED BY <1>5, <3>1, <3>2, <3>3
      <2>4. CASE Failed(s)
            BY <1>4, <2>1, <2>2, <2>3, <2>4, HistoryBegins
      <2>5. CASE ~Failed(s)
            <3>1. e.read \in 0 .. MaxRows /\ e.read <= q[1].n
                  BY <2>1, <2>3, <2>5, SizeAssumption
            <3> QED BY <1>4, <2>2, <2>3, <2>5, <3>1, HistoryBegins
      <2> QED BY <2>4, <2>5
<1> QED BY <1>6, <1>7

LEMMA StoreNextHistory ==
    ASSUME HInv, StoreNext
    PROVE  HistoryKept' /\ InOrder'
<1>1. Inv /\ session \in Session /\ HistoryKept /\ InOrder
      BY DEF HInv, Inv, TypeOK
<1>2. CASE ~Moves(session)
      <2>1. UNCHANGED <<sent, got>> /\ session' = NextResult(session)
            BY <1>2 DEF StoreNext, Advanced
      <2>2. /\ session'.pending = session.pending
            /\ session'.status = session.status
            /\ session'.read = session.read /\ session'.answer = session.answer
            BY <1>1, <1>2, <2>1 DEF NextResult, Moves, OutOfSync, Session
      <2> QED BY <2>1, <2>2, SameHistory
<1>3. CASE Moves(session)
      <2>1. PICK a \in Answers, rest \in Seq(Answers) :
                a = Head(session.pending) /\ rest = Tail(session.pending)
            <3>1. /\ Head(session.pending) \in Answers
                  /\ Tail(session.pending) \in Seq(Answers)
                  BY <1>1, <1>3 DEF Moves, MoreResults, Session
            <3> QED BY <3>1
      <2>2. /\ session.pending \in Seq(Answers) /\ session.pending # <<>>
            /\ a = session.pending[1] /\ 1 \in DOMAIN session.pending
            /\ Len(rest) = Len(session.pending) - 1
            /\ \A i \in DOMAIN rest : rest[i] = session.pending[1 + i]
                                      /\ 1 + i \in DOMAIN session.pending
            <3>1. PICK p \in Seq(Answers) : p = session.pending /\ p # <<>>
                  BY <1>1, <1>3 DEF Moves, MoreResults, Session
            <3>2. rest = Tail(p) /\ a = p[1] /\ Len(p) \in Nat \ {0}
                  BY <2>1, <3>1
            <3>3. Len(rest) = Len(p) - 1 /\ \A i \in 1 .. Len(rest) : rest[i] = p[i + 1]
                  BY <3>1, <3>2, HeadTailProperties
            <3>4. 1 \in DOMAIN p /\ \A i \in DOMAIN rest : 1 + i \in DOMAIN p /\ i \in 1 .. Len(rest)
                  BY <3>1, <3>2, <3>3
            <3> QED BY <3>1, <3>2, <3>3, <3>4
      <2>3. got \in Seq(Items) /\ Len(got) \in Nat /\ sent # <<>>
            <3>1. got \in Seq(Items)
                  BY <1>1 DEF HistoryKept, Items
            <3>2. Len(got) + Len(session.pending) = Len(sent)
                  BY <1>1, <2>2 DEF InOrder
            <3>3. Len(session.pending) \in Nat \ {0} /\ Len(got) \in Nat
                  BY <2>2, <3>1
            <3> QED BY <3>1, <3>2, <3>3
      <2>4. /\ Len(got) + Len(session.pending) = Len(sent)
            /\ sent \in QueryStrings /\ a = sent[Len(got) + 1]
            /\ Len(got) + 1 \in DOMAIN sent
            <3>1. sent \in QueryStrings
                  BY <1>1, <2>3 DEF HistoryKept
            <3>2. Len(got) + Len(session.pending) = Len(sent)
                  BY <1>1, <2>2 DEF InOrder
            <3>3. a = sent[Len(got) + 1]
                  BY <1>1, <2>2 DEF HistoryKept
            <3>4. Len(session.pending) \in Nat \ {0} /\ sent \in Seq(Answers)
                  BY <2>2, <3>1, QueryStringFacts
            <3> QED BY <2>3, <3>1, <3>2, <3>3, <3>4
      <2>5. /\ a.kind \notin Returning => a.n = 0
            /\ a.kind \in Wrong => Len(got) + 1 = Len(sent)
            BY <2>4, QueryStringFacts
      <2>6. PICK r : r = Arrive(session, a, rest)
            OBVIOUS
      <2>7. PICK s : s = Stored(r)
            OBVIOUS
      <2>8. /\ s.pending = rest /\ s.status = "ready"
            /\ Failed(s) <=> a.kind \in Wrong
            /\ ~Failed(s) => s.read = a.n
            BY <1>1, <2>5, <2>6, <2>7, ArriveFacts
      <2>9. s = Advanced(session)
            BY <1>3, <2>1, <2>6, <2>7 DEF Advanced, NextResult, Moves
      <2>10. /\ session' = s /\ sent' = sent
             /\ got' = IF Failed(s) THEN got ELSE Append(got, Given("store", s.read))
            BY <1>3, <2>9 DEF StoreNext
      <2>11. CASE Failed(s)
            <3>1. rest = <<>>
                  BY <2>2, <2>3, <2>4, <2>5, <2>8, <2>11
            <3>2. sent[Len(sent)].kind \in Wrong /\ Len(got) = Len(sent) - 1
                  BY <2>3, <2>4, <2>5, <2>8, <2>11
            <3>3. HistoryKept'
                  BY <1>1, <2>8, <2>10, <2>11, <3>1 DEF HistoryKept
            <3>4. InOrder'
                  BY <1>1, <2>8, <2>10, <2>11, <3>1, <3>2 DEF InOrder
            <3> QED BY <3>3, <3>4
      <2>12. CASE ~Failed(s)
            <3>1. PICK item : item = Given("store", a.n)
                  OBVIOUS
            <3>2. item \in Items /\ item.how = "store" /\ item.rows = a.n
                  BY <3>1 DEF Given, Items, Answers
            <3>3. got' = Append(got, item)
                  BY <2>8, <2>10, <2>12, <3>1
            <3>4. /\ got' \in Seq(Items) /\ Len(got') = Len(got) + 1
                  /\ got'[Len(got) + 1] = item
                  /\ \A i \in 1 .. Len(got) : got'[i] = got[i]
                  BY <2>3, <3>2, <3>3
            <3>5. a.kind \in {"rows", "none"} /\ a.n \in Nat
                  BY <2>8, <2>12 DEF Wrong, Answers
            <3>6. HistoryKept'
                  <4>1. \A i \in DOMAIN rest : rest[i] = sent[Len(got') + i]
                        <5>1. ASSUME NEW i \in DOMAIN rest
                              PROVE  rest[i] = sent[Len(got) + (1 + i)]
                              <6>1. PICK j \in DOMAIN session.pending : j = 1 + i
                                    BY <2>2
                              <6>2. session.pending[j] = sent[Len(got) + j]
                                    BY <1>1 DEF HistoryKept
                              <6> QED BY <2>2, <6>1, <6>2
                        <5>2. \A i \in DOMAIN rest : Len(got) + (1 + i) = Len(got') + i
                              <6>1. DOMAIN rest \subseteq Nat /\ Len(got) \in Nat
                                    BY <2>3
                              <6>2. Len(got') = Len(got) + 1
                                    BY <3>4
                              <6> QED BY <6>1, <6>2
                        <5> QED BY <5>1, <5>2
                  <4> QED BY <1>1, <2>8, <2>10, <3>4, <4>1 DEF HistoryKept, Items
            <3>7. InOrder'
                  <4>1. Len(got') + Len(rest) = Len(sent)
                        <5>1. PICK n \in Nat, m \in Nat :
                                  n = Len(got) /\ m = Len(session.pending)
                              BY <2>2, <2>3
                        <5>2. Len(got') = n + 1 /\ Len(rest) = m - 1
                              BY <2>2, <3>4, <5>1
                        <5>3. n + m = Len(sent)
                              BY <2>4, <5>1
                        <5> QED BY <5>2, <5>3
                  <4>2. ASSUME NEW i \in DOMAIN got'
                        PROVE  /\ got'[i].rows <= sent[i].n
                               /\ got'[i].how = "store" =>
                                     got'[i].rows = sent[i].n /\ sent[i].kind \in {"rows", "none"}
                        <5>1. CASE i = Len(got) + 1
                              BY <2>4, <3>2, <3>4, <3>5, <5>1
                        <5>2. CASE i # Len(got) + 1
                              <6>1. i \in DOMAIN got
                                    <7>1. Len(got') = Len(got) + 1 /\ got' \in Seq(Items)
                                          BY <3>4
                                    <7>2. i \in 1 .. Len(got') /\ Len(got) \in Nat
                                          BY <2>3, <7>1
                                    <7>3. i \in 1 .. Len(got)
                                          BY <5>2, <7>1, <7>2
                                    <7> QED BY <2>3, <7>3
                              <6>2. got'[i] = got[i]
                                    BY <2>3, <3>4, <6>1
                              <6> QED BY <1>1, <6>1, <6>2 DEF InOrder
                        <5> QED BY <5>1, <5>2
                  <4> QED BY <2>8, <2>10, <4>1, <4>2 DEF InOrder
            <3> QED BY <3>6, <3>7
      <2> QED BY <2>11, <2>12
<1> QED BY <1>2, <1>3

LEMMA FetchHistory ==
    ASSUME HInv, NEW v \in Holders, FetchFrom(v)
    PROVE  HistoryKept' /\ InOrder'
<1>1. session \in Session /\ HistoryKept /\ InOrder
      BY DEF HInv, Inv, TypeOK
<1>2. CASE holder[v] # live
      BY <1>2, SameHistory DEF FetchFrom
<1>3. CASE holder[v] = live
      <2>1. session.status = "use"
            BY <1>3 DEF FetchFrom, HInv, Inv, BusyOnlyIfHeld
      <2>2. /\ got \in Seq(Items) /\ got # <<>> /\ Len(got) \in DOMAIN got
            /\ got[Len(got)] = Given("use", session.read)
            /\ session.answer = sent[Len(got)]
            <3>1. got \in Seq(Items) /\ got # <<>>
                  BY <1>1, <2>1 DEF HistoryKept, Items
            <3> QED BY <1>1, <2>1, <3>1 DEF HistoryKept
      <2>3. session.read <= session.answer.n
            BY <1>1, <2>2 DEF InOrder, Given
      <2>4. PICK s \in Session : s = FetchRow(session)
            BY <1>1, <2>1, FetchRowType
      <2>5. /\ s.pending = session.pending /\ s.answer = session.answer
            /\ s.read <= session.answer.n /\ s.read \in 0 .. MaxRows
            <3>1. CASE HasRow(session)
                  <4>1. s = [session EXCEPT !.read = @ + 1]
                        BY <2>4, <3>1 DEF FetchRow
                  <4>2. session.read \in 0 .. MaxRows /\ session.answer.n \in 0 .. MaxRows
                        BY <1>1 DEF Session, Answers
                  <4>3. session.read + 1 <= session.answer.n
                        BY <3>1, <4>2, SizeAssumption DEF HasRow
                  <4> QED BY <1>1, <2>4, <4>1, <4>3 DEF Session
            <3>2. CASE ~HasRow(session)
                  BY <1>1, <2>3, <2>4, <3>2 DEF FetchRow, ReadOut, Session
            <3> QED BY <3>1, <3>2
      <2>6. /\ session' = s /\ sent' = sent
            /\ got' = [got EXCEPT ![Len(got)] = Given("use", s.read)]
            BY <1>3, <2>4 DEF FetchFrom
      <2>7. Given("use", s.read) \in Items
            BY <2>5 DEF Given, Items
      <2>8. /\ got' \in Seq(Items) /\ Len(got') = Len(got) /\ got' # <<>>
            /\ got'[Len(got)] = Given("use", s.read)
            /\ \A i \in DOMAIN got : i # Len(got) => got'[i] = got[i]
            BY <2>2, <2>6, <2>7
      <2>9. HistoryKept'
            BY <1>1, <2>2, <2>5, <2>6, <2>8 DEF HistoryKept, Items
      <2>10. InOrder'
            <3>1. ASSUME NEW i \in DOMAIN got'
                  PROVE  /\ got'[i].rows <= sent[i].n
                         /\ got'[i].how = "store" =>
                               got'[i].rows = sent[i].n /\ sent[i].kind \in {"rows", "none"}
                  <4>1. i \in DOMAIN got
                        BY <2>2, <2>8
                  <4>2. CASE i = Len(got)
                        BY <2>2, <2>5, <2>8, <4>2 DEF Given
                  <4>3. CASE i # Len(got)
                        BY <1>1, <2>8, <4>1, <4>3 DEF InOrder
                  <4> QED BY <4>2, <4>3
            <3> QED BY <1>1, <2>5, <2>6, <2>8, <3>1 DEF InOrder
      <2> QED BY <2>9, <2>10
<1> QED BY <1>2, <1>3

\* Copies and destructors read no row on anybody's behalf.
LEMMA AssignHistory ==
    ASSUME HInv, NEW v, NEW r, Assign(v, r, session, live, results),
           UNCHANGED <<sent, got>>
    PROVE  HistoryKept' /\ InOrder'
<1>1. session \in Session
      BY DEF HInv, Inv, TypeOK
<1>2. session' \in {session, FreeResult(session)}
      BY DEF Assign
<1>3. /\ FreeResult(session).pending = session.pending
      /\ FreeResult(session).status = "ready"
      BY <1>1 DEF FreeResult, ReadOut, Session
<1> QED BY <1>2, <1>3, SameHistory

LEMMA HistoryStep == HInv /\ [Next]_vars => HInv'
<1> SUFFICES ASSUME HInv, [Next]_vars PROVE HistoryKept' /\ InOrder'
    BY NextInv DEF HInv
<1>1. session \in Session
      BY DEF HInv, Inv, TypeOK
<1>2. ASSUME NEW q \in Asked, Exec(q) \/ Store(q) \/ Storein(q)
      PROVE  HistoryKept' /\ InOrder'
      <2>1. q \in QueryStrings /\ 0 \in Nat
            BY AskedIsQueryStrings
      <2> QED BY <1>2, <2>1, ExecHistory, StoreHistory, ReadThroughHistory
<1>3. ASSUME NEW q \in Asked, NEW v \in Holders, Use(v, q)
      PROVE  HistoryKept' /\ InOrder'
      BY <1>3, AskedIsQueryStrings, UseHistory
<1>4. ASSUME NEW q \in Asked, NEW k \in 0 .. Head(q).n, ForEach(q, k)
      PROVE  HistoryKept' /\ InOrder'
      <2>1. k \in Nat
            BY AskedIsQueryStrings, QueryStringsAreSequences DEF Answers
      <2> QED BY <1>4, <2>1, AskedIsQueryStrings, ReadThroughHistory
<1>5. CASE StoreNext
      BY <1>5, StoreNextHistory
<1>6. CASE StartDrain \/ EndDrain \/ UNCHANGED vars
      BY <1>6, SameHistory DEF StartDrain, EndDrain, vars
<1>7. CASE Ping
      <2>1. CASE Busy(session)
            BY <1>7, <2>1, OutOfSyncHistory DEF Ping
      <2>2. CASE ~Busy(session)
            BY <1>1, <1>7, <2>2, SameHistory DEF Ping, Session
      <2> QED BY <2>1, <2>2
<1>8. ASSUME NEW v \in Holders, FetchFrom(v) PROVE HistoryKept' /\ InOrder'
      BY <1>8, FetchHistory
<1>9. ASSUME NEW v \in Holders, FetchFromNone(v) PROVE HistoryKept' /\ InOrder'
      BY <1>9, SameHistory DEF FetchFromNone
<1>10. ASSUME NEW v \in Holders, DropResult(v) PROVE HistoryKept' /\ InOrder'
      BY <1>10, AssignHistory DEF DropResult
<1>11. ASSUME NEW v \in Holders, NEW w \in Holders, CopyResult(v, w)
       PROVE  HistoryKept' /\ InOrder'
      BY <1>11, AssignHistory DEF CopyResult
<1> QED BY <1>2, <1>3, <1>4, <1>5, <1>6, <1>7, <1>8, <1>9, <1>10, <1>11 DEF Next

LEMMA HistoryInit == Init => HInv
<1> SUFFICES ASSUME Init PROVE HistoryKept /\ InOrder
    BY InitInv DEF HInv
<1>1. sent = <<>> /\ got = <<>> /\ session.pending = <<>> /\ session.status = "ready"
      BY DEF Init, Fresh
<1> QED BY <1>1 DEF HistoryKept, InOrder

\* What the program holds of a query, what is still pending and what is being
\* read fit together, for query strings of any length.
THEOREM HistoryIsKept == Spec => []IInv
<1>1. HInv => IInv
      BY DEF HInv, Inv, IInv
<1> QED BY <1>1, HistoryInit, HistoryStep, PTL DEF Spec

\* store() and store_next() hand out the statements' results in their order
\* and whole: none is skipped, none comes twice, an empty one has its place
\* (query.cpp:521, query.cpp:569).
THEOREM ResultsComeInOrder == Spec => []InOrder
<1>1. HInv => InOrder
      BY DEF HInv
<1> QED BY <1>1, HistoryInit, HistoryStep, PTL DEF Spec
==============================================================================
