---------------------------- MODULE QueryResults ----------------------------
(***************************************************************************)
(* Results of queries: Query::exec(), store(), use(), store_next(),        *)
(* for_each() and storein() (lib/query.cpp, lib/query.h), the two kinds of *)
(* result they make (lib/result.cpp), and the connection they share.       *)
(*                                                                         *)
(* A program has one Connection, queries made from it and some             *)
(* UseQueryResult variables.  A StoreQueryResult owes the connection       *)
(* nothing once it is made; a UseQueryResult reads from it row by row and  *)
(* shares its MYSQL_RES, counted, with its copies.  The counting is        *)
(* RefCountedPointer's: here the last holder's assignment or destruction   *)
(* frees the result.  Templates and the query buffer are module Query's;   *)
(* closing the connection under a result is not modelled.  The program     *)
(* gives exec() statements without result sets only, as query.h:359 asks.  *)
(***************************************************************************)
EXTENDS ClientSession

CONSTANTS
    Holders,        \* UseQueryResult variables of the program
    MaxQueries,     \* bound: queries the server took
    MaxLater,       \* bound: statements in a query after the first
    NoResult        \* result_ of an empty UseQueryResult

ASSUME HolderAssumption ==
    MaxQueries \in Nat /\ MaxLater \in Nat \ {0} /\ NoResult \notin 1 .. MaxQueries

VARIABLES
    session,        \* the C API's handle
    results,        \* MYSQL_RES structures use() allocated and nobody freed
    live,           \* the one whose rows are still on the wire
    holder,         \* result_ of each UseQueryResult
    throws,         \* throw_exceptions() of the connection and its queries
    copacetic_,     \* Query::copacetic_
    draining,       \* inside `while (more_results()) store_next()`
    taken,          \* queries the server took so far
    sent,           \* history: the statements of the last of them
    got,            \* history: what the program was given of each
    told            \* history: how the last call ended

vars == <<session, results, live, holder, throws, copacetic_, draining,
          taken, sent, got, told>>

Init ==
    /\ session = Fresh
    /\ results = {} /\ live = NoResult
    /\ holder = [v \in Holders |-> NoResult]
    /\ throws \in BOOLEAN
    /\ copacetic_ = TRUE /\ draining = FALSE
    /\ taken = 0 /\ sent = <<>> /\ got = <<>>
    /\ told = [call |-> "none", missed |-> FALSE, threw |-> FALSE]

(***************************************************************************)
(* How a call ends.  missed: it brought less than the statement has, for   *)
(* another reason than the program's own.                                  *)
(***************************************************************************)
Tell(call, missed, threw) ==
    told' = [call |-> call, missed |-> missed, threw |-> threw]

Failed(s) == s.errno # "ok"             \* conn_->errnum()
\* Mutant: a null result is an error only if the statement has no columns.
ThrewIfNoFields(s) == Failed(s) /\ throws /\ ~s.fields
Threw(s) == Failed(s) /\ throws
Given(how, n) == [how |-> how, rows |-> n]

(***************************************************************************)
(* DBDriver::execute() on an idle connection begins a new history; a query *)
(* refused as out of sync leaves the old one.                              *)
(***************************************************************************)
Idle == taken < MaxQueries /\ ~draining
Begin(q, first) ==
    IF Busy(session) THEN UNCHANGED <<taken, sent, got>>
    ELSE taken' = taken + 1 /\ sent' = q /\ got' = first

(***************************************************************************)
(* v = r, whether by UseQueryResult::copy() or the destructor (r is then   *)
(* NoResult), given the connection s, the result now on its wire and the   *)
(* results allocated.                                                      *)
(***************************************************************************)
\* Mutant: copies of a MYSQL_RES pointer that is not counted.
LastHolderUncounted(v) == holder[v] # NoResult
LastHolder(v) ==
    holder[v] # NoResult /\ \A w \in Holders \ {v} : holder[w] # holder[v]

Assign(v, r, s, wire, all) ==
    LET frees == LastHolder(v) /\ holder[v] # r
        stops == frees /\ holder[v] = wire
    IN  /\ holder' = [holder EXCEPT ![v] = r]
        /\ results' = IF frees THEN all \ {holder[v]} ELSE all
        /\ live' = IF stops THEN NoResult ELSE wire
        /\ session' = IF stops THEN FreeResult(s) ELSE s

Exec(q) ==
    LET s == RealQuery(session, q) IN
    /\ Idle /\ \A i \in DOMAIN q : q[i].kind \notin Returning
    /\ session' = s
    /\ copacetic_' = ~Failed(s)
    /\ Begin(q, IF Failed(s) THEN <<>> ELSE <<Given("store", 0)>>)
    /\ Tell("exec", Failed(s), Threw(s))
    /\ UNCHANGED <<results, live, holder, throws, draining>>

(***************************************************************************)
(* store(): without a MYSQL_RES it asks errnum() whether the statement     *)
(* had nothing to return or something went wrong.                          *)
(***************************************************************************)
Stored(s) == IF Failed(s) THEN s ELSE StoreResult(s)

Store(q) ==
    LET s == Stored(RealQuery(session, q)) IN
    /\ Idle
    /\ session' = s
    /\ copacetic_' = ~Failed(s)
    /\ Begin(q, IF Failed(s) THEN <<>> ELSE <<Given("store", s.read)>>)
    /\ Tell("store", Failed(s), Threw(s))
    /\ UNCHANGED <<results, live, holder, throws, draining>>

(***************************************************************************)
(* v = query.use(q).  An exception leaves v alone; without exceptions an   *)
(* empty result is assigned, and lets go of what v held.                   *)
(***************************************************************************)
Used(s) == IF Failed(s) THEN s ELSE UseResult(s)

Use(v, q) ==
    LET s == Used(RealQuery(session, q))
        opened == ~Failed(s) /\ s.status = "use"
        new == taken + 1
    IN  /\ Idle
        /\ copacetic_' = ~Failed(s)
        /\ Begin(q, IF Failed(s) THEN <<>> ELSE <<Given("use", 0)>>)
        /\ Tell("use", Failed(s), Threw(s))
        /\ IF Threw(s)
           THEN session' = s /\ UNCHANGED <<results, live, holder>>
           ELSE IF opened THEN Assign(v, new, s, new, results \cup {new})
           ELSE Assign(v, NoResult, s, live, results)
        /\ UNCHANGED <<throws, draining>>

(***************************************************************************)
(* storein(): use() into a temporary, read to the null pointer.  The end   *)
(* of the rows and an error in their place look alike to it.               *)
(***************************************************************************)
Emptied(s) ==
    IF s.status = "use" THEN [ReadOut(s) EXCEPT !.read = s.answer.n] ELSE s

Storein(q) ==
    LET s == Used(RealQuery(session, q))
        e == IF Failed(s) THEN s ELSE Emptied(s)
        opened == ~Failed(s) /\ s.status = "use"
        bogus == ~opened /\ s.fields            \* else if (!result_empty())
    IN  /\ Idle
        /\ session' = e
        /\ copacetic_' = (~Failed(s) /\ ~bogus)
        /\ Begin(q, IF Failed(s) THEN <<>> ELSE <<Given("use", e.read)>>)
        /\ Tell("storein", Failed(e), (Failed(s) \/ bogus) /\ throws)
        /\ UNCHANGED <<results, live, holder, throws, draining>>

(***************************************************************************)
(* for_each() and store_if(): the same with a functor, which may throw on  *)
(* the row after the first k; the temporary's destructor then skips the    *)
(* rest.                                                                   *)
(***************************************************************************)
\* Mutant: the temporary keeps a plain MYSQL_RES*, freed after the loop only.
AbandonedUnfreed(s, k) == [s EXCEPT !.read = k + 1]
Abandoned(s, k) == FreeResult([s EXCEPT !.read = k + 1])

ForEach(q, k) ==
    LET s == Used(RealQuery(session, q))
        opened == ~Failed(s) /\ s.status = "use"
        stops == opened /\ k < s.answer.n       \* the functor throws
        e == IF stops THEN Abandoned(s, k)
             ELSE IF opened THEN Emptied(s) ELSE s
    IN  /\ Idle
        /\ session' = e
        /\ copacetic_' = ~Failed(s)
        /\ Begin(q, IF Failed(s) THEN <<>> ELSE <<Given("use", e.read)>>)
        /\ IF stops THEN Tell("functor", FALSE, TRUE)
           ELSE Tell("for_each", Failed(e), Threw(s))
        /\ UNCHANGED <<results, live, holder, throws, draining>>

(***************************************************************************)
(* store_next().  copacetic_ is left alone, whatever happens.              *)
(***************************************************************************)
Moves(s) == s.status = "ready" /\ MoreResults(s)      \* not nr_last_result

\* Mutant: the next statement is begun and its result left on the wire.
AdvancedUnstored(s) == NextResult(s)
\* Mutant: statements that return nothing are passed over.
AdvancedPastEmpty(s) ==
    LET r == NextResult(s)
    IN  IF Moves(s) /\ r.answer.kind = "none" THEN Stored(NextResult(r))
        ELSE Stored(r)
Advanced(s) == IF Moves(s) THEN Stored(NextResult(s)) ELSE NextResult(s)

StoreNext ==
    LET s == Advanced(session) IN
    /\ draining => MoreResults(session)
    /\ session' = s
    /\ got' = IF Moves(session) /\ ~Failed(s)
              THEN Append(got, Given("store", s.read)) ELSE got
    /\ Tell("store_next", Failed(s), Threw(s))
    /\ draining' = (draining /\ ~Threw(s))
    /\ UNCHANGED <<results, live, holder, throws, copacetic_, taken, sent>>

(***************************************************************************)
(* The loop of examples/multiquery.cpp, entered with no result in use.     *)
(***************************************************************************)
StartDrain ==
    /\ ~draining /\ MoreResults(session) /\ live = NoResult
    /\ draining' = TRUE
    /\ UNCHANGED <<session, results, live, holder, throws, copacetic_, taken,
                   sent, got, told>>

EndDrain ==
    /\ draining /\ ~MoreResults(session)
    /\ draining' = FALSE
    /\ UNCHANGED <<session, results, live, holder, throws, copacetic_, taken,
                   sent, got, told>>

(***************************************************************************)
(* v.fetch_row(): a Row, or a false one at the end, or on an error.  The   *)
(* result of a use() that read something has its query's exception flag;   *)
(* an empty one is made by the default constructor, with exceptions on,    *)
(* and a copy takes its original's.  tutorial.dbx:235 says otherwise: what *)
(* an object creates has its flag, so that turning a connection's off      *)
(* turns off all.                                                          *)
(***************************************************************************)
Exceptions(v) == holder[v] = NoResult \/ throws

FetchFrom(v) ==
    LET s == FetchRow(session) IN
    /\ ~draining /\ holder[v] # NoResult
    /\ IF holder[v] = live
       THEN /\ session' = s
            /\ live' = IF s.status = "ready" THEN NoResult ELSE live
            /\ got' = [got EXCEPT ![Len(got)] = Given("use", s.read)]
            /\ Tell("fetch", Failed(s), FALSE)
       ELSE /\ Tell("fetch", FALSE, FALSE)      \* read to the end before
            /\ UNCHANGED <<session, live, got>>
    /\ UNCHANGED <<results, holder, throws, copacetic_, draining, taken, sent>>

FetchFromNone(v) ==
    /\ ~draining /\ holder[v] = NoResult
    /\ Tell("fetch_none", TRUE, Exceptions(v))  \* "Results not fetched"
    /\ UNCHANGED <<session, results, live, holder, throws, copacetic_,
                   draining, taken, sent, got>>

\* v = w, and v's destruction (an empty result takes its place).
CopyResult(v, w) ==
    /\ ~draining /\ v # w
    /\ Assign(v, holder[w], session, live, results)
    /\ Tell("copy", FALSE, FALSE)
    /\ UNCHANGED <<throws, copacetic_, draining, taken, sent, got>>

DropResult(v) ==
    /\ ~draining /\ holder[v] # NoResult
    /\ Assign(v, NoResult, session, live, results)
    /\ Tell("drop", FALSE, FALSE)
    /\ UNCHANGED <<throws, copacetic_, draining, taken, sent, got>>

\* Connection::ping(): false for a connection that is merely busy.
Ping ==
    /\ ~draining
    /\ session' = IF Busy(session) THEN OutOfSync(session)
                  ELSE [session EXCEPT !.errno = "ok"]
    /\ Tell("ping", Busy(session), FALSE)
    /\ UNCHANGED <<results, live, holder, throws, copacetic_, draining,
                   taken, sent, got>>

\* A query refused as out of sync is not looked at: one stands for them all.
Asked ==
    IF Busy(session) THEN {<<Fresh.answer>>}
    ELSE {q \in QueryStrings : taken > 0 => Len(q) =< MaxLater}

Next ==
    \/ \E q \in Asked :
          \/ Exec(q) \/ Store(q) \/ Storein(q)
          \/ \E v \in Holders : Use(v, q)
          \/ \E k \in 0 .. Head(q).n : ForEach(q, k)
    \/ StoreNext \/ StartDrain \/ EndDrain \/ Ping
    \/ \E v \in Holders : FetchFrom(v) \/ FetchFromNone(v) \/ DropResult(v)
    \/ \E v, w \in Holders : CopyResult(v, w)

(***************************************************************************)
(* Nothing but its next iteration can end a single-threaded loop.          *)
(***************************************************************************)
Spec == Init /\ [][Next]_vars /\ WF_vars(draining /\ StoreNext) /\ WF_vars(EndDrain)

----------------------------------------------------------------------------
\* Types, and that no UseQueryResult points to a result somebody else freed
\* (RefCountedPointer under UseQueryResult::copy()).
TypeOK ==
    /\ session \in Session
    /\ results \subseteq 1 .. taken
    /\ live \in results \cup {NoResult}
    /\ holder \in [Holders -> results \cup {NoResult}]
    /\ throws \in BOOLEAN /\ copacetic_ \in BOOLEAN /\ draining \in BOOLEAN
    /\ taken \in 0 .. MaxQueries

\* A connection is kept busy by nothing the program cannot see: between
\* calls a result set is being read only if a UseQueryResult holds it, and
\* every MYSQL_RES belongs to one.  So dropping those and draining
\* more_results() always makes the connection usable again, after a use()
\* that failed or a functor that threw as well (query.cpp:684, query.h:529).
BusyOnlyIfHeld ==
    /\ session.status # "get"
    /\ session.status = "use" <=> live # NoResult
    /\ \A r \in results : \E v \in Holders : holder[v] = r

\* store() and store_next() hand out the statements' results in their order:
\* none is skipped, none comes twice, a statement without rows has its place
\* too, and what is stored is stored whole (query.cpp:521, query.cpp:569).
InOrder ==
    /\ \A i \in DOMAIN got :
          /\ got[i].rows <= sent[i].n
          /\ got[i].how = "store" =>
                got[i].rows = sent[i].n /\ sent[i].kind \in {"rows", "none"}
    /\ \/ Len(got) + Len(session.pending) = Len(sent)
       \/ /\ session.pending = <<>>
          /\ Len(got) = Len(sent) - 1 /\ sent[Len(sent)].kind \in Wrong

\* Of the query whose history this is, what comes after the statements the
\* program was given is still pending, in its order; a result being read
\* belongs to the last of those, and has given the program its first rows.
HistoryKept ==
    /\ sent \in QueryStrings \cup {<<>>}
    /\ got \in Seq([how : {"store", "use"}, rows : 0 .. MaxRows])
    /\ \A i \in DOMAIN session.pending : session.pending[i] = sent[Len(got) + i]
    /\ session.status = "use" =>
          /\ got # <<>> /\ got[Len(got)] = Given("use", session.read)
          /\ session.answer = sent[Len(got)]

\* Every variable has its type, and what is known of the connection, of who
\* holds its results and of what has come: together they are inductive.
IInv == TypeOK /\ BusyOnlyIfHeld /\ HistoryKept /\ InOrder

\* A call that brought less than it should can be told from one that did
\* not: errnum() is set, query objects are false after exec(), store() and
\* use(), and store(), use() and store_next() throw if asked to.  Nothing
\* throws without cause, and none of these without being asked; but a
\* fetch_row() of an empty result throws whatever the connection's flag
\* (query.cpp:552, query.cpp:585, query.cpp:684, result.cpp:168).
Told ==
    /\ told.missed /\ told.call # "fetch_none" => session.errno # "ok"
    /\ told.missed /\ told.call \in {"exec", "store", "use"} => ~copacetic_
    /\ told.missed /\ throws /\
          told.call \in {"exec", "store", "use", "store_next"} => told.threw
    /\ told.call = "fetch_none" => told.threw
    /\ told.threw => \/ told.call = "functor"
                     \/ told.missed /\ (throws \/ told.call = "fetch_none")

\* A query refused because a result is still being read takes no row away
\* from whoever reads it (tutorial.dbx:1362): only that result's own
\* fetch_row() moves it on, and only its last holder gives it up.
UnreadRowsKept ==
    [][live # NoResult /\ (\E v \in Holders : holder'[v] = live) =>
          \/ live' = live /\ session'.read = session.read
          \/ told'.call = "fetch"]_vars

\* The documented loop over more_results() and store_next() comes to its
\* end (query.h:708, examples/multiquery.cpp:126).
DrainEnds == draining ~> ~draining

==============================================================================
