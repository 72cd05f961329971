---------------------------- MODULE ClientSession ----------------------------
(***************************************************************************)
(* The C API's side of a connection, as lib/dbdriver.h and lib/query.cpp   *)
(* use it: what mysql_real_query(), mysql_store_result(),                  *)
(* mysql_use_result(), mysql_fetch_row(), mysql_free_result() and          *)
(* mysql_next_result() do to the MYSQL handle.  The library is not part    *)
(* of this repository; doc/userman/tutorial.dbx tells its rule: one query  *)
(* at a time, and "Commands out of sync" for a call made too early.        *)
(*                                                                         *)
(* A statement answers with n rows, with no rows at all ("none": INSERT,   *)
(* CREATE...), fails, or is cut off by an error after n rows.  The server  *)
(* stops at the first statement of a multi-query that goes wrong.          *)
(***************************************************************************)
EXTENDS Naturals, Sequences

CONSTANTS
    MaxRows,        \* bound: rows of one statement
    MaxStatements   \* bound: statements in one query string

ASSUME SizeAssumption == MaxRows \in Nat /\ MaxStatements \in Nat \ {0}

Answers == [kind : {"rows", "none", "fail", "cut"}, n : 0 .. MaxRows]
Returning == {"rows", "cut"}                \* kinds with a result set
Wrong == {"fail", "cut"}                    \* kinds the server stops at

QueryStrings ==
    {q \in UNION {[1 .. k -> Answers] : k \in 1 .. MaxStatements} :
        \A i \in DOMAIN q :
            /\ q[i].kind \notin Returning => q[i].n = 0
            /\ q[i].kind \in Wrong => i = Len(q)}

Session ==
    [status : {"ready", "get", "use"},      \* MYSQL::status
     answer : Answers,                      \* the statement being answered
     read : 0 .. MaxRows,                   \* its rows already read
     pending : Seq(Answers),                \* what more_results() tells of
     errno : {"ok", "sync", "sql"},         \* mysql_errno()
     fields : BOOLEAN]                      \* mysql_field_count() is not 0

Fresh == [status |-> "ready", answer |-> [kind |-> "none", n |-> 0],
          read |-> 0, pending |-> <<>>, errno |-> "ok", fields |-> FALSE]

MoreResults(s) == s.pending # <<>>
ErrorOf(a) == IF a.kind \in Wrong THEN "sql" ELSE "ok"

\* The head of the next statement's answer has been read.
Arrive(s, a, rest) ==
    [s EXCEPT !.status = IF a.kind \in Returning THEN "get" ELSE "ready",
              !.answer = a, !.read = 0, !.pending = rest,
              !.errno = IF a.kind = "fail" THEN "sql" ELSE "ok",
              !.fields = a.kind \in Returning]

Busy(s) == s.status # "ready" \/ MoreResults(s)
OutOfSync(s) == [s EXCEPT !.errno = "sync"]

RealQuery(s, q) ==
    IF Busy(s) THEN OutOfSync(s) ELSE Arrive(s, Head(q), Tail(q))

NextResult(s) ==
    IF s.status # "ready" THEN OutOfSync(s)
    ELSE IF MoreResults(s) THEN Arrive(s, Head(s.pending), Tail(s.pending))
    ELSE [s EXCEPT !.errno = "ok"]

\* Every row is read, or the error in their place.
ReadOut(s) == [s EXCEPT !.status = "ready", !.errno = ErrorOf(s.answer)]

\* mysql_store_result() gives a MYSQL_RES exactly if StoredAll.
StoredAll(s) == s.status = "get" /\ s.answer.kind = "rows"
StoreResult(s) ==
    IF s.status = "get" THEN [ReadOut(s) EXCEPT !.read = s.answer.n] ELSE s

UseResult(s) == IF s.status = "get" THEN [s EXCEPT !.status = "use"] ELSE s

\* On the result in use: the next row, or a null pointer at the end.
HasRow(s) == s.read < s.answer.n
FetchRow(s) == IF HasRow(s) THEN [s EXCEPT !.read = @ + 1] ELSE ReadOut(s)

\* mysql_free_result() throws away the rows nobody read.  It tells no error,
\* but leaves the number of the one it met.
FreeResult(s) ==
    IF s.answer.kind = "cut" THEN ReadOut(s) ELSE [s EXCEPT !.status = "ready"]
==============================================================================
