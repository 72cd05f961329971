----------------------------- MODULE InsertFrom -----------------------------
(***************************************************************************)
(* Query::insertfrom() (lib/query.h; replacefrom() differs in its verb),   *)
(* the insert policies (lib/insertpolicy.h) that split the container into  *)
(* statements, and the Transaction (lib/transaction.cpp) around it all.    *)
(*                                                                         *)
(* A row is its position in the container and, to the policies, the length *)
(* of its value list.  Each statement sent to the server is one step: it   *)
(* succeeds, or fails and may end the session's transaction with it, as a  *)
(* deadlock or a lost connection does.                                     *)
(***************************************************************************)
EXTENDS Integers, SequencesExt

CONSTANTS
    Policies,       \* the insert policies: [kind, limit]
    Containers,     \* what may be inserted: sequences of value list lengths
    Header,         \* length of "INSERT INTO `t` (fields) VALUES ("
    MaxCalls        \* bound: calls, with one policy object and connection

ASSUME HeaderAssumption == Header \in Nat \ {0}
ASSUME ContainersAssumption == \A c \in Containers : c \in Seq(Nat)
ASSUME PoliciesAssumption ==
    \A p \in Policies :
        p.kind \in {"RowCount", "SizeThreshold", "MaxPacket"} /\ p.limit \in Nat

VARIABLES
    setup,          \* the policy and its access controller, who throws
    cur_rows_,      \* of a RowCountInsertPolicy
    rows, it,       \* the container and the next row of it
    buffer,         \* the rows in the statement being built; empty = <<>>
    sent,           \* the statements the server has accepted
    success, copacetic_,
    finished_,      \* of the Transaction
    open,           \* the session is in a transaction
    written,        \* rows written by it: <<call, position in the container>>
    stored,         \* rows committed to the table
    calls,          \* calls made so far
    pc              \* "idle", "begin", "loop", "retry", "finish", "unwind",
                    \* or how the last call ended: "returned", "thrown"

vars == <<setup, cur_rows_, rows, it, buffer, sent, success, copacetic_,
          finished_, open, written, stored, calls, pc>>
server == <<open, written, stored>>
building == <<cur_rows_, it, buffer>>

Init ==
    /\ setup \in [policy : Policies, transactions : BOOLEAN,
                  connThrows : BOOLEAN, queryThrows : BOOLEAN]
    /\ cur_rows_ = 0
    /\ rows = <<>> /\ it = 1
    /\ buffer = <<>> /\ sent = <<>>
    /\ success = TRUE /\ copacetic_ = TRUE /\ finished_ = TRUE
    /\ open = FALSE /\ written = {} /\ stored = {}
    /\ calls = 0
    /\ pc = "idle"

(***************************************************************************)
(* The statement in the buffer: a header and the first row's values, then  *)
(* ",(" and the values of each further row, every list closed by ")".      *)
(***************************************************************************)
Part(c, s, i) == c[s[i]] + (IF i = 1 THEN Header + 1 ELSE 3)
LengthIn(c, s) ==
    LET upTo[n \in 0..Len(s)] == IF n = 0 THEN 0 ELSE upTo[n - 1] + Part(c, s, n)
    IN  upTo[Len(s)]
Length(s) == LengthIn(rows, s)

(***************************************************************************)
(* can_add(tellp(), *it) of the three policies, and what it leaves in      *)
(* cur_rows_.                                                              *)
(***************************************************************************)
Limit == setup.policy.limit

\* Mutant: cur_rows_++ > max_rows_.
RowCountPostIncrement == cur_rows_ <= Limit
RowCountAllows == cur_rows_ + 1 <= Limit

\* Mutant: size <= size_.
ThresholdInclusive(s) == Length(s) <= Limit
ThresholdAllows(s) == Length(s) < Limit

\* Mutant: the values are measured without their punctuation.
PacketAllowsBare(s) == Length(s) < Limit /\ Length(s) + rows[it] <= Limit
PacketAllows(s) == Length(s) < Limit /\ Length(s) + rows[it] + 3 <= Limit

CanAdd(s) ==
    CASE setup.policy.kind = "RowCount" -> RowCountAllows
      [] setup.policy.kind = "SizeThreshold" -> ThresholdAllows(s)
      [] setup.policy.kind = "MaxPacket" -> PacketAllows(s)

Counted(added) == IF setup.policy.kind # "RowCount" THEN cur_rows_
                  ELSE IF added THEN cur_rows_ + 1 ELSE 0

(***************************************************************************)
(* The MySQL session.                                                      *)
(***************************************************************************)
TransactionEnds == open' = FALSE /\ written' = {}

Fails == stored' = stored /\ (UNCHANGED <<open, written>> \/ TransactionEnds)

RowIds(s) == {<<calls, s[i]>> : i \in DOMAIN s}

Writes(ids) ==
    /\ open' = open
    /\ IF open THEN written' = written \cup ids /\ stored' = stored
               ELSE stored' = stored \cup ids /\ written' = written

Commits == stored' = stored \cup written /\ TransactionEnds

RollsBack == stored' = stored /\ TransactionEnds

(***************************************************************************)
(* insertfrom() resets the query, returns at once if there are no rows,    *)
(* and constructs the access controller.                                   *)
(***************************************************************************)
Idle == pc \in {"idle", "returned", "thrown"}

Call(c) ==
    /\ Idle
    /\ calls < MaxCalls
    /\ calls' = calls + 1
    /\ rows' = c /\ it' = 1
    /\ buffer' = <<>> /\ sent' = <<>>
    /\ success' = TRUE
    /\ finished_' = TRUE
    /\ pc' = IF c = <<>> THEN "returned" ELSE "begin"
    /\ UNCHANGED <<setup, cur_rows_, copacetic_, server>>

NoBegin ==
    /\ pc = "begin"
    /\ ~setup.transactions
    /\ pc' = "loop"
    /\ UNCHANGED <<setup, building, rows, sent, success, copacetic_, finished_,
                   server, calls>>

\* START TRANSACTION first commits the transaction that is open, if any.
Begin ==
    /\ pc = "begin"
    /\ setup.transactions
    /\ finished_' = FALSE
    /\ open' = TRUE
    /\ written' = {}
    /\ stored' = stored \cup written
    /\ pc' = "loop"
    /\ UNCHANGED <<setup, building, rows, sent, success, copacetic_, calls>>

\* The result of q.execute() is not looked at.
BeginFails ==
    /\ pc = "begin"
    /\ setup.transactions
    /\ Fails
    /\ finished_' = setup.connThrows
    /\ pc' = IF setup.connThrows THEN "thrown" ELSE "loop"
    /\ UNCHANGED <<setup, building, rows, sent, success, copacetic_, calls>>

(***************************************************************************)
(* The loop: a row is added to the buffer, or else the buffer is executed  *)
(* and the row tried again.  A failed exec() throws or leaves the loop.    *)
(***************************************************************************)
\* Mutant: the buffer is not reset for the next statement.
ExecuteKeepsBuffer(next) ==
    /\ Writes(RowIds(buffer))
    /\ sent' = Append(sent, buffer)
    /\ buffer' = buffer
    /\ copacetic_' = TRUE
    /\ pc' = next
    /\ UNCHANGED success

Execute(next) ==
    /\ Writes(RowIds(buffer))
    /\ sent' = Append(sent, buffer)
    /\ buffer' = <<>>
    /\ copacetic_' = TRUE
    /\ pc' = next
    /\ UNCHANGED success

\* Mutant: a failed exec() is not noticed.
GiveUpNot ==
    /\ success' = success
    /\ pc' = "finish"

GiveUp ==
    /\ success' = FALSE
    /\ pc' = IF setup.queryThrows THEN "unwind" ELSE "finish"

ExecuteFails ==
    /\ Fails
    /\ copacetic_' = FALSE
    /\ GiveUp
    /\ UNCHANGED <<sent, buffer>>

AddRow(next) ==
    /\ CanAdd(buffer)
    /\ cur_rows_' = Counted(TRUE)
    /\ buffer' = Append(buffer, it)
    /\ it' = it + 1
    /\ pc' = next
    /\ UNCHANGED <<setup, rows, sent, success, copacetic_, finished_, server, calls>>

Add == pc = "loop" /\ it <= Len(rows) /\ AddRow("loop")

Ship ==
    /\ pc = "loop"
    /\ it <= Len(rows)
    /\ ~CanAdd(buffer)
    /\ cur_rows_' = Counted(FALSE)
    /\ \/ buffer # <<>> /\ (Execute("retry") \/ ExecuteFails)
       \/ /\ buffer = <<>>
          /\ pc' = "retry"
          /\ UNCHANGED <<buffer, sent, success, copacetic_, server>>
    /\ UNCHANGED <<setup, rows, it, finished_, calls>>

Retry == pc = "retry" /\ AddRow("loop")

TooStrict ==
    /\ pc = "retry"
    /\ ~CanAdd(buffer)
    /\ cur_rows_' = Counted(FALSE)
    /\ GiveUp
    /\ UNCHANGED <<setup, rows, it, buffer, sent, copacetic_, finished_, server, calls>>

ShipLast ==
    /\ pc = "loop"
    /\ it > Len(rows)
    /\ Execute("finish") \/ ExecuteFails
    /\ UNCHANGED <<setup, cur_rows_, rows, it, finished_, calls>>

(***************************************************************************)
(* ac.commit() and ac.rollback(): finished_ is set unless the query        *)
(* throws, and then ~Transaction() rolls back.  A COMMIT whose answer is   *)
(* lost may have been carried out; a ROLLBACK fails when the session is    *)
(* gone.                                                                   *)
(***************************************************************************)
Finishing == pc = "finish" /\ setup.transactions

NoFinish ==
    /\ pc = "finish"
    /\ ~setup.transactions
    /\ pc' = "returned"
    /\ UNCHANGED <<setup, building, rows, sent, success, copacetic_, finished_,
                   server, calls>>

\* Mutant: ac.commit() whether or not every statement succeeded.
FinishAlways ==
    /\ Finishing
    /\ Commits
    /\ finished_' = TRUE
    /\ pc' = "returned"
    /\ UNCHANGED <<setup, building, rows, sent, success, copacetic_, calls>>

Finish ==
    /\ Finishing
    /\ IF success THEN Commits ELSE RollsBack
    /\ finished_' = TRUE
    /\ pc' = "returned"
    /\ UNCHANGED <<setup, building, rows, sent, success, copacetic_, calls>>

FinishFails ==
    /\ Finishing
    /\ RollsBack \/ (success /\ Commits)
    /\ finished_' = ~setup.connThrows
    /\ pc' = IF setup.connThrows THEN "unwind" ELSE "returned"
    /\ UNCHANGED <<setup, building, rows, sent, success, copacetic_, calls>>

\* Mutant: ~Transaction() leaves the transaction alone.
UnwindOnly ==
    /\ pc = "unwind"
    /\ pc' = "thrown"
    /\ UNCHANGED <<setup, building, rows, sent, success, copacetic_, finished_,
                   server, calls>>

\* An exception leaves insertfrom() past ~Transaction(), which eats its own.
Unwind ==
    /\ pc = "unwind"
    /\ IF setup.transactions /\ ~finished_ THEN RollsBack ELSE UNCHANGED server
    /\ pc' = "thrown"
    /\ UNCHANGED <<setup, building, rows, sent, success, copacetic_, finished_, calls>>

Stopped == Idle /\ calls = MaxCalls /\ UNCHANGED vars

Next ==
    \/ \E c \in Containers : Call(c)
    \/ NoBegin \/ Begin \/ BeginFails
    \/ Add \/ Ship \/ Retry \/ TooStrict \/ ShipLast
    \/ NoFinish \/ Finish \/ FinishFails \/ Unwind
    \/ Stopped

Spec == Init /\ [][Next]_vars

-----------------------------------------------------------------------------
\* Every variable has its type.
TypeOK ==
    /\ setup \in [policy : Policies, transactions : BOOLEAN,
                  connThrows : BOOLEAN, queryThrows : BOOLEAN]
    /\ cur_rows_ \in 0..Limit
    /\ rows \in Seq(Nat) /\ it \in 1..(Len(rows) + 1)
    /\ buffer \in Seq(DOMAIN rows) /\ sent \in Seq(Seq(DOMAIN rows))
    /\ {success, copacetic_, finished_, open} \subseteq BOOLEAN
    /\ written \cup stored \subseteq (0..calls) \X Nat
    /\ calls \in Nat
    /\ pc \in {"idle", "begin", "loop", "retry", "finish", "unwind",
               "returned", "thrown"}

\* The statements accepted so far and the one being built hold the rows the
\* iterator has passed, each once and in order, whatever was refused, retried
\* or failed in between, and no statement is sent without rows.
Run(s, from, next) == from <= next /\ s = [i \in 1..(next - from) |-> from + i - 1]
Reached(ss, k) == IF k = 0 THEN 1 ELSE Last(ss[k]) + 1
EachRowOnce ==
    /\ \A k \in DOMAIN sent :
          sent[k] # <<>> /\ Run(sent[k], Reached(sent, k - 1), Reached(sent, k))
    /\ Run(buffer, Reached(sent, Len(sent)), it)

\* However a call ends, it leaves no transaction open on the connection: the
\* rows of one would be committed by whoever begins or commits the next.
NoOpenTransaction == Idle => ~open /\ written = {}

Inserted == {<<calls, i>> : i \in DOMAIN rows}
AllOrNothing == Inserted \subseteq stored \/ Inserted \cap stored = {}

\* With a Transaction on a connection that throws, an insertfrom() that has
\* ended, in whatever way, has stored all the rows or none.
ThrowingAllOrNothing ==
    Idle /\ setup.transactions /\ setup.connThrows => AllOrNothing

\* If both the query and its connection throw, then an insertfrom() that
\* returns has stored every row, in a transaction or not.
ReturnMeansStored ==
    pc = "returned" /\ setup.connThrows /\ setup.queryThrows => Inserted \subseteq stored

\* RowCountInsertPolicy: no statement has more than max_rows_ rows, though one
\* policy object counts through several calls, some of which fail half-way.
RowCountKept ==
    setup.policy.kind = "RowCount" => \A k \in DOMAIN sent : Len(sent[k]) <= Limit

\* SizeThresholdInsertPolicy: "each query (except possibly the last) will be at
\* least 20 KB, exceeding that only by as much as one row's worth of data,
\* minus one byte" (ssqls.dbx).
Full(s) == Length(s) >= Limit
NotFullBefore(s) == Length(Front(s)) <= Limit - 1
ThresholdKept ==
    setup.policy.kind = "SizeThreshold" =>
        \A k \in DOMAIN sent :
            /\ k < Len(sent) \/ it <= Len(rows) => Full(sent[k])
            /\ NotFullBefore(sent[k])

\* MaxPacketInsertPolicy: only a statement of a single row exceeds the size.
Fits(s) == Len(s) > 1 => Length(s) <= Limit
PacketsKept ==
    setup.policy.kind = "MaxPacket" => \A k \in DOMAIN sent : Fits(sent[k])

-----------------------------------------------------------------------------
\* What is known of a statement in the making, from which the next ones of
\* the policies' promises follow.
Looping == pc \in {"loop", "retry"}
BufferKept ==
    CASE setup.policy.kind = "RowCount" -> Looping => Len(buffer) <= cur_rows_
      [] setup.policy.kind = "SizeThreshold" ->
            /\ Looping => \A k \in DOMAIN sent : Full(sent[k])
            /\ buffer # <<>> => NotFullBefore(buffer)
      [] setup.policy.kind = "MaxPacket" -> Fits(buffer)

\* Where the loop is: what there is to send, and when it has come through.
Position ==
    /\ pc \in {"begin", "loop", "retry"} => success /\ rows # <<>>
    /\ pc = "begin" => it = 1 /\ sent = <<>> /\ buffer = <<>>
    /\ pc = "loop" => it = 1 \/ buffer # <<>>
    /\ pc = "retry" => it <= Len(rows) /\ buffer = <<>>
    /\ pc = "finish" =>
          /\ success => it = Len(rows) + 1 /\ buffer = <<>>
          /\ setup.queryThrows => success

\* A transaction is open only inside a call, where ~Transaction() knows of it.
TransactionKnown ==
    /\ open => setup.transactions /\ ~finished_
    /\ ~open => written = {}
    /\ Idle \/ pc = "begin" => ~open

\* Where the rows sent so far are: in the open transaction, or else in the
\* table.  If the start of a transaction that failed has been reported, there
\* is one, and none of its rows is in the table yet.
SentRows == {<<calls, i>> : i \in 1..(Reached(sent, Len(sent)) - 1)}
RowsTraced ==
    LET through == Looping \/ (pc = "finish" /\ success)
    IN  /\ through /\ open => written = SentRows
        /\ through /\ ~open => SentRows \subseteq stored
        /\ setup.transactions /\ setup.connThrows =>
              /\ pc \in {"begin", "loop", "retry", "finish"} => Inserted \cap stored = {}
              /\ through => open
              /\ pc = "unwind" => AllOrNothing

\* Every variable has its type, what a policy promises about the size of a
\* statement is kept by all that were sent, and the rest of what is known
\* between two steps: together they are inductive.
IInv ==
    /\ TypeOK /\ Position /\ EachRowOnce
    /\ RowCountKept /\ ThresholdKept /\ PacketsKept /\ BufferKept
    /\ TransactionKnown /\ NoOpenTransaction
    /\ RowsTraced /\ ThrowingAllOrNothing /\ ReturnMeansStored

-----------------------------------------------------------------------------
(***************************************************************************)
(* What all this amounts to for the caller.                                *)
(***************************************************************************)
Outcome == CASE pc = "idle" -> "none"
             [] pc \in {"returned", "thrown"} -> pc
             [] OTHER -> "running"

Contract == INSTANCE InsertContract WITH
    atomic <- setup.transactions /\ setup.connThrows,
    honest <- setup.connThrows /\ setup.queryThrows,
    table <- stored,
    job <- [i \in DOMAIN rows |-> <<calls, i>>],
    outcome <- Outcome

\* However statements, failures and the ends of transactions interleave, the
\* rows reach the table in order, in a Transaction all together if at all, and
\* an insertfrom() that does not throw where it would has stored them.
InsertsInOrder == Contract!Spec
=============================================================================
