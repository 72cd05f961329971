# MySQL++ in TLA+

A TLA+ development for MySQL++ (`lib/`, `ssx/`, `examples/`): what the library does, which
properties it keeps, what TLC checks of them on small instances and what TLAPS proves for all.
Paths below are relative to the repository; `PROJECT.json` maps every definition to its lines.

## 1. The system

MySQL++ wraps the MySQL C API. An application makes a `Connection` (or takes one from its
`ConnectionPool`), asks it for a `Query`, builds or fills a statement, executes it, and reads
result sets made of `Row`s. There is no thread inside the library; the concurrency is that of the
application's threads, which meet in the pool and in shared data behind reference counts.
`ssqlsxlat` is a program of its own that reads descriptions of SSQLS and writes them.

| component | state | operations | talks to | hard part | what makes it correct |
|---|---|---|---|---|---|
| ConnectionPool (`cpool`, `beemutex`) | list of (connection, last use, in use), mutex | grab, safe_grab, exchange, release, remove, shrink, clear | subclass's create/destroy/max_idle_time, `Connection::ping` | threads between critical sections, dropped connections, reused addresses, exceptions | a connection is lent to one thread at a time, none is lost or dangles, calls return |
| ScopedConnection | a pool and a pointer | constructor grabs, destructor releases | the pool | what happens to the pointer in between | the holder's connection goes back once |
| SimpleConnectionPool (`examples/cpool.cpp`) | an unlocked counter | overrides of grab and release, worker thread | the pool | check-then-act, virtual calls from safe_grab | the limit holds, nobody waits for ever |
| RefCountedPointer | object, shared count | construct, copy, assign, swap, destroy | Row, results, String | self-assignment, order of drop, two threads | object lives exactly while somebody points to it |
| DBDriver and options | connected flag, pending and applied options | connect, disconnect, set_option, destructor | C API, Option classes | failure half-way through the queue, retry | options take effect, each is released once |
| Connection and subclasses | driver, copacetic flag, error text, exceptions | construct, connect, disconnect, set_option, copy, create_db, ... | DBDriver, Query, server | error state in three places, constructors that throw, dropped sessions | error() speaks of what just failed; no session is orphaned |
| Bulk insert (`insertfrom`, insert policies, `Transaction`) | statement buffer, policy's count, transaction flag | insertfrom, replacefrom, commit, rollback | server session, DBDriver | any statement fails, exceptions on or off | all rows or none, in order, within the limits |
| Query | buffer, parsed template, defaults | parse, str, execute/store/use, storein, reset, copy | DBDriver, SQLQueryParms | reuse, implicit reset, defaults processed in place, recursion flag | each call sends what the program wrote, whatever came before |
| results | result handle shared by copies, rows | use, store, store_next, storein, for_each, fetch_row, copy | driver, RefCountedPointer | use() keeps the connection busy, multi-queries, errors between rows | no result is lost, doubled or cut short unseen; the connection is free when nobody reads |
| values: type table, SQLTypeAdapter, String, Null, tiny_int, dates, manipulators | plain values | conversion, comparison, quoting, escaping | server | widths, ends of buffers, nulls, overflow | what is written is read back as the same value |
| rows, value lists, sets, SSQLS | cells, names, flags | lists, lookup, insert/replace/update statements | Query, server | flags and separators, names and cases, nulls | a list is what was selected; an object survives its table |
| server addresses, option classes, command lines | none | parse, set | DBDriver | forms that look alike, versions, moments | what is accepted is usable, the rest is refused |
| ssqlsxlat (`ssx/`) | files being read, search path, last table | parse with includes, print | file system | includes that nest, static state shared by files, long lines | the output declares what the input did; the program ends |
| exceptions, usage texts, version, build files | none | | | | not modelled |

## 2. Modules

| module | models | 
|---|---|
| `ConnectionLoans` | the abstract pool: a library that lends each item to one reader |
| `ConnectionPool` | the pool, at the grain of its critical sections |
| `ConnectionPoolProofs` | theorems about `ConnectionPool` and `SimpleConnectionPool` |
| `SimpleConnectionPool` | the example's subclass and worker, composed with `ConnectionPool` by EXTENDS |
| `SharedOwnership` | what sharing promises: an object lives exactly as long as a pointer to it |
| `RefCountedPointer` | the pointer, with load and store of the count apart |
| `DataTypeProofs` | theorems about `RefCountedPointer`, and about moments, `tiny_int` and `Null<>` |
| `DBDriver`, `DBDriverProofs` | driver and option queue; theorems |
| `Connection` | Connection, its subclasses and the driver's error state and sessions |
| `ConnectionProofs` | theorems about `Connection` |
| `InsertContract` | what a caller of insertfrom() may count on, without statements, policies and transactions |
| `InsertFrom`, `InsertFromProofs` | insertfrom(), policies, Transaction and the server's session; theorems |
| `Query`, `QueryProofs` | the stream, template queries, defaults, storein() and copies; theorems |
| `ClientSession` | external: the C API's side of a connection, one query at a time |
| `QueryResults` | the ways results are taken, over `ClientSession` |
| `QueryResultsProofs` | theorems about `QueryResults` |
| `Values` | the pure algorithms, one input at a time; it INSTANCEs the modules of operators: |
| ... `ServerAddress` | `TCPConnection::parse_address()`, `Connection::parse_ipc_method()` |
| ... `TypeInfo`, `Adapters`, `Literals` | the type table; SQLTypeAdapter, String's and Null's comparison; manipulators, escaping |
| ... `Conversions` | `String::conv()`, `tiny_int` |
| ... `Dates` | Date, Time, DateTime: text, order, time_t |
| ... `ValueLists`, `Ssqls` | lists, rows and sets; the SSQLS macros and the statements made of objects |
| ... `Options` | the option classes as a table, and the driver's three ways to set one |
| ... `CommandLine` | getopt() and the two command lines |
| `SsqlsLines` | one line of an SSQLS v2 file, read and printed |
| `SsqlsTranslator`, `SsqlsTranslatorProofs` | ssqlsxlat: files, includes, search path, printer, exit code; theorems, about `SsqlsLines` too |
| `MC...` | constants for TLC |

**ConnectionPool.** `pool_`, `in_use`, `last_used` are the list of `ConnectionInfo`; `heap` is what
create() made and destroy() has not destroyed. An element of `Conn` is an address, so a later
create() may return it again. Each thread has a program counter whose values name the
critical section it is in or waits for. `Lock` is `ScopedLock`'s constructor; its destructor is part
of the step that ends the section. grab() is `Purge`, `FindMru` or `FindNone`, and `Create` or
`CreateThrows` under one lock; safe_grab() and exchange() return to the lock between their parts, as
the code does. The application calls any method in any order and gives back only what it holds;
the server may drop a connection at any moment.

**SimpleConnectionPool** adds the overrides in front of and behind the base class's steps: `Check`
(the waiting loop), `Load`/`Increment`, `Load`/`Decrement`. The virtual call is what matters:
safe_grab() and exchange() come back to the override of grab(), while remove() has none. `Width` is
the modulus of the unsigned counter.

**RefCountedPointer.** A slot is a pointer object: the application's variables and, per thread, the
temporary of the create-and-swap idiom. An assignment is `Assign` or `AssignNew` (the temporary is
made), `Load`, `Increment` (it is counted), `Swap`, and `Load`, `Decrement` (the temporary dies with the old
object). A variable belongs to one thread, as the documentation asks; the object and its count
do not. It implements `SharedOwnership` with all slots as the pointers: `AssignNew` is its `Create`, `Assign` its `Share`, `Swap` and `Expire`
(a variable that dies leaves its pointer to the thread's temporary) its `Trade`, `Decrement` its `Drop`; `Load`, `Increment` and `DropNothing` are stutters.

**DBDriver.** An option's class is abstracted to when its set() may succeed (`Before`, `Anytime`,
`After` the connection, `Unsupported`), read off `options.cpp`. `connect()` is one step with three
outcomes: all queued options applied and the server accepts or not (`Connect`), an option fails half-way
(`ConnectRefusesOption`), an option in the queue was deleted before (`ConnectUsesDeleted`, where the
behaviour is undefined and the model stops). `in_force` is what the C API's handle has, `wanted` what the
application was told it would have.

**InsertFrom.** A row is the length of its value list. The loop's steps are `Add`, `Ship`, `Retry`,
`TooStrict`, `ShipLast`; the access controller's are `Begin`, `BeginFails`, `Finish`, `FinishFails`, `Unwind`,
with `NoBegin` and `NoFinish` for `NoTransaction`. `setup` fixes policy, access controller, and whether
connection and query throw: the two flags differ when `NoExceptions` guards only one of the objects.
The server is external: a statement succeeds or fails, and a failure may end the transaction;
a COMMIT whose answer is lost may have been carried out. replacefrom() has the same loop.
It implements `InsertContract` with the table `stored`, the job the rows of the call and the outcome read off `pc`: a statement outside a
transaction adds rows, inside one it adds none, and a COMMIT adds them all.

**Query.** A statement is a sequence of pieces: literal text, placeholders, values with the quoting they have
had (`wraps`). `ParseAll` is parse(), `Proc` is proc() and with it pprepare(), which replaces a default in place. What a
call would send is `Statement(Built(q, p))`, and `SentOfOne`, `BuiltByStorein` for the other two ways into the
driver; the actions `Execute`, `ExecuteOne`, `Storein` and `Str` change the state as those calls do, with every outcome
of the driver. `intent` is the specification: what the program inserted, parsed and set, from which `Expected` substitutes
without elements, processing or copies. An assigned Query takes over the original's text and template and is expected to send what the original
would: `test/query_copy.cpp` asks for that, while the comments at `query.h:143` and `query.h:222` say that both are empty in the copy. Values hold no percent sign, so text that was built and is parsed again
has no new placeholders. `Careful` is the program: it adds no default and copies no Query after defaults
were used, assigns only to a Query that was reset, and uses names on a Query that was not assigned to. `Disciplined` are its
templates: positions up to 127, one option for all placeholders of a position, one position for all of a name. What goes wrong without either is in
section 3. `Spelling` writes a template's elements out again, and `WrittenKept` says what text, defaults and names hold between two calls.

**QueryResults.** `session` is the C API's handle: what the server still has to say (`pending`), the statement being
answered and how much of it was read. A statement answers with rows, with none, fails, or is cut off by an error after some
rows; the server stops at the first that goes wrong. `ClientSession` is the library's documented behaviour and is external; everything above it
is the code's. Each call is one action, because one thread owns the connection: `Store`, `Use`, `Storein`, `ForEach` (for_each() and
store_if(), whose functor may throw on any row), `StoreNext`, `Exec`, `Ping`; `FetchFrom`, `CopyResult` and `DropResult` act on UseQueryResult variables.
`Assign` is the managed pointer of a UseQueryResult: the last holder's release frees the MYSQL_RES and with it
the connection. `throws` is the exception flag of the connection and its queries; `Exceptions` is that of a UseQueryResult, which an empty one has on whatever
the connection's is, as the default constructor that makes it does, and copies pass on. `draining` is the documented loop over more_results() and store_next(). `sent`, `got` and `told` are
histories: what was asked, what the program received, how the last call ended. The program gives exec() only statements without rows
and enters the loop with no result in use, as the documentation asks.

**Connection.** Each connection has its three places for an error (`message`, `driver_message`, `mysql_error`); an
error is one the latest call has met ("this") or one of a call before ("earlier"), which is all that `error()` can be wrong about. A
step ages every error it leaves alone. `Asked` is a wrapper of `dbdriver.h` around a C API call; `Connected`, `Disconnected` and `Copied` are
the driver's calls of these names; the actions are the methods of `Connection` and of `TCPConnection`, `UnixDomainSocketConnection` and
`WindowsNamedPipeConnection`, with the outcome of every C API call left open. `open` is the server's sessions, any of which it may drop;
`last` tells on which connection the latest call was and how it ended. One option stands for those kept as a bit of
`client_flag`.

**Values** has no behaviour of its own: a step gives one algorithm one input out of a small set, and the invariants say what
must come out. The ten modules under it are operators and translate the code as functions. Characters are those that the code tells apart (a quote, a
backslash, NUL, a digit); texts are sequences of them, long enough to reach past every fixed width. C++ types keep their order of
widths, scaled down in `Conversions` so that every overflow happens in a text of four characters. The tables (`types`, the option
classes) are whole. What the server makes of a literal, a list or a statement is external and written down as `Read`, `Meaning`, `Rows...`.

**SsqlsTranslator.** `stack` is the nest of files being read, `search_path` and `table` the parser's static state, `parsed`
what each run made of its input. A line is chosen when it is first read, so a behaviour fixes only the part of the files that it
meets. `Write` prints the parse to a named file, as many lines as the disk takes, and `Again` starts the program on its own output; `-o -`, which
prints to the standard output behind main()'s own lines, has no second run and is left out (section 7). A line is its words: comments are not in the
vocabularies, though their characters count with a line's, so that a long comment ends its file as `LineTooLong` does. A behaviour
writes all its files from one vocabulary: fields of all types, fields with all attributes, the other lines with their errors, or the few
lines with which files include each other.

## 3. Runs

| run | what it shows | bounds |
|---|---|---|
| `pool` | all safety of the pool, the inductive invariant, and that it implements `ConnectionLoans` | 2 threads of 3 calls, 3 addresses, clock to 2, idle time 2, one drop; symmetric in threads and connections |
| `pool_live` | every call returns | 2 threads of 2 calls, no symmetry |
| `limit` | one thread: the count is never too low, at any step, and the limit holds | 6 calls, 2 drops, limit 1 |
| `refs` | no dangling, the inductive invariant with no leak and every count exact, and that it implements `SharedOwnership`, in a program whose threads do not share an object | 2 threads, one of them with 2 variables that start as copies of one pointer, the other with 1; 4 addresses; symmetric in addresses |
| `options` | the option lists keep every option, what is in force can be released, first connect applies all (the inductive invariant) | 5 options of 4 kinds, 3 connects |
| `connection` | error() speaks of the call that failed; no session is orphaned or shared; a copy keeps the flags | 2 connections, 3 sessions open or remembered |
| `insert` | rows in order, limits kept, all or nothing where failures are reported, the inductive invariant of these, and that it implements `InsertContract` | 3 policies with 2 limits, containers of 0 to 3 rows of 2 lengths, 2 calls |
| `query` | every call sends what the program wrote, elements spell the template, and the inductive invariant of both | 2 Queries, a template of one placeholder and one of two in reverse order, one of them used twice, a quoted value and NULL, 4 pieces in a buffer or a template, 6 calls; symmetric in Queries |
| `results` | connection busy only while held, results in order and whole, the program's records of them true, failures told, readers undisturbed, the loop ends | 2 holders, 2 queries, of up to 3 statements and of up to 2, 1 row each |
| `values` | each pure algorithm against what it is to mean | texts of up to 5 or 6 lexemes, dates and times at the ends of their ranges, 3 flags instead of 13, 3 columns, command lines of up to 3 settings |
| `translator` | what is printed is read back as the same declarations, and the inductive invariant of this; every translation ends | 3 files in 2 directories, 3 files open at once, lines of 99 characters, 2, 3, 3 and 5 lines of the four vocabularies |

Two threads and three addresses are enough for the pool: its invariants speak of two threads at a time, a
third address allows one connection in use by each thread and one free, and with two free of different age MRU order
matters. Three calls are the shortest history in which a thread grabs, gives back
and grabs what another thread has touched. Four addresses in `refs` exceed the three variables plus one
temporary minus sharing. Three sessions in `connection` let each connection have one while the server has dropped, unnoticed,
the one before it. Two `insertfrom()` calls let the second inherit the policy's count. In `query` the properties look ahead at every call
the program could make next, so six calls reach: write, parse, set a default, use it, assign the Query, use the copy. In `results` two holders share or compete for one connection, the second
query meets what the first left behind, three statements put one that returns nothing between two that return rows, and one row is enough for a result to be unread, read and cut off.
In `values` the code's own constants give the bounds: every fixed width, table and range is passed by at least one. In `translator` five
lines let a file include another, that one the first, and fields follow on either side; three open files end a circle as the system's limit does.

The run `limit_stuck` ends in a violation: every dead connection leaves the example's count one too high, until grab() waits for ever
on a pool that has nothing in use (`examples/cpool.cpp:70`).

Found by other runs of these modules, with larger constants or stronger properties, or by reading, and kept as hazards and notes
in `PROJECT.json`. Of the pool and its example:

* the example's limit is exceeded when two threads pass its unlocked test together; safe_grab() removes a dead connection
  where its comment says it releases it.

Of shared data:

* with two threads a lost update of the plain count frees an object in use; `assign(T*)` of the managed pointer is not the no-op its comment promises;
  a custom Destroyer loses the class's copy constructor.

Of connections and options:

* an option refused by connect() is deleted and stays in the queue, where the next connect() uses it again (`dbdriver.cpp:114`, against `connection.h:274`); a connect() that failed at the server has consumed the queued
  options, which the next mysql_init() forgets; a queued option that the build does not know makes connect(), and a copy's
  constructor, throw BadOption with exceptions off and nothing in `error()`; queued options are not released by the destructor; `set_option_default()` compares the types of pointers;
* a message that Connection keeps from an earlier call hides what the C API says of a later query; `DBDriver::shutdown()` returns
  true when it failed and false when it worked; a copy takes over only what `mysql_real_connect()` is given;
* `connection.h:43` describes the order of explicit port and port in the address the other way round; an IPv6 literal in brackets is refused when
  `Connection::connect()` parses it a second time; MultiResultsOption on a live session switches MULTI_STATEMENTS.

Of statements:

* a copied or assigned Query has its original's text and template, although `query.h:143` says that "the stream buffer and template query stuff will be
  empty in the copy, regardless of what values they have in the original" and `query.h:224` the same of operator=; `query.cpp:251` and `:253` copy both,
  `test/query_copy.cpp` and `ChangeLog:249` want it so, and the properties of `query` take the test's side;
* storein() fills a template with one placeholder twice (`query.h:795`, against `query.cpp:645`); `q = conn.query()` leaves named defaults bound to a destroyed Query; one argument for a template of
  several placeholders is sent as the statement; a default used under two options follows the first; positions above 127
  are negative; assigning a Query appends, as does START TRANSACTION after a failed SET TRANSACTION with exceptions off; a default quoted in place is
  quoted again after a further default is added or the Query is copied, since the copy forgets `is_processed_`;
* with exceptions off a Query tests true after an insertfrom() that stored nothing, and a failed START TRANSACTION goes unnoticed;
  MaxPacketInsertPolicy does not count the statement's header.

Of results:

* an empty UseQueryResult has exceptions on, also one that use() returned (`result.h:302`, `query.cpp:690`, `:696`): its fetch_row() throws with the connection's
  exceptions off, although `tutorial.dbx:235` says that objects pass their flag on and that disabling a connection's disables all;
  storein(), for_each() and fetch_row() take an error between rows for the end, and only errnum() tells; store_next() does not set the query's truth value, and with
  exceptions off a loop over more_results() entered while a use() result is unread never ends.

Of values:

* `long long` is in no row of the type table on LP64, nor `Null<char>`, and both throw when used in a query; DECIMAL UNSIGNED and TIMESTAMP NULL become
  CHAR, MEDIUMINT UNSIGNED NOT NULL the signed type; several types have two default rows, against `type_info.cpp:61`;
* a manipulator on SQLQueryParms marks the value as processed and then copies it into the list, which forgets the mark: a placeholder with an
  option quotes it again; `quote` makes the text 'NULL' of a null field; a plain infinity is 0 in a stream and NULL in a placeholder;
* `-inf` and `nan` are written as words; a number too large for long converts to the largest one without an error; a number too large for int
  is cut; a time of 100 hours or more does not read back;
* a list by flags that leaves out its first item begins with the delimiter, and one of more than 13 items reads flags behind the vector; the flagged
  `field_list()` quotes names as values; FieldNames' assignments append; the copy constructor of Row turns exceptions on;
* reading a set loses the first character behind each comma; an update whose key is NULL changes no row; `set()` of an SSQLS forgets
  `instance_table()`; two longs 2^32 apart compare equal; a manipulator given to an SSQLS `field_list()` applies to the backtick in
  front of each name, not to the name.

Of ssqlsxlat:

* the printer spells out defaults, so that a short line may come out too long to be read, and a line too long, even if only by its comment, ends its file without an error; the line number of
  a message is one too high, and some messages have none (`parsev2.h:79`); an included file ending in a table takes the fields behind the directive;
  the directory added to the search path is the one of the name as written, not of where the file was found; `.` elements stay in the path, which `parsev2.h:107` says are dropped; the exit code is zero though the disk
  was full; `-o -` mixes the output with main()'s own lines (`genv2.cpp:71`, `main.cpp:49`); `--` is no end of the options.

The mutants in the modules (marked in comments, used by no specification) are plausible bugs; each
property of a passing run is violated by the ones `PROJECT.json` names for it.

## 4. Fairness

`pool_live` assumes weak fairness of each thread's steps inside the pool: a thread in the pool's code, or
waiting for the mutex while it is free, is scheduled. Nothing is assumed of the application: it need not
call, nor give back. The mutex need not be fair: a waiter may be overtaken, but only by as many calls as the others make
(`MaxCalls`). Drops are finite too (`MaxDrops`): against a server
that drops every connection at once safe_grab() would not end. `limit_stuck` assumes weak fairness of the worker
threads' steps only, so its counterexample is not a thread that was never run. `results` assumes of its loop that it is run: nothing else happens in
a single-threaded program that is inside it. `translator` assumes that the program goes on
with its next step, whichever that is: nothing outside can stop it.

## 5. Proofs

`ConnectionPoolProofs` proves for every number of threads, addresses and calls, for every idle time:

* `Invariance`: `IInv` is inductive. `ExclusiveUse` alone is not: to lend a free connection safely one must know that
  what is not marked in use is held by nobody (`AllAccounted`), that the mutex's owner is the only one
  inside (`SectionOK`), and that the argument a thread takes into release() or remove() is still
  its own (`ArgumentOK`). `FreeIsGreatest` is the lemma about the ordering: a maximal
  element that is in use means that all are.
* `Exclusion`, `Accounting`, `Lifetime`, `Frugality`: the four invariants, from it.
* `MostRecentFirst`, `OnlyDeadDestroyed`, `HolderDestroys`: the action properties. The lemmas `HeldGrows` and
  `HeldShrinks` say which steps change what a thread holds.
* `Refinement`: each step of the pool is a step of `ConnectionLoans` or leaves shelf and loans alone,
  with the free connections as the shelf and `held` as the loans.

Assumed of the constants: None is no thread and no connection, the bounds are naturals. `CallsReturn` is
liveness and stays with TLC.

The same module takes these theorems to the subclass:

* `StillAPool`: the example's steps are steps of the base class or leave it alone, so that every theorem about `ConnectionPool` holds of it, and
  `StillExclusive` is one that is used below. Both for any threads.
* `CountIsSound`, `LimitHolds`: the count is inductively at least the number of connections in use, and the limit holds. `LimitInv` says where the
  count is ahead: before the base class lends a connection that was counted and after it has one back that was not yet discounted. Assumed, in the theorems, is
  `OneThread`: with two the limit is exceeded, as a hazard in `PROJECT.json` records.

`DataTypeProofs` proves of the counted pointer, for any threads, variables and addresses:

* `CountsStayExact`: the count of a cell is the number of slots that share it. The invariant must follow the count through an assignment: a thread between load and
  store knows the count it has read, slots that share a cell belong to one thread, and the temporary takes over what it swapped out. `Replaced` is the
  lemma that one sharer in another's place leaves the number as it is.
* `SharedDataStaysAlive`, `LastOneCleansUp`: no pointer dangles, no object or count leaks.
* `CountsOwn`: `RefCountedPointer` implements `SharedOwnership`. What a decrement does to the object is decided by the count it has read, what the abstract
  `Drop` does by whether another pointer is left; `LastIsAlone` is the lemma that the two agree, and needs the exact counts. The other steps create, share, trade or stutter.

Assumed, in the theorems, is `Confined`: the variables that start as copies of one pointer belong to one thread. That an assignment takes only a thread's own
variables is the actions' guard. Without `Confined` the theorems are false, and TLC shows it.

Of the values it proves what walks over no text, for every value where `values` takes those of a small set: `MomentsOrdered` (DateTime's
comparison is the order of its fields, and its six operators agree), `TinyIntegersWrap` (`tiny_int`'s arithmetic is that of integers modulo 256: each operator undoes its inverse,
quotient and remainder add up, simple and compound operators agree) and `NullsOrdered` (of two `Null<>` values exactly one is less or they are equal, null first).
They rest on no assumption. `TinyFacts` and `TinyWraps` say what cutting to a byte does to a number.

`DBDriverProofs` proves for every set of options of the four kinds and any number of connects:

* `OptionsAreOwned`: no option is queued twice, nothing waits in the queue of a connected driver, every option that was given and not deleted is in one of the lists, and what is
  in force is in the one that the destructor releases.
* `FirstConnectLosesNothing`: after a first connect() that succeeds every option asked for is in force; until then they are all in the queue (`FirstConnectPending`), which makes it inductive.

Assumed: a kind says when an option can be set, and the kinds do not overlap.

`InsertFromProofs` proves for all policies and limits, all containers of rows of any length:

* `PoliciesKeepTheirPromises`: the inductive invariant. What a policy promises about the size of a statement (`RowCountKept`, `ThresholdKept`, `PacketsKept`) needs what
  it knows of the buffer between two rows (`BufferKept`); all-or-nothing needs to know whether the server's transaction is open and which
  failures the program has been told of (`TransactionKnown`, `RowsTraced`).
* `RowsAreSentInOrder`, `TransactionsEnd`, `InsertIsAtomic`, `ReturnIsSuccess`: each row is sent once and in order; no transaction is left open; with a Transaction on
  a connection that throws, a call that has ended in whatever way has stored all rows or none; a call that returns although connection and query would throw has stored them all.
* `KeepsContract`: `InsertFrom` implements `InsertContract`. The table of the contract changes by whole beginnings of the job, so that a step must know
  which rows were sent before it: as long as the transaction is open they are all waiting in it, otherwise they are in the table already (`RowsTraced`).

The length of a statement is a sum over the rows, a recursive function. That it exists and is determined by its rows is proved by taking a least
number of rows at which it fails (`SumsExist`, `SumsAgree`): the library's well-foundedness theorem is about sets, and needs no operator as a parameter.
Assumed: a statement's header is not empty, lengths and limits are naturals.

`QueryResultsProofs` proves for every number of variables, rows, statements and queries:

* `ResultsTyped`: no UseQueryResult points to a MYSQL_RES that was freed.
* `ConnectionBusyOnlyIfHeld`: the connection is busy only with a result somebody holds, and none is leaked.
* `FailuresAreTold`: what the program was last told agrees with how the last statement ended; nothing throws unasked but fetch_row() of an empty result,
  which always does.
* `UnreadRowsStay`, an action property: no call takes rows from a result that somebody else is reading.
* `HistoryIsKept`, `ResultsComeInOrder`: results reach the program in the order of the statements, none twice or left out unseen.

The first two are one inductive invariant: the status of the connection and `live` agree, every allocated result has a holder, every holder an allocated result.
The last two add what the histories say of a result that is being read (`HistoryKept`): how far it is, and that what is pending is what the query asked for and
has not yet come. `AssignKeeps` is the lemma about the counted pointer, `HoldersUntouched` the one about calls that bring the connection back to where it was;
the lemmas before them say what each call of the C API does to the status. Assumed: `NoResult` is no result's number, the bounds are naturals.

`QueryProofs` proves for any Queries, any templates, parameters and texts, and any number of calls:

* `QueriesStaySound`: `IInv` is inductive. What a call sends depends on the elements parse() left, on defaults that earlier calls have quoted in place, on
  names looked up in a map and on whatever is still in the buffer; so the invariant relates each to what the program wrote: the elements spell the
  template, a default is the one given or that one quoted once and marked, a name leads to its placeholder, and the text of a Query that is no template
  is the program's.
* `TemplatesSurvive`: the elements spell the template, as a theorem by itself.
* `StatementsAreSentAsWritten`: from such a state every call, with whatever parameters, sends the statement that the specification substitutes, or
  throws where it finds no value.

`ParseAllFacts` is the lemma about parse(): the elements it adds spell what it read. `ProcFacts` and `ProcIsSubstituted` are about proc(): it writes the
spelled template with the values in place, and throws exactly where a placeholder has none, even for defaults half of which are quoted already;
`DefaultIsQuoted` says why a default that was quoted already is written as it was the first time. Parse, substitution and spelling are recursive functions over positions; as for the sums of
`InsertFromProofs`, a property of all of them is proved by taking the least position at which it fails. Assumed of the constants: texts are sequences whose placeholders are
what parse() can read (three digits, a known option), parameters are adapters no call has used. Assumed, in the theorems: `Careful` and `Disciplined`. Without the first a default is
quoted twice, without the second it has the quoting of another placeholder or its position wraps around in a signed char.

`SsqlsTranslatorProofs` proves for any files, any alphabet of names, any limits on open files and on the length of a line:

* `Readable`: `IInv` is inductive. Each field stands under a table in every parse and every nest of files (`FieldsPlaced`); the output is a
  beginning of what the first run parsed (`OutputKnown`); and the second run is as far in that as it is in its input (`SecondReads`).
* `TranslationIsRead`: when a second run has read the output of the first, it declares what the lines written stand for: all the first declared, unless the disk was full. This is about outputs
  whose lines fit the buffer of read_line(); the printer can make one that does not.

The lemmas in front are about one line. Printing and parsing are inverse, word by word: `TypeReadsBack` for a type, `FieldReadsBack` for a field with its
attributes in the printer's order, `TableReadsBack`, `OptionReadsBack`, and `ReadsBack` for all of them. An attribute given twice has its last
value, which the model finds as a maximum: hence `GreatestIn`. `PlacedAppend` says that a file's parse stays
placed when another's is put behind it. Texts are sequences whose length nothing bounds; the steps that walk over one take it a line at a time,
so no induction is needed beyond that of the behaviour. Assumed of the constants: the words the program itself uses are pieces, files have names, the
vocabularies are made of lines that can be written.

`ConnectionProofs` proves for every number of connections and sessions:

* `SessionsAreOwned`: every variable has its type, each session the server has open from this program belongs to exactly one live
  connection that says it is connected. `TypeOK` ties `session`, `is_connected_` and `exists` together and `SessionsOwned` says that no session is
  shared or orphaned; together they are inductive. A call does one of a few things to the sessions (keeps them, closes one, dials), and there is one lemma for each.
* `ErrorTellsTheLatest`: error() speaks of the latest call. Inductive given that None is no live connection.
* `CopiesKeepFlags`: a copy that connects does so with the flags of the original, whatever either went through before.

Assumed: None is no connection, no session's number and none of the marks of an error; the bound on sessions is a natural.

## 6. Only model-checked

* Liveness (`CallsReturn`, `DrainEnds`, the example's `WorkersEnd`, and that every translation ends): it needs ENABLED, which the provers here do not treat.
* `Values`: each invariant is about the inputs the run enumerates. Most of the algorithms walk over a text, so that a theorem for every text would be an
  induction for each; the tables are constants, which TLC checks whole. What walks over nothing is proved (section 5).

## 7. Not modelled

The exception classes, which carry data only (which one is thrown is told by the models that throw); wording, usage texts and log output; the
Windows build, and a build without threads, where the mutex is empty; field metadata (`Field`, `Fields`, `FieldTypes` beyond the type lookup);
examples, tests and build files, except `examples/cpool.cpp`. In the modelled components: Transaction's
isolation-level constructor and its use outside insertfrom(), a ScopedConnection whose connection is also removed by hand, pool methods
called from the pool's own overrides (they would block on the mutex), positions above 127 in templates, `ssqlsxlat -o -`, the code
generator of SSQLS v2 beyond printing (which the source does not have either).

## 8. What is left

1. `ScopedLending`: ScopedConnection over `ConnectionPool` with removal by hand, where its destructor gives back what it no longer has.
2. Transaction by itself, with the isolation-level constructor, and two of them on one connection.
3. The algorithms of `Values` that walk over a text, for texts of any length, with a prover that has induction over data.
