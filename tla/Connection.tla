----------------------------- MODULE Connection -----------------------------
(***************************************************************************)
(* lib/connection.cpp and its three subclasses over lib/dbdriver.cpp: what *)
(* a call reports and how, which error error() and errnum() then describe, *)
(* the server's sessions, and what a copy of a connection takes over.      *)
(*                                                                         *)
(* An error is either one that the latest call of all has met or an        *)
(* earlier one: no more is told apart.  The C API and the server decide    *)
(* what works; addresses come in the classes that ServerAddress.tla tells  *)
(* apart.  One option is modelled, for those that are kept as a bit of     *)
(* MYSQL::client_flag; DBDriver.tla has the queue of the others.           *)
(***************************************************************************)
EXTENDS Integers

CONSTANTS
    Connections,    \* the program's Connection objects
    None,           \* no error, no session
    MaxSessions     \* bound: sessions open or remembered at one time

ASSUME BoundAssumption == MaxSessions \in Nat
ASSUME NoneAssumption == None \notin Nat \cup Connections \cup {"this", "earlier"}

Problem == {None, "this", "earlier"}

VARIABLES
    exists,         \* connections that are constructed and not destroyed
    exceptions_,    \* OptionalExceptions::exceptions_
    copacetic_,
    message,        \* Connection::error_message_
    driver_message, \* DBDriver::error_message_
    mysql_error,    \* mysql_errno(&mysql_)
    is_connected_,
    session,        \* the session behind the C API's handle
    client_flag,    \* is the option's flag set for the connection?
    pending,        \* does the option wait for connect()?
    open,           \* sessions the server has open
    last            \* the latest call: on which connection, of which kind, how
                    \* it ended and whether it was a success
vars == <<exists, exceptions_, copacetic_, message, driver_message, mysql_error,
          is_connected_, session, client_flag, pending, open, last>>
driver == <<driver_message, mysql_error, is_connected_, session, client_flag, pending, open>>

\* After a call that reports nothing.
Silent == [on |-> None, kind |-> "silent", of |-> None, end |-> "none", success |-> TRUE]
\* After copy(), which reports nothing; an option it cannot apply may make it
\* throw.
Copy(c, o) == [on |-> c, kind |-> "copy", of |-> o, end |-> "none", success |-> TRUE]

Init ==
    /\ exists = {}
    /\ exceptions_ = [c \in Connections |-> TRUE]
    /\ copacetic_ = [c \in Connections |-> TRUE]
    /\ message = [c \in Connections |-> None]
    /\ driver_message = [c \in Connections |-> None]
    /\ mysql_error = [c \in Connections |-> None]
    /\ is_connected_ = [c \in Connections |-> FALSE]
    /\ session = [c \in Connections |-> None]
    /\ client_flag = [c \in Connections |-> FALSE]
    /\ pending = [c \in Connections |-> FALSE]
    /\ open = {}
    /\ last = Silent

\* error() and the driver's error(): the library's own message comes first.
Error(c) ==
    IF message[c] # None THEN message[c]
    ELSE IF driver_message[c] # None THEN driver_message[c] ELSE mysql_error[c]

(***************************************************************************)
(* How a call ends.  A failure is thrown if the call is of a kind that     *)
(* throws and the connection's exceptions are enabled, or else returned.   *)
(***************************************************************************)
Ends(c, kind, success) ==
    last' = [on |-> c, kind |-> kind, of |-> None, success |-> success,
             end |-> IF success THEN "true"
                     ELSE IF kind # "returning" /\ exceptions_[c] THEN "threw" ELSE "false"]

\* Numbers for a new session: of none that is open, nor of one that a
\* connection has not noticed is gone.
Unused == (1..MaxSessions) \ (open \cup {session[c] : c \in Connections})
NewSession == CHOOSE s \in Unused : TRUE

\* What an error becomes when the next call is made and leaves it.
Aged(e) == IF e = None THEN None ELSE "earlier"

\* A new value for a connection's error; those of the others are now earlier.
Put(errors, c, e) == [x \in Connections |-> IF x = c THEN e ELSE Aged(errors[x])]

Says(c, m) == message' = Put(message, c, m)
NotAsked(c) ==
    /\ driver_message' = Put(driver_message, c, Aged(driver_message[c]))
    /\ mysql_error' = Put(mysql_error, c, Aged(mysql_error[c]))
    /\ UNCHANGED <<is_connected_, session, client_flag, pending, open>>

(***************************************************************************)
(* A call of the C API on a connection's handle.  Each wrapper in          *)
(* dbdriver.h clears the driver's own message first; the C API sets or     *)
(* clears the error of the handle.                                         *)
(***************************************************************************)
Asked(c, works) ==
    /\ works => session[c] \in open
    /\ driver_message' = Put(driver_message, c, None)
    /\ mysql_error' = Put(mysql_error, c, IF works THEN None ELSE "this")
    /\ UNCHANGED <<is_connected_, session, client_flag, pending, open>>

(***************************************************************************)
(* DBDriver::disconnect(): closes the session and zeroes the handle.       *)
(***************************************************************************)
\* Mutant: is_connected_ is not reset.
DisconnectedStillUp(c) ==
    IF is_connected_[c]
    THEN /\ open' = open \ {session[c]}
         /\ session' = [session EXCEPT ![c] = None]
         /\ client_flag' = [client_flag EXCEPT ![c] = FALSE]
         /\ driver_message' = Put(driver_message, c, None)
         /\ mysql_error' = Put(mysql_error, c, None)
         /\ UNCHANGED <<pending, is_connected_>>
    ELSE NotAsked(c)

Disconnected(c) ==
    IF is_connected_[c]
    THEN /\ open' = open \ {session[c]}
         /\ session' = [session EXCEPT ![c] = None]
         /\ client_flag' = [client_flag EXCEPT ![c] = FALSE]
         /\ is_connected_' = [is_connected_ EXCEPT ![c] = FALSE]
         /\ driver_message' = Put(driver_message, c, None)
         /\ mysql_error' = Put(mysql_error, c, None)
         /\ UNCHANGED <<pending>>
    ELSE NotAsked(c)

(***************************************************************************)
(* Both forms of DBDriver::connect(): connect_prepare(), then              *)
(* mysql_real_connect() with or without the option's client flag.  Without *)
(* a connection the handle keeps no session; a refused option stops it     *)
(* before the server is asked, and an option this build does not know      *)
(* throws.  how: "refused", "unknown", "failed" or "connected".            *)
(***************************************************************************)
Connected(c, flag, how) ==
    /\ how \in {"refused", "unknown"} => pending[c]
    /\ how = "connected" => Unused # {}
    /\ open' = (open \ {session[c]}) \cup (IF how = "connected" THEN {NewSession} ELSE {})
    /\ session' = [session EXCEPT ![c] = IF how = "connected" THEN NewSession ELSE None]
    /\ is_connected_' = [is_connected_ EXCEPT ![c] = how = "connected"]
    /\ client_flag' = [client_flag EXCEPT ![c] = how = "connected" /\ flag]
    /\ pending' = [pending EXCEPT ![c] = how \in {"refused", "unknown"} /\ @]
    /\ driver_message' = Put(driver_message, c, IF how = "refused" THEN "this" ELSE None)
    /\ mysql_error' = Put(mysql_error, c, IF how = "failed" THEN "this" ELSE None)

Outcome == {"refused", "unknown", "failed", "connected"}

\* BadOption is thrown whatever the connection says of exceptions.
ThrowsBadOption(c) ==
    last' = [on |-> c, kind |-> "unknown option", of |-> None, end |-> "threw", success |-> FALSE]

(***************************************************************************)
(* connect() of Connection: parse_ipc_method() or the driver may fail.     *)
(***************************************************************************)
ConnectTo(c, badAddress) ==
    IF badAddress
    THEN /\ copacetic_' = [copacetic_ EXCEPT ![c] = FALSE]
         /\ Says(c, "this")
         /\ Ends(c, "throwing", FALSE)
         /\ NotAsked(c)
    ELSE /\ Says(c, None)
         /\ \E how \in Outcome :
               /\ Connected(c, pending[c], how)
               /\ IF how = "unknown" THEN ThrowsBadOption(c) /\ UNCHANGED copacetic_
                  ELSE /\ Ends(c, "throwing", how = "connected")
                       /\ copacetic_' = [copacetic_ EXCEPT ![c] = how = "connected"]

Connect(c) ==
    /\ c \in exists
    /\ \E bad \in BOOLEAN : ConnectTo(c, bad)
    /\ UNCHANGED <<exists, exceptions_>>

(***************************************************************************)
(* connect() of the subclasses.  A TCPConnection returns if its own parse  *)
(* fails, thrown or not; an address in RFC 2732 form passes that parse and *)
(* fails the one Connection::connect() makes of the rest.                  *)
(***************************************************************************)
FailsEarly(c, kind) ==
    /\ Says(c, "this")
    /\ Ends(c, kind, FALSE)
    /\ NotAsked(c)
    /\ UNCHANGED copacetic_

TcpConnect(c) ==
    /\ c \in exists
    /\ \/ FailsEarly(c, "returning")
       \/ \E literal \in BOOLEAN : ConnectTo(c, literal)
    /\ UNCHANGED <<exists, exceptions_>>

SocketConnect(c) ==
    /\ c \in exists
    /\ FailsEarly(c, "throwing") \/ ConnectTo(c, FALSE)
    /\ UNCHANGED <<exists, exceptions_>>

PipeConnect(c) ==
    /\ c \in exists
    /\ FailsEarly(c, "throwing")
    /\ UNCHANGED <<exists, exceptions_>>

(***************************************************************************)
(* The constructors and the destructor.  The one that connects deletes its *)
(* driver if connect() throws; its exceptions are enabled, so it always    *)
(* does.  The copying one leaves copacetic_ as the memory was.             *)
(***************************************************************************)
Fresh(c, te) ==
    /\ c \notin exists
    /\ exceptions_' = [exceptions_ EXCEPT ![c] = te]

Construct(c, te) ==
    /\ Fresh(c, te)
    /\ exists' = exists \cup {c}
    /\ copacetic_' = [copacetic_ EXCEPT ![c] = TRUE]
    /\ Says(c, None)
    /\ last' = Silent
    /\ UNCHANGED driver

ConstructConnected(c) ==
    /\ Fresh(c, TRUE)
    /\ \/ /\ Connected(c, FALSE, "connected")
          /\ exists' = exists \cup {c}
          /\ copacetic_' = [copacetic_ EXCEPT ![c] = TRUE]
          /\ last' = [Silent EXCEPT !.on = c, !.kind = "throwing", !.end = "true"]
       \/ /\ last' = [on |-> c, kind |-> "throwing", of |-> None, end |-> "threw", success |-> FALSE]
          /\ UNCHANGED <<exists, copacetic_, driver>>
    /\ Says(c, None)

\* Mutant: the destructor leaves the session to the server.
DestroyOpen(c) ==
    /\ c \in exists
    /\ exists' = exists \ {c}
    /\ session' = [session EXCEPT ![c] = None]
    /\ client_flag' = [client_flag EXCEPT ![c] = FALSE]
    /\ is_connected_' = [is_connected_ EXCEPT ![c] = FALSE]
    /\ driver_message' = Put(driver_message, c, None)
    /\ mysql_error' = Put(mysql_error, c, None)
    /\ pending' = [pending EXCEPT ![c] = FALSE]
    /\ Says(c, None)
    /\ last' = Silent
    /\ UNCHANGED <<exceptions_, copacetic_, open>>

Destroy(c) ==
    /\ c \in exists
    /\ exists' = exists \ {c}
    /\ open' = open \ {session[c]}
    /\ session' = [session EXCEPT ![c] = None]
    /\ client_flag' = [client_flag EXCEPT ![c] = FALSE]
    /\ is_connected_' = [is_connected_ EXCEPT ![c] = FALSE]
    /\ driver_message' = Put(driver_message, c, None)
    /\ mysql_error' = Put(mysql_error, c, None)
    /\ pending' = [pending EXCEPT ![c] = FALSE]
    /\ Says(c, None)
    /\ last' = Silent
    /\ UNCHANGED <<exceptions_, copacetic_>>

(***************************************************************************)
(* copy(): DBDriver::copy() drops the connection of the copy, and connects *)
(* it if the original is connected, with the client flags of the original's*)
(* handle and the pending options of the copy.  It reports nothing.  A     *)
(* connection that is assigned to itself has dropped the original.  In the *)
(* constructor the new driver has made a copy already: it is dropped and   *)
(* made again, which comes to one.                                         *)
(***************************************************************************)
\* Mutant: the flags are those of the copy.
CopiedWithout(c, o) ==
    IF is_connected_[o] /\ o # c
    THEN \E how \in Outcome : Connected(c, pending[c], how)
    ELSE Disconnected(c)

Copied(c, o) ==
    IF is_connected_[o] /\ o # c
    THEN \E how \in Outcome : Connected(c, client_flag[o], how)
    ELSE Disconnected(c)

ConstructCopy(c, o) ==
    /\ o \in exists \ {c}
    /\ Fresh(c, exceptions_[o])
    /\ exists' = exists \cup {c}
    /\ copacetic_' \in {[copacetic_ EXCEPT ![c] = b] : b \in BOOLEAN}
    /\ Says(c, None)
    /\ Copied(c, o)
    /\ last' = Copy(c, o)

Assign(c, o) ==
    /\ {c, o} \subseteq exists
    /\ exceptions_' = [exceptions_ EXCEPT ![c] = exceptions_[o]]
    /\ Says(c, None)
    /\ Copied(c, o)
    /\ last' = Copy(c, o)
    /\ UNCHANGED <<exists, copacetic_>>

Disconnect(c) ==
    /\ c \in exists
    /\ Says(c, None)
    /\ Disconnected(c)
    /\ last' = Silent
    /\ UNCHANGED <<exists, exceptions_, copacetic_>>

(***************************************************************************)
(* The calls that need a connection.  ping() and kill() never throw.       *)
(* Without one select_db() and shutdown() complain as a C API call would,  *)
(* but in a message of the library's own, and errnum() stays.              *)
(***************************************************************************)
WhileDisconnected(c, kind) ==
    /\ ~is_connected_[c]
    /\ Says(c, "this")
    /\ Ends(c, kind, FALSE)
    /\ NotAsked(c)

WhileConnected(c, kind) ==
    /\ is_connected_[c]
    /\ Says(c, None)
    /\ \E works \in BOOLEAN : Asked(c, works) /\ Ends(c, kind, works)

Ping(c) ==
    /\ c \in exists
    /\ WhileDisconnected(c, "returning") \/ WhileConnected(c, "returning")
    /\ UNCHANGED <<exists, exceptions_, copacetic_>>

\* Mutant: the message of an earlier failure stays.
SelectDbUncleared(c) ==
    /\ c \in exists
    /\ \/ WhileDisconnected(c, "throwing")
       \/ /\ is_connected_[c]
          /\ \E works \in BOOLEAN : Asked(c, works) /\ Ends(c, "throwing", works)
          /\ Says(c, Aged(message[c]))
    /\ UNCHANGED <<exists, exceptions_, copacetic_>>

SelectDb(c) ==
    /\ c \in exists
    /\ WhileDisconnected(c, "throwing") \/ WhileConnected(c, "throwing")
    /\ UNCHANGED <<exists, exceptions_, copacetic_>>

\* mysql_shutdown() returns zero when it worked and DBDriver::shutdown()
\* passes that on as a bool: the report is the opposite of what happened.
Shutdown(c) ==
    /\ c \in exists
    /\ \/ WhileDisconnected(c, "throwing")
       \/ /\ is_connected_[c]
          /\ Says(c, None)
          /\ \E works \in BOOLEAN :
                /\ Asked(c, works)
                /\ last' = [on |-> c, kind |-> "inverted", of |-> None, success |-> works,
                            end |-> IF ~works THEN "true" ELSE IF exceptions_[c] THEN "threw" ELSE "false"]
    /\ UNCHANGED <<exists, exceptions_, copacetic_>>

Kill(c) ==
    /\ c \in exists
    /\ WhileConnected(c, "returning")
    /\ UNCHANGED <<exists, exceptions_, copacetic_>>

(***************************************************************************)
(* create_db(), drop_db() and count_rows() clear the message and run a     *)
(* Query of their own, which throws if the connection did when it was      *)
(* made.  A query the program runs itself goes straight to the driver.     *)
(***************************************************************************)
Exec(c) ==
    /\ c \in exists
    /\ WhileConnected(c, "throwing")
    /\ UNCHANGED <<exists, exceptions_, copacetic_>>

RunQuery(c) ==
    /\ c \in exists
    /\ is_connected_[c]
    /\ \E works \in BOOLEAN : Asked(c, works) /\ Ends(c, "query", works)
    /\ Says(c, Aged(message[c]))
    /\ UNCHANGED <<exists, exceptions_, copacetic_>>

(***************************************************************************)
(* set_option().  Before the connection it is queued; after it, it takes   *)
(* effect or is refused, which copies the driver's message; an option this *)
(* build does not know throws at once, whatever the connection says of     *)
(* exceptions, and leaves the message as it was.                           *)
(***************************************************************************)
QueueOption(c) ==
    /\ c \in exists
    /\ ~is_connected_[c]
    /\ pending' = [pending EXCEPT ![c] = TRUE]
    /\ driver_message' = Put(driver_message, c, None)
    /\ mysql_error' = Put(mysql_error, c, Aged(mysql_error[c]))
    /\ Says(c, None)
    /\ Ends(c, "option", TRUE)
    /\ UNCHANGED <<exists, exceptions_, copacetic_, is_connected_, session, client_flag, open>>

SetOption(c) ==
    /\ c \in exists
    /\ is_connected_[c]
    /\ \E works \in BOOLEAN :
          /\ driver_message' = Put(driver_message, c, IF works THEN None ELSE "this")
          /\ \E e \in {Aged(mysql_error[c])} \cup (IF works THEN {None} ELSE {}) :
                mysql_error' = Put(mysql_error, c, e)
          /\ Says(c, IF works THEN None ELSE "this")
          /\ Ends(c, "option", works)
    /\ UNCHANGED <<exists, exceptions_, copacetic_, is_connected_, session, client_flag, pending, open>>

SetUnknownOption(c) ==
    /\ c \in exists
    /\ is_connected_[c]
    /\ ThrowsBadOption(c)
    /\ Says(c, Aged(message[c]))
    /\ NotAsked(c)
    /\ UNCHANGED <<exists, exceptions_, copacetic_>>

\* The server closes a session: nobody tells the client before its next call.
ServerDrops ==
    /\ \E s \in open : open' = open \ {s}
    /\ UNCHANGED <<exists, exceptions_, copacetic_, message, driver_message, mysql_error,
                   is_connected_, session, client_flag, pending, last>>

Next ==
    \/ \E c \in Connections :
          \/ \E te \in BOOLEAN : Construct(c, te)
          \/ ConstructConnected(c) \/ Destroy(c)
          \/ \E o \in Connections : ConstructCopy(c, o) \/ Assign(c, o)
          \/ Connect(c) \/ TcpConnect(c) \/ SocketConnect(c) \/ PipeConnect(c) \/ Disconnect(c)
          \/ Ping(c) \/ SelectDb(c) \/ Shutdown(c) \/ Kill(c) \/ Exec(c) \/ RunQuery(c)
          \/ QueueOption(c) \/ SetOption(c) \/ SetUnknownOption(c)
    \/ ServerDrops

Spec == Init /\ [][Next]_vars

-----------------------------------------------------------------------------
\* Every variable has its type, and a handle has a session exactly while the
\* driver says it is connected; outside its lifetime a connection has none.
TypeOK ==
    /\ exists \subseteq Connections
    /\ exceptions_ \in [Connections -> BOOLEAN] /\ copacetic_ \in [Connections -> BOOLEAN]
    /\ message \in [Connections -> Problem]
    /\ driver_message \in [Connections -> Problem]
    /\ mysql_error \in [Connections -> Problem]
    /\ is_connected_ \in [Connections -> BOOLEAN]
    /\ session \in [Connections -> (1..MaxSessions) \cup {None}]
    /\ client_flag \in [Connections -> BOOLEAN] /\ pending \in [Connections -> BOOLEAN]
    /\ open \subseteq 1..MaxSessions
    /\ \A c \in Connections : is_connected_[c] <=> session[c] # None
    /\ \A c \in Connections \ exists : ~is_connected_[c] /\ ~pending[c]

\* No session is orphaned: each one the server has open belongs to one live
\* connection that is connected, through reconnects, copies, failed
\* constructors and destructors.
SessionsOwned ==
    /\ \A s \in open : \E c \in exists : is_connected_[c] /\ session[c] = s
    /\ \A c, d \in Connections : session[c] = session[d] /\ session[c] # None => c = d

\* Every variable has its type, and no session is orphaned or shared.
IInv == TypeOK /\ SessionsOwned

\* Whatever came before, error() speaks of a call on the connection that has
\* just failed and of none after one that worked.  The queries the program
\* runs itself are another matter: a message kept from an earlier failure hides
\* theirs.  An option that is queued, or set by
\* mysql_options(), leaves what the C API said of an earlier call.
ErrorIsTheLatest ==
    last.on \in exists =>
        /\ ~last.success /\ last.kind \notin {"query", "unknown option"} => Error(last.on) = "this"
        /\ last.success /\ last.kind \in {"throwing", "returning", "inverted"} => Error(last.on) = None

\* A copy of a connection has the original's client flags when it connects.
CopyKeepsFlags ==
    [][last'.kind = "copy" /\ is_connected_'[last'.on] /\ last'.of # last'.on
          => client_flag'[last'.on] = client_flag[last'.of]]_last
=============================================================================
