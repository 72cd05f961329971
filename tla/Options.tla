------------------------------- MODULE Options -------------------------------
(***************************************************************************)
(* The option classes (lib/options.cpp) and the three set_option() calls   *)
(* they make (lib/dbdriver.h).  Every class does the same: it may need a   *)
(* version of the C API, it may insist on a moment, and it passes its      *)
(* argument on in one of four ways.                                        *)
(*                                                                         *)
(* A handle is the flags for mysql_real_connect(), the settings given to   *)
(* mysql_options() and the ones given to the server of the session.        *)
(***************************************************************************)
EXTENDS Integers, FiniteSets

Flag(name) == [CLIENT_FOUND_ROWS |-> 2, CLIENT_NO_SCHEMA |-> 16, CLIENT_LOCAL_FILES |-> 128,
               CLIENT_IGNORE_SPACE |-> 256, CLIENT_INTERACTIVE |-> 1024, CLIENT_TRANSACTIONS |-> 8192,
               CLIENT_MULTI_STATEMENTS |-> 65536, CLIENT_MULTI_RESULTS |-> 131072][name]

(***************************************************************************)
(* The table: what each class needs (since), when it may be set, by what   *)
(* call, and under which name.                                             *)
(***************************************************************************)
Row(since, when, call, name) == [since |-> since, when |-> when, call |-> call, name |-> name]
ApiBefore(since, name) == Row(since, "before", "mysql_options", name)
FlagBefore(name) == Row(0, "before", "client_flag", name)
Statements(name) == Row(40101, "any", "server_option", name)

\* CompressOption to MultiStatementsOption
FirstOptions ==
    {ApiBefore(0, "COMPRESS"), ApiBefore(0, "CONNECT_TIMEOUT"), FlagBefore("CLIENT_FOUND_ROWS"),
     ApiBefore(40101, "GUESS_CONNECTION"), FlagBefore("CLIENT_IGNORE_SPACE"), ApiBefore(0, "INIT_COMMAND"),
     FlagBefore("CLIENT_INTERACTIVE"), FlagBefore("CLIENT_LOCAL_FILES"), ApiBefore(0, "LOCAL_INFILE"),
     Statements("CLIENT_MULTI_RESULTS"), Statements("CLIENT_MULTI_STATEMENTS")}
\* NamedPipeOption to SecureAuthOption, but the one in between
MiddleOptions ==
    {ApiBefore(0, "NAMED_PIPE"), FlagBefore("CLIENT_NO_SCHEMA"), ApiBefore(40001, "PROTOCOL"),
     ApiBefore(0, "READ_DEFAULT_FILE"), ApiBefore(0, "READ_DEFAULT_GROUP"), ApiBefore(40101, "READ_TIMEOUT"),
     ApiBefore(50003, "REPORT_DATA_TRUNCATION"), ApiBefore(40101, "SECURE_AUTH")}
\* Mutant: the version in which the option was mended is off by one.
ReconnectOptionEarly(version) ==
    Row(50013, IF version >= 50105 THEN "any" ELSE "after", "mysql_options", "RECONNECT")
ReconnectOption(version) ==
    Row(50013, IF version >= 50106 THEN "any" ELSE "after", "mysql_options", "RECONNECT")
\* SetCharsetDirOption to WriteTimeoutOption
LastOptions ==
    {ApiBefore(0, "SET_CHARSET_DIR"), ApiBefore(0, "SET_CHARSET_NAME"), ApiBefore(40101, "SET_CLIENT_IP"),
     ApiBefore(40100, "SHARED_MEMORY_BASE_NAME"), Row(0, "before", "ssl_set", "SSL"),
     ApiBefore(40101, "USE_EMBEDDED_CONNECTION"), ApiBefore(40101, "USE_REMOTE_CONNECTION"),
     ApiBefore(40101, "WRITE_TIMEOUT")}

Options(version) == FirstOptions \cup MiddleOptions \cup LastOptions \cup {ReconnectOption(version)}

\* Switches are turned on or off by their argument; the others have none, or
\* a value, and are set whatever it is.
Switched(row) ==
    \/ row.call \in {"client_flag", "server_option"}
    \/ row.name \in {"LOCAL_INFILE", "RECONNECT", "REPORT_DATA_TRUNCATION", "SECURE_AUTH"}
TurnsOn(row, arg) == Switched(row) => arg

(***************************************************************************)
(* set_option() with a flag: the loop shifts the zeros out, and one bit is *)
(* left of a flag.  The highest flag known depends on the version.         *)
(***************************************************************************)
Shifted(o) ==
    LET run[n \in Nat] == IF n = 0 \/ n % 2 = 1 THEN n ELSE run[n \div 2] IN run[o]
Highest(version) == IF version > 40000 THEN Flag("CLIENT_MULTI_RESULTS") ELSE Flag("CLIENT_TRANSACTIONS")
FlagKnown(o, version) == Shifted(o) = 1 /\ o >= 1 /\ o =< Highest(version)

Put(set, x, arg) == IF arg THEN set \cup {x} ELSE set \ {x}
Handle(flags, api, session) == [flags |-> flags, api |-> api, session |-> session]
Nothing == Handle({}, {}, {})

ByFlag(h, name, arg, version) ==
    IF FlagKnown(Flag(name), version) THEN [h EXCEPT !.flags = Put(h.flags, name, arg)] ELSE h
ByApi(h, name, on) == [h EXCEPT !.api = Put(h.api, name, on)]
\* Both options switch the same thing on a session that is up.
ByServer(h, arg) == [h EXCEPT !.session = Put(h.session, "MULTI_STATEMENTS", arg)]

Passed(row, h, connected, arg, version) ==
    CASE row.call = "client_flag" -> ByFlag(h, row.name, arg, version)
      [] row.call \in {"mysql_options", "ssl_set"} -> ByApi(h, row.name, TurnsOn(row, arg))
      [] row.call = "server_option" -> IF connected THEN ByServer(h, arg) ELSE ByFlag(h, row.name, arg, version)
PassedByFlag(row, connected) ==
    row.call = "client_flag" \/ (row.call = "server_option" /\ ~connected)

(***************************************************************************)
(* Option::set(): the version, the moment, the call.  What the C API       *)
(* accepts is its own business, a flag is DBDriver's.                      *)
(***************************************************************************)
Outcome(error, h) == [error |-> error, handle |-> h]
\* Mutant: the session is not looked at.
SetAnyTime(row, h, connected, arg, version, accepted) ==
    IF version < row.since THEN Outcome("err_api_limit", h)
    ELSE IF (IF PassedByFlag(row, connected) THEN FlagKnown(Flag(row.name), version) ELSE accepted)
         THEN Outcome("err_NONE", Passed(row, h, connected, arg, version))
         ELSE Outcome("err_api_reject", h)
Set(row, h, connected, arg, version, accepted) ==
    IF version < row.since THEN Outcome("err_api_limit", h)
    ELSE IF row.when = "before" /\ connected THEN Outcome("err_connected", h)
    ELSE IF row.when = "after" /\ ~connected THEN Outcome("err_disconnected", h)
    ELSE IF (IF PassedByFlag(row, connected) THEN FlagKnown(Flag(row.name), version) ELSE accepted)
         THEN Outcome("err_NONE", Passed(row, h, connected, arg, version))
         ELSE Outcome("err_api_reject", h)

(***************************************************************************)
(* What the C API makes of a handle when the session comes up: it reads    *)
(* flags and settings once, and the releases from 5.0.13 to 5.1.5 reset    *)
(* the reconnect setting then.                                             *)
(***************************************************************************)
RealConnect(h, version) ==
    [api |-> IF version \in 50013..50105 THEN h.api \ {"RECONNECT"} ELSE h.api,
     flags |-> h.flags, session |-> h.flags \cap {"CLIENT_MULTI_STATEMENTS", "CLIENT_MULTI_RESULTS"}]
\* What a setting given to a session that is up still changes.
Effective == {"RECONNECT"}

-----------------------------------------------------------------------------
Versions == {32300, 40001, 40100, 40101, 50003, 50013, 50105, 50106}
Cases == [version : Versions, connected : BOOLEAN, arg : BOOLEAN, accepted : BOOLEAN]
Bits == {0} \cup {2^i : i \in 0..19} \cup {2^i + 2^j : i, j \in 0..19}

\* Whatever is accepted is in force in the session it was meant for: the one
\* that is up, or the next one.  What is refused changes nothing.
AcceptedIsInForce(case) ==
    \A row \in Options(case.version) : \A h \in {Nothing, Handle({"CLIENT_MULTI_STATEMENTS"}, {"RECONNECT"}, {})} :
        LET o == Set(row, h, case.connected, case.arg, case.version, case.accepted)
            up == RealConnect(o.handle, case.version)
        IN /\ o.error # "err_NONE" => o.handle = h
           /\ o.error = "err_NONE" /\ ~case.connected =>
                (row.name \in up.flags \cup up.api <=> TurnsOn(row, case.arg))
           /\ o.error = "err_NONE" /\ case.connected =>
                \/ row.name \in Effective /\ (row.name \in o.handle.api <=> case.arg)
                \/ row.call = "server_option" /\ ("MULTI_STATEMENTS" \in o.handle.session <=> case.arg)

\* A flag is accepted when exactly one bit of it is set.
OneBit(o, version) == FlagKnown(o, version) <=> \E i \in 0..17 : o = 2^i /\ o =< Highest(version)
=============================================================================
