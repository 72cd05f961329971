--------------------------- MODULE ServerAddress ---------------------------
(***************************************************************************)
(* How a server parameter is taken apart: TCPConnection::parse_address()   *)
(* (lib/tcp_connection.cpp) and Connection::parse_ipc_method(), which asks *)
(* each of Connection's subclasses whether the parameter is one of its     *)
(* own.  The build is for a POSIX system.                                  *)
(*                                                                         *)
(* An address is a sequence of lexemes: punctuation, words, the name of a  *)
(* service the system knows, port numbers, and a character no address may *)
(* have.  Two numbers never touch: they would be one.                      *)
(***************************************************************************)
EXTENDS Integers, Sequences
LOCAL INSTANCE FiniteSetsExt

Number == {"0", "80", "65535", "65536"}
Lexeme == {"[", "]", ":", "word", "telnet", "/"} \cup Number

Value(n) == CASE n = "0" -> 0 [] n = "80" -> 80 [] n = "65535" -> 65535 [] n = "65536" -> 65536
ServicePort == 23       \* getservbyname("telnet", "tcp")
USHRT_MAX == 65535

Spelled(a) == \A i \in 1..Len(a) - 1 : ~(a[i] \in Number /\ a[i + 1] \in Number)

(***************************************************************************)
(* std::string::find(), 0 for npos.                                        *)
(***************************************************************************)
npos == 0
Find(s, what, from) ==
    LET at == {i \in from..Len(s) : s[i] \in what} IN IF at = {} THEN npos ELSE Min(at)

Error(why) == [ok |-> FALSE, error |-> why]

(***************************************************************************)
(* The two ways to pull a service name off.  A "[" starts the form of RFC  *)
(* 2732; in any other address the only colon is the one before the service.*)
(***************************************************************************)
Parts(addr, service) == [ok |-> TRUE, addr |-> addr, service |-> service]

SplitBracketed(a) ==
    LET pos     == Find(a, {"]"}, 1)
        literal == SubSeq(a, 2, pos - 1)
        colon   == Find(literal, {":"}, 1)
    IN
    IF pos = npos \/ Find(a, {":"}, pos + 1) # pos + 1 \/ Find(a, {"[", "]"}, pos + 2) # npos
    THEN Error("malformed")
    ELSE IF literal # <<>> /\ (colon = npos \/ Find(literal, {":"}, colon + 1) = npos)
    THEN Error("two colons")
    ELSE Parts(literal, SubSeq(a, pos + 2, Len(a)))

SplitPlain(a) ==
    LET pos == Find(a, {":"}, 1) IN
    IF pos = npos THEN Parts(a, <<>>)
    ELSE IF Find(a, {":"}, pos + 1) # npos THEN Error("one colon")
    ELSE Parts(SubSeq(a, 1, pos - 1), SubSeq(a, pos + 1, Len(a)))

Split(a) == IF a # <<>> /\ a[1] = "[" THEN SplitBracketed(a) ELSE SplitPlain(a)

(***************************************************************************)
(* The port: atoi() reads the digits a service starts with; what follows   *)
(* them is ignored.  Without a service the caller's port stays.            *)
(***************************************************************************)
Port(n) == [ok |-> TRUE, port |-> n]

\* Mutant: the test of the upper bound is missing.
LookUpUnbounded(service, port) ==
    IF service = <<>> THEN Port(port)
    ELSE IF service[1] \in Number
    THEN IF Value(service[1]) < 1 THEN Error("port") ELSE Port(Value(service[1]))
    ELSE IF service = <<"telnet">> THEN Port(ServicePort) ELSE Error("service")

LookUp(service, port) ==
    IF service = <<>> THEN Port(port)
    ELSE IF service[1] \in Number
    THEN IF Value(service[1]) \in 1..USHRT_MAX THEN Port(Value(service[1])) ELSE Error("port")
    ELSE IF service = <<"telnet">> THEN Port(ServicePort) ELSE Error("service")

Legal(l) == l \notin {"[", "]", "/"}

ParseAddress(a, port) ==
    LET parts == Split(a) IN
    IF ~parts.ok THEN parts
    ELSE LET found == LookUp(parts.service, port) IN
         IF ~found.ok THEN found
         ELSE IF \E i \in DOMAIN parts.addr : ~Legal(parts.addr[i]) THEN Error("character")
         ELSE [ok |-> TRUE, addr |-> parts.addr, port |-> found.port]

(***************************************************************************)
(* parse_ipc_method(): a null parameter takes the defaults, no parameter   *)
(* is a named pipe on this system, a path that names a socket we may use   *)
(* is that socket, and the rest is TCP/IP.  TCPConnection::connect() parses*)
(* its address first and hands Connection::connect() what is left of it.   *)
(***************************************************************************)
IsSocket(file) == file = "socket"   \* among "none", "denied", "plain", "socket"
IsPipe(a) == FALSE

IpcMethod(a, file, port) ==
    IF IsPipe(a) THEN [ok |-> TRUE, via |-> "pipe", addr |-> a, port |-> port]
    ELSE IF IsSocket(file) THEN [ok |-> TRUE, via |-> "socket", addr |-> a, port |-> port]
    ELSE LET parsed == ParseAddress(a, port) IN
         IF parsed.ok THEN [ok |-> TRUE, via |-> "tcp", addr |-> parsed.addr, port |-> parsed.port]
         ELSE parsed

TcpConnect(a, file) ==
    LET parsed == ParseAddress(a, 0) IN
    IF parsed.ok THEN IpcMethod(parsed.addr, file, parsed.port) ELSE parsed

-----------------------------------------------------------------------------
(***************************************************************************)
(* The forms tcp_connection.h documents, and what each of them denotes.    *)
(***************************************************************************)
Host(h) == \A i \in DOMAIN h : Legal(h[i]) /\ h[i] # ":"
Literal(h) == h = <<>> \/ ((\A i \in DOMAIN h : Legal(h[i])) /\ (\E i, j \in DOMAIN h : i < j /\ h[i] = ":" /\ h[j] = ":"))
Service(s) == s \in {<<n>> : n \in {"80", "65535"}} \cup {<<"telnet">>}
Meant(s) == IF s = <<"telnet">> THEN ServicePort ELSE Value(s[1])

Denoted(a, port) ==
    {[addr |-> a, port |-> port] : x \in {0} \cap (IF Host(a) THEN {0} ELSE {})}
    \cup {[addr |-> SubSeq(a, 1, i - 1), port |-> Meant(SubSeq(a, i + 1, Len(a)))] :
             i \in {k \in DOMAIN a : a[k] = ":" /\ Host(SubSeq(a, 1, k - 1))
                                                /\ Service(SubSeq(a, k + 1, Len(a)))}}
    \cup {[addr |-> SubSeq(a, 2, i - 1), port |-> Meant(SubSeq(a, i + 2, Len(a)))] :
             i \in {k \in 2..Len(a) - 1 : a[1] = "[" /\ a[k] = "]" /\ a[k + 1] = ":"
                                          /\ Literal(SubSeq(a, 2, k - 1))
                                          /\ Service(SubSeq(a, k + 2, Len(a)))}}

\* Every documented form is understood, and as what it denotes.
FormsUnderstood(a, port) ==
    \A d \in Denoted(a, port) : ParseAddress(a, port) = [ok |-> TRUE, addr |-> d.addr, port |-> d.port]

\* What is accepted can be passed on: a port a TCP connection can have, and
\* an address that is a host or an IPv6 literal and nothing else.
AcceptedIsUsable(a, port) ==
    LET p == ParseAddress(a, port) IN
    p.ok => /\ p.port \in 1..USHRT_MAX \/ p.port = port
            /\ Host(p.addr) \/ Literal(p.addr)

\* TCPConnection::connect() and Connection::connect() between them parse an
\* address twice: the second time changes nothing, unless it is an IPv6 one.
SecondParseAgrees(a) ==
    LET p == ParseAddress(a, 0) IN
    p.ok /\ Host(p.addr) =>
        TcpConnect(a, "none") = [ok |-> TRUE, via |-> "tcp", addr |-> p.addr, port |-> p.port]

\* Every address of up to four lexemes, and bracketed ones of up to seven.
Addresses ==
    {a \in UNION {[1..n -> Lexeme] : n \in 0..4} : Spelled(a)}
    \cup {<<"[">> \o a : a \in UNION {[1..n -> {":", "]", "word", "80"}] : n \in 5..6}}
=============================================================================
