-------------------------- MODULE ConnectionProofs --------------------------
(***************************************************************************)
(* Theorems about Connection.tla, for any number of connections and of     *)
(* sessions: the sessions the server has open are owned by the program's   *)
(* connections, error() speaks of the last call, copies keep the flags.    *)
(*                                                                         *)
(* Every call does one of five things to the sessions (Kept, Closed,       *)
(* Dialled, and these around a constructor or destructor); each lemma says *)
(* that one of them keeps the invariant, and Step says of every action     *)
(* which of them it does.                                                  *)
(***************************************************************************)
EXTENDS Connection, TLAPS

\* The variables that say who has which session.
owners == <<exists, is_connected_, session, open, pending, client_flag>>

\* The part of TypeOK that is about errors and flags only.
ErrorsTyped ==
    /\ exceptions_ \in [Connections -> BOOLEAN] /\ copacetic_ \in [Connections -> BOOLEAN]
    /\ message \in [Connections -> Problem]
    /\ driver_message \in [Connections -> Problem]
    /\ mysql_error \in [Connections -> Problem]

OwnersTyped ==
    /\ exists \subseteq Connections
    /\ is_connected_ \in [Connections -> BOOLEAN]
    /\ session \in [Connections -> (1..MaxSessions) \cup {None}]
    /\ client_flag \in [Connections -> BOOLEAN] /\ pending \in [Connections -> BOOLEAN]
    /\ open \subseteq 1..MaxSessions
    /\ \A c \in Connections : is_connected_[c] <=> session[c] # None
    /\ \A c \in Connections \ exists : ~is_connected_[c] /\ ~pending[c]

Owned == OwnersTyped /\ SessionsOwned

LEMMA Parts == TypeOK <=> ErrorsTyped /\ OwnersTyped
BY DEF TypeOK, ErrorsTyped, OwnersTyped

-----------------------------------------------------------------------------
\* A new session has a number nobody uses.
LEMMA NewSessionIsNew ==
    ASSUME Unused # {}
    PROVE  /\ NewSession \in 1..MaxSessions /\ NewSession # None
           /\ NewSession \notin open
           /\ \A c \in Connections : session[c] # NewSession
<1>1. NewSession \in Unused
    BY DEF NewSession
<1> QED
    BY <1>1, NoneAssumption, BoundAssumption DEF Unused

\* Put() gives each connection an error.
LEMMA PutTyped ==
    ASSUME NEW errors \in [Connections -> Problem], NEW c \in Connections, NEW e \in Problem
    PROVE  Put(errors, c, e) \in [Connections -> Problem]
BY DEF Put, Aged, Problem

LEMMA AgedTyped == ASSUME NEW e \in Problem PROVE Aged(e) \in Problem
BY DEF Aged, Problem

-----------------------------------------------------------------------------
\* The three things a call may do to the session of a connection.
Kept == UNCHANGED <<is_connected_, session, client_flag, pending, open>>
Closed(c) ==
    /\ open' = open \ {session[c]}
    /\ session' = [session EXCEPT ![c] = None]
    /\ is_connected_' = [is_connected_ EXCEPT ![c] = FALSE]
    /\ client_flag' \in [Connections -> BOOLEAN]
    /\ \E p \in BOOLEAN : pending' = [pending EXCEPT ![c] = p]
Dialled(c) ==
    /\ Unused # {}
    /\ open' = (open \ {session[c]}) \cup {NewSession}
    /\ session' = [session EXCEPT ![c] = NewSession]
    /\ is_connected_' = [is_connected_ EXCEPT ![c] = TRUE]
    /\ client_flag' \in [Connections -> BOOLEAN]
    /\ \E p \in BOOLEAN : pending' = [pending EXCEPT ![c] = p]
Changed(c) == Kept \/ Closed(c) \/ Dialled(c)

\* A call keeps the owners right, whether the connection is there before and
\* after it, is made by it or is destroyed by it.
LEMMA KeptKeeps ==
    ASSUME Owned, NEW c \in Connections, Kept, exists' = exists \cup {c}
    PROVE  Owned'
BY DEF Owned, OwnersTyped, SessionsOwned, Kept

LEMMA ClosedKeeps ==
    ASSUME Owned, NEW c \in Connections, Closed(c), exists' \in {exists \cup {c}, exists \ {c}},
           c \in exists' \/ ~pending'[c]
    PROVE  Owned'
<1> USE BoundAssumption, NoneAssumption DEF Owned, OwnersTyped
<1> PICK p \in BOOLEAN : pending' = [pending EXCEPT ![c] = p]
    BY DEF Closed
<1>1. OwnersTyped'
  <2>1. session' \in [Connections -> (1..MaxSessions) \cup {None}]
    BY DEF Closed
  <2>2. is_connected_' \in [Connections -> BOOLEAN] /\ pending' \in [Connections -> BOOLEAN]
    BY DEF Closed
  <2>3. \A d \in Connections : is_connected_'[d] <=> session'[d] # None
    BY DEF Closed
  <2>4. \A d \in Connections \ exists' : ~is_connected_'[d] /\ ~pending'[d]
    BY DEF Closed
  <2> QED
    BY <2>1, <2>2, <2>3, <2>4 DEF Closed
<1>2. \A d, e \in Connections : session'[d] = session'[e] /\ session'[d] # None => d = e
    BY DEF Closed, SessionsOwned
<1>3. \A s \in open' : \E d \in exists' : is_connected_'[d] /\ session'[d] = s
  <2> SUFFICES ASSUME NEW s \in open' PROVE \E d \in exists' : is_connected_'[d] /\ session'[d] = s
    OBVIOUS
  <2>1. s \in open /\ s # session[c]
    BY DEF Closed
  <2>2. PICK d \in exists : is_connected_[d] /\ session[d] = s
    BY <2>1 DEF SessionsOwned
  <2> QED
    BY <2>1, <2>2 DEF Closed
<1> QED
    BY <1>1, <1>2, <1>3 DEF SessionsOwned

LEMMA DialledKeeps ==
    ASSUME Owned, NEW c \in Connections, Dialled(c), exists' = exists \cup {c}
    PROVE  Owned'
<1> USE BoundAssumption, NoneAssumption DEF Owned, OwnersTyped
<1> PICK p \in BOOLEAN : pending' = [pending EXCEPT ![c] = p]
    BY DEF Dialled
<1>1. /\ NewSession \in 1..MaxSessions /\ NewSession # None
      /\ \A d \in Connections : session[d] # NewSession
    BY NewSessionIsNew DEF Dialled
<1>2. OwnersTyped'
  <2>1. session' \in [Connections -> (1..MaxSessions) \cup {None}]
    BY <1>1 DEF Dialled
  <2>2. is_connected_' \in [Connections -> BOOLEAN] /\ pending' \in [Connections -> BOOLEAN]
    BY DEF Dialled
  <2>3. \A d \in Connections : is_connected_'[d] <=> session'[d] # None
    BY <1>1 DEF Dialled
  <2>4. \A d \in Connections \ exists' : ~is_connected_'[d] /\ ~pending'[d]
    BY DEF Dialled
  <2> QED
    BY <1>1, <2>1, <2>2, <2>3, <2>4 DEF Dialled
<1>3. \A d, e \in Connections : session'[d] = session'[e] /\ session'[d] # None => d = e
    BY <1>1 DEF Dialled, SessionsOwned
<1>4. \A s \in open' : \E d \in exists' : is_connected_'[d] /\ session'[d] = s
  <2> SUFFICES ASSUME NEW s \in open' PROVE \E d \in exists' : is_connected_'[d] /\ session'[d] = s
    OBVIOUS
  <2>1. CASE s = NewSession
    BY <2>1 DEF Dialled
  <2>2. CASE s # NewSession
    <3>1. s \in open /\ s # session[c]
      BY <2>2 DEF Dialled
    <3>2. PICK d \in exists : is_connected_[d] /\ session[d] = s
      BY <3>1 DEF SessionsOwned
    <3> QED
      BY <3>1, <3>2 DEF Dialled
  <2> QED
    BY <2>1, <2>2
<1> QED
    BY <1>2, <1>3, <1>4 DEF SessionsOwned

-----------------------------------------------------------------------------
\* What the driver's calls do to the sessions.
LEMMA NotAskedKeeps == ASSUME NEW c, NotAsked(c) PROVE Kept
BY DEF NotAsked, Kept

LEMMA AskedKeeps == ASSUME NEW c, NEW works, Asked(c, works) PROVE Kept
BY DEF Asked, Kept

LEMMA DisconnectedCloses ==
    ASSUME OwnersTyped, NEW c \in Connections, Disconnected(c)
    PROVE  Kept \/ (Closed(c) /\ is_connected_[c])
<1>1. CASE is_connected_[c]
  <2>1. client_flag' \in [Connections -> BOOLEAN]
    BY <1>1 DEF OwnersTyped, Disconnected
  <2>2. pending' = [pending EXCEPT ![c] = pending[c]] /\ pending[c] \in BOOLEAN
    BY <1>1 DEF OwnersTyped, Disconnected
  <2> QED
    BY <1>1, <2>1, <2>2 DEF Disconnected, Closed
<1>2. CASE ~is_connected_[c]
    BY <1>2, NotAskedKeeps DEF Disconnected
<1> QED
    BY <1>1, <1>2

LEMMA ConnectedDials ==
    ASSUME OwnersTyped, NEW c \in Connections, NEW flag \in BOOLEAN, NEW how \in Outcome,
           Connected(c, flag, how)
    PROVE  /\ how = "connected" => Dialled(c)
           /\ how # "connected" => Closed(c)
           /\ pending'[c] => pending[c]
<1>1. client_flag' \in [Connections -> BOOLEAN]
    BY DEF OwnersTyped, Connected
<1>2. /\ pending' = [pending EXCEPT ![c] = how \in {"refused", "unknown"} /\ pending[c]]
      /\ (how \in {"refused", "unknown"} /\ pending[c]) \in BOOLEAN
    BY DEF OwnersTyped, Connected
<1>3. \E p \in BOOLEAN : pending' = [pending EXCEPT ![c] = p]
    BY <1>2
<1>4. pending'[c] => pending[c]
    BY <1>2 DEF OwnersTyped
<1>5. CASE how = "connected"
    BY <1>1, <1>3, <1>4, <1>5 DEF Connected, Dialled
<1>6. CASE how # "connected"
  <2>1. open' = open \ {session[c]}
    BY <1>6 DEF Connected
  <2>2. session' = [session EXCEPT ![c] = None] /\ is_connected_' = [is_connected_ EXCEPT ![c] = FALSE]
    BY <1>6 DEF Connected
  <2> QED
    BY <1>1, <1>3, <1>4, <1>6, <2>1, <2>2 DEF Closed
<1> QED
    BY <1>5, <1>6

LEMMA CopiedChanges ==
    ASSUME OwnersTyped, NEW c \in Connections, NEW o \in Connections, Copied(c, o)
    PROVE  Changed(c)
<1>1. CASE is_connected_[o] /\ o # c
  <2>1. PICK how \in Outcome : Connected(c, client_flag[o], how)
    BY <1>1 DEF Copied
  <2>2. client_flag[o] \in BOOLEAN
    BY DEF OwnersTyped
  <2> QED
    BY <2>1, <2>2, ConnectedDials DEF Changed
<1>2. CASE ~(is_connected_[o] /\ o # c)
    BY <1>2, DisconnectedCloses DEF Copied, Changed
<1> QED
    BY <1>1, <1>2

LEMMA ConnectToChanges ==
    ASSUME OwnersTyped, NEW c \in Connections, NEW bad \in BOOLEAN, ConnectTo(c, bad)
    PROVE  Changed(c)
<1>1. CASE bad
    BY <1>1, NotAskedKeeps DEF ConnectTo, Changed
<1>2. CASE ~bad
  <2>1. PICK how \in Outcome : Connected(c, pending[c], how)
    BY <1>2 DEF ConnectTo
  <2>2. pending[c] \in BOOLEAN
    BY DEF OwnersTyped
  <2> QED
    BY <2>1, <2>2, ConnectedDials DEF Changed
<1> QED
    BY <1>1, <1>2

-----------------------------------------------------------------------------
\* A call on a connection that is there, or that the call makes.
LEMMA ChangedKeeps ==
    ASSUME Owned, NEW c \in Connections, Changed(c), exists' = exists \cup {c}
    PROVE  Owned'
BY KeptKeeps, ClosedKeeps, DialledKeeps DEF Changed

LEMMA StepKeepsOwned ==
    ASSUME Owned, [Next]_vars
    PROVE  Owned'
<1> USE DEF Owned
<1>1. CASE UNCHANGED vars
    BY <1>1 DEF vars, OwnersTyped, SessionsOwned
<1>2. CASE ServerDrops
  <2>1. PICK s \in open : open' = open \ {s}
    BY <1>2 DEF ServerDrops
  <2> QED
    BY <1>2, <2>1 DEF ServerDrops, OwnersTyped, SessionsOwned
<1>3. ASSUME NEW c \in Connections, c \in exists, exists' = exists, Changed(c)
      PROVE  Owned'
    BY <1>3, ChangedKeeps
<1>4. ASSUME NEW c \in Connections, NEW te \in BOOLEAN, Construct(c, te)
      PROVE  Owned'
    BY <1>4, KeptKeeps DEF Construct, driver, Kept
<1>5. ASSUME NEW c \in Connections, ConstructConnected(c)
      PROVE  Owned'
  <2>1. CASE Connected(c, FALSE, "connected") /\ exists' = exists \cup {c}
    BY <2>1, ConnectedDials, DialledKeeps DEF Outcome
  <2>2. CASE UNCHANGED <<exists, driver>>
    BY <2>2 DEF driver, OwnersTyped, SessionsOwned
  <2> QED
    BY <1>5, <2>1, <2>2 DEF ConstructConnected
<1>6. ASSUME NEW c \in Connections, Destroy(c)
      PROVE  Owned'
  <2>1. pending' = [pending EXCEPT ![c] = FALSE] /\ ~pending'[c]
    BY <1>6 DEF Destroy, OwnersTyped
  <2>2. client_flag' \in [Connections -> BOOLEAN]
    BY <1>6 DEF Destroy, OwnersTyped
  <2>3. Closed(c) /\ exists' = exists \ {c}
    BY <1>6, <2>1, <2>2 DEF Destroy, Closed
  <2> QED
    BY <2>1, <2>3, ClosedKeeps
<1>7. ASSUME NEW c \in Connections, NEW o \in Connections, ConstructCopy(c, o)
      PROVE  Owned'
    BY <1>7, CopiedChanges, ChangedKeeps DEF ConstructCopy
<1>8. ASSUME NEW c \in Connections, NEW o \in Connections, Assign(c, o)
      PROVE  Owned'
    BY <1>3, <1>8, CopiedChanges DEF Assign
<1>9. ASSUME NEW c \in Connections, Connect(c) \/ TcpConnect(c) \/ SocketConnect(c) \/ PipeConnect(c)
      PROVE  Owned'
    BY <1>3, <1>9, ConnectToChanges, NotAskedKeeps
       DEF Connect, TcpConnect, SocketConnect, PipeConnect, FailsEarly, Changed
<1>10. ASSUME NEW c \in Connections, Disconnect(c)
       PROVE  Owned'
    BY <1>3, <1>10, DisconnectedCloses DEF Disconnect, Changed
<1>11. ASSUME NEW c \in Connections, Ping(c) \/ SelectDb(c) \/ Kill(c) \/ Exec(c)
       PROVE  Owned'
    BY <1>3, <1>11, AskedKeeps, NotAskedKeeps
       DEF Ping, SelectDb, Kill, Exec, WhileDisconnected, WhileConnected, Changed
<1>12. ASSUME NEW c \in Connections, Shutdown(c) \/ RunQuery(c)
       PROVE  Owned'
    BY <1>3, <1>12, AskedKeeps, NotAskedKeeps DEF Shutdown, RunQuery, WhileDisconnected, Changed
<1>13. ASSUME NEW c \in Connections, SetOption(c) \/ SetUnknownOption(c)
       PROVE  Owned'
    BY <1>3, <1>13, NotAskedKeeps DEF SetOption, SetUnknownOption, Kept, Changed
<1>14. ASSUME NEW c \in Connections, QueueOption(c)
       PROVE  Owned'
    BY <1>14 DEF QueueOption, OwnersTyped, SessionsOwned
<1> QED
    BY <1>1, <1>2, <1>4, <1>5, <1>6, <1>7, <1>8, <1>9, <1>10, <1>11, <1>12, <1>13, <1>14 DEF Next

-----------------------------------------------------------------------------
\* The errors keep their types: what a call leaves alone only ages.
LEMMA NotAskedTyped ==
    ASSUME ErrorsTyped, NEW c \in Connections, NotAsked(c)
    PROVE  driver_message' \in [Connections -> Problem] /\ mysql_error' \in [Connections -> Problem]
BY PutTyped, AgedTyped DEF ErrorsTyped, NotAsked

LEMMA AskedTyped ==
    ASSUME ErrorsTyped, NEW c \in Connections, NEW works \in BOOLEAN, Asked(c, works)
    PROVE  driver_message' \in [Connections -> Problem] /\ mysql_error' \in [Connections -> Problem]
<1>1. (IF works THEN None ELSE "this") \in Problem /\ None \in Problem
    BY DEF Problem
<1> QED
    BY <1>1, PutTyped DEF ErrorsTyped, Asked

LEMMA DisconnectedTyped ==
    ASSUME ErrorsTyped, NEW c \in Connections, Disconnected(c)
    PROVE  driver_message' \in [Connections -> Problem] /\ mysql_error' \in [Connections -> Problem]
<1>1. None \in Problem
    BY DEF Problem
<1>2. CASE is_connected_[c]
  <2>1. driver_message' = Put(driver_message, c, None) /\ mysql_error' = Put(mysql_error, c, None)
    BY <1>2 DEF Disconnected
  <2> QED
    BY <1>1, <2>1, PutTyped DEF ErrorsTyped
<1>3. CASE ~is_connected_[c]
    BY <1>3, NotAskedTyped DEF Disconnected
<1> QED
    BY <1>2, <1>3

LEMMA ConnectedTyped ==
    ASSUME ErrorsTyped, NEW c \in Connections, NEW flag, NEW how, Connected(c, flag, how)
    PROVE  driver_message' \in [Connections -> Problem] /\ mysql_error' \in [Connections -> Problem]
<1>1. /\ (IF how = "refused" THEN "this" ELSE None) \in Problem
      /\ (IF how = "failed" THEN "this" ELSE None) \in Problem
    BY DEF Problem
<1> QED
    BY <1>1, PutTyped DEF ErrorsTyped, Connected

LEMMA CopiedTyped ==
    ASSUME ErrorsTyped, NEW c \in Connections, NEW o \in Connections, Copied(c, o)
    PROVE  driver_message' \in [Connections -> Problem] /\ mysql_error' \in [Connections -> Problem]
<1>1. ASSUME NEW how \in Outcome, Connected(c, client_flag[o], how)
      PROVE  driver_message' \in [Connections -> Problem] /\ mysql_error' \in [Connections -> Problem]
    BY <1>1, ConnectedTyped
<1> QED
    BY <1>1, DisconnectedTyped DEF Copied

LEMMA SaysTyped ==
    ASSUME ErrorsTyped, NEW c \in Connections, NEW e \in Problem, Says(c, e)
    PROVE  message' \in [Connections -> Problem]
BY PutTyped DEF Says, ErrorsTyped

LEMMA ConnectToTyped ==
    ASSUME ErrorsTyped, NEW c \in Connections, NEW bad \in BOOLEAN, ConnectTo(c, bad),
           UNCHANGED exceptions_
    PROVE  ErrorsTyped'
<1>1. None \in Problem /\ "this" \in Problem
    BY DEF Problem
<1>2. copacetic_' \in [Connections -> BOOLEAN]
    BY DEF ConnectTo, ErrorsTyped
<1>3. message' \in [Connections -> Problem]
    BY <1>1, SaysTyped DEF ConnectTo
<1>4. driver_message' \in [Connections -> Problem] /\ mysql_error' \in [Connections -> Problem]
    BY NotAskedTyped, ConnectedTyped DEF ConnectTo
<1> QED
    BY <1>2, <1>3, <1>4 DEF ErrorsTyped

LEMMA StepKeepsErrorsTyped ==
    ASSUME ErrorsTyped, [Next]_vars
    PROVE  ErrorsTyped'
<1>0. None \in Problem /\ "this" \in Problem
    BY DEF Problem
<1>1. CASE UNCHANGED vars
    BY <1>1 DEF vars, ErrorsTyped
<1>2. CASE ServerDrops
    BY <1>2 DEF ServerDrops, ErrorsTyped
<1>3. ASSUME NEW c \in Connections, NEW te \in BOOLEAN, Construct(c, te)
      PROVE  ErrorsTyped'
    BY <1>0, <1>3, SaysTyped DEF Construct, Fresh, driver, ErrorsTyped
<1>4. ASSUME NEW c \in Connections, ConstructConnected(c)
      PROVE  ErrorsTyped'
  <2>1. exceptions_' \in [Connections -> BOOLEAN] /\ copacetic_' \in [Connections -> BOOLEAN]
    BY <1>4 DEF ConstructConnected, Fresh, ErrorsTyped
  <2>2. message' \in [Connections -> Problem]
    BY <1>0, <1>4, SaysTyped DEF ConstructConnected
  <2>3. driver_message' \in [Connections -> Problem] /\ mysql_error' \in [Connections -> Problem]
    BY <1>4, ConnectedTyped DEF ConstructConnected, driver, ErrorsTyped
  <2> QED
    BY <2>1, <2>2, <2>3 DEF ErrorsTyped
<1>5. ASSUME NEW c \in Connections, Destroy(c)
      PROVE  ErrorsTyped'
    BY <1>0, <1>5, SaysTyped, PutTyped DEF Destroy, ErrorsTyped
<1>6. ASSUME NEW c \in Connections, NEW o \in Connections, ConstructCopy(c, o) \/ Assign(c, o)
      PROVE  ErrorsTyped'
  <2>1. exceptions_' \in [Connections -> BOOLEAN] /\ copacetic_' \in [Connections -> BOOLEAN]
    BY <1>6 DEF ConstructCopy, Assign, Fresh, ErrorsTyped
  <2> QED
    BY <1>0, <1>6, <2>1, SaysTyped, CopiedTyped DEF ConstructCopy, Assign, ErrorsTyped
<1>7. ASSUME NEW c \in Connections, FailsEarly(c, "returning") \/ FailsEarly(c, "throwing"), UNCHANGED exceptions_
      PROVE  ErrorsTyped'
    BY <1>0, <1>7, SaysTyped, NotAskedTyped DEF FailsEarly, ErrorsTyped
<1>8. ASSUME NEW c \in Connections, Connect(c) \/ TcpConnect(c) \/ SocketConnect(c) \/ PipeConnect(c)
      PROVE  ErrorsTyped'
    BY <1>7, <1>8, ConnectToTyped DEF Connect, TcpConnect, SocketConnect, PipeConnect
<1>9. ASSUME NEW c \in Connections, Disconnect(c)
      PROVE  ErrorsTyped'
    BY <1>0, <1>9, SaysTyped, DisconnectedTyped DEF Disconnect, ErrorsTyped
<1>10. ASSUME NEW c \in Connections, NEW kind,
              WhileDisconnected(c, kind) \/ WhileConnected(c, kind), UNCHANGED <<exceptions_, copacetic_>>
       PROVE  ErrorsTyped'
    BY <1>0, <1>10, SaysTyped, NotAskedTyped, AskedTyped DEF WhileDisconnected, WhileConnected, ErrorsTyped
<1>11. ASSUME NEW c \in Connections, Ping(c) \/ SelectDb(c) \/ Kill(c) \/ Exec(c)
       PROVE  ErrorsTyped'
    BY <1>10, <1>11 DEF Ping, SelectDb, Kill, Exec
<1>12. ASSUME NEW c \in Connections, Shutdown(c)
       PROVE  ErrorsTyped'
    BY <1>0, <1>10, <1>12, SaysTyped, AskedTyped DEF Shutdown, ErrorsTyped
<1>13. ASSUME NEW c \in Connections, RunQuery(c) \/ SetUnknownOption(c)
       PROVE  ErrorsTyped'
  <2>1. Aged(message[c]) \in Problem
    BY AgedTyped DEF ErrorsTyped
  <2> QED
    BY <1>13, <2>1, SaysTyped, AskedTyped, NotAskedTyped DEF RunQuery, SetUnknownOption, ErrorsTyped
<1>14. ASSUME NEW c \in Connections, QueueOption(c) \/ SetOption(c)
       PROVE  ErrorsTyped'
  <2>1. Aged(mysql_error[c]) \in Problem
    BY AgedTyped DEF ErrorsTyped
  <2>2. message' \in [Connections -> Problem]
    BY <1>0, <1>14, SaysTyped DEF QueueOption, SetOption
  <2>3. CASE QueueOption(c)
    <3>1. driver_message' = Put(driver_message, c, None) /\ mysql_error' = Put(mysql_error, c, Aged(mysql_error[c]))
      BY <2>3 DEF QueueOption
    <3>2. driver_message' \in [Connections -> Problem] /\ mysql_error' \in [Connections -> Problem]
      BY <1>0, <2>1, <3>1, PutTyped DEF ErrorsTyped
    <3> QED
      BY <2>2, <2>3, <3>2 DEF QueueOption, ErrorsTyped
  <2>4. CASE SetOption(c)
    <3>1. PICK works \in BOOLEAN, e \in {Aged(mysql_error[c]), None} :
             /\ driver_message' = Put(driver_message, c, IF works THEN None ELSE "this")
             /\ mysql_error' = Put(mysql_error, c, e)
      BY <2>4 DEF SetOption
    <3>2. (IF works THEN None ELSE "this") \in Problem /\ e \in Problem
      BY <1>0, <2>1
    <3> QED
      BY <2>2, <2>4, <3>1, <3>2, PutTyped DEF SetOption, ErrorsTyped
  <2> QED
    BY <1>14, <2>3, <2>4
<1> QED
    BY <1>1, <1>2, <1>3, <1>4, <1>5, <1>6, <1>8, <1>9, <1>11, <1>12, <1>13, <1>14 DEF Next

(***************************************************************************)
(* Every session the server has open belongs to one live connection, and   *)
(* every variable has its type: through failed constructors, reconnects,   *)
(* copies and destructors of lib/connection.cpp.                           *)
(***************************************************************************)
THEOREM SessionsAreOwned == Spec => []IInv
<1>1. Init => ErrorsTyped /\ Owned
    BY DEF Init, ErrorsTyped, Owned, OwnersTyped, SessionsOwned, Problem
<1>2. ErrorsTyped /\ Owned /\ [Next]_vars => (ErrorsTyped /\ Owned)'
    BY StepKeepsOwned, StepKeepsErrorsTyped
<1>3. ErrorsTyped /\ Owned => IInv
    BY Parts DEF IInv, Owned
<1> QED
    BY <1>1, <1>2, <1>3, PTL DEF Spec

-----------------------------------------------------------------------------
\* What error() says after each way a call can end.
LEMMA OwnMessage ==
    ASSUME NEW c \in Connections, Says(c, "this")
    PROVE  Error(c)' = "this"
BY NoneAssumption DEF Says, Put, Error

LEMMA AskedSays ==
    ASSUME NEW c \in Connections, NEW works \in BOOLEAN, Says(c, None), Asked(c, works)
    PROVE  Error(c)' = IF works THEN None ELSE "this"
BY DEF Says, Put, Error, Asked

LEMMA ConnectedSays ==
    ASSUME NEW c \in Connections, NEW flag, NEW how \in Outcome, Says(c, None), Connected(c, flag, how)
    PROVE  Error(c)' = IF how \in {"connected", "unknown"} THEN None ELSE "this"
<1>1. /\ message'[c] = None
      /\ driver_message'[c] = IF how = "refused" THEN "this" ELSE None
      /\ mysql_error'[c] = IF how = "failed" THEN "this" ELSE None
    BY DEF Says, Put, Connected
<1> QED
    BY <1>1, NoneAssumption DEF Error, Outcome

\* A call that ends with its success told, and an error that goes with it.
LEMMA EndsRight ==
    ASSUME NEW c \in Connections, NEW kind, NEW success \in BOOLEAN, Ends(c, kind, success),
           Error(c)' = IF success THEN None ELSE "this"
    PROVE  ErrorIsTheLatest'
BY DEF Ends, ErrorIsTheLatest

LEMMA ConnectToRight ==
    ASSUME NEW c \in Connections, NEW bad \in BOOLEAN, ConnectTo(c, bad)
    PROVE  ErrorIsTheLatest'
<1>1. CASE bad
    BY <1>1, OwnMessage, EndsRight DEF ConnectTo
<1>2. CASE ~bad
  <2>1. PICK how \in Outcome : /\ Connected(c, pending[c], how)
                              /\ IF how = "unknown" THEN ThrowsBadOption(c) ELSE Ends(c, "throwing", how = "connected")
    BY <1>2 DEF ConnectTo
  <2>2. Says(c, None)
    BY <1>2 DEF ConnectTo
  <2>3. CASE how = "unknown"
    <3>1. ThrowsBadOption(c)
      BY <2>1, <2>3
    <3>2. last'.kind = "unknown option" /\ last'.success = FALSE
      BY <3>1 DEF ThrowsBadOption
    <3> QED
      BY <3>2 DEF ErrorIsTheLatest
  <2>4. CASE how # "unknown"
    <3>1. Error(c)' = IF how = "connected" THEN None ELSE "this"
      BY <2>1, <2>2, <2>4, ConnectedSays
    <3> QED
      BY <2>1, <2>4, <3>1, EndsRight
  <2> QED
    BY <2>3, <2>4
<1> QED
    BY <1>1, <1>2

LEMMA StepTellsTheLatest ==
    ASSUME ErrorIsTheLatest, Owned', [Next]_vars
    PROVE  ErrorIsTheLatest'
<1>0. None \notin exists'
    BY NoneAssumption DEF Owned, OwnersTyped
<1>1. CASE UNCHANGED vars
    BY <1>1 DEF vars, ErrorIsTheLatest, Error
<1>2. CASE ServerDrops
    BY <1>2 DEF ServerDrops, ErrorIsTheLatest, Error
<1>3. ASSUME last' = Silent
      PROVE  ErrorIsTheLatest'
    BY <1>0, <1>3 DEF Silent, ErrorIsTheLatest
<1>4. ASSUME NEW c \in Connections, NEW te \in BOOLEAN, Construct(c, te)
      PROVE  ErrorIsTheLatest'
    BY <1>3, <1>4 DEF Construct
<1>5. ASSUME NEW c \in Connections, ConstructConnected(c)
      PROVE  ErrorIsTheLatest'
  <2>1. CASE /\ Connected(c, FALSE, "connected")
             /\ last' = [Silent EXCEPT !.on = c, !.kind = "throwing", !.end = "true"]
    <3>1. Says(c, None)
      BY <1>5 DEF ConstructConnected
    <3>2. Error(c)' = None
      BY <2>1, <3>1, ConnectedSays DEF Outcome
    <3> QED
      BY <2>1, <3>2 DEF ErrorIsTheLatest, Silent
  <2>2. CASE /\ last' = [on |-> c, kind |-> "throwing", of |-> None, end |-> "threw", success |-> FALSE]
             /\ exists' = exists
    <3>1. last'.on = c /\ c \notin exists'
      BY <1>5, <2>2 DEF ConstructConnected, Fresh
    <3> QED
      BY <3>1 DEF ErrorIsTheLatest
  <2>3. \/ /\ Connected(c, FALSE, "connected")
           /\ last' = [Silent EXCEPT !.on = c, !.kind = "throwing", !.end = "true"]
        \/ /\ last' = [on |-> c, kind |-> "throwing", of |-> None, end |-> "threw", success |-> FALSE]
           /\ exists' = exists
    BY <1>5, Zenon DEF ConstructConnected
  <2> QED
    BY <2>1, <2>2, <2>3, Zenon
<1>6. ASSUME NEW c \in Connections, Destroy(c) \/ Disconnect(c)
      PROVE  ErrorIsTheLatest'
    BY <1>3, <1>6 DEF Destroy, Disconnect
<1>7. ASSUME NEW c \in Connections, NEW o \in Connections, ConstructCopy(c, o) \/ Assign(c, o)
      PROVE  ErrorIsTheLatest'
  <2>1. last' = Copy(c, o)
    BY <1>7, Zenon DEF ConstructCopy, Assign
  <2>2. last'.success = TRUE /\ last'.kind = "copy"
    BY <2>1 DEF Copy
  <2> QED
    BY <2>2 DEF ErrorIsTheLatest
<1>8. ASSUME NEW c \in Connections, NEW kind, FailsEarly(c, kind)
      PROVE  ErrorIsTheLatest'
    BY <1>8, OwnMessage, EndsRight DEF FailsEarly
<1>9. ASSUME NEW c \in Connections, Connect(c) \/ TcpConnect(c) \/ SocketConnect(c) \/ PipeConnect(c)
      PROVE  ErrorIsTheLatest'
    BY <1>8, <1>9, ConnectToRight DEF Connect, TcpConnect, SocketConnect, PipeConnect
<1>10. ASSUME NEW c \in Connections, NEW kind, WhileDisconnected(c, kind)
       PROVE  ErrorIsTheLatest'
    BY <1>10, OwnMessage, EndsRight DEF WhileDisconnected
<1>11. ASSUME NEW c \in Connections, NEW kind, WhileConnected(c, kind)
       PROVE  ErrorIsTheLatest'
    BY <1>11, AskedSays, EndsRight DEF WhileConnected
<1>12. ASSUME NEW c \in Connections, Ping(c) \/ SelectDb(c) \/ Kill(c) \/ Exec(c)
       PROVE  ErrorIsTheLatest'
    BY <1>10, <1>11, <1>12 DEF Ping, SelectDb, Kill, Exec
<1>13. ASSUME NEW c \in Connections, Shutdown(c)
       PROVE  ErrorIsTheLatest'
  <2>1. CASE WhileDisconnected(c, "throwing")
    BY <1>10, <2>1
  <2>2. CASE /\ Says(c, None)
             /\ \E works \in BOOLEAN :
                   Asked(c, works) /\ last'.on = c /\ last'.kind = "inverted" /\ last'.success = works
    <3>1. PICK works \in BOOLEAN :
             Asked(c, works) /\ last'.on = c /\ last'.kind = "inverted" /\ last'.success = works
      BY <2>2
    <3>2. Error(c)' = IF works THEN None ELSE "this"
      BY <2>2, <3>1, AskedSays
    <3> QED
      BY <3>1, <3>2 DEF ErrorIsTheLatest
  <2> QED
    BY <1>13, <2>1, <2>2 DEF Shutdown
<1>14. ASSUME NEW c \in Connections, RunQuery(c) \/ SetUnknownOption(c) \/ QueueOption(c)
       PROVE  ErrorIsTheLatest'
  <2>1. CASE RunQuery(c)
    <3>1. PICK works \in BOOLEAN : Ends(c, "query", works)
      BY <2>1, Zenon DEF RunQuery
    <3>2. last'.kind = "query"
      BY <3>1 DEF Ends
    <3> QED
      BY <3>2 DEF ErrorIsTheLatest
  <2>2. CASE SetUnknownOption(c)
    <3>1. last'.kind = "unknown option" /\ last'.success = FALSE
      BY <2>2 DEF SetUnknownOption, ThrowsBadOption
    <3> QED
      BY <3>1 DEF ErrorIsTheLatest
  <2>3. CASE QueueOption(c)
    <3>1. Ends(c, "option", TRUE)
      BY <2>3, Zenon DEF QueueOption
    <3>2. last'.kind = "option" /\ last'.success = TRUE
      BY <3>1 DEF Ends
    <3> QED
      BY <3>2 DEF ErrorIsTheLatest
  <2> QED
    BY <1>14, <2>1, <2>2, <2>3
<1>15. ASSUME NEW c \in Connections, SetOption(c)
       PROVE  ErrorIsTheLatest'
  <2>1. PICK works \in BOOLEAN : Says(c, IF works THEN None ELSE "this") /\ Ends(c, "option", works)
    BY <1>15 DEF SetOption
  <2>2. CASE works
    BY <2>1, <2>2 DEF Ends, ErrorIsTheLatest
  <2>3. CASE ~works
    BY <2>1, <2>3, OwnMessage, EndsRight
  <2> QED
    BY <2>2, <2>3
<1> QED
    BY <1>1, <1>2, <1>4, <1>5, <1>6, <1>7, <1>9, <1>12, <1>13, <1>14, <1>15 DEF Next

(***************************************************************************)
(* error() (lib/connection.cpp:185) speaks of the call that has just       *)
(* failed, and of none after one that worked.                              *)
(***************************************************************************)
THEOREM ErrorTellsTheLatest == Spec => []ErrorIsTheLatest
<1>1. Init => ErrorIsTheLatest
    BY DEF Init, ErrorIsTheLatest
<1>2. IInv => Owned
    BY Parts DEF IInv, Owned
<1>3. ErrorIsTheLatest /\ Owned' /\ [Next]_vars => ErrorIsTheLatest'
    BY StepTellsTheLatest
<1> QED
    BY <1>1, <1>2, <1>3, SessionsAreOwned, PTL DEF Spec

-----------------------------------------------------------------------------
(***************************************************************************)
(* A copy that connects (lib/dbdriver.cpp:130) does so with the client     *)
(* flags of the original's handle.                                         *)
(***************************************************************************)
THEOREM CopiesKeepFlags == Spec => CopyKeepsFlags
<1> DEFINE Good == last'.kind = "copy" /\ is_connected_'[last'.on] /\ last'.of # last'.on
                      => client_flag'[last'.on] = client_flag[last'.of]
<1>1. ASSUME OwnersTyped, NEW c \in Connections, NEW o \in Connections, Copied(c, o), last' = Copy(c, o)
      PROVE  Good
  <2>1. CASE is_connected_[o] /\ o # c
    <3>1. PICK how \in Outcome : Connected(c, client_flag[o], how)
      BY <1>1, <2>1 DEF Copied
    <3>2. is_connected_'[c] => client_flag'[c] = client_flag[o]
      BY <1>1, <3>1 DEF Connected, OwnersTyped
    <3> QED
      BY <1>1, <3>2 DEF Copy
  <2>2. CASE ~(is_connected_[o] /\ o # c)
    <3>1. ~is_connected_'[c]
      BY <1>1, <2>2 DEF Copied, Disconnected, NotAsked, OwnersTyped
    <3> QED
      BY <1>1, <3>1 DEF Copy
  <2> QED
    BY <2>1, <2>2
<1>2. OwnersTyped /\ [Next]_vars => [Good]_last
  <2> SUFFICES ASSUME OwnersTyped, Next, last'.kind = "copy", last' # last
               PROVE  Good
    BY DEF vars
  <2>1. ASSUME NEW c \in Connections, NEW o \in Connections, ConstructCopy(c, o) \/ Assign(c, o)
        PROVE  Good
    BY <1>1, <2>1 DEF ConstructCopy, Assign
  <2>2. last' # Silent
    BY DEF Silent
  <2>3. ASSUME NEW c \in Connections, NEW kind, NEW success, Ends(c, kind, success)
        PROVE  kind = "copy"
    BY <2>3 DEF Ends
  <2>4. ASSUME NEW c \in Connections
        PROVE  ~ConstructConnected(c)
    <3>1. last' # [on |-> c, kind |-> "throwing", of |-> None, end |-> "threw", success |-> FALSE]
      OBVIOUS
    <3>2. last' # [Silent EXCEPT !.on = c, !.kind = "throwing", !.end = "true"]
      BY DEF Silent
    <3> QED
      BY <3>1, <3>2, Zenon DEF ConstructConnected
  <2>5. ASSUME NEW c \in Connections
        PROVE  ~Connect(c) /\ ~TcpConnect(c) /\ ~SocketConnect(c) /\ ~PipeConnect(c)
    <3>1. ASSUME NEW bad \in BOOLEAN PROVE ~ConnectTo(c, bad)
      <4>1. ASSUME ThrowsBadOption(c) PROVE last'.kind = "unknown option"
        BY <4>1 DEF ThrowsBadOption
      <4> QED
        BY <2>3, <4>1 DEF ConnectTo
    <3>2. ~FailsEarly(c, "throwing") /\ ~FailsEarly(c, "returning")
      BY <2>3 DEF FailsEarly
    <3> QED
      BY <3>1, <3>2 DEF Connect, TcpConnect, SocketConnect, PipeConnect
  <2>6. ASSUME NEW c \in Connections
        PROVE  ~Ping(c) /\ ~SelectDb(c) /\ ~Shutdown(c) /\ ~Kill(c) /\ ~Exec(c)
    <3>1. ASSUME NEW kind, kind # "copy" PROVE ~WhileConnected(c, kind) /\ ~WhileDisconnected(c, kind)
      BY <2>3, <3>1 DEF WhileConnected, WhileDisconnected
    <3>2. ~Ping(c) /\ ~SelectDb(c) /\ ~Kill(c) /\ ~Exec(c)
      BY <3>1 DEF Ping, SelectDb, Kill, Exec
    <3>3. ASSUME Shutdown(c), ~WhileDisconnected(c, "throwing") PROVE last'.kind = "inverted"
      BY <3>3 DEF Shutdown
    <3> QED
      BY <3>1, <3>2, <3>3
  <2>7. ASSUME NEW c \in Connections
        PROVE  ~RunQuery(c) /\ ~QueueOption(c) /\ ~SetOption(c) /\ ~SetUnknownOption(c)
    <3>1. ~RunQuery(c)
      BY <2>3 DEF RunQuery
    <3>2. ~QueueOption(c)
      BY <2>3 DEF QueueOption
    <3>3. ~SetOption(c)
      BY <2>3 DEF SetOption
    <3>4. ASSUME SetUnknownOption(c) PROVE last'.kind = "unknown option"
      BY <3>4 DEF SetUnknownOption, ThrowsBadOption
    <3> QED
      BY <3>1, <3>2, <3>3, <3>4
  <2>8. ~ServerDrops
    BY DEF ServerDrops
  <2>9. ASSUME NEW c \in Connections
        PROVE  ~Destroy(c) /\ ~Disconnect(c) /\ \A te \in BOOLEAN : ~Construct(c, te)
    BY <2>2, Zenon DEF Destroy, Disconnect, Construct
  <2>10. \E c \in Connections : \E o \in Connections : ConstructCopy(c, o) \/ Assign(c, o)
    BY <2>4, <2>5, <2>6, <2>7, <2>8, <2>9, Zenon DEF Next
  <2> QED
    BY <2>1, <2>10
<1>3. IInv => OwnersTyped
    BY Parts DEF IInv
<1> QED
    BY <1>2, <1>3, SessionsAreOwned, PTL DEF Spec, CopyKeepsFlags
=============================================================================
