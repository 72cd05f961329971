------------------------------ MODULE DBDriver ------------------------------
(***************************************************************************)
(* lib/dbdriver.cpp: one driver object from construction to destruction,   *)
(* its connection to the server and the Option objects it is given.  An    *)
(* option set while disconnected waits in pending_options_ until connect(),*)
(* one that took effect stays in applied_options_ until the destructor.    *)
(*                                                                         *)
(* The application allocates each option afresh and gives it away once.    *)
(* What mysql_options() and its kin say of an option, and whether the      *)
(* server accepts the connection, is theirs to choose.  Using a deleted    *)
(* option is undefined: the model records it and goes no further.          *)
(***************************************************************************)
EXTENDS Integers, Sequences, FiniteSets

CONSTANTS
    Before,         \* options for before the connection: err_connected after
    Anytime,        \* options that may be set at any time
    After,          \* options for after the connection: err_disconnected before
    Unsupported,    \* options this build does not know: err_api_limit
    MaxConnects     \* bound: calls to connect()

Option == Before \cup Anytime \cup After \cup Unsupported

ASSUME KindAssumption ==
    /\ Before \cap (Anytime \cup After \cup Unsupported) = {}
    /\ Anytime \cap (After \cup Unsupported) = {}
    /\ After \cap Unsupported = {}
ASSUME BoundAssumption == MaxConnects \in Nat

VARIABLES
    is_connected_,
    pending_options_,
    applied_options_,
    alive,          \* options allocated and not deleted
    given,          \* options the application passed to set_option()
    in_force,       \* options in effect on the C API's handle
    wanted,         \* options accepted for this connection or the next one
    connects,       \* calls to connect() so far
    state           \* "alive", "destroyed" or "corrupted"

vars == <<is_connected_, pending_options_, applied_options_, alive, given,
          in_force, wanted, connects, state>>

Elements(s) == {s[i] : i \in DOMAIN s}

Init ==
    /\ is_connected_ = FALSE
    /\ pending_options_ = <<>> /\ applied_options_ = <<>>
    /\ alive = {} /\ given = {} /\ in_force = {} /\ wanted = {}
    /\ connects = 0
    /\ state = "alive"

(***************************************************************************)
(* Option::set(): err_NONE is possible for these, a refusal for any.       *)
(***************************************************************************)
Settable(connected) == Anytime \cup (IF connected THEN After ELSE Before)

(***************************************************************************)
(* set_option().  Connected, set_option_impl() decides at once, and its    *)
(* auto_ptr deletes an option that failed, by return or by exception.      *)
(***************************************************************************)
Give(o) ==
    /\ state = "alive"
    /\ o \in Option \ given
    /\ given' = given \cup {o}

QueueOption(o) ==
    /\ ~is_connected_
    /\ Give(o)
    /\ alive' = alive \cup {o}
    /\ pending_options_' = Append(pending_options_, o)
    /\ wanted' = wanted \cup {o}
    /\ UNCHANGED <<is_connected_, applied_options_, in_force, connects, state>>

\* Mutant: set_option_impl() forgets applied_options_.push_back().
SetOptionUnlisted(o) ==
    /\ is_connected_
    /\ Give(o)
    /\ o \in Settable(TRUE)
    /\ in_force' = in_force \cup {o}
    /\ wanted' = wanted \cup {o}
    /\ UNCHANGED <<is_connected_, pending_options_, applied_options_, alive,
                   connects, state>>

SetOption(o) ==
    /\ is_connected_
    /\ Give(o)
    /\ o \in Settable(TRUE)
    /\ alive' = alive \cup {o}
    /\ applied_options_' = Append(applied_options_, o)
    /\ in_force' = in_force \cup {o}
    /\ wanted' = wanted \cup {o}
    /\ UNCHANGED <<is_connected_, pending_options_, connects, state>>

\* Mutant: no auto_ptr, the refused option stays on the heap.
RefuseOptionLeaks(o) ==
    /\ is_connected_
    /\ Give(o)
    /\ alive' = alive \cup {o}
    /\ UNCHANGED <<is_connected_, pending_options_, applied_options_,
                   in_force, wanted, connects, state>>

RefuseOption(o) ==
    /\ is_connected_
    /\ Give(o)
    /\ UNCHANGED <<is_connected_, pending_options_, applied_options_, alive,
                   in_force, wanted, connects, state>>

\* set_option_default(): typeid() of two pointers is one type, so any applied
\* option counts as one of the type given, which is deleted.  With none
\* applied it is set_option().
DropDefault(o) ==
    /\ applied_options_ # <<>>
    /\ Give(o)
    /\ UNCHANGED <<is_connected_, pending_options_, applied_options_, alive,
                   in_force, wanted, connects, state>>

(***************************************************************************)
(* connect(): disconnect(), mysql_init(), then connect_prepare()'s loop    *)
(* applies the pending options in order until one fails, and if none does  *)
(* clears the list and calls mysql_real_connect().                         *)
(***************************************************************************)
Calling == state = "alive" /\ connects < MaxConnects /\ connects' = connects + 1

\* The options of the queue that one pass over it gets through, n of them.
Applies(n) ==
    /\ \A i \in 1..n : pending_options_[i] \in Settable(FALSE) \cap alive
    /\ applied_options_' = applied_options_ \o SubSeq(pending_options_, 1, n)

\* What is wanted of a connection ends with it, not with a failed attempt.
Wanted == IF is_connected_ THEN {} ELSE wanted

\* Mutant: the queue is not cleared.
ConnectKeepsQueue ==
    /\ Calling
    /\ Applies(Len(pending_options_))
    /\ in_force' = Elements(pending_options_)
    /\ is_connected_' \in BOOLEAN
    /\ wanted' = Wanted
    /\ UNCHANGED <<pending_options_, alive, given, state>>

\* Mutant: mysql_init() comes after the loop.
ConnectInitLate ==
    /\ Calling
    /\ Applies(Len(pending_options_))
    /\ pending_options_' = <<>>
    /\ in_force' = {}
    /\ is_connected_' \in BOOLEAN
    /\ wanted' = Wanted
    /\ UNCHANGED <<alive, given, state>>

Connect ==
    /\ Calling
    /\ Applies(Len(pending_options_))
    /\ pending_options_' = <<>>
    /\ in_force' = Elements(pending_options_)
    /\ is_connected_' \in BOOLEAN
    /\ wanted' = Wanted
    /\ UNCHANGED <<alive, given, state>>

ConnectRefusesOption ==
    /\ Calling
    /\ \E n \in 0..(Len(pending_options_) - 1) :
          LET failed == pending_options_[n + 1] IN
          /\ Applies(n)
          /\ failed \in alive
          /\ alive' = alive \ {failed}
          /\ wanted' = Wanted \ {failed}
          /\ in_force' = Elements(SubSeq(pending_options_, 1, n))
    /\ is_connected_' = FALSE
    /\ UNCHANGED <<pending_options_, given, state>>

ConnectUsesDeleted ==
    /\ Calling
    /\ \E n \in 0..(Len(pending_options_) - 1) :
          Applies(n) /\ pending_options_[n + 1] \notin alive
    /\ state' = "corrupted"
    /\ UNCHANGED <<is_connected_, pending_options_, alive, given, in_force, wanted>>

Disconnect ==
    /\ state = "alive"
    /\ is_connected_
    /\ is_connected_' = FALSE
    /\ in_force' = {}
    /\ wanted' = {}
    /\ UNCHANGED <<pending_options_, applied_options_, alive, given, connects, state>>

(***************************************************************************)
(* The destructor disconnects and deletes the applied options.             *)
(***************************************************************************)
NoDuplicates(s) == \A i, j \in DOMAIN s : s[i] = s[j] => i = j

Destroy ==
    /\ state = "alive"
    /\ is_connected_' = FALSE
    /\ in_force' = {}
    /\ wanted' = {}
    /\ alive' = alive \ Elements(applied_options_)
    /\ state' = IF NoDuplicates(applied_options_) /\ Elements(applied_options_) \subseteq alive
                THEN "destroyed" ELSE "corrupted"
    /\ UNCHANGED <<pending_options_, applied_options_, given, connects>>

Stopped == state # "alive" /\ UNCHANGED vars

Next ==
    \/ \E o \in Option : QueueOption(o) \/ SetOption(o) \/ RefuseOption(o) \/ DropDefault(o)
    \/ Connect \/ ConnectRefusesOption \/ ConnectUsesDeleted
    \/ Disconnect \/ Destroy \/ Stopped

Spec == Init /\ [][Next]_vars

-----------------------------------------------------------------------------
\* Every variable has its type, and no option is queued twice.
TypeOK ==
    /\ is_connected_ \in BOOLEAN
    /\ pending_options_ \in Seq(Option) /\ NoDuplicates(pending_options_)
    /\ applied_options_ \in Seq(Option)
    /\ given \subseteq Option
    /\ alive \subseteq given /\ wanted \subseteq given
    /\ Elements(pending_options_) \cup Elements(applied_options_) \subseteq given
    /\ connects \in Nat
    /\ state \in {"alive", "destroyed", "corrupted"}

\* Nothing waits in the queue while the connection is up: it would not be
\* applied before the next connect(), if there ever is one.
ConnectedDrained == is_connected_ => pending_options_ = <<>>

\* The driver owns every option it was given and has not deleted, and what
\* is in effect is on the list its destructor releases, also after connect()
\* has failed half-way through the queue.
EachIsOwned ==
    state = "alive" =>
        /\ alive \subseteq Elements(pending_options_) \cup Elements(applied_options_)
        /\ in_force \subseteq Elements(applied_options_)

\* When the first call of connect() succeeds, every option that was accepted
\* before or since is in effect.
FirstConnectApplies == is_connected_ /\ connects = 1 => wanted \subseteq in_force

\* Until then they are all in the queue that it will empty.
FirstConnectPending ==
    connects = 0 => ~is_connected_ /\ wanted \subseteq Elements(pending_options_)

\* The options and their two lists are what the code keeps them to be, in
\* every state from which the next connect() or set_option() starts.
IInv ==
    /\ TypeOK /\ ConnectedDrained /\ EachIsOwned
    /\ FirstConnectPending /\ FirstConnectApplies
=============================================================================
