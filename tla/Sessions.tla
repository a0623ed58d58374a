-------------------------------- MODULE Sessions --------------------------------
(***************************************************************************)
(* Requests against the control-plane database, one transaction each.      *)
(*                                                                         *)
(* A transaction has two steps: it reads (and refuses what is illegal),    *)
(* then it commits what it decided from what it read. On SQLite every      *)
(* transaction begins with BEGIN IMMEDIATE and is alone; on PostgreSQL     *)
(* (READ COMMITTED) other transactions commit between the two steps, and   *)
(* an UPDATE by id overwrites whatever they left.                          *)
(***************************************************************************)
EXTENDS Integers

CONSTANTS
    Clients,    \* the requests that may be under way at one time
    Serial      \* TRUE on SQLite, FALSE on PostgreSQL

Desks == {"metering", "rating", "billing", "partners", "licensing"}

ASSUME SessionsAssumption == Serial \in BOOLEAN

VARIABLES
    session,    \* what each client is doing, with what it has read
    budget      \* bound: how many requests each desk may still commit

Idle == [op |-> "idle"]

\* rate_subscription reads the usage in one transaction and writes the run in
\* another: between the two it holds no lock.
InTransaction(c) == session[c].op \notin {"idle", "usage_read"}

\* Faulty: BEGIN takes no lock, as sqlite3 does by default.
BeginDeferred == TRUE

\* BEGIN IMMEDIATE takes the only write lock of the file.
CanBegin == Serial => \A c \in Clients : ~InTransaction(c)

Begins(c, desk, request) ==
    /\ session[c] = Idle
    /\ CanBegin
    /\ budget[desk] > 0
    /\ session' = [session EXCEPT ![c] = request]
    /\ UNCHANGED budget

Commits(c, desk) ==
    /\ budget[desk] > 0
    /\ budget' = [budget EXCEPT ![desk] = @ - 1]
    /\ session' = [session EXCEPT ![c] = Idle]

\* The process dies or the connection is lost: the transaction rolls back.
Breaks(c) ==
    /\ session[c] # Idle
    /\ session' = [session EXCEPT ![c] = Idle]
    /\ UNCHANGED budget

SessionsInit == session = [c \in Clients |-> Idle]
=============================================================================
