-------------------------------- MODULE Workers --------------------------------
(***************************************************************************)
(* Requests of the web application, served by worker processes over shared *)
(* files. A handler runs without a pause in its own process; a handler of  *)
(* another process runs between any two of its file operations. A file     *)
(* operation under a lock file is one step.                                *)
(***************************************************************************)
EXTENDS Naturals

CONSTANTS
    Requests,   \* the requests that may be served at one time
    Processes,  \* the worker processes
    Fatal       \* whether a process may die

ASSUME WorkersAssumption == Fatal \in BOOLEAN

Desks == {"people", "plans", "runs", "decisions", "analyses", "connections", "packages",
          "signins"}

VARIABLES
    process,    \* the process that serves each request
    serving,    \* what each handler is doing, with what it has read
    spare       \* bound: how many requests may still come to each desk

Idle == [op |-> "idle"]

MayStart(r, desk) ==
    /\ spare[desk] > 0
    /\ \A q \in Requests : process[q] = process[r] => serving[q] = Idle

Starts(r, desk, request) ==
    /\ MayStart(r, desk)
    /\ spare' = [spare EXCEPT ![desk] = @ - 1]
    /\ serving' = [serving EXCEPT ![r] = request]
    /\ UNCHANGED process

Continues(r, request) ==
    /\ serving' = [serving EXCEPT ![r] = request]
    /\ UNCHANGED <<process, spare>>

Answers(r) == Continues(r, Idle)

\* What the process was doing is lost; its files stay.
Dies(p) ==
    /\ Fatal
    /\ \E r \in Requests : process[r] = p /\ serving[r] # Idle
    /\ serving' = [r \in Requests |-> IF process[r] = p THEN Idle ELSE serving[r]]
    /\ UNCHANGED <<process, spare>>

WorkersInit ==
    /\ process \in [Requests -> Processes]
    /\ serving = [r \in Requests |-> Idle]
=============================================================================
