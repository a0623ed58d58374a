----------------------------- MODULE UsagePipeline -----------------------------
(***************************************************************************)
(* Connected usage metering from end to end: the spool and its reporters   *)
(* (UsageSpool), the HTTP call that is their sink (push_usage), and the    *)
(* ingestion of a batch into the usage_events of the control plane.        *)
(*                                                                         *)
(* A call may never arrive, arrive and lose its answer, or arrive after    *)
(* the reporter has given up on it and sent the batch again. A reporter    *)
(* may crash at any moment. The batch is one database transaction: all its *)
(* events are recorded or none.                                            *)
(***************************************************************************)
EXTENDS UsageSpool

CONSTANTS
    Malformed,      \* events the control plane refuses: an unknown meter, a
                    \* negative quantity, the key of another meter's event
    MaxCrashes,     \* bound: how often a reporter crashes
    MaxLate         \* bound: the abandoned calls on their way at one time

ASSUME PipelineAssumption ==
    /\ Malformed \subseteq Keys
    /\ MaxCrashes \in Nat
    /\ MaxLate \in Nat

VARIABLES
    rows,       \* how many rows of usage_events each key has
    late,       \* batches whose sender gave up, still on their way
    crashes

vars == <<place, dropped, spooled, reported, flush, rows, late, crashes>>

Recorded == {k \in Keys : rows[k] > 0}

\* Faulty: a batch is recorded whether its events are known or not.
IngestedBlind(batch) ==
    [k \in Keys |-> IF k \in batch THEN rows[k] + 1 ELSE rows[k]]

\* _record_in_conn for every event: a key that has a row keeps it.
Ingested(batch) ==
    [k \in Keys |-> IF k \in batch /\ rows[k] = 0 THEN 1 ELSE rows[k]]

Accepts(batch) == batch \cap Malformed = {}

(***************************************************************************)
(* The call of the sink.                                                   *)
(***************************************************************************)
InCall(r) == flush[r].phase = "sending"

\* The batch is ingested and the answer arrives.
Serve(r) ==
    /\ InCall(r)
    /\ Accepts(flush[r].batch)
    /\ rows' = Ingested(flush[r].batch)
    /\ Becomes(r, Answered(flush[r].attempt, flush[r].batch))
    /\ UNCHANGED <<queueVars, late, crashes>>

\* The batch is ingested and the answer is lost: push_usage raises.
ServeUnheard(r) ==
    /\ InCall(r)
    /\ Accepts(flush[r].batch)
    /\ rows' = Ingested(flush[r].batch)
    /\ Becomes(r, Failed(flush[r].attempt))
    /\ UNCHANGED <<queueVars, late, crashes>>

\* The sender gives up on its call, which is still on its way.
Abandon(r) ==
    /\ InCall(r)
    /\ Cardinality(late) < MaxLate
    /\ late' = late \cup {flush[r].batch}

\* The control plane refuses the batch, or cannot be reached: nothing is
\* recorded. Or the call times out, and arrives all the same, later.
Fail(r) ==
    /\ InCall(r)
    /\ Becomes(r, Failed(flush[r].attempt))
    /\ \/ UNCHANGED late
       \/ Abandon(r)
    /\ UNCHANGED <<queueVars, rows, crashes>>

\* A late batch is ingested or refused; nobody waits for the answer.
Arrive(batch) ==
    /\ batch \in late
    /\ late' = late \ {batch}
    /\ rows' = IF Accepts(batch) THEN Ingested(batch) ELSE rows
    /\ UNCHANGED <<queueVars, flush, crashes>>

\* The process dies; what it has sent may still arrive.
Crash(r) ==
    /\ flush[r] # Idle
    /\ crashes < MaxCrashes
    /\ crashes' = crashes + 1
    /\ Becomes(r, Idle)
    /\ \/ UNCHANGED late
       \/ Abandon(r)
    /\ UNCHANGED <<queueVars, rows>>

Local(r) == Send(r) \/ Drained(r) \/ Ack(r) \/ Retry(r)

Init ==
    /\ SpoolInit
    /\ rows = [k \in Keys |-> 0]
    /\ late = {}
    /\ crashes = 0

Next ==
    \/ /\ \/ \E k \in Keys : Add(k) \/ Drop(k)
          \/ \E r \in Reporters : Start(r) \/ Local(r)
       /\ UNCHANGED <<rows, late, crashes>>
    \/ \E r \in Reporters : Serve(r) \/ ServeUnheard(r) \/ Fail(r) \/ Crash(r)
    \/ \E batch \in late : Arrive(batch)

Spec == Init /\ [][Next]_vars

(***************************************************************************)
(* A reporter that runs takes its next step, and a call ends, at the       *)
(* latest by its timeout. Whoever calls drain_usage calls it again while   *)
(* something is pending, and the control plane does not refuse a good      *)
(* batch for ever. No fairness is asked of the application, of crashes or  *)
(* of late batches.                                                        *)
(***************************************************************************)
Fairness ==
    \A r \in Reporters :
        /\ WF_vars(Local(r) /\ UNCHANGED <<rows, late, crashes>>)
        /\ WF_vars(Fail(r))
        /\ WF_vars(Start(r) /\ UNCHANGED <<rows, late, crashes>>)
        /\ SF_vars(Serve(r))

FairSpec == Spec /\ Fairness

(***************************************************************************)
(* Properties.                                                             *)
(***************************************************************************)
\* "Usage recorded just before a crash must not be lost": an event that add
\* accepted is in the spool or in usage_events, through crashes, lost answers
\* and two reporters that ack batches of each other's.
NoLoss == reported \subseteq Pending \cup Recorded

\* "A batch re-sent after a mid-flush crash is applied exactly once": however
\* often a batch arrives, each event is one row.
NoDuplication == \A k \in Keys : rows[k] <= 1

\* A flush returns: a control plane that stays down, or refuses a malformed
\* event at the head of the spool, costs at most max_attempts passes.
FlushReturns ==
    \A r \in Reporters : (flush[r] # Idle) ~> (flush[r] = Idle)

\* Every spooled event is metered in the end, unless a malformed event that
\* no batch gets past is spooled with it.
EventuallyMetered ==
    \A k \in Keys :
        (k \in Pending) ~> (k \in Recorded \/ Pending \cap Malformed # {})
=============================================================================
