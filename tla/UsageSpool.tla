------------------------------ MODULE UsageSpool ------------------------------
(***************************************************************************)
(* The instance's side of usage metering: UsageSpool, the bounded durable  *)
(* queue of usage events, and UsageReporter, which drains it batch by      *)
(* batch to a sink. Several processes may flush the same spool file while  *)
(* the application adds to it.                                             *)
(*                                                                         *)
(* Every change of the file is one atomic replacement under its lock, so a *)
(* crash loses what a reporter remembers and nothing of the spool. An      *)
(* event is known by its idempotency key.                                  *)
(***************************************************************************)
EXTENDS Integers, FiniteSets

CONSTANTS
    Keys,           \* the idempotency keys of usage events
    Reporters,      \* the processes that flush the spool
    MaxSpool,       \* max_events
    BatchSize,      \* batch_size
    MaxAttempts,    \* max_attempts of a flush
    MaxSpooled,     \* bound: the events the application ever spools
    MaxDropped      \* bound: the events it offers to a full spool

ASSUME SpoolAssumption ==
    /\ MaxSpool \in Nat \ {0}
    /\ BatchSize \in Nat \ {0}
    /\ MaxAttempts \in Nat
    /\ MaxSpooled \in Nat
    /\ MaxDropped \in Nat

VARIABLES
    place,      \* of each key in the spool; 0: not in it
    dropped,    \* the count of the events the full spool refused
    spooled,    \* history: how many events were ever spooled
    reported,   \* history: the keys of the events add returned True for
    flush       \* what each reporter is doing

queueVars == <<place, dropped, spooled, reported>>

Pending == {k \in Keys : place[k] > 0}

\* phase "draining": at the top of drain_once's loop;
\* phase "sending":  the sink has the batch;
\* phase "answered": the sink returned, the batch is not acked yet;
\* phase "failed":   the sink raised, the pass is over.
Idle == [phase |-> "idle"]
Draining(n) == [phase |-> "draining", attempt |-> n]
Sending(n, batch) == [phase |-> "sending", attempt |-> n, batch |-> batch]
Answered(n, batch) == [phase |-> "answered", attempt |-> n, batch |-> batch]
Failed(n) == [phase |-> "failed", attempt |-> n]

Attempts == 0..MaxAttempts
Batches == SUBSET Keys
Flushes ==
    {Idle} \cup {Draining(n) : n \in Attempts} \cup {Failed(n) : n \in Attempts}
    \cup {Sending(n, b) : n \in Attempts, b \in Batches}
    \cup {Answered(n, b) : n \in Attempts, b \in Batches}

Becomes(r, f) == flush' = [flush EXCEPT ![r] = f]

(***************************************************************************)
(* The application.                                                        *)
(***************************************************************************)
\* A key that is pending is refused, and changes nothing.
Add(k) ==
    /\ place[k] = 0
    /\ Cardinality(Pending) < MaxSpool
    /\ spooled < MaxSpooled
    /\ place' = [place EXCEPT ![k] = spooled + 1]
    /\ spooled' = spooled + 1
    /\ reported' = reported \cup {k}
    /\ UNCHANGED <<dropped, flush>>

\* Backpressure: an event the full spool has no room for is counted.
Drop(k) ==
    /\ place[k] = 0
    /\ Cardinality(Pending) >= MaxSpool
    /\ dropped < MaxDropped
    /\ dropped' = dropped + 1
    /\ UNCHANGED <<place, spooled, reported, flush>>

(***************************************************************************)
(* A reporter.                                                             *)
(***************************************************************************)
Start(r) ==
    /\ flush[r] = Idle
    /\ Pending # {}
    /\ Becomes(r, Draining(0))
    /\ UNCHANGED queueVars

\* pending[:batch_size]
Oldest ==
    {k \in Pending :
        Cardinality({j \in Pending : place[j] < place[k]}) < BatchSize}

\* Faulty: an incomplete batch waits for more events.
SendFull(r) ==
    /\ flush[r].phase = "draining"
    /\ Cardinality(Pending) >= BatchSize
    /\ Becomes(r, Sending(flush[r].attempt, Oldest))
    /\ UNCHANGED queueVars

Send(r) ==
    /\ flush[r].phase = "draining"
    /\ Pending # {}
    /\ Becomes(r, Sending(flush[r].attempt, Oldest))
    /\ UNCHANGED queueVars

\* Nothing is pending: the pass, and with it the flush, ends well.
Drained(r) ==
    /\ flush[r].phase = "draining"
    /\ Pending = {}
    /\ Becomes(r, Idle)
    /\ UNCHANGED queueVars

\* Faulty: as many events as were sent leave the head of the queue.
AckOldest(r) ==
    /\ flush[r].phase = "answered"
    /\ place' = [k \in Keys |-> IF k \in Oldest THEN 0 ELSE place[k]]
    /\ Becomes(r, Draining(flush[r].attempt))
    /\ UNCHANGED <<dropped, spooled, reported>>

\* ack takes the sent events out of the spool, by key.
Ack(r) ==
    /\ flush[r].phase = "answered"
    /\ place' = [k \in Keys |-> IF k \in flush[r].batch THEN 0 ELSE place[k]]
    /\ Becomes(r, Draining(flush[r].attempt))
    /\ UNCHANGED <<dropped, spooled, reported>>

\* Faulty: the attempts are not counted.
RetryForever(r) ==
    /\ flush[r].phase = "failed"
    /\ Becomes(r, IF Pending = {} THEN Idle ELSE Draining(flush[r].attempt))
    /\ UNCHANGED queueVars

\* After a failed pass the flush is over when nothing remains (another
\* reporter may have drained the spool) or its attempts are used up.
Retry(r) ==
    /\ flush[r].phase = "failed"
    /\ LET next == flush[r].attempt + 1 IN
       Becomes(r, IF Pending = {} \/ next >= MaxAttempts THEN Idle
                  ELSE Draining(next))
    /\ UNCHANGED queueVars

SpoolInit ==
    /\ place = [k \in Keys |-> 0]
    /\ dropped = 0
    /\ spooled = 0
    /\ reported = {}
    /\ flush = [r \in Reporters |-> Idle]
=============================================================================
