-------------------------------- MODULE Metering --------------------------------
(***************************************************************************)
(* Usage of one tenant, one SUM meter and one billing period: the events,  *)
(* the signed adjustments, and the materialized aggregate that may be      *)
(* frozen. An event has quantity 1; what Entitlements and UsagePipeline    *)
(* say of idempotency keys is not repeated here.                           *)
(***************************************************************************)
EXTENDS Sessions, FiniteSets

CONSTANTS
    Events,     \* the idempotency keys of the events of the period
    Deltas      \* the adjustments staff may append

ASSUME MeteringAssumption ==
    /\ IsFiniteSet(Events)
    /\ Deltas \subseteq Int \ {0}

VARIABLES
    events,     \* the keys in usage_events
    adjusted,   \* the sum of adjustment_events.quantity_delta
    aggregate   \* the row of usage_aggregates for the period

meteringVars == <<events, adjusted, aggregate>>

NoAggregate == [kind |-> "none"]
Aggregates == [kind : {"row"}, quantity : Int, final : BOOLEAN]

Frozen == aggregate # NoAggregate /\ aggregate.final

Raw == Cardinality(events) + adjusted

\* The frozen figure if the period is finalized, else a live recompute.
Usage == IF Frozen THEN aggregate.quantity ELSE Raw

RecordUsage(c, k) ==
    /\ k \notin events
    /\ Begins(c, "metering", [op |-> "record", key |-> k])
    /\ UNCHANGED meteringVars

CommitUsage(c) ==
    /\ session[c].op = "record"
    /\ events' = events \cup {session[c].key}
    /\ Commits(c, "metering")
    /\ UNCHANGED <<adjusted, aggregate>>

AdjustUsage(c, k, d) ==
    /\ k \in events
    /\ Begins(c, "metering", [op |-> "adjust", delta |-> d])
    /\ UNCHANGED meteringVars

CommitAdjustment(c) ==
    /\ session[c].op = "adjust"
    /\ adjusted' = adjusted + session[c].delta
    /\ Commits(c, "metering")
    /\ UNCHANGED <<events, aggregate>>

\* Faulty: a finalized aggregate is recomputed like any other.
MayAggregateAlways == TRUE

MayAggregate == ~Frozen

Aggregate(c, finalize) ==
    /\ MayAggregate
    /\ Begins(c, "metering",
              [op |-> "aggregate", final |-> finalize, quantity |-> Raw,
               seen |-> aggregate # NoAggregate])
    /\ UNCHANGED meteringVars

\* An existing row is updated by its id, whatever it has become; a new row
\* that meets another one breaks the unique constraint and is rolled back.
CommitAggregate(c) ==
    LET t == session[c] IN
    /\ t.op = "aggregate"
    /\ aggregate' = IF t.seen \/ aggregate = NoAggregate
                    THEN [kind |-> "row", quantity |-> t.quantity, final |-> t.final]
                    ELSE aggregate
    /\ Commits(c, "metering")
    /\ UNCHANGED <<events, adjusted>>

MeteringInit ==
    /\ events = {}
    /\ adjusted = 0
    /\ aggregate = NoAggregate

MeteringStep(c) ==
    \/ \E k \in Events :
          \/ RecordUsage(c, k)
          \/ \E d \in Deltas : AdjustUsage(c, k, d)
    \/ \E finalize \in BOOLEAN : Aggregate(c, finalize)
    \/ CommitUsage(c)
    \/ CommitAdjustment(c)
    \/ CommitAggregate(c)
=============================================================================
