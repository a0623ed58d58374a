--------------------------------- MODULE Rating ---------------------------------
(***************************************************************************)
(* The rating waterfall for one subscription, one meter with a floor price *)
(* and one period: discount rules, price overrides under segregation of    *)
(* duties, and the rating runs, each superseding the one before.           *)
(***************************************************************************)
EXTENDS Metering, Sequences

CONSTANTS
    Staff,          \* user ids that request and decide overrides
    ListPrice,      \* per unit, from the ACTIVE price book
    NetPrice,       \* per unit once the discount rule applies
    FloorPrice,
    Proposals       \* the prices asked for in override requests

\* approved_by of an override nobody has decided.
NoOne == "nobody"

ASSUME RatingAssumption ==
    /\ {ListPrice, NetPrice, FloorPrice} \subseteq Nat
    /\ Proposals \subseteq Nat
    /\ NoOne \notin Staff

VARIABLES
    discounted,     \* a discount rule applies to the meter
    overrides,      \* price_override_approvals, in order
    runs            \* rating_runs of the period, in order

ratingVars == <<discounted, overrides, runs>>

Overrides == [proposed : Nat, requestedBy : Staff,
              approvedBy : Staff \cup {NoOne},
              state : {"REQUESTED", "APPROVED", "REJECTED"}]
Runs == [quantity : Int, unit : Nat, total : Nat,
         state : {"COMPLETE", "SUPERSEDED", "FAILED"}]

UnitPrice == IF discounted THEN NetPrice ELSE ListPrice

Billable(quantity) == IF quantity > 0 THEN quantity ELSE 0

CreateDiscountRule(c) ==
    /\ ~discounted
    /\ Begins(c, "rating", [op |-> "discount"])
    /\ UNCHANGED ratingVars

CommitDiscountRule(c) ==
    /\ session[c].op = "discount"
    /\ discounted' = TRUE
    /\ Commits(c, "rating")
    /\ UNCHANGED <<overrides, runs>>

RequestOverride(c, u, price) ==
    /\ price < FloorPrice
    /\ Begins(c, "rating", [op |-> "request", proposed |-> price, user |-> u])
    /\ UNCHANGED ratingVars

CommitRequest(c) ==
    LET t == session[c] IN
    /\ t.op = "request"
    /\ overrides' = Append(overrides, [proposed |-> t.proposed, requestedBy |-> t.user,
                                       approvedBy |-> NoOne, state |-> "REQUESTED"])
    /\ Commits(c, "rating")
    /\ UNCHANGED <<discounted, runs>>

\* Faulty: the requester may decide.
MayDecideOwn(u, o) == overrides[o].state = "REQUESTED"

MayDecide(u, o) ==
    /\ overrides[o].state = "REQUESTED"
    /\ overrides[o].requestedBy # u

DecideOverride(c, u, o, decision) ==
    /\ MayDecide(u, o)
    /\ Begins(c, "rating", [op |-> "decide", id |-> o, user |-> u, state |-> decision])
    /\ UNCHANGED ratingVars

CommitDecision(c) ==
    LET t == session[c] IN
    /\ t.op = "decide"
    /\ overrides' = [overrides EXCEPT ![t.id].state = t.state, ![t.id].approvedBy = t.user]
    /\ Commits(c, "rating")
    /\ UNCHANGED <<discounted, runs>>

(***************************************************************************)
(* rate_subscription: the usage is read in a transaction of its own.       *)
(***************************************************************************)
ReadUsage(c) ==
    /\ Begins(c, "rating", [op |-> "usage_read", quantity |-> Usage])
    /\ UNCHANGED ratingVars

\* _find_override: approved, and for a price at least as low.
Overridden(price) ==
    \E o \in DOMAIN overrides :
       overrides[o].state = "APPROVED" /\ overrides[o].proposed <= price

\* The floor is checked per unit, and only when something is billed.
PassesFloor(quantity) ==
    \/ Billable(quantity) = 0
    \/ UnitPrice >= FloorPrice
    \/ Overridden(UnitPrice)

\* The run a transaction inserts: a FAILED one is kept too, with no total.
Rated(quantity) ==
    [quantity |-> quantity, unit |-> UnitPrice,
     total |-> IF PassesFloor(quantity) THEN Billable(quantity) * UnitPrice ELSE 0,
     state |-> IF PassesFloor(quantity) THEN "COMPLETE" ELSE "FAILED"]

Rate(c) ==
    /\ session[c].op = "usage_read"
    /\ CanBegin
    /\ session' = [session EXCEPT ![c] =
                     [op |-> "rate", run |-> Rated(session[c].quantity),
                      seen |-> {r \in DOMAIN runs : runs[r].state = "COMPLETE"}]]
    /\ UNCHANGED <<ratingVars, budget>>

\* Faulty: a run replaces the one before it even when it failed.
SupersededAnyway(run, seen) ==
    [r \in DOMAIN runs |->
       IF r \in seen THEN [runs[r] EXCEPT !.state = "SUPERSEDED"] ELSE runs[r]]

\* Only a run that completes supersedes the COMPLETE runs it found.
Superseded(run, seen) ==
    [r \in DOMAIN runs |->
       IF run.state = "COMPLETE" /\ r \in seen
       THEN [runs[r] EXCEPT !.state = "SUPERSEDED"] ELSE runs[r]]

CommitRun(c) ==
    LET t == session[c] IN
    /\ t.op = "rate"
    /\ runs' = Append(Superseded(t.run, t.seen), t.run)
    /\ Commits(c, "rating")
    /\ UNCHANGED <<discounted, overrides>>

RatingInit ==
    /\ discounted = FALSE
    /\ overrides = <<>>
    /\ runs = <<>>

RatingStep(c) ==
    \/ CreateDiscountRule(c)
    \/ \E u \in Staff :
          \/ \E price \in Proposals : RequestOverride(c, u, price)
          \/ \E o \in DOMAIN overrides, decision \in {"APPROVED", "REJECTED"} :
                DecideOverride(c, u, o, decision)
    \/ ReadUsage(c)
    \/ Rate(c)
    \/ CommitDiscountRule(c)
    \/ CommitRequest(c)
    \/ CommitDecision(c)
    \/ CommitRun(c)
=============================================================================
