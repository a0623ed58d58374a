-------------------------------- MODULE Revenue --------------------------------
(***************************************************************************)
(* From usage to payout: metering, rating, billing and partner commissions *)
(* over one database, for one subscription and one billing period. Rating  *)
(* reads what metering froze or counts live, an invoice bills a rating     *)
(* run, and a commission is payable on an invoice that was paid. Licensing *)
(* works in the same database, on tables of its own.                       *)
(***************************************************************************)
EXTENDS Partners, Licensing

CONSTANTS
    \* Bound: how many requests each desk may still commit, one function from
    \* Desks per way of spending them, from new books and from billed ones.
    FreshBudgets,
    BilledBudgets

ASSUME RevenueAssumption == FreshBudgets \cup BilledBudgets \subseteq [Desks -> Nat]

vars == <<session, budget, meteringVars, ratingVars, billingVars, partnersVars,
          licensingVars>>

\* The books of a new period, with a new partner.
Fresh ==
    /\ MeteringInit
    /\ RatingInit
    /\ BillingInit
    /\ PartnersInit
    /\ budget \in FreshBudgets

\* The books once some usage was rated and invoiced, with a partner that is
\* under contract and has a deal approved.
Billed ==
    /\ \E k \in Events : events = {k}
    /\ adjusted = 0
    /\ aggregate = NoAggregate
    /\ discounted = FALSE
    /\ overrides = <<>>
    /\ runs = <<[quantity |-> 1, unit |-> ListPrice, total |-> ListPrice,
                state |-> "COMPLETE"]>>
    /\ ListPrice >= FloorPrice
    /\ invoices = <<[run |-> 1, total |-> ListPrice, paid |-> 0, credits |-> 0,
                    state |-> "ISSUED"]>>
    /\ payments = <<>>
    /\ notices = [n \in Notices |-> "unseen"]
    /\ agreement = [active |-> TRUE, banking |-> TRUE, tax |-> TRUE]
    /\ deal = "APPROVED"
    /\ commissions = <<>>
    /\ batches = <<>>
    /\ aged = 0
    /\ budget \in BilledBudgets

Init == SessionsInit /\ LicensingInit /\ (Fresh \/ Billed)

Next ==
    \/ \E c \in Clients :
          \/ MeteringStep(c) /\ UNCHANGED <<ratingVars, billingVars, partnersVars, licensingVars>>
          \/ RatingStep(c) /\ UNCHANGED <<meteringVars, billingVars, partnersVars, licensingVars>>
          \/ BillingStep(c) /\ UNCHANGED <<meteringVars, ratingVars, partnersVars, licensingVars>>
          \/ PartnersStep(c) /\ UNCHANGED <<meteringVars, ratingVars, billingVars, licensingVars>>
          \/ LicensingStep(c) /\ UNCHANGED <<meteringVars, ratingVars, billingVars, partnersVars>>
          \/ Breaks(c) /\ UNCHANGED <<meteringVars, ratingVars, billingVars, partnersVars,
                                      licensingVars>>
    \/ /\ WindowElapses
       /\ UNCHANGED <<session, budget, meteringVars, ratingVars, billingVars, licensingVars>>
    \/ /\ DayPasses
       /\ UNCHANGED <<session, budget, meteringVars, ratingVars, billingVars, partnersVars>>

Spec == Init /\ [][Next]_vars

-----------------------------------------------------------------------------
(***************************************************************************)
(* Properties.                                                             *)
(***************************************************************************)

\* aggregate: once a period is frozen its figure never changes and it is
\* never thawed, whatever is recorded, adjusted or recomputed after.
FrozenStays == [][Frozen => aggregate' = aggregate]_vars

CompleteRuns == {r \in DOMAIN runs : runs[r].state = "COMPLETE"}

\* rate_subscription: of the runs of a period that did not fail, all but the
\* last are superseded; a failed one replaces nothing.
OneCurrentRun ==
    \A r \in DOMAIN runs :
       runs[r].state \in {"COMPLETE", "SUPERSEDED"} =>
         (runs[r].state = "COMPLETE" <=>
            \A later \in DOMAIN runs : later > r => runs[later].state = "FAILED")

\* A run that billed below the floor price was authorized: an override for a
\* price at least as low stands approved, by someone other than its requester.
BelowFloorApproved ==
    \A r \in DOMAIN runs :
       (runs[r].state # "FAILED" /\ runs[r].quantity > 0 /\ runs[r].unit < FloorPrice) =>
         \E o \in DOMAIN overrides :
            /\ overrides[o].state = "APPROVED"
            /\ overrides[o].proposed <= runs[r].unit
            /\ overrides[o].approvedBy \notin {overrides[o].requestedBy, NoOne}

\* _apply_payment, ingest_webhook: amount_paid is the sum of the payments of the
\* invoice, and the invoice is PAID exactly when it has payments that cover its
\* total. A notice marked processed was turned into one payment, and one that was
\* not, or that matched no invoice, into none, however often and by however many
\* deliveries at a time the provider reports it.
BooksAgree ==
    /\ \A i \in DOMAIN invoices :
          /\ invoices[i].paid = Received(i)
          /\ invoices[i].state = "PAID" <=>
               PaymentsOf(i) # {} /\ Received(i) >= invoices[i].total
    /\ \A n \in Notices :
          Cardinality(Paying(n)) = IF notices[n] = "processed" THEN 1 ELSE 0

\* mark_payable, pay_partner: what was made payable to a partner is commission
\* on an invoice the customer paid (BooksAgree: received in full), and the
\* invoice stays paid whatever happens after.
PayoutsBacked ==
    \A m \in DOMAIN commissions :
       commissions[m].state \in {"PAYABLE", "PAID", "CLAWED_BACK"} =>
         /\ commissions[m].invoice \in DOMAIN invoices
         /\ invoices[commissions[m].invoice].state = "PAID"

NetPaid == SumOfCommissions({m \in DOMAIN commissions :
                               commissions[m].state \in {"PAID", "CLAWED_BACK"}})
PaidOut == SumFunction([b \in DOMAIN batches |-> batches[b].total])
ClawedBack == SumOfCommissions({m \in DOMAIN commissions :
                                  commissions[m].state = "CLAWED_BACK" /\ commissions[m].of = 0})

\* partner_statement: net_paid is what the payout batches paid less what was
\* clawed back, so that no commission is paid out by two batches.
StatementReconciles == NetPaid = PaidOut - ClawedBack

\* enroll_instance: a one-time token provisions one instance, and a token that
\* provisioned none is not spent.
TokenEnrollsOnce ==
    \A t \in Tokens :
       Cardinality({i \in DOMAIN instances : instances[i].token = t}) =
         IF tokens[t].state = "CONSUMED" THEN 1 ELSE 0

\* revoke_license, revoke_instance: nothing brings a revoked license or a
\* revoked instance back, whatever was under way when it was revoked.
RevokedIsFinal ==
    [][/\ \A l \in DOMAIN licenses :
            licenses[l].state = "REVOKED" => licenses'[l].state = "REVOKED"
       /\ \A i \in DOMAIN instances :
            instances[i].state = "REVOKED" => instances'[i].state = "REVOKED"]_vars

Status(state) ==
    CASE state = "PAID" -> "settled"
      [] state = "VOID" -> "cancelled"
      [] OTHER -> "open"

Ledger == INSTANCE Receivables WITH
    Keys <- Receipts \cup Notices,
    Sums <- Amounts \cup {NoticeAmount},
    accounts <- [i \in DOMAIN invoices |->
                   [owed |-> invoices[i].total, received |-> invoices[i].paid,
                    status |-> Status(invoices[i].state)]],
    booked <- {payments[p].key : p \in DOMAIN payments}

\* Billing keeps the promises of Receivables: a settled or void invoice takes
\* no more money and is never reopened, and no receipt is counted twice.
ImplementsReceivables == Ledger!Spec

\* metering.py says that once a period is frozen every finance output serves
\* the frozen figure: a rating run inserted then would bill that quantity.
RunServesFrozen ==
    [][\A c \in Clients : (CommitRun(c) /\ Frozen) =>
          session[c].run.quantity = aggregate.quantity]_vars
=============================================================================
