--------------------------------- MODULE Billing ---------------------------------
(***************************************************************************)
(* Invoices of the rating runs, the payments that settle them (entered by  *)
(* staff or reported by the payment provider), credit notes and overdue    *)
(* marking. An invoice, a payment and a credit note are append-only rows;  *)
(* the state of an invoice is recomputed from the sum of its payments.     *)
(***************************************************************************)
EXTENDS Rating, SequencesExt

CONSTANTS
    Receipts,       \* idempotency keys of the payments entered by staff
    Notices,        \* external ids of the provider's PAYMENT_SUCCEEDED events
    Amounts,        \* the sums paid
    NoticeAmount    \* the sum every provider event reports

ASSUME BillingAssumption ==
    /\ Receipts \cap Notices = {}
    /\ Amounts \subseteq Nat \ {0}
    /\ NoticeAmount \in Nat \ {0}

VARIABLES
    invoices,       \* in order; the number of an invoice is its place
    payments,       \* in order of receipt
    notices         \* billing_webhook_events, by external id; "refused": its signature
                    \* did not verify, "unmatched": processed, and names no invoice

billingVars == <<invoices, payments, notices>>

PaymentsOf(i) == {p \in DOMAIN payments : payments[p].invoice = i}
Received(i) == SumFunctionOnSet([p \in DOMAIN payments |-> payments[p].amount], PaymentsOf(i))
Paying(key) == {p \in DOMAIN payments : payments[p].key = key}

IssueInvoice(c, r) ==
    /\ runs[r].state = "COMPLETE"
    /\ \A i \in DOMAIN invoices : invoices[i].run # r
    /\ Begins(c, "billing", [op |-> "invoice", run |-> r])
    /\ UNCHANGED billingVars

CommitInvoice(c) ==
    LET r == session[c].run IN
    /\ session[c].op = "invoice"
    /\ invoices' = Append(invoices, [run |-> r, total |-> runs[r].total, paid |-> 0,
                                     credits |-> 0, state |-> "ISSUED"])
    /\ Commits(c, "billing")
    /\ UNCHANGED <<payments, notices>>

VoidInvoice(c, i) ==
    /\ invoices[i].state \notin {"PAID", "VOID"}
    /\ Begins(c, "billing", [op |-> "void", id |-> i])
    /\ UNCHANGED billingVars

CommitVoid(c) ==
    /\ session[c].op = "void"
    /\ invoices' = [invoices EXCEPT ![session[c].id].state = "VOID"]
    /\ Commits(c, "billing")
    /\ UNCHANGED <<payments, notices>>

(***************************************************************************)
(* _apply_payment, shared by record_payment and the webhook.               *)
(***************************************************************************)
\* Faulty: an invoice that is settled still takes payments.
TakesPaymentUnlessVoid(i) == invoices[i].state # "VOID"

TakesPayment(i) == invoices[i].state \notin {"VOID", "PAID"}

\* What the transaction holds: the payment, and what it saw received before.
Payment(key, i, amount) ==
    [op |-> "pay", key |-> key, id |-> i, amount |-> amount, seen |-> Received(i)]

\* A payment whose key is taken by now is the stored one and changes nothing.
PaidBy(t) ==
    IF Paying(t.key) # {} THEN UNCHANGED <<payments, invoices>>
    ELSE /\ payments' = Append(payments,
                               [key |-> t.key, invoice |-> t.id, amount |-> t.amount])
         /\ invoices' =
              LET sum == t.seen + t.amount IN
              [invoices EXCEPT ![t.id].paid = sum,
                               ![t.id].state = IF sum >= invoices[t.id].total
                                               THEN "PAID" ELSE "PARTIALLY_PAID"]

RecordPayment(c, key, i, amount) ==
    /\ Paying(key) = {}
    /\ TakesPayment(i)
    /\ Begins(c, "billing", Payment(key, i, amount))
    /\ UNCHANGED billingVars

CommitPayment(c) ==
    /\ session[c].op = "pay"
    /\ session[c].key \in Receipts
    /\ PaidBy(session[c])
    /\ Commits(c, "billing")
    /\ UNCHANGED notices

IssueCreditNote(c, i) ==
    /\ invoices[i].total > 0
    /\ Begins(c, "billing", [op |-> "credit", id |-> i])
    /\ UNCHANGED billingVars

CommitCreditNote(c) ==
    /\ session[c].op = "credit"
    /\ invoices' = [invoices EXCEPT ![session[c].id].credits = @ + 1]
    /\ Commits(c, "billing")
    /\ UNCHANGED <<payments, notices>>

\* Any of the open invoices may be past due at the date the caller names.
MayBeOverdue == {i \in DOMAIN invoices : invoices[i].state \in {"ISSUED", "PARTIALLY_PAID"}}

MarkOverdue(c, due) ==
    /\ due # {}
    /\ Begins(c, "billing", [op |-> "overdue", due |-> due])
    /\ UNCHANGED billingVars

CommitOverdue(c) ==
    /\ session[c].op = "overdue"
    /\ invoices' = [i \in DOMAIN invoices |->
                      IF i \in session[c].due THEN [invoices[i] EXCEPT !.state = "OVERDUE"]
                      ELSE invoices[i]]
    /\ Commits(c, "billing")
    /\ UNCHANGED <<payments, notices>>

(***************************************************************************)
(* ingest_webhook. The provider delivers a notice again at will, with the  *)
(* same content; here every notice is about the first invoice.             *)
(***************************************************************************)
\* A bad signature leaves a row that no later delivery takes for processed.
RefuseNotice(c, n) ==
    /\ notices[n] = "unseen"
    /\ Begins(c, "billing", [op |-> "refuse", notice |-> n])
    /\ UNCHANGED billingVars

CommitRefusal(c) ==
    /\ session[c].op = "refuse"
    /\ notices' = [notices EXCEPT ![session[c].notice] =
                     IF @ = "unseen" THEN "refused" ELSE @]
    /\ Commits(c, "billing")
    /\ UNCHANGED <<invoices, payments>>

Unprocessed(n) == notices[n] \in {"unseen", "refused"}

IngestUnmatched(c, n) ==
    /\ Unprocessed(n)
    /\ invoices = <<>>
    /\ Begins(c, "billing", [op |-> "unmatched", notice |-> n])
    /\ UNCHANGED billingVars

CommitUnmatched(c) ==
    /\ session[c].op = "unmatched"
    /\ notices' = [notices EXCEPT ![session[c].notice] = "unmatched"]
    /\ Commits(c, "billing")
    /\ UNCHANGED <<invoices, payments>>

\* A payment the invoice refuses rolls the whole delivery back.
IngestNotice(c, n) ==
    /\ Unprocessed(n)
    /\ invoices # <<>>
    /\ TakesPayment(1)
    /\ Begins(c, "billing", Payment(n, 1, NoticeAmount))
    /\ UNCHANGED billingVars

\* Faulty: the event is marked processed before its payment is recorded, in a
\* transaction of its own.
CommitNoticeLate(c) ==
    /\ session[c].op = "pay"
    /\ session[c].key \in Notices
    /\ notices' = [notices EXCEPT ![session[c].key] = "processed"]
    /\ Commits(c, "billing")
    /\ UNCHANGED <<invoices, payments>>

CommitNotice(c) ==
    /\ session[c].op = "pay"
    /\ session[c].key \in Notices
    /\ PaidBy(session[c])
    /\ notices' = [notices EXCEPT ![session[c].key] = "processed"]
    /\ Commits(c, "billing")

BillingInit ==
    /\ invoices = <<>>
    /\ payments = <<>>
    /\ notices = [n \in Notices |-> "unseen"]

BillingStep(c) ==
    \/ \E r \in DOMAIN runs : IssueInvoice(c, r)
    \/ \E i \in DOMAIN invoices :
          \/ VoidInvoice(c, i)
          \/ IssueCreditNote(c, i)
          \/ \E key \in Receipts, amount \in Amounts : RecordPayment(c, key, i, amount)
    \/ \E due \in SUBSET MayBeOverdue : MarkOverdue(c, due)
    \/ \E n \in Notices :
          \/ RefuseNotice(c, n)
          \/ IngestUnmatched(c, n)
          \/ IngestNotice(c, n)
    \/ CommitInvoice(c)
    \/ CommitVoid(c)
    \/ CommitPayment(c)
    \/ CommitCreditNote(c)
    \/ CommitOverdue(c)
    \/ CommitRefusal(c)
    \/ CommitUnmatched(c)
    \/ CommitNotice(c)
=============================================================================
