--------------------------------- MODULE Partners ---------------------------------
(***************************************************************************)
(* One partner: its agreement, a registered deal, the commissions accrued  *)
(* on the invoices of the period, the gate that makes one payable, the     *)
(* payout batches, and the compensating rows of a reversal or a clawback.  *)
(***************************************************************************)
EXTENDS Billing

CONSTANTS
    Patches,        \* what a verification sets or clears: banking, tax or both
    Commission,     \* the amount of an accrued commission
    MaxAccrued      \* bound: the commissions accrued

ASSUME PartnersAssumption ==
    /\ Patches \subseteq [{"banking"} -> BOOLEAN] \cup [{"tax"} -> BOOLEAN]
                          \cup [{"banking", "tax"} -> BOOLEAN]
    /\ Commission \in Nat
    /\ MaxAccrued \in Nat

VARIABLES
    agreement,      \* [active, banking, tax]
    deal,           \* the state of the registered deal
    commissions,    \* rows in order; invoice 0: none; batch 0: not paid out;
                    \* of: the row it compensates, 0 for none
    batches,        \* payout_batches, in order
    aged            \* the payments, from the first, out of the clawback window

partnersVars == <<agreement, deal, commissions, batches, aged>>

DealStates == {"none", "SUBMITTED", "APPROVED", "REJECTED", "WON", "LOST", "EXPIRED"}

\* _DEAL_TX, and the registration.
DealMoves ==
    {<<"none", "SUBMITTED">>, <<"SUBMITTED", "APPROVED">>, <<"SUBMITTED", "REJECTED">>,
     <<"APPROVED", "WON">>, <<"APPROVED", "LOST">>, <<"APPROVED", "EXPIRED">>}

\* _COMMISSION_TX.
CommissionMoves ==
    {<<"ACCRUED", "APPROVED_C">>, <<"ACCRUED", "REVERSED">>,
     <<"APPROVED_C", "PAYABLE">>, <<"APPROVED_C", "REVERSED">>,
     <<"PAYABLE", "PAID">>, <<"PAID", "CLAWED_BACK">>}

VerifyAgreement(c, patch) ==
    /\ Begins(c, "partners", [op |-> "verify", patch |-> patch])
    /\ UNCHANGED partnersVars

CommitVerify(c) ==
    /\ session[c].op = "verify"
    /\ agreement' = session[c].patch @@ agreement
    /\ Commits(c, "partners")
    /\ UNCHANGED <<deal, commissions, batches, aged>>

ActivateAgreement(c) ==
    /\ agreement.banking
    /\ agreement.tax
    /\ Begins(c, "partners", [op |-> "activate"])
    /\ UNCHANGED partnersVars

CommitActivate(c) ==
    /\ session[c].op = "activate"
    /\ agreement' = [agreement EXCEPT !.active = TRUE]
    /\ Commits(c, "partners")
    /\ UNCHANGED <<deal, commissions, batches, aged>>

MoveDeal(c, to) ==
    /\ <<deal, to>> \in DealMoves
    /\ Begins(c, "partners", [op |-> "deal", to |-> to])
    /\ UNCHANGED partnersVars

CommitDeal(c) ==
    /\ session[c].op = "deal"
    /\ deal' = session[c].to
    /\ Commits(c, "partners")
    /\ UNCHANGED <<agreement, commissions, batches, aged>>

AccrueCommission(c, i, dealt) ==
    /\ dealt => deal # "none"
    /\ Cardinality({m \in DOMAIN commissions : commissions[m].of = 0}) < MaxAccrued
    /\ Begins(c, "partners", [op |-> "accrue", invoice |-> i, dealt |-> dealt])
    /\ UNCHANGED partnersVars

CommitAccrual(c) ==
    /\ session[c].op = "accrue"
    /\ commissions' =
         Append(commissions, [invoice |-> session[c].invoice, dealt |-> session[c].dealt,
                              amount |-> Commission, state |-> "ACCRUED",
                              batch |-> 0, of |-> 0])
    /\ Commits(c, "partners")
    /\ UNCHANGED <<agreement, deal, batches, aged>>

\* Faulty: the state of the invoice is not looked at.
PayableWithoutInvoice(m) ==
    /\ agreement.active /\ agreement.banking /\ agreement.tax
    /\ m.dealt => deal \in {"APPROVED", "WON"}
    /\ m.invoice # 0
    /\ invoices[m.invoice].credits = 0
    /\ PaymentsOf(m.invoice) # {}
    /\ \A p \in PaymentsOf(m.invoice) : p <= aged

\* _payability_reason is None.
Payable(m) ==
    /\ agreement.active /\ agreement.banking /\ agreement.tax
    /\ m.dealt => deal \in {"APPROVED", "WON"}
    /\ m.invoice # 0
    /\ invoices[m.invoice].state = "PAID"
    /\ invoices[m.invoice].credits = 0
    /\ PaymentsOf(m.invoice) # {}
    /\ \A p \in PaymentsOf(m.invoice) : p <= aged

\* approve_commission and mark_payable.
AdvanceCommission(c, m, to) ==
    /\ to \in {"APPROVED_C", "PAYABLE"}
    /\ <<commissions[m].state, to>> \in CommissionMoves
    /\ to = "PAYABLE" => Payable(commissions[m])
    /\ Begins(c, "partners", [op |-> "advance", id |-> m, to |-> to])
    /\ UNCHANGED partnersVars

CommitAdvance(c) ==
    /\ session[c].op = "advance"
    /\ commissions' = [commissions EXCEPT ![session[c].id].state = session[c].to]
    /\ Commits(c, "partners")
    /\ UNCHANGED <<agreement, deal, batches, aged>>

ToPayOut == {m \in DOMAIN commissions : commissions[m].state = "PAYABLE"}

SumOfCommissions(S) ==
    SumFunctionOnSet([m \in DOMAIN commissions |-> commissions[m].amount], S)

PayPartner(c) ==
    /\ ToPayOut # {}
    /\ Begins(c, "partners", [op |-> "payout", rows |-> ToPayOut])
    /\ UNCHANGED partnersVars

CommitPayout(c) ==
    LET rows == session[c].rows IN
    /\ session[c].op = "payout"
    /\ batches' = Append(batches, [rows |-> rows, total |-> SumOfCommissions(rows)])
    /\ commissions' = [m \in DOMAIN commissions |->
                         IF m \in rows
                         THEN [commissions[m] EXCEPT !.state = "PAID",
                                                     !.batch = Len(batches) + 1]
                         ELSE commissions[m]]
    /\ Commits(c, "partners")
    /\ UNCHANGED <<agreement, deal, aged>>

\* reverse_commission and clawback_commission.
Compensate(c, m, to) ==
    /\ to \in {"REVERSED", "CLAWED_BACK"}
    /\ <<commissions[m].state, to>> \in CommissionMoves
    /\ Begins(c, "partners", [op |-> "compensate", id |-> m, to |-> to])
    /\ UNCHANGED partnersVars

\* Faulty: the paid row is closed and nothing is written against it.
CompensatedSilently(m, to) == [commissions EXCEPT ![m].state = to]

\* The row is closed, and a row of its negative amount is written beside it.
Compensated(m, to) ==
    Append([commissions EXCEPT ![m].state = to],
           [commissions[m] EXCEPT !.amount = -@, !.state = to, !.batch = 0, !.of = m])

CommitCompensation(c) ==
    /\ session[c].op = "compensate"
    /\ commissions' = Compensated(session[c].id, session[c].to)
    /\ Commits(c, "partners")
    /\ UNCHANGED <<agreement, deal, batches, aged>>

\* The clawback window of the next payment elapses.
WindowElapses ==
    /\ aged < Len(payments)
    /\ aged' = aged + 1
    /\ UNCHANGED <<agreement, deal, commissions, batches>>

PartnersInit ==
    /\ agreement = [active |-> FALSE, banking |-> FALSE, tax |-> FALSE]
    /\ deal = "none"
    /\ commissions = <<>>
    /\ batches = <<>>
    /\ aged = 0

PartnersStep(c) ==
    \/ \E patch \in Patches : VerifyAgreement(c, patch)
    \/ ActivateAgreement(c)
    \/ \E to \in DealStates : MoveDeal(c, to)
    \/ \E i \in DOMAIN invoices \cup {0}, dealt \in BOOLEAN : AccrueCommission(c, i, dealt)
    \/ \E m \in DOMAIN commissions :
          \/ \E to \in {"APPROVED_C", "PAYABLE"} : AdvanceCommission(c, m, to)
          \/ \E to \in {"REVERSED", "CLAWED_BACK"} : Compensate(c, m, to)
    \/ PayPartner(c)
    \/ CommitVerify(c)
    \/ CommitActivate(c)
    \/ CommitDeal(c)
    \/ CommitAccrual(c)
    \/ CommitAdvance(c)
    \/ CommitPayout(c)
    \/ CommitCompensation(c)
=============================================================================
