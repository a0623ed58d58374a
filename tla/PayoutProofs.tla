------------------------------ MODULE PayoutProofs ------------------------------
(***************************************************************************)
(* Where the money goes, for any number of invoices, payments, notices,    *)
(* commissions, batches and requests, where transactions are serialized:   *)
(* what is payable to a partner, or was paid, is commission on an invoice  *)
(* that is paid; the books agree; billing implements Receivables; and the  *)
(* statement of a partner reconciles with the payouts.                     *)
(*                                                                         *)
(* Payability is checked once, so its proof has two halves. In billing, a  *)
(* paid invoice stays paid: what a transaction is about to void, to pay or *)
(* to mark overdue is not paid (BillingHeld). In partners, a commission    *)
(* reaches PAYABLE on a paid invoice, and PAID and CLAWED_BACK only from   *)
(* there (PartnersHeld). Neither half asks what the amounts are; the books *)
(* and the statement do, and rest on SumTheorems for what the sums are.    *)
(***************************************************************************)
EXTENDS RevenueProofs, SumTheorems

-----------------------------------------------------------------------------
(***************************************************************************)
(* Tables whose rows are records of whatever values.                       *)
(***************************************************************************)

RowsOf(table) == {table[i] : i \in DOMAIN table}

Table(table) == table \in Seq(RowsOf(table))

LEMMA TableGrows ==
    ASSUME NEW table, Table(table), NEW row
    PROVE  /\ Table(Append(table, row))
           /\ DOMAIN Append(table, row) = DOMAIN table \cup {Len(table) + 1}
           /\ Len(table) + 1 \in Nat \ DOMAIN table
           /\ Append(table, row)[Len(table) + 1] = row
           /\ \A i \in DOMAIN table : Append(table, row)[i] = table[i]
<1>. DEFINE Rows == RowsOf(table) \cup {row}
            longer == Append(table, row)
<1>1. table \in Seq(Rows) /\ row \in Rows
  BY DEF Table
<1>2. /\ longer \in Seq(Rows)
      /\ DOMAIN longer = DOMAIN table \cup {Len(table) + 1}
      /\ Len(table) + 1 \in Nat \ DOMAIN table
      /\ longer[Len(table) + 1] = row
      /\ \A i \in DOMAIN table : longer[i] = table[i]
  <2>. HIDE DEF Rows
  <2>. QED  BY <1>1, RowAdded
<1>3. longer \in Seq(RowsOf(longer))
  BY <1>2 DEF RowsOf
<1>. QED  BY <1>2, <1>3 DEF Table

LEMMA TableRewritten ==
    ASSUME NEW table, Table(table), NEW rows, rows = [i \in DOMAIN table |-> rows[i]]
    PROVE  Table(rows) /\ DOMAIN rows = DOMAIN table
  BY DEF Table, RowsOf

-----------------------------------------------------------------------------
(***************************************************************************)
(* Billing: a paid invoice stays paid.                                     *)
(***************************************************************************)

InvoiceFields == {"run", "total", "paid", "credits", "state"}

\* What a transaction of billing read and still holds.
BillingHeld(c) ==
    LET t == session[c] IN
    /\ t.op \in {"void", "pay", "credit"} => t.id \in DOMAIN invoices
    /\ t.op \in {"void", "pay"} => invoices[t.id].state # "PAID"
    /\ t.op = "overdue" => t.due \subseteq MayBeOverdue

BillingInv ==
    /\ Serialized
    /\ Table(invoices)
    /\ \A i \in DOMAIN invoices : DOMAIN invoices[i] = InvoiceFields
    /\ \A c \in Clients : BillingHeld(c)

\* An invoice stays, and if it is paid it stays paid.
PaidStays ==
    \A i \in DOMAIN invoices :
       /\ i \in DOMAIN invoices'
       /\ invoices[i].state = "PAID" => invoices'[i].state = "PAID"

LEMMA BillingInitial == Init => BillingInv
<1>. SUFFICES ASSUME Init PROVE BillingInv
  OBVIOUS
<1>1. Serialized /\ \A c \in Clients : BillingHeld(c)
  BY SerializedInit DEF Init, SessionsInit, BillingHeld, Idle
<1>2. CASE invoices = <<>>
  BY <1>1, <1>2 DEF BillingInv, Table, RowsOf
<1>3. CASE invoices = <<[run |-> 1, total |-> ListPrice, paid |-> 0, credits |-> 0,
                         state |-> "ISSUED"]>>
  BY <1>1, <1>3 DEF BillingInv, Table, RowsOf, InvoiceFields
<1>. QED  BY <1>2, <1>3 DEF Init, Fresh, BillingInit, Billed

\* Where billing does nothing, neither does what its requests hold.
LEMMA BillingRests ==
    ASSUME SessionFunction, [Next]_vars, ~ \E c \in Clients : BillingStep(c)
    PROVE  UNCHANGED billingVars /\ Unmoved(BillingOps \ {"idle"})
<1>1. CASE \E c \in Clients : /\ MeteringStep(c) \/ RatingStep(c) \/ PartnersStep(c)
                                 \/ LicensingStep(c)
                              /\ UNCHANGED billingVars
  <2>1. PICK c \in Clients : /\ MeteringStep(c) \/ RatingStep(c) \/ PartnersStep(c)
                                \/ LicensingStep(c)
                             /\ UNCHANGED billingVars
    BY <1>1
  <2>2. \/ Turns(c, MeteringOps) \/ Turns(c, RatingOps) \/ Turns(c, PartnersOps)
        \/ Turns(c, LicensingOps)
    BY <2>1, MeteringTurns, RatingTurns, PartnersTurns, LicensingTurns
  <2>3. Unmoved(BillingOps \ {"idle"})
    BY <2>2, TurnsElsewhere
    DEF MeteringOps, RatingOps, BillingOps, PartnersOps, LicensingOps
  <2>. QED  BY <2>1, <2>3
<1>2. CASE /\ UNCHANGED billingVars
           /\ session' = session \/ \E c \in Clients : Breaks(c)
  BY <1>2, BreaksElsewhere
<1>. QED  BY <1>1, <1>2 DEF Next, vars

\* A request of billing that begins holds what it read.
LEMMA BillingBegins ==
    ASSUME BillingInv, NEW c \in Clients, BillingStep(c), session[c] = Idle
    PROVE  UNCHANGED billingVars /\ BillingHeld(c)'
<1>. USE DEF BillingInv, Serialized, SessionFunction
<1>1. CASE \E r \in DOMAIN runs : IssueInvoice(c, r)
  BY <1>1 DEF IssueInvoice, Begins, BillingHeld
<1>2. CASE \E i \in DOMAIN invoices : VoidInvoice(c, i) \/ IssueCreditNote(c, i)
  BY <1>2 DEF VoidInvoice, IssueCreditNote, Begins, BillingHeld, billingVars
<1>3. CASE \E i \in DOMAIN invoices : \E key \in Receipts, amount \in Amounts :
              RecordPayment(c, key, i, amount)
  BY <1>3 DEF RecordPayment, TakesPayment, Payment, Begins, BillingHeld, billingVars
<1>4. CASE \E due \in SUBSET MayBeOverdue : MarkOverdue(c, due)
  BY <1>4 DEF MarkOverdue, MayBeOverdue, Begins, BillingHeld, billingVars
<1>5. CASE \E n \in Notices : RefuseNotice(c, n) \/ IngestUnmatched(c, n)
  BY <1>5 DEF RefuseNotice, IngestUnmatched, Begins, BillingHeld
<1>6. CASE \E n \in Notices : IngestNotice(c, n)
  <2>1. 1 \in DOMAIN invoices
    BY <1>6 DEF IngestNotice, Table
  <2>. QED
    BY <1>6, <2>1 DEF IngestNotice, TakesPayment, Payment, Begins, BillingHeld, billingVars
<1>. QED
  BY <1>1, <1>2, <1>3, <1>4, <1>5, <1>6
  DEF BillingStep, CommitInvoice, CommitVoid, CommitPayment, CommitCreditNote, CommitOverdue,
      CommitRefusal, CommitUnmatched, CommitNotice, Idle

\* A change of one invoice that was not paid, or of its credits, keeps what
\* is paid.
LEMMA InvoiceChanges ==
    ASSUME BillingInv, NEW id \in DOMAIN invoices,
           invoices' = [i \in DOMAIN invoices |-> invoices'[i]],
           \A i \in DOMAIN invoices : i # id => invoices'[i] = invoices[i],
           DOMAIN invoices'[id] = InvoiceFields,
           invoices[id].state = "PAID" => invoices'[id].state = "PAID"
    PROVE  /\ Table(invoices)'
           /\ \A i \in DOMAIN invoices' : DOMAIN invoices'[i] = InvoiceFields
           /\ PaidStays
<1>1. Table(invoices') /\ DOMAIN invoices' = DOMAIN invoices
  BY TableRewritten DEF BillingInv
<1>. QED  BY <1>1 DEF BillingInv, PaidStays

LEMMA BillingCommits ==
    ASSUME BillingInv, NEW c \in Clients, BillingStep(c), session[c] # Idle
    PROVE  /\ BillingHeld(c)'
           /\ Table(invoices)'
           /\ \A i \in DOMAIN invoices' : DOMAIN invoices'[i] = InvoiceFields
           /\ PaidStays
<1>1. \/ CommitInvoice(c) \/ CommitVoid(c) \/ CommitPayment(c) \/ CommitCreditNote(c)
      \/ CommitOverdue(c) \/ CommitRefusal(c) \/ CommitUnmatched(c) \/ CommitNotice(c)
  BY DEF BillingStep, IssueInvoice, VoidInvoice, IssueCreditNote, RecordPayment, MarkOverdue,
     RefuseNotice, IngestUnmatched, IngestNotice, Begins
<1>2. session'[c] = Idle
  BY <1>1 DEF CommitInvoice, CommitVoid, CommitPayment, CommitCreditNote, CommitOverdue,
     CommitRefusal, CommitUnmatched, CommitNotice, Commits, BillingInv, Serialized,
     SessionFunction
<1>3. BillingHeld(c)'
  BY <1>2 DEF BillingHeld, Idle
<1>4. CASE CommitInvoice(c)
  <2>1. PICK row : invoices' = Append(invoices, row) /\ DOMAIN row = InvoiceFields
    BY <1>4 DEF CommitInvoice, InvoiceFields
  <2>2. /\ Table(invoices')
        /\ DOMAIN invoices' = DOMAIN invoices \cup {Len(invoices) + 1}
        /\ invoices'[Len(invoices) + 1] = row
        /\ \A i \in DOMAIN invoices : invoices'[i] = invoices[i]
    BY <2>1, TableGrows DEF BillingInv
  <2>. QED  BY <1>3, <2>1, <2>2 DEF BillingInv, PaidStays
<1>5. CASE CommitVoid(c)
  <2>1. PICK id \in DOMAIN invoices : id = session[c].id /\ invoices[id].state # "PAID"
    BY <1>5 DEF CommitVoid, BillingInv, BillingHeld
  <2>2. invoices' = [invoices EXCEPT ![id].state = "VOID"]
    BY <1>5, <2>1 DEF CommitVoid
  <2>3. DOMAIN invoices[id] = InvoiceFields /\ invoices = [i \in DOMAIN invoices |-> invoices[i]]
    BY DEF BillingInv, Table
  <2>4. /\ invoices' = [i \in DOMAIN invoices |-> invoices'[i]]
        /\ \A i \in DOMAIN invoices : i # id => invoices'[i] = invoices[i]
        /\ DOMAIN invoices'[id] = InvoiceFields
    BY <2>2, <2>3
  <2>. QED  BY <1>3, <2>1, <2>4, InvoiceChanges
<1>6. CASE CommitPayment(c) \/ CommitNotice(c)
  <2>1. PICK id \in DOMAIN invoices : id = session[c].id /\ invoices[id].state # "PAID"
    BY <1>6 DEF CommitPayment, CommitNotice, BillingInv, BillingHeld
  <2>2. CASE UNCHANGED invoices
    BY <1>3, <2>2 DEF BillingInv, PaidStays
  <2>3. CASE ~UNCHANGED invoices
    <3>. DEFINE sum == session[c].seen + session[c].amount
                state == IF sum >= invoices[id].total THEN "PAID" ELSE "PARTIALLY_PAID"
    <3>1. invoices' = [invoices EXCEPT ![id].paid = sum, ![id].state = state]
      BY <1>6, <2>1, <2>3 DEF CommitPayment, CommitNotice, PaidBy
    <3>. HIDE DEF sum, state
    <3>2. DOMAIN invoices[id] = InvoiceFields /\ invoices = [i \in DOMAIN invoices |-> invoices[i]]
      BY DEF BillingInv, Table
    <3>3. /\ invoices' = [i \in DOMAIN invoices |-> invoices'[i]]
          /\ \A i \in DOMAIN invoices : i # id => invoices'[i] = invoices[i]
          /\ DOMAIN invoices'[id] = InvoiceFields
      BY <3>1, <3>2
    <3>. QED  BY <1>3, <2>1, <3>3, InvoiceChanges
  <2>. QED  BY <2>2, <2>3
<1>7. CASE CommitCreditNote(c)
  <2>1. PICK id \in DOMAIN invoices : id = session[c].id
    BY <1>7 DEF CommitCreditNote, BillingInv, BillingHeld
  <2>2. PICK credits : invoices' = [invoices EXCEPT ![id].credits = credits]
    BY <1>7, <2>1 DEF CommitCreditNote
  <2>3. DOMAIN invoices[id] = InvoiceFields /\ invoices = [i \in DOMAIN invoices |-> invoices[i]]
    BY DEF BillingInv, Table
  <2>4. /\ invoices' = [i \in DOMAIN invoices |-> invoices'[i]]
        /\ \A i \in DOMAIN invoices : i # id => invoices'[i] = invoices[i]
        /\ DOMAIN invoices'[id] = InvoiceFields
        /\ invoices'[id].state = invoices[id].state
    BY <2>2, <2>3 DEF InvoiceFields
  <2>. QED  BY <1>3, <2>1, <2>4, InvoiceChanges
<1>8. CASE CommitOverdue(c)
  <2>1. PICK due \in SUBSET MayBeOverdue :
           invoices' = [i \in DOMAIN invoices |->
                          IF i \in due THEN [invoices[i] EXCEPT !.state = "OVERDUE"]
                          ELSE invoices[i]]
    BY <1>8 DEF CommitOverdue, BillingInv, BillingHeld
  <2>2. Table(invoices') /\ DOMAIN invoices' = DOMAIN invoices
    BY <2>1, TableRewritten DEF BillingInv
  <2>3. \A i \in DOMAIN invoices' : DOMAIN invoices'[i] = InvoiceFields
    BY <2>1, <2>2 DEF BillingInv
  <2>4. PaidStays
    BY <2>1, <2>2 DEF PaidStays, MayBeOverdue
  <2>. QED  BY <1>3, <2>2, <2>3, <2>4
<1>9. CASE CommitRefusal(c) \/ CommitUnmatched(c)
  BY <1>3, <1>9 DEF CommitRefusal, CommitUnmatched, BillingInv, PaidStays
<1>. QED  BY <1>1, <1>4, <1>5, <1>6, <1>7, <1>8, <1>9

LEMMA BillingNext ==
    ASSUME Serial, BillingInv, [Next]_vars
    PROVE  BillingInv' /\ PaidStays
<1>1. Serialized'
  BY SerializedStep DEF BillingInv
<1>2. CASE ~ \E c \in Clients : BillingStep(c)
  <2>1. UNCHANGED billingVars /\ Unmoved(BillingOps \ {"idle"})
    BY <1>2, BillingRests DEF BillingInv, Serialized
  <2>2. \A c \in Clients : BillingHeld(c)'
    BY <2>1 DEF BillingInv, BillingHeld, Unmoved, BillingOps, MayBeOverdue, billingVars
  <2>. QED  BY <1>1, <2>1, <2>2 DEF BillingInv, PaidStays, billingVars
<1>3. CASE \E c \in Clients : BillingStep(c)
  <2>1. PICK c \in Clients : BillingStep(c)
    BY <1>3
  <2>2. \A d \in Clients : d # c => BillingHeld(d)'
    BY <2>1, BillingTurns, OthersOut
    DEF BillingInv, Serialized, InTransaction, BillingHeld
  <2>3. CASE session[c] = Idle
    <3>1. UNCHANGED billingVars /\ BillingHeld(c)'
      BY <2>1, <2>3, BillingBegins
    <3>. QED  BY <1>1, <2>2, <3>1 DEF BillingInv, PaidStays, billingVars
  <2>4. CASE session[c] # Idle
    BY <1>1, <2>1, <2>2, <2>4, BillingCommits DEF BillingInv
  <2>. QED  BY <2>3, <2>4
<1>. QED  BY <1>2, <1>3

-----------------------------------------------------------------------------
(***************************************************************************)
(* Partners: commissions are payable on paid invoices.                     *)
(***************************************************************************)

CommissionFields == {"invoice", "dealt", "amount", "state", "batch", "of"}

Owed == {"PAYABLE", "PAID", "CLAWED_BACK"}

\* A commission of this invoice may be paid out.
Backed(i) == i \in DOMAIN invoices /\ invoices[i].state = "PAID"

\* What a transaction of partners read and still holds.
PartnersHeld(c) ==
    LET t == session[c] IN
    /\ t.op = "accrue" => t.invoice \in DOMAIN invoices \cup {0}
    /\ t.op = "advance" => /\ t.id \in DOMAIN commissions
                           /\ t.to \in {"APPROVED_C", "PAYABLE"}
                           /\ t.to = "PAYABLE" => Backed(commissions[t.id].invoice)
    /\ t.op = "payout" => t.rows \subseteq ToPayOut
    /\ t.op = "compensate" => /\ t.id \in DOMAIN commissions
                              /\ t.to \in {"REVERSED", "CLAWED_BACK"}
                              /\ t.to = "CLAWED_BACK" => commissions[t.id].state = "PAID"

\* A row of commissions that PayoutsBacked allows.
CommissionRow(m) ==
    /\ DOMAIN m = CommissionFields
    /\ m.invoice \in DOMAIN invoices \cup {0}
    /\ m.state \in Owed => Backed(m.invoice)

Commissioned == Table(commissions) /\ \A m \in DOMAIN commissions : CommissionRow(commissions[m])

PayoutInv ==
    /\ BillingInv
    /\ Commissioned
    /\ \A c \in Clients : PartnersHeld(c)

LEMMA PayoutInitial == Init => PayoutInv
<1>. SUFFICES ASSUME Init PROVE PayoutInv
  OBVIOUS
<1>1. commissions = <<>> /\ session = [c \in Clients |-> Idle]
  BY DEF Init, SessionsInit, Fresh, PartnersInit, Billed
<1>2. Commissioned
  BY <1>1 DEF Commissioned, Table, RowsOf
<1>3. \A c \in Clients : PartnersHeld(c)
  BY <1>1 DEF PartnersHeld, Idle
<1>. QED  BY <1>2, <1>3, BillingInitial DEF PayoutInv

\* Where partners do nothing, neither does what their requests hold.
LEMMA PartnersRest ==
    ASSUME SessionFunction, [Next]_vars,
           ~ \E c \in Clients : PartnersStep(c) /\ UNCHANGED billingVars
    PROVE  UNCHANGED commissions /\ Unmoved(PartnersOps \ {"idle"})
<1>1. CASE \E c \in Clients : /\ MeteringStep(c) \/ RatingStep(c) \/ BillingStep(c)
                                 \/ LicensingStep(c)
                              /\ UNCHANGED partnersVars
  <2>1. PICK c \in Clients : /\ MeteringStep(c) \/ RatingStep(c) \/ BillingStep(c)
                                \/ LicensingStep(c)
                             /\ UNCHANGED partnersVars
    BY <1>1
  <2>2. \/ Turns(c, MeteringOps) \/ Turns(c, RatingOps) \/ Turns(c, BillingOps)
        \/ Turns(c, LicensingOps)
    BY <2>1, MeteringTurns, RatingTurns, BillingTurns, LicensingTurns
  <2>3. Unmoved(PartnersOps \ {"idle"})
    BY <2>2, TurnsElsewhere
    DEF MeteringOps, RatingOps, BillingOps, PartnersOps, LicensingOps
  <2>. QED  BY <2>1, <2>3 DEF partnersVars
<1>2. CASE /\ UNCHANGED commissions
           /\ session' = session \/ \E c \in Clients : Breaks(c)
  BY <1>2, BreaksElsewhere
<1>. QED  BY <1>1, <1>2 DEF Next, vars, WindowElapses, partnersVars

\* A request of partners that begins holds what it read.
LEMMA PartnersBegin ==
    ASSUME PayoutInv, NEW c \in Clients, PartnersStep(c), session[c] = Idle,
           UNCHANGED billingVars
    PROVE  UNCHANGED commissions /\ PartnersHeld(c)'
<1>. USE DEF PayoutInv, BillingInv, Serialized, SessionFunction
<1>1. CASE (\E patch \in Patches : VerifyAgreement(c, patch)) \/ ActivateAgreement(c)
  BY <1>1 DEF VerifyAgreement, ActivateAgreement, Begins, PartnersHeld, partnersVars
<1>2. CASE \E to \in DealStates : MoveDeal(c, to)
  BY <1>2 DEF MoveDeal, Begins, PartnersHeld, partnersVars
<1>3. CASE \E i \in DOMAIN invoices \cup {0}, dealt \in BOOLEAN : AccrueCommission(c, i, dealt)
  BY <1>3 DEF AccrueCommission, Begins, PartnersHeld, partnersVars, billingVars
<1>4. CASE \E m \in DOMAIN commissions : \E to \in {"APPROVED_C", "PAYABLE"} :
              AdvanceCommission(c, m, to)
  <2>1. PICK m \in DOMAIN commissions, to \in {"APPROVED_C", "PAYABLE"} :
           AdvanceCommission(c, m, to)
    BY <1>4
  <2>2. to = "PAYABLE" => Backed(commissions[m].invoice)
    BY <2>1 DEF AdvanceCommission, Payable, Backed, Commissioned, CommissionRow
  <2>3. Backed(commissions[m].invoice)' <=> Backed(commissions[m].invoice)
    BY <2>1 DEF AdvanceCommission, Backed, partnersVars, billingVars
  <2>. QED
    BY <2>1, <2>2, <2>3 DEF AdvanceCommission, Begins, PartnersHeld, partnersVars
<1>5. CASE \E m \in DOMAIN commissions : \E to \in {"REVERSED", "CLAWED_BACK"} :
              Compensate(c, m, to)
  BY <1>5 DEF Compensate, CommissionMoves, Begins, PartnersHeld, partnersVars
<1>6. CASE PayPartner(c)
  BY <1>6 DEF PayPartner, ToPayOut, Begins, PartnersHeld, partnersVars
<1>7. ~ \/ CommitVerify(c) \/ CommitActivate(c) \/ CommitDeal(c) \/ CommitAccrual(c)
        \/ CommitAdvance(c) \/ CommitPayout(c) \/ CommitCompensation(c)
  <2>1. session[c].op = "idle"
    BY DEF Idle
  <2>. QED
    BY <2>1 DEF CommitVerify, CommitActivate, CommitDeal, CommitAccrual, CommitAdvance,
       CommitPayout, CommitCompensation
<1>. QED  BY <1>1, <1>2, <1>3, <1>4, <1>5, <1>6, <1>7 DEF PartnersStep

\* A commission whose state alone changes stays one that PayoutsBacked allows
\* if its invoice is paid or its state is not one of what is owed.
LEMMA StateChanges ==
    ASSUME NEW m, CommissionRow(m), NEW state, state \in Owed => Backed(m.invoice)
    PROVE  CommissionRow([m EXCEPT !.state = state])
<1>. DEFINE n == [m EXCEPT !.state = state]
<1>1. DOMAIN m = CommissionFields /\ "state" \in CommissionFields
  BY DEF CommissionRow, CommissionFields
<1>2. DOMAIN n = CommissionFields /\ n.state = state /\ n.invoice = m.invoice
  BY <1>1 DEF CommissionFields
<1>3. n.invoice \in DOMAIN invoices \cup {0}
  BY <1>2 DEF CommissionRow
<1>4. CommissionRow(n)
  <2>. HIDE DEF n
  <2>. QED  BY <1>2, <1>3 DEF CommissionRow
<1>. QED  BY <1>4

LEMMA PartnersCommit ==
    ASSUME PayoutInv, NEW c \in Clients, PartnersStep(c), session[c] # Idle,
           UNCHANGED billingVars
    PROVE  Commissioned' /\ PartnersHeld(c)'
<1>1. \/ CommitVerify(c) \/ CommitActivate(c) \/ CommitDeal(c) \/ CommitAccrual(c)
      \/ CommitAdvance(c) \/ CommitPayout(c) \/ CommitCompensation(c)
  BY DEF PartnersStep, VerifyAgreement, ActivateAgreement, MoveDeal, AccrueCommission,
     AdvanceCommission, Compensate, PayPartner, Begins
<1>2. session'[c] = Idle
  BY <1>1 DEF CommitVerify, CommitActivate, CommitDeal, CommitAccrual, CommitAdvance,
     CommitPayout, CommitCompensation, Commits, PayoutInv, BillingInv, Serialized,
     SessionFunction
<1>3. PartnersHeld(c)'
  BY <1>2 DEF PartnersHeld, Idle
<1>4. \A m : CommissionRow(m)' <=> CommissionRow(m)
  BY DEF CommissionRow, Backed, billingVars
<1>5. \A m \in DOMAIN commissions : CommissionRow(commissions[m])
  BY DEF PayoutInv, Commissioned
<1>6. Table(commissions) /\ commissions = [m \in DOMAIN commissions |-> commissions[m]]
  BY DEF PayoutInv, Commissioned, Table
<1>7. CASE CommitVerify(c) \/ CommitActivate(c) \/ CommitDeal(c)
  BY <1>3, <1>4, <1>7 DEF CommitVerify, CommitActivate, CommitDeal, PayoutInv, Commissioned
<1>8. CASE CommitAccrual(c)
  <2>1. PICK row : commissions' = Append(commissions, row) /\ CommissionRow(row)
    <3>1. session[c].invoice \in DOMAIN invoices \cup {0}
      BY <1>8 DEF CommitAccrual, PayoutInv, PartnersHeld
    <3>. QED
      BY <1>8, <3>1 DEF CommitAccrual, CommissionRow, CommissionFields, Owed
  <2>. QED  BY <1>3, <1>4, <1>5, <1>6, <2>1, TableGrows DEF Commissioned
<1>9. CASE CommitAdvance(c)
  <2>1. PICK id \in DOMAIN commissions, to \in {"APPROVED_C", "PAYABLE"} :
           /\ commissions' = [commissions EXCEPT ![id].state = to]
           /\ to = "PAYABLE" => Backed(commissions[id].invoice)
    BY <1>9 DEF CommitAdvance, PayoutInv, PartnersHeld
  <2>2. /\ commissions' = [m \in DOMAIN commissions |-> commissions'[m]]
        /\ commissions'[id] = [commissions[id] EXCEPT !.state = to]
        /\ \A m \in DOMAIN commissions : m # id => commissions'[m] = commissions[m]
    BY <1>6, <2>1
  <2>3. CommissionRow(commissions'[id])
    BY <1>5, <2>1, <2>2, StateChanges DEF Owed
  <2>4. Table(commissions') /\ DOMAIN commissions' = DOMAIN commissions
    BY <1>6, <2>2, TableRewritten
  <2>. QED  BY <1>3, <1>4, <1>5, <2>2, <2>3, <2>4 DEF Commissioned
<1>10. CASE CommitPayout(c)
  <2>. DEFINE rows == session[c].rows
              batch == Len(batches) + 1
  <2>1. rows \subseteq ToPayOut
    BY <1>10 DEF CommitPayout, PayoutInv, PartnersHeld
  <2>2. commissions' = [m \in DOMAIN commissions |->
                          IF m \in rows
                          THEN [commissions[m] EXCEPT !.state = "PAID", !.batch = batch]
                          ELSE commissions[m]]
    BY <1>10 DEF CommitPayout
  <2>. HIDE DEF rows, batch
  <2>3. Table(commissions') /\ DOMAIN commissions' = DOMAIN commissions
    <3>1. commissions' = [m \in DOMAIN commissions |-> commissions'[m]]
      BY <2>2
    <3>. QED  BY <1>6, <3>1, TableRewritten
  <2>4. ASSUME NEW m \in DOMAIN commissions
        PROVE  CommissionRow(commissions'[m])
    <3>1. CASE m \in rows
      <4>1. CommissionRow(commissions[m]) /\ commissions[m].state = "PAYABLE"
        BY <1>5, <2>1, <3>1 DEF ToPayOut
      <4>2. PICK paid : paid = [commissions[m] EXCEPT !.state = "PAID"] /\ CommissionRow(paid)
        BY <4>1, StateChanges DEF CommissionRow, Owed
      <4>3. commissions'[m] = [paid EXCEPT !.batch = batch]
        BY <2>2, <3>1, <4>2
      <4>4. /\ DOMAIN commissions'[m] = CommissionFields
            /\ commissions'[m].invoice = paid.invoice
            /\ commissions'[m].state = paid.state
        BY <4>2, <4>3 DEF CommissionRow, CommissionFields
      <4>. QED  BY <4>2, <4>4 DEF CommissionRow
    <3>2. CASE m \notin rows
      BY <1>5, <2>2, <3>2
    <3>. QED  BY <3>1, <3>2
  <2>. QED  BY <1>3, <1>4, <2>3, <2>4 DEF Commissioned
<1>11. CASE CommitCompensation(c)
  <2>1. PICK id \in DOMAIN commissions, to \in {"REVERSED", "CLAWED_BACK"} :
           /\ commissions' = Compensated(id, to)
           /\ to = "CLAWED_BACK" => commissions[id].state = "PAID"
    BY <1>11 DEF CommitCompensation, PayoutInv, PartnersHeld
  <2>2. PICK closed : closed = [commissions EXCEPT ![id].state = to]
    OBVIOUS
  <2>3. PICK row : row = [commissions[id] EXCEPT !.state = to] /\ CommissionRow(row)
    BY <1>5, <2>1, StateChanges DEF CommissionRow, Owed
  <2>4. PICK against : /\ against = [commissions[id] EXCEPT !.amount = -@, !.state = to,
                                                            !.batch = 0, !.of = id]
                       /\ commissions' = Append(closed, against)
    BY <2>1, <2>2 DEF Compensated
  <2>5. /\ closed = [m \in DOMAIN commissions |-> closed[m]]
        /\ closed[id] = row
        /\ \A m \in DOMAIN commissions : m # id => closed[m] = commissions[m]
    BY <1>6, <2>2, <2>3
  <2>6. Table(closed) /\ DOMAIN closed = DOMAIN commissions
    BY <1>6, <2>5, TableRewritten
  <2>7. CommissionRow(against)
    <3>1. DOMAIN commissions[id] = CommissionFields
      BY <1>5 DEF CommissionRow
    <3>2. /\ DOMAIN against = CommissionFields
          /\ against.invoice = commissions[id].invoice
          /\ against.state = to
          /\ row.invoice = commissions[id].invoice
          /\ row.state = to
      BY <2>3, <2>4, <3>1 DEF CommissionFields
    <3>. QED  BY <2>3, <3>2 DEF CommissionRow
  <2>8. \A m \in DOMAIN closed : CommissionRow(closed[m])
    BY <1>5, <2>3, <2>5, <2>6
  <2>. QED  BY <1>3, <1>4, <2>4, <2>6, <2>7, <2>8, TableGrows DEF Commissioned
<1>. QED  BY <1>1, <1>7, <1>8, <1>9, <1>10, <1>11

LEMMA PayoutNext ==
    ASSUME Serial, PayoutInv, [Next]_vars
    PROVE  PayoutInv' /\ PaidStays
<1>1. BillingInv' /\ PaidStays
  BY BillingNext DEF PayoutInv
<1>2. DOMAIN invoices \subseteq DOMAIN invoices' /\ \A i : Backed(i) => Backed(i)'
  BY <1>1 DEF PaidStays, Backed
<1>3. CASE ~ \E c \in Clients : PartnersStep(c) /\ UNCHANGED billingVars
  <2>1. UNCHANGED commissions /\ Unmoved(PartnersOps \ {"idle"})
    BY <1>3, PartnersRest DEF PayoutInv, BillingInv, Serialized
  <2>2. Commissioned'
    BY <1>2, <2>1 DEF PayoutInv, Commissioned, CommissionRow
  <2>3. ASSUME NEW c \in Clients PROVE PartnersHeld(c)'
    <3>1. CASE session'[c].op \notin PartnersOps \ {"idle"}
      BY <3>1 DEF PartnersHeld, PartnersOps
    <3>2. CASE session'[c] = session[c]
      BY <1>2, <2>1, <3>2 DEF PayoutInv, PartnersHeld, ToPayOut
    <3>. QED  BY <2>1, <3>1, <3>2 DEF Unmoved
  <2>. QED  BY <1>1, <2>2, <2>3 DEF PayoutInv
<1>4. ASSUME NEW c \in Clients, PartnersStep(c), UNCHANGED billingVars
      PROVE  PayoutInv'
  <2>1. \A d \in Clients : d # c => ~InTransaction(d)'
    BY <1>4, PartnersTurns, OthersOut DEF PayoutInv, BillingInv, Serialized
  <2>2. \A d \in Clients : d # c => PartnersHeld(d)'
    BY <2>1 DEF InTransaction, PartnersHeld
  <2>3. CASE session[c] = Idle
    <3>1. UNCHANGED commissions /\ PartnersHeld(c)'
      BY <1>4, <2>3, PartnersBegin
    <3>2. Commissioned'
      BY <1>2, <3>1 DEF PayoutInv, Commissioned, CommissionRow
    <3>. QED  BY <1>1, <2>2, <3>1, <3>2 DEF PayoutInv
  <2>4. CASE session[c] # Idle
    BY <1>1, <1>4, <2>2, <2>4, PartnersCommit DEF PayoutInv
  <2>. QED  BY <2>3, <2>4
<1>. QED  BY <1>1, <1>3, <1>4

\* mark_payable, pay_partner: nothing payable or paid to a partner rests on an
\* invoice that is not paid, however payments, voids, credit notes, overdue
\* marks, approvals, payouts and clawbacks follow each other.
THEOREM PayoutsAreBacked == Serial => (Spec => []PayoutsBacked)
<1>. SUFFICES ASSUME Serial PROVE Spec => []PayoutsBacked
  OBVIOUS
<1>1. Init => PayoutInv
  BY PayoutInitial
<1>2. PayoutInv /\ [Next]_vars => PayoutInv'
  BY PayoutNext
<1>3. PayoutInv => PayoutsBacked
  BY DEF PayoutInv, Commissioned, CommissionRow, Backed, Owed, PayoutsBacked
<1>. QED  BY <1>1, <1>2, <1>3, PTL DEF Spec

\* _apply_payment, void_invoice, mark_overdue: an invoice that is paid is never
\* reopened, voided or marked overdue, and no invoice disappears.
THEOREM PaidForGood == Serial => (Spec => [][PaidStays]_vars)
<1>. SUFFICES ASSUME Serial PROVE Spec => [][PaidStays]_vars
  OBVIOUS
<1>1. Init => PayoutInv
  BY PayoutInitial
<1>2. PayoutInv /\ [Next]_vars => PayoutInv'
  BY PayoutNext
<1>3. PayoutInv /\ [Next]_vars => [PaidStays]_vars
  BY PayoutNext
<1>. QED  BY <1>1, <1>2, <1>3, PTL DEF Spec

-----------------------------------------------------------------------------
(***************************************************************************)
(* Billing: the books agree.                                               *)
(***************************************************************************)

Payments == [key : Receipts \cup Notices, invoice : Nat, amount : Nat]

NoticeStates == {"unseen", "refused", "unmatched", "processed"}

BooksTyped ==
    /\ payments \in Seq(Payments)
    /\ \A p \in DOMAIN payments : payments[p].invoice \in DOMAIN invoices
    /\ notices \in [Notices -> NoticeStates]

InvoiceAgrees(i) ==
    /\ invoices[i].paid = Received(i)
    /\ invoices[i].state = "PAID" <=>
         PaymentsOf(i) # {} /\ Received(i) >= invoices[i].total

\* BooksAgree says it by counting.
NoticeBooked(n) ==
    IF notices[n] = "processed" THEN \E p \in DOMAIN payments : Paying(n) = {p}
    ELSE Paying(n) = {}

\* What a transaction of billing read of the books and still holds: what was
\* received so far, that its key is new, and that its notice is unprocessed.
BooksHeld(c) ==
    LET t == session[c] IN
    /\ t.op = "invoice" => t.run \in DOMAIN runs
    /\ t.op \in {"void", "pay"} => invoices[t.id].state # "VOID"
    /\ t.op = "pay" => /\ t.key \in Receipts \cup Notices
                       /\ t.amount \in Amounts \cup {NoticeAmount}
                       /\ t.seen = Received(t.id)
                       /\ Paying(t.key) = {}
                       /\ t.key \in Notices => Unprocessed(t.key)
    /\ t.op \in {"refuse", "unmatched"} => t.notice \in Notices
    /\ t.op = "unmatched" => Unprocessed(t.notice)

BooksInv ==
    /\ BillingInv
    /\ BooksTyped
    /\ \A i \in DOMAIN invoices : InvoiceAgrees(i)
    /\ \A n \in Notices : NoticeBooked(n)
    /\ \A c \in Clients : BooksHeld(c)

LEMMA BooksInitial == Init => BooksInv
<1>. SUFFICES ASSUME Init PROVE BooksInv
  OBVIOUS
<1>1. payments = <<>> /\ notices = [n \in Notices |-> "unseen"]
  BY DEF Init, Fresh, BillingInit, Billed
<1>2. \A c \in Clients : BooksHeld(c)
  BY DEF Init, SessionsInit, BooksHeld, Idle
<1>3. \A i : PaymentsOf(i) = {} /\ Paying(i) = {} /\ Received(i) = 0
  BY <1>1, SumEmpty DEF PaymentsOf, Paying, Received
<1>4. \A i \in DOMAIN invoices : invoices[i].paid = 0 /\ invoices[i].state = "ISSUED"
  BY DEF Init, Fresh, BillingInit, Billed
<1>5. \A i \in DOMAIN invoices : InvoiceAgrees(i)
  BY <1>3, <1>4 DEF InvoiceAgrees
<1>6. BooksTyped
  BY <1>1 DEF BooksTyped, NoticeStates
<1>7. \A n \in Notices : NoticeBooked(n)
  BY <1>1, <1>3 DEF NoticeBooked
<1>. QED  BY <1>2, <1>5, <1>6, <1>7, BillingInitial DEF BooksInv

\* The rows of a table are finitely many, whatever they are picked by.
LEMMA RowsFinite ==
    ASSUME NEW Rows, NEW table \in Seq(Rows), NEW S \in SUBSET DOMAIN table
    PROVE  IsFiniteSet(S)
<1>1. DOMAIN table = 1..Len(table) /\ Len(table) \in Nat
  OBVIOUS
<1>2. IsFiniteSet(1..Len(table))
  BY <1>1, FS_Interval
<1>. QED  BY <1>1, <1>2, FS_Subset

\* A payment is counted where it belongs, once, and nowhere else.
LEMMA PaymentBooked ==
    ASSUME payments \in Seq(Payments), NEW row \in Payments,
           payments' = Append(payments, row)
    PROVE  /\ payments' \in Seq(Payments)
           /\ PaymentsOf(row.invoice)' # {}
           /\ Received(row.invoice)' = Received(row.invoice) + row.amount
           /\ \A i : i # row.invoice => /\ PaymentsOf(i)' = PaymentsOf(i)
                                        /\ Received(i)' = Received(i)
           /\ \A key : Paying(key)' = IF key = row.key THEN Paying(key) \cup {Len(payments) + 1}
                                      ELSE Paying(key)
<1>. DEFINE new == Len(payments) + 1
            f == [p \in DOMAIN payments |-> payments[p].amount]
            g == [p \in DOMAIN payments' |-> payments'[p].amount]
<1>1. /\ payments' \in Seq(Payments)
      /\ DOMAIN payments' = DOMAIN payments \cup {new}
      /\ new \notin DOMAIN payments
      /\ payments'[new] = row
      /\ \A p \in DOMAIN payments : payments'[p] = payments[p]
  BY RowAdded
<1>. HIDE DEF new
<1>2. PaymentsOf(row.invoice)' = PaymentsOf(row.invoice) \cup {new}
  BY <1>1 DEF PaymentsOf
<1>3. \A i : i # row.invoice => PaymentsOf(i)' = PaymentsOf(i)
  BY <1>1 DEF PaymentsOf
<1>4. \A key : Paying(key)' = IF key = row.key THEN Paying(key) \cup {new} ELSE Paying(key)
  BY <1>1 DEF Paying
<1>5. \A p \in DOMAIN payments : g[p] = f[p] /\ f[p] \in Int
  <2>1. \A p \in DOMAIN payments : payments[p] \in Payments
    OBVIOUS
  <2>2. \A p \in DOMAIN payments : payments[p].amount \in Nat
    BY <2>1 DEF Payments
  <2>. QED  BY <1>1, <2>2
<1>6. g[new] = row.amount /\ row.amount \in Int
  BY <1>1 DEF Payments
<1>7. \A i : IsFiniteSet(PaymentsOf(i)) /\ PaymentsOf(i) \subseteq DOMAIN payments
  BY RowsFinite DEF PaymentsOf
<1>8. \A i : Received(i) = SumFunctionOnSet(f, PaymentsOf(i))
  BY DEF Received
<1>9. \A i : Received(i)' = SumFunctionOnSet(g, PaymentsOf(i)')
  BY DEF Received
<1>. HIDE DEF f, g
<1>10. \A i : SumFunctionOnSet(f, PaymentsOf(i)) = SumFunctionOnSet(g, PaymentsOf(i))
  BY <1>5, <1>7, SumSame
<1>11. SumFunctionOnSet(g, PaymentsOf(row.invoice)')
       = SumFunctionOnSet(g, PaymentsOf(row.invoice)) + g[new]
  <2>1. new \notin PaymentsOf(row.invoice) /\ Whole(g, PaymentsOf(row.invoice)')
    BY <1>1, <1>2, <1>5, <1>6, <1>7 DEF Whole
  <2>. QED  BY <1>2, <1>7, <2>1, SumAdd
<1>12. Received(row.invoice)' = Received(row.invoice) + row.amount
  BY <1>6, <1>8, <1>9, <1>10, <1>11
<1>13. \A i : i # row.invoice => Received(i)' = Received(i)
  BY <1>3, <1>8, <1>9, <1>10
<1>. QED  BY <1>1, <1>2, <1>3, <1>4, <1>12, <1>13 DEF new

\* Where billing does nothing, a request of billing and the runs stay as they are.
LEMMA BooksRest ==
    ASSUME Serial, Serialized, [Next]_vars,
           ~ \E c \in Clients : BillingStep(c) /\ UNCHANGED ratingVars
    PROVE  /\ UNCHANGED billingVars
           /\ \A c \in Clients : session'[c].op \in BillingOps \ {"idle"} =>
                 session'[c] = session[c] /\ UNCHANGED runs
<1>1. CASE \E c \in Clients : /\ MeteringStep(c) \/ RatingStep(c) \/ PartnersStep(c)
                                 \/ LicensingStep(c)
                              /\ UNCHANGED billingVars
  <2>1. PICK c \in Clients : /\ MeteringStep(c) \/ RatingStep(c) \/ PartnersStep(c)
                                \/ LicensingStep(c)
                             /\ UNCHANGED billingVars
    BY <1>1
  <2>2. \/ Turns(c, MeteringOps) \/ Turns(c, RatingOps) \/ Turns(c, PartnersOps)
        \/ Turns(c, LicensingOps)
    BY <2>1, MeteringTurns, RatingTurns, PartnersTurns, LicensingTurns DEF Serialized
  <2>3. session'[c].op \notin BillingOps \ {"idle"}
    BY <2>2 DEF Turns, BillingOps, MeteringOps, RatingOps, PartnersOps, LicensingOps
  <2>4. \A d \in Clients : d # c => session'[d].op \notin BillingOps \ {"idle"}
    BY <2>2, OthersOut DEF InTransaction, BillingOps
  <2>. QED  BY <2>1, <2>3, <2>4
<1>2. CASE /\ UNCHANGED <<billingVars, runs>>
           /\ session' = session \/ \E c \in Clients : Breaks(c)
  <2>1. Unmoved(BillingOps \ {"idle"})
    BY <1>2, BreaksElsewhere DEF Serialized
  <2>. QED  BY <1>2, <2>1 DEF Unmoved
<1>. QED  BY <1>1, <1>2 DEF Next, vars, ratingVars

\* A request of billing that begins read the books as they are.
LEMMA BooksBegin ==
    ASSUME BooksInv, NEW c \in Clients, BillingStep(c), session[c] = Idle, UNCHANGED runs
    PROVE  UNCHANGED billingVars /\ BooksHeld(c)'
<1>. USE DEF BooksInv, BillingInv, Serialized, SessionFunction
<1>1. CASE \E r \in DOMAIN runs : IssueInvoice(c, r)
  BY <1>1 DEF IssueInvoice, Begins, BooksHeld
<1>2. CASE \E i \in DOMAIN invoices : VoidInvoice(c, i) \/ IssueCreditNote(c, i)
  BY <1>2 DEF VoidInvoice, IssueCreditNote, Begins, BooksHeld, billingVars
<1>3. CASE \E i \in DOMAIN invoices : \E key \in Receipts, amount \in Amounts :
              RecordPayment(c, key, i, amount)
  <2>1. PICK i \in DOMAIN invoices, key \in Receipts, amount \in Amounts :
           RecordPayment(c, key, i, amount)
    BY <1>3
  <2>2. /\ session'[c] = Payment(key, i, amount)
        /\ UNCHANGED billingVars
        /\ invoices[i].state # "VOID"
        /\ Paying(key) = {}
    BY <2>1 DEF RecordPayment, TakesPayment, Begins
  <2>3. Received(i)' = Received(i) /\ Paying(key)' = Paying(key)
    BY <2>2 DEF billingVars, Received, PaymentsOf, Paying
  <2>4. key \notin Notices
    BY BillingAssumption
  <2>. QED  BY <2>2, <2>3, <2>4 DEF Payment, BooksHeld, billingVars
<1>4. CASE \E due \in SUBSET MayBeOverdue : MarkOverdue(c, due)
  BY <1>4 DEF MarkOverdue, Begins, BooksHeld
<1>5. CASE \E n \in Notices : RefuseNotice(c, n) \/ IngestUnmatched(c, n)
  BY <1>5 DEF RefuseNotice, IngestUnmatched, Unprocessed, Begins, BooksHeld, billingVars
<1>6. CASE \E n \in Notices : IngestNotice(c, n)
  <2>1. PICK n \in Notices : IngestNotice(c, n)
    BY <1>6
  <2>2. /\ session'[c] = Payment(n, 1, NoticeAmount)
        /\ UNCHANGED billingVars
        /\ invoices[1].state # "VOID"
        /\ Unprocessed(n)
    BY <2>1 DEF IngestNotice, TakesPayment, Begins
  <2>3. Paying(n) = {}
    BY <2>2 DEF NoticeBooked, Unprocessed
  <2>4. Received(1)' = Received(1) /\ Paying(n)' = Paying(n) /\ Unprocessed(n)' = Unprocessed(n)
    BY <2>2 DEF billingVars, Received, PaymentsOf, Paying, Unprocessed
  <2>. QED  BY <2>2, <2>3, <2>4 DEF Payment, BooksHeld, billingVars
<1>. QED
  BY <1>1, <1>2, <1>3, <1>4, <1>5, <1>6
  DEF BillingStep, CommitInvoice, CommitVoid, CommitPayment, CommitCreditNote, CommitOverdue,
      CommitRefusal, CommitUnmatched, CommitNotice, Idle

\* A payment that commits is the row, and the sum, that its transaction holds.
LEMMA PaymentCommits ==
    ASSUME BooksInv, NEW c \in Clients, CommitPayment(c) \/ CommitNotice(c)
    PROVE  /\ BooksTyped'
           /\ \A i \in DOMAIN invoices' : InvoiceAgrees(i)'
           /\ \A n \in Notices : NoticeBooked(n)'
<1>1. PICK id \in DOMAIN invoices, key \in Receipts \cup Notices,
           amount \in Amounts \cup {NoticeAmount} :
        /\ id = session[c].id /\ key = session[c].key /\ amount = session[c].amount
        /\ session[c].seen = Received(id)
        /\ Paying(key) = {}
  BY DEF CommitPayment, CommitNotice, BooksInv, BillingInv, BillingHeld, BooksHeld
<1>. DEFINE row == [key |-> key, invoice |-> id, amount |-> amount]
            new == Len(payments) + 1
            sum == Received(id) + amount
<1>2. /\ payments' = Append(payments, row)
      /\ invoices' = [invoices EXCEPT ![id].paid = sum,
                                      ![id].state = IF sum >= invoices[id].total
                                                    THEN "PAID" ELSE "PARTIALLY_PAID"]
  BY <1>1 DEF CommitPayment, CommitNotice, PaidBy
<1>3. row \in Payments /\ row.key = key /\ row.invoice = id /\ row.amount = amount
  <2>1. amount \in Nat
    BY BillingAssumption
  <2>2. id \in Nat
    BY DEF BooksInv, BillingInv, Table
  <2>. QED  BY <2>1, <2>2 DEF Payments
<1>. HIDE DEF row
<1>4. payments \in Seq(Payments)
  BY DEF BooksInv, BooksTyped
<1>5. /\ payments' \in Seq(Payments)
      /\ PaymentsOf(id)' # {}
      /\ Received(id)' = sum
      /\ \A i : i # id => PaymentsOf(i)' = PaymentsOf(i) /\ Received(i)' = Received(i)
      /\ \A k : Paying(k)' = IF k = key THEN Paying(k) \cup {new} ELSE Paying(k)
  BY <1>2, <1>3, <1>4, PaymentBooked
<1>6. /\ DOMAIN payments' = DOMAIN payments \cup {new}
      /\ payments'[new] = row
      /\ \A p \in DOMAIN payments : payments'[p] = payments[p]
  BY <1>2, <1>3, <1>4, RowAdded
<1>. HIDE DEF new, sum
<1>7. DOMAIN invoices' = DOMAIN invoices /\ \A i \in DOMAIN invoices : i # id => invoices'[i] = invoices[i]
  <2>1. invoices = [i \in DOMAIN invoices |-> invoices[i]]
    BY DEF BooksInv, BillingInv, Table
  <2>. QED  BY <1>2, <2>1
<1>8. /\ invoices'[id].paid = sum
      /\ invoices'[id].total = invoices[id].total
      /\ invoices'[id].state = IF sum >= invoices[id].total THEN "PAID" ELSE "PARTIALLY_PAID"
  <2>1. DOMAIN invoices[id] = InvoiceFields
    BY DEF BooksInv, BillingInv
  <2>. QED  BY <1>2, <2>1 DEF InvoiceFields
<1>9. \A i \in DOMAIN invoices : InvoiceAgrees(i)'
  BY <1>5, <1>7, <1>8 DEF BooksInv, InvoiceAgrees
<1>10. \A p \in DOMAIN payments' : payments'[p].invoice \in DOMAIN invoices'
  BY <1>3, <1>6, <1>7 DEF BooksInv, BooksTyped
<1>11. \A n \in Notices : n # key => Paying(n)' = Paying(n)
  BY <1>5
<1>12. Paying(key)' = {new} /\ new \in DOMAIN payments'
  BY <1>1, <1>5, <1>6
<1>13. CASE CommitPayment(c)
  <2>1. UNCHANGED notices /\ key \notin Notices
    BY <1>1, <1>13, BillingAssumption DEF CommitPayment
  <2>2. \A n \in Notices : Paying(n)' = Paying(n)
    BY <1>11, <2>1
  <2>3. \A n \in Notices : NoticeBooked(n)'
    BY <1>6, <2>1, <2>2 DEF BooksInv, NoticeBooked
  <2>. QED  BY <1>5, <1>7, <1>9, <1>10, <2>1, <2>3 DEF BooksInv, BooksTyped
<1>14. CASE CommitNotice(c)
  <2>1. notices' = [notices EXCEPT ![key] = "processed"] /\ key \in Notices
    BY <1>1, <1>14 DEF CommitNotice
  <2>2. notices' \in [Notices -> NoticeStates] /\ notices'[key] = "processed"
        /\ \A n \in Notices : n # key => notices'[n] = notices[n]
    BY <2>1 DEF BooksInv, BooksTyped, NoticeStates
  <2>3. NoticeBooked(key)'
    BY <1>12, <2>2 DEF NoticeBooked
  <2>4. \A n \in Notices : n # key => NoticeBooked(n)'
    BY <1>6, <1>11, <2>2 DEF BooksInv, NoticeBooked
  <2>. QED  BY <1>5, <1>7, <1>9, <1>10, <2>2, <2>3, <2>4 DEF BooksTyped
<1>. QED  BY <1>13, <1>14

\* What an invoice was paid, and whether it is, does not change with the rest
\* of its row.
LEMMA InvoiceRewritten ==
    ASSUME BooksInv, UNCHANGED payments, DOMAIN invoices' = DOMAIN invoices,
           \A i \in DOMAIN invoices : /\ invoices'[i].paid = invoices[i].paid
                                      /\ invoices'[i].total = invoices[i].total
                                      /\ invoices'[i].state = "PAID" <=> invoices[i].state = "PAID"
    PROVE  /\ \A p \in DOMAIN payments' : payments'[p].invoice \in DOMAIN invoices'
           /\ \A i \in DOMAIN invoices' : InvoiceAgrees(i)'
<1>1. \A i : Received(i)' = Received(i) /\ PaymentsOf(i)' = PaymentsOf(i)
  BY DEF Received, PaymentsOf
<1>. QED  BY <1>1 DEF BooksInv, BooksTyped, InvoiceAgrees

LEMMA InvoicesCommit ==
    ASSUME BooksInv, NEW c \in Clients,
           CommitInvoice(c) \/ CommitVoid(c) \/ CommitCreditNote(c) \/ CommitOverdue(c)
    PROVE  /\ BooksTyped'
           /\ \A i \in DOMAIN invoices' : InvoiceAgrees(i)'
           /\ \A n \in Notices : NoticeBooked(n)'
<1>1. UNCHANGED <<payments, notices>>
  BY DEF CommitInvoice, CommitVoid, CommitCreditNote, CommitOverdue
<1>2. \A n \in Notices : NoticeBooked(n)'
  BY <1>1 DEF BooksInv, NoticeBooked, Paying
<1>3. SUFFICES /\ \A p \in DOMAIN payments' : payments'[p].invoice \in DOMAIN invoices'
               /\ \A i \in DOMAIN invoices' : InvoiceAgrees(i)'
  BY <1>1, <1>2 DEF BooksInv, BooksTyped
<1>4. Table(invoices) /\ invoices = [i \in DOMAIN invoices |-> invoices[i]]
      /\ \A i \in DOMAIN invoices : DOMAIN invoices[i] = InvoiceFields
  BY DEF BooksInv, BillingInv, Table
<1>5. CASE CommitInvoice(c)
  <2>1. PICK row, new : /\ invoices' = Append(invoices, row)
                        /\ row.paid = 0
                        /\ row.state = "ISSUED"
                        /\ new = Len(invoices) + 1
    BY <1>5 DEF CommitInvoice
  <2>2. /\ DOMAIN invoices' = DOMAIN invoices \cup {new}
        /\ new \notin DOMAIN invoices
        /\ invoices'[new] = row
        /\ \A i \in DOMAIN invoices : invoices'[i] = invoices[i]
    BY <1>4, <2>1, TableGrows
  <2>3. \A i : Received(i)' = Received(i) /\ PaymentsOf(i)' = PaymentsOf(i)
    BY <1>1 DEF Received, PaymentsOf
  <2>4. PaymentsOf(new) = {}
    BY <2>2 DEF BooksInv, BooksTyped, PaymentsOf
  <2>5. Received(new) = 0
    BY <2>4, SumEmpty DEF Received
  <2>6. InvoiceAgrees(new)'
    BY <2>1, <2>2, <2>3, <2>4, <2>5 DEF InvoiceAgrees
  <2>7. \A i \in DOMAIN invoices : InvoiceAgrees(i)'
    BY <2>2, <2>3 DEF BooksInv, InvoiceAgrees
  <2>8. \A p \in DOMAIN payments' : payments'[p].invoice \in DOMAIN invoices'
    BY <1>1, <2>2 DEF BooksInv, BooksTyped
  <2>. QED  BY <2>2, <2>6, <2>7, <2>8
<1>6. CASE CommitVoid(c) \/ CommitCreditNote(c)
  <2>1. PICK id \in DOMAIN invoices :
           \/ invoices[id].state # "PAID" /\ invoices' = [invoices EXCEPT ![id].state = "VOID"]
           \/ invoices' = [invoices EXCEPT ![id].credits = @ + 1]
    BY <1>6 DEF CommitVoid, CommitCreditNote, BooksInv, BillingInv, BillingHeld
  <2>2. DOMAIN invoices' = DOMAIN invoices /\ \A i \in DOMAIN invoices : i # id => invoices'[i] = invoices[i]
    BY <1>4, <2>1
  <2>3. /\ invoices'[id].paid = invoices[id].paid
        /\ invoices'[id].total = invoices[id].total
        /\ invoices'[id].state = "PAID" <=> invoices[id].state = "PAID"
    BY <1>4, <2>1 DEF InvoiceFields
  <2>. QED  BY <1>1, <2>2, <2>3, InvoiceRewritten
<1>7. CASE CommitOverdue(c)
  <2>1. PICK due \in SUBSET MayBeOverdue :
           invoices' = [i \in DOMAIN invoices |->
                          IF i \in due THEN [invoices[i] EXCEPT !.state = "OVERDUE"]
                          ELSE invoices[i]]
    BY <1>7 DEF CommitOverdue, BooksInv, BillingInv, BillingHeld
  <2>2. DOMAIN invoices' = DOMAIN invoices
    BY <2>1
  <2>3. ASSUME NEW i \in DOMAIN invoices
        PROVE  /\ invoices'[i].paid = invoices[i].paid
               /\ invoices'[i].total = invoices[i].total
               /\ invoices'[i].state = "PAID" <=> invoices[i].state = "PAID"
    <3>1. DOMAIN invoices[i] = InvoiceFields
      BY <1>4
    <3>2. CASE i \in due
      BY <2>1, <3>1, <3>2 DEF InvoiceFields, MayBeOverdue
    <3>3. CASE i \notin due
      BY <2>1, <3>3
    <3>. QED  BY <3>2, <3>3
  <2>. QED  BY <1>1, <2>2, <2>3, InvoiceRewritten
<1>. QED  BY <1>5, <1>6, <1>7

LEMMA NoticesCommit ==
    ASSUME BooksInv, NEW c \in Clients, CommitRefusal(c) \/ CommitUnmatched(c)
    PROVE  /\ BooksTyped'
           /\ \A i \in DOMAIN invoices' : InvoiceAgrees(i)'
           /\ \A n \in Notices : NoticeBooked(n)'
<1>1. UNCHANGED <<invoices, payments>>
  BY DEF CommitRefusal, CommitUnmatched
<1>2. \A i \in DOMAIN invoices' : InvoiceAgrees(i)'
  BY <1>1, InvoiceRewritten
<1>3. PICK id \in Notices, state \in NoticeStates \ {"processed"} :
        \/ notices' = notices
        \/ notices[id] # "processed" /\ notices' = [notices EXCEPT ![id] = state]
  <2>1. \A n \in Notices : notices = [notices EXCEPT ![n] = notices[n]]
    BY DEF BooksInv, BooksTyped
  <2>2. CASE CommitRefusal(c)
    <3>1. /\ session[c].notice \in Notices
          /\ notices' = [notices EXCEPT ![session[c].notice] = IF @ = "unseen" THEN "refused" ELSE @]
      BY <2>2 DEF CommitRefusal, BooksInv, BooksHeld
    <3>2. CASE notices[session[c].notice] = "unseen"
      BY <3>1, <3>2 DEF NoticeStates
    <3>3. CASE notices[session[c].notice] # "unseen"
      BY <2>1, <3>1, <3>3 DEF NoticeStates
    <3>. QED  BY <3>2, <3>3
  <2>3. CASE CommitUnmatched(c)
    BY <2>3 DEF CommitUnmatched, BooksInv, BooksHeld, Unprocessed, NoticeStates
  <2>. QED  BY <2>2, <2>3
<1>4. /\ notices' \in [Notices -> NoticeStates]
      /\ \A n \in Notices : notices'[n] = "processed" <=> notices[n] = "processed"
  BY <1>3 DEF BooksInv, BooksTyped
<1>. QED  BY <1>1, <1>2, <1>4 DEF BooksInv, BooksTyped, NoticeBooked, Paying

LEMMA BooksNext ==
    ASSUME Serial, BooksInv, [Next]_vars
    PROVE  BooksInv'
<1>1. BillingInv'
  BY BillingNext DEF BooksInv
<1>2. CASE ~ \E c \in Clients : BillingStep(c) /\ UNCHANGED ratingVars
  <2>1. /\ UNCHANGED <<invoices, payments, notices>>
        /\ \A c \in Clients : session'[c].op \in BillingOps \ {"idle"} =>
              session'[c] = session[c] /\ UNCHANGED runs
    BY <1>2, BooksRest DEF BooksInv, BillingInv, billingVars
  <2>2. \A i : /\ Received(i)' = Received(i) /\ PaymentsOf(i)' = PaymentsOf(i)
               /\ Paying(i)' = Paying(i) /\ Unprocessed(i)' = Unprocessed(i)
    BY <2>1 DEF Received, PaymentsOf, Paying, Unprocessed
  <2>3. ASSUME NEW c \in Clients PROVE BooksHeld(c)'
    <3>1. CASE session'[c].op \notin BillingOps \ {"idle"}
      BY <3>1 DEF BooksHeld, BillingOps
    <3>2. CASE session'[c] = session[c] /\ UNCHANGED runs
      BY <2>1, <2>2, <3>2 DEF BooksInv, BooksHeld
    <3>. QED  BY <2>1, <3>1, <3>2
  <2>4. BooksTyped' /\ \A i \in DOMAIN invoices' : InvoiceAgrees(i)'
    BY <2>1, <2>2 DEF BooksInv, BooksTyped, InvoiceAgrees
  <2>5. \A n \in Notices : NoticeBooked(n)'
    BY <2>1, <2>2 DEF BooksInv, NoticeBooked
  <2>. QED  BY <1>1, <2>3, <2>4, <2>5 DEF BooksInv
<1>3. ASSUME NEW c \in Clients, BillingStep(c), UNCHANGED ratingVars
      PROVE  BooksInv'
  <2>1. \A d \in Clients : d # c => BooksHeld(d)'
    BY <1>3, BillingTurns, OthersOut DEF BooksInv, BillingInv, Serialized, InTransaction, BooksHeld
  <2>2. CASE session[c] = Idle
    <3>1. UNCHANGED <<invoices, payments, notices>> /\ BooksHeld(c)'
      BY <1>3, <2>2, BooksBegin DEF billingVars, ratingVars
    <3>2. \A i \in DOMAIN invoices' : InvoiceAgrees(i)'
      BY <3>1, InvoiceRewritten
    <3>. QED  BY <1>1, <2>1, <3>1, <3>2 DEF BooksInv, BooksTyped, NoticeBooked, Paying
  <2>3. CASE session[c] # Idle
    <3>1. \/ CommitInvoice(c) \/ CommitVoid(c) \/ CommitPayment(c) \/ CommitCreditNote(c)
          \/ CommitOverdue(c) \/ CommitRefusal(c) \/ CommitUnmatched(c) \/ CommitNotice(c)
      BY <1>3, <2>3 DEF BillingStep, IssueInvoice, VoidInvoice, IssueCreditNote, RecordPayment,
         MarkOverdue, RefuseNotice, IngestUnmatched, IngestNotice, Begins
    <3>2. session'[c] = Idle
      BY <3>1 DEF CommitInvoice, CommitVoid, CommitPayment, CommitCreditNote, CommitOverdue,
         CommitRefusal, CommitUnmatched, CommitNotice, Commits, BooksInv, BillingInv,
         Serialized, SessionFunction
    <3>3. BooksHeld(c)'
      BY <3>2 DEF BooksHeld, Idle
    <3>4. /\ BooksTyped'
          /\ \A i \in DOMAIN invoices' : InvoiceAgrees(i)'
          /\ \A n \in Notices : NoticeBooked(n)'
      BY <3>1, PaymentCommits, InvoicesCommit, NoticesCommit
    <3>. QED  BY <1>1, <2>1, <3>3, <3>4 DEF BooksInv
  <2>. QED  BY <2>2, <2>3
<1>. QED  BY <1>2, <1>3

\* _apply_payment, ingest_webhook: what an invoice says it was paid is what its
\* payments come to, it is paid exactly when they cover it, and every notice of
\* the provider is booked once, for any number of invoices, payments, notices and
\* deliveries.
THEOREM BooksAlwaysAgree == Serial => (Spec => []BooksAgree)
<1>. SUFFICES ASSUME Serial PROVE Spec => []BooksAgree
  OBVIOUS
<1>1. Init => BooksInv
  BY BooksInitial
<1>2. BooksInv /\ [Next]_vars => BooksInv'
  BY BooksNext
<1>3. BooksInv => BooksAgree
  <2>1. ASSUME NEW n \in Notices, NoticeBooked(n)
        PROVE  Cardinality(Paying(n)) = IF notices[n] = "processed" THEN 1 ELSE 0
    BY <2>1, FS_Singleton, FS_EmptySet DEF NoticeBooked
  <2>. QED  BY <2>1 DEF BooksInv, InvoiceAgrees, BooksAgree
<1>. QED  BY <1>1, <1>2, <1>3, PTL DEF Spec

-----------------------------------------------------------------------------
(***************************************************************************)
(* Billing keeps the promises of Receivables: each commit is one of its    *)
(* steps, or changes no account. That a request of billing found its       *)
(* invoice neither PAID nor VOID, its key new, and read what was received, *)
(* is what BooksHeld keeps until it commits.                               *)
(***************************************************************************)

Account(invoice) ==
    [owed |-> invoice.total, received |-> invoice.paid, status |-> Status(invoice.state)]
Accounts == [i \in DOMAIN invoices |-> Account(invoices[i])]
Booked == {payments[p].key : p \in DOMAIN payments}

LEMMA LedgerInitial == Init => Ledger!Init
<1>. SUFFICES ASSUME Init PROVE Ledger!Init
  OBVIOUS
<1>1. payments = <<>>
  BY DEF Init, Fresh, BillingInit, Billed
<1>2. \A i \in DOMAIN invoices : invoices[i].paid = 0 /\ invoices[i].state = "ISSUED"
  BY DEF Init, Fresh, BillingInit, Billed
<1>. QED  BY <1>1, <1>2 DEF Ledger!Init, Ledger!Opened, Status

\* One more than a sequence that it begins with is what is appended to it.
LEMMA AppendIs ==
    ASSUME NEW n \in Nat, NEW s, s = [i \in 1..n |-> s[i]],
           NEW longer, longer = [i \in 1..(n + 1) |-> longer[i]],
           \A i \in 1..n : longer[i] = s[i]
    PROVE  longer = Append(s, longer[n + 1])
<1>1. s \in Seq({s[i] : i \in 1..n}) /\ Len(s) = n
  OBVIOUS
<1>. DEFINE t == Append(s, longer[n + 1])
            Values == {longer[i] : i \in 1..(n + 1)}
<1>2. s \in Seq(Values) /\ longer[n + 1] \in Values
  <2>1. ASSUME NEW i \in 1..n PROVE s[i] \in Values
    <3>1. longer[i] = s[i]
      OBVIOUS
    <3>2. i \in 1..(n + 1)
      OBVIOUS
    <3>. QED  BY <3>1, <3>2
  <2>2. longer[n + 1] \in Values
    OBVIOUS
  <2>. HIDE DEF Values
  <2>3. s \in Seq(Values)
    <3>1. s \in [1..n -> Values]
      BY <2>1
    <3>. QED  BY <3>1
  <2>. QED  BY <2>2, <2>3
<1>3. t \in Seq(Values) /\ DOMAIN t = 1..n \cup {n + 1} /\ t[n + 1] = longer[n + 1]
      /\ \A i \in 1..n : t[i] = s[i]
  <2>. HIDE DEF Values
  <2>. QED  BY <1>1, <1>2, RowAdded
<1>4. t = [i \in DOMAIN t |-> t[i]]
  BY <1>3
<1>5. DOMAIN t = 1..(n + 1)
  BY <1>3
<1>. HIDE DEF t
<1>6. longer = t
  <2>1. ASSUME NEW i \in 1..(n + 1) PROVE longer[i] = t[i]
    <3>1. i \in 1..n \/ i = n + 1
      OBVIOUS
    <3>. QED  BY <1>3, <3>1
  <2>2. t = [i \in 1..(n + 1) |-> t[i]]
    BY <1>4, <1>5
  <2>. QED  BY <2>1, <2>2
<1>. QED  BY <1>6 DEF t

\* A new invoice opens an account for what its run came to.
LEMMA InvoiceOpens ==
    ASSUME BooksInv, RatingTyped, NEW c \in Clients, CommitInvoice(c)
    PROVE  Ledger!Open
<1>1. PICK row : /\ invoices' = Append(invoices, row)
                 /\ UNCHANGED payments
                 /\ row.total \in Nat /\ row.paid = 0 /\ row.state = "ISSUED"
  <2>1. session[c].run \in DOMAIN runs
    BY DEF CommitInvoice, BooksInv, BooksHeld
  <2>2. runs[session[c].run] \in Runs
    BY <2>1 DEF RatingTyped
  <2>3. runs[session[c].run].total \in Nat
    BY <2>2 DEF Runs
  <2>. QED  BY <2>3 DEF CommitInvoice
<1>2. PICK new : new = Len(invoices) + 1
  OBVIOUS
<1>3. /\ Table(invoices) /\ Table(invoices')
      /\ DOMAIN invoices' = DOMAIN invoices \cup {new}
      /\ invoices'[new] = row
      /\ \A i \in DOMAIN invoices : invoices'[i] = invoices[i]
  BY <1>1, <1>2, TableGrows DEF BooksInv, BillingInv
<1>4. DOMAIN invoices = 1..Len(invoices) /\ DOMAIN invoices' = 1..new /\ Len(invoices) \in Nat
  BY <1>1, <1>2, <1>3 DEF Table
<1>5. Accounts = [i \in 1..Len(invoices) |-> Account(invoices[i])]
      /\ Accounts' = [i \in 1..new |-> Account(invoices'[i])]
  BY <1>4 DEF Accounts, Account
<1>6. Len(Accounts) = Len(invoices) /\ Len(Accounts') = new
  BY <1>2, <1>4, <1>5
<1>7. Account(row) = Ledger!Opened(row.total)
  BY <1>1 DEF Account, Status, Ledger!Opened
<1>8. Accounts'[new] = Account(row)
  BY <1>2, <1>3, <1>4, <1>5
<1>9. Accounts' = Append(Accounts, Account(row))
  BY <1>2, <1>3, <1>4, <1>5, <1>6, <1>8, AppendIs
<1>10. /\ Ledger!Last(Accounts') = Account(row) /\ Account(row).owed = row.total
       /\ UNCHANGED Booked
  BY <1>1, <1>6, <1>8 DEF Ledger!Last, Account, Booked
<1>. QED
  BY <1>1, <1>2, <1>6, <1>7, <1>9, <1>10 DEF Ledger!Open, Accounts, Account, Booked

\* A payment is received on the account of its invoice.
LEMMA PaymentReceived ==
    ASSUME BooksInv, NEW c \in Clients, CommitPayment(c) \/ CommitNotice(c)
    PROVE  Ledger!Next
<1>1. PICK id \in DOMAIN invoices, key \in Receipts \cup Notices,
           amount \in Amounts \cup {NoticeAmount} :
        /\ id = session[c].id /\ key = session[c].key /\ amount = session[c].amount
        /\ session[c].seen = invoices[id].paid
        /\ Paying(key) = {}
        /\ invoices[id].state \notin {"PAID", "VOID"}
  BY DEF CommitPayment, CommitNotice, BooksInv, BillingInv, BillingHeld, BooksHeld, InvoiceAgrees
<1>. DEFINE row == [key |-> key, invoice |-> id, amount |-> amount]
            sum == invoices[id].paid + amount
<1>2. /\ payments' = Append(payments, row)
      /\ invoices' = [invoices EXCEPT ![id].paid = sum,
                                      ![id].state = IF sum >= invoices[id].total
                                                    THEN "PAID" ELSE "PARTIALLY_PAID"]
  BY <1>1 DEF CommitPayment, CommitNotice, PaidBy
<1>3. key \notin Booked /\ Booked' = Booked \cup {key}
  <2>1. amount \in Nat /\ id \in Nat
    BY BillingAssumption DEF BooksInv, BillingInv, Table
  <2>2. row \in Payments /\ row.key = key
    BY <2>1 DEF Payments
  <2>. HIDE DEF row
  <2>3. PICK new : /\ DOMAIN payments' = DOMAIN payments \cup {new}
                   /\ payments'[new] = row
                   /\ \A p \in DOMAIN payments : payments'[p] = payments[p]
    BY <1>2, <2>2, RowAdded DEF BooksInv, BooksTyped
  <2>. QED  BY <1>1, <2>2, <2>3 DEF Booked, Paying
<1>4. /\ Accounts[id].status = "open" /\ Accounts[id].received = invoices[id].paid
      /\ Accounts[id].owed = invoices[id].total
  BY <1>1 DEF Accounts, Account, Status
<1>5. DOMAIN invoices[id] = InvoiceFields /\ invoices = [i \in DOMAIN invoices |-> invoices[i]]
  BY DEF BooksInv, BillingInv, Table
<1>. HIDE DEF sum
<1>6. /\ DOMAIN invoices' = DOMAIN invoices
      /\ invoices'[id].paid = sum
      /\ invoices'[id].total = invoices[id].total
      /\ invoices'[id].state = IF sum >= invoices[id].total THEN "PAID" ELSE "PARTIALLY_PAID"
      /\ \A i \in DOMAIN invoices : i # id => invoices'[i] = invoices[i]
  BY <1>2, <1>5 DEF InvoiceFields
<1>7. Accounts' = [Accounts EXCEPT
                     ![id].received = sum,
                     ![id].status = IF sum >= Accounts[id].owed THEN "settled" ELSE "open"]
  <2>. DEFINE status == IF sum >= invoices[id].total THEN "settled" ELSE "open"
  <2>1. DOMAIN Accounts = DOMAIN invoices /\ DOMAIN Accounts' = DOMAIN invoices
    BY <1>6 DEF Accounts
  <2>2. Status(invoices'[id].state) = status
    BY <1>6 DEF Status
  <2>3. Accounts'[id] = [owed |-> invoices[id].total, received |-> sum, status |-> status]
    BY <1>6, <2>2 DEF Accounts, Account
  <2>4. Accounts[id] = [owed |-> invoices[id].total, received |-> invoices[id].paid,
                        status |-> "open"]
    BY <1>4 DEF Accounts, Account
  <2>5. \A i \in DOMAIN invoices : i # id => Accounts'[i] = Accounts[i]
    BY <1>6 DEF Accounts, Account
  <2>6. Accounts = [i \in DOMAIN invoices |-> Accounts[i]]
    BY DEF Accounts
  <2>7. Accounts' = [i \in DOMAIN invoices |-> Accounts'[i]]
    BY <1>6 DEF Accounts
  <2>8. Accounts[id].owed = invoices[id].total
    BY <1>4
  <2>. HIDE DEF status
  <2>9. [Accounts[id] EXCEPT !.received = sum, !.status = status]
           = [owed |-> invoices[id].total, received |-> sum, status |-> status]
    <3>1. PICK old, owed, paid : old = Accounts[id] /\ owed = invoices[id].total
                                                    /\ paid = invoices[id].paid
      OBVIOUS
    <3>2. old = [owed |-> owed, received |-> paid, status |-> "open"]
      BY <2>4, <3>1
    <3>3. PICK half : half = [old EXCEPT !.received = sum]
      OBVIOUS
    <3>4. half = [owed |-> owed, received |-> sum, status |-> "open"]
      BY <3>2, <3>3
    <3>5. [half EXCEPT !.status = status] = [owed |-> owed, received |-> sum, status |-> status]
      BY <3>4
    <3>6. [old EXCEPT !.received = sum, !.status = status] = [half EXCEPT !.status = status]
      BY <3>3
    <3>. QED  BY <3>1, <3>5, <3>6
  <2>10. Accounts' = [Accounts EXCEPT ![id] = Accounts'[id]]
    BY <2>1, <2>5, <2>6, <2>7
  <2>. QED  BY <2>1, <2>3, <2>8, <2>9, <2>10 DEF status
<1>8. Ledger!Receive(id, key, amount)
  BY <1>3, <1>4, <1>7 DEF Ledger!Receive, Accounts, Account, Booked, sum
<1>. QED  BY <1>1, <1>8 DEF Ledger!Next

\* An invoice that is voided cancels its account.
LEMMA VoidCancels ==
    ASSUME BooksInv, NEW c \in Clients, CommitVoid(c)
    PROVE  Ledger!Next
<1>1. PICK id \in DOMAIN invoices :
        /\ invoices[id].state \notin {"PAID", "VOID"}
        /\ invoices' = [invoices EXCEPT ![id].state = "VOID"]
        /\ UNCHANGED payments
  BY DEF CommitVoid, BooksInv, BillingInv, BillingHeld, BooksHeld
<1>2. DOMAIN invoices[id] = InvoiceFields /\ invoices = [i \in DOMAIN invoices |-> invoices[i]]
  BY DEF BooksInv, BillingInv, Table
<1>3. /\ DOMAIN invoices' = DOMAIN invoices
      /\ invoices'[id].paid = invoices[id].paid
      /\ invoices'[id].total = invoices[id].total
      /\ invoices'[id].state = "VOID"
      /\ \A i \in DOMAIN invoices : i # id => invoices'[i] = invoices[i]
  BY <1>1, <1>2 DEF InvoiceFields
<1>4. Accounts[id].status = "open"
  BY <1>1 DEF Accounts, Account, Status
<1>5. Accounts' = [Accounts EXCEPT ![id].status = "cancelled"]
  BY <1>3 DEF Accounts, Account, Status
<1>6. Booked' = Booked
  BY <1>1 DEF Booked
<1>7. Ledger!Cancel(id)
  BY <1>4, <1>5, <1>6 DEF Ledger!Cancel, Accounts, Account, Booked
<1>. QED  BY <1>7 DEF Ledger!Next

\* A credit note and overdue marking change no account.
LEMMA AccountsRest ==
    ASSUME BooksInv, NEW c \in Clients, CommitCreditNote(c) \/ CommitOverdue(c)
    PROVE  UNCHANGED Ledger!vars
<1>1. Booked' = Booked
  BY DEF CommitCreditNote, CommitOverdue, Booked
<1>2. invoices = [i \in DOMAIN invoices |-> invoices[i]]
      /\ \A i \in DOMAIN invoices : DOMAIN invoices[i] = InvoiceFields
  BY DEF BooksInv, BillingInv, Table
<1>3. /\ DOMAIN invoices' = DOMAIN invoices
      /\ \A i \in DOMAIN invoices : Account(invoices'[i]) = Account(invoices[i])
  <2>1. CASE CommitCreditNote(c)
    <3>1. PICK id, credits :
             /\ id \in DOMAIN invoices
             /\ invoices' = [invoices EXCEPT ![id].credits = credits]
      BY <2>1 DEF CommitCreditNote, BooksInv, BillingInv, BillingHeld
    <3>. QED  BY <1>2, <3>1 DEF InvoiceFields, Account
  <2>2. CASE CommitOverdue(c)
    <3>1. PICK due \in SUBSET MayBeOverdue :
             invoices' = [i \in DOMAIN invoices |->
                            IF i \in due THEN [invoices[i] EXCEPT !.state = "OVERDUE"]
                            ELSE invoices[i]]
      BY <2>2 DEF CommitOverdue, BooksInv, BillingInv, BillingHeld
    <3>2. ASSUME NEW i \in due PROVE Account(invoices'[i]) = Account(invoices[i])
      BY <1>2, <3>1 DEF MayBeOverdue, InvoiceFields, Account, Status
    <3>. QED  BY <3>1, <3>2
  <2>. QED  BY <2>1, <2>2
<1>4. Accounts' = Accounts
  BY <1>3 DEF Accounts
<1>. QED  BY <1>1, <1>4 DEF Ledger!vars, Accounts, Account, Booked

LEMMA LedgerNext ==
    ASSUME Serial, BooksInv, RatingTyped, [Next]_vars
    PROVE  [Ledger!Next]_(Ledger!vars)
<1>1. UNCHANGED billingVars => UNCHANGED Ledger!vars
  BY DEF billingVars, Ledger!vars
<1>2. CASE ~ \E c \in Clients : BillingStep(c) /\ UNCHANGED ratingVars
  BY <1>1, <1>2, BooksRest DEF BooksInv, BillingInv
<1>3. ASSUME NEW c \in Clients, BillingStep(c), UNCHANGED ratingVars
      PROVE  [Ledger!Next]_(Ledger!vars)
  <2>1. CASE session[c] = Idle
    BY <1>1, <1>3, <2>1, BooksBegin DEF ratingVars
  <2>2. CASE session[c] # Idle
    <3>1. \/ CommitInvoice(c) \/ CommitVoid(c) \/ CommitPayment(c) \/ CommitCreditNote(c)
          \/ CommitOverdue(c) \/ CommitRefusal(c) \/ CommitUnmatched(c) \/ CommitNotice(c)
      BY <1>3, <2>2 DEF BillingStep, IssueInvoice, VoidInvoice, IssueCreditNote, RecordPayment,
         MarkOverdue, RefuseNotice, IngestUnmatched, IngestNotice, Begins
    <3>2. CASE CommitInvoice(c)
      BY <3>2, InvoiceOpens DEF Ledger!Next
    <3>3. CASE CommitRefusal(c) \/ CommitUnmatched(c)
      BY <3>3 DEF CommitRefusal, CommitUnmatched, Ledger!vars
    <3>. QED  BY <3>1, <3>2, <3>3, PaymentReceived, VoidCancels, AccountsRest
  <2>. QED  BY <2>1, <2>2
<1>. QED  BY <1>2, <1>3

\* _apply_payment, issue_invoice, void_invoice: billing implements Receivables.
\* An invoice that is paid or void takes no more money and is never reopened,
\* it is settled by the receipt that brings it to its total and by nothing
\* else, and no receipt is taken twice.
THEOREM BillingImplementsReceivables == Serial => (Spec => ImplementsReceivables)
<1>. SUFFICES ASSUME Serial PROVE Spec => ImplementsReceivables
  OBVIOUS
<1>. DEFINE Inv == RatingInv /\ BooksInv
<1>1. Init => Inv
  BY RatingInitial, BooksInitial
<1>2. Inv /\ [Next]_vars => Inv'
  BY RatingNext, BooksNext
<1>3. Inv /\ [Next]_vars => [Ledger!Next]_(Ledger!vars)
  BY LedgerNext DEF RatingInv
<1>4. Init => Ledger!Init
  BY LedgerInitial
<1>. HIDE DEF Inv
<1>. QED  BY <1>1, <1>2, <1>3, <1>4, PTL DEF Spec, ImplementsReceivables, Ledger!Spec

-----------------------------------------------------------------------------
(***************************************************************************)
(* Partners: the statement reconciles with the payouts.                    *)
(***************************************************************************)

Unpaid == {"ACCRUED", "APPROVED_C"}
Closed == {"REVERSED", "CLAWED_BACK"}

\* A compensating row is closed from the start, and no other row is one.
StatementRow(m) == m.amount \in Int /\ (m.of # 0 => m.state \in Closed)

\* What a transaction of partners is about to approve, to make payable or to
\* reverse was not paid, and still is not.
StatementHeld(c) ==
    LET t == session[c] IN
    t.op = "advance" \/ (t.op = "compensate" /\ t.to = "REVERSED") =>
      commissions[t.id].state \in Unpaid

StatementInv ==
    /\ PayoutInv
    /\ \A m \in DOMAIN commissions : StatementRow(commissions[m])
    /\ Table(batches)
    /\ \A b \in DOMAIN batches : batches[b].total \in Int
    /\ \A c \in Clients : StatementHeld(c)
    /\ StatementReconciles

\* The rows that net_paid and the clawbacks of the statement add up.
PaidRows == {m \in DOMAIN commissions : commissions[m].state \in {"PAID", "CLAWED_BACK"}}
ClawedRows == {m \in DOMAIN commissions :
                 commissions[m].state = "CLAWED_BACK" /\ commissions[m].of = 0}

LEMMA StatementSums ==
    NetPaid = SumOfCommissions(PaidRows) /\ ClawedBack = SumOfCommissions(ClawedRows)
  BY DEF NetPaid, ClawedBack, PaidRows, ClawedRows

LEMMA StatementInitial == Init => StatementInv
<1>. SUFFICES ASSUME Init PROVE StatementInv
  OBVIOUS
<1>1. commissions = <<>> /\ batches = <<>> /\ session = [c \in Clients |-> Idle]
  BY DEF Init, SessionsInit, Fresh, PartnersInit, Billed
<1>2. \A c \in Clients : StatementHeld(c)
  BY <1>1 DEF StatementHeld, Idle
<1>3. PaidRows = {} /\ ClawedRows = {}
  BY <1>1 DEF PaidRows, ClawedRows
<1>4. NetPaid = 0 /\ ClawedBack = 0
  BY <1>3, StatementSums, SumEmpty DEF SumOfCommissions
<1>5. PaidOut = 0
  <2>1. DOMAIN [b \in DOMAIN batches |-> batches[b].total] = {}
    BY <1>1
  <2>. QED  BY <2>1, SumEmpty DEF PaidOut, SumFunction
<1>6. StatementReconciles
  BY <1>4, <1>5 DEF StatementReconciles
<1>7. Table(batches)
  BY <1>1 DEF Table, RowsOf
<1>. QED  BY <1>1, <1>2, <1>6, <1>7, PayoutInitial DEF StatementInv

\* What any rows come to is a whole number.
LEMMA CommissionsWhole ==
    ASSUME StatementInv, NEW S \in SUBSET DOMAIN commissions
    PROVE  IsFiniteSet(S) /\ SumOfCommissions(S) \in Int
<1>1. IsFiniteSet(S)
  BY RowsFinite DEF StatementInv, PayoutInv, Commissioned, Table
<1>2. \A m \in S : [n \in DOMAIN commissions |-> commissions[n].amount][m] \in Int
  BY DEF StatementInv, StatementRow
<1>. QED  BY <1>1, <1>2, SumType DEF SumOfCommissions

\* Rows whose amounts stay come to the same.
LEMMA AmountsKept ==
    ASSUME StatementInv, NEW S \in SUBSET DOMAIN commissions,
           \A m \in S : /\ m \in DOMAIN commissions'
                        /\ commissions'[m].amount = commissions[m].amount
    PROVE  SumFunctionOnSet([m \in DOMAIN commissions' |-> commissions'[m].amount], S)
           = SumOfCommissions(S)
<1>. DEFINE f == [m \in DOMAIN commissions |-> commissions[m].amount]
            g == [m \in DOMAIN commissions' |-> commissions'[m].amount]
<1>1. IsFiniteSet(S) /\ \A m \in S : f[m] = g[m]
  BY CommissionsWhole
<1>2. SumOfCommissions(S) = SumFunctionOnSet(f, S)
  BY DEF SumOfCommissions
<1>. HIDE DEF f, g
<1>3. SumFunctionOnSet(f, S) = SumFunctionOnSet(g, S)
  BY <1>1, SumSame
<1>. QED  BY <1>2, <1>3 DEF g

\* A step after which the same rows are paid, and the same clawed back, moves
\* nothing on the statement.
LEMMA StatementKept ==
    ASSUME StatementInv, UNCHANGED batches, PaidRows' = PaidRows, ClawedRows' = ClawedRows,
           \A m \in PaidRows : commissions'[m].amount = commissions[m].amount
    PROVE  StatementReconciles'
<1>1. PICK paid, clawed : paid = PaidRows /\ clawed = ClawedRows
  OBVIOUS
<1>2. /\ paid \in SUBSET DOMAIN commissions /\ paid \subseteq DOMAIN commissions'
      /\ clawed \subseteq paid
      /\ paid = PaidRows' /\ clawed = ClawedRows'
  BY <1>1 DEF PaidRows, ClawedRows
<1>3. NetPaid = SumOfCommissions(paid) /\ ClawedBack = SumOfCommissions(clawed)
  BY <1>1, StatementSums
<1>4. NetPaid' = SumOfCommissions(PaidRows)' /\ ClawedBack' = SumOfCommissions(ClawedRows)'
  BY DEF NetPaid, ClawedBack, PaidRows, ClawedRows
<1>5. SumOfCommissions(PaidRows)' = SumOfCommissions(paid)
  BY <1>1, <1>2, AmountsKept DEF SumOfCommissions
<1>6. SumOfCommissions(ClawedRows)' = SumOfCommissions(clawed)
  BY <1>1, <1>2, AmountsKept DEF SumOfCommissions
<1>7. PaidOut' = PaidOut
  BY DEF PaidOut
<1>. QED
  BY <1>3, <1>4, <1>5, <1>6, <1>7 DEF StatementInv, StatementReconciles

StatementTyped ==
    /\ \A m \in DOMAIN commissions : StatementRow(commissions[m])
    /\ Table(batches)
    /\ \A b \in DOMAIN batches : batches[b].total \in Int

\* A payout pays out what it says, and nothing it pays was paid before.
LEMMA PayoutReconciles ==
    ASSUME StatementInv, NEW c \in Clients, CommitPayout(c)
    PROVE  StatementTyped' /\ StatementReconciles'
<1>1. PICK rows, total, new : /\ rows = session[c].rows
                             /\ total = SumOfCommissions(rows)
                             /\ new = Len(batches) + 1
  OBVIOUS
<1>2. rows \subseteq ToPayOut
  BY <1>1 DEF CommitPayout, StatementInv, PayoutInv, PartnersHeld
<1>3. /\ batches' = Append(batches, [rows |-> rows, total |-> total])
      /\ commissions' = [m \in DOMAIN commissions |->
                            IF m \in rows
                            THEN [commissions[m] EXCEPT !.state = "PAID", !.batch = new]
                            ELSE commissions[m]]
  BY <1>1 DEF CommitPayout
<1>4. /\ Table(batches') /\ DOMAIN batches' = DOMAIN batches \cup {new}
      /\ new \notin DOMAIN batches
      /\ batches'[new].total = total
      /\ \A b \in DOMAIN batches : batches'[b] = batches[b]
  <2>1. PICK batch : batch = [rows |-> rows, total |-> total]
    OBVIOUS
  <2>2. batches' = Append(batches, batch) /\ batch.total = total
    BY <1>3, <2>1
  <2>. QED  BY <1>1, <2>2, TableGrows DEF StatementInv
<1>5. DOMAIN commissions' = DOMAIN commissions
  BY <1>3
<1>6. \A m \in rows : /\ commissions[m].state = "PAYABLE"
                      /\ commissions'[m].state = "PAID"
                      /\ commissions'[m].amount = commissions[m].amount
                      /\ commissions'[m].of = commissions[m].of
  <2>1. \A m \in DOMAIN commissions : DOMAIN commissions[m] = CommissionFields
    BY DEF StatementInv, PayoutInv, Commissioned, CommissionRow
  <2>. QED  BY <1>2, <1>3, <2>1 DEF ToPayOut, CommissionFields
<1>7. \A m \in DOMAIN commissions : m \notin rows => commissions'[m] = commissions[m]
  BY <1>3
<1>8. rows \in SUBSET DOMAIN commissions /\ total \in Int /\ IsFiniteSet(rows)
  BY <1>1, <1>2, CommissionsWhole DEF ToPayOut
<1>9. \A m \in DOMAIN commissions : StatementRow(commissions'[m])
  BY <1>6, <1>7 DEF StatementInv, StatementRow, Closed
<1>10. PICK paid, clawed : paid = PaidRows /\ clawed = ClawedRows
  OBVIOUS
<1>11. PaidRows' = paid \cup rows /\ paid \cap rows = {} /\ ClawedRows' = clawed
  BY <1>5, <1>6, <1>7, <1>8, <1>10 DEF PaidRows, ClawedRows
<1>12. /\ paid \in SUBSET DOMAIN commissions /\ clawed \in SUBSET DOMAIN commissions
       /\ paid \cup rows \in SUBSET DOMAIN commissions
  BY <1>8, <1>10 DEF PaidRows, ClawedRows
<1>13. NetPaid' = SumOfCommissions(paid \cup rows)
  <2>1. NetPaid' = SumOfCommissions(PaidRows)'
    BY DEF NetPaid, PaidRows
  <2>2. \A m \in paid \cup rows : /\ m \in DOMAIN commissions'
                                 /\ commissions'[m].amount = commissions[m].amount
    BY <1>5, <1>6, <1>7, <1>12
  <2>. QED  BY <1>11, <1>12, <2>1, <2>2, AmountsKept DEF SumOfCommissions
<1>14. ClawedBack' = SumOfCommissions(clawed)
  <2>1. ClawedBack' = SumOfCommissions(ClawedRows)'
    BY DEF ClawedBack, ClawedRows
  <2>2. \A m \in clawed : /\ m \in DOMAIN commissions'
                          /\ commissions'[m].amount = commissions[m].amount
    BY <1>5, <1>6, <1>7, <1>12
  <2>. QED  BY <1>11, <1>12, <2>1, <2>2, AmountsKept DEF SumOfCommissions
<1>15. SumOfCommissions(paid \cup rows) = SumOfCommissions(paid) + total
  <2>1. IsFiniteSet(paid)
    BY <1>12, CommissionsWhole
  <2>2. \A m \in paid \cup rows :
           [n \in DOMAIN commissions |-> commissions[n].amount][m] \in Int
    BY <1>12 DEF StatementInv, StatementRow
  <2>. QED  BY <1>1, <1>8, <1>11, <2>1, <2>2, SumUnion DEF SumOfCommissions, Whole
<1>16. PaidOut' = PaidOut + total /\ PaidOut \in Int
  <2>. DEFINE f == [b \in DOMAIN batches |-> batches[b].total]
              g == [b \in DOMAIN batches' |-> batches'[b].total]
  <2>1. DOMAIN f = DOMAIN batches /\ DOMAIN g = DOMAIN batches'
    OBVIOUS
  <2>2. IsFiniteSet(DOMAIN batches)
    BY RowsFinite DEF StatementInv, Table
  <2>3. /\ \A b \in DOMAIN batches : f[b] = g[b] /\ f[b] \in Int
        /\ g[new] = total
    BY <1>4 DEF StatementInv
  <2>4. PaidOut = SumFunctionOnSet(f, DOMAIN f) /\ PaidOut' = SumFunctionOnSet(g, DOMAIN g)
    BY DEF PaidOut, SumFunction
  <2>. HIDE DEF f, g
  <2>5. PaidOut = SumFunctionOnSet(g, DOMAIN batches)
    BY <2>1, <2>2, <2>3, <2>4, SumSame
  <2>6. Whole(g, DOMAIN batches') /\ PaidOut \in Int
    BY <1>4, <1>8, <2>1, <2>2, <2>3, <2>4, SumType DEF Whole
  <2>7. SumFunctionOnSet(g, DOMAIN batches') = SumFunctionOnSet(g, DOMAIN batches) + g[new]
    BY <1>4, <2>2, <2>6, SumAdd
  <2>. QED  BY <2>1, <2>3, <2>4, <2>5, <2>6, <2>7
<1>17. SumOfCommissions(paid) \in Int /\ SumOfCommissions(clawed) \in Int
  BY <1>12, CommissionsWhole
<1>18. NetPaid = SumOfCommissions(paid) /\ ClawedBack = SumOfCommissions(clawed)
  BY <1>10, StatementSums
<1>19. StatementReconciles'
  BY <1>8, <1>13, <1>14, <1>15, <1>16, <1>17, <1>18 DEF StatementInv, StatementReconciles
<1>. QED  BY <1>4, <1>5, <1>8, <1>9, <1>19 DEF StatementInv, StatementTyped

\* A clawback takes from the net what it adds to the clawbacks, and a reversal
\* takes nothing: what it closes was never paid.
LEMMA CompensationReconciles ==
    ASSUME StatementInv, NEW c \in Clients, CommitCompensation(c)
    PROVE  StatementTyped' /\ StatementReconciles'
<1>1. PICK id \in DOMAIN commissions, to \in Closed :
        /\ commissions' = Compensated(id, to)
        /\ to = "CLAWED_BACK" => commissions[id].state = "PAID"
        /\ to = "REVERSED" => commissions[id].state \in Unpaid
  BY DEF CommitCompensation, StatementInv, StatementHeld, PayoutInv, PartnersHeld, Closed
<1>2. UNCHANGED batches
  BY DEF CommitCompensation
<1>3. PICK old, new, closed, against :
        /\ old = commissions[id] /\ new = Len(commissions) + 1
        /\ closed = [commissions EXCEPT ![id] = [old EXCEPT !.state = to]]
        /\ against = [old EXCEPT !.amount = -@, !.state = to, !.batch = 0, !.of = id]
        /\ commissions' = Append(closed, against)
  BY <1>1 DEF Compensated
<1>4. /\ Table(commissions)
      /\ commissions = [m \in DOMAIN commissions |-> commissions[m]]
      /\ DOMAIN old = CommissionFields
      /\ StatementRow(old)
  BY <1>3 DEF StatementInv, PayoutInv, Commissioned, CommissionRow, Table
<1>5. /\ closed = [m \in DOMAIN commissions |-> closed[m]]
      /\ closed[id] = [old EXCEPT !.state = to]
      /\ \A m \in DOMAIN commissions : m # id => closed[m] = commissions[m]
  BY <1>3, <1>4
<1>6. /\ Table(closed) /\ DOMAIN closed = DOMAIN commissions /\ Len(closed) + 1 = new
  <2>1. Table(closed) /\ DOMAIN closed = DOMAIN commissions
    BY <1>4, <1>5, TableRewritten
  <2>2. Len(closed) = Len(commissions)
    BY <1>4, <2>1 DEF Table
  <2>. QED  BY <1>3, <2>1, <2>2
<1>7. /\ DOMAIN commissions' = DOMAIN commissions \cup {new}
      /\ new \notin DOMAIN commissions
      /\ commissions'[new] = against
      /\ \A m \in DOMAIN commissions : commissions'[m] = closed[m]
  BY <1>3, <1>6, TableGrows
<1>8. /\ commissions'[id].state = to /\ commissions'[id].amount = old.amount
      /\ commissions'[id].of = old.of
      /\ against.state = to /\ against.amount = -old.amount /\ against.of = id
  BY <1>3, <1>4, <1>5, <1>7 DEF CommissionFields
<1>9. \A m \in DOMAIN commissions : m # id => commissions'[m] = commissions[m]
  BY <1>5, <1>7
<1>10. old.amount \in Int /\ id # 0 /\ old.of = 0
  <2>1. id \in Nat \ {0}
    BY <1>4 DEF Table
  <2>. QED  BY <1>1, <1>3, <1>4, <2>1 DEF StatementRow, Closed, Unpaid
<1>11. \A m \in DOMAIN commissions' : StatementRow(commissions'[m])
  <2>1. StatementRow(commissions'[id]) /\ StatementRow(commissions'[new])
    BY <1>1, <1>7, <1>8, <1>10 DEF StatementRow
  <2>. QED  BY <1>7, <1>9, <2>1 DEF StatementInv
<1>12. StatementTyped'
  BY <1>2, <1>11 DEF StatementInv, StatementTyped
<1>13. CASE to = "REVERSED"
  <2>1. PaidRows' = PaidRows /\ ClawedRows' = ClawedRows
    BY <1>1, <1>3, <1>7, <1>8, <1>9, <1>13 DEF PaidRows, ClawedRows, Unpaid
  <2>2. \A m \in PaidRows : commissions'[m].amount = commissions[m].amount
    BY <1>3, <1>8, <1>9 DEF PaidRows
  <2>. QED  BY <1>2, <1>12, <2>1, <2>2, StatementKept
<1>14. CASE to = "CLAWED_BACK"
  <2>1. PICK paid, clawed : paid = PaidRows /\ clawed = ClawedRows
    OBVIOUS
  <2>2. PaidRows' = paid \cup {new} /\ ClawedRows' = clawed \cup {id}
    BY <1>1, <1>3, <1>7, <1>8, <1>9, <1>10, <1>14, <2>1 DEF PaidRows, ClawedRows
  <2>3. /\ paid \in SUBSET DOMAIN commissions /\ clawed \in SUBSET DOMAIN commissions
        /\ new \notin paid /\ id \notin clawed
    BY <1>1, <1>3, <1>7, <1>14, <2>1 DEF PaidRows, ClawedRows
  <2>. DEFINE g == [m \in DOMAIN commissions' |-> commissions'[m].amount]
  <2>4. /\ NetPaid' = SumFunctionOnSet(g, PaidRows')
        /\ ClawedBack' = SumFunctionOnSet(g, ClawedRows')
    BY DEF NetPaid, ClawedBack, PaidRows, ClawedRows, SumOfCommissions
  <2>5. /\ \A m \in DOMAIN commissions : /\ m \in DOMAIN commissions'
                                         /\ commissions'[m].amount = commissions[m].amount
        /\ \A m \in DOMAIN commissions' : g[m] \in Int
        /\ g[new] = -old.amount /\ g[id] = old.amount
    BY <1>3, <1>7, <1>8, <1>9, <1>11 DEF StatementRow
  <2>6. /\ SumFunctionOnSet(g, paid) = SumOfCommissions(paid)
        /\ SumFunctionOnSet(g, clawed) = SumOfCommissions(clawed)
    BY <2>3, <2>5, AmountsKept
  <2>7. /\ IsFiniteSet(paid) /\ SumOfCommissions(paid) \in Int
        /\ IsFiniteSet(clawed) /\ SumOfCommissions(clawed) \in Int
    BY <2>3, CommissionsWhole
  <2>. HIDE DEF g
  <2>8. Whole(g, PaidRows') /\ Whole(g, ClawedRows')
    BY <2>5 DEF Whole, PaidRows, ClawedRows
  <2>9. NetPaid' = SumOfCommissions(paid) - old.amount
    <3>1. SumFunctionOnSet(g, PaidRows') = SumFunctionOnSet(g, paid) + g[new]
      BY <2>2, <2>3, <2>7, <2>8, SumAdd
    <3>. QED  BY <1>10, <2>4, <2>5, <2>6, <2>7, <3>1
  <2>10. ClawedBack' = SumOfCommissions(clawed) + old.amount
    <3>1. SumFunctionOnSet(g, ClawedRows') = SumFunctionOnSet(g, clawed) + g[id]
      BY <2>2, <2>3, <2>7, <2>8, SumAdd
    <3>. QED  BY <2>4, <2>5, <2>6, <3>1
  <2>11. NetPaid = SumOfCommissions(paid) /\ ClawedBack = SumOfCommissions(clawed)
    BY <2>1, StatementSums
  <2>12. PaidOut' = PaidOut /\ PaidOut \in Int
    <3>1. IsFiniteSet(DOMAIN batches)
      BY RowsFinite DEF StatementInv, Table
    <3>2. PaidOut \in Int
      BY <3>1, SumType DEF StatementInv, PaidOut, SumFunction
    <3>. QED  BY <1>2, <3>2 DEF PaidOut
  <2>13. StatementReconciles'
    BY <1>10, <2>7, <2>9, <2>10, <2>11, <2>12 DEF StatementInv, StatementReconciles
  <2>. QED  BY <1>12, <2>13
<1>. QED  BY <1>1, <1>13, <1>14 DEF Closed

\* The other commits of partners pay nothing.
LEMMA OtherCommitsReconcile ==
    ASSUME StatementInv, NEW c \in Clients,
           \/ CommitVerify(c) \/ CommitActivate(c) \/ CommitDeal(c)
           \/ CommitAccrual(c) \/ CommitAdvance(c)
    PROVE  StatementTyped' /\ StatementReconciles'
<1>1. UNCHANGED batches
  BY DEF CommitVerify, CommitActivate, CommitDeal, CommitAccrual, CommitAdvance
<1>2. CASE UNCHANGED commissions
  <2>1. PaidRows' = PaidRows /\ ClawedRows' = ClawedRows
    BY <1>2 DEF PaidRows, ClawedRows
  <2>. QED  BY <1>1, <1>2, <2>1, StatementKept DEF StatementInv, StatementTyped
<1>3. CASE CommitAccrual(c)
  <2>1. PICK row, new : /\ commissions' = Append(commissions, row)
                        /\ row.amount = Commission /\ row.state = "ACCRUED" /\ row.of = 0
                        /\ new = Len(commissions) + 1
    BY <1>3 DEF CommitAccrual
  <2>2. /\ DOMAIN commissions' = DOMAIN commissions \cup {new}
        /\ new \notin DOMAIN commissions
        /\ commissions'[new] = row
        /\ \A m \in DOMAIN commissions : commissions'[m] = commissions[m]
    BY <2>1, TableGrows DEF StatementInv, PayoutInv, Commissioned
  <2>3. PaidRows' = PaidRows /\ ClawedRows' = ClawedRows
    BY <2>1, <2>2 DEF PaidRows, ClawedRows
  <2>4. \A m \in PaidRows : commissions'[m].amount = commissions[m].amount
    BY <2>2 DEF PaidRows
  <2>5. StatementTyped'
    BY <1>1, <2>1, <2>2, PartnersAssumption DEF StatementInv, StatementTyped, StatementRow
  <2>. QED  BY <1>1, <2>3, <2>4, <2>5, StatementKept
<1>4. CASE CommitAdvance(c)
  <2>1. PICK id \in DOMAIN commissions, to \in {"APPROVED_C", "PAYABLE"} :
           /\ commissions' = [commissions EXCEPT ![id].state = to]
           /\ commissions[id].state \in Unpaid
    BY <1>4 DEF CommitAdvance, StatementInv, StatementHeld, PayoutInv, PartnersHeld
  <2>2. /\ commissions = [m \in DOMAIN commissions |-> commissions[m]]
        /\ DOMAIN commissions[id] = CommissionFields
    BY DEF StatementInv, PayoutInv, Commissioned, CommissionRow, Table
  <2>3. /\ DOMAIN commissions' = DOMAIN commissions
        /\ commissions'[id].state = to
        /\ commissions'[id].amount = commissions[id].amount
        /\ commissions'[id].of = commissions[id].of
        /\ \A m \in DOMAIN commissions : m # id => commissions'[m] = commissions[m]
    BY <2>1, <2>2 DEF CommissionFields
  <2>4. PaidRows' = PaidRows /\ ClawedRows' = ClawedRows
    BY <2>1, <2>3 DEF PaidRows, ClawedRows, Unpaid
  <2>5. \A m \in PaidRows : commissions'[m].amount = commissions[m].amount
    BY <2>3 DEF PaidRows
  <2>6. StatementTyped'
    BY <1>1, <2>1, <2>3 DEF StatementInv, StatementTyped, StatementRow, Unpaid, Closed
  <2>. QED  BY <1>1, <2>4, <2>5, <2>6, StatementKept
<1>. QED
  BY <1>2, <1>3, <1>4 DEF CommitVerify, CommitActivate, CommitDeal

\* A request of partners that begins has looked at a commission that is unpaid.
LEMMA StatementBegin ==
    ASSUME StatementInv, NEW c \in Clients, PartnersStep(c), session[c] = Idle
    PROVE  UNCHANGED <<commissions, batches>> /\ StatementHeld(c)'
<1>. USE DEF StatementInv, PayoutInv, BillingInv, Serialized, SessionFunction, partnersVars
<1>1. CASE (\E patch \in Patches : VerifyAgreement(c, patch)) \/ ActivateAgreement(c)
  BY <1>1 DEF VerifyAgreement, ActivateAgreement, Begins, StatementHeld
<1>2. CASE (\E to \in DealStates : MoveDeal(c, to)) \/ PayPartner(c)
  <2>1. CASE \E to \in DealStates : MoveDeal(c, to)
    BY <2>1 DEF MoveDeal, Begins, StatementHeld
  <2>2. CASE PayPartner(c)
    BY <2>2 DEF PayPartner, Begins, StatementHeld
  <2>. QED  BY <1>2, <2>1, <2>2
<1>3. CASE \E i \in DOMAIN invoices \cup {0}, dealt \in BOOLEAN : AccrueCommission(c, i, dealt)
  BY <1>3 DEF AccrueCommission, Begins, StatementHeld
<1>4. CASE \E m \in DOMAIN commissions : \E to \in {"APPROVED_C", "PAYABLE"} :
              AdvanceCommission(c, m, to)
  BY <1>4 DEF AdvanceCommission, CommissionMoves, Unpaid, Begins, StatementHeld
<1>5. CASE \E m \in DOMAIN commissions : \E to \in {"REVERSED", "CLAWED_BACK"} :
              Compensate(c, m, to)
  BY <1>5 DEF Compensate, CommissionMoves, Unpaid, Begins, StatementHeld
<1>6. ~ \/ CommitVerify(c) \/ CommitActivate(c) \/ CommitDeal(c) \/ CommitAccrual(c)
        \/ CommitAdvance(c) \/ CommitPayout(c) \/ CommitCompensation(c)
  <2>1. session[c].op = "idle"
    BY DEF Idle
  <2>. QED
    BY <2>1 DEF CommitVerify, CommitActivate, CommitDeal, CommitAccrual, CommitAdvance,
       CommitPayout, CommitCompensation
<1>. QED  BY <1>1, <1>2, <1>3, <1>4, <1>5, <1>6 DEF PartnersStep

LEMMA StatementNext ==
    ASSUME Serial, StatementInv, [Next]_vars
    PROVE  StatementInv'
<1>1. PayoutInv'
  BY PayoutNext DEF StatementInv
<1>2. SUFFICES /\ StatementTyped' /\ StatementReconciles'
               /\ \A c \in Clients : StatementHeld(c)'
  BY <1>1 DEF StatementInv, StatementTyped
<1>3. ASSUME UNCHANGED <<commissions, batches>>
      PROVE  StatementTyped' /\ StatementReconciles'
  <2>1. PaidRows' = PaidRows /\ ClawedRows' = ClawedRows
    BY <1>3 DEF PaidRows, ClawedRows
  <2>. QED  BY <1>3, <2>1, StatementKept DEF StatementInv, StatementTyped
<1>4. CASE ~ \E c \in Clients : PartnersStep(c) /\ UNCHANGED billingVars
  <2>1. UNCHANGED commissions /\ Unmoved(PartnersOps \ {"idle"})
    BY <1>4, PartnersRest DEF StatementInv, PayoutInv, BillingInv, Serialized
  <2>2. UNCHANGED batches
    BY <1>4 DEF Next, vars, partnersVars, WindowElapses, billingVars
  <2>3. ASSUME NEW c \in Clients PROVE StatementHeld(c)'
    <3>1. CASE session'[c].op \notin PartnersOps \ {"idle"}
      BY <3>1 DEF StatementHeld, PartnersOps
    <3>2. CASE session'[c] = session[c]
      BY <2>1, <3>2 DEF StatementInv, StatementHeld
    <3>. QED  BY <2>1, <3>1, <3>2 DEF Unmoved
  <2>. QED  BY <1>3, <2>1, <2>2, <2>3
<1>5. ASSUME NEW c \in Clients, PartnersStep(c), UNCHANGED billingVars
      PROVE  /\ StatementTyped' /\ StatementReconciles'
             /\ \A d \in Clients : StatementHeld(d)'
  <2>1. \A d \in Clients : d # c => ~InTransaction(d)'
    BY <1>5, PartnersTurns, OthersOut DEF StatementInv, PayoutInv, BillingInv, Serialized
  <2>2. \A d \in Clients : d # c => StatementHeld(d)'
    BY <2>1 DEF InTransaction, StatementHeld
  <2>3. CASE session[c] = Idle
    <3>1. UNCHANGED <<commissions, batches>> /\ StatementHeld(c)'
      BY <1>5, <2>3, StatementBegin
    <3>. QED  BY <1>3, <2>2, <3>1
  <2>4. CASE session[c] # Idle
    <3>1. \/ CommitVerify(c) \/ CommitActivate(c) \/ CommitDeal(c) \/ CommitAccrual(c)
          \/ CommitAdvance(c) \/ CommitPayout(c) \/ CommitCompensation(c)
      BY <1>5, <2>4 DEF PartnersStep, VerifyAgreement, ActivateAgreement, MoveDeal,
         AccrueCommission, AdvanceCommission, Compensate, PayPartner, Begins
    <3>2. session'[c] = Idle
      BY <3>1 DEF CommitVerify, CommitActivate, CommitDeal, CommitAccrual, CommitAdvance,
         CommitPayout, CommitCompensation, Commits, StatementInv, PayoutInv, BillingInv,
         Serialized, SessionFunction
    <3>3. StatementHeld(c)'
      BY <3>2 DEF StatementHeld, Idle
    <3>. QED
      BY <2>2, <3>1, <3>3, PayoutReconciles, CompensationReconciles, OtherCommitsReconcile
  <2>. QED  BY <2>3, <2>4
<1>. QED  BY <1>4, <1>5

\* partner_statement: what a partner was paid, less what was clawed back, is
\* what the payout batches came to, for any number of commissions, batches,
\* reversals and clawbacks: no commission is paid out twice.
THEOREM StatementAlwaysReconciles == Serial => (Spec => []StatementReconciles)
<1>. SUFFICES ASSUME Serial PROVE Spec => []StatementReconciles
  OBVIOUS
<1>1. Init => StatementInv
  BY StatementInitial
<1>2. StatementInv /\ [Next]_vars => StatementInv'
  BY StatementNext
<1>3. StatementInv => StatementReconciles
  BY DEF StatementInv
<1>. QED  BY <1>1, <1>2, <1>3, PTL DEF Spec
=============================================================================
