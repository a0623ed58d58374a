----------------------------- MODULE RevenueProofs -----------------------------
(***************************************************************************)
(* What the revenue chain keeps where transactions are serialized (Serial, *)
(* as on SQLite), for any number of clients, requests, rows and prices:    *)
(* that they are serialized, and then metering, rating and licensing;      *)
(* PayoutProofs goes on with billing and partners.                         *)
(*                                                                         *)
(* No property is inductive by itself. A transaction decides on what it    *)
(* read and commits later, so that what it read must still hold when it    *)
(* commits. It does, because at most one client is in a transaction        *)
(* (Alone), and because a client that is not in one holds nothing that     *)
(* commits. Each property is proved together with what the transactions    *)
(* that may disturb it have read (the ...Held parts).                      *)
(***************************************************************************)
EXTENDS Revenue, FiniteSetTheorems, TLAPS

-----------------------------------------------------------------------------
(***************************************************************************)
(* Transactions are alone.                                                 *)
(***************************************************************************)

Alone == \A c, d \in Clients : InTransaction(c) /\ InTransaction(d) => c = d

SessionFunction == session = [c \in Clients |-> session[c]]

Serialized == SessionFunction /\ Alone

\* A step of one client, which begins, holds or ends a transaction.
Turns(c, ops) ==
    /\ session' = [session EXCEPT ![c] = session'[c]]
    /\ session'[c].op \in ops
    /\ CanBegin \/ InTransaction(c)

MeteringOps == {"idle", "record", "adjust", "aggregate"}
RatingOps == {"idle", "discount", "request", "decide", "usage_read", "rate"}
BillingOps == {"idle", "invoice", "void", "pay", "credit", "overdue", "refuse", "unmatched"}
PartnersOps == {"idle", "verify", "activate", "deal", "accrue", "advance", "payout",
                "compensate"}
LicensingOps == {"idle", "token", "enroll", "revoke_instance", "issue", "sign",
                 "activate_license", "revoke_license", "renew"}

\* A request is begun where no other client is in a transaction.
LEMMA BeginsTurns ==
    ASSUME SessionFunction, NEW c \in Clients, NEW desk, NEW request, NEW ops,
           Begins(c, desk, request), request.op \in ops
    PROVE  Turns(c, ops) /\ session'[c] = request
  BY DEF SessionFunction, Begins, Turns

\* A commit ends the transaction its client is in.
LEMMA CommitsTurns ==
    ASSUME SessionFunction, NEW c \in Clients, NEW desk, NEW ops,
           Commits(c, desk), "idle" \in ops, session[c].op \notin {"idle", "usage_read"}
    PROVE  Turns(c, ops) /\ session'[c] = Idle
  BY DEF SessionFunction, Commits, Turns, Idle, InTransaction

\* The step of a client leaves every other one out of a transaction.
LEMMA OthersOut ==
    ASSUME Serial, Serialized, NEW c \in Clients, NEW ops, Turns(c, ops)
    PROVE  /\ Serialized'
           /\ \A d \in Clients : d # c => ~InTransaction(d) /\ ~InTransaction(d)'
<1>1. SessionFunction' /\ \A d \in Clients : d # c => session'[d] = session[d]
  BY DEF Serialized, SessionFunction, Turns
<1>2. \A d \in Clients : d # c => ~InTransaction(d)
  BY DEF Serialized, Alone, Turns, CanBegin
<1>3. \A d \in Clients : d # c => ~InTransaction(d)'
  BY <1>1, <1>2 DEF InTransaction
<1>. QED  BY <1>1, <1>2, <1>3 DEF Serialized, Alone

\* The steps of each desk turn a client between the requests of that desk.
LEMMA MeteringTurns ==
    ASSUME SessionFunction, NEW c \in Clients, MeteringStep(c)
    PROVE  Turns(c, MeteringOps)
<1>1. CASE \E k \in Events : RecordUsage(c, k)
  BY <1>1, BeginsTurns DEF RecordUsage, MeteringOps
<1>2. CASE \E k \in Events : \E d \in Deltas : AdjustUsage(c, k, d)
  BY <1>2, BeginsTurns DEF AdjustUsage, MeteringOps
<1>3. CASE \E finalize \in BOOLEAN : Aggregate(c, finalize)
  BY <1>3, BeginsTurns DEF Aggregate, MeteringOps
<1>4. CASE CommitUsage(c) \/ CommitAdjustment(c) \/ CommitAggregate(c)
  BY <1>4, CommitsTurns DEF CommitUsage, CommitAdjustment, CommitAggregate, MeteringOps
<1>. QED  BY <1>1, <1>2, <1>3, <1>4 DEF MeteringStep

LEMMA RatingTurns ==
    ASSUME SessionFunction, NEW c \in Clients, RatingStep(c)
    PROVE  Turns(c, RatingOps)
<1>1. CASE CreateDiscountRule(c)
  BY <1>1, BeginsTurns DEF CreateDiscountRule, RatingOps
<1>2. CASE \E u \in Staff, price \in Proposals : RequestOverride(c, u, price)
  BY <1>2, BeginsTurns DEF RequestOverride, RatingOps
<1>3. CASE \E u \in Staff : \E o \in DOMAIN overrides, decision \in {"APPROVED", "REJECTED"} :
              DecideOverride(c, u, o, decision)
  BY <1>3, BeginsTurns DEF DecideOverride, RatingOps
<1>4. CASE ReadUsage(c)
  BY <1>4, BeginsTurns DEF ReadUsage, RatingOps
<1>5. CASE Rate(c)
  BY <1>5 DEF Rate, SessionFunction, Turns, RatingOps
<1>6. CASE CommitDiscountRule(c) \/ CommitRequest(c) \/ CommitDecision(c) \/ CommitRun(c)
  BY <1>6, CommitsTurns
  DEF CommitDiscountRule, CommitRequest, CommitDecision, CommitRun, RatingOps
<1>. QED  BY <1>1, <1>2, <1>3, <1>4, <1>5, <1>6 DEF RatingStep

LEMMA BillingTurns ==
    ASSUME SessionFunction, NEW c \in Clients, BillingStep(c)
    PROVE  Turns(c, BillingOps)
<1>1. CASE \E r \in DOMAIN runs : IssueInvoice(c, r)
  BY <1>1, BeginsTurns DEF IssueInvoice, BillingOps
<1>2. CASE \E i \in DOMAIN invoices : VoidInvoice(c, i) \/ IssueCreditNote(c, i)
  BY <1>2, BeginsTurns DEF VoidInvoice, IssueCreditNote, BillingOps
<1>3. CASE \E i \in DOMAIN invoices : \E key \in Receipts, amount \in Amounts :
              RecordPayment(c, key, i, amount)
  BY <1>3, BeginsTurns DEF RecordPayment, Payment, BillingOps
<1>4. CASE \E due \in SUBSET MayBeOverdue : MarkOverdue(c, due)
  BY <1>4, BeginsTurns DEF MarkOverdue, BillingOps
<1>5. CASE \E n \in Notices : RefuseNotice(c, n) \/ IngestUnmatched(c, n)
  BY <1>5, BeginsTurns DEF RefuseNotice, IngestUnmatched, BillingOps
<1>6. CASE \E n \in Notices : IngestNotice(c, n)
  BY <1>6, BeginsTurns DEF IngestNotice, Payment, BillingOps
<1>7. CASE \/ CommitInvoice(c) \/ CommitVoid(c) \/ CommitPayment(c) \/ CommitCreditNote(c)
           \/ CommitOverdue(c) \/ CommitRefusal(c) \/ CommitUnmatched(c) \/ CommitNotice(c)
  BY <1>7, CommitsTurns
  DEF CommitInvoice, CommitVoid, CommitPayment, CommitCreditNote, CommitOverdue,
      CommitRefusal, CommitUnmatched, CommitNotice, BillingOps
<1>. QED  BY <1>1, <1>2, <1>3, <1>4, <1>5, <1>6, <1>7 DEF BillingStep

LEMMA PartnersTurns ==
    ASSUME SessionFunction, NEW c \in Clients, PartnersStep(c)
    PROVE  Turns(c, PartnersOps)
<1>1. CASE \E patch \in Patches : VerifyAgreement(c, patch)
  BY <1>1, BeginsTurns DEF VerifyAgreement, PartnersOps
<1>2. CASE ActivateAgreement(c) \/ PayPartner(c)
  BY <1>2, BeginsTurns DEF ActivateAgreement, PayPartner, PartnersOps
<1>3. CASE \E to \in DealStates : MoveDeal(c, to)
  BY <1>3, BeginsTurns DEF MoveDeal, PartnersOps
<1>4. CASE \E i \in DOMAIN invoices \cup {0}, dealt \in BOOLEAN : AccrueCommission(c, i, dealt)
  BY <1>4, BeginsTurns DEF AccrueCommission, PartnersOps
<1>5. CASE \E m \in DOMAIN commissions : \E to \in {"APPROVED_C", "PAYABLE"} :
              AdvanceCommission(c, m, to)
  BY <1>5, BeginsTurns DEF AdvanceCommission, PartnersOps
<1>6. CASE \E m \in DOMAIN commissions : \E to \in {"REVERSED", "CLAWED_BACK"} :
              Compensate(c, m, to)
  BY <1>6, BeginsTurns DEF Compensate, PartnersOps
<1>7. CASE \/ CommitVerify(c) \/ CommitActivate(c) \/ CommitDeal(c) \/ CommitAccrual(c)
           \/ CommitAdvance(c) \/ CommitPayout(c) \/ CommitCompensation(c)
  BY <1>7, CommitsTurns
  DEF CommitVerify, CommitActivate, CommitDeal, CommitAccrual, CommitAdvance, CommitPayout,
      CommitCompensation, PartnersOps
<1>. QED  BY <1>1, <1>2, <1>3, <1>4, <1>5, <1>6, <1>7 DEF PartnersStep

LEMMA LicensingTurns ==
    ASSUME SessionFunction, NEW c \in Clients, LicensingStep(c)
    PROVE  Turns(c, LicensingOps)
<1>1. CASE \E t \in Tokens : CreateToken(c, t) \/ EnrollInstance(c, t)
  BY <1>1, BeginsTurns DEF CreateToken, EnrollInstance, LicensingOps
<1>2. CASE \E i \in DOMAIN instances : RevokeInstance(c, i)
  BY <1>2, BeginsTurns DEF RevokeInstance, LicensingOps
<1>3. CASE \E i \in DOMAIN instances \cup {0}, ends \in Days : IssueLicense(c, i, ends)
  BY <1>3, BeginsTurns DEF IssueLicense, LicensingOps
<1>4. CASE \E l \in DOMAIN licenses : SignFile(c, l) \/ RevokeLicense(c, l)
  BY <1>4, BeginsTurns DEF SignFile, RevokeLicense, LicensingOps
<1>5. CASE \E l \in DOMAIN licenses : \E i \in DOMAIN instances : ActivateLicense(c, l, i)
  BY <1>5, BeginsTurns DEF ActivateLicense, LicensingOps
<1>6. CASE \E l \in DOMAIN licenses : \E ends \in Days : RenewLicense(c, l, ends)
  BY <1>6, BeginsTurns DEF RenewLicense, LicensingOps
<1>7. CASE \/ CommitToken(c) \/ CommitEnrollment(c) \/ CommitInstanceRevocation(c)
           \/ CommitIssue(c) \/ CommitFile(c) \/ CommitLicenseActivation(c)
           \/ CommitLicenseRevocation(c) \/ CommitRenewal(c)
  BY <1>7, CommitsTurns
  DEF CommitToken, CommitEnrollment, CommitInstanceRevocation, CommitIssue, CommitFile,
      CommitLicenseActivation, CommitLicenseRevocation, CommitRenewal, LicensingOps
<1>. QED  BY <1>1, <1>2, <1>3, <1>4, <1>5, <1>6, <1>7 DEF LicensingStep

\* No client comes to a request of these kinds, and none that is at one moves.
Unmoved(ops) == \A c \in Clients : session'[c].op \in ops => session'[c] = session[c]

\* A step of one client leaves every request of another desk where it is.
LEMMA TurnsElsewhere ==
    ASSUME SessionFunction, NEW c \in Clients, NEW ops, NEW others, Turns(c, ops),
           ops \cap others = {}
    PROVE  Unmoved(others)
  BY DEF SessionFunction, Turns, Unmoved

\* A client that breaks off, time that passes and a stutter move no request.
LEMMA BreaksElsewhere ==
    ASSUME SessionFunction, NEW others, "idle" \notin others,
           session' = session \/ \E c \in Clients : Breaks(c)
    PROVE  Unmoved(others)
  BY DEF SessionFunction, Breaks, Unmoved, Idle

\* Transactions stay alone and start alone.
LEMMA SerializedInit == Init => Serialized
  BY DEF Init, SessionsInit, Serialized, SessionFunction, Alone, InTransaction, Idle

LEMMA SerializedStep ==
    ASSUME Serial, Serialized, [Next]_vars
    PROVE  Serialized'
<1>1. CASE \E c \in Clients : \/ MeteringStep(c) \/ RatingStep(c) \/ BillingStep(c)
                              \/ PartnersStep(c) \/ LicensingStep(c)
  <2>1. PICK c \in Clients : \/ MeteringStep(c) \/ RatingStep(c) \/ BillingStep(c)
                             \/ PartnersStep(c) \/ LicensingStep(c)
    BY <1>1
  <2>2. \E ops : Turns(c, ops)
    BY <2>1, MeteringTurns, RatingTurns, BillingTurns, PartnersTurns, LicensingTurns
    DEF Serialized
  <2>. QED  BY <2>2, OthersOut
<1>2. CASE \E c \in Clients : Breaks(c)
  BY <1>2 DEF Breaks, Serialized, SessionFunction, Alone, InTransaction, Idle
<1>3. CASE session' = session
  BY <1>3 DEF Serialized, SessionFunction, Alone, InTransaction
<1>. QED  BY <1>1, <1>2, <1>3 DEF Next, vars

-----------------------------------------------------------------------------
(***************************************************************************)
(* Tables of rows: one is added, or one is changed.                        *)
(***************************************************************************)

LEMMA RowAdded ==
    ASSUME NEW Rows, NEW table \in Seq(Rows), NEW row \in Rows
    PROVE  /\ Append(table, row) \in Seq(Rows)
           /\ DOMAIN Append(table, row) = DOMAIN table \cup {Len(table) + 1}
           /\ Len(table) + 1 \in Nat \ DOMAIN table
           /\ Append(table, row)[Len(table) + 1] = row
           /\ \A i \in DOMAIN table : Append(table, row)[i] = table[i]
  OBVIOUS

LEMMA RowChanged ==
    ASSUME NEW Rows, NEW table \in Seq(Rows), NEW id \in DOMAIN table, NEW row \in Rows
    PROVE  /\ [table EXCEPT ![id] = row] \in Seq(Rows)
           /\ DOMAIN [table EXCEPT ![id] = row] = DOMAIN table
           /\ [table EXCEPT ![id] = row][id] = row
           /\ \A i \in DOMAIN table : i # id => [table EXCEPT ![id] = row][i] = table[i]
  OBVIOUS

LEMMA RowsRewritten ==
    ASSUME NEW Rows, NEW table \in Seq(Rows), NEW rows \in [DOMAIN table -> Rows]
    PROVE  rows \in Seq(Rows) /\ DOMAIN rows = DOMAIN table /\ Len(rows) = Len(table)
  OBVIOUS

-----------------------------------------------------------------------------
(***************************************************************************)
(* Metering: a frozen period.                                              *)
(***************************************************************************)

\* A recomputation under way found the period open, and it still is.
AggregateHeld == \A c \in Clients : session[c].op = "aggregate" => ~Frozen

FrozenInv == Serialized /\ AggregateHeld

LEMMA FrozenInit == Init => FrozenInv
  BY SerializedInit DEF Init, SessionsInit, FrozenInv, AggregateHeld, Idle

\* Where metering does nothing, neither does what its requests hold.
LEMMA MeteringRests ==
    ASSUME SessionFunction, [Next]_vars, ~ \E c \in Clients : MeteringStep(c)
    PROVE  UNCHANGED meteringVars /\ Unmoved(MeteringOps \ {"idle"})
<1>1. CASE \E c \in Clients : /\ RatingStep(c) \/ BillingStep(c) \/ PartnersStep(c)
                                 \/ LicensingStep(c)
                              /\ UNCHANGED meteringVars
  <2>1. PICK c \in Clients : /\ RatingStep(c) \/ BillingStep(c) \/ PartnersStep(c)
                                \/ LicensingStep(c)
                             /\ UNCHANGED meteringVars
    BY <1>1
  <2>2. \/ Turns(c, RatingOps) \/ Turns(c, BillingOps) \/ Turns(c, PartnersOps)
        \/ Turns(c, LicensingOps)
    BY <2>1, RatingTurns, BillingTurns, PartnersTurns, LicensingTurns
  <2>3. Unmoved(MeteringOps \ {"idle"})
    BY <2>2, TurnsElsewhere
    DEF MeteringOps, RatingOps, BillingOps, PartnersOps, LicensingOps
  <2>. QED  BY <2>1, <2>3
<1>2. CASE /\ UNCHANGED meteringVars
           /\ session' = session \/ \E c \in Clients : Breaks(c)
  BY <1>2, BreaksElsewhere
<1>. QED  BY <1>1, <1>2 DEF Next, vars

LEMMA FrozenStep ==
    ASSUME Serial, FrozenInv, [Next]_vars
    PROVE  FrozenInv' /\ (Frozen => aggregate' = aggregate)
<1>1. Serialized'
  BY SerializedStep DEF FrozenInv
<1>2. CASE ~ \E c \in Clients : MeteringStep(c)
  BY <1>1, <1>2, MeteringRests
  DEF FrozenInv, Serialized, AggregateHeld, Unmoved, MeteringOps, meteringVars, Frozen
<1>3. CASE \E c \in Clients : MeteringStep(c)
  <2>1. PICK c \in Clients : MeteringStep(c)
    BY <1>3
  <2>2. Turns(c, MeteringOps)
    BY <2>1, MeteringTurns DEF FrozenInv, Serialized
  <2>3. \A d \in Clients : d # c => ~InTransaction(d)'
    BY <2>2, OthersOut DEF FrozenInv
  <2>4. session'[c].op = "aggregate" => ~Frozen'
    BY <2>1, <2>2
    DEF MeteringStep, RecordUsage, AdjustUsage, Aggregate, MayAggregate, CommitUsage,
        CommitAdjustment, CommitAggregate, Begins, Commits, Turns, FrozenInv, Serialized,
        SessionFunction, Idle, meteringVars, Frozen
  <2>5. Frozen => aggregate' = aggregate
    BY <2>1
    DEF MeteringStep, RecordUsage, AdjustUsage, Aggregate, CommitUsage, CommitAdjustment,
        CommitAggregate, FrozenInv, AggregateHeld, meteringVars
  <2>6. AggregateHeld'
    BY <2>3, <2>4 DEF AggregateHeld, InTransaction
  <2>. QED  BY <1>1, <2>5, <2>6 DEF FrozenInv
<1>. QED  BY <1>2, <1>3

\* aggregate: a figure that was frozen is never changed or thawed, by any
\* number of recordings, adjustments and recomputations.
THEOREM FrozenForGood == Serial => (Spec => FrozenStays)
<1>. SUFFICES ASSUME Serial PROVE Spec => FrozenStays
  OBVIOUS
<1>1. Init => FrozenInv
  BY FrozenInit
<1>2. FrozenInv /\ [Next]_vars => FrozenInv'
  BY FrozenStep
<1>3. FrozenInv /\ [Next]_vars => [Frozen => aggregate' = aggregate]_vars
  BY FrozenStep
<1>. QED  BY <1>1, <1>2, <1>3, PTL DEF Spec, FrozenStays

-----------------------------------------------------------------------------
(***************************************************************************)
(* Rating: one run of a period counts, and what was billed below the floor  *)
(* was approved by a second person.                                        *)
(*                                                                         *)
(* A run has to have seen every COMPLETE run when it replaces what it saw, *)
(* and an override it relied on has to be approved still: decisions are    *)
(* made on open requests only, so that an approval is never taken back     *)
(* (RatingHeld, Segregated). That quantities are whole numbers depends on  *)
(* what metering carries (UsageHeld).                                      *)
(***************************************************************************)

RatingTyped ==
    /\ events \subseteq Events
    /\ adjusted \in Int
    /\ aggregate \in Aggregates \cup {NoAggregate}
    /\ discounted \in BOOLEAN
    /\ overrides \in Seq(Overrides)
    /\ runs \in Seq(Runs)

\* What a metering transaction, or a rating that has read its usage, carries.
UsageHeld(c) ==
    LET t == session[c] IN
    /\ t.op = "record" => t.key \in Events
    /\ t.op = "adjust" => t.delta \in Int
    /\ t.op = "aggregate" => t.quantity \in Int /\ t.final \in BOOLEAN
    /\ t.op = "usage_read" => t.quantity \in Int

\* The price of a run is at the floor, or an approved override allows it.
Authorized(run) ==
    (run.state # "FAILED" /\ run.quantity > 0 /\ run.unit < FloorPrice) =>
      \E o \in DOMAIN overrides :
         /\ overrides[o].state = "APPROVED"
         /\ overrides[o].proposed <= run.unit

RunsAuthorized == \A r \in DOMAIN runs : Authorized(runs[r])

\* Nobody approved a request of their own.
Segregated ==
    \A o \in DOMAIN overrides :
       overrides[o].state = "APPROVED" =>
         overrides[o].approvedBy \notin {overrides[o].requestedBy, NoOne}

\* What a rating transaction read and still holds: a decision is on an open
\* request of someone else, and a run has seen every COMPLETE run.
RatingHeld(c) ==
    LET t == session[c] IN
    /\ t.op = "request" => t.proposed \in Nat /\ t.user \in Staff
    /\ t.op = "decide" => /\ t.id \in DOMAIN overrides
                          /\ overrides[t.id].state = "REQUESTED"
                          /\ t.user \in Staff \ {overrides[t.id].requestedBy}
                          /\ t.state \in {"APPROVED", "REJECTED"}
    /\ t.op = "rate" => /\ t.run \in Runs
                        /\ t.run.state \in {"COMPLETE", "FAILED"}
                        /\ t.seen = CompleteRuns
                        /\ Authorized(t.run)

RatingInv ==
    /\ Serialized
    /\ RatingTyped
    /\ \A c \in Clients : UsageHeld(c) /\ RatingHeld(c)
    /\ Segregated
    /\ OneCurrentRun
    /\ RunsAuthorized

LEMMA RatingInitial == Init => RatingInv
<1>. SUFFICES ASSUME Init PROVE RatingInv
  OBVIOUS
<1>1. Serialized /\ \A c \in Clients : UsageHeld(c) /\ RatingHeld(c)
  BY SerializedInit DEF Init, SessionsInit, UsageHeld, RatingHeld, Idle
<1>2. CASE Fresh
  <2>1. /\ events = {} /\ adjusted = 0 /\ aggregate = NoAggregate /\ discounted = FALSE
        /\ overrides = <<>> /\ runs = <<>>
    BY <1>2 DEF Fresh, MeteringInit, RatingInit
  <2>2. discounted \in BOOLEAN
    BY <2>1
  <2>3. RatingTyped
    BY <2>1, <2>2 DEF RatingTyped
  <2>4. Segregated /\ OneCurrentRun /\ RunsAuthorized
    BY <2>1 DEF Segregated, OneCurrentRun, RunsAuthorized
  <2>. QED  BY <1>1, <2>3, <2>4 DEF RatingInv
<1>3. CASE Billed
  <2>. DEFINE run == [quantity |-> 1, unit |-> ListPrice, total |-> ListPrice,
                      state |-> "COMPLETE"]
  <2>1. run \in Runs /\ ListPrice \in Nat /\ FloorPrice \in Nat
    BY RatingAssumption DEF Runs
  <2>2. runs = <<run>> /\ overrides = <<>> /\ ListPrice >= FloorPrice
    BY <1>3 DEF Billed
  <2>3. RatingTyped
    <3>1. events \subseteq Events /\ adjusted \in Int /\ aggregate \in Aggregates \cup {NoAggregate}
      BY <1>3 DEF Billed
    <3>2. discounted \in BOOLEAN
      BY <1>3 DEF Billed
    <3>3. overrides \in Seq(Overrides)
      BY <2>2
    <3>4. runs \in Seq(Runs)
      BY <2>1, <2>2
    <3>. QED  BY <3>1, <3>2, <3>3, <3>4 DEF RatingTyped
  <2>4. \A r \in DOMAIN runs : r = 1 /\ runs[r] = run
    BY <2>2
  <2>5. OneCurrentRun /\ RunsAuthorized
    BY <2>1, <2>2, <2>4 DEF OneCurrentRun, RunsAuthorized, Authorized
  <2>. QED  BY <1>1, <2>2, <2>3, <2>5 DEF RatingInv, Segregated
<1>. QED  BY <1>2, <1>3 DEF Init

\* The usage a period has is a whole number.
LEMMA UsageIsInt == RatingTyped => Usage \in Int
<1>. SUFFICES ASSUME RatingTyped PROVE Usage \in Int
  OBVIOUS
<1>1. IsFiniteSet(events)
  BY MeteringAssumption, FS_Subset DEF RatingTyped
<1>2. Cardinality(events) \in Nat
  BY <1>1, FS_CardinalityType
<1>. QED  BY <1>2 DEF RatingTyped, Usage, Raw, Frozen, Aggregates, NoAggregate

\* Metering keeps its types and those of what it carries.
LEMMA MeteringTypes ==
    ASSUME RatingInv, NEW c \in Clients, MeteringStep(c), UNCHANGED ratingVars
    PROVE  RatingTyped' /\ UsageHeld(c)'
<1>. USE DEF RatingInv, Serialized, SessionFunction
<1>1. IsFiniteSet(events)
  BY MeteringAssumption, FS_Subset DEF RatingTyped
<1>2. Raw \in Int
  BY <1>1, FS_CardinalityType DEF Raw, RatingTyped
<1>3. CASE \E k \in Events : RecordUsage(c, k)
  BY <1>3 DEF RecordUsage, Begins, RatingTyped, UsageHeld, meteringVars, ratingVars
<1>4. CASE \E k \in Events : \E d \in Deltas : AdjustUsage(c, k, d)
  BY <1>4, MeteringAssumption
  DEF AdjustUsage, Begins, RatingTyped, UsageHeld, meteringVars, ratingVars
<1>5. CASE \E finalize \in BOOLEAN : Aggregate(c, finalize)
  BY <1>2, <1>5 DEF Aggregate, Begins, RatingTyped, UsageHeld, meteringVars, ratingVars
<1>6. CASE CommitUsage(c)
  BY <1>6 DEF CommitUsage, Commits, RatingTyped, UsageHeld, ratingVars, Idle
<1>7. CASE CommitAdjustment(c)
  BY <1>7 DEF CommitAdjustment, Commits, RatingTyped, UsageHeld, ratingVars, Idle
<1>8. CASE CommitAggregate(c)
  BY <1>8
  DEF CommitAggregate, Commits, RatingTyped, UsageHeld, ratingVars, Idle, Aggregates, NoAggregate
<1>. QED  BY <1>3, <1>4, <1>5, <1>6, <1>7, <1>8 DEF MeteringStep

\* A rating request that begins, or goes on to its run, holds what it read.
LEMMA RatingBegins ==
    ASSUME RatingInv, NEW c \in Clients, RatingStep(c), session[c].op \in {"idle", "usage_read"}
    PROVE  UNCHANGED ratingVars /\ UsageHeld(c)' /\ RatingHeld(c)'
<1>. USE DEF RatingInv, Serialized, SessionFunction
<1>1. CASE CreateDiscountRule(c)
  BY <1>1 DEF CreateDiscountRule, Begins, UsageHeld, RatingHeld
<1>2. CASE \E u \in Staff, price \in Proposals : RequestOverride(c, u, price)
  BY <1>2, RatingAssumption DEF RequestOverride, Begins, UsageHeld, RatingHeld
<1>3. CASE \E u \in Staff : \E o \in DOMAIN overrides, decision \in {"APPROVED", "REJECTED"} :
              DecideOverride(c, u, o, decision)
  BY <1>3 DEF DecideOverride, MayDecide, Begins, UsageHeld, RatingHeld, ratingVars
<1>4. CASE ReadUsage(c)
  BY <1>4, UsageIsInt DEF ReadUsage, Begins, UsageHeld, RatingHeld
<1>5. CASE Rate(c)
  <2>. DEFINE quantity == session[c].quantity
              run == Rated(quantity)
  <2>1. /\ quantity \in Int
        /\ session' = [session EXCEPT ![c] =
                          [op |-> "rate", run |-> run, seen |-> CompleteRuns]]
        /\ UNCHANGED ratingVars
    BY <1>5 DEF Rate, UsageHeld, CompleteRuns
  <2>2. UnitPrice \in Nat /\ FloorPrice \in Nat
    BY RatingAssumption DEF UnitPrice
  <2>3. Billable(quantity) \in Nat
    BY <2>1 DEF Billable
  <2>4. Billable(quantity) * UnitPrice \in Nat
    BY <2>2, <2>3
  <2>5. run \in Runs /\ run.state \in {"COMPLETE", "FAILED"}
    <3>1. CASE PassesFloor(quantity)
      BY <2>1, <2>2, <2>4, <3>1 DEF Rated, Runs
    <3>2. CASE ~PassesFloor(quantity)
      BY <2>1, <2>2, <3>2 DEF Rated, Runs
    <3>. QED  BY <3>1, <3>2
  <2>6. Authorized(run)
    BY <2>1, <2>2 DEF Rated, Authorized, PassesFloor, Billable, Overridden
  <2>7. RatingHeld(c)'
    BY <2>1, <2>5, <2>6 DEF RatingHeld, CompleteRuns, Authorized, ratingVars
  <2>8. UsageHeld(c)'
    BY <2>1 DEF UsageHeld
  <2>. QED  BY <2>1, <2>7, <2>8
<1>. QED
  BY <1>1, <1>2, <1>3, <1>4, <1>5
  DEF RatingStep, CreateDiscountRule, CommitDiscountRule, CommitRequest, CommitDecision, CommitRun

\* Deciding an open request of someone else authorizes, and forbids nothing.
LEMMA DecisionCommits ==
    ASSUME RatingInv, NEW c \in Clients, CommitRequest(c) \/ CommitDecision(c)
    PROVE  /\ overrides' \in Seq(Overrides)
           /\ Segregated'
           /\ UNCHANGED <<discounted, runs>>
           /\ \A o \in DOMAIN overrides : overrides[o].state = "APPROVED" =>
                 o \in DOMAIN overrides' /\ overrides'[o] = overrides[o]
<1>. USE DEF RatingInv, RatingTyped
<1>1. CASE CommitRequest(c)
  <2>1. PICK row \in Overrides : overrides' = Append(overrides, row) /\ row.state = "REQUESTED"
    BY <1>1 DEF CommitRequest, RatingHeld, Overrides
  <2>2. UNCHANGED <<discounted, runs>>
    BY <1>1 DEF CommitRequest
  <2>. QED  BY <2>1, <2>2, RowAdded DEF Segregated
<1>2. CASE CommitDecision(c)
  <2>1. PICK id \in DOMAIN overrides : /\ id = session[c].id
                                       /\ overrides[id].state = "REQUESTED"
    BY <1>2 DEF CommitDecision, RatingHeld
  <2>2. overrides[id] \in Overrides
    OBVIOUS
  <2>3. /\ overrides' \in [DOMAIN overrides -> Overrides]
        /\ overrides'[id].approvedBy \in Staff \ {overrides'[id].requestedBy}
        /\ \A o \in DOMAIN overrides : o # id => overrides'[o] = overrides[o]
    <3>1. PICK user \in Staff \ {overrides[id].requestedBy}, state \in {"APPROVED", "REJECTED"} :
             overrides' = [overrides EXCEPT ![id].state = state, ![id].approvedBy = user]
      BY <1>2, <2>1 DEF CommitDecision, RatingHeld
    <3>2. \A o \in DOMAIN overrides : overrides[o] \in Overrides
      OBVIOUS
    <3>. QED  BY <2>1, <2>2, <3>1, <3>2 DEF Overrides
  <2>4. UNCHANGED <<discounted, runs>>
    BY <1>2 DEF CommitDecision
  <2>5. overrides' \in Seq(Overrides)
    BY <2>3, RowsRewritten
  <2>6. Segregated'
    BY <2>3, RatingAssumption DEF Segregated
  <2>. QED  BY <2>1, <2>3, <2>4, <2>5, <2>6
<1>. QED  BY <1>1, <1>2

\* A run that completes replaces every one that counts, a failed one none.
LEMMA RunCommits ==
    ASSUME RatingInv, NEW c \in Clients, CommitRun(c)
    PROVE  /\ runs' \in Seq(Runs)
           /\ OneCurrentRun'
           /\ RunsAuthorized'
           /\ UNCHANGED <<discounted, overrides>>
<1>. USE DEF RatingInv, RatingTyped
<1>1. PICK run \in Runs : /\ run.state \in {"COMPLETE", "FAILED"}
                          /\ Authorized(run)
                          /\ runs' = Append(Superseded(run, CompleteRuns), run)
                          /\ UNCHANGED <<discounted, overrides>>
  BY DEF CommitRun, RatingHeld
<1>2. PICK old : old = Superseded(run, CompleteRuns)
  OBVIOUS
<1>3. /\ old \in [DOMAIN runs -> Runs]
      /\ \A r \in DOMAIN runs :
            /\ old[r].quantity = runs[r].quantity /\ old[r].unit = runs[r].unit
            /\ old[r].state = IF run.state = "COMPLETE" /\ runs[r].state = "COMPLETE"
                              THEN "SUPERSEDED" ELSE runs[r].state
  <2>1. \A r \in DOMAIN runs : runs[r] \in Runs
    OBVIOUS
  <2>. QED  BY <1>2, <2>1 DEF Superseded, CompleteRuns, Runs
<1>4. old \in Seq(Runs) /\ DOMAIN old = DOMAIN runs
  BY <1>3, RowsRewritten
<1>5. PICK n \in Nat : n = Len(old) + 1
  BY <1>4
<1>6. /\ runs' \in Seq(Runs)
      /\ DOMAIN runs' = DOMAIN runs \cup {n}
      /\ runs'[n] = run
      /\ \A r \in DOMAIN runs : r \in Nat /\ r < n /\ runs'[r] = old[r]
  BY <1>1, <1>2, <1>4, <1>5, RowAdded
<1>7. \A r \in DOMAIN runs :
         (\A later \in DOMAIN runs' : later > r => runs'[later].state = "FAILED") <=>
         /\ run.state = "FAILED"
         /\ \A later \in DOMAIN runs : later > r => runs'[later].state = "FAILED"
  BY <1>6
<1>8. OneCurrentRun'
  <2>. SUFFICES ASSUME NEW r \in DOMAIN runs', runs'[r].state \in {"COMPLETE", "SUPERSEDED"}
                PROVE  runs'[r].state = "COMPLETE" <=>
                       \A later \in DOMAIN runs' : later > r => runs'[later].state = "FAILED"
    BY DEF OneCurrentRun
  <2>1. CASE r = n
    <3>1. \A later \in DOMAIN runs' : ~(later > n)
      BY <1>5, <1>6
    <3>. QED  BY <1>1, <1>6, <2>1, <3>1
  <2>2. CASE r \in DOMAIN runs /\ run.state = "COMPLETE"
    BY <1>3, <1>6, <1>7, <2>2
  <2>3. CASE r \in DOMAIN runs /\ run.state = "FAILED"
    <3>1. \A s \in DOMAIN runs : runs'[s].state = runs[s].state
      BY <1>3, <1>6, <2>3
    <3>2. runs[r].state = "COMPLETE" <=>
             \A later \in DOMAIN runs : later > r => runs[later].state = "FAILED"
      BY <2>3, <3>1 DEF OneCurrentRun
    <3>. QED  BY <1>7, <2>3, <3>1, <3>2
  <2>. QED  BY <1>1, <1>6, <2>1, <2>2, <2>3
<1>9. \A r \in DOMAIN runs' : Authorized(runs'[r])
  <2>. SUFFICES ASSUME NEW r \in DOMAIN runs'
                PROVE  Authorized(runs'[r])
    OBVIOUS
  <2>1. CASE r = n
    BY <1>1, <1>6, <2>1
  <2>2. CASE r \in DOMAIN runs
    <3>1. Authorized(runs[r])
      BY <2>2 DEF RunsAuthorized
    <3>2. /\ runs'[r].quantity = runs[r].quantity
          /\ runs'[r].unit = runs[r].unit
          /\ runs'[r].state # "FAILED" => runs[r].state # "FAILED"
      BY <1>3, <1>6, <2>2
    <3>. QED  BY <3>1, <3>2 DEF Authorized
  <2>. QED  BY <1>6, <2>1, <2>2
<1>10. RunsAuthorized'
  BY <1>1, <1>9 DEF RunsAuthorized, Authorized
<1>. QED  BY <1>1, <1>6, <1>8, <1>10

\* Where metering and rating do nothing, neither does what they hold.
LEMMA RatingRests ==
    ASSUME SessionFunction, [Next]_vars,
           ~ \E c \in Clients : MeteringStep(c) /\ UNCHANGED ratingVars,
           ~ \E c \in Clients : RatingStep(c) /\ UNCHANGED meteringVars
    PROVE  /\ UNCHANGED <<meteringVars, ratingVars>>
           /\ Unmoved((MeteringOps \cup RatingOps) \ {"idle"})
<1>1. CASE \E c \in Clients : /\ BillingStep(c) \/ PartnersStep(c) \/ LicensingStep(c)
                              /\ UNCHANGED <<meteringVars, ratingVars>>
  <2>1. PICK c \in Clients : /\ BillingStep(c) \/ PartnersStep(c) \/ LicensingStep(c)
                             /\ UNCHANGED <<meteringVars, ratingVars>>
    BY <1>1
  <2>2. Turns(c, BillingOps) \/ Turns(c, PartnersOps) \/ Turns(c, LicensingOps)
    BY <2>1, BillingTurns, PartnersTurns, LicensingTurns
  <2>3. Unmoved((MeteringOps \cup RatingOps) \ {"idle"})
    BY <2>2, TurnsElsewhere
    DEF MeteringOps, RatingOps, BillingOps, PartnersOps, LicensingOps
  <2>. QED  BY <2>1, <2>3
<1>2. CASE /\ UNCHANGED <<meteringVars, ratingVars>>
           /\ session' = session \/ \E c \in Clients : Breaks(c)
  BY <1>2, BreaksElsewhere
<1>. QED  BY <1>1, <1>2 DEF Next, vars

\* The rating requests that commit, all together.
LEMMA RatingCommits ==
    ASSUME RatingInv, NEW c \in Clients, RatingStep(c),
           session[c].op \notin {"idle", "usage_read"}
    PROVE  /\ UsageHeld(c)' /\ RatingHeld(c)'
           /\ discounted' \in BOOLEAN /\ overrides' \in Seq(Overrides) /\ runs' \in Seq(Runs)
           /\ Segregated' /\ OneCurrentRun' /\ RunsAuthorized'
<1>1. \/ CommitDiscountRule(c) \/ CommitRequest(c) \/ CommitDecision(c) \/ CommitRun(c)
  BY DEF RatingStep, CreateDiscountRule, RequestOverride, DecideOverride, ReadUsage, Rate,
     Begins, Idle
<1>2. session'[c] = Idle
  BY <1>1 DEF CommitDiscountRule, CommitRequest, CommitDecision, CommitRun, Commits,
     RatingInv, Serialized, SessionFunction
<1>3. UsageHeld(c)' /\ RatingHeld(c)'
  BY <1>2 DEF UsageHeld, RatingHeld, Idle
<1>4. CASE CommitDiscountRule(c)
  <2>1. discounted' \in BOOLEAN /\ UNCHANGED <<overrides, runs>>
    BY <1>4 DEF CommitDiscountRule
  <2>. QED
    BY <1>3, <2>1
    DEF RatingInv, RatingTyped, Segregated, OneCurrentRun, RunsAuthorized, Authorized
<1>5. CASE CommitRequest(c) \/ CommitDecision(c)
  <2>1. /\ overrides' \in Seq(Overrides)
        /\ Segregated'
        /\ UNCHANGED <<discounted, runs>>
        /\ \A o \in DOMAIN overrides : overrides[o].state = "APPROVED" =>
              o \in DOMAIN overrides' /\ overrides'[o] = overrides[o]
    BY <1>5, DecisionCommits
  <2>2. RunsAuthorized'
    BY <2>1 DEF RatingInv, RunsAuthorized, Authorized
  <2>. QED  BY <1>3, <2>1, <2>2 DEF RatingInv, RatingTyped, OneCurrentRun
<1>6. CASE CommitRun(c)
  <2>1. /\ runs' \in Seq(Runs)
        /\ OneCurrentRun'
        /\ RunsAuthorized'
        /\ UNCHANGED <<discounted, overrides>>
    BY <1>6, RunCommits
  <2>. QED  BY <1>3, <2>1 DEF RatingInv, RatingTyped, Segregated, Authorized
<1>. QED  BY <1>1, <1>4, <1>5, <1>6

LEMMA RatingNext ==
    ASSUME Serial, RatingInv, [Next]_vars
    PROVE  RatingInv'
<1>1. Serialized'
  BY SerializedStep DEF RatingInv
<1>2. CASE /\ ~ \E c \in Clients : MeteringStep(c) /\ UNCHANGED ratingVars
           /\ ~ \E c \in Clients : RatingStep(c) /\ UNCHANGED meteringVars
  <2>1. UNCHANGED <<meteringVars, ratingVars>> /\ Unmoved((MeteringOps \cup RatingOps) \ {"idle"})
    BY <1>2, RatingRests DEF RatingInv, Serialized
  <2>2. CompleteRuns' = CompleteRuns /\ \A run : Authorized(run)' <=> Authorized(run)
    BY <2>1 DEF CompleteRuns, Authorized, ratingVars
  <2>3. \A c \in Clients : UsageHeld(c)' /\ RatingHeld(c)'
    <3>. SUFFICES ASSUME NEW c \in Clients PROVE UsageHeld(c)' /\ RatingHeld(c)'
      OBVIOUS
    <3>1. CASE session'[c].op \notin (MeteringOps \cup RatingOps) \ {"idle"}
      BY <3>1 DEF UsageHeld, RatingHeld, MeteringOps, RatingOps
    <3>2. CASE session'[c] = session[c]
      BY <2>1, <2>2, <3>2 DEF RatingInv, UsageHeld, RatingHeld, ratingVars
    <3>. QED  BY <2>1, <3>1, <3>2 DEF Unmoved
  <2>. QED
    BY <1>1, <2>1, <2>2, <2>3
    DEF RatingInv, RatingTyped, Segregated, OneCurrentRun, RunsAuthorized, meteringVars, ratingVars
<1>3. ASSUME NEW c \in Clients, MeteringStep(c) \/ RatingStep(c)
      PROVE  \A d \in Clients : d # c => UsageHeld(d)' /\ RatingHeld(d)'
  <2>1. PICK ops : Turns(c, ops)
    BY <1>3, MeteringTurns, RatingTurns DEF RatingInv, Serialized
  <2>2. \A d \in Clients : d # c => ~InTransaction(d)'
    BY <2>1, OthersOut DEF RatingInv
  <2>3. \A d \in Clients : d # c => session'[d] = session[d]
    BY <2>1 DEF Turns, RatingInv, Serialized, SessionFunction
  <2>. QED  BY <2>2, <2>3 DEF RatingInv, InTransaction, UsageHeld, RatingHeld
<1>4. ASSUME NEW c \in Clients, MeteringStep(c), UNCHANGED ratingVars
      PROVE  RatingInv'
  <2>1. RatingTyped' /\ UsageHeld(c)'
    BY <1>4, MeteringTypes
  <2>2. RatingHeld(c)'
    BY <1>4, MeteringTurns DEF RatingInv, Serialized, Turns, MeteringOps, RatingHeld
  <2>3. Segregated' /\ OneCurrentRun' /\ RunsAuthorized'
    BY <1>4 DEF RatingInv, Segregated, OneCurrentRun, RunsAuthorized, Authorized, ratingVars
  <2>. QED  BY <1>1, <1>3, <1>4, <2>1, <2>2, <2>3 DEF RatingInv
<1>5. ASSUME NEW c \in Clients, RatingStep(c), UNCHANGED meteringVars
      PROVE  RatingInv'
  <2>1. CASE session[c].op \in {"idle", "usage_read"}
    <3>1. UNCHANGED ratingVars /\ UsageHeld(c)' /\ RatingHeld(c)'
      BY <1>5, <2>1, RatingBegins
    <3>2. RatingTyped'
      BY <1>5, <3>1 DEF RatingInv, RatingTyped, meteringVars, ratingVars
    <3>3. Segregated' /\ OneCurrentRun' /\ RunsAuthorized'
      BY <3>1 DEF RatingInv, Segregated, OneCurrentRun, RunsAuthorized, Authorized, ratingVars
    <3>. QED  BY <1>1, <1>3, <1>5, <3>1, <3>2, <3>3 DEF RatingInv
  <2>2. CASE session[c].op \notin {"idle", "usage_read"}
    <3>1. /\ UsageHeld(c)' /\ RatingHeld(c)'
          /\ discounted' \in BOOLEAN /\ overrides' \in Seq(Overrides) /\ runs' \in Seq(Runs)
          /\ Segregated' /\ OneCurrentRun' /\ RunsAuthorized'
      BY <1>5, <2>2, RatingCommits
    <3>2. RatingTyped'
      BY <1>5, <3>1 DEF RatingInv, RatingTyped, meteringVars
    <3>. QED  BY <1>1, <1>3, <1>5, <3>1, <3>2 DEF RatingInv
  <2>. QED  BY <2>1, <2>2
<1>. QED  BY <1>2, <1>4, <1>5

\* rate_subscription: any number of ratings of one period leave one run that
\* counts, the last that did not fail.
THEOREM OneRunCounts == Serial => (Spec => []OneCurrentRun)
<1>. SUFFICES ASSUME Serial PROVE Spec => []OneCurrentRun
  OBVIOUS
<1>1. Init => RatingInv
  BY RatingInitial
<1>2. RatingInv /\ [Next]_vars => RatingInv'
  BY RatingNext
<1>3. RatingInv => OneCurrentRun
  BY DEF RatingInv
<1>. QED  BY <1>1, <1>2, <1>3, PTL DEF Spec

\* Whatever the list price, the discount, the floor and the overrides asked
\* for, what was billed below the floor was approved by a second person.
THEOREM FloorNeedsApproval == Serial => (Spec => []BelowFloorApproved)
<1>. SUFFICES ASSUME Serial PROVE Spec => []BelowFloorApproved
  OBVIOUS
<1>1. Init => RatingInv
  BY RatingInitial
<1>2. RatingInv /\ [Next]_vars => RatingInv'
  BY RatingNext
<1>3. RatingInv => BelowFloorApproved
  BY DEF RatingInv, RunsAuthorized, Authorized, Segregated, BelowFloorApproved
<1>. QED  BY <1>1, <1>2, <1>3, PTL DEF Spec

-----------------------------------------------------------------------------
(***************************************************************************)
(* What is billed of a frozen period. A rating reads the usage in one      *)
(* transaction and writes its run in another, so that a period may be      *)
(* frozen in between, and RunServesFrozen fails. It holds from any moment  *)
(* on at which the period is frozen and no rating is half done: what is    *)
(* read from then on is the frozen figure (ReadFrozen).                    *)
(***************************************************************************)
HalfRated(c) == session[c].op \in {"usage_read", "rate"}

ReadFrozen ==
    \A c \in Clients :
       /\ session[c].op = "usage_read" => session[c].quantity = aggregate.quantity
       /\ session[c].op = "rate" => session[c].run.quantity = aggregate.quantity

ServesInv == FrozenInv /\ Frozen /\ ReadFrozen

\* A rating begins with the frozen figure, and goes on with what it began with.
LEMMA ServesStep ==
    ASSUME Serial, ServesInv, [Next]_vars
    PROVE  ServesInv'
<1>1. FrozenInv' /\ aggregate' = aggregate /\ Frozen'
  BY FrozenStep DEF ServesInv, Frozen
<1>2. SessionFunction
  BY DEF ServesInv, FrozenInv, Serialized
<1>3. ASSUME NEW c \in Clients
      PROVE  /\ session'[c].op = "usage_read" => session'[c].quantity = aggregate.quantity
             /\ session'[c].op = "rate" => session'[c].run.quantity = aggregate.quantity
  <2>1. CASE session'[c] = session[c]
    BY <2>1 DEF ServesInv, ReadFrozen
  <2>2. CASE ReadUsage(c)
    BY <1>2, <2>2 DEF ReadUsage, Begins, SessionFunction, Usage, ServesInv
  <2>3. CASE Rate(c)
    <3>1. /\ session'[c].op = "rate" /\ session'[c].run = Rated(session[c].quantity)
          /\ session[c].quantity = aggregate.quantity
      BY <1>2, <2>3 DEF Rate, SessionFunction, ServesInv, ReadFrozen
    <3>. QED  BY <3>1 DEF Rated
  <2>4. CASE RatingStep(c) /\ ~ReadUsage(c) /\ ~Rate(c)
    BY <1>2, <2>4
    DEF RatingStep, CreateDiscountRule, RequestOverride, DecideOverride, CommitDiscountRule,
        CommitRequest, CommitDecision, CommitRun, Begins, Commits, SessionFunction, Idle
  <2>5. ASSUME NEW d \in Clients, RatingStep(d), d # c PROVE session'[c] = session[c]
    BY <1>2, <2>5, RatingTurns DEF Turns, SessionFunction
  <2>6. ASSUME NEW d \in Clients,
               \/ MeteringStep(d) \/ BillingStep(d) \/ PartnersStep(d) \/ LicensingStep(d)
        PROVE  Unmoved({"usage_read", "rate"})
    <3>1. PICK ops \in {MeteringOps, BillingOps, PartnersOps, LicensingOps} : Turns(d, ops)
      BY <1>2, <2>6, MeteringTurns, BillingTurns, PartnersTurns, LicensingTurns
    <3>. QED
      BY <1>2, <3>1, TurnsElsewhere DEF MeteringOps, BillingOps, PartnersOps, LicensingOps
  <2>7. CASE session' = session \/ \E d \in Clients : Breaks(d)
    BY <1>2, <2>7, BreaksElsewhere, <2>1 DEF Unmoved
  <2>. QED
    BY <2>1, <2>2, <2>3, <2>4, <2>5, <2>6, <2>7 DEF Next, vars, Unmoved
<1>. QED  BY <1>1, <1>3 DEF ServesInv, ReadFrozen

\* rate_subscription: once a period is frozen, every rating that begins bills
\* the frozen figure, for good, whatever is recorded or adjusted after and
\* however many ratings there are.
THEOREM FrozenIsBilled ==
    Serial => (Spec => [](Frozen /\ (\A c \in Clients : ~HalfRated(c)) => RunServesFrozen))
<1>. SUFFICES ASSUME Serial
              PROVE  Spec => [](Frozen /\ (\A c \in Clients : ~HalfRated(c)) => RunServesFrozen)
  OBVIOUS
<1>1. FrozenInv /\ [Next]_vars => FrozenInv'
  BY FrozenStep
<1>2. FrozenInv /\ Frozen /\ (\A c \in Clients : ~HalfRated(c)) => ServesInv
  BY DEF ServesInv, ReadFrozen, HalfRated
<1>3. ServesInv /\ [Next]_vars => ServesInv'
  BY ServesStep
<1>4. ServesInv /\ [Next]_vars =>
        [\A c \in Clients : (CommitRun(c) /\ Frozen) =>
            session[c].run.quantity = aggregate.quantity]_vars
  BY DEF ServesInv, ReadFrozen, CommitRun
<1>. QED  BY <1>1, <1>2, <1>3, <1>4, FrozenInit, PTL DEF Spec, RunServesFrozen

-----------------------------------------------------------------------------
(***************************************************************************)
(* Licensing: what was revoked stays revoked, and a token enrolls one      *)
(* instance.                                                               *)
(*                                                                         *)
(* RevokedIsFinal is a property of steps: it takes that a renewal or an    *)
(* activation that read a license not revoked finds it so when it commits  *)
(* (LicensingHeld). TokenEnrollsOnce is proved without counting: the       *)
(* instances of a token are none, or one (EnrolledOnce).                   *)
(***************************************************************************)

LicensingTyped ==
    /\ today \in Nat
    /\ tokens \in [Tokens -> EnrollmentTokens]
    /\ instances \in Seq(Instances)
    /\ licenses \in Seq(Licenses)

\* What a transaction of licensing read, and still holds: a token it creates
\* is new, a token it enrolls with is pending, and a license it activates or
\* renews is not revoked.
LicensingHeld(c) ==
    LET s == session[c] IN
    /\ s.op = "token" => s.token \in Tokens /\ tokens[s.token] = NoToken /\ s.expires \in Nat
    /\ s.op = "enroll" => s.token \in Tokens /\ tokens[s.token].state = "PENDING"
    /\ s.op = "revoke_instance" => s.id \in DOMAIN instances
    /\ s.op = "issue" => s.instance \in Nat /\ s.ends \in Nat
    /\ s.op = "activate_license" => /\ s.id \in DOMAIN licenses
                                    /\ licenses[s.id].state # "REVOKED"
                                    /\ s.instance \in Nat
    /\ s.op = "revoke_license" => s.id \in DOMAIN licenses
    /\ s.op = "renew" => /\ s.id \in DOMAIN licenses
                         /\ licenses[s.id].state # "REVOKED"
                         /\ s.ends \in Nat

Enrolled(t) == {i \in DOMAIN instances : instances[i].token = t}

\* TokenEnrollsOnce, without counting.
EnrolledOnce ==
    \A t \in Tokens :
       /\ tokens[t].state = "CONSUMED" => \E i \in DOMAIN instances : Enrolled(t) = {i}
       /\ tokens[t].state # "CONSUMED" => Enrolled(t) = {}

LicensingInv ==
    /\ Serialized
    /\ LicensingTyped
    /\ \A c \in Clients : LicensingHeld(c)
    /\ EnrolledOnce

LEMMA LicensingInitial == Init => LicensingInv
  BY SerializedInit, LicensingAssumption
  DEF Init, SessionsInit, LicensingInit, LicensingInv, LicensingTyped, LicensingHeld,
      EnrolledOnce, Enrolled, EnrollmentTokens, NoToken, Idle

\* Where licensing does nothing, neither does what its requests hold.
LEMMA LicensingRests ==
    ASSUME SessionFunction, [Next]_vars, ~ \E c \in Clients : LicensingStep(c)
    PROVE  /\ UNCHANGED <<tokens, instances, licenses, files>>
           /\ today' \in {today, today + 1}
           /\ Unmoved(LicensingOps \ {"idle"})
<1>1. CASE \E c \in Clients : /\ MeteringStep(c) \/ RatingStep(c) \/ BillingStep(c)
                                 \/ PartnersStep(c)
                              /\ UNCHANGED licensingVars
  <2>1. PICK c \in Clients : /\ MeteringStep(c) \/ RatingStep(c) \/ BillingStep(c)
                                \/ PartnersStep(c)
                             /\ UNCHANGED licensingVars
    BY <1>1
  <2>2. \/ Turns(c, MeteringOps) \/ Turns(c, RatingOps) \/ Turns(c, BillingOps)
        \/ Turns(c, PartnersOps)
    BY <2>1, MeteringTurns, RatingTurns, BillingTurns, PartnersTurns
  <2>3. Unmoved(LicensingOps \ {"idle"})
    BY <2>2, TurnsElsewhere
    DEF MeteringOps, RatingOps, BillingOps, PartnersOps, LicensingOps
  <2>. QED  BY <2>1, <2>3 DEF licensingVars
<1>2. CASE /\ UNCHANGED <<tokens, instances, licenses, files>>
           /\ today' \in {today, today + 1}
           /\ session' = session \/ \E c \in Clients : Breaks(c)
  BY <1>2, BreaksElsewhere
<1>. QED  BY <1>1, <1>2 DEF Next, vars, DayPasses, licensingVars

\* A revoked license and a revoked instance stay so through a step.
StaysRevoked ==
    /\ \A l \in DOMAIN licenses : licenses[l].state = "REVOKED" => licenses'[l].state = "REVOKED"
    /\ \A i \in DOMAIN instances :
          instances[i].state = "REVOKED" => instances'[i].state = "REVOKED"

\* A request that begins has read what it holds.
LEMMA LicensingBegins ==
    ASSUME LicensingInv, NEW c \in Clients, LicensingStep(c), session[c] = Idle
    PROVE  UNCHANGED licensingVars /\ LicensingHeld(c)'
<1>1. DOMAIN instances \subseteq Nat /\ today + TokenDays \in Nat /\ Days \subseteq Nat
  BY LicensingAssumption DEF LicensingInv, LicensingTyped
<1>2. PICK request : session' = [session EXCEPT ![c] = request] /\ session'[c] = request
  BY DEF LicensingStep, CreateToken, EnrollInstance, RevokeInstance, IssueLicense, SignFile,
         ActivateLicense, RevokeLicense, RenewLicense, Begins, CommitToken, CommitEnrollment,
         CommitInstanceRevocation, CommitIssue, CommitFile, CommitLicenseActivation,
         CommitLicenseRevocation, CommitRenewal, Idle, LicensingInv, Serialized,
         SessionFunction
<1>3. CASE \E t \in Tokens : CreateToken(c, t) \/ EnrollInstance(c, t)
  BY <1>1, <1>2, <1>3 DEF CreateToken, EnrollInstance, Begins, LicensingHeld, licensingVars,
     LicensingInv, Serialized, SessionFunction
<1>4. CASE \E i \in DOMAIN instances : RevokeInstance(c, i)
  BY <1>4 DEF RevokeInstance, Begins, LicensingHeld, licensingVars, LicensingInv, Serialized,
     SessionFunction
<1>5. CASE \E i \in DOMAIN instances \cup {0}, ends \in Days : IssueLicense(c, i, ends)
  BY <1>1, <1>5 DEF IssueLicense, Begins, LicensingHeld, licensingVars, LicensingInv, Serialized,
     SessionFunction
<1>6. CASE \E l \in DOMAIN licenses : SignFile(c, l) \/ RevokeLicense(c, l)
  BY <1>6 DEF SignFile, RevokeLicense, Begins, LicensingHeld, licensingVars, LicensingInv,
     Serialized, SessionFunction
<1>7. CASE \E l \in DOMAIN licenses : \E i \in DOMAIN instances : ActivateLicense(c, l, i)
  BY <1>1, <1>7 DEF ActivateLicense, Begins, LicensingHeld, licensingVars, LicensingInv,
     Serialized, SessionFunction
<1>8. CASE \E l \in DOMAIN licenses : \E ends \in Days : RenewLicense(c, l, ends)
  BY <1>1, <1>8 DEF RenewLicense, Renewable, Begins, LicensingHeld, licensingVars,
     LicensingInv, Serialized, SessionFunction
<1>. QED
  BY <1>3, <1>4, <1>5, <1>6, <1>7, <1>8
  DEF LicensingStep, CommitToken, CommitEnrollment, CommitInstanceRevocation, CommitIssue,
      CommitFile, CommitLicenseActivation, CommitLicenseRevocation, CommitRenewal, Idle

\* Enrolling spends the pending token on the one instance it adds.
LEMMA EnrollmentSpends ==
    ASSUME LicensingInv, NEW c \in Clients, CommitEnrollment(c)
    PROVE  LicensingTyped' /\ EnrolledOnce' /\ StaysRevoked
<1>1. PICK t \in Tokens : t = session[c].token /\ tokens[t].state = "PENDING"
  BY DEF LicensingInv, LicensingHeld, CommitEnrollment
<1>2. PICK row \in Instances : row = [token |-> t, state |-> "ACTIVE"]
  BY DEF Instances
<1>3. /\ instances' = Append(instances, row)
      /\ tokens' = [tokens EXCEPT ![t].state = "CONSUMED"]
      /\ UNCHANGED <<today, licenses>>
  BY <1>1, <1>2 DEF CommitEnrollment
<1>4. PICK i : i = Len(instances) + 1
  OBVIOUS
<1>5. /\ instances' \in Seq(Instances)
      /\ DOMAIN instances' = DOMAIN instances \cup {i} /\ i \notin DOMAIN instances
      /\ instances'[i].token = t
      /\ \A j \in DOMAIN instances : instances'[j] = instances[j]
  BY <1>2, <1>3, <1>4, RowAdded DEF LicensingInv, LicensingTyped
<1>6. /\ tokens' \in [Tokens -> EnrollmentTokens]
      /\ tokens'[t].state = "CONSUMED"
      /\ \A u \in Tokens \ {t} : tokens'[u] = tokens[u]
  BY <1>3 DEF LicensingInv, LicensingTyped, EnrollmentTokens
<1>7. Enrolled(t) = {}
  BY <1>1 DEF LicensingInv, EnrolledOnce
<1>8. Enrolled(t)' = {i}
  BY <1>5, <1>7 DEF Enrolled
<1>9. \A u \in Tokens \ {t} : Enrolled(u)' = Enrolled(u)
  BY <1>5 DEF Enrolled
<1>10. EnrolledOnce'
  BY <1>5, <1>6, <1>8, <1>9 DEF LicensingInv, EnrolledOnce
<1>. QED  BY <1>3, <1>5, <1>6, <1>10 DEF LicensingInv, LicensingTyped, StaysRevoked

\* The commits that concern licenses and files keep the rows in order.
LEMMA LicenseCommits ==
    ASSUME LicensingInv, NEW c \in Clients,
           \/ CommitIssue(c) \/ CommitFile(c) \/ CommitLicenseActivation(c)
           \/ CommitLicenseRevocation(c) \/ CommitRenewal(c)
    PROVE  /\ UNCHANGED <<today, tokens, instances>>
           /\ licenses' \in Seq(Licenses)
           /\ \A l \in DOMAIN licenses :
                 licenses[l].state = "REVOKED" => licenses'[l].state = "REVOKED"
<1>1. UNCHANGED <<today, tokens, instances>>
  BY DEF CommitIssue, CommitFile, CommitLicenseActivation, CommitLicenseRevocation,
     CommitRenewal
<1>2. CASE CommitIssue(c)
  <2>1. PICK row \in Licenses : licenses' = Append(licenses, row)
    BY <1>2 DEF CommitIssue, LicensingInv, LicensingHeld, Licenses
  <2>. QED  BY <1>1, <2>1, RowAdded DEF LicensingInv, LicensingTyped
<1>3. CASE CommitFile(c)
  BY <1>1, <1>3 DEF CommitFile, LicensingInv, LicensingTyped
<1>4. CASE CommitLicenseActivation(c) \/ CommitLicenseRevocation(c) \/ CommitRenewal(c)
  <2>1. PICK id \in DOMAIN licenses : id = session[c].id
    BY <1>4 DEF CommitLicenseActivation, CommitLicenseRevocation, CommitRenewal, LicensingInv,
       LicensingHeld
  <2>2. licenses[id] \in Licenses
    BY <2>1 DEF LicensingInv, LicensingTyped
  <2>3. PICK row \in Licenses :
           /\ licenses' = [licenses EXCEPT ![id] = row]
           /\ licenses[id].state = "REVOKED" => row.state = "REVOKED"
    <3>1. CASE CommitLicenseActivation(c)
      BY <2>1, <2>2, <3>1 DEF CommitLicenseActivation, LicensingInv, LicensingHeld, Licenses
    <3>2. CASE CommitLicenseRevocation(c)
      BY <2>1, <2>2, <3>2 DEF CommitLicenseRevocation, Licenses
    <3>3. CASE CommitRenewal(c)
      BY <2>1, <2>2, <3>3 DEF CommitRenewal, LicensingInv, LicensingHeld, Licenses
    <3>. QED  BY <1>4, <3>1, <3>2, <3>3
  <2>. QED  BY <1>1, <2>1, <2>3, RowChanged DEF LicensingInv, LicensingTyped
<1>. QED  BY <1>2, <1>3, <1>4

\* A commit of licensing keeps the rows in order.
LEMMA LicensingCommits ==
    ASSUME LicensingInv, NEW c \in Clients, LicensingStep(c), session[c] # Idle
    PROVE  LicensingTyped' /\ EnrolledOnce' /\ StaysRevoked /\ LicensingHeld(c)'
<1>1. session'[c] = Idle
  BY DEF LicensingStep, CreateToken, EnrollInstance, RevokeInstance, IssueLicense, SignFile,
         ActivateLicense, RevokeLicense, RenewLicense, Begins, CommitToken, CommitEnrollment,
         CommitInstanceRevocation, CommitIssue, CommitFile, CommitLicenseActivation,
         CommitLicenseRevocation, CommitRenewal, Commits, LicensingInv, Serialized,
         SessionFunction
<1>2. LicensingHeld(c)'
  BY <1>1 DEF LicensingHeld, Idle
<1>3. CASE CommitToken(c)
  <2>1. PICK t \in Tokens : t = session[c].token /\ tokens[t].state = "none"
    BY <1>3 DEF CommitToken, LicensingInv, LicensingHeld, NoToken
  <2>2. /\ tokens' \in [Tokens -> EnrollmentTokens]
        /\ tokens'[t].state = "PENDING"
        /\ \A u \in Tokens \ {t} : tokens'[u] = tokens[u]
        /\ UNCHANGED <<today, instances, licenses>>
    BY <1>3, <2>1
    DEF CommitToken, LicensingInv, LicensingTyped, LicensingHeld, EnrollmentTokens
  <2>3. \A u \in Tokens : Enrolled(u)' = Enrolled(u)
    BY <2>2 DEF Enrolled
  <2>. QED
    BY <1>2, <2>1, <2>2, <2>3
    DEF LicensingInv, LicensingTyped, EnrolledOnce, StaysRevoked
<1>4. CASE CommitEnrollment(c)
  BY <1>2, <1>4, EnrollmentSpends
<1>5. CASE CommitInstanceRevocation(c)
  <2>1. PICK id \in DOMAIN instances : id = session[c].id
    BY <1>5 DEF CommitInstanceRevocation, LicensingInv, LicensingHeld
  <2>2. PICK row \in Instances : row = [instances[id] EXCEPT !.state = "REVOKED"]
    <3>1. instances[id] \in Instances
      BY <2>1 DEF LicensingInv, LicensingTyped
    <3>. QED  BY <3>1 DEF Instances
  <2>3. row.state = "REVOKED" /\ row.token = instances[id].token
    BY <2>1, <2>2 DEF LicensingInv, LicensingTyped, Instances
  <2>4. instances' = [instances EXCEPT ![id] = row] /\ UNCHANGED <<today, tokens, licenses>>
    BY <1>5, <2>1, <2>2 DEF CommitInstanceRevocation
  <2>5. /\ instances' \in Seq(Instances)
        /\ DOMAIN instances' = DOMAIN instances
        /\ \A i \in DOMAIN instances :
              /\ instances'[i].token = instances[i].token
              /\ instances[i].state = "REVOKED" => instances'[i].state = "REVOKED"
    BY <2>3, <2>4, RowChanged DEF LicensingInv, LicensingTyped
  <2>6. \A t \in Tokens : Enrolled(t)' = Enrolled(t)
    BY <2>5 DEF Enrolled
  <2>7. EnrolledOnce'
    BY <2>4, <2>5, <2>6 DEF LicensingInv, EnrolledOnce
  <2>. QED  BY <1>2, <2>4, <2>5, <2>7 DEF LicensingInv, LicensingTyped, StaysRevoked
<1>6. CASE \/ CommitIssue(c) \/ CommitFile(c) \/ CommitLicenseActivation(c)
           \/ CommitLicenseRevocation(c) \/ CommitRenewal(c)
  <2>1. /\ UNCHANGED <<today, tokens, instances>>
        /\ licenses' \in Seq(Licenses)
        /\ \A l \in DOMAIN licenses :
              licenses[l].state = "REVOKED" => licenses'[l].state = "REVOKED"
    BY <1>6, LicenseCommits
  <2>2. LicensingTyped'
    BY <2>1 DEF LicensingInv, LicensingTyped
  <2>3. EnrolledOnce'
    BY <2>1 DEF LicensingInv, EnrolledOnce, Enrolled
  <2>4. StaysRevoked
    BY <2>1 DEF StaysRevoked
  <2>. QED  BY <1>2, <2>2, <2>3, <2>4
<1>. QED
  BY <1>3, <1>4, <1>5, <1>6
  DEF LicensingStep, CreateToken, EnrollInstance, RevokeInstance, IssueLicense, SignFile,
      ActivateLicense, RevokeLicense, RenewLicense, Begins

LEMMA LicensingNext ==
    ASSUME Serial, LicensingInv, [Next]_vars
    PROVE  LicensingInv' /\ StaysRevoked
<1>1. Serialized'
  BY SerializedStep DEF LicensingInv
<1>2. CASE ~ \E c \in Clients : LicensingStep(c)
  <2>1. UNCHANGED <<tokens, instances, licenses>> /\ today' \in {today, today + 1}
    BY <1>2, LicensingRests DEF LicensingInv, Serialized
  <2>2. Unmoved(LicensingOps \ {"idle"})
    BY <1>2, LicensingRests DEF LicensingInv, Serialized
  <2>3. \A c \in Clients : LicensingHeld(c)'
    BY <2>1, <2>2 DEF LicensingInv, LicensingHeld, Unmoved, LicensingOps
  <2>. QED
    BY <1>1, <2>1, <2>3
    DEF LicensingInv, LicensingTyped, EnrolledOnce, Enrolled, StaysRevoked
<1>3. CASE \E c \in Clients : LicensingStep(c)
  <2>1. PICK c \in Clients : LicensingStep(c)
    BY <1>3
  <2>2. \A d \in Clients : d # c => ~InTransaction(d)'
    BY <2>1, LicensingTurns, OthersOut DEF LicensingInv, Serialized
  <2>3. \A d \in Clients : d # c => LicensingHeld(d)'
    BY <2>2 DEF InTransaction, LicensingHeld
  <2>4. CASE session[c] = Idle
    <3>1. UNCHANGED licensingVars /\ LicensingHeld(c)'
      BY <2>1, <2>4, LicensingBegins
    <3>. QED
      BY <1>1, <2>3, <3>1
      DEF LicensingInv, LicensingTyped, EnrolledOnce, Enrolled, StaysRevoked, licensingVars
  <2>5. CASE session[c] # Idle
    BY <1>1, <2>1, <2>3, <2>5, LicensingCommits DEF LicensingInv
  <2>. QED  BY <2>4, <2>5
<1>. QED  BY <1>2, <1>3

\* revoke_license, revoke_instance: no activation, renewal, enrollment or
\* signature brings back what was revoked, however many are under way.
THEOREM RevokedForGood == Serial => (Spec => RevokedIsFinal)
<1>. SUFFICES ASSUME Serial PROVE Spec => RevokedIsFinal
  OBVIOUS
<1>1. Init => LicensingInv
  BY LicensingInitial
<1>2. LicensingInv /\ [Next]_vars => LicensingInv'
  BY LicensingNext
<1>3. LicensingInv /\ [Next]_vars => [StaysRevoked]_vars
  BY LicensingNext
<1>. QED  BY <1>1, <1>2, <1>3, PTL DEF Spec, RevokedIsFinal, StaysRevoked

\* enroll_instance: a token provisions one instance, and one that was not
\* consumed provisions none.
THEOREM OneInstancePerToken == Serial => (Spec => []TokenEnrollsOnce)
<1>. SUFFICES ASSUME Serial PROVE Spec => []TokenEnrollsOnce
  OBVIOUS
<1>1. Init => LicensingInv
  BY LicensingInitial
<1>2. LicensingInv /\ [Next]_vars => LicensingInv'
  BY LicensingNext
<1>3. LicensingInv => TokenEnrollsOnce
  BY FS_EmptySet, FS_Singleton DEF LicensingInv, EnrolledOnce, Enrolled, TokenEnrollsOnce
<1>. QED  BY <1>1, <1>2, <1>3, PTL DEF Spec
=============================================================================
