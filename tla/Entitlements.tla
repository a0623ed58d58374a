----------------------------- MODULE Entitlements -----------------------------
(***************************************************************************)
(* The entitlement gate of the control plane for one tenant and one        *)
(* METERED_QUOTA code: check_access in its modes CHECK, RESERVE, COMMIT    *)
(* and RELEASE, consume, the sweep of lapsed reservations, and what moves  *)
(* under it: the tenant's subscriptions, the entitlement overrides and     *)
(* time.                                                                   *)
(*                                                                         *)
(* Every call is one database transaction. It chooses the tenant's         *)
(* authoritative subscription (Begin), takes that row's lock, re-reads the *)
(* row and decides (Admit...), and writes and commits (Finish...). On      *)
(* SQLite, BEGIN IMMEDIATE makes the whole a critical section (Serial). On *)
(* PostgreSQL, READ COMMITTED leaves only the lock on the chosen row.      *)
(* A call that fails, crashes or loses its connection rolls back (Abort).  *)
(***************************************************************************)
EXTENDS SubscriptionStates, FiniteSets, Functions

CONSTANTS
    NumSubs,            \* the tenant's subscriptions are 1..NumSubs, oldest first
    Keys,               \* idempotency keys; a key names its reservation row
    Clients,            \* the sessions that call the gate
    Requests,           \* the quantities RESERVE and consume ask for
    Actuals,            \* the quantities COMMIT reports
    PlanLimit,          \* the plan's limit for the code; NULL: unlimited
    OverrideLimits,     \* the limits of the overrides staff may grant
    OverrideEnds,       \* their expires_at columns
    Operations,         \* the operations the subscription service is asked for
    ReservationTTL,     \* the life of a hold
    PeriodLength,       \* the length of a billing period
    Serial,             \* TRUE: SQLite; FALSE: PostgreSQL
    MaxOverrides,       \* bound: the overrides of one subscription
    MaxClock            \* bound: the last instant

ASSUME EntitlementsAssumption ==
    /\ NumSubs \in Nat
    /\ Requests \subseteq Nat
    /\ Actuals \subseteq Nat
    /\ PlanLimit \in TimeOrNull
    /\ OverrideLimits \subseteq TimeOrNull
    /\ OverrideEnds \subseteq TimeOrNull
    /\ Operations \subseteq Transactions
    /\ ReservationTTL \in Nat
    /\ PeriodLength \in Nat \ {0}
    /\ Serial \in BOOLEAN
    /\ MaxClock \in Nat

VARIABLES
    sub,        \* the subscription rows
    overrides,  \* the active entitlement_overrides rows of each subscription
    ent,        \* the resolved entitlements row of each subscription
    resv,       \* the quota_reservations row of each key
    consumed,   \* quota_consumption: by subscription and period
    charged,    \* history: all that _add_consumption was given for each key
    clock,
    txn         \* the transaction each client has open

booksVars == <<resv, consumed, charged>>
vars == <<sub, overrides, ent, resv, consumed, charged, clock, txn>>

Subs == 1..NumSubs
Times == 0..MaxClock

\* period_key: every instant belongs to one billing period.
PeriodOf(now) == now \div PeriodLength
Periods == {PeriodOf(now) : now \in Times}

OverrideRow == [limit : OverrideLimits, expires : OverrideEnds]
EntRow == [source : {"NONE", "PLAN", "OVERRIDE"}, limit : TimeOrNull,
           expires : TimeOrNull]
NoEnt == [source |-> "NONE", limit |-> NULL, expires |-> NULL]
PlanEnt == [source |-> "PLAN", limit |-> PlanLimit, expires |-> NULL]

ResvStates == {"NONE", "RESERVED", "COMMITTED", "RELEASED", "EXPIRED"}
Reservation == [state : ResvStates, sub : Subs \cup {NULL},
                period : Periods \cup {NULL}, qty : Nat, committed : Nat,
                expires : TimeOrNull]
NoResv == [state |-> "NONE", sub |-> NULL, period |-> NULL, qty |-> 0,
           committed |-> 0, expires |-> NULL]

Modes == {"RESERVE", "COMMIT", "RELEASE", "CONSUME"}

\* phase "chosen": the subscription is chosen, its lock not yet held;
\* phase "locked": the lock is held, everything is read, nothing is written.
\* A CHECK that found a lapsed override holds no lock and is only "healing".
OpenTxn == [phase : {"chosen", "locked"}, mode : Modes, key : Keys, qty : Nat,
            now : Times, sub : Subs, ent : EntRow, amount : Nat]
HealTxn == [phase : {"healing"}, sub : Subs, ent : EntRow]
Idle == [phase |-> "idle"]

(***************************************************************************)
(* Reading the tables.                                                     *)
(***************************************************************************)
Lapsed(expires, now) == expires # NULL /\ expires < now

\* resolve_in_conn: the rows resolution can leave. An unexpired override wins
\* over the plan; the query gives several of them no order, so any may win.
Resolved(rows, now) ==
    LET live == {o \in rows : ~Lapsed(o.expires, now)} IN
    IF live = {} THEN {PlanEnt}
    ELSE {[source |-> "OVERRIDE", limit |-> o.limit, expires |-> o.expires]
             : o \in live}

\* Faulty: the stored row is taken as it is.
FreshUnhealed(s, now) == {ent[s]}

\* _fresh_entitlement: a row whose override lapsed is resolved again.
FreshEntitlement(s, now) ==
    IF Lapsed(ent[s].expires, now) THEN Resolved(overrides[s], now)
    ELSE {ent[s]}

\* _reserved: the live holds of a subscription and period.
Held(s, p) ==
    SumFunctionOnSet([k \in Keys |-> resv[k].qty],
                     {k \in Keys : /\ resv[k].state = "RESERVED"
                                   /\ resv[k].sub = s
                                   /\ resv[k].period = p})

\* Faulty: what others hold is forgotten.
FitsUnheld(e, s, p, q) ==
    \/ e.limit = NULL
    \/ q <= e.limit - consumed[s][p]

Fits(e, s, p, q) ==
    \/ e.limit = NULL
    \/ q <= e.limit - consumed[s][p] - Held(s, p)

\* _active_subscription: the healthiest honoured row, then the newest.
Candidates == {s \in Subs : sub[s].state \in HonouredStates}

Preferred(s, t) ==
    LET ps == STATE_PRIORITY[sub[s].state]
        pt == STATE_PRIORITY[sub[t].state]
    IN  ps < pt \/ (ps = pt /\ s >= t)

ActiveSubscription == {s \in Candidates : \A t \in Candidates : Preferred(s, t)}

\* Faulty: only what exceeds the hold is charged.
ChargeOverage(reserved, actual) == actual - reserved

\* _commit: int(reserved * 1.10) is the most a commit charges.
Charge(reserved, actual) ==
    LET cap == (reserved * 11) \div 10 IN IF actual < cap THEN actual ELSE cap

(***************************************************************************)
(* Locks. Under SQLite nothing else runs while a transaction is open.      *)
(* Under PostgreSQL the FOR UPDATE lock on a subscription row also stops   *)
(* the inserts of rows that refer to it.                                   *)
(***************************************************************************)
Exclusive == Serial => \A c \in Clients : txn[c] = Idle

\* Faulty: no FOR UPDATE.
UnlockedAlways(s) == TRUE

Unlocked(s) ==
    \A c \in Clients : ~(txn[c].phase = "locked" /\ txn[c].sub = s)

Close(c) == txn' = [txn EXCEPT ![c] = Idle]

(***************************************************************************)
(* Opening a transaction: check_access and consume read the clock before   *)
(* they begin, may wait to begin, and then read the candidate rows.        *)
(***************************************************************************)
Instants == 0..clock

Begin(c, mode, k, q) ==
    /\ txn[c] = Idle
    /\ Exclusive
    /\ \E s \in ActiveSubscription, now \in Instants :
         txn' = [txn EXCEPT ![c] =
             [phase |-> "chosen", mode |-> mode, key |-> k, qty |-> q,
              now |-> now, sub |-> s, ent |-> NoEnt, amount |-> 0]]
    /\ UNCHANGED <<sub, overrides, ent, booksVars, clock>>

\* NO_ACTIVE_SUBSCRIPTION: the call is denied and writes nothing.
DenyUnsubscribed(c) ==
    /\ txn[c] = Idle
    /\ Exclusive
    /\ Candidates = {}
    /\ UNCHANGED vars

Acquires(c, mode) ==
    /\ txn[c].phase = "chosen"
    /\ txn[c].mode = mode
    /\ Unlocked(txn[c].sub)

\* The locked phase of c, with entitlement row e and a quantity to charge.
Proceed(c, e, amount) ==
    /\ txn' = [txn EXCEPT ![c] = [@ EXCEPT !.phase = "locked", !.ent = e,
                                           !.amount = amount]]
    /\ UNCHANGED ent

\* The call ends here; a healed entitlement row is committed with it.
Answer(c, e) ==
    /\ Close(c)
    /\ ent' = [ent EXCEPT ![txn[c].sub] = e]

\* RESERVE: the time window, the read-only states, the entitlement, the
\* replay of a known key, then the quota.
AdmitReserve(c) ==
    /\ Acquires(c, "RESERVE")
    /\ LET t == txn[c]
           p == PeriodOf(t.now)
       IN  IF ~Admits(sub[t.sub], t.now) THEN Answer(c, ent[t.sub])
           ELSE \E e \in FreshEntitlement(t.sub, t.now) :
                  IF /\ e.source # "NONE"
                     /\ resv[t.key].state = "NONE"
                     /\ Fits(e, t.sub, p, t.qty)
                  THEN Proceed(c, e, 0)
                  ELSE Answer(c, e)
    /\ UNCHANGED <<sub, overrides, booksVars, clock>>

\* consume looks for the key before it looks at the entitlement.
AdmitConsume(c) ==
    /\ Acquires(c, "CONSUME")
    /\ LET t == txn[c]
           p == PeriodOf(t.now)
       IN  IF ~Admits(sub[t.sub], t.now) \/ resv[t.key].state # "NONE"
           THEN Answer(c, ent[t.sub])
           ELSE \E e \in FreshEntitlement(t.sub, t.now) :
                  IF e.source # "NONE" /\ Fits(e, t.sub, p, t.qty)
                  THEN Proceed(c, e, t.qty)
                  ELSE Answer(c, e)
    /\ UNCHANGED <<sub, overrides, booksVars, clock>>

\* Faulty: any reservation of the tenant is committed, whatever its state.
AdmitCommitUnguarded(c) ==
    /\ Acquires(c, "COMMIT")
    /\ LET t == txn[c]
       IN  Proceed(c, ent[t.sub], Charge(resv[t.key].qty, t.qty))
    /\ UNCHANGED <<sub, overrides, booksVars, clock>>

\* COMMIT passes no gate; the reservation must be a live hold.
AdmitCommit(c) ==
    /\ Acquires(c, "COMMIT")
    /\ LET t == txn[c]
           r == resv[t.key]
       IN  IF r.state = "RESERVED"
           THEN Proceed(c, ent[t.sub], Charge(r.qty, t.qty))
           ELSE Answer(c, ent[t.sub])
    /\ UNCHANGED <<sub, overrides, booksVars, clock>>

AdmitRelease(c) ==
    /\ Acquires(c, "RELEASE")
    /\ Proceed(c, ent[txn[c].sub], 0)
    /\ UNCHANGED <<sub, overrides, booksVars, clock>>

(***************************************************************************)
(* Writing and committing.                                                 *)
(***************************************************************************)
Finishes(c, mode) ==
    /\ txn[c].phase = "locked"
    /\ txn[c].mode = mode
    /\ Close(c)
    /\ UNCHANGED <<sub, overrides, clock>>

\* _add_consumption
AddConsumption(s, p, k, amount) ==
    /\ consumed' = [consumed EXCEPT ![s][p] = @ + amount]
    /\ charged'  = [charged EXCEPT ![k] = @ + amount]

\* uq_resv_tenant_idem: an insert under a key another transaction used
\* meanwhile fails, and with it the transaction.
FinishReserve(c) ==
    /\ Finishes(c, "RESERVE")
    /\ LET t == txn[c] IN
       IF resv[t.key].state # "NONE" THEN UNCHANGED <<ent, resv>>
       ELSE /\ ent' = [ent EXCEPT ![t.sub] = t.ent]
            /\ resv' = [resv EXCEPT ![t.key] =
                  [state |-> "RESERVED", sub |-> t.sub,
                   period |-> PeriodOf(t.now), qty |-> t.qty, committed |-> 0,
                   expires |-> t.now + ReservationTTL]]
    /\ UNCHANGED <<consumed, charged>>

FinishConsume(c) ==
    /\ Finishes(c, "CONSUME")
    /\ LET t == txn[c] IN
       IF resv[t.key].state # "NONE" THEN UNCHANGED <<ent, booksVars>>
       ELSE /\ ent' = [ent EXCEPT ![t.sub] = t.ent]
            /\ AddConsumption(t.sub, PeriodOf(t.now), t.key, t.amount)
            /\ resv' = [resv EXCEPT ![t.key] =
                  [state |-> "COMMITTED", sub |-> t.sub,
                   period |-> PeriodOf(t.now), qty |-> t.qty,
                   committed |-> t.qty, expires |-> NULL]]

\* Faulty: the charge is booked in the period of the call.
FinishCommitInCallPeriod(c) ==
    /\ Finishes(c, "COMMIT")
    /\ LET t == txn[c] IN
       /\ AddConsumption(t.sub, PeriodOf(t.now), t.key, t.amount)
       /\ resv' = [resv EXCEPT ![t.key].state = "COMMITTED",
                               ![t.key].committed = t.amount]
    /\ UNCHANGED ent

\* The update names the row by id only, whatever its state has become. The
\* books charged are those of the subscription the call chose, in the period
\* of the reservation.
FinishCommit(c) ==
    /\ Finishes(c, "COMMIT")
    /\ LET t == txn[c] IN
       /\ AddConsumption(t.sub, resv[t.key].period, t.key, t.amount)
       /\ resv' = [resv EXCEPT ![t.key].state = "COMMITTED",
                               ![t.key].committed = t.amount]
    /\ UNCHANGED ent

\* A conditional update: only a live hold is released.
FinishRelease(c) ==
    /\ Finishes(c, "RELEASE")
    /\ LET k == txn[c].key IN
       resv' = IF resv[k].state = "RESERVED"
               THEN [resv EXCEPT ![k].state = "RELEASED"] ELSE resv
    /\ UNCHANGED <<ent, consumed, charged>>

Abort(c) ==
    /\ txn[c] # Idle
    /\ Close(c)
    /\ UNCHANGED <<sub, overrides, ent, booksVars, clock>>

(***************************************************************************)
(* CHECK writes nothing but a lapsed entitlement row. It takes no lock: it *)
(* reads the overrides in one statement and replaces the row in a later    *)
(* one, whose reference to the subscription only a lock on it holds up.    *)
(***************************************************************************)
BeginCheck(c) ==
    /\ txn[c] = Idle
    /\ Exclusive
    /\ \E s \in ActiveSubscription, now \in Instants :
         /\ Admits(sub[s], now)
         /\ Lapsed(ent[s].expires, now)
         /\ \E e \in FreshEntitlement(s, now) :
               txn' = [txn EXCEPT ![c] =
                          [phase |-> "healing", sub |-> s, ent |-> e]]
    /\ UNCHANGED <<sub, overrides, ent, booksVars, clock>>

FinishCheck(c) ==
    /\ txn[c].phase = "healing"
    /\ Unlocked(txn[c].sub)
    /\ ent' = [ent EXCEPT ![txn[c].sub] = txn[c].ent]
    /\ Close(c)
    /\ UNCHANGED <<sub, overrides, booksVars, clock>>

(***************************************************************************)
(* What is one statement, or one transaction that reads nothing stale.     *)
(***************************************************************************)
\* Faulty: every lapsed row expires, settled or not.
SweepAnyState ==
    /\ Exclusive
    /\ \E k \in Keys : Lapsed(resv[k].expires, clock)
    /\ resv' = [k \in Keys |->
          IF Lapsed(resv[k].expires, clock)
          THEN [resv[k] EXCEPT !.state = "EXPIRED"] ELSE resv[k]]
    /\ UNCHANGED <<sub, overrides, ent, consumed, charged, clock, txn>>

\* sweep_expired_reservations: one update, no subscription lock.
Sweep ==
    /\ Exclusive
    /\ \E k \in Keys : resv[k].state = "RESERVED" /\ Lapsed(resv[k].expires, clock)
    /\ resv' = [k \in Keys |->
          IF resv[k].state = "RESERVED" /\ Lapsed(resv[k].expires, clock)
          THEN [resv[k] EXCEPT !.state = "EXPIRED"] ELSE resv[k]]
    /\ UNCHANGED <<sub, overrides, ent, consumed, charged, clock, txn>>

\* One transaction of the subscription service on the row.
ChangeSubscription(s, op) ==
    /\ Exclusive
    /\ Unlocked(s)
    /\ Legal(op, sub[s].state)
    /\ sub' = [sub EXCEPT ![s] = Moved(op, sub[s], clock)]
    /\ IF op \in Resolving
       THEN \E e \in Resolved(overrides[s], clock) : ent' = [ent EXCEPT ![s] = e]
       ELSE UNCHANGED ent
    /\ UNCHANGED <<overrides, booksVars, clock, txn>>

\* add_override inserts the exception and resolves in the same transaction.
AddOverride(s, o) ==
    /\ Exclusive
    /\ Unlocked(s)
    /\ Cardinality(overrides[s]) < MaxOverrides
    /\ overrides' = [overrides EXCEPT ![s] = @ \cup {o}]
    /\ \E e \in Resolved(overrides'[s], clock) : ent' = [ent EXCEPT ![s] = e]
    /\ UNCHANGED <<sub, booksVars, clock, txn>>

Tick ==
    /\ clock < MaxClock
    /\ clock' = clock + 1
    /\ UNCHANGED <<sub, overrides, ent, booksVars, txn>>

(***************************************************************************)
(* The specification.                                                      *)
(***************************************************************************)
Init ==
    /\ sub = [s \in Subs |-> DraftRow]
    /\ overrides = [s \in Subs |-> {}]
    /\ ent = [s \in Subs |-> NoEnt]
    /\ resv = [k \in Keys |-> NoResv]
    /\ consumed = [s \in Subs |-> [p \in Periods |-> 0]]
    /\ charged = [k \in Keys |-> 0]
    /\ clock = 0
    /\ txn = [c \in Clients |-> Idle]

Call(c) ==
    \/ \E k \in Keys, q \in Requests :
          Begin(c, "RESERVE", k, q) \/ Begin(c, "CONSUME", k, q)
    \/ \E k \in Keys, q \in Actuals : Begin(c, "COMMIT", k, q)
    \/ \E k \in Keys : Begin(c, "RELEASE", k, 0)
    \/ BeginCheck(c)
    \/ DenyUnsubscribed(c)

Step(c) ==
    \/ AdmitReserve(c) \/ AdmitConsume(c) \/ AdmitCommit(c) \/ AdmitRelease(c)
    \/ FinishReserve(c) \/ FinishConsume(c) \/ FinishCommit(c)
    \/ FinishRelease(c) \/ FinishCheck(c)
    \/ Abort(c)

Next ==
    \/ \E c \in Clients : Call(c) \/ Step(c)
    \/ Sweep
    \/ \E s \in Subs, op \in Operations : ChangeSubscription(s, op)
    \/ \E s \in Subs, o \in OverrideRow : AddOverride(s, o)
    \/ Tick

Spec == Init /\ [][Next]_vars

(***************************************************************************)
(* Properties.                                                             *)
(***************************************************************************)
\* Every column keeps its domain; no balance of the books is negative.
TypeOK ==
    /\ sub \in [Subs -> Row]
    /\ overrides \in [Subs -> SUBSET OverrideRow]
    /\ ent \in [Subs -> EntRow]
    /\ resv \in [Keys -> Reservation]
    /\ consumed \in [Subs -> [Periods -> Nat]]
    /\ charged \in [Keys -> Nat]
    /\ clock \in Times
    /\ txn \in [Clients -> OpenTxn \cup HealTxn \cup {Idle}]

\* Exactly-once charging (consume: "a retry with the same idempotency_key
\* never double-counts"): whatever calls name a key, in whatever order, all
\* that was ever charged for it is what its one committed reservation
\* records, and a hold released or expired charged nothing.
ChargedAsRecorded ==
    \A k \in Keys :
        charged[k] = IF resv[k].state = "COMMITTED" THEN resv[k].committed ELSE 0

\* The books of the tenant reconcile with the reservation ledger in every
\* billing period, also when a hold taken in one period is committed in the
\* next: _commit charges the reservation's own period.
BooksBalance ==
    \A p \in Periods :
        SumFunctionOnSet([s \in Subs |-> consumed[s][p]], Subs) =
        SumFunctionOnSet([k \in Keys |-> resv[k].committed],
                         {k \in Keys : /\ resv[k].state = "COMMITTED"
                                       /\ resv[k].period = p})

LimitsOf(s) == {PlanLimit} \cup {o.limit : o \in overrides[s]}

\* The overage COMMIT_OVERAGE_TOLERANCE allows on what was committed.
Tolerance(s, p) ==
    SumFunctionOnSet([k \in Keys |-> resv[k].qty \div 10],
                     {k \in Keys : /\ resv[k].state = "COMMITTED"
                                   /\ resv[k].sub = s
                                   /\ resv[k].period = p})

\* No oversell (db.py: "read-modify-write transactions (reservations, quota)
\* serialize correctly ... no oversell"): what a subscription consumed and
\* holds in a period never exceeds the largest limit it was ever granted, but
\* for the commit tolerance.
NoOversell ==
    \A s \in Subs, p \in Periods :
        \/ NULL \in LimitsOf(s)
        \/ \E limit \in LimitsOf(s) :
              consumed[s][p] + Held(s, p) <= limit + Tolerance(s, p)

\* The first use of a key: a hold or a direct consumption is granted.
Granted(k) == resv[k].state = "NONE" /\ resv'[k].state # "NONE"

\* add_override "re-resolves entitlements so the override takes effect
\* immediately": while a subscription has an override in force, its resolved
\* entitlement is an override.
OverrideEffective ==
    \A s \in Subs :
        (\E o \in overrides[s] : ~Lapsed(o.expires, clock)) =>
            ent[s].source = "OVERRIDE"

\* A grant fits, once written, under the plan's limit or under an override
\* still in force when the call began: a lapsed override entitles to nothing,
\* although its resolved row is still in the table (_fresh_entitlement).
GrantsFit ==
    [][\A k \in Keys : Granted(k) =>
         \E c \in Clients, s \in Subs, p \in Periods :
            /\ txn[c].phase = "locked" /\ txn[c].key = k /\ txn'[c] = Idle
            /\ resv'[k].sub = s /\ resv'[k].period = p
            /\ \E e \in {PlanEnt} \cup Resolved(overrides[s], txn[c].now) :
                  \/ e.limit = NULL
                  \/ (consumed[s][p] + Held(s, p))' <= e.limit]_vars

\* "DRAFT / PENDING_ACTIVATION / EXPIRED / TERMINATED => no entitlements", and
\* SUSPENDED is read-only: a grant is written only under a subscription that
\* is in a full or warm state at that moment.
GrantsHonoured ==
    [][\A k \in Keys : Granted(k) =>
         \A s \in Subs : resv'[k].sub = s =>
            sub[s].state \in FULL_STATES \cup WARM_STATES]_vars

\* A charge is never undone or repeated: a committed or released reservation
\* keeps its row for ever.
SettledIsFinal ==
    [][\A k \in Keys : resv[k].state \in {"COMMITTED", "RELEASED"} =>
         resv'[k] = resv[k]]_vars

\* The detailed ledger implements the reservation machine of the domain
\* model: every call, and every interleaving of calls, is a step of it.
Protocol == INSTANCE ReservationProtocol WITH
    status   <- [k \in Keys |-> resv[k].state],
    reserved <- [k \in Keys |-> resv[k].qty],
    charged  <- charged

ImplementsProtocol == Protocol!PSpec
=============================================================================
