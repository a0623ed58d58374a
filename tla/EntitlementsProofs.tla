-------------------------- MODULE EntitlementsProofs --------------------------
(***************************************************************************)
(* Theorems about the entitlement gate, for any number of subscriptions,   *)
(* keys and clients, any limits and any clock. In order: the types; what a *)
(* key is charged; what a transaction that runs alone relies on; the       *)
(* reservation machine, implemented; the books, as sums over the keys;     *)
(* that a grant fits in what its transaction saw free; that the limit      *)
(* holds, where all calls of a tenant lock the same subscription; and that *)
(* an override takes effect, where transactions run alone.                 *)
(***************************************************************************)
EXTENDS Entitlements, SumTheorems, FiniteSetTheorems, TLAPS

(***************************************************************************)
(* Lemmas about the operators.                                             *)
(***************************************************************************)
LEMMA OpenTransaction ==
    ASSUME TypeOK, NEW c \in Clients, txn[c].phase \in {"chosen", "locked"}
    PROVE  txn[c] \in OpenTxn
  BY DEF TypeOK, HealTxn, Idle

LEMMA PeriodType ==
    ASSUME NEW now \in Times
    PROVE  PeriodOf(now) \in Periods
  BY DEF Periods

LEMMA TimesAreNat == Times \subseteq Nat
  BY EntitlementsAssumption DEF Times

LEMMA ResolvedType ==
    ASSUME NEW rows \in SUBSET OverrideRow, NEW now
    PROVE  Resolved(rows, now) \subseteq EntRow
  <1> DEFINE live == {o \in rows : ~Lapsed(o.expires, now)}
             won  == {[source |-> "OVERRIDE", limit |-> o.limit,
                       expires |-> o.expires] : o \in live}
  <1>1. PlanEnt \in EntRow
    BY EntitlementsAssumption DEF PlanEnt, EntRow, TimeOrNull
  <1>2. ASSUME NEW o \in live
        PROVE  [source |-> "OVERRIDE", limit |-> o.limit,
                expires |-> o.expires] \in EntRow
    <2>1. o.limit \in TimeOrNull /\ o.expires \in TimeOrNull
      BY <1>2, EntitlementsAssumption DEF OverrideRow
    <2>2. QED
      BY <2>1 DEF EntRow
  <1>3. won \subseteq EntRow
    BY <1>2
  <1>4. Resolved(rows, now) = IF live = {} THEN {PlanEnt} ELSE won
    BY DEF Resolved
  <1>5. QED
    BY <1>1, <1>3, <1>4

LEMMA FreshType ==
    ASSUME TypeOK, NEW s \in Subs, NEW now
    PROVE  FreshEntitlement(s, now) \subseteq EntRow
  BY ResolvedType DEF FreshEntitlement, TypeOK

LEMMA MovedType ==
    ASSUME NEW op \in Transactions, NEW row \in Row, NEW now \in Nat
    PROVE  /\ Moved(op, row, now) \in Row
           /\ Moved(op, row, now).state = Target[op]
  <1> DEFINE r == [row EXCEPT !.state = Target[op]]
  <1>1. Target[op] \in States
    BY DEF Transactions, Target, States
  <1>2. r \in Row /\ r.state = Target[op]
    BY <1>1 DEF Row
  <1>3. now + TermLength \in Nat /\ now + TrialLength \in Nat
        /\ now + GraceLength \in Nat
    BY LengthsAssumption
  <1>4. QED
    BY <1>2, <1>3 DEF Moved, Row, TimeOrNull

LEMMA ChargeType ==
    ASSUME NEW reserved \in Nat, NEW actual \in Nat
    PROVE  /\ Charge(reserved, actual) \in Nat
           /\ Charge(reserved, actual) * 10 <= reserved * 11
  BY DEF Charge
(***************************************************************************)
(* Type correctness.                                                       *)
(***************************************************************************)
LEMMA InitType == Init => TypeOK
  <1> SUFFICES ASSUME Init PROVE TypeOK
    OBVIOUS
  <1>1. sub \in [Subs -> Row]
    BY DEF Init, DraftRow, Row, States, TimeOrNull
  <1>2. ent \in [Subs -> EntRow]
    BY DEF Init, NoEnt, EntRow, TimeOrNull
  <1>3. resv \in [Keys -> Reservation]
    BY DEF Init, NoResv, Reservation, ResvStates, TimeOrNull
  <1>4. /\ overrides \in [Subs -> SUBSET OverrideRow]
        /\ consumed \in [Subs -> [Periods -> Nat]]
        /\ charged \in [Keys -> Nat]
        /\ txn \in [Clients -> OpenTxn \cup HealTxn \cup {Idle}]
    BY DEF Init
  <1>5. clock \in Times
    BY EntitlementsAssumption DEF Init, Times
  <1>6. QED
    BY <1>1, <1>2, <1>3, <1>4, <1>5 DEF TypeOK

\* Answering a call: the entitlement row written is a row.
LEMMA AnswerType ==
    ASSUME TypeOK, NEW c \in Clients, NEW e \in EntRow, Answer(c, e)
    PROVE  /\ ent' \in [Subs -> EntRow]
           /\ txn' \in [Clients -> OpenTxn \cup HealTxn \cup {Idle}]
  BY DEF TypeOK, Answer, Close

LEMMA ProceedType ==
    ASSUME TypeOK, NEW c \in Clients, txn[c].phase = "chosen",
           NEW e \in EntRow, NEW amount \in Nat, Proceed(c, e, amount)
    PROVE  /\ ent' \in [Subs -> EntRow]
           /\ txn' \in [Clients -> OpenTxn \cup HealTxn \cup {Idle}]
  <1>1. txn[c] \in OpenTxn
    BY OpenTransaction
  <1>2. [txn[c] EXCEPT !.phase = "locked", !.ent = e, !.amount = amount]
          \in OpenTxn
    BY <1>1 DEF OpenTxn
  <1>3. QED
    BY <1>2 DEF TypeOK, Proceed

LEMMA BeginType ==
    ASSUME TypeOK, NEW c \in Clients, NEW mode \in Modes, NEW k \in Keys,
           NEW q \in Nat, Begin(c, mode, k, q)
    PROVE  TypeOK'
  <1>1. PICK s \in ActiveSubscription, now \in Instants :
          txn' = [txn EXCEPT ![c] =
             [phase |-> "chosen", mode |-> mode, key |-> k, qty |-> q,
              now |-> now, sub |-> s, ent |-> NoEnt, amount |-> 0]]
    BY DEF Begin
  <1>2. s \in Subs
    BY DEF ActiveSubscription, Candidates
  <1>3. now \in Times
    BY EntitlementsAssumption DEF Instants, Times, TypeOK
  <1>4. NoEnt \in EntRow
    BY DEF NoEnt, EntRow, TimeOrNull
  <1>5. [phase |-> "chosen", mode |-> mode, key |-> k, qty |-> q,
         now |-> now, sub |-> s, ent |-> NoEnt, amount |-> 0] \in OpenTxn
    BY <1>2, <1>4, <1>3 DEF OpenTxn
  <1>6. txn' \in [Clients -> OpenTxn \cup HealTxn \cup {Idle}]
    BY <1>1, <1>5 DEF TypeOK
  <1>7. QED
    BY <1>6 DEF TypeOK, Begin, booksVars

\* The four admissions write nothing but the entitlement row and the
\* transaction itself.
LEMMA AdmitType ==
    ASSUME TypeOK, NEW c \in Clients,
           \/ AdmitReserve(c) \/ AdmitConsume(c)
           \/ AdmitCommit(c) \/ AdmitRelease(c)
    PROVE  TypeOK'
  <1> DEFINE t == txn[c]
  <1>1. t \in OpenTxn /\ t.phase = "chosen"
    BY OpenTransaction
       DEF AdmitReserve, AdmitConsume, AdmitCommit, AdmitRelease, Acquires
  <1>2. /\ t.sub \in Subs /\ t.qty \in Nat /\ t.key \in Keys
        /\ ent[t.sub] \in EntRow
    BY <1>1 DEF OpenTxn, TypeOK
  <1>3. FreshEntitlement(t.sub, t.now) \subseteq EntRow
    BY <1>2, FreshType
  <1>4. \E e \in EntRow : \/ Answer(c, e)
                         \/ \E amount \in Nat : Proceed(c, e, amount)
    <2>1. CASE AdmitReserve(c)
      BY <2>1, <1>2, <1>3 DEF AdmitReserve
    <2>2. CASE AdmitConsume(c)
      BY <2>2, <1>2, <1>3 DEF AdmitConsume
    <2>3. CASE AdmitCommit(c)
      <3>1. Charge(resv[t.key].qty, t.qty) \in Nat
        BY <1>2, ChargeType DEF TypeOK, Reservation
      <3>2. QED
        BY <2>3, <3>1, <1>2 DEF AdmitCommit
    <2>4. CASE AdmitRelease(c)
      BY <2>4, <1>2 DEF AdmitRelease
    <2>5. QED
      BY <2>1, <2>2, <2>3, <2>4
  <1>5. /\ ent' \in [Subs -> EntRow]
        /\ txn' \in [Clients -> OpenTxn \cup HealTxn \cup {Idle}]
    BY <1>1, <1>4, AnswerType, ProceedType
  <1>6. UNCHANGED <<sub, overrides, booksVars, clock>>
    BY DEF AdmitReserve, AdmitConsume, AdmitCommit, AdmitRelease
  <1>7. QED
    BY <1>5, <1>6 DEF TypeOK, booksVars
\* What the Finish actions write is a row of the ledger and a balance.
LEMMA FinishType ==
    ASSUME TypeOK, NEW c \in Clients,
           \/ FinishReserve(c) \/ FinishConsume(c)
           \/ FinishCommit(c) \/ FinishRelease(c)
    PROVE  TypeOK'
  <1> DEFINE t == txn[c]
             k == t.key
             p == PeriodOf(t.now)
  <1>1. t \in OpenTxn /\ t.phase = "locked"
    BY OpenTransaction
       DEF FinishReserve, FinishConsume, FinishCommit, FinishRelease, Finishes
  <1>2. /\ k \in Keys /\ t.qty \in Nat /\ t.amount \in Nat /\ t.sub \in Subs
        /\ t.ent \in EntRow /\ t.now \in Nat /\ p \in Periods
    BY <1>1, PeriodType, TimesAreNat DEF OpenTxn
  <1>3. /\ resv[k] \in Reservation
        /\ ent \in [Subs -> EntRow] /\ resv \in [Keys -> Reservation]
        /\ consumed \in [Subs -> [Periods -> Nat]] /\ charged \in [Keys -> Nat]
    BY <1>2 DEF TypeOK
  <1>4. txn' \in [Clients -> OpenTxn \cup HealTxn \cup {Idle}] /\ UNCHANGED <<sub, overrides, clock>>
    BY DEF FinishReserve, FinishConsume, FinishCommit, FinishRelease,
           Finishes, Close, TypeOK
  <1>5. ASSUME NEW r \in Periods \cup {NULL}, NEW a \in Nat,
               AddConsumption(t.sub, r, k, a)
        PROVE  /\ consumed' \in [Subs -> [Periods -> Nat]]
               /\ charged' \in [Keys -> Nat]
    <2> DEFINE row == [consumed[t.sub] EXCEPT ![r] = consumed[t.sub][r] + a]
    <2>1. consumed[t.sub] \in [Periods -> Nat]
      BY <1>2, <1>3
    <2>2. row \in [Periods -> Nat]
      <3>1. CASE r \in Periods
        BY <2>1, <3>1
      <3>2. CASE r \notin Periods
        BY <2>1, <3>2
      <3>3. QED
        BY <3>1, <3>2
    <2>3. consumed' = [consumed EXCEPT ![t.sub] = row]
      BY <1>5 DEF AddConsumption
    <2>4. charged' \in [Keys -> Nat]
      BY <1>2, <1>3, <1>5 DEF AddConsumption
    <2>5. QED
      BY <1>3, <2>2, <2>3, <2>4
  <1>6. /\ ent' \in [Subs -> EntRow]
        /\ resv' \in [Keys -> Reservation]
        /\ consumed' \in [Subs -> [Periods -> Nat]]
        /\ charged' \in [Keys -> Nat]
    <2>1. CASE FinishReserve(c)
      <3>1. t.now + ReservationTTL \in Nat
        BY <1>2, EntitlementsAssumption
      <3>2. [state |-> "RESERVED", sub |-> t.sub, period |-> p, qty |-> t.qty,
             committed |-> 0, expires |-> t.now + ReservationTTL] \in Reservation
        BY <1>2, <3>1 DEF Reservation, ResvStates, TimeOrNull
      <3>3. QED
        BY <2>1, <1>2, <1>3, <3>2 DEF FinishReserve
    <2>2. CASE FinishConsume(c)
      <3>1. [state |-> "COMMITTED", sub |-> t.sub, period |-> p, qty |-> t.qty,
             committed |-> t.qty, expires |-> NULL] \in Reservation
        BY <1>2 DEF Reservation, ResvStates, TimeOrNull
      <3>2. QED
        BY <2>2, <1>2, <1>3, <1>5, <3>1 DEF FinishConsume, booksVars
    <2>3. CASE FinishCommit(c)
      <3>1. [resv[k] EXCEPT !.state = "COMMITTED", !.committed = t.amount]
              \in Reservation
        BY <1>2, <1>3 DEF Reservation, ResvStates
      <3>2. resv' = [resv EXCEPT ![k] =
              [resv[k] EXCEPT !.state = "COMMITTED", !.committed = t.amount]]
        BY <2>3, <1>2, <1>3 DEF FinishCommit
      <3>3. resv[k].period \in Periods \cup {NULL}
        BY <1>3 DEF Reservation
      <3>4. AddConsumption(t.sub, resv[k].period, k, t.amount) /\ UNCHANGED ent
        BY <2>3 DEF FinishCommit
      <3>5. QED
        BY <3>1, <3>2, <3>3, <3>4, <1>2, <1>3, <1>5
    <2>4. CASE FinishRelease(c)
      <3>1. [resv[k] EXCEPT !.state = "RELEASED"] \in Reservation
        BY <1>3 DEF Reservation, ResvStates
      <3>2. \/ resv' = resv
            \/ resv' = [resv EXCEPT ![k] = [resv[k] EXCEPT !.state = "RELEASED"]]
        BY <2>4, <1>2, <1>3 DEF FinishRelease
      <3>3. QED
        BY <2>4, <3>1, <3>2, <1>2, <1>3 DEF FinishRelease
    <2>5. QED
      BY <2>1, <2>2, <2>3, <2>4
  <1>7. QED
    BY <1>4, <1>6 DEF TypeOK

LEMMA SweepType == TypeOK /\ Sweep => TypeOK'
  <1> SUFFICES ASSUME TypeOK, Sweep PROVE TypeOK'
    OBVIOUS
  <1>1. ASSUME NEW k \in Keys PROVE [resv[k] EXCEPT !.state = "EXPIRED"] \in Reservation
    BY DEF TypeOK, Reservation, ResvStates
  <1>2. resv' \in [Keys -> Reservation]
    BY <1>1 DEF Sweep, TypeOK
  <1>3. QED
    BY <1>2 DEF Sweep, TypeOK

\* The subscription service and the override service resolve entitlements.
LEMMA ServiceType ==
    ASSUME TypeOK, NEW s \in Subs,
           \/ \E op \in Operations : ChangeSubscription(s, op)
           \/ \E o \in OverrideRow : AddOverride(s, o)
    PROVE  TypeOK'
  <1>1. CASE \E op \in Operations : ChangeSubscription(s, op)
    <2> PICK op \in Operations : ChangeSubscription(s, op)
      BY <1>1
    <2>1. op \in Transactions /\ clock \in Nat /\ sub[s] \in Row
      BY EntitlementsAssumption, TimesAreNat DEF TypeOK
    <2>2. Moved(op, sub[s], clock) \in Row
      BY <2>1, MovedType
    <2>3. sub' \in [Subs -> Row]
      BY <2>2 DEF ChangeSubscription, TypeOK
    <2>4. Resolved(overrides[s], clock) \subseteq EntRow
      BY ResolvedType DEF TypeOK
    <2>5. ent' \in [Subs -> EntRow]
      BY <2>4 DEF ChangeSubscription, TypeOK
    <2>6. QED
      BY <2>3, <2>5 DEF ChangeSubscription, TypeOK, booksVars
  <1>2. CASE \E o \in OverrideRow : AddOverride(s, o)
    <2> PICK o \in OverrideRow : AddOverride(s, o)
      BY <1>2
    <2>1. overrides' \in [Subs -> SUBSET OverrideRow]
      BY DEF AddOverride, TypeOK
    <2>2. Resolved(overrides'[s], clock) \subseteq EntRow
      BY <2>1, ResolvedType
    <2>3. ent' \in [Subs -> EntRow]
      BY <2>2 DEF AddOverride, TypeOK
    <2>4. QED
      BY <2>1, <2>3 DEF AddOverride, TypeOK, booksVars
  <1>3. QED
    BY <1>1, <1>2

LEMMA CheckType ==
    ASSUME TypeOK, NEW c \in Clients, BeginCheck(c) \/ FinishCheck(c)
    PROVE  TypeOK'
  <1>1. CASE BeginCheck(c)
    <2>1. PICK s \in ActiveSubscription, now \in Instants :
            \E e \in FreshEntitlement(s, now) :
               txn' = [txn EXCEPT ![c] =
                          [phase |-> "healing", sub |-> s, ent |-> e]]
      BY <1>1 DEF BeginCheck
    <2>2. s \in Subs
      BY DEF ActiveSubscription, Candidates
    <2>3. \A e \in FreshEntitlement(s, now) :
            [phase |-> "healing", sub |-> s, ent |-> e] \in HealTxn
      BY <2>2, FreshType DEF HealTxn
    <2>4. txn' \in [Clients -> OpenTxn \cup HealTxn \cup {Idle}]
      BY <2>1, <2>3 DEF TypeOK
    <2>5. QED
      BY <1>1, <2>4 DEF BeginCheck, TypeOK, booksVars
  <1>2. CASE FinishCheck(c)
    <2>1. txn[c] \in HealTxn
      BY <1>2 DEF FinishCheck, TypeOK, OpenTxn, Idle
    <2>2. ent' \in [Subs -> EntRow]
      BY <1>2, <2>1 DEF FinishCheck, TypeOK, HealTxn
    <2>3. QED
      BY <1>2, <2>2 DEF FinishCheck, Close, TypeOK, booksVars
  <1>3. QED
    BY <1>1, <1>2

LEMMA NextType == TypeOK /\ [Next]_vars => TypeOK'
  <1> SUFFICES ASSUME TypeOK, [Next]_vars PROVE TypeOK'
    OBVIOUS
  <1>1. ASSUME NEW c \in Clients, Call(c) PROVE TypeOK'
    <2>1. CASE DenyUnsubscribed(c)
      BY <2>1 DEF DenyUnsubscribed, TypeOK, vars
    <2>2. CASE ~DenyUnsubscribed(c)
      BY <1>1, <2>2, BeginType, CheckType, EntitlementsAssumption
         DEF Call, Modes
    <2>3. QED
      BY <2>1, <2>2
  <1>2. ASSUME NEW c \in Clients, Step(c) PROVE TypeOK'
    <2>1. CASE Abort(c)
      BY <2>1 DEF Abort, Close, TypeOK, booksVars
    <2>2. CASE ~Abort(c)
      BY <1>2, <2>2, AdmitType, FinishType, CheckType DEF Step
    <2>3. QED
      BY <2>1, <2>2
  <1>3. CASE Tick
    BY <1>3, EntitlementsAssumption DEF Tick, TypeOK, Times, booksVars
  <1>4. CASE UNCHANGED vars
    BY <1>4 DEF vars, TypeOK
  <1>5. QED
    BY <1>1, <1>2, <1>3, <1>4, SweepType, ServiceType DEF Next

\* Every reachable state of the gate is well typed; in particular no balance
\* of quota_consumption is ever negative.
THEOREM TypeCorrect == Spec => []TypeOK
  BY InitType, NextType, PTL DEF Spec
(***************************************************************************)
(* Exactly-once charging. A commit reads the reservation and later updates *)
(* it by id alone, so ChargedAsRecorded is not inductive: it also takes    *)
(* that nothing but the sweep touches a reservation between the two. That  *)
(* is what the locks are for, and it holds only where at most one call is  *)
(* past the lock: on SQLite, and on PostgreSQL when the tenant has one     *)
(* subscription row for all its calls to lock.                             *)
(***************************************************************************)
OneLock == Serial \/ NumSubs = 1

InLock(c) == txn[c].phase = "locked"

OneOpen == Serial => \A c, d \in Clients : txn[c] # Idle /\ txn[d] # Idle => c = d

OneHolder == OneLock => \A c, d \in Clients : InLock(c) /\ InLock(d) => c = d

PendingCommit ==
    OneLock => \A c \in Clients : InLock(c) /\ txn[c].mode = "COMMIT" =>
        resv[txn[c].key].state \in {"RESERVED", "EXPIRED"}

PendingConsume ==
    \A c \in Clients : InLock(c) /\ txn[c].mode = "CONSUME" =>
        txn[c].amount = txn[c].qty

ChargeInv ==
    /\ TypeOK
    /\ OneOpen
    /\ OneHolder
    /\ PendingCommit
    /\ PendingConsume
    /\ OneLock => ChargedAsRecorded

LEMMA ChargeInit == Init => ChargeInv
  <1> SUFFICES ASSUME Init PROVE ChargeInv
    OBVIOUS
  <1>1. TypeOK
    BY InitType
  <1>2. \A c \in Clients : txn[c] = Idle /\ ~InLock(c)
    BY DEF Init, Idle, InLock
  <1>3. ChargedAsRecorded
    BY DEF Init, ChargedAsRecorded, NoResv
  <1>4. QED
    BY <1>1, <1>2, <1>3
       DEF ChargeInv, OneOpen, OneHolder, PendingCommit, PendingConsume

\* A step of a call moves its own transaction, which is open, and no other.
LEMMA OwnTransaction ==
    ASSUME TypeOK, NEW c \in Clients, Step(c)
    PROVE  /\ txn[c] # Idle
           /\ \A d \in Clients \ {c} : txn'[d] = txn[d]
  <1>1. txn[c] # Idle
    <2>1. CASE AdmitReserve(c) \/ AdmitConsume(c) \/ AdmitCommit(c) \/ AdmitRelease(c)
      <3>1. txn[c].phase = "chosen"
        BY <2>1 DEF AdmitReserve, AdmitConsume, AdmitCommit, AdmitRelease, Acquires
      <3>. QED  BY <3>1 DEF Idle
    <2>2. CASE FinishReserve(c) \/ FinishConsume(c) \/ FinishCommit(c) \/ FinishRelease(c)
      <3>1. txn[c].phase = "locked"
        BY <2>2 DEF FinishReserve, FinishConsume, FinishCommit, FinishRelease, Finishes
      <3>. QED  BY <3>1 DEF Idle
    <2>3. CASE FinishCheck(c)
      BY <2>3 DEF FinishCheck, Idle
    <2>4. CASE Abort(c)
      BY <2>4 DEF Abort
    <2>. QED  BY <2>1, <2>2, <2>3, <2>4 DEF Step
  <1>2. ASSUME NEW e, NEW a, Answer(c, e) \/ Proceed(c, e, a)
        PROVE  \A d \in Clients \ {c} : txn'[d] = txn[d]
    BY <1>2 DEF Answer, Proceed, Close, TypeOK
  <1>3. CASE AdmitReserve(c) \/ AdmitConsume(c) \/ AdmitCommit(c) \/ AdmitRelease(c)
    BY <1>1, <1>2, <1>3
       DEF AdmitReserve, AdmitConsume, AdmitCommit, AdmitRelease
  <1>4. CASE Close(c)
    BY <1>1, <1>4 DEF Close, TypeOK
  <1>5. QED
    BY <1>1, <1>3, <1>4
       DEF Step, FinishReserve, FinishConsume, FinishCommit, FinishRelease,
           FinishCheck, Finishes, Abort

\* c opens a transaction on an honoured subscription, and nothing else moves.
Opens(c) ==
    /\ txn[c] = Idle
    /\ Exclusive
    /\ txn'[c].phase \in {"chosen", "healing"}
    /\ txn'[c].sub \in ActiveSubscription
    /\ \A d \in Clients \ {c} : txn'[d] = txn[d]
    /\ UNCHANGED <<sub, booksVars>>

LEMMA OpensCases ==
    ASSUME TypeOK, NEW c \in Clients,
           \/ BeginCheck(c)
           \/ \E mode, k, q : Begin(c, mode, k, q)
    PROVE  Opens(c)
  BY DEF BeginCheck, Begin, Opens, TypeOK

LEMMA TransactionStep ==
    ASSUME TypeOK, [Next]_vars
    PROVE  \/ \E c \in Clients : Step(c) \/ Opens(c)
           \/ UNCHANGED txn
  <1>1. ASSUME NEW c \in Clients, Call(c)
        PROVE  Opens(c) \/ UNCHANGED txn
    BY <1>1, OpensCases DEF Call, DenyUnsubscribed, vars
  <1>2. QED
    BY <1>1 DEF Next, Sweep, ChangeSubscription, AddOverride, Tick, vars

LEMMA OpenStep == ChargeInv /\ [Next]_vars => OneOpen'
  <1> SUFFICES ASSUME ChargeInv, [Next]_vars, Serial PROVE OneOpen'
    BY DEF OneOpen
  <1>1. TypeOK /\ OneOpen
    BY DEF ChargeInv
  <1>2. ASSUME NEW c \in Clients, Opens(c) PROVE OneOpen'
    BY <1>2, <1>1 DEF Opens, Exclusive, OneOpen
  <1>3. ASSUME NEW c \in Clients, Step(c) PROVE OneOpen'
    BY <1>3, <1>1, OwnTransaction DEF OneOpen
  <1>4. CASE UNCHANGED txn
    BY <1>4, <1>1 DEF OneOpen
  <1>5. QED
    BY <1>1, <1>2, <1>3, <1>4, TransactionStep

\* A lock is taken by an admission, where no other transaction holds it.
LEMMA LockStep ==
    ASSUME ChargeInv, [Next]_vars, NEW c \in Clients, InLock(c)', ~InLock(c)
    PROVE  /\ AdmitReserve(c) \/ AdmitConsume(c) \/ AdmitCommit(c) \/ AdmitRelease(c)
           /\ Unlocked(txn[c].sub)
           /\ txn[c].phase = "chosen"
  <1>1. TypeOK
    BY DEF ChargeInv
  <1>2. ASSUME NEW d \in Clients, Opens(d) PROVE FALSE
    BY <1>2 DEF Opens, InLock
  <1>3. txn' # txn
    BY DEF InLock
  <1>4. PICK d \in Clients : Step(d)
    BY <1>1, <1>2, <1>3, TransactionStep
  <1>5. d = c
    BY <1>1, <1>4, OwnTransaction DEF InLock
  <1>6. ~ (FinishReserve(c) \/ FinishConsume(c) \/ FinishCommit(c)
           \/ FinishRelease(c) \/ FinishCheck(c) \/ Abort(c))
    BY <1>1 DEF FinishReserve, FinishConsume, FinishCommit, FinishRelease,
                FinishCheck, Finishes, Abort, Close, Idle, InLock, TypeOK
  <1>7. AdmitReserve(c) \/ AdmitConsume(c) \/ AdmitCommit(c) \/ AdmitRelease(c)
    BY <1>4, <1>5, <1>6 DEF Step
  <1>8. QED
    BY <1>7
       DEF AdmitReserve, AdmitConsume, AdmitCommit, AdmitRelease, Acquires

LEMMA HolderStep == ChargeInv /\ [Next]_vars => OneHolder'
  <1> SUFFICES ASSUME ChargeInv, [Next]_vars, OneLock,
                      NEW c \in Clients, NEW d \in Clients,
                      InLock(c)', InLock(d)', c # d
               PROVE  FALSE
    BY DEF OneHolder, OneLock
  <1>1. CASE Serial
    <2>1. txn'[c] # Idle /\ txn'[d] # Idle
      BY DEF InLock, Idle
    <2>2. QED
      BY <1>1, <2>1, OpenStep DEF OneOpen
  <1>2. CASE NumSubs = 1
    <2>1. ASSUME NEW a \in Clients, NEW b \in Clients,
                 InLock(a)', ~InLock(a), InLock(b)
          PROVE  FALSE
      <3>1. Unlocked(txn[a].sub) /\ txn[a].phase = "chosen"
        BY <2>1, LockStep
      <3>2. txn[a].sub = 1 /\ txn[b].sub = 1
        BY <1>2, <2>1, <3>1, OpenTransaction
           DEF InLock, OpenTxn, Subs, ChargeInv
      <3>3. QED
        BY <2>1, <3>1, <3>2 DEF Unlocked, InLock
    <2>2. ~ (InLock(c) /\ InLock(d))
      BY DEF ChargeInv, OneHolder
    <2>3. ~InLock(c) /\ ~InLock(d)
      BY <2>1, <2>2
    <2>4. /\ AdmitReserve(c) \/ AdmitConsume(c) \/ AdmitCommit(c) \/ AdmitRelease(c)
          /\ txn[c].phase = "chosen"
      BY <2>3, LockStep
    <2>5. txn'[d] = txn[d]
      BY <2>4 DEF AdmitReserve, AdmitConsume, AdmitCommit, AdmitRelease,
                  Answer, Proceed, Close, ChargeInv, TypeOK
    <2>6. QED
      BY <2>3, <2>5 DEF InLock
  <1>3. QED
    BY <1>1, <1>2 DEF OneLock

\* A transaction past its lock either keeps its record or ends.
LEMMA KeptStep ==
    ASSUME ChargeInv, [Next]_vars, NEW c \in Clients, InLock(c), InLock(c)'
    PROVE  txn'[c] = txn[c]
  <1>1. TypeOK /\ txn[c].phase = "locked" /\ Idle.phase # "locked"
    BY DEF ChargeInv, InLock, Idle
  <1>2. ASSUME NEW d \in Clients, Opens(d) PROVE txn'[c] = txn[c]
    BY <1>1, <1>2 DEF Opens
  <1>3. ASSUME NEW d \in Clients, Step(d), d = c PROVE FALSE
    <2>1. txn'[c] = Idle
      BY <1>1, <1>3
         DEF Step, AdmitReserve, AdmitConsume, AdmitCommit, AdmitRelease,
             Acquires, FinishReserve, FinishConsume, FinishCommit,
             FinishRelease, FinishCheck, Finishes, Abort, Close, TypeOK
    <2>2. QED
      BY <1>1, <2>1 DEF InLock
  <1>4. ASSUME NEW d \in Clients, Step(d), d # c PROVE txn'[c] = txn[c]
    BY <1>1, <1>4, OwnTransaction
  <1>5. QED
    BY <1>1, <1>2, <1>3, <1>4, TransactionStep

\* Who writes the ledger: the one call that ends, or the sweep.
LEMMA LedgerStep ==
    ASSUME [Next]_vars, booksVars' # booksVars
    PROVE  \/ \E c \in Clients : \/ FinishReserve(c) \/ FinishConsume(c)
                                 \/ FinishCommit(c) \/ FinishRelease(c)
           \/ Sweep
  BY DEF Next, Call, Begin, BeginCheck, DenyUnsubscribed, Step, AdmitReserve,
         AdmitConsume, AdmitCommit, AdmitRelease, FinishCheck, Abort,
         ChangeSubscription, AddOverride, Tick, vars, booksVars

LEMMA PendingCommitStep == ChargeInv /\ [Next]_vars => PendingCommit'
  <1> SUFFICES ASSUME ChargeInv, [Next]_vars, OneLock, NEW c \in Clients,
                      InLock(c)', txn'[c].mode = "COMMIT"
               PROVE  resv'[txn'[c].key].state \in {"RESERVED", "EXPIRED"}
    BY DEF PendingCommit, OneLock, InLock
  <1>1. CASE ~InLock(c)
    <2>1. AdmitReserve(c) \/ AdmitConsume(c) \/ AdmitCommit(c) \/ AdmitRelease(c)
      BY <1>1, LockStep
    <2>2. txn'[c].mode = txn[c].mode /\ txn'[c].key = txn[c].key
      <3>1. txn[c] \in OpenTxn
        BY <2>1, OpenTransaction
           DEF AdmitReserve, AdmitConsume, AdmitCommit, AdmitRelease, Acquires,
               ChargeInv
      <3>2. ASSUME NEW e, Answer(c, e) PROVE FALSE
        BY <3>2 DEF Answer, Close, Idle, InLock, ChargeInv, TypeOK
      <3>3. \E e, a : Proceed(c, e, a)
        BY <2>1, <3>2 DEF AdmitReserve, AdmitConsume, AdmitCommit, AdmitRelease
      <3>4. QED
        BY <3>1, <3>3 DEF Proceed, OpenTxn, ChargeInv, TypeOK
    <2>3. AdmitCommit(c)
      BY <2>1, <2>2 DEF AdmitReserve, AdmitConsume, AdmitRelease, Acquires
    <2>4. resv[txn[c].key].state = "RESERVED"
      BY <2>3 DEF AdmitCommit, Answer, Close, Idle, InLock, ChargeInv, TypeOK
    <2>5. QED
      BY <2>2, <2>3, <2>4 DEF AdmitCommit, booksVars
  <1>2. CASE InLock(c)
    <2>1. txn'[c] = txn[c]
      BY <1>2, KeptStep
    <2>2. resv[txn[c].key].state \in {"RESERVED", "EXPIRED"}
      BY <1>2, <2>1 DEF ChargeInv, PendingCommit
    <2>3. txn[c].key \in Keys
      BY <1>2, OpenTransaction DEF InLock, OpenTxn, ChargeInv
    <2>4. ASSUME NEW d \in Clients,
                 \/ FinishReserve(d) \/ FinishConsume(d)
                 \/ FinishCommit(d) \/ FinishRelease(d)
          PROVE  FALSE
      <3>1. InLock(d) /\ ~InLock(d)'
        BY <2>4 DEF FinishReserve, FinishConsume, FinishCommit, FinishRelease,
                    Finishes, Close, Idle, InLock, ChargeInv, TypeOK
      <3>2. QED
        BY <1>2, <3>1 DEF ChargeInv, OneHolder
    <2>5. CASE Sweep
      BY <2>1, <2>2, <2>3, <2>5 DEF Sweep, ChargeInv, TypeOK, Reservation
    <2>6. CASE booksVars' = booksVars
      BY <2>1, <2>2, <2>6 DEF booksVars
    <2>7. QED
      BY <2>4, <2>5, <2>6, LedgerStep
  <1>3. QED
    BY <1>1, <1>2

LEMMA PendingConsumeStep == ChargeInv /\ [Next]_vars => PendingConsume'
  <1> SUFFICES ASSUME ChargeInv, [Next]_vars, NEW c \in Clients,
                      InLock(c)', txn'[c].mode = "CONSUME"
               PROVE  txn'[c].amount = txn'[c].qty
    BY DEF PendingConsume, InLock
  <1>1. CASE InLock(c)
    BY <1>1, KeptStep DEF ChargeInv, PendingConsume
  <1>2. CASE ~InLock(c)
    <2>1. AdmitReserve(c) \/ AdmitConsume(c) \/ AdmitCommit(c) \/ AdmitRelease(c)
      BY <1>2, LockStep
    <2>2. txn[c] \in OpenTxn
      BY <2>1, OpenTransaction
         DEF AdmitReserve, AdmitConsume, AdmitCommit, AdmitRelease, Acquires,
             ChargeInv
    <2>3. ASSUME NEW e, Answer(c, e) PROVE FALSE
      BY <2>3 DEF Answer, Close, Idle, InLock, ChargeInv, TypeOK
    <2>4. ASSUME NEW e, NEW a, Proceed(c, e, a)
          PROVE  /\ txn'[c].mode = txn[c].mode /\ txn'[c].qty = txn[c].qty
                 /\ txn'[c].amount = a
      BY <2>2, <2>4 DEF Proceed, OpenTxn, ChargeInv, TypeOK
    <2>5. \E e, a : Proceed(c, e, a)
      BY <2>1, <2>3 DEF AdmitReserve, AdmitConsume, AdmitCommit, AdmitRelease
    <2>6. AdmitConsume(c)
      BY <2>1, <2>4, <2>5 DEF AdmitReserve, AdmitCommit, AdmitRelease, Acquires
    <2>7. \E e : Proceed(c, e, txn[c].qty)
      BY <2>3, <2>6 DEF AdmitConsume
    <2>8. QED
      BY <2>4, <2>7
  <1>3. QED
    BY <1>1, <1>2

LEMMA ChargedStep ==
    ASSUME ChargeInv, [Next]_vars, OneLock
    PROVE  ChargedAsRecorded'
  <1>1. \A k \in Keys :
          charged[k] = IF resv[k].state = "COMMITTED" THEN resv[k].committed ELSE 0
    BY DEF ChargeInv, ChargedAsRecorded
  <1>2. ASSUME NEW c \in Clients,
               \/ FinishReserve(c) \/ FinishConsume(c)
               \/ FinishCommit(c) \/ FinishRelease(c)
        PROVE  ChargedAsRecorded'
    <2> DEFINE t == txn[c]
    <2>1. t \in OpenTxn /\ InLock(c)
      BY <1>2, OpenTransaction
         DEF FinishReserve, FinishConsume, FinishCommit, FinishRelease,
             Finishes, InLock, ChargeInv
    <2>2. /\ t.key \in Keys /\ t.amount \in Nat
          /\ resv \in [Keys -> Reservation] /\ charged \in [Keys -> Nat]
      BY <2>1 DEF OpenTxn, ChargeInv, TypeOK
    <2>3. CASE FinishReserve(c)
      BY <2>3, <2>2, <1>1 DEF FinishReserve, ChargedAsRecorded
    <2>4. CASE FinishConsume(c)
      <3>1. t.amount = t.qty
        BY <2>1, <2>4 DEF FinishConsume, Finishes, ChargeInv, PendingConsume
      <3>2. QED
        BY <2>4, <2>2, <3>1, <1>1
           DEF FinishConsume, AddConsumption, ChargedAsRecorded, booksVars
    <2>5. CASE FinishCommit(c)
      <3>1. charged[t.key] = 0
        BY <2>1, <2>2, <2>5, <1>1
           DEF FinishCommit, Finishes, ChargeInv, PendingCommit
      <3>2. resv' = [resv EXCEPT ![t.key] =
              [resv[t.key] EXCEPT !.state = "COMMITTED", !.committed = t.amount]]
        BY <2>5, <2>2 DEF FinishCommit
      <3>3. charged' = [charged EXCEPT ![t.key] = charged[t.key] + t.amount]
        BY <2>5 DEF FinishCommit, AddConsumption
      <3>4. resv'[t.key].state = "COMMITTED" /\ resv'[t.key].committed = t.amount
        BY <3>2, <2>2 DEF Reservation
      <3>5. QED
        BY <3>1, <3>2, <3>3, <3>4, <2>2, <1>1 DEF ChargedAsRecorded
    <2>6. CASE FinishRelease(c)
      <3>1. \/ resv' = resv
            \/ /\ resv[t.key].state = "RESERVED"
               /\ resv' = [resv EXCEPT ![t.key] =
                             [resv[t.key] EXCEPT !.state = "RELEASED"]]
        BY <2>6, <2>2 DEF FinishRelease
      <3>2. charged' = charged
        BY <2>6 DEF FinishRelease
      <3>3. QED
        BY <3>1, <3>2, <2>2, <1>1 DEF ChargedAsRecorded, Reservation
    <2>7. QED
      BY <1>2, <2>3, <2>4, <2>5, <2>6
  <1>3. CASE Sweep
    BY <1>1, <1>3 DEF Sweep, ChargedAsRecorded, ChargeInv, TypeOK, Reservation
  <1>4. CASE booksVars' = booksVars
    BY <1>1, <1>4 DEF booksVars, ChargedAsRecorded
  <1>5. QED
    BY <1>2, <1>3, <1>4, LedgerStep

LEMMA ChargeStep == ChargeInv /\ [Next]_vars => ChargeInv'
  BY NextType, OpenStep, HolderStep, PendingCommitStep, PendingConsumeStep,
     ChargedStep DEF ChargeInv, OneLock

\* Whatever calls name an idempotency key, however they interleave, abort, are
\* repeated or meet the sweep: the books were charged for it exactly what its
\* committed reservation records, and nothing for a hold that was released or
\* expired - on SQLite always, on PostgreSQL for a tenant of one subscription.
THEOREM ExactlyOnce == OneLock => (Spec => []ChargedAsRecorded)
  <1>1. Spec => []ChargeInv
    BY ChargeInit, ChargeStep, PTL DEF Spec
  <1>2. OneLock /\ ChargeInv => ChargedAsRecorded
    BY DEF ChargeInv
  <1>3. SUFFICES ASSUME OneLock PROVE Spec => []ChargedAsRecorded
    OBVIOUS
  <1>4. ChargeInv => ChargedAsRecorded
    BY <1>2, <1>3
  <1>5. QED
    BY <1>1, <1>4, PTL

\* What is settled stays settled. The only write that does not look at the
\* state of the row it moves is that of a commit, and PendingCommit says what
\* the row of a pending commit can be.
LEMMA SettledStep ==
    ASSUME ChargeInv, [Next]_vars, OneLock, NEW k \in Keys,
           resv[k].state \in {"COMMITTED", "RELEASED"}
    PROVE  resv'[k] = resv[k]
  <1>1. ASSUME NEW c \in Clients,
               \/ FinishReserve(c) \/ FinishConsume(c)
               \/ FinishCommit(c) \/ FinishRelease(c)
        PROVE  resv'[k] = resv[k]
    <2>1. InLock(c) /\ resv \in [Keys -> Reservation]
      BY <1>1 DEF FinishReserve, FinishConsume, FinishCommit, FinishRelease,
                  Finishes, InLock, ChargeInv, TypeOK
    <2>2. CASE FinishReserve(c) \/ FinishConsume(c)
      BY <2>1, <2>2 DEF FinishReserve, FinishConsume, booksVars
    <2>3. CASE FinishCommit(c)
      <3>1. resv[txn[c].key].state \in {"RESERVED", "EXPIRED"}
        BY <2>1, <2>3 DEF FinishCommit, Finishes, ChargeInv, PendingCommit
      <3>2. k # txn[c].key
        BY <3>1
      <3>3. QED
        BY <2>1, <2>3, <3>2 DEF FinishCommit
    <2>4. CASE FinishRelease(c)
      BY <2>1, <2>4 DEF FinishRelease
    <2>5. QED
      BY <1>1, <2>2, <2>3, <2>4
  <1>2. CASE Sweep
    BY <1>2 DEF Sweep
  <1>3. CASE booksVars' = booksVars
    BY <1>3 DEF booksVars
  <1>4. QED
    BY <1>1, <1>2, <1>3, LedgerStep

\* A committed or released reservation keeps its row for ever, wherever one
\* lock guards the ledger.
THEOREM SettledForGood == OneLock => (Spec => SettledIsFinal)
  <1>1. Spec => []ChargeInv
    BY ChargeInit, ChargeStep, PTL DEF Spec
  <1>2. SUFFICES ASSUME OneLock PROVE Spec => SettledIsFinal
    OBVIOUS
  <1>3. ChargeInv /\ [Next]_vars =>
          [\A k \in Keys : resv[k].state \in {"COMMITTED", "RELEASED"} =>
              resv'[k] = resv[k]]_vars
    BY <1>2, SettledStep
  <1>4. QED
    BY <1>1, <1>3, PTL DEF Spec, SettledIsFinal

(***************************************************************************)
(* On SQLite a transaction runs alone, so that what it chose and read      *)
(* still stands when it writes: the subscription it admitted a grant under *)
(* is honoured, and the hold it commits is live. Neither is so on          *)
(* PostgreSQL, where the subscription may be terminated before the lock is *)
(* had, and the hold be swept (the EXPIRED case of PendingCommit).         *)
(***************************************************************************)
ChosenHonoured ==
    \A c \in Clients : txn[c] # Idle => sub[txn[c].sub].state \in HonouredStates

GrantHonoured ==
    \A c \in Clients : InLock(c) /\ txn[c].mode \in {"RESERVE", "CONSUME"} =>
        sub[txn[c].sub].state \in FULL_STATES \cup WARM_STATES

CommitLive ==
    \A c \in Clients : InLock(c) /\ txn[c].mode = "COMMIT" =>
        /\ resv[txn[c].key].state = "RESERVED"
        /\ txn[c].amount * 10 <= resv[txn[c].key].qty * 11

SerialInv == ChargeInv /\ ChosenHonoured /\ GrantHonoured /\ CommitLive

LEMMA SerialInit == Init => SerialInv
  BY ChargeInit
     DEF SerialInv, ChosenHonoured, GrantHonoured, CommitLive, Init, InLock, Idle

\* While a transaction is open nothing but the transaction itself moves the
\* database.
LEMMA RunsAlone ==
    ASSUME Serial, ChargeInv, [Next]_vars, NEW c \in Clients, txn[c] # Idle
    PROVE  \/ Step(c)
           \/ UNCHANGED <<sub, resv, txn>>
  <1>1. ~Exclusive /\ TypeOK
    BY DEF Exclusive, ChargeInv
  <1>2. ASSUME NEW d \in Clients, Call(d) PROVE FALSE
    BY <1>1, <1>2 DEF Call, Begin, BeginCheck, DenyUnsubscribed
  <1>3. ASSUME NEW d \in Clients, Step(d) PROVE d = c
    BY <1>1, <1>3, OwnTransaction DEF ChargeInv, OneOpen
  <1>4. QED
    BY <1>1, <1>2, <1>3
       DEF Next, Sweep, ChangeSubscription, AddOverride, Tick, vars, booksVars

\* How an admission leaves its own transaction.
LEMMA AdmitEffect ==
    ASSUME TypeOK, NEW c \in Clients, txn'[c] # Idle,
           \/ AdmitReserve(c) \/ AdmitConsume(c)
           \/ AdmitCommit(c) \/ AdmitRelease(c)
    PROVE  /\ txn[c] \in OpenTxn
           /\ txn'[c].mode = txn[c].mode
           /\ txn'[c].key = txn[c].key
           /\ txn'[c].sub = txn[c].sub
           /\ txn[c].mode \in {"RESERVE", "CONSUME"} =>
                 sub[txn[c].sub].state \notin READONLY_STATES
           /\ txn[c].mode = "COMMIT" =>
                 /\ resv[txn[c].key].state = "RESERVED"
                 /\ txn'[c].amount = Charge(resv[txn[c].key].qty, txn[c].qty)
  <1>1. txn[c] \in OpenTxn
    BY OpenTransaction
       DEF AdmitReserve, AdmitConsume, AdmitCommit, AdmitRelease, Acquires
  <1>2. ASSUME NEW e, Answer(c, e) PROVE FALSE
    BY <1>2 DEF Answer, Close, TypeOK
  <1>3. ASSUME NEW e, NEW a, Proceed(c, e, a)
        PROVE  /\ txn'[c].mode = txn[c].mode /\ txn'[c].key = txn[c].key
               /\ txn'[c].sub = txn[c].sub /\ txn'[c].amount = a
    BY <1>1, <1>3 DEF Proceed, OpenTxn, TypeOK
  <1>4. CASE AdmitReserve(c)
    BY <1>1, <1>2, <1>3, <1>4 DEF AdmitReserve, Acquires, Admits
  <1>5. CASE AdmitConsume(c)
    BY <1>1, <1>2, <1>3, <1>5 DEF AdmitConsume, Acquires, Admits
  <1>6. CASE AdmitCommit(c)
    BY <1>1, <1>2, <1>3, <1>6 DEF AdmitCommit, Acquires
  <1>7. CASE AdmitRelease(c)
    BY <1>1, <1>2, <1>3, <1>7 DEF AdmitRelease, Acquires
  <1>8. QED
    BY <1>4, <1>5, <1>6, <1>7

LEMMA SerialStep == Serial /\ SerialInv /\ [Next]_vars => SerialInv'
  <1> SUFFICES ASSUME Serial, SerialInv, [Next]_vars PROVE SerialInv'
    OBVIOUS
  <1>1. TypeOK /\ ChargeInv /\ ChargeInv'
    BY ChargeStep DEF SerialInv, ChargeInv
  <1>2. ASSUME NEW c \in Clients, txn'[c] # Idle
        PROVE  /\ sub'[txn'[c].sub].state \in HonouredStates
               /\ InLock(c)' /\ txn'[c].mode \in {"RESERVE", "CONSUME"} =>
                     sub'[txn'[c].sub].state \in FULL_STATES \cup WARM_STATES
               /\ InLock(c)' /\ txn'[c].mode = "COMMIT" =>
                     /\ resv'[txn'[c].key].state = "RESERVED"
                     /\ txn'[c].amount * 10 <= resv'[txn'[c].key].qty * 11
    <2>1. CASE txn[c] = Idle
      <3>1. PICK d \in Clients : Step(d) \/ Opens(d)
        BY <1>1, <1>2, <2>1, TransactionStep
      <3>2. d = c
        BY <1>1, <1>2, <2>1, <3>1, OwnTransaction DEF Opens
      <3>3. Opens(c)
        BY <1>1, <2>1, <3>1, <3>2, OwnTransaction
      <3>4. QED
        BY <3>3 DEF Opens, ActiveSubscription, Candidates, InLock
    <2>2. CASE txn[c] # Idle /\ UNCHANGED <<sub, resv, txn>>
      BY <2>2 DEF SerialInv, ChosenHonoured, GrantHonoured, CommitLive, InLock
    <2>3. CASE txn[c] # Idle /\ Step(c)
      <3>1. AdmitReserve(c) \/ AdmitConsume(c) \/ AdmitCommit(c) \/ AdmitRelease(c)
        BY <2>3, <1>2, <1>1
           DEF Step, FinishReserve, FinishConsume, FinishCommit, FinishRelease,
               FinishCheck, Finishes, Abort, Close, TypeOK
      <3>2. sub' = sub /\ resv' = resv
        BY <3>1 DEF AdmitReserve, AdmitConsume, AdmitCommit, AdmitRelease, booksVars
      <3>3. sub[txn[c].sub].state \in HonouredStates
        BY <2>3 DEF SerialInv, ChosenHonoured
      <3>4. txn[c] \in OpenTxn /\ txn[c].key \in Keys /\ txn[c].qty \in Nat
        BY <3>1, <1>2, <1>1, AdmitEffect DEF OpenTxn
      <3>5. resv[txn[c].key].qty \in Nat
        BY <3>4, <1>1 DEF TypeOK, Reservation
      <3>6. QED
        BY <3>1, <3>2, <3>3, <3>4, <3>5, <1>1, <1>2, AdmitEffect, ChargeType
           DEF HonouredStates
    <2>4. QED
      BY <2>1, <2>2, <2>3, <1>1, RunsAlone
  <1>3. ASSUME NEW c \in Clients, InLock(c)' PROVE txn'[c] # Idle
    BY <1>3 DEF InLock, Idle
  <1>4. QED
    BY <1>1, <1>2, <1>3
       DEF SerialInv, ChosenHonoured, GrantHonoured, CommitLive, InLock

\* On SQLite a hold or a consumption is granted only while the subscription
\* it is booked under is in a full or warm state: no step of the service can
\* end or suspend it between the gate's decision and its write.
THEOREM GrantsAreHonoured == Serial => (Spec => GrantsHonoured)
  <1> SUFFICES ASSUME Serial PROVE Spec => GrantsHonoured
    OBVIOUS
  <1> DEFINE Honoured == \A k \in Keys : Granted(k) =>
                \A s \in Subs : resv'[k].sub = s =>
                   sub[s].state \in FULL_STATES \cup WARM_STATES
  <1>1. SerialInv /\ [Next]_vars => Honoured
    <2> SUFFICES ASSUME SerialInv, [Next]_vars, NEW k \in Keys, Granted(k)
                 PROVE  sub[resv'[k].sub].state \in FULL_STATES \cup WARM_STATES
      OBVIOUS
    <2>1. TypeOK
      BY DEF SerialInv, ChargeInv
    <2>2. ~Sweep /\ booksVars' # booksVars
      BY <2>1 DEF Granted, Sweep, booksVars
    <2>3. PICK c \in Clients : \/ FinishReserve(c) \/ FinishConsume(c)
                               \/ FinishCommit(c) \/ FinishRelease(c)
      BY <2>2, LedgerStep
    <2>4. txn[c] \in OpenTxn /\ InLock(c) /\ txn[c].key \in Keys
      BY <2>1, <2>3, OpenTransaction
         DEF FinishReserve, FinishConsume, FinishCommit, FinishRelease,
             Finishes, InLock, OpenTxn
    <2>5. CASE FinishReserve(c) \/ FinishConsume(c)
      <3>1. resv'[k].sub = txn[c].sub /\ txn[c].mode \in {"RESERVE", "CONSUME"}
        BY <2>1, <2>4, <2>5
           DEF FinishReserve, FinishConsume, Finishes, Granted, TypeOK, booksVars
      <3>2. QED
        BY <2>4, <3>1 DEF SerialInv, GrantHonoured
    <2>6. CASE FinishCommit(c)
      <3>1. resv[txn[c].key].state = "RESERVED"
        BY <2>4, <2>6 DEF FinishCommit, Finishes, SerialInv, CommitLive
      <3>2. resv' = [resv EXCEPT ![txn[c].key] = resv'[txn[c].key]]
        BY <2>1, <2>4, <2>6 DEF FinishCommit, TypeOK
      <3>3. QED
        BY <2>1, <3>1, <3>2 DEF Granted, TypeOK
    <2>7. CASE FinishRelease(c)
      BY <2>1, <2>4, <2>7 DEF FinishRelease, Granted, TypeOK, Reservation
    <2>8. QED
      BY <2>3, <2>5, <2>6, <2>7
  <1>2. SerialInv /\ [Next]_vars => SerialInv'
    BY SerialStep
  <1>3. QED
    BY <1>1, <1>2, SerialInit, PTL DEF Spec, GrantsHonoured

(***************************************************************************)
(* The refinement: every call of the gate is a step of the reservation     *)
(* machine of the domain model, or none of its business.                   *)
(***************************************************************************)
LEMMA ProtocolInit == Init => Protocol!PInit
  BY DEF Init, NoResv, Protocol!PInit

LEMMA ProtocolKeyStep ==
    ASSUME NEW k \in Keys,
           \/ Protocol!Hold(k) \/ Protocol!Settle(k)
           \/ Protocol!Take(k) \/ Protocol!Release(k)
    PROVE  Protocol!PNext
  BY DEF Protocol!PNext

LEMMA ProtocolSweep ==
    ASSUME NEW lapsed \in SUBSET Keys, Protocol!Expire(lapsed)
    PROVE  Protocol!PNext
  BY DEF Protocol!PNext

LEMMA ProtocolStep ==
    Serial /\ SerialInv /\ [Next]_vars => [Protocol!PNext]_(Protocol!abstractVars)
  <1> SUFFICES ASSUME Serial, SerialInv, [Next]_vars
               PROVE  Protocol!PNext \/ UNCHANGED Protocol!abstractVars
    OBVIOUS
  <1>1. /\ TypeOK
        /\ resv \in [Keys -> Reservation] /\ charged \in [Keys -> Nat]
        /\ \A k \in Keys : resv[k].state # "COMMITTED" => charged[k] = 0
    BY DEF SerialInv, ChargeInv, OneLock, ChargedAsRecorded, TypeOK
  <1>2. ASSUME NEW c \in Clients,
               \/ FinishReserve(c) \/ FinishConsume(c)
               \/ FinishCommit(c) \/ FinishRelease(c)
        PROVE  Protocol!PNext \/ UNCHANGED Protocol!abstractVars
    <2> DEFINE t == txn[c]
    <2>1. t \in OpenTxn /\ InLock(c)
      BY <1>1, <1>2, OpenTransaction
         DEF FinishReserve, FinishConsume, FinishCommit, FinishRelease,
             Finishes, InLock
    <2>2. PICK k \in Keys : k = t.key /\ t.qty \in Nat /\ t.amount \in Nat
      BY <2>1 DEF OpenTxn
    <2>3. CASE FinishReserve(c)
      <3>1. CASE resv[k].state # "NONE"
        BY <2>2, <2>3, <3>1 DEF FinishReserve, Protocol!abstractVars
      <3>2. CASE resv[k].state = "NONE"
        <4>1. /\ resv'[k].state = "RESERVED" /\ resv'[k].qty = t.qty
              /\ \A l \in Keys \ {k} : resv'[l] = resv[l]
              /\ charged' = charged
          BY <2>2, <2>3, <3>2, <1>1 DEF FinishReserve
        <4>2. Protocol!Hold(k)
          BY <2>2, <3>2, <4>1 DEF Protocol!Hold, Protocol!Assigns
        <4>3. QED
          BY <2>2, <4>2, ProtocolKeyStep
      <3>3. QED
        BY <3>1, <3>2
    <2>4. CASE FinishConsume(c)
      <3>1. CASE resv[k].state # "NONE"
        BY <2>2, <2>4, <3>1 DEF FinishConsume, Protocol!abstractVars, booksVars
      <3>2. CASE resv[k].state = "NONE"
        <4>1. t.amount = t.qty /\ charged[k] = 0
          BY <2>1, <2>2, <2>4, <3>2, <1>1
             DEF FinishConsume, Finishes, SerialInv, ChargeInv, PendingConsume
        <4>2. /\ resv'[k].state = "COMMITTED" /\ resv'[k].qty = t.qty
              /\ \A l \in Keys \ {k} : resv'[l] = resv[l]
          BY <2>2, <2>4, <3>2, <1>1 DEF FinishConsume
        <4>3. charged' = [charged EXCEPT ![k] = t.qty]
          BY <2>2, <2>4, <3>2, <4>1, <1>1
             DEF FinishConsume, AddConsumption
        <4>4. Protocol!Take(k)
          BY <2>2, <3>2, <4>1, <4>2, <4>3, <1>1
             DEF Protocol!Take, Protocol!Assigns
        <4>5. QED
          BY <2>2, <4>4, ProtocolKeyStep
      <3>3. QED
        BY <3>1, <3>2
    <2>5. CASE FinishCommit(c)
      <3>1. /\ resv[k].state = "RESERVED" /\ charged[k] = 0
            /\ t.amount * 10 <= resv[k].qty * 11
        BY <2>1, <2>2, <2>5, <1>1
           DEF FinishCommit, Finishes, SerialInv, CommitLive
      <3>2. resv' = [resv EXCEPT ![k] =
              [resv[k] EXCEPT !.state = "COMMITTED", !.committed = t.amount]]
        BY <2>5, <2>2, <1>1 DEF FinishCommit
      <3>3. /\ resv'[k].state = "COMMITTED" /\ resv'[k].qty = resv[k].qty
            /\ \A l \in Keys \ {k} : resv'[l] = resv[l]
        BY <3>2, <2>2, <1>1 DEF Reservation
      <3>4. charged' = [charged EXCEPT ![k] = t.amount]
        <4>1. charged' = [charged EXCEPT ![t.key] = charged[t.key] + t.amount]
          BY <2>5 DEF FinishCommit, AddConsumption
        <4>2. charged[t.key] + t.amount = t.amount
          BY <2>2, <3>1
        <4>3. QED
          BY <2>2, <4>1, <4>2
      <3>5. Protocol!Settle(k)
        <4>1. charged'[k] = t.amount /\ charged'[k] * 10 <= resv[k].qty * 11
          BY <2>2, <3>1, <3>4, <1>1
        <4>2. charged' = [charged EXCEPT ![k] = charged'[k]]
          BY <3>4, <4>1
        <4>3. QED
          BY <2>2, <3>1, <3>3, <4>1, <4>2
             DEF Protocol!Settle, Protocol!Assigns
      <3>6. QED
        BY <2>2, <3>5, ProtocolKeyStep
    <2>6. CASE FinishRelease(c)
      <3>1. CASE resv[k].state # "RESERVED"
        BY <2>2, <2>6, <3>1 DEF FinishRelease, Protocol!abstractVars
      <3>2. CASE resv[k].state = "RESERVED"
        <4>1. resv' = [resv EXCEPT ![k] = [resv[k] EXCEPT !.state = "RELEASED"]]
          BY <2>2, <2>6, <3>2, <1>1 DEF FinishRelease
        <4>2. /\ resv'[k].state = "RELEASED" /\ resv'[k].qty = resv[k].qty
              /\ \A l \in Keys \ {k} : resv'[l] = resv[l]
          BY <4>1, <2>2, <1>1 DEF Reservation
        <4>3. Protocol!Release(k)
          BY <2>2, <2>6, <3>2, <4>2 DEF Protocol!Release, FinishRelease
        <4>4. QED
          BY <2>2, <4>3, ProtocolKeyStep
      <3>3. QED
        BY <3>1, <3>2
    <2>7. QED
      BY <1>2, <2>3, <2>4, <2>5, <2>6
  <1>3. CASE Sweep
    <2> PICK lapsed \in SUBSET Keys :
               lapsed = {k \in Keys : /\ resv[k].state = "RESERVED"
                                      /\ Lapsed(resv[k].expires, clock)}
      OBVIOUS
    <2>1. \A k \in Keys : /\ resv'[k].qty = resv[k].qty
                          /\ resv'[k].state =
                               IF k \in lapsed THEN "EXPIRED" ELSE resv[k].state
      BY <1>1, <1>3 DEF Sweep, Reservation
    <2>2. charged' = charged
      BY <1>3 DEF Sweep
    <2>3. Protocol!Expire(lapsed)
      BY <2>1, <2>2 DEF Protocol!Expire
    <2>4. QED
      BY <2>3, ProtocolSweep
  <1>4. CASE booksVars' = booksVars
    BY <1>4 DEF booksVars, Protocol!abstractVars
  <1>5. QED
    BY <1>2, <1>3, <1>4, LedgerStep

\* On SQLite the ledger implements the reservation machine: a key is used
\* once, a hold ends once, and only a commit charges, once, within tolerance.
THEOREM LedgerImplementsProtocol == Serial => (Spec => ImplementsProtocol)
  <1> SUFFICES ASSUME Serial PROVE Spec => ImplementsProtocol
    OBVIOUS
  <1>1. SerialInv /\ [Next]_vars => SerialInv'
    BY SerialStep
  <1>2. SerialInv /\ [Next]_vars => [Protocol!PNext]_(Protocol!abstractVars)
    BY ProtocolStep
  <1>3. QED
    BY <1>1, <1>2, SerialInit, ProtocolInit, PTL
       DEF Spec, ImplementsProtocol, Protocol!PSpec

(***************************************************************************)
(* What the books come to. The balances are sums over the ledger, which    *)
(* SumTheorems reasons about: no assumption says that the keys are         *)
(* finitely many, but those in use always are.                             *)
(***************************************************************************)
Used == {k \in Keys : resv[k].state # "NONE"}

\* What is in the ledger is booked under a subscription and in a period, and
\* what a call is about to commit is in the ledger.
Placed ==
    /\ IsFiniteSet(Used)
    /\ \A k \in Used : resv[k].sub \in Subs /\ resv[k].period \in Periods
    /\ \A c \in Clients : InLock(c) /\ txn[c].mode = "COMMIT" => txn[c].key \in Used

\* Also on PostgreSQL one call at a time is past the lock of a subscription.
HolderOfSub ==
    \A c, d \in Clients : InLock(c) /\ InLock(d) /\ txn[c].sub = txn[d].sub => c = d

LedgerInv == TypeOK /\ Placed /\ HolderOfSub

LEMMA PlacedInit == Init => LedgerInv
  <1> SUFFICES ASSUME Init PROVE LedgerInv
    OBVIOUS
  <1>1. Used = {} /\ \A c \in Clients : ~InLock(c)
    BY DEF Init, Used, NoResv, InLock, Idle
  <1>2. QED
    BY <1>1, InitType, FS_EmptySet DEF LedgerInv, Placed, HolderOfSub

(***************************************************************************)
(* How the ledger moves: a call writes the row of its key, and the balance *)
(* of one subscription and period, or the sweep expires holds.             *)
(***************************************************************************)
\* c ends, and of the ledger only the row of its key changes.
Writes(c, k, mode) ==
    /\ txn[c].mode = mode /\ k = txn[c].key
    /\ InLock(c) /\ txn'[c] = Idle
    /\ \A l \in Keys \ {k} : resv'[l] = resv[l]

Books(s, p, amount) ==
    \A t \in Subs, q \in Periods :
        consumed'[t][q] = consumed[t][q] + (IF t = s /\ q = p THEN amount ELSE 0)

\* The rest of the row stays as it was.
Same(k) ==
    /\ resv'[k].sub = resv[k].sub
    /\ resv'[k].period = resv[k].period
    /\ resv'[k].qty = resv[k].qty

\* The row of k is new: a hold, or a direct consumption.
Enters(c, k, state, mode) ==
    /\ Writes(c, k, mode)
    /\ resv[k].state = "NONE"
    /\ resv'[k].state = state
    /\ resv'[k].sub = txn[c].sub
    /\ resv'[k].period = PeriodOf(txn[c].now)
    /\ resv'[k].qty = txn[c].qty

Holds(c, k) == Enters(c, k, "RESERVED", "RESERVE") /\ consumed' = consumed

Takes(c, k) ==
    /\ Enters(c, k, "COMMITTED", "CONSUME")
    /\ resv'[k].committed = txn[c].qty
    /\ Books(txn[c].sub, PeriodOf(txn[c].now), txn[c].qty)

Settles(c, k) ==
    /\ Writes(c, k, "COMMIT")
    /\ Same(k)
    /\ resv'[k].state = "COMMITTED"
    /\ resv'[k].committed = txn[c].amount
    /\ Books(txn[c].sub, resv[k].period, txn[c].amount)

Drops(c, k) ==
    /\ Writes(c, k, "RELEASE")
    /\ Same(k)
    /\ resv[k].state = "RESERVED" /\ resv'[k].state = "RELEASED"
    /\ consumed' = consumed

Lapses ==
    /\ UNCHANGED <<consumed, txn>>
    /\ \A k \in Keys : \/ resv'[k] = resv[k]
                       \/ /\ resv[k].state = "RESERVED" /\ resv'[k].state = "EXPIRED"
                          /\ Same(k)

LEMMA Booked ==
    ASSUME TypeOK, NEW s \in Subs, NEW p \in Periods, NEW k \in Keys, NEW amount \in Nat,
           AddConsumption(s, p, k, amount)
    PROVE  Books(s, p, amount)
  <1>1. consumed \in [Subs -> [Periods -> Nat]]
    BY DEF TypeOK
  <1>2. consumed' = [consumed EXCEPT ![s] = [consumed[s] EXCEPT ![p] = consumed[s][p] + amount]]
    BY <1>1 DEF AddConsumption
  <1>3. QED
    BY <1>1, <1>2 DEF Books

LEMMA LedgerMoves ==
    ASSUME ChargeInv, LedgerInv, [Next]_vars
    PROVE  \/ \E c \in Clients, k \in Keys :
                 Holds(c, k) \/ Takes(c, k) \/ Settles(c, k) \/ Drops(c, k)
           \/ Lapses
           \/ UNCHANGED <<resv, consumed>>
  <1>1. TypeOK /\ resv \in [Keys -> Reservation]
    BY DEF ChargeInv, TypeOK
  <1>2. ASSUME NEW c \in Clients,
               \/ FinishReserve(c) \/ FinishConsume(c)
               \/ FinishCommit(c) \/ FinishRelease(c)
        PROVE  \/ \E k \in Keys : Holds(c, k) \/ Takes(c, k) \/ Settles(c, k) \/ Drops(c, k)
               \/ UNCHANGED <<resv, consumed>>
    <2>1. txn[c] \in OpenTxn /\ InLock(c) /\ txn'[c] = Idle
      BY <1>1, <1>2, OpenTransaction
         DEF FinishReserve, FinishConsume, FinishCommit, FinishRelease,
             Finishes, Close, InLock, TypeOK
    <2>2. PICK k \in Keys : k = txn[c].key
      BY <2>1 DEF OpenTxn
    <2>3. /\ txn[c].sub \in Subs /\ PeriodOf(txn[c].now) \in Periods
          /\ txn[c].qty \in Nat /\ txn[c].amount \in Nat
      BY <2>1, PeriodType DEF OpenTxn
    <2>4. CASE UNCHANGED <<resv, consumed>>
      BY <2>4
    <2>5. CASE FinishReserve(c) /\ ~ UNCHANGED <<resv, consumed>>
      BY <1>1, <2>1, <2>2, <2>5 DEF FinishReserve, Finishes, Holds, Enters, Writes
    <2>6. CASE FinishConsume(c) /\ ~ UNCHANGED <<resv, consumed>>
      <3>1. txn[c].amount = txn[c].qty /\ txn[c].mode = "CONSUME"
        BY <2>1, <2>6 DEF FinishConsume, Finishes, ChargeInv, PendingConsume
      <3>2. /\ AddConsumption(txn[c].sub, PeriodOf(txn[c].now), k, txn[c].qty)
            /\ resv[k].state = "NONE"
            /\ resv' = [resv EXCEPT ![k] =
                  [state |-> "COMMITTED", sub |-> txn[c].sub,
                   period |-> PeriodOf(txn[c].now), qty |-> txn[c].qty,
                   committed |-> txn[c].qty, expires |-> NULL]]
        BY <2>2, <2>6, <3>1 DEF FinishConsume, booksVars
      <3>3. Books(txn[c].sub, PeriodOf(txn[c].now), txn[c].qty)
        BY <1>1, <2>3, <3>2, Booked
      <3>4. QED
        BY <1>1, <2>1, <2>2, <3>1, <3>2, <3>3 DEF Takes, Enters, Writes
    <2>7. CASE FinishCommit(c) /\ ~ UNCHANGED <<resv, consumed>>
      <3>1. txn[c].mode = "COMMIT" /\ resv[k].period \in Periods
        BY <2>1, <2>2, <2>7 DEF FinishCommit, Finishes, LedgerInv, Placed
      <3>2. Books(txn[c].sub, resv[k].period, txn[c].amount)
        BY <1>1, <2>2, <2>3, <2>7, <3>1, Booked DEF FinishCommit
      <3>3. resv' = [resv EXCEPT ![k] =
              [resv[k] EXCEPT !.state = "COMMITTED", !.committed = txn[c].amount]]
        BY <1>1, <2>2, <2>7 DEF FinishCommit
      <3>4. resv'[k] = [resv[k] EXCEPT !.state = "COMMITTED", !.committed = txn[c].amount]
            /\ resv[k] \in Reservation /\ \A l \in Keys \ {k} : resv'[l] = resv[l]
        BY <1>1, <3>3
      <3>5. Same(k) /\ resv'[k].state = "COMMITTED" /\ resv'[k].committed = txn[c].amount
        BY <3>4 DEF Same, Reservation
      <3>6. QED
        BY <2>1, <2>2, <3>1, <3>2, <3>4, <3>5 DEF Settles, Writes
    <2>8. CASE FinishRelease(c) /\ ~ UNCHANGED <<resv, consumed>>
      <3>1. /\ txn[c].mode = "RELEASE" /\ resv[k].state = "RESERVED" /\ consumed' = consumed
            /\ resv' = [resv EXCEPT ![k] = [resv[k] EXCEPT !.state = "RELEASED"]]
        BY <1>1, <2>2, <2>8 DEF FinishRelease, Finishes
      <3>2. resv'[k] = [resv[k] EXCEPT !.state = "RELEASED"]
            /\ resv[k] \in Reservation /\ \A l \in Keys \ {k} : resv'[l] = resv[l]
        BY <1>1, <3>1
      <3>3. Same(k) /\ resv'[k].state = "RELEASED"
        BY <3>2 DEF Same, Reservation
      <3>4. QED
        BY <2>1, <2>2, <3>1, <3>2, <3>3 DEF Drops, Writes
    <2>9. QED
      BY <1>2, <2>4, <2>5, <2>6, <2>7, <2>8
  <1>3. CASE Sweep
    <2>1. ASSUME NEW k \in Keys
          PROVE  \/ resv'[k] = resv[k]
                 \/ resv[k].state = "RESERVED" /\ resv'[k].state = "EXPIRED" /\ Same(k)
      BY <1>1, <1>3 DEF Sweep, Same, Reservation
    <2>2. QED
      BY <1>3, <2>1 DEF Lapses, Sweep
  <1>4. CASE booksVars' = booksVars
    BY <1>4 DEF booksVars
  <1>5. QED
    BY <1>2, <1>3, <1>4, LedgerStep

LEMMA HolderOfSubStep ==
    ASSUME ChargeInv, LedgerInv, [Next]_vars
    PROVE  HolderOfSub'
  <1> SUFFICES ASSUME NEW c \in Clients, NEW d \in Clients,
                      InLock(c)', InLock(d)', txn'[c].sub = txn'[d].sub, c # d
               PROVE  FALSE
    BY DEF HolderOfSub
  <1>1. TypeOK /\ \A e \in Clients : InLock(e)' => txn'[e] # Idle
    BY DEF ChargeInv, InLock, Idle
  <1>2. ASSUME NEW a \in Clients, InLock(a)', ~InLock(a)
        PROVE  /\ Unlocked(txn[a].sub) /\ txn'[a].sub = txn[a].sub
               /\ \A b \in Clients \ {a} : txn'[b] = txn[b]
    <2>1. /\ AdmitReserve(a) \/ AdmitConsume(a) \/ AdmitCommit(a) \/ AdmitRelease(a)
          /\ Unlocked(txn[a].sub)
      BY <1>2, LockStep
    <2>2. Step(a)
      BY <2>1 DEF Step
    <2>3. QED
      BY <1>1, <1>2, <2>1, <2>2, AdmitEffect, OwnTransaction
  <1>3. ~ (InLock(c) /\ InLock(d))
    BY KeptStep DEF LedgerInv, HolderOfSub
  <1>4. QED
    BY <1>2, <1>3 DEF InLock, Unlocked

LEMMA PlacedStep ==
    ASSUME ChargeInv, LedgerInv, [Next]_vars
    PROVE  LedgerInv'
  <1>1. TypeOK /\ TypeOK' /\ Placed
    BY NextType DEF ChargeInv, LedgerInv
  <1>2. /\ Used \subseteq Used'
        /\ \/ Used' = Used
           \/ \E k \in Keys : Used' = Used \cup {k}
        /\ \A k \in Used' : resv'[k].sub \in Subs /\ resv'[k].period \in Periods
    <2>1. CASE UNCHANGED <<resv, consumed>>
      BY <1>1, <2>1 DEF Placed, Used
    <2>2. CASE Lapses
      BY <1>1, <2>2 DEF Lapses, Same, Placed, Used
    <2>3. ASSUME NEW c \in Clients, NEW k \in Keys, Settles(c, k) \/ Drops(c, k)
          PROVE  /\ Used' = Used
                 /\ \A l \in Used' : resv'[l].sub \in Subs /\ resv'[l].period \in Periods
      BY <1>1, <2>3 DEF Settles, Drops, Writes, Same, Placed, Used
    <2>4. ASSUME NEW c \in Clients, NEW k \in Keys, Holds(c, k) \/ Takes(c, k)
          PROVE  /\ Used' = Used \cup {k}
                 /\ \A l \in Used' : resv'[l].sub \in Subs /\ resv'[l].period \in Periods
      <3>1. txn[c].sub \in Subs /\ PeriodOf(txn[c].now) \in Periods
        BY <1>1, <2>4, OpenTransaction, PeriodType
           DEF Holds, Takes, Enters, Writes, InLock, OpenTxn
      <3>2. QED
        BY <1>1, <2>4, <3>1 DEF Holds, Takes, Enters, Writes, Placed, Used
    <2>5. QED
      BY <2>1, <2>2, <2>3, <2>4, LedgerMoves
  <1>3. IsFiniteSet(Used')
    BY <1>1, <1>2, FS_AddElement DEF Placed
  <1>4. ASSUME NEW c \in Clients, InLock(c)', txn'[c].mode = "COMMIT"
        PROVE  txn'[c].key \in Used'
    <2>1. CASE InLock(c)
      BY <1>1, <1>2, <1>4, <2>1, KeptStep DEF Placed
    <2>2. CASE ~InLock(c)
      <3>1. AdmitReserve(c) \/ AdmitConsume(c) \/ AdmitCommit(c) \/ AdmitRelease(c)
        BY <1>4, <2>2, LockStep
      <3>2. txn'[c] # Idle
        BY <1>4 DEF InLock, Idle
      <3>3. txn[c].key \in Used /\ txn'[c].key = txn[c].key
        BY <1>1, <1>4, <3>1, <3>2, AdmitEffect DEF Used, OpenTxn
      <3>4. QED
        BY <1>2, <3>3
    <2>3. QED
      BY <2>1, <2>2
  <1>5. Placed'
    BY <1>2, <1>3, <1>4 DEF Placed
  <1>6. QED
    BY <1>1, <1>5, HolderOfSubStep DEF LedgerInv

(***************************************************************************)
(* The books balance: what is charged to a subscription is charged in the  *)
(* period of the row that is committed with it, and no row is committed    *)
(* twice (PendingCommit). The period of the hold says where, not the day   *)
(* of the call.                                                            *)
(***************************************************************************)
CommittedIn(p) == {k \in Keys : resv[k].state = "COMMITTED" /\ resv[k].period = p}
ConsumedIn(p) == SumFunctionOnSet([s \in Subs |-> consumed[s][p]], Subs)
RecordedIn(p) == SumFunctionOnSet([k \in Keys |-> resv[k].committed], CommittedIn(p))

LEMMA SubsFinite == IsFiniteSet(Subs)
  BY FS_Interval, EntitlementsAssumption DEF Subs

LEMMA BalanceInit == Init => BooksBalance
  <1> SUFFICES ASSUME Init, NEW p \in Periods PROVE ConsumedIn(p) = RecordedIn(p)
    BY DEF BooksBalance, ConsumedIn, RecordedIn, CommittedIn
  <1>1. CommittedIn(p) = {}
    BY DEF Init, NoResv, CommittedIn
  <1>2. \A s \in Subs : [t \in Subs |-> consumed[t][p]][s] = 0
    BY DEF Init
  <1>3. ConsumedIn(p) = 0
    BY <1>2, SubsFinite, SumZero DEF ConsumedIn
  <1>4. QED
    BY <1>1, <1>3, SumEmpty DEF RecordedIn

\* A charge and the row that records it come together.
LEMMA BalanceCharge ==
    ASSUME TypeOK, TypeOK', IsFiniteSet(Used), BooksBalance,
           NEW s \in Subs, NEW p \in Periods, NEW amount \in Nat, Books(s, p, amount),
           NEW k \in Keys, \A l \in Keys \ {k} : resv'[l] = resv[l],
           resv[k].state # "COMMITTED", resv'[k].state = "COMMITTED",
           resv'[k].period = p, resv'[k].committed = amount
    PROVE  BooksBalance'
  <1>1. SUFFICES ASSUME NEW q \in Periods PROVE ConsumedIn(q)' = RecordedIn(q)'
    BY DEF BooksBalance, ConsumedIn, RecordedIn, CommittedIn
  <1>2. ConsumedIn(q) = RecordedIn(q)
    BY DEF BooksBalance, ConsumedIn, RecordedIn, CommittedIn
  <1> DEFINE f == [t \in Subs |-> consumed[t][q]]
             g == [t \in Subs |-> consumed'[t][q]]
             h == [l \in Keys |-> resv[l].committed]
             j == [l \in Keys |-> resv'[l].committed]
  <1>3. /\ \A t \in Subs : f[t] \in Nat /\ g[t] \in Nat
        /\ \A l \in Keys : h[l] \in Nat /\ j[l] \in Nat
    BY DEF TypeOK, Reservation
  <1>4. \A t \in Subs : g[t] = f[t] + (IF t = s /\ q = p THEN amount ELSE 0)
    BY DEF Books
  <1>5. /\ \A l \in Keys : l # k => j[l] = h[l]
        /\ j[k] = amount
    OBVIOUS
  <1>6. /\ ConsumedIn(q) = SumFunctionOnSet(f, Subs)
        /\ ConsumedIn(q)' = SumFunctionOnSet(g, Subs)
        /\ RecordedIn(q) = SumFunctionOnSet(h, CommittedIn(q))
        /\ RecordedIn(q)' = SumFunctionOnSet(j, CommittedIn(q)')
    BY DEF ConsumedIn, RecordedIn
  <1>7. /\ IsFiniteSet(CommittedIn(q)) /\ CommittedIn(q) \subseteq Keys
        /\ k \notin CommittedIn(q)
        /\ CommittedIn(q)' = IF q = p THEN CommittedIn(q) \cup {k} ELSE CommittedIn(q)
    <2>1. CommittedIn(q) \subseteq Used
      BY DEF CommittedIn, Used
    <2>2. QED
      BY <2>1, FS_Subset DEF CommittedIn
  <1> HIDE DEF f, g, h, j
  <1>8. SumFunctionOnSet(h, CommittedIn(q)) = SumFunctionOnSet(j, CommittedIn(q))
    BY <1>5, <1>7, SumSame
  <1>9. CASE q # p
    <2>1. SumFunctionOnSet(f, Subs) = SumFunctionOnSet(g, Subs)
      BY <1>3, <1>4, <1>9, SubsFinite, SumSame
    <2>2. QED
      BY <1>2, <1>6, <1>7, <1>8, <1>9, <2>1
  <1>10. CASE q = p
    <2>1. SumFunctionOnSet(g, Subs) = SumFunctionOnSet(f, Subs) + (g[s] - f[s])
      <3>1. Whole(f, Subs) /\ Whole(g, Subs)
        BY <1>3 DEF Whole
      <3>2. QED
        BY <1>3, <1>4, <3>1, SubsFinite, SumChange
    <2>2. g[s] - f[s] = amount
      BY <1>3, <1>4, <1>10
    <2>3. SumFunctionOnSet(j, CommittedIn(q)')
            = SumFunctionOnSet(j, CommittedIn(q)) + j[k]
      <3>1. Whole(j, CommittedIn(q)')
        BY <1>3, <1>7 DEF Whole
      <3>2. QED
        BY <1>7, <1>10, <3>1, SumAdd
    <2>4. QED
      BY <1>2, <1>5, <1>6, <1>8, <2>1, <2>2, <2>3
  <1>11. QED
    BY <1>9, <1>10

\* Where nothing is charged, what is committed stays as it is.
LEMMA BalanceRest ==
    ASSUME IsFiniteSet(Used), BooksBalance, consumed' = consumed,
           \A k \in Keys : \/ resv'[k] = resv[k]
                           \/ resv[k].state # "COMMITTED" /\ resv'[k].state # "COMMITTED"
    PROVE  BooksBalance'
  <1>1. ASSUME NEW p \in Periods PROVE ConsumedIn(p)' = RecordedIn(p)'
    <2> DEFINE f == [k \in Keys |-> resv[k].committed]
               g == [k \in Keys |-> resv'[k].committed]
    <2>1. CommittedIn(p)' = CommittedIn(p) /\ \A k \in CommittedIn(p) : f[k] = g[k]
      BY DEF CommittedIn
    <2>2. IsFiniteSet(CommittedIn(p))
      <3>1. CommittedIn(p) \subseteq Used
        BY DEF CommittedIn, Used
      <3>2. QED
        BY <3>1, FS_Subset
    <2>3. SumFunctionOnSet(f, CommittedIn(p)) = SumFunctionOnSet(g, CommittedIn(p))
      <3> HIDE DEF f, g
      <3>1. QED
        BY <2>1, <2>2, SumSame
    <2>4. RecordedIn(p)' = RecordedIn(p) /\ ConsumedIn(p)' = ConsumedIn(p)
      BY <2>1, <2>3 DEF RecordedIn, ConsumedIn
    <2>5. QED
      BY <2>4 DEF BooksBalance, ConsumedIn, RecordedIn, CommittedIn
  <1>2. QED
    BY <1>1 DEF BooksBalance, ConsumedIn, RecordedIn, CommittedIn

LEMMA BalanceStep ==
    ASSUME OneLock, ChargeInv, LedgerInv, BooksBalance, [Next]_vars
    PROVE  BooksBalance'
  <1>1. TypeOK /\ TypeOK' /\ IsFiniteSet(Used)
    BY NextType DEF LedgerInv, Placed
  <1>2. CASE UNCHANGED <<resv, consumed>> \/ Lapses
    BY <1>1, <1>2, BalanceRest DEF Lapses
  <1>3. ASSUME NEW c \in Clients, NEW k \in Keys, Holds(c, k) \/ Drops(c, k)
        PROVE  BooksBalance'
    <2>1. consumed' = consumed /\ resv[k].state # "COMMITTED" /\ resv'[k].state # "COMMITTED"
          /\ \A l \in Keys \ {k} : resv'[l] = resv[l]
      BY <1>3 DEF Holds, Drops, Enters, Writes
    <2>2. QED
      BY <1>1, <2>1, BalanceRest
  <1>4. ASSUME NEW c \in Clients, NEW k \in Keys, Takes(c, k) \/ Settles(c, k)
        PROVE  BooksBalance'
    <2>1. txn[c] \in OpenTxn /\ \A l \in Keys \ {k} : resv'[l] = resv[l]
      BY <1>1, <1>4, OpenTransaction DEF Takes, Settles, Enters, Writes, InLock
    <2>2. /\ txn[c].sub \in Subs /\ PeriodOf(txn[c].now) \in Periods
          /\ txn[c].qty \in Nat /\ txn[c].amount \in Nat
      BY <2>1, PeriodType DEF OpenTxn
    <2>3. PICK p \in Periods, amount \in Nat :
            /\ Books(txn[c].sub, p, amount)
            /\ resv[k].state # "COMMITTED" /\ resv'[k].state = "COMMITTED"
            /\ resv'[k].period = p /\ resv'[k].committed = amount
      <3>1. CASE Takes(c, k)
        BY <2>2, <3>1 DEF Takes, Enters
      <3>2. CASE Settles(c, k)
        <4>1. resv[k].state \in {"RESERVED", "EXPIRED"}
          BY <3>2 DEF Settles, Writes, ChargeInv, PendingCommit
        <4>2. resv[k].period \in Periods
          BY <4>1 DEF LedgerInv, Placed, Used
        <4>3. QED
          BY <2>2, <3>2, <4>1, <4>2 DEF Settles, Same
      <3>3. QED
        BY <1>4, <3>1, <3>2
    <2>4. QED
      BY <1>1, <2>1, <2>2, <2>3, BalanceCharge
  <1>5. QED
    BY <1>2, <1>3, <1>4, LedgerMoves

\* _add_consumption, _commit: in every billing period what the tenant's
\* subscriptions were charged is what the committed reservations of the period
\* record, for any number of keys, calls, subscriptions and periods - on SQLite,
\* and on PostgreSQL for a tenant of one subscription.
THEOREM BooksAlwaysBalance == OneLock => (Spec => []BooksBalance)
  <1> SUFFICES ASSUME OneLock PROVE Spec => []BooksBalance
    OBVIOUS
  <1> DEFINE Inv == ChargeInv /\ LedgerInv /\ BooksBalance
  <1>1. Init => Inv
    BY ChargeInit, PlacedInit, BalanceInit
  <1>2. Inv /\ [Next]_vars => Inv'
    BY ChargeStep, PlacedStep, BalanceStep
  <1> HIDE DEF Inv
  <1>3. Inv => BooksBalance
    BY DEF Inv
  <1>4. QED
    BY <1>1, <1>2, <1>3, PTL DEF Spec

(***************************************************************************)
(* A grant fits. What a call saw free when it decided is still free when   *)
(* it writes, since only the holder of the subscription's lock adds to     *)
(* what is consumed and held under it; and the entitlement it relied on    *)
(* was resolved, and in force when the call began (Resolution).            *)
(***************************************************************************)
Grants(c) == InLock(c) /\ txn[c].mode \in {"RESERVE", "CONSUME"}

\* An entitlement row that the resolution leaves, now or earlier, where these
\* are the overrides.
Known(rows, e) ==
    \/ e = PlanEnt
    \/ \E o \in rows :
          e = [source |-> "OVERRIDE", limit |-> o.limit, expires |-> o.expires]

\* What is written in the table, what a CHECK is about to write, and what a
\* grant relies on was resolved; the grant's was in force when its call began.
Resolution ==
    /\ \A s \in Subs : ent[s] = NoEnt \/ Known(overrides[s], ent[s])
    /\ \A c \in Clients : txn[c].phase = "healing" => Known(overrides[txn[c].sub], txn[c].ent)
    /\ \A c \in Clients : Grants(c) => /\ Known(overrides[txn[c].sub], txn[c].ent)
                                       /\ ~Lapsed(txn[c].ent.expires, txn[c].now)

\* What a call decided to grant still fits.
GrantFits ==
    \A c \in Clients :
        Grants(c) => Fits(txn[c].ent, txn[c].sub, PeriodOf(txn[c].now), txn[c].qty)

FitInv == LedgerInv /\ Resolution /\ GrantFits

HeldKeys(s, p) ==
    {k \in Keys : resv[k].state = "RESERVED" /\ resv[k].sub = s /\ resv[k].period = p}
Quantities == [k \in Keys |-> resv[k].qty]

LEMMA HeldFinite ==
    ASSUME TypeOK, IsFiniteSet(Used), NEW s, NEW p
    PROVE  /\ IsFiniteSet(HeldKeys(s, p)) /\ HeldKeys(s, p) \subseteq Keys
           /\ \A k \in Keys : Quantities[k] \in Nat
           /\ Held(s, p) = SumFunctionOnSet(Quantities, HeldKeys(s, p))
           /\ Held(s, p) \in Nat
  <1>1. IsFiniteSet(HeldKeys(s, p))
    <2>1. HeldKeys(s, p) \subseteq Used
      BY DEF HeldKeys, Used
    <2>2. QED
      BY <2>1, FS_Subset
  <1>2. \A k \in Keys : Quantities[k] \in Nat
    BY DEF Quantities, TypeOK, Reservation
  <1>3. Held(s, p) = SumFunctionOnSet(Quantities, HeldKeys(s, p))
    BY DEF Held, HeldKeys, Quantities
  <1>4. HeldKeys(s, p) \subseteq Keys
    BY DEF HeldKeys
  <1>5. SumFunctionOnSet(Quantities, HeldKeys(s, p)) \in Nat
    BY <1>1, <1>2, <1>4, SumType
  <1>6. QED
    BY <1>1, <1>2, <1>3, <1>4, <1>5

\* Where no hold is new, no more is held.
LEMMA HeldDrops ==
    ASSUME TypeOK, TypeOK', IsFiniteSet(Used), NEW s, NEW p,
           \A k \in HeldKeys(s, p)' : k \in HeldKeys(s, p) /\ resv'[k].qty = resv[k].qty
    PROVE  Held(s, p) \in Nat /\ Held(s, p)' \in Nat /\ Held(s, p)' <= Held(s, p)
  <1>1. Held(s, p)' = SumFunctionOnSet(Quantities', HeldKeys(s, p)')
    BY DEF Held, HeldKeys, Quantities
  <1>2. \A k \in HeldKeys(s, p)' : Quantities'[k] = Quantities[k]
    BY HeldFinite DEF Quantities
  <1>3. \A k \in HeldKeys(s, p) : Quantities[k] \in Nat
    BY HeldFinite
  <1>4. QED
    BY <1>1, <1>2, <1>3, HeldFinite, SumShrinks

\* A hold that ends is held no longer.
LEMMA HeldLoses ==
    ASSUME TypeOK, TypeOK', IsFiniteSet(Used), NEW s, NEW p,
           \A k \in HeldKeys(s, p)' : k \in HeldKeys(s, p) /\ resv'[k].qty = resv[k].qty,
           NEW k \in HeldKeys(s, p), k \notin HeldKeys(s, p)'
    PROVE  Held(s, p)' + resv[k].qty <= Held(s, p)
  <1> DEFINE rest == HeldKeys(s, p) \ {k}
  <1>1. /\ Held(s, p)' = SumFunctionOnSet(Quantities', HeldKeys(s, p)')
        /\ Quantities[k] = resv[k].qty
    BY DEF Held, HeldKeys, Quantities
  <1>2. \A l \in HeldKeys(s, p)' : Quantities'[l] = Quantities[l]
    BY HeldFinite DEF Quantities
  <1>3. \A l \in HeldKeys(s, p) : Quantities[l] \in Nat
    BY HeldFinite
  <1>4. IsFiniteSet(rest) /\ HeldKeys(s, p)' \subseteq rest /\ \A l \in rest : Quantities[l] \in Nat
    BY <1>3, HeldFinite, FS_RemoveElement
  <1> HIDE DEF rest
  <1>5. /\ SumFunctionOnSet(Quantities, rest) \in Nat
        /\ Held(s, p)' \in Nat
        /\ Held(s, p)' <= SumFunctionOnSet(Quantities, rest)
    BY <1>1, <1>2, <1>4, SumShrinks
  <1>6. Held(s, p) = Quantities[k] + SumFunctionOnSet(Quantities, rest)
    <2>1. Whole(Quantities, HeldKeys(s, p))
      BY <1>3 DEF Whole
    <2>2. QED
      BY <2>1, HeldFinite, SumRemove DEF rest
  <1>7. QED
    BY <1>1, <1>3, <1>5, <1>6

\* A new hold.
LEMMA HeldGains ==
    ASSUME TypeOK, TypeOK', IsFiniteSet(Used), NEW s, NEW p, NEW k \in Keys,
           k \notin HeldKeys(s, p), HeldKeys(s, p)' = HeldKeys(s, p) \cup {k},
           \A l \in Keys \ {k} : resv'[l] = resv[l]
    PROVE  Held(s, p)' = Held(s, p) + resv'[k].qty
  <1>1. /\ Held(s, p)' = SumFunctionOnSet(Quantities', HeldKeys(s, p)')
        /\ Quantities'[k] = resv'[k].qty
    BY DEF Held, HeldKeys, Quantities
  <1>2. \A l \in HeldKeys(s, p) : Quantities'[l] = Quantities[l]
    BY HeldFinite DEF Quantities
  <1>3. SumFunctionOnSet(Quantities', HeldKeys(s, p)) = SumFunctionOnSet(Quantities, HeldKeys(s, p))
    BY <1>2, HeldFinite, SumSame
  <1>4. Whole(Quantities', HeldKeys(s, p)')
    <2>1. \A l \in Keys : Quantities'[l] \in Nat
      BY DEF Quantities, TypeOK, Reservation
    <2>2. QED
      BY <2>1, HeldFinite DEF Whole
  <1>5. SumFunctionOnSet(Quantities', HeldKeys(s, p)')
          = SumFunctionOnSet(Quantities', HeldKeys(s, p)) + Quantities'[k]
    BY <1>4, HeldFinite, SumAdd
  <1>6. QED
    BY <1>1, <1>3, <1>5, HeldFinite

\* What the resolution of s leaves is known, and in force at that instant.
LEMMA ResolvedKnown ==
    ASSUME NEW rows, NEW now, NEW e \in Resolved(rows, now)
    PROVE  Known(rows, e) /\ ~Lapsed(e.expires, now)
  BY DEF Resolved, Known, PlanEnt, Lapsed

LEMMA FreshKnown ==
    ASSUME Resolution, NEW s \in Subs, NEW now, NEW e \in FreshEntitlement(s, now)
    PROVE  /\ e = NoEnt \/ Known(overrides[s], e)
           /\ ~Lapsed(e.expires, now)
  BY ResolvedKnown DEF FreshEntitlement, Resolution

LEMMA OverridesGrow ==
    ASSUME TypeOK, [Next]_vars, NEW s \in Subs
    PROVE  overrides[s] \subseteq overrides'[s]
  <1>1. CASE UNCHANGED overrides
    BY <1>1
  <1>2. CASE \E t \in Subs, o \in OverrideRow : AddOverride(t, o)
    BY <1>2 DEF AddOverride, TypeOK
  <1>3. QED
    BY <1>1, <1>2
       DEF Next, Call, Begin, BeginCheck, DenyUnsubscribed, Step, AdmitReserve,
           AdmitConsume, AdmitCommit, AdmitRelease, FinishReserve, FinishConsume,
           FinishCommit, FinishRelease, Finishes, FinishCheck, Abort, Sweep,
           ChangeSubscription, Tick, vars

\* The call that takes the lock to grant saw that it fits.
LEMMA GrantAdmitted ==
    ASSUME ChargeInv, [Next]_vars, NEW c \in Clients, Grants(c)', ~InLock(c)
    PROVE  /\ txn[c] \in OpenTxn
           /\ \E e \in FreshEntitlement(txn[c].sub, txn[c].now) :
                 /\ e.source # "NONE"
                 /\ Fits(e, txn[c].sub, PeriodOf(txn[c].now), txn[c].qty)
                 /\ txn'[c] = [txn[c] EXCEPT !.phase = "locked", !.ent = e,
                                             !.amount = txn'[c].amount]
           /\ UNCHANGED <<booksVars, overrides>>
  <1>1. TypeOK /\ txn'[c] # Idle
    BY DEF ChargeInv, Grants, InLock, Idle
  <1>2. AdmitReserve(c) \/ AdmitConsume(c) \/ AdmitCommit(c) \/ AdmitRelease(c)
    BY LockStep DEF Grants
  <1>3. txn[c] \in OpenTxn /\ txn'[c].mode = txn[c].mode
    BY <1>1, <1>2, AdmitEffect
  <1>4. ASSUME NEW e, Answer(c, e) PROVE FALSE
    BY <1>1, <1>4 DEF Answer, Close, TypeOK
  <1>5. ASSUME NEW e, NEW a, Proceed(c, e, a)
        PROVE  txn'[c] = [txn[c] EXCEPT !.phase = "locked", !.ent = e,
                                        !.amount = txn'[c].amount]
    <2>1. txn'[c] = [txn[c] EXCEPT !.phase = "locked", !.ent = e, !.amount = a]
      BY <1>1, <1>5 DEF Proceed, TypeOK
    <2>2. txn'[c].amount = a
      BY <1>3, <2>1 DEF OpenTxn
    <2>3. QED
      BY <2>1, <2>2
  <1>6. CASE AdmitReserve(c)
    BY <1>3, <1>4, <1>5, <1>6 DEF AdmitReserve
  <1>7. CASE AdmitConsume(c)
    BY <1>3, <1>4, <1>5, <1>7 DEF AdmitConsume
  <1>8. CASE AdmitCommit(c) \/ AdmitRelease(c)
    BY <1>3, <1>8 DEF AdmitCommit, AdmitRelease, Acquires, Grants
  <1>9. QED
    BY <1>2, <1>6, <1>7, <1>8

LEMMA ResolutionStep ==
    ASSUME ChargeInv, LedgerInv, Resolution, [Next]_vars
    PROVE  Resolution'
  <1>1. TypeOK /\ TypeOK'
    BY NextType DEF ChargeInv
  <1>2. ASSUME NEW s \in Subs, NEW e, Known(overrides[s], e)
        PROVE  Known(overrides'[s], e)
    BY <1>1, <1>2, OverridesGrow DEF Known
  <1>3. ASSUME NEW s \in Subs
        PROVE  ent'[s] = NoEnt \/ Known(overrides'[s], ent'[s])
    <2>1. ASSUME NEW t \in Subs, NEW e, ent' = [ent EXCEPT ![t] = e],
                 e = NoEnt \/ Known(overrides'[t], e)
          PROVE  ent'[s] = NoEnt \/ Known(overrides'[s], ent'[s])
      <3>1. CASE s = t
        BY <1>1, <2>1, <3>1 DEF TypeOK
      <3>2. CASE s # t
        BY <1>1, <1>2, <2>1, <3>2 DEF TypeOK, Resolution
      <3>3. QED
        BY <3>1, <3>2
    <2>2. CASE UNCHANGED ent
      BY <1>2, <2>2 DEF Resolution
    <2>3. ASSUME NEW c \in Clients,
                 AdmitReserve(c) \/ AdmitConsume(c) \/ AdmitCommit(c) \/ AdmitRelease(c)
          PROVE  ent'[s] = NoEnt \/ Known(overrides'[s], ent'[s])
      <3>1. txn[c].sub \in Subs
        BY <1>1, <2>3, OpenTransaction
           DEF AdmitReserve, AdmitConsume, AdmitCommit, AdmitRelease, Acquires, OpenTxn
      <3>2. \/ UNCHANGED ent
            \/ \E e : /\ ent' = [ent EXCEPT ![txn[c].sub] = e]
                      /\ e = NoEnt \/ Known(overrides[txn[c].sub], e)
        <4>1. ent[txn[c].sub] = NoEnt \/ Known(overrides[txn[c].sub], ent[txn[c].sub])
          BY <3>1 DEF Resolution
        <4>2. \A e \in FreshEntitlement(txn[c].sub, txn[c].now) :
                 e = NoEnt \/ Known(overrides[txn[c].sub], e)
          BY <3>1, FreshKnown
        <4>3. ASSUME NEW e, NEW a, Answer(c, e) \/ Proceed(c, e, a)
              PROVE  UNCHANGED ent \/ ent' = [ent EXCEPT ![txn[c].sub] = e]
          BY <4>3 DEF Answer, Proceed
        <4>4. CASE AdmitReserve(c)
          <5>1. CASE Answer(c, ent[txn[c].sub])
            BY <4>1, <4>3, <5>1
          <5>2. CASE ~ Answer(c, ent[txn[c].sub])
            <6>1. PICK e \in FreshEntitlement(txn[c].sub, txn[c].now) :
                    Answer(c, e) \/ Proceed(c, e, 0)
              BY <4>4, <5>2 DEF AdmitReserve
            <6>2. QED
              BY <4>2, <4>3, <6>1
          <5>3. QED
            BY <5>1, <5>2
        <4>5. CASE AdmitConsume(c)
          BY <4>1, <4>2, <4>3, <4>5 DEF AdmitConsume
        <4>6. CASE AdmitCommit(c) \/ AdmitRelease(c)
          BY <4>1, <4>3, <4>6 DEF AdmitCommit, AdmitRelease
        <4>7. QED
          BY <2>3, <4>4, <4>5, <4>6
      <3>3. QED
        BY <1>2, <2>1, <2>2, <3>1, <3>2
    <2>4. ASSUME NEW c \in Clients, FinishReserve(c) \/ FinishConsume(c)
          PROVE  ent'[s] = NoEnt \/ Known(overrides'[s], ent'[s])
      <3>1. Grants(c) /\ txn[c].sub \in Subs
        BY <1>1, <2>4, OpenTransaction
           DEF FinishReserve, FinishConsume, Finishes, Grants, InLock, OpenTxn
      <3>2. UNCHANGED ent \/ ent' = [ent EXCEPT ![txn[c].sub] = txn[c].ent]
        BY <2>4 DEF FinishReserve, FinishConsume
      <3>3. Known(overrides[txn[c].sub], txn[c].ent)
        BY <3>1 DEF Resolution
      <3>4. QED
        BY <1>2, <2>1, <2>2, <3>1, <3>2, <3>3
    <2>5. ASSUME NEW c \in Clients, FinishCheck(c)
          PROVE  ent'[s] = NoEnt \/ Known(overrides'[s], ent'[s])
      <3>1. txn[c].sub \in Subs
        BY <1>1, <2>5 DEF FinishCheck, TypeOK, OpenTxn, HealTxn, Idle
      <3>2. Known(overrides[txn[c].sub], txn[c].ent) /\ ent' = [ent EXCEPT ![txn[c].sub] = txn[c].ent]
        BY <2>5 DEF FinishCheck, Resolution
      <3>3. QED
        BY <1>2, <2>1, <3>1, <3>2
    <2>6. ASSUME NEW t \in Subs, NEW op \in Operations, ChangeSubscription(t, op)
          PROVE  ent'[s] = NoEnt \/ Known(overrides'[s], ent'[s])
      <3>1. \/ UNCHANGED ent
            \/ \E e \in Resolved(overrides[t], clock) : ent' = [ent EXCEPT ![t] = e]
        BY <2>6 DEF ChangeSubscription
      <3>2. QED
        BY <1>2, <2>1, <2>2, <3>1, ResolvedKnown
    <2>7. ASSUME NEW t \in Subs, NEW o \in OverrideRow, AddOverride(t, o)
          PROVE  ent'[s] = NoEnt \/ Known(overrides'[s], ent'[s])
      <3>1. PICK e \in Resolved(overrides'[t], clock) : ent' = [ent EXCEPT ![t] = e]
        BY <2>7 DEF AddOverride
      <3>2. QED
        BY <2>1, <3>1, ResolvedKnown
    <2>8. QED
      BY <2>2, <2>3, <2>4, <2>5, <2>6, <2>7
         DEF Next, Call, Begin, BeginCheck, DenyUnsubscribed, Step, FinishCommit,
             FinishRelease, Abort, Sweep, Tick, vars
  <1>4. ASSUME NEW c \in Clients, txn'[c].phase = "healing"
        PROVE  Known(overrides'[txn'[c].sub], txn'[c].ent)
    <2>1. CASE txn'[c] = txn[c]
      <3>1. txn[c].sub \in Subs /\ Known(overrides[txn[c].sub], txn[c].ent)
        BY <1>1, <1>4, <2>1 DEF TypeOK, OpenTxn, HealTxn, Idle, Resolution
      <3>2. PICK t : t = txn[c]
        OBVIOUS
      <3>3. Known(overrides'[t.sub], t.ent)
        BY <1>2, <3>1, <3>2
      <3>4. QED
        BY <2>1, <3>2, <3>3
    <2>2. CASE BeginCheck(c)
      <3>1. PICK s \in Subs, e \in EntRow :
              /\ txn'[c] = [phase |-> "healing", sub |-> s, ent |-> e]
              /\ Known(overrides[s], e)
        <4>1. PICK s \in ActiveSubscription, now \in Instants :
                /\ Lapsed(ent[s].expires, now)
                /\ \E e \in FreshEntitlement(s, now) :
                      txn' = [txn EXCEPT ![c] = [phase |-> "healing", sub |-> s, ent |-> e]]
          BY <2>2 DEF BeginCheck
        <4>2. s \in Subs
          BY DEF ActiveSubscription, Candidates
        <4>3. PICK e \in Resolved(overrides[s], now) :
                txn' = [txn EXCEPT ![c] = [phase |-> "healing", sub |-> s, ent |-> e]]
          BY <4>1 DEF FreshEntitlement
        <4>4. Known(overrides[s], e) /\ e \in EntRow
          BY <1>1, <4>2, ResolvedKnown, ResolvedType DEF TypeOK
        <4>5. QED
          BY <1>1, <4>2, <4>3, <4>4 DEF TypeOK
      <3>2. QED
        BY <1>2, <3>1
    <2>3. txn'[c] = txn[c] \/ BeginCheck(c)
      <3>1. ASSUME Step(c) PROVE FALSE
        <4>1. ASSUME NEW e, Answer(c, e) PROVE FALSE
          BY <1>1, <1>4, <4>1 DEF Answer, Close, TypeOK, Idle
        <4>2. ASSUME NEW e, NEW a, Proceed(c, e, a), txn[c] \in OpenTxn PROVE FALSE
          BY <1>1, <1>4, <4>2 DEF Proceed, TypeOK, OpenTxn
        <4>3. CASE AdmitReserve(c) \/ AdmitConsume(c) \/ AdmitCommit(c) \/ AdmitRelease(c)
          <5>1. txn[c] \in OpenTxn
            BY <1>1, <4>3, OpenTransaction
               DEF AdmitReserve, AdmitConsume, AdmitCommit, AdmitRelease, Acquires
          <5>2. QED
            BY <4>1, <4>2, <4>3, <5>1
               DEF AdmitReserve, AdmitConsume, AdmitCommit, AdmitRelease
        <4>4. CASE Close(c)
          BY <1>1, <1>4, <4>4 DEF Close, TypeOK, Idle
        <4>5. QED
          BY <3>1, <4>3, <4>4
             DEF Step, FinishReserve, FinishConsume, FinishCommit, FinishRelease,
                 FinishCheck, Finishes, Abort
      <3>2. ASSUME NEW mode, NEW k, NEW q, Begin(c, mode, k, q) PROVE FALSE
        BY <1>1, <1>4, <3>2 DEF Begin, TypeOK
      <3>3. ASSUME NEW d \in Clients \ {c}, Call(d) \/ Step(d) PROVE txn'[c] = txn[c]
        BY <1>1, <3>3, OpensCases, OwnTransaction
           DEF Call, DenyUnsubscribed, Opens, vars
      <3>4. QED
        BY <3>1, <3>2, <3>3
           DEF Next, Call, DenyUnsubscribed, Sweep, ChangeSubscription, AddOverride, Tick, vars
    <2>4. QED
      BY <2>1, <2>2, <2>3
  <1>5. ASSUME NEW c \in Clients, Grants(c)'
        PROVE  /\ Known(overrides'[txn'[c].sub], txn'[c].ent)
               /\ ~Lapsed(txn'[c].ent.expires, txn'[c].now)
    <2>1. PICK t : t = txn'[c]
      OBVIOUS
    <2>2. Known(overrides[t.sub], t.ent) /\ t.sub \in Subs /\ ~Lapsed(t.ent.expires, t.now)
      <3>1. CASE InLock(c)
        <4>1. txn'[c] = txn[c] /\ Grants(c)
          BY <1>5, <3>1, KeptStep DEF Grants, InLock
        <4>2. txn[c].sub \in Subs
          BY <1>1, <3>1, OpenTransaction DEF InLock, OpenTxn
        <4>3. QED
          BY <2>1, <4>1, <4>2 DEF Resolution
      <3>2. CASE ~InLock(c)
        <4>1. PICK e \in FreshEntitlement(txn[c].sub, txn[c].now) :
                /\ e.source # "NONE"
                /\ txn'[c] = [txn[c] EXCEPT !.phase = "locked", !.ent = e,
                                            !.amount = txn'[c].amount]
                /\ txn[c] \in OpenTxn
          BY <1>5, <3>2, GrantAdmitted
        <4>2. t.sub = txn[c].sub /\ t.ent = e /\ t.now = txn[c].now /\ t.sub \in Subs
          BY <2>1, <4>1 DEF OpenTxn
        <4>3. QED
          BY <4>1, <4>2, FreshKnown DEF NoEnt
      <3>3. QED
        BY <3>1, <3>2
    <2>3. Known(overrides'[t.sub], t.ent)
      BY <1>2, <2>2
    <2>4. QED
      BY <2>1, <2>2, <2>3
  <1>6. QED
    BY <1>3, <1>4, <1>5 DEF Resolution

\* While c is past the lock of its subscription, nothing is added to what is
\* consumed or held under it.
LEMMA OthersLeaveRoom ==
    ASSUME ChargeInv, LedgerInv, [Next]_vars, NEW c \in Clients, InLock(c), InLock(c)',
           NEW p \in Periods, NEW s, s = txn[c].sub
    PROVE  /\ consumed'[s][p] = consumed[s][p]
           /\ \A k \in HeldKeys(s, p)' :
                 k \in HeldKeys(s, p) /\ resv'[k].qty = resv[k].qty
  <1>1. TypeOK /\ txn[c].sub \in Subs /\ HolderOfSub /\ txn'[c] # Idle
    BY OpenTransaction DEF LedgerInv, InLock, OpenTxn, Idle
  <1>2. CASE UNCHANGED <<resv, consumed>>
    BY <1>2 DEF HeldKeys
  <1>3. CASE Lapses
    BY <1>3 DEF Lapses, Same, HeldKeys
  <1>4. ASSUME NEW d \in Clients, NEW k \in Keys,
               Holds(d, k) \/ Takes(d, k) \/ Settles(d, k) \/ Drops(d, k)
        PROVE  /\ consumed'[s][p] = consumed[s][p]
               /\ \A l \in HeldKeys(s, p)' :
                     l \in HeldKeys(s, p) /\ resv'[l].qty = resv[l].qty
    <2>1. InLock(d) /\ txn'[d] = Idle /\ \A l \in Keys \ {k} : resv'[l] = resv[l]
      BY <1>4 DEF Holds, Takes, Settles, Drops, Enters, Writes
    <2>2. txn[d].sub # s
      BY <1>1, <2>1 DEF HolderOfSub
    <2>3. consumed'[s][p] = consumed[s][p]
      <3>1. consumed[s][p] \in Nat
        BY <1>1 DEF TypeOK
      <3>2. QED
        BY <1>1, <1>4, <2>2, <3>1 DEF Holds, Takes, Settles, Drops, Books
    <2>4. k \notin HeldKeys(s, p)'
      BY <1>4, <2>2 DEF Holds, Takes, Settles, Drops, Enters, HeldKeys
    <2>5. QED
      BY <2>1, <2>3, <2>4 DEF HeldKeys
  <1>5. QED
    BY <1>2, <1>3, <1>4, LedgerMoves

LEMMA GrantFitsStep ==
    ASSUME ChargeInv, LedgerInv, Resolution, GrantFits, [Next]_vars
    PROVE  GrantFits'
  <1> SUFFICES ASSUME NEW c \in Clients, Grants(c)'
               PROVE  Fits(txn[c].ent, txn[c].sub, PeriodOf(txn[c].now), txn[c].qty)'
    BY DEF GrantFits
  <1>1. TypeOK /\ TypeOK' /\ IsFiniteSet(Used)
    BY NextType DEF LedgerInv, Placed
  <1>2. CASE InLock(c)
    <2>1. txn'[c] = txn[c] /\ Grants(c) /\ txn[c] \in OpenTxn
      BY <1>1, <1>2, KeptStep, OpenTransaction DEF Grants, InLock
    <2>2. PICK e, s, p, q : /\ e = txn[c].ent /\ s = txn[c].sub
                            /\ p = PeriodOf(txn[c].now) /\ q = txn[c].qty
      OBVIOUS
    <2>3. s \in Subs /\ p \in Periods /\ q \in Nat /\ e.limit \in TimeOrNull
      BY <2>1, <2>2, PeriodType DEF OpenTxn, EntRow
    <2>4. consumed'[s][p] = consumed[s][p] /\ Held(s, p)' <= Held(s, p)
          /\ Held(s, p) \in Nat /\ Held(s, p)' \in Nat /\ consumed[s][p] \in Nat
      <3>1. consumed[s][p] \in Nat
        BY <1>1, <2>3 DEF TypeOK
      <3>2. /\ consumed'[s][p] = consumed[s][p]
            /\ \A k \in HeldKeys(s, p)' : k \in HeldKeys(s, p) /\ resv'[k].qty = resv[k].qty
        BY <1>2, <2>1, <2>2, <2>3, OthersLeaveRoom DEF Grants
      <3>3. QED
        BY <1>1, <3>1, <3>2, HeldDrops
    <2>5. Fits(e, s, p, q)
      BY <2>1, <2>2 DEF GrantFits
    <2>6. Fits(e, s, p, q)'
      BY <2>3, <2>4, <2>5 DEF Fits, TimeOrNull, NULL
    <2>7. QED
      BY <2>1, <2>2, <2>6 DEF Fits, Held, PeriodOf
  <1>3. CASE ~InLock(c)
    <2>1. PICK e : /\ Fits(e, txn[c].sub, PeriodOf(txn[c].now), txn[c].qty)
                   /\ txn'[c] = [txn[c] EXCEPT !.phase = "locked", !.ent = e,
                                               !.amount = txn'[c].amount]
                   /\ txn[c] \in OpenTxn
                   /\ UNCHANGED booksVars
      BY <1>3, GrantAdmitted
    <2>2. /\ txn'[c].ent = e /\ txn'[c].sub = txn[c].sub /\ txn'[c].now = txn[c].now
          /\ txn'[c].qty = txn[c].qty
      BY <2>1 DEF OpenTxn
    <2>3. QED
      BY <2>1, <2>2 DEF Fits, Held, PeriodOf, booksVars
  <1>4. QED
    BY <1>2, <1>3

LEMMA FitInit == Init => FitInv
  <1> SUFFICES ASSUME Init PROVE FitInv
    OBVIOUS
  <1>1. \A c \in Clients : txn[c] = Idle /\ ~Grants(c) /\ txn[c].phase # "healing"
    BY DEF Init, Idle, Grants, InLock
  <1>2. Resolution /\ GrantFits
    BY <1>1 DEF Resolution, GrantFits, Init
  <1>3. QED
    BY <1>2, PlacedInit DEF FitInv

LEMMA FitStep ==
    ASSUME ChargeInv, FitInv, [Next]_vars
    PROVE  FitInv'
  BY PlacedStep, ResolutionStep, GrantFitsStep DEF FitInv

\* The step that grants a key is the end of the call that decided so.
LEMMA GrantStep ==
    ASSUME ChargeInv, FitInv, [Next]_vars, NEW k \in Keys, Granted(k)
    PROVE  \E c \in Clients :
              /\ Grants(c) /\ txn[c] \in OpenTxn
              /\ Holds(c, k) \/ Takes(c, k)
  <1>1. TypeOK /\ Placed
    BY DEF FitInv, LedgerInv
  <1>2. PICK c \in Clients, l \in Keys :
          Holds(c, l) \/ Takes(c, l) \/ Settles(c, l) \/ Drops(c, l)
    BY LedgerMoves DEF Granted, Lapses, FitInv
  <1>3. l = k /\ InLock(c) /\ txn[c] \in OpenTxn
    BY <1>1, <1>2, OpenTransaction
       DEF Holds, Takes, Settles, Drops, Enters, Writes, Granted, InLock
  <1>4. ~ (Settles(c, l) \/ Drops(c, l))
    BY <1>1, <1>3 DEF Settles, Drops, Writes, Granted, Placed, Used
  <1>5. QED
    BY <1>2, <1>3, <1>4 DEF Holds, Takes, Enters, Writes, Grants

\* What the books come to when a key is granted.
LEMMA GrantBooked ==
    ASSUME TypeOK, TypeOK', IsFiniteSet(Used), NEW c \in Clients, txn[c] \in OpenTxn,
           NEW k \in Keys, Holds(c, k) \/ Takes(c, k),
           NEW s, NEW p, s = txn[c].sub, p = PeriodOf(txn[c].now)
    PROVE  /\ s \in Subs /\ p \in Periods
           /\ consumed[s][p] \in Nat /\ consumed'[s][p] \in Nat
           /\ Held(s, p) \in Nat /\ Held(s, p)' \in Nat
           /\ consumed'[s][p] + Held(s, p)' = consumed[s][p] + Held(s, p) + txn[c].qty
  <1>1. s \in Subs /\ p \in Periods /\ txn[c].qty \in Nat
    BY PeriodType DEF OpenTxn
  <1>2. /\ consumed[s][p] \in Nat /\ consumed'[s][p] \in Nat
        /\ Held(s, p) \in Nat
    BY <1>1, HeldFinite DEF TypeOK
  <1>3. /\ k \notin HeldKeys(s, p) /\ resv'[k].qty = txn[c].qty
        /\ \A l \in Keys \ {k} : resv'[l] = resv[l]
    BY DEF Holds, Takes, Enters, Writes, HeldKeys
  <1>4. CASE Holds(c, k)
    <2>1. HeldKeys(s, p)' = HeldKeys(s, p) \cup {k} /\ consumed'[s][p] = consumed[s][p]
      BY <1>3, <1>4 DEF Holds, Enters, HeldKeys
    <2>2. Held(s, p)' = Held(s, p) + txn[c].qty
      BY <1>3, <2>1, HeldGains
    <2>3. QED
      BY <1>1, <1>2, <2>1, <2>2
  <1>5. CASE Takes(c, k)
    <2>1. HeldKeys(s, p)' = HeldKeys(s, p)
      BY <1>3, <1>5 DEF Takes, Enters, HeldKeys
    <2>2. consumed'[s][p] = consumed[s][p] + txn[c].qty
      BY <1>1, <1>5 DEF Takes, Books
    <2>3. Held(s, p)' = Held(s, p)
      <3>1. /\ Held(s, p)' = SumFunctionOnSet(Quantities', HeldKeys(s, p)')
            /\ Held(s, p) = SumFunctionOnSet(Quantities, HeldKeys(s, p))
        BY DEF Held, HeldKeys, Quantities
      <3>2. \A l \in HeldKeys(s, p) : Quantities'[l] = Quantities[l]
        BY <1>3 DEF Quantities, HeldKeys
      <3>3. QED
        BY <2>1, <3>1, <3>2, HeldFinite, SumSame
    <2>4. QED
      BY <1>1, <1>2, <2>2, <2>3
  <1>6. QED
    BY <1>4, <1>5

\* check_access, consume, _fresh_entitlement: whenever a hold or a direct
\* consumption is granted, all that its subscription then has consumed and held
\* in the period fits under the plan's limit or under an override that was in
\* force when the call began, also where other calls, the sweep and the
\* services ran between its decision and its write - on SQLite and on
\* PostgreSQL, for any number of subscriptions, keys and calls.
THEOREM GrantsAlwaysFit == Spec => GrantsFit
  <1> DEFINE Grant(k, c, s, p) ==
                /\ txn[c].phase = "locked" /\ txn[c].key = k /\ txn'[c] = Idle
                /\ resv'[k].sub = s /\ resv'[k].period = p
                /\ \E e \in {PlanEnt} \cup Resolved(overrides[s], txn[c].now) :
                      \/ e.limit = NULL
                      \/ (consumed[s][p] + Held(s, p))' <= e.limit
             AllFit == \A k \in Keys : Granted(k) =>
                          \E c \in Clients, s \in Subs, p \in Periods : Grant(k, c, s, p)
             Inv == ChargeInv /\ FitInv
  <1>1. ASSUME Inv, [Next]_vars PROVE AllFit
    <2> SUFFICES ASSUME NEW k \in Keys, Granted(k)
                 PROVE  \E c \in Clients, s \in Subs, p \in Periods : Grant(k, c, s, p)
      OBVIOUS
    <2>1. PICK c \in Clients : /\ Grants(c) /\ txn[c] \in OpenTxn
                               /\ Holds(c, k) \/ Takes(c, k)
      BY <1>1, GrantStep
    <2>2. PICK e, s, p : e = txn[c].ent /\ s = txn[c].sub /\ p = PeriodOf(txn[c].now)
      OBVIOUS
    <2>3. TypeOK /\ TypeOK' /\ IsFiniteSet(Used)
      BY <1>1, NextType DEF ChargeInv, FitInv, LedgerInv, Placed
    <2>4. /\ s \in Subs /\ p \in Periods
          /\ consumed[s][p] \in Nat /\ consumed'[s][p] \in Nat
          /\ Held(s, p) \in Nat /\ Held(s, p)' \in Nat
          /\ consumed'[s][p] + Held(s, p)' = consumed[s][p] + Held(s, p) + txn[c].qty
      BY <2>1, <2>2, <2>3, GrantBooked
    <2>5. /\ Known(overrides[s], e) /\ ~Lapsed(e.expires, txn[c].now)
          /\ Fits(e, s, p, txn[c].qty)
      BY <1>1, <2>1, <2>2 DEF FitInv, Resolution, GrantFits
    <2>6. e \in {PlanEnt} \cup Resolved(overrides[s], txn[c].now)
      BY <2>5 DEF Known, Resolved
    <2>7. e.limit = NULL \/ consumed'[s][p] + Held(s, p)' <= e.limit
      <3>1. e.limit \in TimeOrNull /\ txn[c].qty \in Nat
        BY <2>1, <2>2 DEF OpenTxn, EntRow
      <3>2. QED
        BY <2>4, <2>5, <3>1 DEF Fits, TimeOrNull, NULL
    <2>8. /\ txn[c].phase = "locked" /\ txn[c].key = k /\ txn'[c] = Idle
          /\ resv'[k].sub = s /\ resv'[k].period = p
      BY <2>1, <2>2 DEF Holds, Takes, Enters, Writes, InLock
    <2>9. (consumed[s][p] + Held(s, p))' = consumed'[s][p] + Held(s, p)'
      BY DEF Held
    <2>10. Grant(k, c, s, p)
      BY <2>6, <2>7, <2>8, <2>9
    <2>11. QED
      BY <2>4, <2>10
  <1>2. Init => Inv
    BY ChargeInit, FitInit
  <1>3. Inv /\ [Next]_vars => Inv'
    BY ChargeStep, FitStep
  <1>4. Inv /\ [Next]_vars => [AllFit]_vars
    BY <1>1
  <1> HIDE DEF Inv
  <1>5. QED
    BY <1>2, <1>3, <1>4, PTL DEF Spec, GrantsFit

(***************************************************************************)
(* No oversell, where the tenant's calls all lock the one subscription. A  *)
(* grant takes no more than an override or the plan leaves (GrantFits). A  *)
(* commit charges little more than was held, and its hold is held no       *)
(* longer; one that the sweep expired under it left as much room, and      *)
(* nobody else can take that before the commit is written (CommitFits).    *)
(***************************************************************************)
\* What a subscription consumed and holds leaves room for q more.
Room(s, p, q) ==
    \/ NULL \in LimitsOf(s)
    \/ \E limit \in LimitsOf(s) :
          consumed[s][p] + Held(s, p) + q <= limit + Tolerance(s, p)

Expired(k, s, p, q) ==
    /\ resv[k].state = "EXPIRED"
    /\ resv[k].sub = s /\ resv[k].period = p /\ resv[k].qty = q

CommitFits ==
    \A c \in Clients : InLock(c) /\ txn[c].mode = "COMMIT" =>
        /\ txn[c].amount * 10 <= resv[txn[c].key].qty * 11
        /\ \A s \in Subs, p \in Periods, q \in Nat :
              Expired(txn[c].key, s, p, q) => Room(s, p, q)

OversellInv == ChargeInv /\ FitInv /\ CommitFits /\ NoOversell

CommittedUnder(s, p) ==
    {k \in Keys : resv[k].state = "COMMITTED" /\ resv[k].sub = s /\ resv[k].period = p}
Overages == [k \in Keys |-> resv[k].qty \div 10]

LEMMA ToleranceFinite ==
    ASSUME TypeOK, IsFiniteSet(Used), NEW s, NEW p
    PROVE  /\ IsFiniteSet(CommittedUnder(s, p)) /\ CommittedUnder(s, p) \subseteq Keys
           /\ \A k \in Keys : Overages[k] \in Nat
           /\ Tolerance(s, p) = SumFunctionOnSet(Overages, CommittedUnder(s, p))
           /\ Tolerance(s, p) \in Nat
  <1>1. IsFiniteSet(CommittedUnder(s, p))
    <2>1. CommittedUnder(s, p) \subseteq Used
      BY DEF CommittedUnder, Used
    <2>2. QED
      BY <2>1, FS_Subset
  <1>2. \A k \in Keys : Overages[k] \in Nat
    BY DEF Overages, TypeOK, Reservation
  <1>3. Tolerance(s, p) = SumFunctionOnSet(Overages, CommittedUnder(s, p))
    BY DEF Tolerance, CommittedUnder, Overages
  <1>4. CommittedUnder(s, p) \subseteq Keys
    BY DEF CommittedUnder
  <1>5. SumFunctionOnSet(Overages, CommittedUnder(s, p)) \in Nat
    BY <1>1, <1>2, <1>4, SumType
  <1>6. QED
    BY <1>1, <1>2, <1>3, <1>4, <1>5

\* What is in the ledger keeps its place there, and a commitment is final.
LEMMA RowsKept ==
    ASSUME ChargeInv, LedgerInv, [Next]_vars, NEW k \in Used
    PROVE  Same(k) /\ (resv[k].state = "COMMITTED" => resv'[k].state = "COMMITTED")
  <1>1. CASE UNCHANGED <<resv, consumed>>
    BY <1>1 DEF Same
  <1>2. CASE Lapses
    BY <1>2 DEF Lapses, Same, Used
  <1>3. ASSUME NEW c \in Clients, NEW l \in Keys,
               Holds(c, l) \/ Takes(c, l) \/ Settles(c, l) \/ Drops(c, l)
        PROVE  Same(k) /\ (resv[k].state = "COMMITTED" => resv'[k].state = "COMMITTED")
    BY <1>3 DEF Holds, Takes, Settles, Drops, Enters, Writes, Same, Used
  <1>4. QED
    BY <1>1, <1>2, <1>3, LedgerMoves

LEMMA ToleranceGrows ==
    ASSUME ChargeInv, LedgerInv, [Next]_vars, NEW s, NEW p
    PROVE  /\ Tolerance(s, p) \in Nat /\ Tolerance(s, p)' \in Nat
           /\ Tolerance(s, p) <= Tolerance(s, p)'
  <1>1. /\ TypeOK /\ TypeOK' /\ IsFiniteSet(Used) /\ IsFiniteSet(Used)'
    BY NextType, PlacedStep DEF LedgerInv, Placed
  <1>2. /\ IsFiniteSet(CommittedUnder(s, p)') /\ CommittedUnder(s, p)' \subseteq Keys
        /\ \A k \in Keys : Overages'[k] \in Nat
        /\ Tolerance(s, p)' = SumFunctionOnSet(Overages', CommittedUnder(s, p)')
    <2>1. Tolerance(s, p)' = SumFunctionOnSet(Overages', CommittedUnder(s, p)')
      BY DEF Tolerance, CommittedUnder, Overages
    <2>2. CommittedUnder(s, p)' \subseteq Used' /\ CommittedUnder(s, p)' \subseteq Keys
      BY DEF CommittedUnder, Used
    <2>3. \A k \in Keys : Overages'[k] \in Nat
      BY <1>1 DEF Overages, TypeOK, Reservation
    <2>4. QED
      BY <1>1, <2>1, <2>2, <2>3, FS_Subset
  <1>3. \A k \in CommittedUnder(s, p) : k \in CommittedUnder(s, p)' /\ Overages[k] = Overages'[k]
    BY RowsKept DEF CommittedUnder, Used, Same, Overages
  <1>4. QED
    BY <1>1, <1>2, <1>3, ToleranceFinite, SumShrinks

\* What is committed brings the tolerance on it.
LEMMA ToleranceGains ==
    ASSUME TypeOK, TypeOK', IsFiniteSet(Used), NEW s, NEW p, NEW k \in Keys,
           resv[k].state # "COMMITTED", resv'[k].state = "COMMITTED",
           resv'[k].sub = s, resv'[k].period = p,
           \A l \in Keys \ {k} : resv'[l] = resv[l]
    PROVE  Tolerance(s, p)' = Tolerance(s, p) + resv'[k].qty \div 10
  <1>1. k \notin CommittedUnder(s, p) /\ CommittedUnder(s, p)' = CommittedUnder(s, p) \cup {k}
    BY DEF CommittedUnder
  <1>2. /\ Tolerance(s, p)' = SumFunctionOnSet(Overages', CommittedUnder(s, p)')
        /\ Overages'[k] = resv'[k].qty \div 10
    BY DEF Tolerance, CommittedUnder, Overages
  <1>3. \A l \in CommittedUnder(s, p) : Overages'[l] = Overages[l]
    BY <1>1, ToleranceFinite DEF Overages
  <1>4. SumFunctionOnSet(Overages', CommittedUnder(s, p))
          = SumFunctionOnSet(Overages, CommittedUnder(s, p))
    BY <1>3, ToleranceFinite, SumSame
  <1>5. Whole(Overages', CommittedUnder(s, p)')
    <2>1. \A l \in Keys : Overages'[l] \in Nat
      BY DEF Overages, TypeOK, Reservation
    <2>2. QED
      BY <1>1, <2>1, ToleranceFinite DEF Whole
  <1>6. SumFunctionOnSet(Overages', CommittedUnder(s, p)')
          = SumFunctionOnSet(Overages', CommittedUnder(s, p)) + Overages'[k]
    BY <1>1, <1>5, ToleranceFinite, SumAdd
  <1>7. QED
    BY <1>2, <1>4, <1>6, ToleranceFinite

\* Room stays where the books grow by no more than the tolerance does.
LEMMA RoomKept ==
    ASSUME TypeOK, TypeOK', [Next]_vars, NEW s \in Subs, NEW p \in Periods,
           NEW before \in Nat, NEW after \in Nat, Room(s, p, before),
           NEW held \in Nat, held = Held(s, p), NEW held1 \in Nat, held1 = Held(s, p)',
           NEW tol \in Nat, tol = Tolerance(s, p), NEW tol1 \in Nat, tol1 = Tolerance(s, p)',
           consumed'[s][p] + held1 + after + tol <= consumed[s][p] + held + before + tol1
    PROVE  Room(s, p, after)'
  <1>1. LimitsOf(s) \subseteq LimitsOf(s)'
    BY OverridesGrow DEF LimitsOf
  <1>2. LimitsOf(s) \subseteq TimeOrNull
    BY EntitlementsAssumption DEF LimitsOf, TypeOK, OverrideRow
  <1>3. consumed[s][p] \in Nat /\ consumed'[s][p] \in Nat
    BY DEF TypeOK
  <1>4. CASE NULL \in LimitsOf(s)
    BY <1>1, <1>4 DEF Room
  <1>5. ASSUME NEW limit \in LimitsOf(s),
               consumed[s][p] + Held(s, p) + before <= limit + Tolerance(s, p)
        PROVE  Room(s, p, after)'
    <2>1. consumed'[s][p] + held1 + after <= limit + tol1
      BY <1>2, <1>3, <1>5 DEF TimeOrNull, NULL
    <2>2. QED
      BY <1>1, <1>5, <2>1 DEF Room
  <1>6. QED
    BY <1>4, <1>5 DEF Room

LEMMA HeldNext ==
    ASSUME TypeOK', IsFiniteSet(Used'), NEW s, NEW p
    PROVE  Held(s, p)' \in Nat
  <1>1. Held(s, p)' = SumFunctionOnSet(Quantities', HeldKeys(s, p)')
    BY DEF Held, HeldKeys, Quantities
  <1>2. \A k \in Keys : Quantities'[k] \in Nat
    BY DEF Quantities, TypeOK, Reservation
  <1>3. HeldKeys(s, p)' \subseteq Used' /\ HeldKeys(s, p)' \subseteq Keys
    BY DEF HeldKeys, Used
  <1>4. QED
    BY <1>1, <1>2, <1>3, FS_Subset, SumType

\* Where there is one subscription, one call is past its lock, and every row
\* and every commit is of it.
LEMMA OneSub ==
    ASSUME NumSubs = 1
    PROVE  OneLock /\ \A s, t \in Subs : s = t
  BY DEF OneLock, Subs

LEMMA NoOversellStep ==
    ASSUME NumSubs = 1, OversellInv, [Next]_vars
    PROVE  NoOversell'
  <1> SUFFICES ASSUME NEW s \in Subs, NEW p \in Periods
               PROVE  Room(s, p, 0)'
    <2>1. ASSUME \A s \in Subs, p \in Periods : Room(s, p, 0)' PROVE NoOversell'
      <3>1. TypeOK'
        BY NextType DEF OversellInv, ChargeInv
      <3>2. ASSUME NEW s \in Subs, NEW p \in Periods
            PROVE  consumed'[s][p] \in Nat /\ Held(s, p)' \in Int
        <4>1. IsFiniteSet(Used')
          BY FitStep DEF OversellInv, FitInv, LedgerInv, Placed
        <4>2. Held(s, p)' \in Nat
          BY <3>1, <4>1, HeldNext
        <4>3. QED
          BY <3>1, <4>2 DEF TypeOK
      <3>3. QED
        BY <2>1, <3>2 DEF NoOversell, Room
    <2>2. QED
      BY <2>1
  <1>1. /\ ChargeInv /\ FitInv /\ LedgerInv /\ Resolution /\ GrantFits /\ CommitFits
        /\ TypeOK /\ TypeOK' /\ IsFiniteSet(Used)
    BY NextType DEF OversellInv, ChargeInv, FitInv, LedgerInv, Placed
  <1>2. PICK held, held1, tol, tol1 :
          /\ held = Held(s, p) /\ held1 = Held(s, p)'
          /\ tol = Tolerance(s, p) /\ tol1 = Tolerance(s, p)'
    OBVIOUS
  <1>3. /\ consumed[s][p] \in Nat /\ held \in Nat
        /\ tol \in Nat /\ tol1 \in Nat /\ tol <= tol1
    BY <1>1, <1>2, HeldFinite, ToleranceGrows DEF TypeOK
  <1>4. Room(s, p, 0)
    BY <1>1, <1>2, <1>3 DEF OversellInv, NoOversell, Room
  <1>5. ASSUME consumed'[s][p] = consumed[s][p],
               \A k \in HeldKeys(s, p)' : k \in HeldKeys(s, p) /\ resv'[k].qty = resv[k].qty
        PROVE  Room(s, p, 0)'
    <2>1. held1 \in Nat /\ held1 <= held
      BY <1>1, <1>2, <1>5, HeldDrops
    <2>2. QED
      BY <1>1, <1>2, <1>3, <1>4, <1>5, <2>1, RoomKept
  <1>6. CASE UNCHANGED <<resv, consumed>> \/ Lapses
    BY <1>5, <1>6 DEF Lapses, Same, HeldKeys
  <1>7. ASSUME NEW c \in Clients, NEW k \in Keys, Drops(c, k)
        PROVE  Room(s, p, 0)'
    BY <1>5, <1>7 DEF Drops, Writes, Same, HeldKeys
  <1>8. ASSUME NEW c \in Clients, NEW k \in Keys, Holds(c, k) \/ Takes(c, k)
        PROVE  Room(s, p, 0)'
    <2>1. txn[c] \in OpenTxn /\ Grants(c)
      BY <1>1, <1>8, OpenTransaction DEF Holds, Takes, Enters, Writes, InLock, Grants
    <2>2. s = txn[c].sub
      BY <2>1, OneSub DEF OpenTxn
    <2>3. CASE p = PeriodOf(txn[c].now)
      <3>1. /\ consumed'[s][p] \in Nat /\ held1 \in Nat
            /\ consumed'[s][p] + held1 = consumed[s][p] + held + txn[c].qty
        BY <1>1, <1>2, <1>8, <2>1, <2>2, <2>3, GrantBooked
      <3>2. PICK e : e = txn[c].ent /\ e.limit \in TimeOrNull
        BY <2>1 DEF OpenTxn, EntRow
      <3>3. Known(overrides[s], e) /\ Fits(e, s, p, txn[c].qty)
        BY <1>1, <2>1, <2>2, <2>3, <3>2 DEF Resolution, GrantFits
      <3>4. e.limit \in LimitsOf(s) /\ LimitsOf(s) \subseteq LimitsOf(s)'
        BY <1>1, <3>3, OverridesGrow DEF Known, LimitsOf, PlanEnt
      <3>5. e.limit = NULL \/ consumed'[s][p] + held1 + 0 <= e.limit + tol1
        BY <1>2, <1>3, <2>1, <3>1, <3>2, <3>3 DEF Fits, TimeOrNull, NULL, OpenTxn
      <3>6. QED
        BY <1>2, <3>4, <3>5 DEF Room
    <2>4. CASE p # PeriodOf(txn[c].now)
      <3>1. \A l \in HeldKeys(s, p)' : l \in HeldKeys(s, p) /\ resv'[l].qty = resv[l].qty
        BY <1>8, <2>4 DEF Holds, Takes, Enters, Writes, HeldKeys
      <3>2. consumed'[s][p] = consumed[s][p]
        BY <1>3, <1>8, <2>4 DEF Holds, Takes, Books
      <3>3. QED
        BY <1>5, <3>1, <3>2
    <2>5. QED
      BY <2>3, <2>4
  <1>9. ASSUME NEW c \in Clients, NEW k \in Keys, Settles(c, k)
        PROVE  Room(s, p, 0)'
    <2>1. txn[c] \in OpenTxn /\ InLock(c) /\ txn[c].mode = "COMMIT" /\ txn[c].key = k
      BY <1>1, <1>9, OpenTransaction DEF Settles, Writes, InLock
    <2>2. /\ resv[k].state \in {"RESERVED", "EXPIRED"}
          /\ txn[c].amount * 10 <= resv[k].qty * 11
          /\ \A t \in Subs, r \in Periods, q \in Nat : Expired(k, t, r, q) => Room(t, r, q)
      BY <1>1, <2>1, OneSub DEF ChargeInv, PendingCommit, CommitFits
    <2>3. resv[k].sub = s /\ txn[c].sub = s /\ resv[k].qty \in Nat /\ txn[c].amount \in Nat
      <3>1. resv[k].sub \in Subs
        BY <1>1, <2>2 DEF LedgerInv, Placed, Used
      <3>2. QED
        BY <1>1, <2>1, <3>1, OneSub DEF OpenTxn, TypeOK, Reservation
    <2>4. /\ \A l \in HeldKeys(s, p)' : l \in HeldKeys(s, p) /\ resv'[l].qty = resv[l].qty
          /\ k \notin HeldKeys(s, p)'
      BY <1>9 DEF Settles, Writes, HeldKeys
    <2>5. CASE resv[k].period # p
      <3>1. consumed'[s][p] = consumed[s][p]
        BY <1>3, <1>9, <2>5 DEF Settles, Books
      <3>2. QED
        BY <1>5, <2>4, <3>1
    <2>6. CASE resv[k].period = p
      <3>1. consumed'[s][p] = consumed[s][p] + txn[c].amount
        BY <1>9, <2>3, <2>6 DEF Settles, Books
      <3>2. tol1 = tol + resv[k].qty \div 10
        <4>1. resv'[k].qty = resv[k].qty
          BY <1>9 DEF Settles, Same
        <4>2. Tolerance(s, p)' = Tolerance(s, p) + resv'[k].qty \div 10
          BY <1>1, <1>9, <2>2, <2>3, <2>6, ToleranceGains DEF Settles, Writes, Same
        <4>3. QED
          BY <1>2, <4>1, <4>2
      <3>3. txn[c].amount <= resv[k].qty + resv[k].qty \div 10
        BY <2>2, <2>3
      <3>4. held1 \in Nat /\ held1 <= held
        BY <1>1, <1>2, <2>4, HeldDrops
      <3>5. CASE resv[k].state = "RESERVED"
        <4>1. held1 + resv[k].qty <= held
          <5>1. k \in HeldKeys(s, p)
            BY <2>3, <2>6, <3>5 DEF HeldKeys
          <5>2. QED
            BY <1>1, <1>2, <2>4, <5>1, HeldLoses
        <4>2. consumed'[s][p] + held1 + 0 + tol <= consumed[s][p] + held + 0 + tol1
          BY <1>3, <2>3, <3>1, <3>2, <3>3, <3>4, <4>1
        <4>3. QED
          BY <1>1, <1>2, <1>3, <1>4, <3>4, <4>2, RoomKept
      <3>6. CASE resv[k].state = "EXPIRED"
        <4>1. Room(s, p, resv[k].qty)
          BY <2>2, <2>3, <2>6, <3>6 DEF Expired
        <4>2. consumed'[s][p] + held1 + 0 + tol <= consumed[s][p] + held + resv[k].qty + tol1
          BY <1>3, <2>3, <3>1, <3>2, <3>3, <3>4
        <4>3. QED
          BY <1>1, <1>2, <1>3, <2>3, <3>4, <4>1, <4>2, RoomKept
      <3>7. QED
        BY <2>2, <3>5, <3>6
    <2>7. QED
      BY <2>5, <2>6
  <1>10. QED
    BY <1>1, <1>6, <1>7, <1>8, <1>9, LedgerMoves

\* Nobody else takes the room of a commit that is about to be written.
LEMMA RoomWaits ==
    ASSUME NumSubs = 1, OversellInv, [Next]_vars,
           NEW c \in Clients, InLock(c), InLock(c)', txn[c].mode = "COMMIT", NEW k, k = txn[c].key,
           NEW s \in Subs, NEW p \in Periods, NEW q \in Nat, Expired(k, s, p, q)'
    PROVE  Room(s, p, q)'
  <1>1. /\ ChargeInv /\ FitInv /\ LedgerInv /\ CommitFits
        /\ TypeOK /\ TypeOK' /\ IsFiniteSet(Used)
    BY NextType DEF OversellInv, ChargeInv, FitInv, LedgerInv, Placed
  <1>2. k \in Keys /\ Same(k) /\ txn[c] \in OpenTxn
    BY <1>1, RowsKept, OpenTransaction DEF LedgerInv, Placed, Used, InLock
  <1>3. resv[k].sub = s /\ resv[k].period = p /\ resv[k].qty = q
    BY <1>2 DEF Expired, Same
  <1>4. s = txn[c].sub
    BY <1>2, OneSub DEF OpenTxn
  <1>5. PICK held, held1, tol, tol1 :
          /\ held = Held(s, p) /\ held1 = Held(s, p)'
          /\ tol = Tolerance(s, p) /\ tol1 = Tolerance(s, p)'
    OBVIOUS
  <1>6. /\ consumed'[s][p] = consumed[s][p]
        /\ \A l \in HeldKeys(s, p)' : l \in HeldKeys(s, p) /\ resv'[l].qty = resv[l].qty
    BY <1>1, <1>4, OthersLeaveRoom
  <1>7. consumed[s][p] \in Nat /\ held \in Nat /\ held1 \in Nat /\ held1 <= held
    BY <1>1, <1>5, <1>6, HeldDrops DEF TypeOK
  <1>8. tol \in Nat /\ tol1 \in Nat /\ tol <= tol1
    BY <1>1, <1>5, ToleranceGrows
  <1>9. CASE resv[k].state = "EXPIRED"
    <2>1. Room(s, p, q)
      BY <1>1, <1>3, <1>9 DEF CommitFits, Expired
    <2>2. consumed'[s][p] + held1 + q + tol <= consumed[s][p] + held + q + tol1
      BY <1>6, <1>7, <1>8
    <2>3. QED
      BY <1>1, <1>5, <1>7, <1>8, <2>1, <2>2, RoomKept
  <1>10. CASE resv[k].state = "RESERVED"
    <2>1. held1 + q <= held
      <3>1. k \in HeldKeys(s, p) /\ k \notin HeldKeys(s, p)'
        BY <1>2, <1>3, <1>10 DEF HeldKeys, Expired
      <3>2. QED
        BY <1>1, <1>3, <1>5, <1>6, <3>1, HeldLoses
    <2>2. Room(s, p, 0)
      <3>1. \/ NULL \in LimitsOf(s)
            \/ \E limit \in LimitsOf(s) : consumed[s][p] + held <= limit + tol
        BY <1>5 DEF OversellInv, NoOversell
      <3>2. consumed[s][p] + held = consumed[s][p] + held + 0
        BY <1>7
      <3>3. QED
        BY <1>5, <3>1, <3>2 DEF Room
    <2>3. consumed'[s][p] + held1 + q + tol <= consumed[s][p] + held + 0 + tol1
      BY <1>6, <1>7, <1>8, <2>1
    <2>4. QED
      BY <1>1, <1>5, <1>7, <1>8, <2>2, <2>3, RoomKept
  <1>11. QED
    BY <1>1, <1>9, <1>10, OneSub DEF ChargeInv, PendingCommit

LEMMA CommitFitsStep ==
    ASSUME NumSubs = 1, OversellInv, [Next]_vars
    PROVE  CommitFits'
  <1>1. ChargeInv /\ LedgerInv /\ CommitFits /\ TypeOK
    BY DEF OversellInv, ChargeInv, FitInv
  <1> SUFFICES ASSUME NEW c \in Clients, InLock(c)', txn'[c].mode = "COMMIT"
               PROVE  /\ txn'[c].amount * 10 <= resv'[txn'[c].key].qty * 11
                      /\ \A s \in Subs, p \in Periods, q \in Nat :
                            Expired(txn[c].key, s, p, q)' => Room(s, p, q)'
    BY DEF CommitFits
  <1>2. CASE ~InLock(c)
    <2>1. AdmitReserve(c) \/ AdmitConsume(c) \/ AdmitCommit(c) \/ AdmitRelease(c)
      BY <1>1, <1>2, LockStep
    <2>2. txn'[c] # Idle
      BY DEF InLock, Idle
    <2>3. PICK k : k = txn[c].key
      OBVIOUS
    <2>4. /\ txn[c] \in OpenTxn /\ txn[c].mode = "COMMIT" /\ txn'[c].key = k
          /\ resv[k].state = "RESERVED"
          /\ txn'[c].amount = Charge(resv[k].qty, txn[c].qty)
      BY <1>1, <2>1, <2>2, <2>3, AdmitEffect
    <2>5. resv' = resv
      BY <2>1 DEF AdmitReserve, AdmitConsume, AdmitCommit, AdmitRelease, booksVars
    <2>6. k \in Keys /\ resv[k].qty \in Nat /\ txn[c].qty \in Nat
      BY <1>1, <2>3, <2>4 DEF OpenTxn, TypeOK, Reservation
    <2>7. QED
      BY <2>4, <2>5, <2>6, ChargeType DEF Expired
  <1>3. CASE InLock(c)
    <2>1. PICK k : k = txn[c].key
      OBVIOUS
    <2>2. txn'[c] = txn[c] /\ txn[c].mode = "COMMIT" /\ txn'[c].key = k
      BY <1>1, <1>3, <2>1, KeptStep
    <2>3. k \in Used
      BY <1>1, <1>3, <2>1, <2>2 DEF LedgerInv, Placed
    <2>4. txn'[c].amount * 10 <= resv'[k].qty * 11
      BY <1>1, <1>3, <2>1, <2>2, <2>3, RowsKept DEF CommitFits, Same
    <2>5. \A s \in Subs, p \in Periods, q \in Nat : Expired(k, s, p, q)' => Room(s, p, q)'
      BY <1>3, <2>1, <2>2, RoomWaits
    <2>6. QED
      BY <2>2, <2>4, <2>5 DEF Expired
  <1>4. QED
    BY <1>2, <1>3

LEMMA OversellInit == Init => OversellInv
  <1> SUFFICES ASSUME Init PROVE OversellInv
    OBVIOUS
  <1>1. CommitFits
    BY DEF Init, CommitFits, InLock, Idle
  <1>2. ChargeInv /\ FitInv /\ TypeOK /\ IsFiniteSet(Used)
    BY ChargeInit, FitInit DEF ChargeInv, FitInv, LedgerInv, Placed
  <1>3. ASSUME NEW s \in Subs, NEW p \in Periods
        PROVE  \/ NULL \in LimitsOf(s)
               \/ \E limit \in LimitsOf(s) :
                     consumed[s][p] + Held(s, p) <= limit + Tolerance(s, p)
    <2>1. HeldKeys(s, p) = {} /\ consumed[s][p] = 0
      BY DEF Init, HeldKeys, NoResv
    <2>2. Held(s, p) = 0 /\ Tolerance(s, p) \in Nat
      BY <1>2, <2>1, HeldFinite, SumEmpty, ToleranceFinite
    <2>3. PlanLimit \in LimitsOf(s) /\ PlanLimit \in TimeOrNull
      BY EntitlementsAssumption DEF LimitsOf
    <2>4. PlanLimit = NULL \/ consumed[s][p] + Held(s, p) <= PlanLimit + Tolerance(s, p)
      BY <2>1, <2>2, <2>3 DEF TimeOrNull
    <2>5. QED
      BY <2>3, <2>4
  <1>4. QED
    BY <1>1, <1>2, <1>3 DEF OversellInv, NoOversell

\* check_access, consume, sweep_expired_reservations: what a subscription
\* consumed and holds in a period never exceeds the largest limit it was ever
\* granted, but for the commit tolerance - for any number of keys, calls and
\* sweeps between the read and the write of another, on SQLite and on
\* PostgreSQL, for a tenant of one subscription. (With two, the lock a commit
\* takes is not always that of the books it charges: EntitlementsTwoSubs.)
THEOREM NeverOversold == NumSubs = 1 => (Spec => []NoOversell)
  <1> SUFFICES ASSUME NumSubs = 1 PROVE Spec => []NoOversell
    OBVIOUS
  <1>1. OversellInv /\ [Next]_vars => OversellInv'
    BY ChargeStep, FitStep, NoOversellStep, CommitFitsStep DEF OversellInv
  <1>2. OversellInv => NoOversell
    BY DEF OversellInv
  <1>3. QED
    BY <1>1, <1>2, OversellInit, PTL DEF Spec

(***************************************************************************)
(* An override takes effect. A transaction resolves at an instant that has *)
(* passed, when whatever is in force now already was; and on SQLite the    *)
(* overrides it read are still all there are when it writes.               *)
(***************************************************************************)
InForce(rows, now) == \E o \in rows : ~Lapsed(o.expires, now)

Effective ==
    /\ OverrideEffective
    /\ \A c \in Clients :
          /\ txn[c].phase = "healing" \/ Grants(c)
          /\ InForce(overrides[txn[c].sub], clock)
          => txn[c].ent.source = "OVERRIDE"
    /\ \A c \in Clients : txn[c].phase = "chosen" => txn[c].now <= clock

EffectiveInv == ChargeInv /\ Effective

LEMMA ResolvedInForce ==
    ASSUME NEW rows \in SUBSET OverrideRow, NEW now \in Nat, NEW later \in Nat, now <= later,
           NEW e \in Resolved(rows, now), InForce(rows, later)
    PROVE  e.source = "OVERRIDE"
  <1>1. PICK o \in rows : ~Lapsed(o.expires, later)
    BY DEF InForce
  <1>2. o.expires \in TimeOrNull
    BY <1>1, EntitlementsAssumption DEF OverrideRow
  <1>3. ~Lapsed(o.expires, now)
    BY <1>1, <1>2 DEF Lapsed, TimeOrNull, NULL
  <1>4. e \in {[source |-> "OVERRIDE", limit |-> q.limit, expires |-> q.expires]
                 : q \in {q \in rows : ~Lapsed(q.expires, now)}}
    BY <1>1, <1>3 DEF Resolved
  <1>5. QED
    BY <1>4

\* What a call finds fresh says so too.
LEMMA FreshInForce ==
    ASSUME TypeOK, Effective, NEW s \in Subs, NEW now \in Nat, now <= clock,
           NEW e \in FreshEntitlement(s, now), InForce(overrides[s], clock)
    PROVE  e.source = "OVERRIDE"
  <1>1. overrides[s] \in SUBSET OverrideRow /\ clock \in Nat
    BY TimesAreNat DEF TypeOK
  <1>2. CASE Lapsed(ent[s].expires, now)
    BY <1>1, <1>2, ResolvedInForce DEF FreshEntitlement
  <1>3. CASE ~Lapsed(ent[s].expires, now)
    BY <1>3 DEF FreshEntitlement, Effective, OverrideEffective, InForce
  <1>4. QED
    BY <1>2, <1>3

\* Whatever was granted stays, and lapses for good.
LEMMA ForcePasses ==
    ASSUME TypeOK, TypeOK', [Next]_vars, NEW s \in Subs,
           overrides'[s] = overrides[s], InForce(overrides'[s], clock')
    PROVE  InForce(overrides[s], clock)
  <1>1. clock \in Nat /\ (clock' = clock \/ clock' = clock + 1)
    <2>1. ASSUME NEW c \in Clients, Call(c) PROVE UNCHANGED clock
      BY <2>1 DEF Call, Begin, BeginCheck, DenyUnsubscribed, vars
    <2>2. ASSUME NEW c \in Clients, Step(c) PROVE UNCHANGED clock
      <3>1. CASE AdmitReserve(c) \/ AdmitConsume(c) \/ AdmitCommit(c) \/ AdmitRelease(c)
        BY <3>1 DEF AdmitReserve, AdmitConsume, AdmitCommit, AdmitRelease
      <3>2. CASE FinishReserve(c) \/ FinishConsume(c) \/ FinishCommit(c) \/ FinishRelease(c)
        BY <3>2 DEF FinishReserve, FinishConsume, FinishCommit, FinishRelease, Finishes
      <3>3. CASE FinishCheck(c) \/ Abort(c)
        BY <3>3 DEF FinishCheck, Abort
      <3>. QED  BY <2>2, <3>1, <3>2, <3>3 DEF Step
    <2>3. Sweep => UNCHANGED clock
      BY DEF Sweep
    <2>4. ASSUME NEW t, NEW op, ChangeSubscription(t, op) PROVE UNCHANGED clock
      BY <2>4 DEF ChangeSubscription
    <2>5. ASSUME NEW t, NEW o, AddOverride(t, o) PROVE UNCHANGED clock
      BY <2>5 DEF AddOverride
    <2>6. UNCHANGED vars => UNCHANGED clock
      BY DEF vars
    <2>7. clock' = clock \/ clock' = clock + 1
      BY <2>1, <2>2, <2>3, <2>4, <2>5, <2>6 DEF Next, Tick
    <2>. QED  BY <2>7, TimesAreNat DEF TypeOK
  <1>2. PICK o \in overrides[s] : ~Lapsed(o.expires, clock')
    BY DEF InForce
  <1>3. o.expires \in TimeOrNull
    BY <1>2, EntitlementsAssumption DEF OverrideRow, TypeOK
  <1>4. ~Lapsed(o.expires, clock)
    BY <1>1, <1>2, <1>3 DEF Lapsed, TimeOrNull, NULL
  <1>5. QED
    BY <1>2, <1>4 DEF InForce

LEMMA EffectiveInit == Init => EffectiveInv
  BY ChargeInit DEF Init, EffectiveInv, Effective, OverrideEffective, Idle, Grants, InLock

\* While a call is open, no override is granted.
LEMMA OverridesWait ==
    ASSUME Serial, [Next]_vars, NEW c \in Clients, txn[c] # Idle
    PROVE  overrides' = overrides
  BY DEF Next, Call, Begin, BeginCheck, DenyUnsubscribed, Step, AdmitReserve,
         AdmitConsume, AdmitCommit, AdmitRelease, FinishReserve, FinishConsume,
         FinishCommit, FinishRelease, Finishes, FinishCheck, Abort, Sweep,
         ChangeSubscription, AddOverride, Exclusive, Tick, vars

\* The entitlement rows that a step writes.
LEMMA RowsEffective ==
    ASSUME Serial, EffectiveInv, [Next]_vars, NEW s \in Subs, InForce(overrides'[s], clock')
    PROVE  ent'[s].source = "OVERRIDE"
  <1>1. TypeOK /\ TypeOK' /\ Effective
    BY NextType DEF EffectiveInv, ChargeInv
  <1>2. ASSUME overrides'[s] = overrides[s], NEW t \in Subs, NEW e, ent' = [ent EXCEPT ![t] = e],
               t = s /\ InForce(overrides[s], clock) => e.source = "OVERRIDE"
        PROVE  ent'[s].source = "OVERRIDE"
    <2>1. InForce(overrides[s], clock)
      BY <1>1, <1>2, ForcePasses
    <2>2. QED
      BY <1>1, <1>2, <2>1 DEF TypeOK, Effective, OverrideEffective, InForce
  <1>3. CASE UNCHANGED <<overrides, ent>>
    <2>1. ent' = [ent EXCEPT ![s] = ent[s]]
      BY <1>1, <1>3 DEF TypeOK
    <2>2. QED
      BY <1>1, <1>2, <1>3, <2>1 DEF Effective, OverrideEffective, InForce
  <1>4. ASSUME NEW c \in Clients,
               AdmitReserve(c) \/ AdmitConsume(c) \/ AdmitCommit(c) \/ AdmitRelease(c)
        PROVE  ent'[s].source = "OVERRIDE"
    <2>1. txn[c] \in OpenTxn /\ txn[c].phase = "chosen" /\ UNCHANGED overrides
      BY <1>1, <1>4, OpenTransaction
         DEF AdmitReserve, AdmitConsume, AdmitCommit, AdmitRelease, Acquires
    <2>2. PICK t : t = txn[c].sub
      OBVIOUS
    <2>3. t \in Subs /\ txn[c].now \in Nat /\ txn[c].now <= clock
      BY <1>1, <2>1, <2>2, TimesAreNat DEF OpenTxn, Effective
    <2>4. \A e \in {ent[t]} \cup FreshEntitlement(t, txn[c].now) :
             InForce(overrides[t], clock) => e.source = "OVERRIDE"
      BY <1>1, <2>3, FreshInForce DEF Effective, OverrideEffective, InForce
    <2>5. UNCHANGED ent \/ \E e \in {ent[t]} \cup FreshEntitlement(t, txn[c].now) :
                              ent' = [ent EXCEPT ![t] = e]
      <3>1. CASE AdmitReserve(c)
        BY <2>2, <3>1 DEF AdmitReserve, Answer, Proceed
      <3>2. CASE AdmitConsume(c)
        BY <2>2, <3>2 DEF AdmitConsume, Answer, Proceed
      <3>3. CASE AdmitCommit(c) \/ AdmitRelease(c)
        BY <2>2, <3>3 DEF AdmitCommit, AdmitRelease, Answer, Proceed
      <3>4. QED
        BY <1>4, <3>1, <3>2, <3>3
    <2>6. QED
      BY <1>2, <1>3, <2>1, <2>3, <2>4, <2>5
  <1>5. ASSUME NEW c \in Clients, FinishReserve(c) \/ FinishConsume(c) \/ FinishCheck(c)
        PROVE  ent'[s].source = "OVERRIDE"
    <2>1. /\ UNCHANGED overrides
          /\ txn[c].phase = "healing" \/ Grants(c)
          /\ txn[c].sub \in Subs
      BY <1>1, <1>5
         DEF FinishReserve, FinishConsume, Finishes, FinishCheck, Grants, InLock,
             TypeOK, OpenTxn, HealTxn, Idle
    <2>2. UNCHANGED ent \/ ent' = [ent EXCEPT ![txn[c].sub] = txn[c].ent]
      BY <1>5 DEF FinishReserve, FinishConsume, FinishCheck
    <2>3. InForce(overrides[txn[c].sub], clock) => txn[c].ent.source = "OVERRIDE"
      BY <1>1, <2>1 DEF Effective
    <2>4. QED
      BY <1>2, <1>3, <2>1, <2>2, <2>3
  <1>6. ASSUME NEW t \in Subs, NEW op \in Operations, ChangeSubscription(t, op)
        PROVE  ent'[s].source = "OVERRIDE"
    <2>1. \/ UNCHANGED ent
          \/ \E e \in Resolved(overrides[t], clock) : ent' = [ent EXCEPT ![t] = e]
      BY <1>6 DEF ChangeSubscription
    <2>2. UNCHANGED overrides /\ clock \in Nat /\ overrides[t] \in SUBSET OverrideRow
      BY <1>1, <1>6, TimesAreNat DEF ChangeSubscription, TypeOK
    <2>3. \A e \in Resolved(overrides[t], clock) :
             InForce(overrides[t], clock) => e.source = "OVERRIDE"
      BY <2>2, ResolvedInForce
    <2>4. QED
      BY <1>2, <1>3, <2>1, <2>2, <2>3
  <1>7. ASSUME NEW t \in Subs, NEW o \in OverrideRow, AddOverride(t, o)
        PROVE  ent'[s].source = "OVERRIDE"
    <2>1. PICK e \in Resolved(overrides'[t], clock) : ent' = [ent EXCEPT ![t] = e]
      BY <1>7 DEF AddOverride
    <2>2. clock' = clock /\ clock \in Nat /\ overrides'[t] \in SUBSET OverrideRow
      BY <1>1, <1>7, TimesAreNat DEF AddOverride, TypeOK
    <2>3. CASE t = s
      <3>1. e.source = "OVERRIDE"
        BY <2>2, <2>3, ResolvedInForce
      <3>2. QED
        BY <1>1, <2>1, <2>3, <3>1 DEF TypeOK
    <2>4. CASE t # s
      <3>1. overrides'[s] = overrides[s]
        BY <1>1, <1>7, <2>4 DEF AddOverride, TypeOK
      <3>2. QED
        BY <1>2, <2>1, <2>4, <3>1
    <2>5. QED
      BY <2>3, <2>4
  <1>8. QED
    BY <1>3, <1>4, <1>5, <1>6, <1>7
       DEF Next, Call, Begin, BeginCheck, DenyUnsubscribed, Step, FinishCommit,
           FinishRelease, Finishes, Abort, Sweep, Tick, vars

\* What a CHECK is about to write, and a grant will write, and the instants of
\* the calls that have yet to read.
LEMMA CallsEffective ==
    ASSUME Serial, EffectiveInv, [Next]_vars, NEW c \in Clients
    PROVE  /\ /\ (txn[c].phase = "healing" \/ Grants(c))'
              /\ InForce(overrides'[txn'[c].sub], clock')
              => txn'[c].ent.source = "OVERRIDE"
           /\ txn'[c].phase = "chosen" => txn'[c].now <= clock'
  <1>1. TypeOK /\ TypeOK' /\ Effective /\ ChargeInv
    BY NextType DEF EffectiveInv, ChargeInv
  <1>2. clock \in Nat /\ (clock' = clock \/ clock' = clock + 1)
    BY <1>1, TimesAreNat
       DEF TypeOK, Next, Call, Begin, BeginCheck, DenyUnsubscribed, Step, AdmitReserve,
           AdmitConsume, AdmitCommit, AdmitRelease, FinishReserve, FinishConsume,
           FinishCommit, FinishRelease, Finishes, FinishCheck, Abort, Sweep,
           ChangeSubscription, AddOverride, Tick, vars
  <1>3. CASE txn'[c] = txn[c]
    <2>1. txn[c].phase = "chosen" => txn[c].now <= clock'
      <3>1. ASSUME txn[c].phase = "chosen" PROVE txn[c].now \in Nat /\ txn[c].now <= clock
        BY <1>1, <3>1, OpenTransaction, TimesAreNat DEF OpenTxn, Effective
      <3>2. QED
        BY <1>2, <3>1
    <2>2. ASSUME txn[c].phase = "healing" \/ Grants(c), InForce(overrides'[txn[c].sub], clock')
          PROVE  txn[c].ent.source = "OVERRIDE"
      <3>1. txn[c] # Idle /\ txn[c].sub \in Subs
        BY <1>1, <2>2 DEF Grants, InLock, TypeOK, OpenTxn, HealTxn, Idle
      <3>2. overrides' = overrides
        BY <3>1, OverridesWait
      <3>3. InForce(overrides[txn[c].sub], clock)
        BY <1>1, <2>2, <3>1, <3>2, ForcePasses
      <3>4. QED
        BY <1>1, <2>2, <3>3 DEF Effective
    <2>3. QED
      BY <1>3, <2>1, <2>2 DEF Grants, InLock
  <1>4. CASE BeginCheck(c)
    <2>1. PICK s \in ActiveSubscription, now \in Instants :
            /\ Lapsed(ent[s].expires, now)
            /\ \E e \in FreshEntitlement(s, now) :
                  txn' = [txn EXCEPT ![c] = [phase |-> "healing", sub |-> s, ent |-> e]]
      BY <1>4 DEF BeginCheck
    <2>2. PICK e \in FreshEntitlement(s, now) :
            txn' = [txn EXCEPT ![c] = [phase |-> "healing", sub |-> s, ent |-> e]]
      BY <2>1
    <2>3. s \in Subs /\ now \in Nat /\ now <= clock /\ UNCHANGED <<overrides, clock>>
      BY <1>2, <1>4 DEF ActiveSubscription, Candidates, Instants, BeginCheck
    <2>4. txn'[c] = [phase |-> "healing", sub |-> s, ent |-> e]
      BY <1>1, <2>2 DEF TypeOK
    <2>5. QED
      BY <1>1, <2>3, <2>4, FreshInForce
  <1>5. ASSUME NEW mode, NEW k, NEW q, Begin(c, mode, k, q)
        PROVE  txn'[c].phase = "chosen" /\ txn'[c].now <= clock'
    BY <1>1, <1>2, <1>5 DEF Begin, TypeOK, Instants
  <1>6. ASSUME Step(c)
        PROVE  /\ txn'[c].phase \notin {"chosen", "healing"}
               /\ Grants(c)' => ~InLock(c)
    <2>1. ASSUME NEW e, Answer(c, e) PROVE txn'[c] = Idle
      BY <1>1, <2>1 DEF Answer, Close, TypeOK
    <2>2. ASSUME NEW e, NEW a, Proceed(c, e, a), txn[c] \in OpenTxn PROVE txn'[c].phase = "locked"
      BY <1>1, <2>2 DEF Proceed, TypeOK, OpenTxn
    <2>3. CASE AdmitReserve(c) \/ AdmitConsume(c) \/ AdmitCommit(c) \/ AdmitRelease(c)
      <3>1. txn[c] \in OpenTxn /\ txn[c].phase = "chosen"
        BY <1>1, <2>3, OpenTransaction
           DEF AdmitReserve, AdmitConsume, AdmitCommit, AdmitRelease, Acquires
      <3>2. QED
        BY <2>1, <2>2, <2>3, <3>1
           DEF AdmitReserve, AdmitConsume, AdmitCommit, AdmitRelease, Idle, InLock
    <2>4. CASE Close(c)
      BY <1>1, <2>4 DEF Close, TypeOK, Idle, Grants, InLock
    <2>5. QED
      BY <1>6, <2>3, <2>4
         DEF Step, FinishReserve, FinishConsume, FinishCommit, FinishRelease,
             FinishCheck, Finishes, Abort
  <1>7. CASE Step(c)
    <2>1. ASSUME Grants(c)', InForce(overrides'[txn'[c].sub], clock')
          PROVE  txn'[c].ent.source = "OVERRIDE"
      <3>1. PICK e \in FreshEntitlement(txn[c].sub, txn[c].now) :
              /\ txn'[c] = [txn[c] EXCEPT !.phase = "locked", !.ent = e,
                                          !.amount = txn'[c].amount]
              /\ txn[c] \in OpenTxn
        BY <1>1, <1>6, <1>7, <2>1, GrantAdmitted
      <3>2. txn'[c].sub = txn[c].sub /\ txn'[c].ent = e /\ txn[c].sub \in Subs /\ txn[c].now \in Nat
        BY <3>1, TimesAreNat DEF OpenTxn
      <3>3. overrides' = overrides /\ txn[c].phase = "chosen"
        BY <1>1, <1>6, <1>7, <2>1, LockStep, OverridesWait, OwnTransaction DEF Grants
      <3>4. InForce(overrides[txn[c].sub], clock)
        BY <1>1, <2>1, <3>2, <3>3, ForcePasses
      <3>5. txn[c].now <= clock
        BY <1>1, <3>3 DEF Effective
      <3>6. QED
        BY <1>1, <3>1, <3>2, <3>4, <3>5, FreshInForce
    <2>2. QED
      BY <1>6, <1>7, <2>1
  <1>8. ASSUME NEW d \in Clients \ {c}, Call(d) \/ Step(d) PROVE txn'[c] = txn[c]
    BY <1>1, <1>8, OpensCases, OwnTransaction
       DEF Call, DenyUnsubscribed, Opens, vars
  <1>9. QED
    <2>1. ASSUME NEW mode, NEW k, NEW q, Begin(c, mode, k, q)
          PROVE  txn'[c].phase = "chosen" /\ txn'[c].now <= clock' /\ ~Grants(c)'
      BY <2>1, <1>5 DEF Grants, InLock
    <2>2. CASE Call(c)
      BY <1>3, <1>4, <2>1, <2>2 DEF Call, DenyUnsubscribed, vars
    <2>3. CASE UNCHANGED txn
      BY <1>3, <2>3
    <2>4. QED
      BY <1>3, <1>7, <1>8, <2>2, <2>3
         DEF Next, Sweep, ChangeSubscription, AddOverride, Tick, vars

\* On SQLite an override takes effect as soon as it is granted and until it
\* lapses: no call writes back an entitlement that it resolved before.
THEOREM OverridesTakeEffect == Serial => (Spec => []OverrideEffective)
  <1> SUFFICES ASSUME Serial PROVE Spec => []OverrideEffective
    OBVIOUS
  <1>1. EffectiveInv /\ [Next]_vars => EffectiveInv'
    <2> SUFFICES ASSUME EffectiveInv, [Next]_vars PROVE EffectiveInv'
      OBVIOUS
    <2>1. ChargeInv'
      BY ChargeStep DEF EffectiveInv
    <2>2. OverrideEffective'
      BY RowsEffective DEF OverrideEffective, InForce
    <2>3. QED
      BY <2>1, <2>2, CallsEffective DEF EffectiveInv, Effective
  <1>2. EffectiveInv => OverrideEffective
    BY DEF EffectiveInv, Effective
  <1>3. QED
    BY <1>1, <1>2, EffectiveInit, PTL DEF Spec
=============================================================================
