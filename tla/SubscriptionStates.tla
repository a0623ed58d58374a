-------------------------- MODULE SubscriptionStates --------------------------
(***************************************************************************)
(* The nine-state subscription machine of metabridge_control, as data:     *)
(* which transitions are legal, what each service operation writes into    *)
(* the subscription row, and what the entitlement gate reads from it.      *)
(* Both Subscriptions (who may move a row, and when) and Entitlements      *)
(* (what a row entitles a tenant to) are built on this module.             *)
(*                                                                         *)
(* Time is a natural number; a NULL column is the integer NULL.            *)
(***************************************************************************)
EXTENDS Integers

CONSTANTS
    TermLength,     \* the length of a paid term (_term_end)
    TrialLength,    \* the days of a trial
    GraceLength     \* the grace_days of a past-due subscription

ASSUME LengthsAssumption ==
    /\ TermLength \in Nat
    /\ TrialLength \in Nat
    /\ GraceLength \in Nat

NULL == -1

TimeOrNull == Nat \cup {NULL}

States == {"DRAFT", "PENDING_ACTIVATION", "TRIALING", "ACTIVE", "PAST_DUE",
           "SUSPENDED", "CANCELLED", "EXPIRED", "TERMINATED"}

TRANSITIONS ==
    [DRAFT              |-> {"PENDING_ACTIVATION", "CANCELLED"},
     PENDING_ACTIVATION |-> {"TRIALING", "ACTIVE"},
     TRIALING           |-> {"ACTIVE", "EXPIRED"},
     ACTIVE             |-> {"PAST_DUE", "CANCELLED", "EXPIRED", "TERMINATED"},
     PAST_DUE           |-> {"ACTIVE", "SUSPENDED"},
     SUSPENDED          |-> {"ACTIVE", "TERMINATED"},
     CANCELLED          |-> {"ACTIVE", "EXPIRED"},
     EXPIRED            |-> {},
     TERMINATED         |-> {}]

\* The columns of a subscription row that its operations write and the gate
\* reads. The version and cancel_effective_at columns, which the gate never
\* reads, are kept apart in Subscriptions.
Row == [state      : States,
        isTrial    : BOOLEAN,
        trialEnd   : TimeOrNull,
        termEnd    : TimeOrNull,
        graceUntil : TimeOrNull]

DraftRow == [state |-> "DRAFT", isTrial |-> FALSE, trialEnd |-> NULL,
             termEnd |-> NULL, graceUntil |-> NULL]

(***************************************************************************)
(* The operations. "provision" is the first of the two transactions of     *)
(* activate and start_trial: DRAFT -> PENDING_ACTIVATION.                  *)
(***************************************************************************)
Target ==
    [provision            |-> "PENDING_ACTIVATION",
     activate             |-> "ACTIVE",
     start_trial          |-> "TRIALING",
     convert_trial        |-> "ACTIVE",
     mark_past_due        |-> "PAST_DUE",
     reinstate            |-> "ACTIVE",
     suspend              |-> "SUSPENDED",
     cancel               |-> "CANCELLED",
     rescind_cancellation |-> "ACTIVE",
     expire               |-> "EXPIRED",
     terminate            |-> "TERMINATED"]

Transactions == DOMAIN Target

\* Faulty: a trial starts on the entitlements it does not have.
ResolvingPaid == {"activate", "convert_trial", "reinstate",
                  "rescind_cancellation"}

\* The operations that re-resolve the entitlements in their transaction.
Resolving == {"activate", "start_trial", "convert_trial", "reinstate",
              "rescind_cancellation"}

Legal(op, state) == Target[op] \in TRANSITIONS[state]

\* The row after operation op at time now: the new state and the columns of
\* the operation's mutate argument.
Moved(op, row, now) ==
    LET r == [row EXCEPT !.state = Target[op]] IN
    CASE op \in {"activate", "convert_trial"} ->
             [r EXCEPT !.isTrial = FALSE, !.trialEnd = NULL,
                       !.termEnd = now + TermLength]
      [] op = "start_trial" ->
             [r EXCEPT !.isTrial = TRUE, !.trialEnd = now + TrialLength,
                       !.termEnd = now + TrialLength]
      [] op = "mark_past_due" -> [r EXCEPT !.graceUntil = now + GraceLength]
      [] op = "reinstate" -> [r EXCEPT !.graceUntil = NULL]
      [] OTHER -> r

(***************************************************************************)
(* What the entitlement gate reads from a row.                             *)
(***************************************************************************)
FULL_STATES == {"TRIALING", "ACTIVE", "CANCELLED"}
WARM_STATES == {"PAST_DUE"}
READONLY_STATES == {"SUSPENDED"}

\* The states in which a subscription can be the tenant's authoritative one.
HonouredStates == FULL_STATES \cup WARM_STATES \cup READONLY_STATES

STATE_PRIORITY == [ACTIVE |-> 0, TRIALING |-> 1, PAST_DUE |-> 2,
                   CANCELLED |-> 3, SUSPENDED |-> 4]

TimeStatus(row, now) ==
    IF row.isTrial /\ row.trialEnd # NULL /\ now > row.trialEnd
    THEN "TRIAL_LIMIT_REACHED"
    ELSE IF row.termEnd # NULL /\ now > row.termEnd
    THEN IF row.graceUntil # NULL /\ now <= row.graceUntil
         THEN "OK_GRACE" ELSE "LICENSE_EXPIRED"
    ELSE IF row.graceUntil # NULL /\ row.state \in WARM_STATES
            /\ now <= row.graceUntil
    THEN "OK_GRACE" ELSE "OK"

\* Faulty: a suspended subscription still consumes.
AdmitsSuspended(row, now) == TimeStatus(row, now) \in {"OK", "OK_GRACE"}

\* The gate lets a consuming call through: its time window is open and the
\* row is not read-only.
Admits(row, now) ==
    /\ TimeStatus(row, now) \in {"OK", "OK_GRACE"}
    /\ row.state \notin READONLY_STATES
=============================================================================
