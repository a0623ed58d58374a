-------------------------- MODULE SubscriptionLedger --------------------------
(***************************************************************************)
(* What the subscription service promises, whoever calls it at once: each  *)
(* subscription goes through its nine states along legal transitions only, *)
(* and a transition, its row in the history and its event in the audit     *)
(* trail are one indivisible step. The trail is one for all of them, so    *)
(* that it holds their transitions in the order in which they happened.    *)
(***************************************************************************)
EXTENDS Sequences, SubscriptionStates

CONSTANT Subs

VARIABLES
    state,      \* of each subscription; "NONE" before it is created
    history,    \* the transitions of each subscription, oldest first
    audited     \* the transitions of all of them in the one audit trail

ledgerVars == <<state, history, audited>>

LInit ==
    /\ state = [s \in Subs |-> "NONE"]
    /\ history = [s \in Subs |-> <<>>]
    /\ audited = <<>>

Enters(s, from, to) ==
    /\ state[s] = from
    /\ state' = [state EXCEPT ![s] = to]
    /\ history' = [history EXCEPT ![s] = Append(@, <<from, to>>)]
    /\ audited' = Append(audited, [sub |-> s, from |-> from, to |-> to])

Created(s) == Enters(s, "NONE", "DRAFT")

Transition(s) ==
    /\ state[s] \in States
    /\ \E to \in TRANSITIONS[state[s]] : Enters(s, state[s], to)

LNext == \E s \in Subs : Created(s) \/ Transition(s)

LSpec == LInit /\ [][LNext]_ledgerVars
=============================================================================
