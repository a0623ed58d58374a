---------------------------- MODULE Subscriptions ----------------------------
(***************************************************************************)
(* The subscription service for the subscriptions of one tenant, called by *)
(* several sessions at once: create_subscription and the operations that   *)
(* move a subscription (activate ... terminate), down to the statements of *)
(* _transition: read the row, compare-and-set its version, read the head   *)
(* of the audit chain, commit.                                             *)
(*                                                                         *)
(* activate, start_trial, convert_trial and cancel first read the row in a *)
(* connection of their own, and what they saw may be stale when their      *)
(* transaction starts. activate and start_trial of a draft run two         *)
(* transactions, and may stop between them.                                *)
(*                                                                         *)
(* Nothing here compares times, so that the clock stands still: a column   *)
(* set from it is NULL or not, and a term is told from a trial by length.  *)
(***************************************************************************)
EXTENDS SubscriptionStates, AuditChain, Sequences

CONSTANTS
    Subs,           \* the subscriptions of the tenant
    Clients,        \* the sessions that call the service
    Calls,          \* the operations they call
    Serial,         \* TRUE: SQLite; FALSE: PostgreSQL
    MaxEvents       \* bound: no call starts once the trail has this length

ASSUME SubscriptionsAssumption ==
    /\ Calls \subseteq Transactions \cup {"create"}
    /\ Serial \in BOOLEAN
    /\ MaxEvents \in Nat

VARIABLES
    sub,        \* the subscription rows
    version,    \* their version column; 0: the row does not exist yet
    cancelAt,   \* their cancel_effective_at column
    history,    \* subscription_transitions, by subscription, oldest first
    events,     \* audit_events of the tenant, by number
    head,       \* its row of audit_chain_heads
    resolved,   \* whether the subscription has entitlements rows
    call        \* what each session is doing

rowVars == <<sub, version, cancelAt, history, events, head, resolved>>
vars == <<sub, version, cancelAt, history, events, head, resolved, call>>

Now == 0

Idle == [phase |-> "idle"]

\* phase "asked":   the next transaction of the call has not begun;
\* phase "read":    it has read the row and found the transition legal;
\* phase "moved":   the compare-and-set holds the row lock;
\* phase "chained": the event is computed from the head it read.
InCall(c) == call[c].phase # "idle"
Ops == Transactions \cup {"create"}

Change == [sub : Subs, from : States \cup {"NONE"}, to : States]

StateOf(s) == IF version[s] = 0 THEN "NONE" ELSE sub[s].state

TargetOf(op) == IF op = "create" THEN "DRAFT" ELSE Target[op]

MayMove(op, s) == op = "create" \/ Legal(op, sub[s].state)

Exclusive(c) ==
    Serial => \A d \in Clients \ {c} :
                 call[d].phase \notin {"read", "moved", "chained"}

RowFree(c, s) ==
    \A d \in Clients \ {c} :
        ~(call[d].phase \in {"moved", "chained"} /\ call[d].sub = s)

\* FOR UPDATE locks the head row once there is one.
HeadFree(c) ==
    head # NoHead => \A d \in Clients \ {c} : call[d].phase # "chained"

Ends(c) == call' = [call EXCEPT ![c] = Idle]

(***************************************************************************)
(* The steps of a call.                                                    *)
(***************************************************************************)
\* A new subscription has an id of its own. Of an existing one, the first read
\* decides whether a draft is provisioned first, and what a cancellation will
\* take for the end of the term.
Ask(c, op, s) ==
    /\ call[c] = Idle
    /\ Exclusive(c)
    /\ IF op = "create"
       THEN version[s] = 0 /\ \A d \in Clients : InCall(d) => call[d].sub # s
       ELSE version[s] > 0
    /\ Len(events) < MaxEvents
    /\ LET draft == op \in {"activate", "start_trial"} /\ sub[s].state = "DRAFT"
       IN  call' = [call EXCEPT ![c] =
              [phase |-> "asked", sub |-> s,
               plan |-> IF draft THEN <<"provision", op>> ELSE <<op>>,
               seenEnd |-> IF op = "cancel" THEN sub[s].termEnd ELSE NULL]]
    /\ UNCHANGED rowVars

\* _transition reads the row and validates; an illegal transition raises.
Read(c) ==
    /\ call[c].phase = "asked"
    /\ Exclusive(c)
    /\ LET t == call[c] IN
       IF MayMove(Head(t.plan), t.sub)
       THEN call' = [call EXCEPT ![c] =
               [phase |-> "read", sub |-> t.sub, plan |-> t.plan,
                seenEnd |-> t.seenEnd,
                version |-> version[t.sub], from |-> StateOf(t.sub)]]
       ELSE Ends(c)
    /\ UNCHANGED rowVars

\* Faulty: the update names the row only, not the version it was read at.
CompareAndSetBlind(c) ==
    /\ call[c].phase = "read"
    /\ RowFree(c, call[c].sub)
    /\ call' = [call EXCEPT ![c].phase = "moved"]
    /\ UNCHANGED rowVars

\* The update waits for the row lock and then looks at the version again.
CompareAndSet(c) ==
    /\ call[c].phase = "read"
    /\ RowFree(c, call[c].sub)
    /\ IF version[call[c].sub] = call[c].version
       THEN call' = [call EXCEPT ![c].phase = "moved"]
       ELSE Ends(c)
    /\ UNCHANGED rowVars

\* audit.record computes the next event from the head.
ReadHead(c) ==
    /\ call[c].phase = "moved"
    /\ HeadFree(c)
    /\ LET t == call[c]
           change == [sub |-> t.sub, from |-> t.from,
                      to |-> TargetOf(Head(t.plan))]
       IN  call' = [call EXCEPT ![c] =
              [phase |-> "chained", sub |-> t.sub, plan |-> t.plan,
               seenEnd |-> t.seenEnd, version |-> t.version,
               from |-> t.from, event |-> EventAfter(head, c, change)]]
    /\ UNCHANGED rowVars

NewRow(op, row) == IF op = "create" THEN DraftRow ELSE Moved(op, row, Now)

NewCancelAt(op, at, seenEnd) ==
    CASE op = "cancel" -> seenEnd
      [] op = "rescind_cancellation" -> NULL
      [] OTHER -> at

\* The whole transaction becomes visible at once, or fails on the chain.
Commit(c) ==
    /\ call[c].phase = "chained"
    /\ LET t == call[c]
           op == Head(t.plan)
           s == t.sub
       IN  IF Appends(events, head, t.event)
           THEN /\ sub' = [sub EXCEPT ![s] = NewRow(op, @)]
                /\ version' = [version EXCEPT ![s] = t.version + 1]
                /\ cancelAt' = [cancelAt EXCEPT ![s] = NewCancelAt(op, @, t.seenEnd)]
                /\ history' = [history EXCEPT ![s] =
                                  Append(@, <<t.from, TargetOf(op)>>)]
                /\ events' = Append(events, t.event)
                /\ head' = HeadAt(t.event)
                /\ resolved' = [resolved EXCEPT ![s] = @ \/ op \in Resolving]
                /\ IF Len(t.plan) = 1 THEN Ends(c)
                   ELSE call' = [call EXCEPT ![c] =
                           [phase |-> "asked", sub |-> s, plan |-> Tail(t.plan),
                            seenEnd |-> t.seenEnd]]
           ELSE Ends(c) /\ UNCHANGED rowVars

\* Faulty: the audit event is committed on its own.
AbortKeepingAudit(c) ==
    /\ InCall(c)
    /\ Ends(c)
    /\ IF call[c].phase = "chained" /\ Appends(events, head, call[c].event)
       THEN events' = Append(events, call[c].event) /\ head' = HeadAt(call[c].event)
       ELSE UNCHANGED <<events, head>>
    /\ UNCHANGED <<sub, version, cancelAt, history, resolved>>

\* The session fails, crashes or loses its connection: an open transaction
\* rolls back, and a second transaction is never begun.
Abort(c) ==
    /\ InCall(c)
    /\ Ends(c)
    /\ UNCHANGED rowVars

Init ==
    /\ sub = [s \in Subs |-> DraftRow]
    /\ version = [s \in Subs |-> 0]
    /\ cancelAt = [s \in Subs |-> NULL]
    /\ history = [s \in Subs |-> <<>>]
    /\ events = <<>>
    /\ head = NoHead
    /\ resolved = [s \in Subs |-> FALSE]
    /\ call = [c \in Clients |-> Idle]

Next ==
    \E c \in Clients :
        \/ \E op \in Calls, s \in Subs : Ask(c, op, s)
        \/ Read(c) \/ CompareAndSet(c) \/ ReadHead(c) \/ Commit(c)
        \/ Abort(c)

Spec == Init /\ [][Next]_vars

(***************************************************************************)
(* Properties.                                                             *)
(***************************************************************************)
\* A session is idle or in one of the four phases of a call, and holds what
\* that phase has read.
CallType(t) ==
    \/ t = Idle
    \/ /\ t.phase \in {"asked", "read", "moved", "chained"}
       /\ t.sub \in Subs
       /\ t.plan \in {<<op>> : op \in Ops} \cup {<<"provision", op>> : op \in Ops}
       /\ t.seenEnd \in TimeOrNull
       /\ t.phase # "asked" => /\ t.version \in Nat
                               /\ t.from \in States \cup {"NONE"}
       /\ t.phase = "chained" => t.event.what \in Change

TypeOK ==
    /\ sub \in [Subs -> Row]
    /\ version \in [Subs -> Nat]
    /\ cancelAt \in [Subs -> TimeOrNull]
    /\ \A s \in Subs : history[s] \in Seq((States \cup {"NONE"}) \X States)
    /\ \A i \in DOMAIN events : events[i].what \in Change
    /\ resolved \in [Subs -> BOOLEAN]
    /\ \A c \in Clients : CallType(call[c])

\* Each row of a history starts where the one before it ended, the last ends
\* in the state of the subscription, and the version counts them.
HistoryLinks ==
    \A s \in Subs :
        LET h == history[s]
            entered == [i \in 0..Len(h) |-> IF i = 0 THEN "NONE" ELSE h[i][2]]
        IN  /\ version[s] = Len(h)
            /\ StateOf(s) = entered[Len(h)]
            /\ \A i \in 1..Len(h) : h[i][1] = entered[i - 1]

Moves == {<<"NONE", "DRAFT">>} \cup {m \in States \X States : m[2] \in TRANSITIONS[m[1]]}

HistoryLegal == \A s \in Subs : \A i \in 1..Len(history[s]) : history[s][i] \in Moves

\* _transition checks the move and compares-and-sets the version in two steps;
\* together they make the history of a subscription a path of legal transitions
\* from its creation to its state, whoever else moves it.
HistoryIsPath == HistoryLinks /\ HistoryLegal

\* The trail that concurrent transactions write is one verify_chain accepts,
\* at every moment: numbers without a gap, every link and the anchor.
ChainVerifies == Verifies(events, head)

\* "Entering these (re)resolves entitlements", in the same transaction: there
\* is no moment at which a trialing or active subscription has none.
EntitledOnEntry ==
    \A s \in Subs : StateOf(s) \in {"TRIALING", "ACTIVE"} => resolved[s]

\* "DRAFT->PENDING_ACTIVATION->ACTIVE with a term window" (activate): an
\* active subscription has a term.
ActiveHasTerm ==
    \A s \in Subs : StateOf(s) = "ACTIVE" => sub[s].termEnd # NULL

\* The transitions in the audit trail, in the order of the trail.
Audited == [i \in DOMAIN events |-> events[i].what]

\* The concurrent service implements the ledger of indivisible, legal,
\* recorded and audited transitions.
Ledger == INSTANCE SubscriptionLedger WITH
    state   <- [s \in Subs |-> StateOf(s)],
    history <- history,
    audited <- Audited

ImplementsLedger == Ledger!LSpec
=============================================================================
