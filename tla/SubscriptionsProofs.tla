--------------------------- MODULE SubscriptionsProofs ---------------------------
(***************************************************************************)
(* What the subscription service keeps, for any number of subscriptions    *)
(* and sessions, however their transactions interleave and whenever one    *)
(* fails, on SQLite and on PostgreSQL: the types, the history of each      *)
(* subscription, the audit trail of the tenant, and entitlements on entry. *)
(*                                                                         *)
(* A session carries what it read past the commits of the others. The      *)
(* inductive invariant says what that is still worth: the version and the  *)
(* state it read of a row are those of the row unless the version has      *)
(* moved on, and are those of the row once it has the row lock (RowHeld);  *)
(* the hash its event continues is the one of the event before that number *)
(* (EventHeld). The last section shows the ledger implemented, step by     *)
(* step: what a call is about to commit is one legal move of the ledger    *)
(* (ReadyInv).                                                             *)
(***************************************************************************)
EXTENDS Subscriptions, SequenceTheorems, TLAPS

Hashes == Nat \X (Clients \cup {0})
Event == [seq : Nat, prev : Hashes, hash : Hashes, what : Change]
Plans == {<<op>> : op \in Ops} \cup {<<"provision", op>> : op \in Ops}
From == States \cup {"NONE"}

Asked == [phase : {"asked"}, sub : Subs, plan : Plans, seenEnd : TimeOrNull]
Moving == [phase : {"read", "moved"}, sub : Subs, plan : Plans, seenEnd : TimeOrNull,
           version : Nat, from : From]
Chained == [phase : {"chained"}, sub : Subs, plan : Plans, seenEnd : TimeOrNull,
            version : Nat, from : From, event : Event]
CallSet == {Idle} \cup Asked \cup Moving \cup Chained

Typed ==
    /\ sub \in [Subs -> Row]
    /\ version \in [Subs -> Nat]
    /\ cancelAt \in [Subs -> TimeOrNull]
    /\ history \in [Subs -> Seq(From \X States)]
    /\ events \in Seq(Event)
    /\ head \in [maxSeq : Nat, headHash : Hashes]
    /\ resolved \in [Subs -> BOOLEAN]
    /\ call \in [Clients -> CallSet]

Locks(t) == t.phase \in {"moved", "chained"}

RowHeld(t) ==
    /\ t.phase = "read" =>
         /\ t.version <= version[t.sub]
         /\ t.version = version[t.sub] => StateOf(t.sub) = t.from
    /\ Locks(t) => t.version = version[t.sub] /\ StateOf(t.sub) = t.from

EventHeld(t) ==
    t.phase = "chained" =>
      t.event.seq \in 1 .. Len(events) + 1 /\ t.event.prev = HashBefore(events, t.event.seq)

Held == \A c \in Clients : RowHeld(call[c]) /\ EventHeld(call[c])

OneLocks ==
    \A c, d \in Clients : c # d /\ Locks(call[c]) /\ Locks(call[d]) => call[c].sub # call[d].sub

IInv ==
    /\ Typed
    /\ Held
    /\ OneLocks
    /\ HistoryLinks
    /\ ChainVerifies
    /\ EntitledOnEntry

LEMMA TypedIsTypeOK == Typed => TypeOK
<1>. SUFFICES ASSUME Typed PROVE TypeOK
  OBVIOUS
<1>1. \A c \in Clients : CallType(call[c])
  BY DEF Typed, CallSet, Asked, Moving, Chained, Event, CallType, Plans, From
<1>2. \A i \in DOMAIN events : events[i].what \in Change
  <2>1. \A i \in DOMAIN events : events[i] \in Event
    BY ElementOfSeq, LenProperties DEF Typed
  <2>. QED  BY <2>1 DEF Event
<1>. QED  BY <1>1, <1>2 DEF Typed, TypeOK, From

LEMMA Starting == Init => IInv
<1>. SUFFICES ASSUME Init PROVE IInv
  OBVIOUS
<1>1. DraftRow \in Row
  BY DEF DraftRow, Row, States, TimeOrNull
<1>2. Typed
  BY <1>1, EmptySeq
  DEF Init, Typed, CallSet, NoHead, Hashes, GENESIS, TimeOrNull
<1>3. Held /\ OneLocks
  BY DEF Init, Held, OneLocks, Locks, RowHeld, EventHeld, Idle
<1>4. HistoryLinks /\ EntitledOnEntry
  BY EmptySeq DEF Init, HistoryLinks, EntitledOnEntry, StateOf
<1>5. ChainVerifies
  BY DEF Init, ChainVerifies, Verifies, HashBefore, NoHead
<1>. QED  BY <1>2, <1>3, <1>4, <1>5 DEF IInv

\* A step of one session that changes no row.
LEMMA RowsKept ==
    ASSUME IInv, NEW c \in Clients, NEW t \in CallSet,
           call' = [call EXCEPT ![c] = t], UNCHANGED rowVars,
           RowHeld(t), EventHeld(t),
           Locks(t) => \A d \in Clients \ {c} : Locks(call[d]) => call[d].sub # t.sub
    PROVE  IInv'
<1>1. Typed'
  BY DEF IInv, Typed, rowVars
<1>2. call'[c] = t /\ \A d \in Clients \ {c} : call'[d] = call[d]
  BY DEF IInv, Typed
<1>3. OneLocks'
  BY <1>2 DEF IInv, OneLocks, Locks
<1>4. \A s : StateOf(s)' = StateOf(s)
  BY DEF rowVars, StateOf
<1>5. Held'
  BY <1>2, <1>4 DEF IInv, Held, RowHeld, EventHeld, Locks, rowVars
<1>6. HistoryLinks' /\ EntitledOnEntry' /\ ChainVerifies'
  BY <1>4 DEF IInv, HistoryLinks, EntitledOnEntry, ChainVerifies, rowVars
<1>. QED  BY <1>1, <1>3, <1>5, <1>6 DEF IInv

LEMMA Plan ==
    ASSUME NEW plan \in Plans
    PROVE  /\ Head(plan) \in Ops
           /\ Len(plan) # 1 => Tail(plan) \in Plans
<1>1. CASE plan \in {<<op>> : op \in Ops}
  BY <1>1
<1>2. CASE plan \in {<<"provision", op>> : op \in Ops}
  <2>1. PICK op \in Ops : plan = <<"provision", op>>
    BY <1>2
  <2>2. "provision" \in Ops
    BY DEF Ops, Transactions, Target
  <2>3. Head(plan) = "provision" /\ Tail(plan) = <<op>>
    BY <2>1
  <2>. QED  BY <2>2, <2>3 DEF Plans
<1>. QED  BY <1>1, <1>2 DEF Plans

\* A row is what its operation makes of it.
LEMMA Rows ==
    ASSUME NEW op \in Ops, NEW row \in Row
    PROVE  NewRow(op, row) \in Row /\ NewRow(op, row).state = TargetOf(op) /\ TargetOf(op) \in States
<1>1. TargetOf(op) \in States
  BY DEF TargetOf, Ops, Transactions, Target, States
<1>2. CASE op = "create"
  BY <1>2 DEF NewRow, TargetOf, DraftRow, Row, States, TimeOrNull
<1>3. CASE op # "create"
  <2>. DEFINE r == [row EXCEPT !.state = Target[op]]
  <2>1. r \in Row /\ r.state = TargetOf(op)
    BY <1>1, <1>3 DEF Row, TargetOf
  <2>2. Now + TermLength \in TimeOrNull /\ Now + TrialLength \in TimeOrNull /\
        Now + GraceLength \in TimeOrNull /\ NULL \in TimeOrNull
    BY LengthsAssumption DEF Now, TimeOrNull
  <2>. HIDE DEF r
  <2>3. CASE op \in {"activate", "convert_trial"}
    <3>1. Moved(op, row, Now) = [r EXCEPT !.isTrial = FALSE, !.trialEnd = NULL,
                                          !.termEnd = Now + TermLength]
      BY <2>3 DEF Moved, r
    <3>. QED  BY <1>3, <2>1, <2>2, <3>1 DEF NewRow, Row
  <2>4. CASE op = "start_trial"
    <3>1. Moved(op, row, Now) = [r EXCEPT !.isTrial = TRUE, !.trialEnd = Now + TrialLength,
                                          !.termEnd = Now + TrialLength]
      BY <2>4 DEF Moved, r
    <3>. QED  BY <1>3, <2>1, <2>2, <3>1 DEF NewRow, Row
  <2>5. CASE op = "mark_past_due"
    <3>1. Moved(op, row, Now) = [r EXCEPT !.graceUntil = Now + GraceLength]
      BY <2>5 DEF Moved, r
    <3>. QED  BY <1>3, <2>1, <2>2, <3>1 DEF NewRow, Row
  <2>6. CASE op = "reinstate"
    <3>1. Moved(op, row, Now) = [r EXCEPT !.graceUntil = NULL]
      BY <2>6 DEF Moved, r
    <3>. QED  BY <1>3, <2>1, <2>2, <3>1 DEF NewRow, Row
  <2>7. CASE op \notin {"activate", "convert_trial", "start_trial", "mark_past_due", "reinstate"}
    <3>1. Moved(op, row, Now) = r
      BY <2>7 DEF Moved, r
    <3>. QED  BY <1>1, <1>3, <2>1, <3>1 DEF NewRow
  <2>. QED  BY <2>3, <2>4, <2>5, <2>6, <2>7
<1>. QED  BY <1>1, <1>2, <1>3

LEMMA HashesBefore ==
    ASSUME Typed, NEW i \in 1 .. Len(events) + 1
    PROVE  HashBefore(events, i) \in Hashes
<1>1. CASE i = 1
  BY <1>1 DEF HashBefore, GENESIS, Hashes
<1>2. CASE i # 1
  <2>1. events[i - 1] \in Event
    BY <1>2, ElementOfSeq, LenProperties DEF Typed
  <2>. QED  BY <1>2, <2>1 DEF HashBefore, Event
<1>. QED  BY <1>1, <1>2

-----------------------------------------------------------------------------
(***************************************************************************)
(* The steps before the commit.                                            *)
(***************************************************************************)

LEMMA EndsKeeps ==
    ASSUME IInv, NEW c \in Clients, Ends(c), UNCHANGED rowVars
    PROVE  IInv'
<1>1. Idle \in CallSet /\ RowHeld(Idle) /\ EventHeld(Idle) /\ ~Locks(Idle)
  BY DEF CallSet, RowHeld, EventHeld, Locks, Idle
<1>. QED  BY <1>1, RowsKept DEF Ends

LEMMA AskKeeps ==
    ASSUME IInv, NEW c \in Clients, NEW op \in Calls, NEW s \in Subs, Ask(c, op, s)
    PROVE  IInv'
<1>. DEFINE draft == op \in {"activate", "start_trial"} /\ sub[s].state = "DRAFT"
<1>1. PICK plan, seenEnd :
         /\ plan = IF draft THEN <<"provision", op>> ELSE <<op>>
         /\ seenEnd = IF op = "cancel" THEN sub[s].termEnd ELSE NULL
  OBVIOUS
<1>2. plan \in Plans
  BY <1>1, SubscriptionsAssumption DEF Plans, Ops
<1>3. seenEnd \in TimeOrNull
  BY <1>1 DEF IInv, Typed, Row, TimeOrNull
<1>4. PICK t : t = [phase |-> "asked", sub |-> s, plan |-> plan, seenEnd |-> seenEnd]
  OBVIOUS
<1>5. call' = [call EXCEPT ![c] = t] /\ UNCHANGED rowVars
  BY <1>1, <1>4 DEF Ask
<1>6. t \in CallSet /\ RowHeld(t) /\ EventHeld(t) /\ ~Locks(t)
  BY <1>2, <1>3, <1>4 DEF CallSet, Asked, RowHeld, EventHeld, Locks
<1>. QED  BY <1>5, <1>6, RowsKept

LEMMA ReadKeeps ==
    ASSUME IInv, NEW c \in Clients, Read(c)
    PROVE  IInv'
<1>1. call[c] \in Asked
  <2>1. call[c] \in CallSet /\ call[c].phase = "asked"
    BY DEF IInv, Typed, Read
  <2>. QED  BY <2>1 DEF CallSet, Asked, Moving, Chained, Idle
<1>2. CASE ~MayMove(Head(call[c].plan), call[c].sub)
  BY <1>2, EndsKeeps DEF Read
<1>3. CASE MayMove(Head(call[c].plan), call[c].sub)
  <2>1. PICK t : t = [phase |-> "read", sub |-> call[c].sub, plan |-> call[c].plan,
                      seenEnd |-> call[c].seenEnd,
                      version |-> version[call[c].sub], from |-> StateOf(call[c].sub)]
    OBVIOUS
  <2>2. call' = [call EXCEPT ![c] = t] /\ UNCHANGED rowVars
    BY <1>3, <2>1 DEF Read
  <2>3. StateOf(call[c].sub) \in From
    BY <1>1 DEF IInv, Typed, Asked, StateOf, From, Row
  <2>4. version[call[c].sub] \in Nat
    BY <1>1 DEF IInv, Typed, Asked
  <2>5. t \in Moving
    BY <1>1, <2>1, <2>3, <2>4 DEF Asked, Moving
  <2>6. RowHeld(t) /\ EventHeld(t) /\ ~Locks(t)
    BY <2>1, <2>4 DEF RowHeld, EventHeld, Locks
  <2>. QED  BY <2>2, <2>5, <2>6, RowsKept DEF CallSet
<1>. QED  BY <1>2, <1>3

LEMMA CompareAndSetKeeps ==
    ASSUME IInv, NEW c \in Clients, CompareAndSet(c)
    PROVE  IInv'
<1>1. call[c] \in Moving /\ call[c].phase = "read"
  BY DEF IInv, Typed, CallSet, Asked, Moving, Chained, Idle, CompareAndSet
<1>2. CASE version[call[c].sub] # call[c].version
  BY <1>2, EndsKeeps DEF CompareAndSet
<1>3. CASE version[call[c].sub] = call[c].version
  <2>1. PICK t : t = [call[c] EXCEPT !.phase = "moved"]
    OBVIOUS
  <2>2. call' = [call EXCEPT ![c] = t] /\ UNCHANGED rowVars
    BY <1>3, <2>1 DEF CompareAndSet
  <2>3. t \in Moving /\ t.phase = "moved" /\ t.sub = call[c].sub /\
        t.version = call[c].version /\ t.from = call[c].from
    BY <1>1, <2>1 DEF Moving
  <2>4. RowHeld(t) /\ EventHeld(t)
    BY <1>1, <1>3, <2>3 DEF IInv, Held, RowHeld, EventHeld, Locks
  <2>5. \A d \in Clients \ {c} : Locks(call[d]) => call[d].sub # t.sub
    BY <2>3 DEF CompareAndSet, RowFree, Locks
  <2>. QED  BY <2>2, <2>3, <2>4, <2>5, RowsKept DEF CallSet
<1>. QED  BY <1>2, <1>3

LEMMA ReadHeadKeeps ==
    ASSUME IInv, NEW c \in Clients, ReadHead(c)
    PROVE  IInv'
<1>1. call[c] \in Moving /\ call[c].phase = "moved"
  BY DEF IInv, Typed, CallSet, Asked, Moving, Chained, Idle, ReadHead
<1>2. PICK change : change = [sub |-> call[c].sub, from |-> call[c].from,
                              to |-> TargetOf(Head(call[c].plan))]
  OBVIOUS
<1>3. change \in Change
  BY <1>1, <1>2, Plan DEF Change, Moving, From, TargetOf, Ops, Transactions, Target, States
<1>4. PICK event : event = EventAfter(head, c, change)
  OBVIOUS
<1>5. /\ head.maxSeq = Len(events) /\ head.headHash = HashBefore(events, Len(events) + 1)
      /\ Len(events) \in Nat
  BY LenProperties DEF IInv, ChainVerifies, Verifies, Typed
<1>6. event \in Event
  BY <1>3, <1>4, <1>5 DEF EventAfter, Event, Hash, Hashes, IInv, Typed
<1>7. event.seq = Len(events) + 1 /\ event.prev = HashBefore(events, Len(events) + 1)
  BY <1>4, <1>5 DEF EventAfter
<1>8. PICK t : t = [phase |-> "chained", sub |-> call[c].sub, plan |-> call[c].plan,
                    seenEnd |-> call[c].seenEnd, version |-> call[c].version,
                    from |-> call[c].from, event |-> event]
  OBVIOUS
<1>9. call' = [call EXCEPT ![c] = t] /\ UNCHANGED rowVars
  BY <1>2, <1>4, <1>8 DEF ReadHead
<1>10. t \in Chained
  BY <1>1, <1>6, <1>8 DEF Moving, Chained
<1>11. EventHeld(t)
  BY <1>5, <1>7, <1>8 DEF EventHeld
<1>12. RowHeld(t)
  BY <1>1, <1>8 DEF IInv, Held, RowHeld, Locks
<1>13. \A d \in Clients \ {c} : Locks(call[d]) => call[d].sub # t.sub
  BY <1>1, <1>8 DEF IInv, OneLocks, Locks
<1>. QED  BY <1>9, <1>10, <1>11, <1>12, <1>13, RowsKept DEF CallSet

-----------------------------------------------------------------------------
(***************************************************************************)
(* The commit.                                                             *)
(***************************************************************************)

LEMMA CommitKeeps ==
    ASSUME IInv, NEW c \in Clients, Commit(c)
    PROVE  IInv'
<1>1. call[c] \in Chained
  <2>1. call[c] \in CallSet /\ call[c].phase = "chained"
    BY DEF IInv, Typed, Commit
  <2>. QED  BY <2>1 DEF CallSet, Asked, Moving, Chained, Idle
<1>2. CASE ~Appends(events, head, call[c].event)
  BY <1>2, EndsKeeps DEF Commit
<1>3. CASE Appends(events, head, call[c].event)
  <2>1. PICK t, op, s, event, row :
           /\ t = call[c]
           /\ op = Head(t.plan)
           /\ s = t.sub
           /\ event = t.event
           /\ row = NewRow(op, sub[s])
    OBVIOUS
  <2>2. /\ op \in Ops /\ s \in Subs /\ event \in Event
        /\ t.version \in Nat /\ t.from \in From /\ t.seenEnd \in TimeOrNull
    BY <1>1, <2>1, Plan DEF Chained
  <2>3. PICK next : next = IF Len(t.plan) = 1 THEN Idle
                           ELSE [phase |-> "asked", sub |-> s, plan |-> Tail(t.plan),
                                 seenEnd |-> t.seenEnd]
    OBVIOUS
  <2>4. /\ sub' = [sub EXCEPT ![s] = row]
        /\ version' = [version EXCEPT ![s] = t.version + 1]
        /\ cancelAt' = [cancelAt EXCEPT ![s] = NewCancelAt(op, cancelAt[s], t.seenEnd)]
        /\ history' = [history EXCEPT ![s] = Append(history[s], <<t.from, TargetOf(op)>>)]
        /\ events' = Append(events, event)
        /\ head' = HeadAt(event)
        /\ resolved' = [resolved EXCEPT ![s] = resolved[s] \/ op \in Resolving]
        /\ call' = [call EXCEPT ![c] = next]
    BY <1>3, <2>1, <2>3 DEF Commit, Ends
  <2>5. next \in CallSet /\ next.phase \in {"idle", "asked"}
    BY <1>1, <2>1, <2>2, <2>3, Plan DEF CallSet, Asked, Chained, Idle
  <2>6. row \in Row /\ row.state = TargetOf(op) /\ TargetOf(op) \in States
    BY <2>1, <2>2, Rows DEF IInv, Typed
  <2>7. NewCancelAt(op, cancelAt[s], t.seenEnd) \in TimeOrNull
    BY <2>2 DEF NewCancelAt, IInv, Typed, TimeOrNull
  <2>. PICK move : move = <<t.from, TargetOf(op)>>
    OBVIOUS
  <2>8. move \in From \X States /\ move[1] = t.from /\ move[2] = TargetOf(op)
    BY <2>2, <2>6
  <2>9. /\ Append(history[s], move) \in Seq(From \X States)
        /\ Len(Append(history[s], move)) = Len(history[s]) + 1
        /\ \A i \in 1 .. Len(history[s]) : Append(history[s], move)[i] = history[s][i]
        /\ Append(history[s], move)[Len(history[s]) + 1] = move
        /\ Len(history[s]) \in Nat
    BY <2>2, <2>8, AppendProperties, LenProperties DEF IInv, Typed
  <2>10. /\ events' \in Seq(Event)
         /\ Len(events') = Len(events) + 1
         /\ \A i \in 1 .. Len(events) : events'[i] = events[i]
         /\ events'[Len(events) + 1] = event
         /\ Len(events) \in Nat
         /\ DOMAIN events' = 1 .. Len(events')
         /\ DOMAIN events = 1 .. Len(events)
    BY <2>2, <2>4, AppendProperties, LenProperties DEF IInv, Typed
  <2>11. Typed'
    <3>1. head' \in [maxSeq : Nat, headHash : Hashes]
      BY <2>2, <2>4 DEF HeadAt, Event
    <3>2. version' \in [Subs -> Nat] /\ sub' \in [Subs -> Row] /\ call' \in [Clients -> CallSet]
      BY <2>2, <2>4, <2>5, <2>6 DEF IInv, Typed
    <3>3. cancelAt' \in [Subs -> TimeOrNull] /\ resolved' \in [Subs -> BOOLEAN]
      BY <2>2, <2>4, <2>7 DEF IInv, Typed
    <3>4. history' \in [Subs -> Seq(From \X States)]
      BY <2>4, <2>8, <2>9 DEF IInv, Typed
    <3>. QED  BY <2>10, <3>1, <3>2, <3>3, <3>4 DEF Typed
  \* The row is the one that was read.
  <2>12. version[s] = t.version /\ StateOf(s) = t.from
    BY <1>1, <2>1 DEF IInv, Held, RowHeld, Locks, Chained
  <2>13. \A other \in Subs \ {s} : /\ version'[other] = version[other]
                                   /\ sub'[other] = sub[other]
                                   /\ history'[other] = history[other]
                                   /\ resolved'[other] = resolved[other]
                                   /\ StateOf(other)' = StateOf(other)
    BY <2>4 DEF IInv, Typed, StateOf
  <2>14. version'[s] = t.version + 1 /\ sub'[s] = row /\ StateOf(s)' = TargetOf(op)
    BY <2>2, <2>4, <2>6 DEF IInv, Typed, StateOf
  <2>15. \A d \in Clients \ {c} : call'[d] = call[d]
    BY <2>4 DEF IInv, Typed
  <2>16. call'[c] = next
    BY <2>4 DEF IInv, Typed
  <2>17. OneLocks'
    BY <2>5, <2>15, <2>16 DEF IInv, OneLocks, Locks
  <2>18. Held'
    <3>1. ASSUME NEW d \in Clients \ {c} PROVE RowHeld(call[d])'
      <4>1. PICK u : u = call[d] /\ u = call'[d]
        BY <2>15
      <4>2. CASE u.phase \notin {"read", "moved", "chained"}
        BY <4>1, <4>2 DEF RowHeld, Locks
      <4>3. CASE u.phase \in {"read", "moved", "chained"}
        <5>1. u \in Moving \cup Chained
          <6>1. u \in CallSet
            BY <4>1 DEF IInv, Typed
          <6>. QED  BY <4>3, <6>1 DEF CallSet, Asked, Idle
        <5>2. u.sub \in Subs /\ u.version \in Nat /\ RowHeld(u)
          BY <4>1, <5>1 DEF IInv, Held, Moving, Chained
        <5>3. CASE u.sub # s
          BY <2>13, <4>1, <5>2, <5>3 DEF RowHeld, Locks
        <5>4. CASE u.sub = s
          <6>1. ~Locks(u)
            BY <1>1, <2>1, <4>1, <5>4 DEF IInv, OneLocks, Locks, Chained
          <6>2. u.version < version'[s]
            BY <2>2, <2>12, <2>14, <4>3, <5>2, <5>4, <6>1 DEF RowHeld, Locks
          <6>. QED  BY <2>2, <2>14, <4>1, <5>2, <5>4, <6>1, <6>2 DEF RowHeld, Locks
        <5>. QED  BY <5>3, <5>4
      <4>. QED  BY <4>2, <4>3
    <3>2. ASSUME NEW d \in Clients \ {c} PROVE EventHeld(call[d])'
      <4>1. PICK u : u = call[d] /\ u = call'[d]
        BY <2>15
      <4>2. CASE u.phase # "chained"
        BY <4>1, <4>2 DEF EventHeld
      <4>3. CASE u.phase = "chained"
        <5>1. u.event.seq \in 1 .. Len(events) + 1 /\
              u.event.prev = HashBefore(events, u.event.seq)
          BY <4>1, <4>3 DEF IInv, Held, EventHeld
        <5>2. HashBefore(events', u.event.seq) = HashBefore(events, u.event.seq)
          BY <2>10, <5>1 DEF HashBefore
        <5>. QED  BY <2>10, <4>1, <5>1, <5>2 DEF EventHeld
      <4>. QED  BY <4>2, <4>3
    <3>3. RowHeld(call[c])' /\ EventHeld(call[c])'
      BY <2>5, <2>16 DEF RowHeld, EventHeld, Locks
    <3>. QED  BY <3>1, <3>2, <3>3 DEF Held
  \* The history goes on where it ended.
  <2>19. HistoryLinks'
    <3>. DEFINE Path(s1, h, v, state) ==
                  LET entered == [i \in 0 .. Len(h) |-> IF i = 0 THEN "NONE" ELSE h[i][2]] IN
                  /\ v = Len(h)
                  /\ state = entered[Len(h)]
                  /\ \A i \in 1 .. Len(h) : h[i][1] = entered[i - 1]
    <3>1. \A s1 \in Subs : Path(s1, history[s1], version[s1], StateOf(s1))
      BY DEF IInv, HistoryLinks
    <3>2. ASSUME NEW s1 \in Subs \ {s}
          PROVE  Path(s1, history'[s1], version'[s1], StateOf(s1)')
      <4>1. PICK h, v, state : h = history[s1] /\ v = version[s1] /\ state = StateOf(s1)
        OBVIOUS
      <4>2. h = history'[s1] /\ v = version'[s1] /\ state = StateOf(s1)'
        BY <2>13, <4>1
      <4>3. Path(s1, h, v, state)
        BY <3>1, <4>1
      <4>. HIDE DEF Path
      <4>. QED  BY <4>2, <4>3
    <3>3. Path(s, history'[s], version'[s], StateOf(s)')
      <4>1. PICK h : h = history[s]
        OBVIOUS
      <4>2. PICK longer : longer = history'[s]
        OBVIOUS
      <4>3. /\ Len(longer) = Len(h) + 1 /\ Len(h) \in Nat
            /\ \A i \in 1 .. Len(h) : longer[i] = h[i]
            /\ longer[Len(h) + 1] = move
        BY <2>2, <2>4, <2>8, <2>9, <4>1, <4>2 DEF IInv, Typed
      <4>4. Path(s, h, t.version, t.from)
        BY <2>2, <2>12, <3>1, <4>1
      <4>5. version'[s] = Len(longer)
        BY <2>14, <4>3, <4>4
      <4>7. t.from = IF Len(h) = 0 THEN "NONE" ELSE h[Len(h)][2]
        BY <4>3, <4>4
      <4>8. ASSUME NEW i \in 1 .. Len(longer)
            PROVE  longer[i][1] = IF i - 1 = 0 THEN "NONE" ELSE longer[i - 1][2]
        <5>1. CASE i \in 1 .. Len(h)
          <6>. DEFINE entered == [j \in 0 .. Len(h) |-> IF j = 0 THEN "NONE" ELSE h[j][2]]
          <6>2. h[i][1] = entered[i - 1]
            BY <4>4, <5>1, Zenon
          <6>3. i - 1 \in 0 .. Len(h)
            BY <4>3, <5>1
          <6>1. h[i][1] = IF i - 1 = 0 THEN "NONE" ELSE h[i - 1][2]
            BY <6>2, <6>3
          <6>. QED  BY <4>3, <5>1, <6>1
        <5>2. CASE i = Len(h) + 1
          BY <2>8, <4>3, <4>7, <5>2
        <5>. QED  BY <4>3, <5>1, <5>2
      <4>9. StateOf(s)' = longer[Len(longer)][2] /\ Len(longer) # 0
        BY <2>8, <2>14, <4>3
      <4>. QED  BY <4>2, <4>3, <4>5, <4>8, <4>9
    <3>. QED  BY <3>2, <3>3 DEF HistoryLinks
  \* The trail goes on from its last event.
  <2>20. ChainVerifies'
    <3>1. head.maxSeq = Len(events) /\ \A i \in DOMAIN events :
             events[i].seq = i /\ events[i].prev = HashBefore(events, i)
      BY DEF IInv, ChainVerifies, Verifies
    <3>2. event.seq = Len(events) + 1
      BY <1>3, <2>1, <2>2, <2>10, <3>1 DEF Appends, Event
    <3>3. event.prev = HashBefore(events, Len(events) + 1)
      BY <1>1, <2>1, <3>2 DEF IInv, Held, EventHeld, Chained
    <3>4. \A i \in 1 .. Len(events) + 1 : HashBefore(events', i) = HashBefore(events, i)
      BY <2>10 DEF HashBefore
    <3>5. \A i \in DOMAIN events' :
             events'[i].seq = i /\ events'[i].prev = HashBefore(events', i)
      BY <2>10, <3>1, <3>2, <3>3, <3>4
    <3>6. head'.maxSeq = Len(events') /\ head'.headHash = HashBefore(events', Len(events') + 1)
      BY <2>4, <2>10, <3>2 DEF HeadAt, HashBefore
    <3>. QED  BY <3>5, <3>6 DEF ChainVerifies, Verifies
  <2>21. EntitledOnEntry'
    <3>1. TargetOf(op) \in {"TRIALING", "ACTIVE"} => op \in Resolving
      BY <2>2 DEF TargetOf, Ops, Transactions, Target, Resolving
    <3>2. StateOf(s)' \in {"TRIALING", "ACTIVE"} => resolved'[s]
      BY <2>2, <2>4, <2>14, <3>1 DEF IInv, Typed
    <3>. QED  BY <2>13, <3>2 DEF IInv, EntitledOnEntry
  <2>. QED  BY <2>11, <2>17, <2>18, <2>19, <2>20, <2>21 DEF IInv
<1>. QED  BY <1>2, <1>3

-----------------------------------------------------------------------------
LEMMA Inductive == Spec => []IInv
<1>1. IInv /\ [Next]_vars => IInv'
  <2>. SUFFICES ASSUME IInv, [Next]_vars PROVE IInv'
    OBVIOUS
  <2>1. ASSUME NEW c \in Clients, Abort(c) PROVE IInv'
    BY <2>1, EndsKeeps DEF Abort
  <2>2. CASE UNCHANGED vars
    <3>1. Typed' /\ ChainVerifies'
      BY <2>2 DEF vars, IInv, Typed, ChainVerifies
    <3>2. \A s : StateOf(s)' = StateOf(s)
      BY <2>2 DEF vars, StateOf
    <3>3. Held' /\ OneLocks'
      BY <2>2, <3>2 DEF vars, IInv, Held, RowHeld, EventHeld, OneLocks, Locks
    <3>4. HistoryLinks' /\ EntitledOnEntry'
      BY <2>2, <3>2 DEF vars, IInv, HistoryLinks, EntitledOnEntry
    <3>. QED  BY <3>1, <3>3, <3>4 DEF IInv
  <2>. QED
    BY <2>1, <2>2, AskKeeps, ReadKeeps, CompareAndSetKeeps, ReadHeadKeeps, CommitKeeps DEF Next
<1>. QED  BY <1>1, Starting, PTL DEF Spec

\* Every row, history, event and call of the subscription service is of its type.
THEOREM SubscriptionsTyped == Spec => []TypeOK
<1>1. IInv => TypeOK
  BY TypedIsTypeOK DEF IInv
<1>. QED  BY <1>1, Inductive, PTL

\* record and verify_chain: the trail is one that is accepted at every moment.
THEOREM TrailsVerify == Spec => []ChainVerifies
<1>1. IInv => ChainVerifies
  BY DEF IInv
<1>. QED  BY <1>1, Inductive, PTL

\* A trialing or active subscription has its entitlements from the commit on.
THEOREM AlwaysEntitled == Spec => []EntitledOnEntry
<1>1. IInv => EntitledOnEntry
  BY DEF IInv
<1>. QED  BY <1>1, Inductive, PTL

-----------------------------------------------------------------------------
(***************************************************************************)
(* The service implements the ledger. A transition that commits was legal  *)
(* from the state its call read, which is still the state of the row       *)
(* (RowHeld); the subscription of a creation is the call's own until then  *)
(* (OwnSub), so that a call asks for anything else only of one that exists *)
(* (Existing).                                                             *)
(***************************************************************************)

Creates(t) == Head(t.plan) = "create"

Planned(t) ==
    t.phase # "idle" =>
      \/ \E op \in Ops : t.plan = <<op>>
      \/ \E op \in {"activate", "start_trial"} : t.plan = <<"provision", op>>

Existing(t) == t.phase # "idle" => (Creates(t) <=> version[t.sub] = 0)

LegalMove(t) ==
    t.phase \in {"read", "moved", "chained"} =>
      IF Creates(t) THEN t.from = "NONE"
      ELSE t.from \in States /\ TargetOf(Head(t.plan)) \in TRANSITIONS[t.from]

EventSays(t) ==
    t.phase = "chained" =>
      t.event.what = [sub |-> t.sub, from |-> t.from, to |-> TargetOf(Head(t.plan))]

Ready(t) == Planned(t) /\ Existing(t) /\ LegalMove(t) /\ EventSays(t)

OwnSub ==
    \A c, d \in Clients :
       c # d /\ InCall(c) /\ InCall(d) /\ Creates(call[c]) => call[d].sub # call[c].sub

ReadyInv == OwnSub /\ \A c \in Clients : Ready(call[c])

\* A step of one session that changes no row.
LEMMA ReadyRest ==
    ASSUME IInv, ReadyInv, NEW c \in Clients, NEW t,
           call' = [call EXCEPT ![c] = t], version' = version,
           Ready(t),
           \/ t.phase = "idle"
           \/ t.sub = call[c].sub /\ t.plan = call[c].plan /\ InCall(c)
    PROVE  ReadyInv'
<1>1. call'[c] = t /\ \A d \in Clients \ {c} : call'[d] = call[d]
  BY DEF IInv, Typed
<1>2. OwnSub'
  BY <1>1 DEF ReadyInv, OwnSub, InCall, Creates
<1>3. \A d \in Clients : Ready(call[d])'
  BY <1>1 DEF ReadyInv, Ready, Planned, Existing, LegalMove, EventSays, Creates
<1>. QED  BY <1>2, <1>3 DEF ReadyInv

LEMMA ReadyStarting == Init => ReadyInv
  BY DEF Init, ReadyInv, OwnSub, Ready, Planned, Existing, LegalMove, EventSays, InCall, Idle

LEMMA ReadyEnds ==
    ASSUME IInv, ReadyInv, NEW c \in Clients, Ends(c), UNCHANGED rowVars
    PROVE  ReadyInv'
<1>1. Ready(Idle) /\ Idle.phase = "idle"
  BY DEF Ready, Planned, Existing, LegalMove, EventSays, Idle
<1>. QED  BY <1>1, ReadyRest DEF Ends, rowVars

LEMMA ReadyAsk ==
    ASSUME IInv, ReadyInv, NEW c \in Clients, NEW op \in Calls, NEW s \in Subs, Ask(c, op, s)
    PROVE  ReadyInv'
<1>. DEFINE draft == op \in {"activate", "start_trial"} /\ sub[s].state = "DRAFT"
<1>1. PICK plan, seenEnd :
         /\ plan = IF draft THEN <<"provision", op>> ELSE <<op>>
         /\ seenEnd = IF op = "cancel" THEN sub[s].termEnd ELSE NULL
  OBVIOUS
<1>2. PICK t : t = [phase |-> "asked", sub |-> s, plan |-> plan, seenEnd |-> seenEnd]
  OBVIOUS
<1>3. call' = [call EXCEPT ![c] = t] /\ version' = version
  BY <1>1, <1>2 DEF Ask, rowVars
<1>4. call'[c] = t /\ (\A d \in Clients \ {c} : call'[d] = call[d]) /\ version[s] \in Nat
  BY <1>3 DEF IInv, Typed
<1>5. t.phase = "asked" /\ t.sub = s /\ t.plan = plan
  BY <1>2
<1>6. op \in Ops
  BY SubscriptionsAssumption DEF Ops
<1>7. (Head(plan) = "create") <=> op = "create"
  BY <1>1
<1>8. IF op = "create"
      THEN version[s] = 0 /\ \A d \in Clients : InCall(d) => call[d].sub # s
      ELSE version[s] > 0
  BY DEF Ask
<1>9. Ready(call[c])'
  <2>1. Planned(t)
    BY <1>1, <1>5, <1>6 DEF Planned
  <2>2. Creates(t) <=> version[t.sub] = 0
    BY <1>4, <1>5, <1>7, <1>8 DEF Creates
  <2>. QED
    BY <1>3, <1>4, <1>5, <2>1, <2>2
       DEF Ready, Planned, Existing, LegalMove, EventSays, Creates
<1>10. \A d \in Clients \ {c} : Ready(call[d])'
  BY <1>3, <1>4 DEF ReadyInv, Ready, Planned, Existing, LegalMove, EventSays, Creates
<1>11. OwnSub'
  <2>1. ASSUME NEW a \in Clients, NEW b \in Clients, a # b, InCall(a)', InCall(b)', Creates(call[a])'
        PROVE  call'[b].sub # call'[a].sub
    <3>1. CASE a # c /\ b # c
      BY <1>4, <2>1, <3>1 DEF ReadyInv, OwnSub, InCall, Creates
    <3>2. CASE a = c
      BY <1>4, <1>5, <1>7, <1>8, <2>1, <3>2 DEF InCall, Creates
    \* What is being created has no row yet.
    <3>3. CASE b = c
      <4>1. InCall(a) /\ Creates(call[a]) /\ version[call[a].sub] = 0
        BY <1>4, <2>1, <3>3 DEF ReadyInv, Ready, Existing, InCall, Creates
      <4>. QED  BY <1>4, <1>5, <1>8, <2>1, <3>3, <4>1
    <3>. QED  BY <3>1, <3>2, <3>3
  <2>. QED  BY <2>1 DEF OwnSub
<1>. QED  BY <1>9, <1>10, <1>11 DEF ReadyInv

LEMMA ReadyRead ==
    ASSUME IInv, ReadyInv, NEW c \in Clients, Read(c)
    PROVE  ReadyInv'
<1>1. CASE ~MayMove(Head(call[c].plan), call[c].sub)
  BY <1>1, ReadyEnds DEF Read
<1>2. CASE MayMove(Head(call[c].plan), call[c].sub)
  <2>1. PICK t : t = [phase |-> "read", sub |-> call[c].sub, plan |-> call[c].plan,
                      seenEnd |-> call[c].seenEnd,
                      version |-> version[call[c].sub], from |-> StateOf(call[c].sub)]
    OBVIOUS
  <2>2. call' = [call EXCEPT ![c] = t] /\ version' = version /\ InCall(c)
    BY <1>2, <2>1 DEF Read, rowVars, InCall
  <2>3. call[c] \in Asked /\ Ready(call[c]) /\ call[c].phase = "asked"
    <3>1. call[c] \in CallSet /\ call[c].phase = "asked"
      BY DEF IInv, Typed, Read
    <3>. QED  BY <3>1 DEF CallSet, Asked, Moving, Chained, Idle, ReadyInv
  <2>4. Planned(t) /\ Existing(t) /\ EventSays(t)
    BY <2>1, <2>3 DEF Ready, Planned, Existing, EventSays, Creates
  <2>5. LegalMove(t)
    <3>1. t.from = (IF version[t.sub] = 0 THEN "NONE" ELSE sub[t.sub].state) /\ t.sub \in Subs
      BY <2>1, <2>3 DEF StateOf, Asked
    <3>2. Creates(t) <=> version[t.sub] = 0
      BY <2>1, <2>4 DEF Existing
    <3>3. sub[t.sub].state \in States
      BY <3>1 DEF IInv, Typed, Row
    <3>4. ~Creates(t) => Target[Head(t.plan)] \in TRANSITIONS[sub[t.sub].state]
      BY <1>2, <2>1 DEF MayMove, Legal, Creates
    <3>. QED  BY <3>1, <3>2, <3>3, <3>4 DEF LegalMove, TargetOf, Creates
  <2>. QED  BY <2>1, <2>2, <2>4, <2>5, ReadyRest DEF Ready
<1>. QED  BY <1>1, <1>2

LEMMA ReadyLock ==
    ASSUME IInv, ReadyInv, NEW c \in Clients, CompareAndSet(c)
    PROVE  ReadyInv'
<1>1. call[c] \in Moving /\ call[c].phase = "read" /\ InCall(c) /\ Ready(call[c])
  BY DEF IInv, Typed, CallSet, Asked, Moving, Chained, Idle, CompareAndSet, InCall, ReadyInv
<1>2. CASE version[call[c].sub] # call[c].version
  BY <1>2, ReadyEnds DEF CompareAndSet
<1>3. CASE version[call[c].sub] = call[c].version
  <2>1. PICK t : t = [call[c] EXCEPT !.phase = "moved"]
    OBVIOUS
  <2>2. call' = [call EXCEPT ![c] = t] /\ version' = version
    BY <1>3, <2>1 DEF CompareAndSet, rowVars
  <2>3. /\ t.phase = "moved" /\ t.sub = call[c].sub
        /\ t.plan = call[c].plan /\ t.from = call[c].from
    BY <1>1, <2>1 DEF Moving
  <2>4. Ready(t)
    BY <1>1, <2>3 DEF Ready, Planned, Existing, LegalMove, EventSays, Creates
  <2>. QED  BY <1>1, <2>2, <2>3, <2>4, ReadyRest
<1>. QED  BY <1>2, <1>3

LEMMA ReadyHead ==
    ASSUME IInv, ReadyInv, NEW c \in Clients, ReadHead(c)
    PROVE  ReadyInv'
<1>1. call[c] \in Moving /\ call[c].phase = "moved" /\ InCall(c) /\ Ready(call[c])
  BY DEF IInv, Typed, CallSet, Asked, Moving, Chained, Idle, ReadHead, InCall, ReadyInv
<1>2. PICK change : change = [sub |-> call[c].sub, from |-> call[c].from,
                              to |-> TargetOf(Head(call[c].plan))]
  OBVIOUS
<1>3. PICK event : event = EventAfter(head, c, change)
  OBVIOUS
<1>4. PICK t : t = [phase |-> "chained", sub |-> call[c].sub, plan |-> call[c].plan,
                    seenEnd |-> call[c].seenEnd, version |-> call[c].version,
                    from |-> call[c].from, event |-> event]
  OBVIOUS
<1>5. call' = [call EXCEPT ![c] = t] /\ version' = version
  BY <1>2, <1>3, <1>4 DEF ReadHead, rowVars
<1>6. event.what = change
  BY <1>3 DEF EventAfter
<1>7. Ready(t)
  BY <1>1, <1>2, <1>4, <1>6 DEF Ready, Planned, Existing, LegalMove, EventSays, Creates
<1>. QED  BY <1>1, <1>4, <1>5, <1>7, ReadyRest

LEMMA ReadyCommit ==
    ASSUME IInv, ReadyInv, NEW c \in Clients, Commit(c)
    PROVE  ReadyInv'
<1>1. call[c] \in Chained /\ Ready(call[c]) /\ InCall(c)
  <2>1. call[c] \in CallSet /\ call[c].phase = "chained"
    BY DEF IInv, Typed, Commit
  <2>. QED  BY <2>1 DEF CallSet, Asked, Moving, Chained, Idle, ReadyInv, InCall
<1>2. CASE ~Appends(events, head, call[c].event)
  BY <1>2, ReadyEnds DEF Commit
<1>3. CASE Appends(events, head, call[c].event)
  <2>1. PICK t, s : t = call[c] /\ s = t.sub
    OBVIOUS
  <2>2. PICK next : next = IF Len(t.plan) = 1 THEN Idle
                           ELSE [phase |-> "asked", sub |-> s, plan |-> Tail(t.plan),
                                 seenEnd |-> t.seenEnd]
    OBVIOUS
  <2>3. /\ version' = [version EXCEPT ![s] = t.version + 1]
        /\ call' = [call EXCEPT ![c] = next]
    BY <1>3, <2>1, <2>2 DEF Commit, Ends
  <2>4. s \in Subs /\ t.version \in Nat /\ t.phase = "chained"
    BY <1>1, <2>1 DEF Chained
  <2>5. /\ version'[s] # 0 /\ \A r \in Subs \ {s} : version'[r] = version[r]
        /\ call'[c] = next /\ \A d \in Clients \ {c} : call'[d] = call[d]
    BY <2>3, <2>4 DEF IInv, Typed
  <2>6. \/ next.phase = "idle"
        \/ /\ next.phase = "asked" /\ next.sub = s
           /\ next.plan \in {<<"activate">>, <<"start_trial">>}
    <3>1. CASE Len(t.plan) = 1
      BY <2>2, <3>1 DEF Idle
    <3>2. CASE Len(t.plan) # 1
      <4>1. PICK op \in {"activate", "start_trial"} : t.plan = <<"provision", op>>
        BY <1>1, <2>1, <2>4, <3>2 DEF Ready, Planned
      <4>2. Tail(t.plan) = <<op>>
        BY <4>1
      <4>. QED  BY <2>2, <3>2, <4>1, <4>2
    <3>. QED  BY <3>1, <3>2
  <2>7. Ready(call[c])'
    <3>1. CASE next.phase = "idle"
      BY <2>5, <3>1 DEF Ready, Planned, Existing, LegalMove, EventSays
    <3>2. CASE next.phase = "asked" /\ next.sub = s /\ next.plan \in {<<"activate">>, <<"start_trial">>}
      <4>1. Head(next.plan) # "create" /\ \E op \in Ops : next.plan = <<op>>
        BY <3>2 DEF Ops, Transactions, Target
      <4>. QED
        BY <2>5, <3>2, <4>1 DEF Ready, Planned, Existing, LegalMove, EventSays, Creates
    <3>. QED  BY <2>6, <3>1, <3>2
  \* The others do not create what is there now.
  <2>8. ASSUME NEW d \in Clients \ {c}, InCall(d)
        PROVE  Creates(call[d]) <=> version'[call[d].sub] = 0
    <3>1. Creates(call[d]) <=> version[call[d].sub] = 0
      BY <2>8 DEF ReadyInv, Ready, Existing, InCall
    <3>2. call[d].sub \in Subs
      BY <2>8 DEF IInv, Typed, CallSet, Asked, Moving, Chained, InCall, Idle
    <3>3. CASE call[d].sub # s
      BY <2>5, <3>1, <3>2, <3>3
    <3>4. CASE call[d].sub = s
      BY <1>1, <2>1, <2>5, <2>8, <3>4 DEF ReadyInv, OwnSub
    <3>. QED  BY <3>3, <3>4
  <2>9. \A d \in Clients \ {c} : Ready(call[d])'
    BY <2>5, <2>8 DEF ReadyInv, Ready, Planned, Existing, LegalMove, EventSays, Creates, InCall
  <2>10. OwnSub'
    <3>1. ASSUME NEW a \in Clients, NEW b \in Clients, a # b, InCall(a)', InCall(b)', Creates(call[a])'
          PROVE  call'[b].sub # call'[a].sub
      <4>1. CASE a # c /\ b # c
        BY <2>5, <3>1, <4>1 DEF ReadyInv, OwnSub, InCall, Creates
      <4>2. CASE a = c
        BY <2>5, <2>6, <3>1, <4>2 DEF InCall, Creates
      <4>3. CASE b = c
        BY <1>1, <2>1, <2>5, <2>6, <3>1, <4>3 DEF ReadyInv, OwnSub, InCall, Creates
      <4>. QED  BY <4>1, <4>2, <4>3
    <3>. QED  BY <3>1 DEF OwnSub
  <2>. QED  BY <2>7, <2>9, <2>10 DEF ReadyInv
<1>. QED  BY <1>2, <1>3

LEMMA ReadyKeeps ==
    ASSUME IInv, ReadyInv, [Next]_vars
    PROVE  ReadyInv'
<1>1. ASSUME NEW c \in Clients, Abort(c) PROVE ReadyInv'
  BY <1>1, ReadyEnds DEF Abort
<1>2. CASE UNCHANGED vars
  BY <1>2 DEF vars, ReadyInv, OwnSub, Ready, Planned, Existing, LegalMove, EventSays, Creates, InCall
<1>. QED
  BY <1>1, <1>2, ReadyAsk, ReadyRead, ReadyLock, ReadyHead, ReadyCommit DEF Next

\* The commit is the transition.
LEMMA CommitEnters ==
    ASSUME IInv, ReadyInv, NEW c \in Clients, Commit(c), ~UNCHANGED rowVars
    PROVE  Ledger!LNext
<1>1. call[c] \in Chained /\ Ready(call[c])
  <2>1. call[c] \in CallSet /\ call[c].phase = "chained"
    BY DEF IInv, Typed, Commit
  <2>. QED  BY <2>1 DEF CallSet, Asked, Moving, Chained, Idle, ReadyInv
<1>2. Appends(events, head, call[c].event)
  BY DEF Commit
<1>3. PICK t, op, s, event, to :
         t = call[c] /\ op = Head(t.plan) /\ s = t.sub /\ event = t.event /\ to = TargetOf(op)
  OBVIOUS
<1>4. /\ sub' = [sub EXCEPT ![s] = NewRow(op, sub[s])]
      /\ version' = [version EXCEPT ![s] = t.version + 1]
      /\ history' = [history EXCEPT ![s] = Append(history[s], <<t.from, to>>)]
      /\ events' = Append(events, event)
  BY <1>2, <1>3 DEF Commit
<1>5. s \in Subs /\ op \in Ops /\ t.version \in Nat /\ event \in Event
  BY <1>1, <1>3, Plan DEF Chained
<1>6. StateOf(s) = t.from
  BY <1>1, <1>3 DEF IInv, Held, RowHeld, Locks, Chained
<1>7. StateOf(s)' = to /\ \A r \in Subs \ {s} : StateOf(r)' = StateOf(r)
  BY <1>3, <1>4, <1>5, Rows DEF IInv, Typed, StateOf
<1>8. [r \in Subs |-> StateOf(r)]' = [[r \in Subs |-> StateOf(r)] EXCEPT ![s] = to]
  BY <1>5, <1>7
<1>9. Audited' = Append(Audited, [sub |-> s, from |-> t.from, to |-> to])
  <2>1. event.what = [sub |-> s, from |-> t.from, to |-> to]
    BY <1>1, <1>3 DEF Ready, EventSays, Chained
  <2>2. /\ Len(events') = Len(events) + 1 /\ Len(events) \in Nat
        /\ events' \in Seq(Event)
        /\ \A i \in 1 .. Len(events) : events'[i] = events[i]
        /\ events'[Len(events) + 1] = event
        /\ DOMAIN events = 1 .. Len(events) /\ DOMAIN events' = 1 .. Len(events')
    BY <1>4, <1>5, AppendProperties, LenProperties DEF IInv, Typed
  <2>. PICK n : n = Len(events)
    OBVIOUS
  <2>3. Audited = [i \in 1 .. n |-> events[i].what] /\ n \in Nat
    BY <2>2 DEF Audited
  <2>4. Audited' = [i \in 1 .. n + 1 |-> IF i = n + 1 THEN event.what ELSE Audited[i]]
    BY <2>2, <2>3 DEF Audited
  <2>5. Append(Audited, event.what) = [i \in 1 .. n + 1 |-> IF i = n + 1 THEN event.what ELSE Audited[i]]
    BY <2>3
  <2>. QED  BY <2>1, <2>4, <2>5
<1>10. Ledger!Enters(s, t.from, to)
  BY <1>3, <1>4, <1>5, <1>6, <1>8, <1>9 DEF Ledger!Enters
<1>11. CASE op = "create"
  <2>1. t.from = "NONE" /\ to = "DRAFT"
    BY <1>1, <1>3, <1>11 DEF Ready, LegalMove, Creates, TargetOf, Chained
  <2>. QED  BY <1>5, <1>10, <2>1 DEF Ledger!LNext, Ledger!Created
<1>12. CASE op # "create"
  <2>1. t.from \in States /\ to \in TRANSITIONS[t.from]
    BY <1>1, <1>3, <1>12 DEF Ready, LegalMove, Creates, Chained
  <2>2. Ledger!Transition(s)
    <3>1. [r \in Subs |-> StateOf(r)][s] = t.from
      BY <1>5, <1>6
    <3>2. States = Ledger!States /\ TRANSITIONS = Ledger!TRANSITIONS
      BY DEF States, Ledger!States, TRANSITIONS, Ledger!TRANSITIONS
    <3>. QED  BY <1>10, <2>1, <3>1, <3>2 DEF Ledger!Transition
  <2>. QED  BY <1>5, <2>2 DEF Ledger!LNext
<1>. QED  BY <1>11, <1>12

LEMMA OnlyCommitsWrite ==
    ASSUME [Next]_vars
    PROVE  UNCHANGED rowVars \/ \E c \in Clients : Commit(c)
<1>1. ASSUME NEW c \in Clients, NEW op, NEW s, Ask(c, op, s) PROVE UNCHANGED rowVars
  BY <1>1 DEF Ask
<1>2. ASSUME NEW c \in Clients, Read(c) PROVE UNCHANGED rowVars
  BY <1>2 DEF Read
<1>3. ASSUME NEW c \in Clients, CompareAndSet(c) PROVE UNCHANGED rowVars
  BY <1>3 DEF CompareAndSet
<1>4. ASSUME NEW c \in Clients, ReadHead(c) PROVE UNCHANGED rowVars
  BY <1>4 DEF ReadHead
<1>5. ASSUME NEW c \in Clients, Abort(c) PROVE UNCHANGED rowVars
  BY <1>5 DEF Abort
<1>6. CASE UNCHANGED vars
  BY <1>6 DEF vars, rowVars
<1>. QED  BY <1>1, <1>2, <1>3, <1>4, <1>5, <1>6 DEF Next

\* Every step of the service is a step of the ledger, or none.
LEMMA LedgerSteps ==
    ASSUME IInv, ReadyInv, [Next]_vars
    PROVE  [Ledger!LNext]_(Ledger!ledgerVars)
<1>1. CASE UNCHANGED rowVars
  <2>1. \A s \in Subs : StateOf(s)' = StateOf(s)
    BY <1>1 DEF rowVars, StateOf
  <2>2. Audited' = Audited /\ history' = history
    BY <1>1 DEF rowVars, Audited
  <2>. QED  BY <2>1, <2>2 DEF Ledger!ledgerVars
<1>. QED  BY <1>1, OnlyCommitsWrite, CommitEnters

\* _transition, audit.record: however the sessions interleave and wherever one
\* fails, the subscriptions of a tenant move as if each transition, its row in
\* the history and its event in the tenant's one audit trail were a single
\* legal step - on SQLite and on PostgreSQL.
THEOREM ServiceImplementsLedger == Spec => ImplementsLedger
<1>1. Init => Ledger!LInit
  <2>. SUFFICES ASSUME Init PROVE Ledger!LInit
    OBVIOUS
  <2>1. Audited = <<>>
    BY DEF Init, Audited
  <2>2. \A s \in Subs : StateOf(s) = "NONE"
    BY DEF Init, StateOf
  <2>. QED  BY <2>1, <2>2 DEF Init, Ledger!LInit
<1>2. IInv /\ ReadyInv /\ [Next]_vars => [Ledger!LNext]_(Ledger!ledgerVars)
  BY LedgerSteps
<1>3. IInv /\ ReadyInv /\ [Next]_vars => ReadyInv'
  BY ReadyKeeps
<1>. QED
  BY <1>1, <1>2, <1>3, Inductive, ReadyStarting, PTL DEF Spec, ImplementsLedger, Ledger!LSpec

\* A step of the ledger adds a legal move to one history, and the rest stays.
LEMMA LegalStays ==
    ASSUME IInv, [Ledger!LNext]_(Ledger!ledgerVars), HistoryLegal
    PROVE  HistoryLegal'
<1>1. CASE UNCHANGED Ledger!ledgerVars
  BY <1>1 DEF Ledger!ledgerVars, HistoryLegal
<1>2. CASE Ledger!LNext
  <2>1. PICK s \in Subs :
           \E move \in Moves : history' = [history EXCEPT ![s] = Append(history[s], move)]
    <3>1. PICK s \in Subs : Ledger!Created(s) \/ Ledger!Transition(s)
      BY <1>2 DEF Ledger!LNext
    <3>2. CASE Ledger!Created(s)
      <4>1. <<"NONE", "DRAFT">> \in Moves
        BY DEF Moves
      <4>. QED  BY <3>2, <4>1 DEF Ledger!Created, Ledger!Enters
    <3>3. CASE Ledger!Transition(s)
      <4>1. PICK from \in States : \E to \in TRANSITIONS[from] : Ledger!Enters(s, from, to)
        BY <3>3 DEF Ledger!Transition, States, Ledger!States, TRANSITIONS, Ledger!TRANSITIONS
      <4>2. PICK to \in TRANSITIONS[from] : Ledger!Enters(s, from, to)
        BY <4>1
      <4>3. to \in States
        BY <4>1, <4>2 DEF States, TRANSITIONS
      <4>4. <<from, to>> \in Moves
        BY <4>1, <4>2, <4>3 DEF Moves
      <4>. QED  BY <4>2, <4>4 DEF Ledger!Enters
    <3>. QED  BY <3>1, <3>2, <3>3
  <2>2. PICK move \in Moves : history' = [history EXCEPT ![s] = Append(history[s], move)]
    BY <2>1
  <2>3. history \in [Subs -> Seq((States \cup {"NONE"}) \X States)]
    BY DEF IInv, Typed, From
  <2>4. ASSUME NEW r \in Subs, NEW i \in 1 .. Len(history'[r])
        PROVE  history'[r][i] \in Moves
    <3>1. CASE r # s
      BY <2>2, <2>3, <2>4, <3>1 DEF HistoryLegal
    <3>2. CASE r = s
      <4>1. history'[r] = Append(history[r], move) /\ Len(history[r]) \in Nat
        BY <2>2, <2>3, <3>2
      <4>2. CASE i = Len(history[r]) + 1
        BY <2>2, <2>3, <3>2, <4>1, <4>2
      <4>3. CASE i \in 1 .. Len(history[r])
        BY <2>3, <3>2, <4>1, <4>3 DEF HistoryLegal
      <4>4. Len(history'[r]) = Len(history[r]) + 1
        BY <2>3, <4>1
      <4>. QED  BY <2>4, <4>1, <4>2, <4>3, <4>4
    <3>. QED  BY <3>1, <3>2
  <2>. QED  BY <2>4 DEF HistoryLegal
<1>. QED  BY <1>1, <1>2

\* _transition's check and compare-and-set: the history of a subscription is a
\* path of legal transitions from its creation to its state, and its version
\* counts them, whoever else moves it.
THEOREM HistoriesArePaths == Spec => []HistoryIsPath
<1>1. Init => HistoryLegal
  BY DEF Init, HistoryLegal
<1>2. IInv /\ ReadyInv /\ [Next]_vars /\ HistoryLegal => HistoryLegal'
  BY LedgerSteps, LegalStays
<1>3. IInv /\ ReadyInv /\ [Next]_vars => ReadyInv'
  BY ReadyKeeps
<1>4. IInv /\ HistoryLegal => HistoryIsPath
  BY DEF IInv, HistoryIsPath
<1>. QED  BY <1>1, <1>2, <1>3, <1>4, Inductive, ReadyStarting, PTL DEF Spec
=============================================================================
