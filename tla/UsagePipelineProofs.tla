-------------------------- MODULE UsagePipelineProofs --------------------------
(***************************************************************************)
(* Usage is metered at least once and at most once, for any number of      *)
(* events, reporters, crashes and late calls, and any size of the spool    *)
(* and its batches.                                                        *)
(*                                                                         *)
(* NoDuplication needs only the type of rows. NoLoss is not inductive: an  *)
(* ack takes events out of the spool, so it must be known that what a      *)
(* reporter is about to ack has been recorded. That survives what the      *)
(* other reporters do, because a row of usage_events is never removed.     *)
(***************************************************************************)
EXTENDS UsagePipeline, TLAPS

Typed ==
    /\ place \in [Keys -> Nat]
    /\ spooled \in Nat
    /\ flush \in [Reporters -> Flushes]
    /\ rows \in [Keys -> Nat]
    /\ late \subseteq Batches

AnsweredIsRecorded ==
    \A r \in Reporters :
        flush[r].phase = "answered" => flush[r].batch \subseteq Recorded

MeteringInv ==
    /\ Typed
    /\ NoLoss
    /\ NoDuplication
    /\ AnsweredIsRecorded

\* What the phase of a reporter says of the other fields.
LEMMA FlushShape ==
    ASSUME NEW f \in Flushes
    PROVE  /\ f.phase \in {"idle", "draining", "sending", "answered", "failed"}
           /\ f.phase # "idle" => f.attempt \in Attempts
           /\ f.phase \in {"sending", "answered"} => f.batch \in Batches
  BY DEF Flushes, Idle, Draining, Sending, Answered, Failed

\* Each operation of a reporter leaves it in one of the states of Flushes.
LEMMA FlushForms ==
    ASSUME NEW n \in Attempts, NEW b \in Batches
    PROVE  /\ Idle \in Flushes
           /\ Draining(n) \in Flushes /\ Draining(n).phase = "draining"
           /\ Failed(n) \in Flushes /\ Failed(n).phase = "failed"
           /\ Sending(n, b) \in Flushes /\ Sending(n, b).phase = "sending"
           /\ Answered(n, b) \in Flushes /\ Answered(n, b).phase = "answered"
           /\ Answered(n, b).batch = b
           /\ Idle.phase = "idle"
  BY DEF Flushes, Idle, Draining, Sending, Answered, Failed

\* A batch is a set of keys.
LEMMA OldestIsBatch == Oldest \in Batches
  BY DEF Oldest, Pending, Batches

\* Ingestion records the whole batch, keeps what is recorded, and leaves no
\* event with two rows.
LEMMA IngestedRecords ==
    ASSUME rows \in [Keys -> Nat], NoDuplication, NEW b \in Batches,
           rows' = Ingested(b)
    PROVE  /\ rows' \in [Keys -> Nat]
           /\ NoDuplication'
           /\ Recorded \subseteq Recorded'
           /\ b \subseteq Recorded'
  BY DEF Ingested, NoDuplication, Recorded, Batches

\* A step of a reporter that leaves the spool alone and forgets no row
\* preserves the invariant, if what it waits to ack is recorded.
LEMMA ReporterStep ==
    ASSUME MeteringInv, NEW r \in Reporters, NEW f \in Flushes, Becomes(r, f),
           UNCHANGED queueVars,
           rows' \in [Keys -> Nat], NoDuplication', Recorded \subseteq Recorded',
           late' \subseteq Batches,
           f.phase = "answered" => f.batch \subseteq Recorded'
    PROVE  MeteringInv'
<1>1. Typed'
  BY DEF MeteringInv, Typed, Becomes, queueVars
<1>2. NoLoss'
  BY DEF MeteringInv, NoLoss, queueVars, Pending
<1>3. AnsweredIsRecorded'
  BY DEF MeteringInv, Typed, AnsweredIsRecorded, Becomes
<1>. QED  BY <1>1, <1>2, <1>3 DEF MeteringInv

LEMMA InitMetering == Init => MeteringInv
  BY DEF Init, SpoolInit, MeteringInv, Typed, NoLoss, NoDuplication,
         AnsweredIsRecorded, Flushes, Idle

LEMMA NextMetering == MeteringInv /\ [Next]_vars => MeteringInv'
<1>. SUFFICES ASSUME MeteringInv, [Next]_vars
              PROVE  MeteringInv'
  OBVIOUS
<1>. USE DEF MeteringInv
<1>0. ASSUME UNCHANGED <<rows, late, crashes>>
      PROVE  rows' \in [Keys -> Nat] /\ NoDuplication' /\ Recorded' = Recorded
             /\ late' \subseteq Batches
  BY <1>0 DEF Typed, NoDuplication, Recorded
<1>1. CASE UNCHANGED vars
  BY <1>1 DEF vars, Typed, NoLoss, NoDuplication, AnsweredIsRecorded, Pending,
              Recorded
<1>2. ASSUME NEW k \in Keys, Add(k), UNCHANGED <<rows, late, crashes>>
      PROVE  MeteringInv'
  <2>1. Typed'
    BY <1>2 DEF Add, Typed
  <2>2. Pending \cup {k} \subseteq Pending'
    BY <1>2 DEF Add, Typed, Pending
  <2>3. NoLoss'
    BY <1>0, <1>2, <2>2 DEF Add, NoLoss
  <2>4. AnsweredIsRecorded'
    BY <1>0, <1>2 DEF Add, AnsweredIsRecorded
  <2>. QED  BY <1>0, <1>2, <2>1, <2>3, <2>4
<1>3. ASSUME NEW k \in Keys, Drop(k), UNCHANGED <<rows, late, crashes>>
      PROVE  MeteringInv'
  BY <1>0, <1>3 DEF Drop, Typed, NoLoss, AnsweredIsRecorded, Pending
<1>4. ASSUME NEW r \in Reporters, Start(r), UNCHANGED <<rows, late, crashes>>
      PROVE  MeteringInv'
  <2>1. 0 \in Attempts
    BY SpoolAssumption DEF Attempts
  <2>. QED  BY <1>0, <1>4, <2>1, FlushForms, OldestIsBatch, ReporterStep DEF Start
<1>5. ASSUME NEW r \in Reporters, Send(r), UNCHANGED <<rows, late, crashes>>
      PROVE  MeteringInv'
  <2>1. flush[r].attempt \in Attempts
    BY <1>5, FlushShape DEF Send, Typed
  <2>. QED  BY <1>0, <1>5, <2>1, FlushForms, OldestIsBatch, ReporterStep DEF Send
<1>6. ASSUME NEW r \in Reporters, Drained(r), UNCHANGED <<rows, late, crashes>>
      PROVE  MeteringInv'
  <2>1. Idle \in Flushes /\ Idle.phase = "idle"
    BY DEF Idle, Flushes
  <2>. QED  BY <1>0, <1>6, <2>1, ReporterStep DEF Drained
<1>7. ASSUME NEW r \in Reporters, Ack(r), UNCHANGED <<rows, late, crashes>>
      PROVE  MeteringInv'
  <2>1. /\ flush[r].attempt \in Attempts
        /\ flush[r].batch \subseteq Recorded
    BY <1>7, FlushShape DEF Ack, Typed, AnsweredIsRecorded
  <2>2. /\ Draining(flush[r].attempt) \in Flushes
        /\ Draining(flush[r].attempt).phase = "draining"
    BY <2>1, FlushForms, OldestIsBatch
  <2>3. Typed'
    BY <1>0, <1>7, <2>2 DEF Ack, Typed, Becomes
  <2>4. Pending \subseteq Pending' \cup flush[r].batch
    BY <1>7 DEF Ack, Typed, Pending
  <2>5. NoLoss'
    BY <1>0, <1>7, <2>1, <2>4 DEF Ack, NoLoss
  <2>6. AnsweredIsRecorded'
    BY <1>0, <1>7, <2>2 DEF Ack, Typed, Becomes, AnsweredIsRecorded
  <2>. QED  BY <1>0, <1>7, <2>3, <2>5, <2>6
<1>8. ASSUME NEW r \in Reporters, Retry(r), UNCHANGED <<rows, late, crashes>>
      PROVE  MeteringInv'
  <2>1. flush[r].attempt \in Attempts
    BY <1>8, FlushShape DEF Retry, Typed
  <2>2. PICK f \in Flushes : Becomes(r, f) /\ f.phase # "answered"
    <3>1. CASE Pending = {} \/ flush[r].attempt + 1 >= MaxAttempts
      <4>1. Idle \in Flushes /\ Idle.phase # "answered"
        BY DEF Idle, Flushes
      <4>. QED  BY <1>8, <3>1, <4>1 DEF Retry
    <3>2. CASE ~(Pending = {} \/ flush[r].attempt + 1 >= MaxAttempts)
      <4>1. flush[r].attempt + 1 \in Attempts
        BY <2>1, <3>2, SpoolAssumption DEF Attempts
      <4>. QED  BY <1>8, <3>2, <4>1, FlushForms, OldestIsBatch DEF Retry
    <3>. QED  BY <3>1, <3>2
  <2>. QED  BY <1>0, <1>8, <2>2, ReporterStep DEF Retry
<1>9. ASSUME NEW r \in Reporters, Serve(r)
      PROVE  MeteringInv'
  <2>1. flush[r].attempt \in Attempts /\ flush[r].batch \in Batches
    BY <1>9, FlushShape DEF Serve, InCall, Typed
  <2>2. /\ rows' \in [Keys -> Nat] /\ NoDuplication'
        /\ Recorded \subseteq Recorded' /\ flush[r].batch \subseteq Recorded'
    BY <1>9, <2>1, IngestedRecords DEF Serve, Typed
  <2>. QED  BY <1>9, <2>1, <2>2, FlushForms, ReporterStep DEF Serve, Typed
<1>10. ASSUME NEW r \in Reporters, ServeUnheard(r)
       PROVE  MeteringInv'
  <2>1. flush[r].attempt \in Attempts /\ flush[r].batch \in Batches
    BY <1>10, FlushShape DEF ServeUnheard, InCall, Typed
  <2>2. rows' \in [Keys -> Nat] /\ NoDuplication' /\ Recorded \subseteq Recorded'
    BY <1>10, <2>1, IngestedRecords DEF ServeUnheard, Typed
  <2>. QED  BY <1>10, <2>1, <2>2, FlushForms, ReporterStep
            DEF ServeUnheard, Typed
<1>11. ASSUME NEW r \in Reporters, Fail(r)
       PROVE  MeteringInv'
  <2>1. flush[r].attempt \in Attempts /\ flush[r].batch \in Batches
    BY <1>11, FlushShape DEF Fail, InCall, Typed
  <2>2. late' \subseteq Batches
    BY <1>11, <2>1 DEF Fail, Abandon, Typed
  <2>3. rows' \in [Keys -> Nat] /\ NoDuplication' /\ Recorded' = Recorded
    BY <1>11 DEF Fail, Typed, NoDuplication, Recorded
  <2>. QED  BY <1>11, <2>1, <2>2, <2>3, FlushForms, ReporterStep DEF Fail
<1>12. ASSUME NEW r \in Reporters, Crash(r)
       PROVE  MeteringInv'
  <2>1. Idle \in Flushes /\ Idle.phase = "idle"
    BY DEF Idle, Flushes
  <2>2. late' \subseteq Batches
    <3>1. InCall(r) => flush[r].batch \in Batches
      BY FlushShape DEF InCall, Typed
    <3>. QED  BY <1>12, <3>1 DEF Crash, Abandon, Typed
  <2>3. rows' \in [Keys -> Nat] /\ NoDuplication' /\ Recorded' = Recorded
    BY <1>12 DEF Crash, Typed, NoDuplication, Recorded
  <2>. QED  BY <1>12, <2>1, <2>2, <2>3, ReporterStep DEF Crash
<1>13. ASSUME NEW batch \in late, Arrive(batch)
       PROVE  MeteringInv'
  <2>1. batch \in Batches
    BY DEF Typed
  <2>2. rows' \in [Keys -> Nat] /\ NoDuplication' /\ Recorded \subseteq Recorded'
    <3>1. CASE Accepts(batch)
      BY <1>13, <2>1, <3>1, IngestedRecords DEF Arrive, Typed
    <3>2. CASE ~Accepts(batch)
      BY <1>13, <3>2 DEF Arrive, Typed, NoDuplication, Recorded
    <3>. QED  BY <3>1, <3>2
  <2>3. Typed'
    BY <1>13, <2>2 DEF Arrive, Typed, queueVars
  <2>4. NoLoss' /\ AnsweredIsRecorded'
    BY <1>13, <2>2 DEF Arrive, queueVars, NoLoss, AnsweredIsRecorded, Pending
  <2>. QED  BY <2>2, <2>3, <2>4
<1>. QED
  BY <1>1, <1>2, <1>3, <1>4, <1>5, <1>6, <1>7, <1>8, <1>9, <1>10, <1>11,
     <1>12, <1>13
  DEF Next, Local

\* UsageSpool.add returned True: the event is in the spool or in
\* usage_events, whatever crashes, is lost, is late or is acked by another.
THEOREM UsageIsNotLost == Spec => []NoLoss
<1>1. MeteringInv => NoLoss
  BY DEF MeteringInv
<1>. QED  BY <1>1, InitMetering, NextMetering, PTL DEF Spec

\* Ingestion is idempotent: an event has one row, however often it is sent.
THEOREM UsageIsNotDuplicated == Spec => []NoDuplication
<1>1. MeteringInv => NoDuplication
  BY DEF MeteringInv
<1>. QED  BY <1>1, InitMetering, NextMetering, PTL DEF Spec
=============================================================================
