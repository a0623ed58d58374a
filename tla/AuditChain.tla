------------------------------ MODULE AuditChain ------------------------------
(***************************************************************************)
(* The tamper-evident audit trail of one tenant (audit.py): a chain of     *)
(* events, each bound to its predecessor by a keyed hash, and an anchor    *)
(* row that names the last of them. record appends inside the transaction  *)
(* of the change it documents; verify_chain recomputes the chain.          *)
(*                                                                         *)
(* A hash binds the previous hash and every column of the event, a random  *)
(* event id among them, so it is modelled as a value no other stored event *)
(* has: the number of the event and the session that wrote it.             *)
(***************************************************************************)
EXTENDS Integers, Sequences

Hash(seq, by) == <<seq, by>>
GENESIS == <<0, 0>>

\* audit_chain_heads: a tenant without a row has its first event to come.
NoHead == [maxSeq |-> 0, headHash |-> GENESIS]

\* record: the event that follows the head the transaction has read.
EventAfter(head, by, what) ==
    [seq |-> head.maxSeq + 1, prev |-> head.headHash,
     hash |-> Hash(head.maxSeq + 1, by), what |-> what]

\* Faulty: the anchor keeps the hash of the event before.
HeadBehind(event) == [maxSeq |-> event.seq, headHash |-> event.prev]

\* The anchor moves on to the event.
HeadAt(event) == [maxSeq |-> event.seq, headHash |-> event.hash]

\* uq_audit_tenant_seq and the conditional update of the head: whether the
\* append goes through, or the whole transaction fails. The trail is kept in
\* the order of its numbers, as verify_chain reads it.
Appends(trail, head, event) ==
    /\ \A i \in DOMAIN trail : trail[i].seq # event.seq
    /\ head.maxSeq = event.seq - 1

\* verify_chain: numbers without a gap, every link, and the anchor.
HashBefore(trail, i) == IF i = 1 THEN GENESIS ELSE trail[i - 1].hash

Verifies(trail, head) ==
    /\ \A i \in DOMAIN trail : /\ trail[i].seq = i
                               /\ trail[i].prev = HashBefore(trail, i)
    /\ head.maxSeq = Len(trail)
    /\ head.headHash = HashBefore(trail, Len(trail) + 1)
=============================================================================
