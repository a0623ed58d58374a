-------------------------- MODULE ReservationProtocol --------------------------
(***************************************************************************)
(* What the quota ledger promises about one idempotency key, whatever the  *)
(* interleaving of the calls that name it: the RESERVE / COMMIT / RELEASE  *)
(* machine of docs/commercialization/03-domain-model.md section 6.3. A key *)
(* is used once. A hold ends once, in COMMITTED, RELEASED or EXPIRED, and  *)
(* only a commit charges, once, at most the tolerance above the hold.      *)
(***************************************************************************)
EXTENDS Integers

CONSTANT Keys

VARIABLES
    status,     \* the state of the reservation of each key
    reserved,   \* the quantity held under each key
    charged     \* the quantity charged to the books for each key, in all

abstractVars == <<status, reserved, charged>>

PInit ==
    /\ status   = [k \in Keys |-> "NONE"]
    /\ reserved = [k \in Keys |-> 0]
    /\ charged  = [k \in Keys |-> 0]

\* Only the entry of k changes, and to a quantity.
Assigns(f, g, k) ==
    /\ g[k] \in Nat
    /\ g = [f EXCEPT ![k] = g[k]]

Hold(k) ==
    /\ status[k] = "NONE"
    /\ status' = [status EXCEPT ![k] = "RESERVED"]
    /\ Assigns(reserved, reserved', k)
    /\ UNCHANGED charged

\* Ten per cent above the hold is the most a commit may charge.
Settle(k) ==
    /\ status[k] = "RESERVED"
    /\ charged[k] = 0
    /\ status' = [status EXCEPT ![k] = "COMMITTED"]
    /\ Assigns(charged, charged', k)
    /\ charged'[k] * 10 <= reserved[k] * 11
    /\ UNCHANGED reserved

\* A hold taken and settled in one step.
Take(k) ==
    /\ status[k] = "NONE"
    /\ charged[k] = 0
    /\ status' = [status EXCEPT ![k] = "COMMITTED"]
    /\ Assigns(reserved, reserved', k)
    /\ Assigns(charged, charged', k)
    /\ charged'[k] = reserved'[k]

Release(k) ==
    /\ status[k] = "RESERVED"
    /\ status' = [status EXCEPT ![k] = "RELEASED"]
    /\ UNCHANGED <<reserved, charged>>

\* The sweep expires every lapsed hold at once.
Expire(lapsed) ==
    /\ \A k \in lapsed : status[k] = "RESERVED"
    /\ status' = [k \in Keys |-> IF k \in lapsed THEN "EXPIRED" ELSE status[k]]
    /\ UNCHANGED <<reserved, charged>>

PNext ==
    \/ \E k \in Keys : Hold(k) \/ Settle(k) \/ Take(k) \/ Release(k)
    \/ \E lapsed \in SUBSET Keys : Expire(lapsed)

PSpec == PInit /\ [][PNext]_abstractVars
=============================================================================
