------------------------------ MODULE Receivables ------------------------------
(***************************************************************************)
(* What billing promises of the money owed to us: an account is opened for *)
(* an amount, takes each receipt once, is settled by the receipt that      *)
(* brings it to what is owed and by nothing else, and once it is settled   *)
(* or cancelled nothing about it changes.                                  *)
(***************************************************************************)
EXTENDS Naturals, SequencesExt

CONSTANTS
    Keys,       \* the names of the receipts
    Sums        \* what a receipt may amount to

VARIABLES
    accounts,       \* in the order they were opened
    booked          \* the receipts already taken

vars == <<accounts, booked>>

Opened(owed) == [owed |-> owed, received |-> 0, status |-> "open"]

\* Nothing was received yet on what accounts there are.
Init ==
    /\ \A i \in DOMAIN accounts : accounts[i] = Opened(accounts[i].owed)
    /\ booked = {}

\* The new account is the last one; what it is owed is any amount.
Open ==
    LET new == Last(accounts') IN
    /\ Len(accounts') = Len(accounts) + 1
    /\ new.owed \in Nat
    /\ accounts' = Append(accounts, Opened(new.owed))
    /\ UNCHANGED booked

Receive(i, key, amount) ==
    /\ accounts[i].status = "open"
    /\ key \notin booked
    /\ booked' = booked \cup {key}
    /\ LET sum == accounts[i].received + amount IN
       accounts' = [accounts EXCEPT
                      ![i].received = sum,
                      ![i].status = IF sum >= accounts[i].owed THEN "settled" ELSE "open"]

Cancel(i) ==
    /\ accounts[i].status = "open"
    /\ accounts' = [accounts EXCEPT ![i].status = "cancelled"]
    /\ UNCHANGED booked

Next ==
    \/ Open
    \/ \E i \in DOMAIN accounts :
          \/ \E key \in Keys, amount \in Sums : Receive(i, key, amount)
          \/ Cancel(i)

Spec == Init /\ [][Next]_vars
=============================================================================
