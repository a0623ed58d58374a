------------------------------- MODULE MCRevenue -------------------------------
(***************************************************************************)
(* Instances of Revenue for TLC. A budget says how many requests each desk *)
(* may begin, so that each way of spending them goes deep in one place.    *)
(***************************************************************************)
EXTENDS Revenue

Spend(m, r, b, p) == [desk \in Desks |->
    CASE desk = "metering" -> m [] desk = "rating" -> r
      [] desk = "billing" -> b [] desk = "partners" -> p [] desk = "licensing" -> 0]
Enroll(n) == [desk \in Desks |-> IF desk = "licensing" THEN n ELSE 0]

MCFresh == {Spend(4, 2, 1, 0), Spend(1, 5, 0, 0), Spend(1, 1, 0, 3), Enroll(5)}
MCBilled == {Spend(1, 2, 3, 0), Spend(0, 0, 1, 5), Spend(0, 0, 2, 3)}
MCDeltas == {-1}
MCPatches == {[banking |-> TRUE, tax |-> TRUE], [tax |-> FALSE]}

GapBudgets == {Spend(3, 1, 0, 0)}

Symmetry == Permutations(Clients) \cup Permutations(Events) \cup Permutations(Staff)
=============================================================================
