------------------------------- MODULE AgentPlan -------------------------------
(***************************************************************************)
(* The order in which the orchestrator runs the agents it selected: depth  *)
(* first through what they depend on, in the order of their ids, or a      *)
(* refusal when it comes back to an agent it is still visiting.            *)
(***************************************************************************)
EXTENDS Naturals, SequencesExt

CONSTANT
    AgentCount      \* the agents are numbered in the order of their ids

ASSUME AgentPlanAssumption == AgentCount \in Nat \ {0}

VARIABLE
    depends         \* what each agent depends on: no step changes it

Agents == 1 .. AgentCount

Least(S) == CHOOSE a \in S : \A b \in S : a <= b

\* order: the agents that are done; path: those whose visit is open, each a
\* dependency of the one before it.
NoVisit == [order |-> <<>>, path |-> <<>>, cyclic |-> FALSE]

\* What must still be done before the last visit of the path is over, or all of
\* them; what is not selected is left out.
Needs(selected, v) ==
    (IF v.path = <<>> THEN selected ELSE depends[Last(v.path)] \cap selected) \ Range(v.order)

\* The next visit begins, or one is over, or nothing is left to visit.
Visit(selected, v) ==
    LET next == Least(Needs(selected, v)) IN
    IF Needs(selected, v) = {}
    THEN IF v.path = <<>> THEN v
         ELSE [v EXCEPT !.order = Append(@, Last(v.path)), !.path = Front(@)]
    ELSE IF next \in Range(v.path) THEN [v EXCEPT !.cyclic = TRUE]
         ELSE [v EXCEPT !.path = Append(@, next)]

\* _toposort: every selected agent is begun once and done once.
Toposort(selected) ==
    LET after[n \in Nat] == IF n = 0 THEN NoVisit ELSE Visit(selected, after[n - 1])
    IN after[2 * Cardinality(selected)]

(***************************************************************************)
(* What a plan must be, said without visiting anything.                    *)
(***************************************************************************)
\* Some of the selected agents all depend on others of these.
HasCycle(selected) ==
    \E S \in (SUBSET selected) \ {{}} : \A a \in S : depends[a] \cap S # {}

\* Every selected agent once, each after what it depends on.
InOrder(order, selected) ==
    /\ Len(order) = Cardinality(selected)
    /\ Range(order) = selected
    /\ \A i \in DOMAIN order :
          depends[order[i]] \cap selected \subseteq {order[j] : j \in 1 .. i - 1}
=============================================================================
