------------------------------- MODULE TaskGraphs -------------------------------
(***************************************************************************)
(* Graphs of what comes before what: tasks of a workflow, mappings of a    *)
(* pipeline, objects of an estate. links[t][u] is how many links lead from *)
(* t to u (a connector per column makes many of one pair); a task may be   *)
(* linked to itself. These are the words the properties are said in.       *)
(***************************************************************************)
EXTENDS Integers, SequencesExt

IsGraph(links) ==
    /\ DOMAIN links \subseteq Nat \ {0}
    /\ IsFiniteSet(DOMAIN links)
    /\ links \in [DOMAIN links -> [DOMAIN links -> Nat]]

Successors(links, t) == {u \in DOMAIN links : links[t][u] > 0}
Predecessors(links, t) == {u \in DOMAIN links : links[u][t] > 0}

\* Tasks that no link leaves.
Enclosed(links) ==
    {ts \in SUBSET DOMAIN links : \A t \in ts : Successors(links, t) \subseteq ts}

\* What each task leads to, by one link or more: what must be among tasks that
\* no link leaves when its successors are.
Downstream(links) ==
    [t \in DOMAIN links |->
        {u \in DOMAIN links :
            \A ts \in Enclosed(links) : Successors(links, t) \subseteq ts => u \in ts}]

\* The knots: what leads to a task and back, and the task itself.
Knots(links) ==
    LET down == Downstream(links) IN
    {{t} \cup {u \in down[t] : t \in down[u]} : t \in DOMAIN links}

OnCycle(links) == LET down == Downstream(links) IN {t \in DOMAIN links : t \in down[t]}

\* On a cycle or behind one: nothing that waits for all its predecessors runs these.
Stranded(links) ==
    LET down == Downstream(links) IN OnCycle(links) \cup UNION {down[t] : t \in OnCycle(links)}
=============================================================================
