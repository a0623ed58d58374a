----------------------------- MODULE MigrationWaves -----------------------------
(***************************************************************************)
(* simulate_migration: the selected objects of an estate in waves, each    *)
(* after the objects it takes data from. When every remaining object waits *)
(* for another, the remaining graph is taken apart into strongly connected *)
(* components (Tarjan, without recursion), and those that wait only for    *)
(* themselves move, each as a whole.                                       *)
(***************************************************************************)
EXTENDS TaskOrders

CONSTANT
    EstateLinks     \* Bound: the selections that are simulated

ASSUME MigrationWavesAssumption == \A links \in EstateLinks : IsGraph(links)

\* Objects joined by edges of several kinds count once.
Simulate(r, links) ==
    Starts(r, "analyses", [op |-> "simulate", links |-> Once(links), waves |-> <<>>,
                           waiting |-> Waiting(Once(links))])

Remaining(s) == DOMAIN s.links \ UNION Range(s.waves)
Free(s) == {n \in Remaining(s) : s.waiting[n] = 0}

WithWave(s, wave) ==
    [op |-> "simulate", links |-> s.links, waves |-> Append(s.waves, wave),
     waiting |-> [n \in DOMAIN s.links |->
                    s.waiting[n] - Cardinality(wave \cap Predecessors(s.links, n))]]

ReleaseFree(r) ==
    LET s == serving[r] IN
    /\ s.op = "simulate"
    /\ Free(s) # {}
    /\ Continues(r, WithWave(s, Free(s)))

(***************************************************************************)
(* Tarjan. found: the objects in the order they were found, so that the    *)
(* index of one is its place; work: those whose visit is open; stack:      *)
(* those not yet in a component.                                           *)
(***************************************************************************)
Stall(r) ==
    LET s == serving[r] IN
    /\ s.op = "simulate"
    /\ Remaining(s) # {}
    /\ Free(s) = {}
    /\ Continues(r, [op |-> "components", links |-> s.links, waves |-> s.waves,
                     waiting |-> s.waiting, found |-> <<>>, work |-> <<>>, stack |-> <<>>,
                     low |-> [n \in DOMAIN s.links |-> 0],
                     left |-> [n \in DOMAIN s.links |->
                                 Successors(s.links, n) \cap Remaining(s)],
                     components |-> {}])

Index(s, n) == CHOOSE i \in DOMAIN s.found : s.found[i] = n
Lower(i, j) == IF i < j THEN i ELSE j

Opens(s, n) == [s EXCEPT !.found = Append(@, n), !.work = Append(@, n),
                         !.stack = Append(@, n), !.low[n] = Len(s.found) + 1]

OpenRoot(r) ==
    LET s == serving[r]
        unseen == Remaining(s) \ Range(s.found) IN
    /\ s.op = "components"
    /\ s.work = <<>>
    /\ unseen # {}
    /\ Continues(r, Opens(s, LeftToRight(unseen)[1]))

Look(r) ==
    LET s == serving[r]
        top == Last(s.work) IN
    /\ s.op = "components"
    /\ s.work # <<>>
    /\ \E n \in s.left[top] :
         LET looked == [s EXCEPT !.left[top] = @ \ {n}] IN
         Continues(r, IF n \notin Range(s.found) THEN Opens(looked, n)
                      ELSE IF n \in Range(s.stack)
                      THEN [looked EXCEPT !.low[top] = Lower(@, Index(s, n))]
                      ELSE looked)

\* The visit of the top ends. It is the first of its component if it leads
\* back no further than itself: the component is what is on the stack since.
Closed(s) ==
    LET top == Last(s.work)
        place == CHOOSE i \in DOMAIN s.stack : s.stack[i] = top IN
    IF s.low[top] = Index(s, top)
    THEN [s EXCEPT !.components = @ \cup {Range(SubSeq(s.stack, place, Len(s.stack)))},
                   !.stack = SubSeq(@, 1, place - 1)]
    ELSE s

Close(r) ==
    LET s == serving[r]
        top == Last(s.work)
        work == Front(s.work) IN
    /\ s.op = "components"
    /\ s.work # <<>>
    /\ s.left[top] = {}
    /\ Continues(r, IF work = <<>> THEN [Closed(s) EXCEPT !.work = work]
                    ELSE [Closed(s) EXCEPT !.work = work,
                                           !.low[Last(work)] = Lower(@, s.low[top])])

\* Faulty: all that is left moves at once.
WaitsNever(s, component) == FALSE

\* Faulty: a knot waits for itself too.
WaitsForItself(s, component) ==
    \E n \in Remaining(s) : Successors(s.links, n) \cap component # {}

Waits(s, component) ==
    \E n \in Remaining(s) \ component : Successors(s.links, n) \cap component # {}

ReleaseKnots(r) ==
    LET s == serving[r] IN
    /\ s.op = "components"
    /\ s.work = <<>>
    /\ Range(s.found) = Remaining(s)
    /\ Continues(r, WithWave(s, UNION {c \in s.components : ~Waits(s, c)}))

Simulated(r) ==
    LET s == serving[r] IN
    /\ s.op = "simulate"
    /\ Remaining(s) = {}
    /\ Continues(r, [op |-> "simulated", links |-> s.links, waves |-> s.waves])

MigrationWavesStep(r) ==
    \/ MayStart(r, "analyses") /\ \E links \in EstateLinks : Simulate(r, links)
    \/ ReleaseFree(r)
    \/ Stall(r)
    \/ OpenRoot(r)
    \/ Look(r)
    \/ Close(r)
    \/ ReleaseKnots(r)
    \/ Simulated(r)
    \/ serving[r].op = "simulated" /\ Answers(r)
=============================================================================
