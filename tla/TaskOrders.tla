------------------------------- MODULE TaskOrders -------------------------------
(***************************************************************************)
(* The orders the compiler puts tasks in. All of them take what waits for  *)
(* nothing until nothing is left to take; they differ in how they count,   *)
(* in whether they take one task at a time or a wave of them, and in what  *)
(* becomes of the tasks that are left over. Which of the tasks that are    *)
(* ready is listed first is left open. Tasks are known by what the order   *)
(* knows them by: views by their name in lower case, so that of two views  *)
(* with one name in different schemas only one is among the tasks.         *)
(***************************************************************************)
EXTENDS Workers, TaskGraphs

CONSTANT
    TaskLinks       \* Bound: the graphs of tasks that are looked at

ASSUME TaskOrdersAssumption == \A links \in TaskLinks : IsGraph(links)

\* The mapping graph of PowerCenter counts connectors and appends what is left;
\* the control flows of SSIS, DataStage and SAP count links and leave it out;
\* the workflow of PowerCenter, the models of dbt and the views of a warehouse
\* go by sets, and append it.
Counting == {"pc_graph", "control_flow"}
OneByOne == Counting \cup {"by_sets"}
\* Waves: of an orchestration workflow, of the mappings of a pipeline.
ByWaves == {"workflow", "pipeline"}

Once(links) == [t \in DOMAIN links |-> [u \in DOMAIN links |->
                  IF links[t][u] > 0 THEN 1 ELSE 0]]

LeftToRight(S) == CHOOSE order \in [1 .. Cardinality(S) -> S] :
                    /\ Range(order) = S
                    /\ \A i, j \in DOMAIN order : i < j => order[i] < order[j]

\* How many links lead to each task.
Waiting(links) == [t \in DOMAIN links |->
                     SumFunctionOnSet([u \in DOMAIN links |-> links[u][t]], DOMAIN links)]

(***************************************************************************)
(* One at a time.                                                          *)
(***************************************************************************)
Order(r, by, links) ==
    LET counted == IF by \in Counting THEN links ELSE Once(links) IN
    Starts(r, "analyses", [op |-> "order", by |-> by, links |-> counted,
                           order |-> <<>>, waiting |-> Waiting(counted)])

Ready(s) == {t \in DOMAIN s.links \ Range(s.order) : s.waiting[t] = 0}

\* Faulty: parallel links are taken off once.
RelievedOnce(s, t) == [u \in DOMAIN s.links |->
                         IF s.links[t][u] > 0 THEN s.waiting[u] - 1 ELSE s.waiting[u]]

Relieved(s, t) == [u \in DOMAIN s.links |-> s.waiting[u] - s.links[t][u]]

Place(r) ==
    LET s == serving[r] IN
    /\ s.op = "order"
    /\ \E t \in Ready(s) :
          Continues(r, [s EXCEPT !.order = Append(@, t), !.waiting = Relieved(s, t)])

EndOrder(r) ==
    LET s == serving[r]
        left == DOMAIN s.links \ Range(s.order) IN
    /\ s.op = "order"
    /\ Ready(s) = {}
    /\ Continues(r, [op |-> "ordered", by |-> s.by, links |-> s.links,
                     order |-> IF s.by = "control_flow" THEN s.order
                               ELSE s.order \o LeftToRight(left)])

(***************************************************************************)
(* By waves.                                                               *)
(***************************************************************************)
Waves(r, by, links) ==
    Starts(r, "analyses", [op |-> "waves", by |-> by, links |-> links, waves |-> <<>>])

Placed(s) == UNION Range(s.waves)

\* A workflow looks at what the last wave leads to, a pipeline at all that remains.
Candidates(s) ==
    IF s.by = "workflow" /\ s.waves # <<>>
    THEN UNION {Successors(s.links, t) : t \in Last(s.waves)}
    ELSE DOMAIN s.links

NextWave(s) == {t \in Candidates(s) \ Placed(s) : Predecessors(s.links, t) \subseteq Placed(s)}

TakeWave(r) ==
    LET s == serving[r] IN
    /\ s.op = "waves"
    /\ NextWave(s) # {}
    /\ Continues(r, [s EXCEPT !.waves = Append(@, NextWave(s))])

\* The tasks that are left make a last wave, and the validation of a conversion
\* reports a cycle among them.
EndWaves(r) ==
    LET s == serving[r]
        left == DOMAIN s.links \ Placed(s)
        waves == IF left = {} THEN s.waves ELSE Append(s.waves, left) IN
    /\ s.op = "waves"
    /\ NextWave(s) = {}
    /\ Continues(r, [op |-> "in_waves", by |-> s.by, links |-> s.links, waves |-> waves,
                     reported |-> left # {}])

(***************************************************************************)
(* Cycles: depth first, a link back to a task whose visit is still open    *)
(* closes a cycle, which is reported unless the same tasks were.           *)
(***************************************************************************)
Cycles(r, links) ==
    Starts(r, "analyses", [op |-> "cycles", links |-> links, path |-> <<>>, seen |-> {},
                           left |-> [t \in DOMAIN links |-> Successors(links, t)],
                           found |-> {}])

Enters(s, t) == [s EXCEPT !.path = Append(@, t), !.seen = @ \cup {t}]

EnterRoot(r) ==
    LET s == serving[r] IN
    /\ s.op = "cycles"
    /\ s.path = <<>>
    /\ \E t \in DOMAIN s.links \ s.seen : Continues(r, Enters(s, t))

\* Faulty: a task that was seen is left alone, open or not.
ClosesNever(s, u) == FALSE

Closes(s, u) == u \in Range(s.path)

ClosedBy(s, u) == {s.path[i] : i \in {j \in DOMAIN s.path :
                     \E k \in 1 .. j : s.path[k] = u}}

Follow(r) ==
    LET s == serving[r] IN
    /\ s.op = "cycles"
    /\ s.path # <<>>
    /\ \E u \in s.left[Last(s.path)] :
         LET looked == [s EXCEPT !.left[Last(s.path)] = @ \ {u}] IN
         Continues(r, IF Closes(s, u) THEN [looked EXCEPT !.found = @ \cup {ClosedBy(s, u)}]
                      ELSE IF u \in s.seen THEN looked
                      ELSE Enters(looked, u))

Leave(r) ==
    LET s == serving[r] IN
    /\ s.op = "cycles"
    /\ s.path # <<>>
    /\ s.left[Last(s.path)] = {}
    /\ Continues(r, [s EXCEPT !.path = Front(@)])

EndCycles(r) ==
    LET s == serving[r] IN
    /\ s.op = "cycles"
    /\ s.path = <<>>
    /\ s.seen = DOMAIN s.links
    /\ Continues(r, [op |-> "cycles_found", links |-> s.links, found |-> s.found])

TaskOrdersStep(r) ==
    \/ /\ MayStart(r, "analyses")
       /\ \E links \in TaskLinks :
             \/ \E by \in OneByOne : Order(r, by, links)
             \/ \E by \in ByWaves : Waves(r, by, links)
             \/ Cycles(r, links)
    \/ Place(r)
    \/ EndOrder(r)
    \/ TakeWave(r)
    \/ EndWaves(r)
    \/ EnterRoot(r)
    \/ Follow(r)
    \/ Leave(r)
    \/ EndCycles(r)
    \/ serving[r].op \in {"ordered", "in_waves", "cycles_found"} /\ Answers(r)
=============================================================================
