-------------------------------- MODULE Console --------------------------------
(***************************************************************************)
(* The web application of one instance: who may enter which workspace, and *)
(* the agents run in the default one, its saved connections, and the       *)
(* analyses that put tasks in order, served by worker processes that may   *)
(* die between any two of their file operations.                           *)
(***************************************************************************)
EXTENDS AgentRuns, MigrationWaves, Connections

CONSTANTS
    \* Bound: how many requests may come to each desk, by what the instance
    \* looks like when they do.
    EmptySpare, StaffedSpare, PlanSpare, OrderSpare, SavedSpare,
    Graph           \* what the agents depend on, but when they only plan

ASSUME ConsoleAssumption ==
    /\ EmptySpare \cup StaffedSpare \cup PlanSpare \cup OrderSpare \cup SavedSpare
         \subseteq [Desks -> Nat]
    /\ Graph \in [Agents -> SUBSET Agents]

vars == <<process, serving, spare, workspacesVars, agentsVars, connectionsVars>>

\* A new instance.
Empty ==
    /\ accounts = [u \in Users |-> NoAccount]
    /\ members = <<>>
    /\ depends = Graph
    /\ spare \in EmptySpare

\* One whose default workspace has its owner and other members.
Staffed ==
    /\ \E owner \in Users, role \in {"admin", "engineer"} :
          /\ accounts = [u \in Users |-> [active |-> TRUE,
                           role |-> IF u = owner THEN "owner" ELSE "viewer"]]
          /\ members = [w \in {Default} |-> [u \in Users |-> IF u = owner THEN "owner" ELSE role]]
    /\ depends = Graph
    /\ spare \in StaffedSpare

\* One whose agents depend on each other in any way.
Planning ==
    /\ accounts = [u \in Users |-> NoAccount]
    /\ members = <<>>
    /\ depends \in [Agents -> SUBSET Agents]
    /\ spare \in PlanSpare

\* One where nothing happens but that tasks are put in order.
Ordering ==
    /\ \A r, q \in Requests : process[r] = process[q]
    /\ accounts = [u \in Users |-> NoAccount]
    /\ members = <<>>
    /\ depends = Graph
    /\ spare \in OrderSpare

\* One where connections are saved and used, by handlers that all interleave.
Connecting ==
    /\ \A r, q \in Requests : process[r] = process[q] => r = q
    /\ accounts = [u \in Users |-> NoAccount]
    /\ members = <<>>
    /\ depends = Graph
    /\ spare \in SavedSpare

Init ==
    /\ WorkersInit
    /\ queue = <<>>
    /\ reports = <<>>
    /\ connections = <<>>
    /\ inventories = [id \in Saved |-> None]
    /\ Empty \/ Staffed \/ Planning \/ Ordering \/ Connecting

Next ==
    \/ \E r \in Requests :
          \/ WorkspacesStep(r) /\ UNCHANGED <<agentsVars, connectionsVars>>
          \/ AgentsStep(r) /\ UNCHANGED connectionsVars
          \/ TaskOrdersStep(r) /\ UNCHANGED <<workspacesVars, agentsVars, connectionsVars>>
          \/ MigrationWavesStep(r) /\ UNCHANGED <<workspacesVars, agentsVars, connectionsVars>>
          \/ ConnectionsStep(r) /\ UNCHANGED <<workspacesVars, agentsVars>>
    \/ \E p \in Processes : Restart(p) /\ UNCHANGED <<agentsVars, connectionsVars>>

Spec == Init /\ [][Next]_vars

-----------------------------------------------------------------------------
(***************************************************************************)
(* Properties.                                                             *)
(***************************************************************************)

\* AuthStore.create_user: an instance has one account owner from its first
\* account on, however many sign up at the same time, and whoever crashes.
OneAccountOwner ==
    Known # {} => Cardinality({u \in Users : accounts[u].role = "owner"}) = 1

\* WorkspaceStore: while one process serves everything, no workspace is left
\* without an owner by demoting, removing and inviting in any order.
OwnerRemains ==
    (\A r, q \in Requests : process[r] = process[q]) =>
      \A w \in Made : Owners(w) # {}

\* plan and run: the selected agents, each once and after what it depends on;
\* refused if and only if there is a cycle among the selected ones.
PlanIsTopological ==
    \A r \in Requests :
       serving[r].op = "plan" =>
         LET plan == serving[r].plan
             selected == serving[r].selected IN
         IF HasCycle(selected) THEN plan.cyclic
         ELSE ~plan.cyclic /\ InOrder(plan.order, selected)

\* One at a time. A control flow leaves out what is stranded, the others append it.
OrderRespects(s) ==
    LET stranded == Stranded(s.links)
        placed == DOMAIN s.links \ (IF s.by = "control_flow" THEN stranded ELSE {}) IN
    /\ Len(s.order) = Cardinality(placed)
    /\ Range(s.order) = placed
    /\ \A i \in DOMAIN s.order :
          s.order[i] \notin stranded =>
            Predecessors(s.links, s.order[i]) \subseteq {s.order[j] : j \in 1 .. i - 1}

\* The waves a task is in.
WavesOf(waves, t) == {i \in DOMAIN waves : t \in waves[i]}
InOneWave(waves, links) == \A t \in DOMAIN links : Cardinality(WavesOf(waves, t)) = 1
Before(waves, t, u) ==
    \A i \in WavesOf(waves, t), j \in WavesOf(waves, u) : i < j

\* Waves: the same, each task no later than it must be.
WavesRespect(s) ==
    LET stranded == Stranded(s.links) IN
    /\ InOneWave(s.waves, s.links)
    /\ \A t \in DOMAIN s.links \ stranded :
          /\ \A u \in Predecessors(s.links, t) : Before(s.waves, u, t)
          /\ \A i \in WavesOf(s.waves, t) \ {1} :
                Predecessors(s.links, t) \cap s.waves[i - 1] # {}

\* execution_waves, execution_order, get_topological_order, _topo and plan: an
\* order has every task once and after all it depends on; those on a cycle, and
\* what is behind one, are left out or come last; the validation of a
\* conversion reports a cycle if and only if there is one.
OrdersRespectDependencies ==
    /\ PlanIsTopological
    /\ \A r \in Requests :
          LET s == serving[r] IN
          /\ s.op = "ordered" => OrderRespects(s)
          /\ s.op = "in_waves" =>
               WavesRespect(s) /\ (s.reported <=> OnCycle(s.links) # {})

\* detect_cycles and cycles: what is reported as a cycle are tasks that all lead
\* to each other, and no group of such tasks goes without a report.
CyclesFound ==
    \A r \in Requests :
       LET s == serving[r] IN
       s.op = "cycles_found" =>
         LET cyclic == OnCycle(s.links)
             knots == {knot \in Knots(s.links) : knot \subseteq cyclic} IN
         /\ {} \notin s.found
         /\ \A cycle \in s.found : \E knot \in knots : cycle \subseteq knot
         /\ \A knot \in knots : \E cycle \in s.found : cycle \subseteq knot

\* simulate_migration: every object is in one wave, objects that depend on each
\* other in the same one, and all else an object takes data from in earlier ones.
\* No wave moves nothing: the loop has no other end than that all has moved.
KnotsMoveTogether ==
    \A r \in Requests :
       LET s == serving[r] IN
       /\ s.op \in {"simulate", "simulated"} => {} \notin Range(s.waves)
       /\ s.op = "simulated" =>
            /\ InOneWave(s.waves, s.links)
            /\ \A knot \in Knots(s.links) :
                  /\ \E i \in DOMAIN s.waves : knot \subseteq s.waves[i]
                  /\ \A t \in knot, u \in DOMAIN s.links \ knot :
                        s.links[u][t] > 0 => Before(s.waves, u, t)

Trails == {reports[run].trail : run \in {n \in DOMAIN reports : reports[n].state = "written"}}

\* run: no agent acts before all it depends on has committed, in that run; a
\* result that was held for approval, denied or failed commits nothing.
DependenciesCommitted ==
    \A trail \in Trails : \A i \in DOMAIN trail :
       trail[i].decision \in Decisions \ {"skipped"} =>
         \A a \in depends[trail[i].agent] : \E j \in 1 .. i - 1 :
            trail[j].agent = a /\ trail[j].decision \in Commits

\* open_request, record_decision: the requests of a run that has a report are
\* those its trail says were held for approval, and a verdict in the trail is
\* the one the queue holds, and is there once, whoever writes at that time.
QueueAndTrailAgree ==
    \A run \in DOMAIN reports :
       reports[run].state = "written" =>
         LET trail == reports[run].trail IN
         /\ {a \in Agents : <<run, a>> \in DOMAIN queue} =
              {a \in Agents : Event(a, "needs_approval") \in Range(trail)}
         /\ \A i \in DOMAIN trail :
               trail[i].decision \in Verdicts =>
                 /\ queue[<<run, trail[i].agent>>].status = trail[i].decision
                 /\ \A j \in DOMAIN trail : trail[j] = trail[i] => j = i

\* save_connection: a saved password stays with the target it was entered for,
\* through edits, tests and stops that overwrite each other, and crashes.
SecretsMatchTarget ==
    \A id \in DOMAIN connections :
       connections[id].secret \in {None, connections[id].target}

\* connection_state: a connection that is untested is never reported as
\* connected; what was tested or analysed is what it points to now.
ConnectedWasTested ==
    \A id \in DOMAIN connections :
       LET row == connections[id] IN
       Connected(row) =>
         row.test = Evidence("ok", row.target) \/ row.analysis = row.target
=============================================================================
