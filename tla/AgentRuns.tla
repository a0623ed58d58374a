------------------------------- MODULE AgentRuns -------------------------------
(***************************************************************************)
(* Runs of the agents of one workspace, the gate every result passes, the  *)
(* queue of what awaits a human, and the report of each run with the       *)
(* audit trail of what was decided. The queue is one file changed under a  *)
(* lock; a report is a file that is rewritten whole, without one.          *)
(***************************************************************************)
EXTENDS Workspaces, AgentPlan

CONSTANTS
    Risky,          \* the agents whose action class is GENERATE or MUTATING
    Selections,     \* the sets of agents a run may be asked for
    Results,        \* what an agent may come back with
    Preauthorized   \* the sets of agents a caller may authorize beforehand

Confidences == {"hopeless", "low", "high"}  \* below the floor, the threshold
AgentResults == [failed : BOOLEAN, confidence : Confidences, sensitive : BOOLEAN]

ASSUME AgentRunsAssumption ==
    /\ Risky \subseteq Agents
    /\ Selections \subseteq (SUBSET Agents) \ {{}}
    /\ Results \subseteq AgentResults
    /\ Preauthorized \subseteq SUBSET Agents

VARIABLES
    queue,          \* approvals.json: [run, agent] to its request
    reports         \* the report of each run, in the order they began

agentsVars == <<queue, reports, depends>>

\* A report that is truncated cannot be read until it is written.
NoReport == [state |-> "none"]
Torn == [state |-> "torn"]
Written(trail) == [state |-> "written", trail |-> trail]

Event(agent, decision) == [agent |-> agent, decision |-> decision]
Decisions == {"allow", "approved", "flag_review", "needs_approval", "deny",
              "failed", "skipped"}
Verdicts == {"approve", "reject"}
Events == [agent : Agents, decision : Decisions \cup Verdicts]

Pending(u) == [status |-> "pending", by |-> u, approver |-> "nobody", claimed |-> "nobody"]

(***************************************************************************)
(* AgentGovernance.decide.                                                 *)
(***************************************************************************)
Decide(a, result, pre) ==
    CASE result.failed -> "failed"
      [] ~result.failed /\ a \in Risky /\ result.confidence = "hopeless" -> "deny"
      [] ~result.failed /\ a \in Risky /\ result.confidence # "hopeless" ->
           IF a \in pre /\ ~result.sensitive THEN "approved" ELSE "needs_approval"
      [] ~result.failed /\ a \notin Risky ->
           IF result.confidence = "high" THEN "allow" ELSE "flag_review"

Commits == {"allow", "approved", "flag_review"}

(***************************************************************************)
(* TaskOrchestrator.plan: only answers; the answer is kept until the next. *)
(***************************************************************************)
Plan(r, selected) ==
    /\ Starts(r, "plans", [op |-> "plan", selected |-> selected,
                           plan |-> Toposort(selected)])
    /\ UNCHANGED <<workspacesVars, agentsVars>>

Planned(r) ==
    /\ serving[r].op = "plan"
    /\ Answers(r)
    /\ UNCHANGED <<workspacesVars, agentsVars>>

(***************************************************************************)
(* TaskOrchestrator.run, by one who may run jobs in the workspace.         *)
(***************************************************************************)
StartRun(r, u, selected, pre) ==
    /\ Acts(u, Default, {"owner", "admin", "engineer"})
    /\ ~Toposort(selected).cyclic
    /\ reports' = Append(reports, NoReport)
    /\ Starts(r, "runs", [op |-> "run", run |-> Len(reports) + 1, user |-> u,
                          pre |-> pre, left |-> Toposort(selected).order,
                          committed |-> {}, trail |-> <<>>])
    /\ UNCHANGED <<workspacesVars, queue, depends>>

\* Faulty: an agent runs whatever became of those it depends on.
UnmetNever(a, committed) == {}

Unmet(a, committed) == depends[a] \ committed

\* The head of what is left runs, or is skipped, and the trail records it.
Ran(s, decision) ==
    [s EXCEPT !.left = Tail(@),
              !.committed = IF decision \in Commits THEN @ \cup {Head(s.left)} ELSE @,
              !.trail = Append(@, Event(Head(s.left), decision))]

SkipAgent(r) ==
    LET s == serving[r] IN
    /\ s.op = "run"
    /\ s.left # <<>>
    /\ Unmet(Head(s.left), s.committed) # {}
    /\ Continues(r, Ran(s, "skipped"))
    /\ UNCHANGED <<workspacesVars, agentsVars>>

\* A request that was decided stays as it is.
WithRequest(made, user) ==
    [id \in DOMAIN queue \cup {made} |->
       IF id \in DOMAIN queue /\ (id = made => queue[id].status # "pending")
       THEN queue[id] ELSE Pending(user)]

\* Faulty: the queue is not asked when the result is sensitive.
OpenedUnlessSensitive(s, a, result) ==
    IF result.sensitive THEN queue ELSE WithRequest(<<s.run, a>>, s.user)

\* open_request, under the lock of the queue.
Opened(s, a, result) == WithRequest(<<s.run, a>>, s.user)

RunAgent(r, result) ==
    LET s == serving[r]
        a == Head(s.left)
        decision == Decide(a, result, s.pre) IN
    /\ s.op = "run"
    /\ s.left # <<>>
    /\ Unmet(a, s.committed) = {}
    /\ queue' = IF decision = "needs_approval" THEN Opened(s, a, result) ELSE queue
    /\ Continues(r, Ran(s, decision))
    /\ UNCHANGED <<workspacesVars, reports, depends>>

\* _persist opens the file, which empties it, and then writes it.
Truncate(r) ==
    LET s == serving[r] IN
    /\ \/ s.op = "run" /\ s.left = <<>>
       \/ s.op = "append"
    /\ reports' = [reports EXCEPT ![s.run] = Torn]
    /\ Continues(r, [op |-> "write", run |-> s.run, trail |-> s.trail])
    /\ UNCHANGED <<workspacesVars, queue, depends>>

WriteReport(r) ==
    LET s == serving[r] IN
    /\ s.op = "write"
    /\ reports' = [reports EXCEPT ![s.run] = Written(s.trail)]
    /\ Answers(r)
    /\ UNCHANGED <<workspacesVars, queue, depends>>

(***************************************************************************)
(* agents_approve, agents_reject and agents_claim. A requester may reject  *)
(* what he asked for himself.                                              *)
(***************************************************************************)
Consider(r, v, id, verdict) ==
    /\ Acts(v, Default, {"owner", "admin", "engineer"})
    /\ Role(v, Default) = "engineer" => verdict = "reject" /\ queue[id].by = v
    /\ Starts(r, "decisions",
              [op |-> "decide", id |-> id, user |-> v, verdict |-> verdict])
    /\ UNCHANGED <<workspacesVars, agentsVars>>

\* Faulty: a request that was rejected may still be approved.
MayDecideRejected(s) ==
    /\ queue[s.id].status \in {"pending", "reject"}
    /\ s.verdict = "approve" => s.user # queue[s.id].by

MayDecide(s) ==
    /\ queue[s.id].status = "pending"
    /\ s.verdict = "approve" => s.user # queue[s.id].by

\* _decide, under the lock.
DecideRequest(r) ==
    LET s == serving[r] IN
    /\ s.op = "decide"
    /\ s.verdict \in Verdicts
    /\ IF MayDecide(s)
       THEN /\ queue' = [queue EXCEPT ![s.id].status = s.verdict, ![s.id].approver = s.user]
            /\ Continues(r, [op |-> "decided", id |-> s.id, verdict |-> s.verdict])
       ELSE Answers(r) /\ UNCHANGED queue
    /\ UNCHANGED <<workspacesVars, reports, depends>>

\* claim, under the lock: only advice, and never by the requester.
ClaimRequest(r) ==
    LET s == serving[r] IN
    /\ s.op = "decide"
    /\ s.verdict = "claim"
    /\ queue' = IF queue[s.id].status = "pending" /\ s.user # queue[s.id].by
                THEN [queue EXCEPT ![s.id].claimed = s.user] ELSE queue
    /\ Answers(r)
    /\ UNCHANGED <<workspacesVars, reports, depends>>

\* record_decision reads the report; if it cannot, the decision is in no trail.
ReadTrail(r) ==
    LET s == serving[r]
        run == s.id[1] IN
    /\ s.op = "decided"
    /\ IF reports[run].state = "written"
       THEN Continues(r, [op |-> "append", run |-> run,
                          trail |-> Append(reports[run].trail, Event(s.id[2], s.verdict))])
       ELSE Answers(r)
    /\ UNCHANGED <<workspacesVars, agentsVars>>

AgentsStep(r) ==
    \/ \E selected \in (SUBSET Agents) \ {{}} : Plan(r, selected)
    \/ \E u \in Users, selected \in Selections, pre \in Preauthorized :
          StartRun(r, u, selected, pre)
    \/ \E result \in Results : RunAgent(r, result)
    \/ \E v \in Users, id \in DOMAIN queue, verdict \in Verdicts \cup {"claim"} :
          Consider(r, v, id, verdict)
    \/ Planned(r)
    \/ SkipAgent(r)
    \/ Truncate(r)
    \/ WriteReport(r)
    \/ DecideRequest(r)
    \/ ClaimRequest(r)
    \/ ReadTrail(r)
=============================================================================
