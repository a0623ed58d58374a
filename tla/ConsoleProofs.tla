------------------------------ MODULE ConsoleProofs ------------------------------
(***************************************************************************)
(* What the files of an instance keep, for any number of requests, worker  *)
(* processes, users, agents and connections, however the requests          *)
(* interleave and whenever a process dies.                                 *)
(*                                                                         *)
(* A handler carries what it read past the steps of the others, and writes *)
(* it later. Each property is proved together with the same of everything  *)
(* that is carried: the accounts a sign-up may make (AccountsHeld), the    *)
(* trails a report may be written from (TrailHeld), the rows a file may be *)
(* rewritten with (RowsHeld). Owners of workspaces are kept by one process,*)
(* whose requests come one at a time (RosterInv); the queue and the trails *)
(* agree because a run that goes on is the only one that has its trail,    *)
(* and a verdict is in no trail until the request that gave it records it  *)
(* (AgreeInv). The search for cycles has followed or has yet to follow     *)
(* every link of the tasks it saw (Searched); what is left when an order   *)
(* can go no further are the tasks on a cycle or behind one (InTurnPlaced, *)
(* InWaves), and a plan is over before it runs out of steps (Visiting).    *)
(* What is taken apart into components keeps how low each object is known  *)
(* to lead (Parting), and what has moved keeps its knots whole (Settled).  *)
(***************************************************************************)
EXTENDS Console, SumTheorems, SequenceTheorems, TLAPS

-----------------------------------------------------------------------------
(***************************************************************************)
(* What a request is about to do.                                          *)
(***************************************************************************)

\* What a request does once it has rewritten a file.
After == {"idle", "forget", "probe", "list"}

ServingForm ==
    /\ serving = [r \in Requests |-> serving[r]]
    /\ \A r \in Requests :
          /\ "op" \in DOMAIN serving[r]
          /\ serving[r].op \in {"rewrite", "fill"} =>
               /\ DOMAIN serving[r] = {"op", "rows", "next"}
               /\ "op" \in DOMAIN serving[r].next
               /\ serving[r].next.op \in After

Turns(r, ops) ==
    /\ serving' = [serving EXCEPT ![r] = serving'[r]]
    /\ "op" \in DOMAIN serving'[r]
    /\ serving'[r].op \in ops

PeopleOps == {"idle", "signup", "signup_space", "invite", "invite_account", "role", "status"}
AgentsOps == {"idle", "plan", "run", "write", "append", "decide", "decided"}
RunOps == AgentsOps \ {"plan"}
SortOps == {"order", "ordered", "waves", "in_waves"}
MoveOps == {"idle", "simulate", "components", "simulated"}
SearchOps == {"cycles", "cycles_found"}
OrdersOps == SortOps \cup SearchOps \cup MoveOps
ConnectionsOps == {"idle", "rewrite", "fill", "test", "probe", "introspect", "list", "forget"}

LEMMA StartsTurns ==
    ASSUME ServingForm, NEW r \in Requests, NEW desk, NEW request, NEW ops,
           Starts(r, desk, request), "op" \in DOMAIN request, request.op \in ops
    PROVE  Turns(r, ops) /\ serving'[r] = request
  BY DEF ServingForm, Starts, Turns

LEMMA ContinuesTurns ==
    ASSUME ServingForm, NEW r \in Requests, NEW request, NEW ops,
           Continues(r, request), "op" \in DOMAIN request, request.op \in ops
    PROVE  Turns(r, ops) /\ serving'[r] = request
  BY DEF ServingForm, Continues, Turns

LEMMA AnswersTurns ==
    ASSUME ServingForm, NEW r \in Requests, NEW ops, Answers(r), "idle" \in ops
    PROVE  Turns(r, ops) /\ serving'[r] = Idle
  BY DEF ServingForm, Answers, Continues, Idle, Turns

\* The steps of each desk turn a request between what that desk does.
LEMMA PeopleTurns ==
    ASSUME ServingForm, NEW r \in Requests, WorkspacesStep(r)
    PROVE  Turns(r, PeopleOps)
<1>1. CASE \E u \in Users : SignUp(r, u)
  BY <1>1, StartsTurns DEF SignUp, PeopleOps
<1>2. CASE \E v \in Users, w \in Spaces : CreateSpace(r, v, w)
  BY <1>2, StartsTurns DEF CreateSpace, PeopleOps, Idle
<1>3. CASE \E v \in Users, w \in Spaces : \E u \in Users : \E role \in Roles :
              Invite(r, v, w, u, role)
  BY <1>3, StartsTurns DEF Invite, InviteStep, PeopleOps
<1>4. CASE \E v \in Users, w \in Spaces : \E u \in Users : \E role \in Roles \cup {"none"} :
              ChangeRole(r, v, w, u, role)
  BY <1>4, StartsTurns DEF ChangeRole, PeopleOps
<1>5. CASE \E v \in Users, w \in Spaces : \E u \in Users : \E active \in BOOLEAN :
              ChangeStatus(r, v, w, u, active)
  BY <1>5, StartsTurns DEF ChangeStatus, PeopleOps
<1>6. CASE SignUpAccount(r) \/ InviteAccount(r)
  BY <1>6, ContinuesTurns, AnswersTurns DEF SignUpAccount, InviteAccount, ServingForm, PeopleOps
<1>7. CASE SignUpSpace(r) \/ InviteMember(r) \/ SetRole(r) \/ SetStatus(r)
  BY <1>7, AnswersTurns DEF SignUpSpace, InviteMember, SetRole, SetStatus, PeopleOps
<1>. QED  BY <1>1, <1>2, <1>3, <1>4, <1>5, <1>6, <1>7 DEF WorkspacesStep

LEMMA AgentsTurnsApart ==
    ASSUME ServingForm, NEW r \in Requests, AgentsStep(r)
    PROVE  \/ /\ \E selected \in (SUBSET Agents) \ {{}} : Plan(r, selected)
              /\ Turns(r, {"plan"})
           \/ Turns(r, RunOps)
<1>1. CASE \E selected \in (SUBSET Agents) \ {{}} : Plan(r, selected)
  BY <1>1, StartsTurns DEF Plan
<1>2. CASE \E u \in Users, selected \in Selections, pre \in Preauthorized :
              StartRun(r, u, selected, pre)
  <2>1. PICK u \in Users, selected \in Selections, pre \in Preauthorized :
           StartRun(r, u, selected, pre)
    BY <1>2
  <2>. DEFINE request == [op |-> "run", run |-> Len(reports) + 1, user |-> u,
                          pre |-> pre, left |-> Toposort(selected).order,
                          committed |-> {}, trail |-> <<>>]
  <2>2. Starts(r, "runs", request)
    BY <2>1 DEF StartRun
  <2>3. "op" \in DOMAIN request /\ request.op = "run"
    OBVIOUS
  <2>. HIDE DEF request
  <2>. QED  BY <2>2, <2>3, StartsTurns DEF RunOps, AgentsOps
<1>3. CASE \E result \in Results : RunAgent(r, result)
  BY <1>3, ContinuesTurns DEF RunAgent, Ran, ServingForm, RunOps, AgentsOps
<1>4. CASE \E v \in Users, id \in DOMAIN queue, verdict \in Verdicts \cup {"claim"} :
              Consider(r, v, id, verdict)
  BY <1>4, StartsTurns DEF Consider, RunOps, AgentsOps
<1>5. CASE Planned(r) \/ WriteReport(r) \/ ClaimRequest(r)
  BY <1>5, AnswersTurns DEF Planned, WriteReport, ClaimRequest, RunOps, AgentsOps
<1>6. CASE SkipAgent(r)
  BY <1>6, ContinuesTurns DEF SkipAgent, Ran, ServingForm, RunOps, AgentsOps
<1>7. CASE Truncate(r)
  BY <1>7, ContinuesTurns DEF Truncate, RunOps, AgentsOps
<1>8. CASE DecideRequest(r) \/ ReadTrail(r)
  BY <1>8, ContinuesTurns, AnswersTurns DEF DecideRequest, ReadTrail, RunOps, AgentsOps
<1>. QED  BY <1>1, <1>2, <1>3, <1>4, <1>5, <1>6, <1>7, <1>8 DEF AgentsStep

LEMMA AgentsTurns ==
    ASSUME ServingForm, NEW r \in Requests, AgentsStep(r)
    PROVE  Turns(r, AgentsOps)
  BY AgentsTurnsApart DEF Turns, AgentsOps, RunOps

SortStep(r) ==
    \/ \E links \in TaskLinks :
          \/ \E by \in OneByOne : Order(r, by, links)
          \/ \E by \in ByWaves : Waves(r, by, links)
    \/ Place(r)
    \/ EndOrder(r)
    \/ TakeWave(r)
    \/ EndWaves(r)

SearchStep(r) ==
    \/ \E links \in TaskLinks : Cycles(r, links)
    \/ EnterRoot(r)
    \/ Follow(r)
    \/ Leave(r)
    \/ EndCycles(r)

MoveStep(r) ==
    \/ \E links \in EstateLinks : Simulate(r, links)
    \/ ReleaseFree(r)
    \/ Stall(r)
    \/ OpenRoot(r)
    \/ Look(r)
    \/ Close(r)
    \/ ReleaseKnots(r)
    \/ Simulated(r)
    \/ Answers(r)

LEMMA OrdersTurnsApart ==
    ASSUME ServingForm, NEW r \in Requests, TaskOrdersStep(r) \/ MigrationWavesStep(r)
    PROVE  \/ SortStep(r) /\ Turns(r, SortOps)
           \/ SearchStep(r) /\ Turns(r, SearchOps)
           \/ MoveStep(r) /\ Turns(r, MoveOps)
<1>. DEFINE s == serving[r]
<1>1. "op" \in DOMAIN s
  BY DEF ServingForm
<1>2. CASE \E links \in TaskLinks : \/ \E by \in OneByOne : Order(r, by, links)
                                    \/ \E by \in ByWaves : Waves(r, by, links)
                                    \/ Cycles(r, links)
  <2>1. CASE \E links \in TaskLinks, by \in OneByOne : Order(r, by, links)
    <3>1. PICK links \in TaskLinks, by \in OneByOne : Order(r, by, links)
      BY <2>1
    <3>. DEFINE counted == IF by \in Counting THEN links ELSE Once(links)
                request == [op |-> "order", by |-> by, links |-> counted,
                            order |-> <<>>, waiting |-> Waiting(counted)]
    <3>2. Starts(r, "analyses", request)
      BY <3>1, Zenon DEF Order
    <3>3. "op" \in DOMAIN request /\ request.op = "order"
      OBVIOUS
    <3>. HIDE DEF request
    <3>. QED  BY <2>1, <3>2, <3>3, StartsTurns DEF SortOps, SortStep
  <2>2. CASE \E links \in TaskLinks, by \in ByWaves : Waves(r, by, links)
    <3>1. PICK links \in TaskLinks, by \in ByWaves : Waves(r, by, links)
      BY <2>2
    <3>. DEFINE request == [op |-> "waves", by |-> by, links |-> links, waves |-> <<>>]
    <3>2. Starts(r, "analyses", request) /\ "op" \in DOMAIN request /\ request.op = "waves"
      BY <3>1 DEF Waves
    <3>. HIDE DEF request
    <3>. QED  BY <2>2, <3>2, StartsTurns DEF SortOps, SortStep
  <2>3. CASE \E links \in TaskLinks : Cycles(r, links)
    <3>1. PICK links \in TaskLinks : Cycles(r, links)
      BY <2>3
    <3>. DEFINE request == [op |-> "cycles", links |-> links, path |-> <<>>, seen |-> {},
                            left |-> [t \in DOMAIN links |-> Successors(links, t)],
                            found |-> {}]
    <3>2. Starts(r, "analyses", request) /\ "op" \in DOMAIN request /\ request.op = "cycles"
      BY <3>1 DEF Cycles
    <3>. HIDE DEF request
    <3>. QED  BY <2>3, <3>2, StartsTurns DEF SearchOps, SearchStep
  <2>. QED  BY <1>2, <2>1, <2>2, <2>3
<1>3. CASE \E links \in EstateLinks : Simulate(r, links)
  <2>1. PICK links \in EstateLinks : Simulate(r, links)
    BY <1>3
  <2>. DEFINE request == [op |-> "simulate", links |-> Once(links), waves |-> <<>>,
                          waiting |-> Waiting(Once(links))]
  <2>2. Starts(r, "analyses", request) /\ "op" \in DOMAIN request /\ request.op = "simulate"
    BY <2>1 DEF Simulate
  <2>. HIDE DEF request
  <2>. QED  BY <1>3, <2>2, StartsTurns DEF MoveOps, MoveStep
<1>4. CASE Place(r)
  BY <1>1, <1>4, ContinuesTurns DEF Place, SortOps, SortStep
<1>5. CASE TakeWave(r)
  BY <1>1, <1>5, ContinuesTurns DEF TakeWave, SortOps, SortStep
<1>6. CASE EndOrder(r) \/ EndWaves(r)
  BY <1>6, ContinuesTurns DEF EndOrder, EndWaves, SortOps, SortStep
<1>14. CASE EndCycles(r)
  BY <1>14, ContinuesTurns DEF EndCycles, SearchOps, SearchStep
<1>7. CASE EnterRoot(r) \/ Leave(r)
  <2>1. ASSUME NEW t PROVE "op" \in DOMAIN Enters(s, t) /\ Enters(s, t).op = s.op
    BY <1>1 DEF Enters
  <2>2. s.op = "cycles" /\ \E next : /\ Continues(r, next)
                                    /\ "op" \in DOMAIN next /\ next.op = s.op
    BY <1>1, <1>7, <2>1 DEF EnterRoot, Leave
  <2>. QED  BY <1>7, <2>2, ContinuesTurns DEF SearchOps, SearchStep
<1>8. CASE Follow(r)
  <2>1. s.op = "cycles"
    BY <1>8 DEF Follow
  <2>2. PICK u, looked :
           /\ looked = [s EXCEPT !.left[Last(s.path)] = @ \ {u}]
           /\ Continues(r, IF Closes(s, u) THEN [looked EXCEPT !.found = @ \cup {ClosedBy(s, u)}]
                           ELSE IF u \in s.seen THEN looked
                           ELSE Enters(looked, u))
    BY <1>8 DEF Follow
  <2>3. "op" \in DOMAIN looked /\ looked.op = s.op
    BY <1>1, <2>2
  <2>. DEFINE closed == [looked EXCEPT !.found = @ \cup {ClosedBy(s, u)}]
              entered == Enters(looked, u)
  <2>4. "op" \in DOMAIN closed /\ closed.op = s.op
    BY <2>3
  <2>5. "op" \in DOMAIN entered /\ entered.op = s.op
    BY <2>3 DEF Enters
  <2>6. Continues(r, closed) \/ Continues(r, looked) \/ Continues(r, entered)
    BY <2>2
  <2>. HIDE DEF closed, entered
  <2>. QED  BY <1>8, <2>1, <2>3, <2>4, <2>5, <2>6, ContinuesTurns DEF SearchOps, SearchStep
<1>9. CASE ReleaseFree(r) \/ Stall(r) \/ ReleaseKnots(r) \/ Simulated(r)
  BY <1>9, ContinuesTurns DEF ReleaseFree, Stall, ReleaseKnots, Simulated, WithWave,
         MoveOps, MoveStep
<1>10. CASE OpenRoot(r)
  BY <1>1, <1>10, ContinuesTurns DEF OpenRoot, Opens, MoveOps, MoveStep
<1>11. CASE Look(r)
  <2>1. PICK top : top = Last(s.work)
    OBVIOUS
  <2>2. s.op = "components"
    BY <1>11 DEF Look
  <2>3. PICK n, looked :
           /\ looked = [s EXCEPT !.left[top] = @ \ {n}]
           /\ Continues(r, IF n \notin Range(s.found) THEN Opens(looked, n)
                           ELSE IF n \in Range(s.stack)
                           THEN [looked EXCEPT !.low[top] = Lower(@, Index(s, n))]
                           ELSE looked)
    BY <1>11, <2>1 DEF Look
  <2>4. "op" \in DOMAIN looked /\ looked.op = s.op
    BY <1>1, <2>3
  <2>. DEFINE opened == Opens(looked, n)
              lowered == [looked EXCEPT !.low[top] = Lower(@, Index(s, n))]
  <2>5. "op" \in DOMAIN opened /\ opened.op = s.op
    BY <2>4 DEF Opens
  <2>6. "op" \in DOMAIN lowered /\ lowered.op = s.op
    BY <2>4
  <2>7. Continues(r, opened) \/ Continues(r, lowered) \/ Continues(r, looked)
    BY <2>3
  <2>. HIDE DEF opened, lowered
  <2>8. PICK next : Continues(r, next) /\ "op" \in DOMAIN next /\ next.op = "components"
    BY <2>2, <2>4, <2>5, <2>6, <2>7
  <2>. QED  BY <1>11, <2>8, ContinuesTurns DEF MoveOps, MoveStep
<1>12. CASE Close(r)
  BY <1>1, <1>12, ContinuesTurns DEF Close, Closed, MoveOps, MoveStep
<1>13. CASE Answers(r)
  BY <1>13, AnswersTurns DEF MoveOps, MoveStep
<1>. QED
  BY <1>2, <1>3, <1>4, <1>5, <1>6, <1>7, <1>8, <1>9, <1>10, <1>11, <1>12, <1>13, <1>14
  DEF TaskOrdersStep, MigrationWavesStep

LEMMA OrdersTurns ==
    ASSUME ServingForm, NEW r \in Requests, TaskOrdersStep(r) \/ MigrationWavesStep(r)
    PROVE  Turns(r, OrdersOps)
  BY OrdersTurnsApart DEF Turns, OrdersOps

LEMMA ConnectionsTurns ==
    ASSUME ServingForm, NEW r \in Requests, ConnectionsStep(r)
    PROVE  Turns(r, ConnectionsOps)
<1>1. ASSUME NEW rows, NEW next, Changes(r, rows, next)
      PROVE  Turns(r, ConnectionsOps)
  <2>. DEFINE request == [op |-> "rewrite", rows |-> rows, next |-> next]
  <2>1. Starts(r, "connections", request) /\ "op" \in DOMAIN request /\ request.op = "rewrite"
    BY <1>1 DEF Changes, Asks
  <2>. HIDE DEF request
  <2>. QED  BY <2>1, StartsTurns DEF ConnectionsOps
<1>2. ASSUME NEW op \in {"test", "introspect", "list"}, NEW id, NEW target,
             Asks(r, [op |-> op, id |-> id, target |-> target])
      PROVE  Turns(r, ConnectionsOps)
  <2>. DEFINE request == [op |-> op, id |-> id, target |-> target]
  <2>1. Starts(r, "connections", request) /\ "op" \in DOMAIN request /\ request.op = op
    BY <1>2 DEF Asks
  <2>. HIDE DEF request
  <2>. QED  BY <2>1, StartsTurns DEF ConnectionsOps
<1>3. CASE \E id \in Saved : \E target \in Targets, keeps, entered \in BOOLEAN :
              Edit(r, id, target, keeps, entered)
  BY <1>1, <1>3 DEF Edit
<1>4. CASE \E id \in Saved : \E target \in Targets, keeps, entered \in BOOLEAN :
              SaveAgain(r, id, target, keeps, entered)
  BY <1>1, <1>4 DEF SaveAgain
<1>5. CASE \E id \in Saved : \E target \in Targets, keeps, entered \in BOOLEAN :
              SaveNew(r, id, target, keeps, entered)
  BY <1>1, <1>5 DEF SaveNew
<1>6. CASE \E id \in Saved : \E status \in {"active", "stopped"} : SetConnection(r, id, status)
  BY <1>1, <1>6 DEF SetConnection
<1>7. CASE \E id \in Saved : Delete(r, id)
  BY <1>1, <1>7 DEF Delete
<1>8. CASE \E id \in Saved : Test(r, id) \/ Introspect(r, id) \/ IntrospectUnlisted(r, id)
  BY <1>2, <1>8 DEF Test, Introspect, IntrospectUnlisted
<1>9. CASE (\E result \in {"ok", "failed", "unsupported"} : RecordTest(r, result)) \/ MarkTesting(r)
  BY <1>9, ContinuesTurns, AnswersTurns
  DEF RecordTest, MarkTesting, Rewrites, ServingForm, ConnectionsOps
<1>10. CASE \E ok \in BOOLEAN : RecordAnalysis(r, ok)
  BY <1>10, ContinuesTurns, AnswersTurns DEF RecordAnalysis, Rewrites, ServingForm, ConnectionsOps
<1>11. CASE Empties(r) \/ Fills(r)
  BY <1>11, ContinuesTurns DEF Empties, Fills, ServingForm, After, ConnectionsOps
<1>12. CASE Forget(r) \/ RecordInventory(r)
  BY <1>12, AnswersTurns DEF Forget, RecordInventory, ConnectionsOps
<1>. QED
  BY <1>3, <1>4, <1>5, <1>6, <1>7, <1>8, <1>9, <1>10, <1>11, <1>12 DEF ConnectionsStep

\* A step leaves the requests of all others, or the process of some dies.
OnlyTurns(ops) ==
    \/ \E r \in Requests : Turns(r, ops)
    \/ serving' = [r \in Requests |-> serving'[r]] /\
       \A r \in Requests : serving'[r] \in {serving[r], Idle}

LEMMA RestartTurns ==
    ASSUME ServingForm, NEW p \in Processes, Restart(p), NEW ops
    PROVE  OnlyTurns(ops)
  BY DEF ServingForm, Restart, Dies, OnlyTurns

LEMMA FormStays ==
    ASSUME ServingForm, NEW ops, OnlyTurns(ops), ops \cap {"rewrite", "fill"} = {}
    PROVE  ServingForm'
<1>1. CASE \E r \in Requests : Turns(r, ops)
  BY <1>1 DEF ServingForm, Turns
<1>2. CASE serving' = [r \in Requests |-> serving'[r]] /\
           \A r \in Requests : serving'[r] \in {serving[r], Idle}
  BY <1>2 DEF ServingForm, Idle
<1>. QED  BY <1>1, <1>2 DEF OnlyTurns

-----------------------------------------------------------------------------
(***************************************************************************)
(* Secrets.                                                                *)
(***************************************************************************)

\* A file whose rows keep a password only with the target it was entered for.
Sound(rows) ==
    \A id \in DOMAIN rows :
       /\ DOMAIN rows[id] = {"target", "status", "test", "analysis", "secret"}
       /\ rows[id].secret \in {None, rows[id].target}

RowsHeld ==
    \A r \in Requests : serving[r].op \in {"rewrite", "fill"} => Sound(serving[r].rows)

SecretsInv == ServingForm /\ Sound(connections) /\ RowsHeld

LEMMA SecretsElsewhere ==
    ASSUME SecretsInv, NEW ops, OnlyTurns(ops), ops \cap {"rewrite", "fill"} = {},
           UNCHANGED connections
    PROVE  SecretsInv'
<1>1. ServingForm'
  BY FormStays DEF SecretsInv
<1>2. RowsHeld'
  <2>1. CASE \E r \in Requests : Turns(r, ops)
    BY <2>1 DEF SecretsInv, RowsHeld, Turns, ServingForm
  <2>2. CASE \A r \in Requests : serving'[r] \in {serving[r], Idle}
    BY <2>2 DEF SecretsInv, RowsHeld, Idle
  <2>. QED  BY <2>1, <2>2 DEF OnlyTurns
<1>. QED  BY <1>1, <1>2 DEF SecretsInv, Sound

\* One that begins to write sound rows, to do no more than After then.
LEMMA SoundRewrite ==
    ASSUME SecretsInv, NEW r \in Requests, NEW request,
           serving' = [serving EXCEPT ![r] = request],
           DOMAIN request = {"op", "rows", "next"}, request.op \in {"rewrite", "fill"},
           Sound(request.rows), "op" \in DOMAIN request.next, request.next.op \in After,
           Sound(connections')
    PROVE  SecretsInv'
<1>1. ServingForm'
  BY DEF SecretsInv, ServingForm
<1>2. RowsHeld'
  BY DEF SecretsInv, RowsHeld, ServingForm
<1>. QED  BY <1>1, <1>2 DEF SecretsInv

LEMMA SoundRewriteTo ==
    ASSUME SecretsInv, NEW r \in Requests, NEW rows, NEW next,
           serving' = [serving EXCEPT ![r] = [op |-> "rewrite", rows |-> rows, next |-> next]],
           Sound(rows), "op" \in DOMAIN next, next.op \in After,
           Sound(connections')
    PROVE  SecretsInv'
<1>. DEFINE request == [op |-> "rewrite", rows |-> rows, next |-> next]
<1>1. /\ DOMAIN request = {"op", "rows", "next"} /\ request.op = "rewrite"
      /\ request.rows = rows /\ request.next = next
  OBVIOUS
<1>2. serving' = [serving EXCEPT ![r] = request]
  OBVIOUS
<1>. HIDE DEF request
<1>. QED  BY <1>1, <1>2, SoundRewrite

\* One that does anything else.
LEMMA SoundOtherwise ==
    ASSUME SecretsInv, NEW r \in Requests, NEW request,
           serving' = [serving EXCEPT ![r] = request],
           "op" \in DOMAIN request, request.op \notin {"rewrite", "fill"},
           Sound(connections')
    PROVE  SecretsInv'
<1>1. ServingForm'
  BY DEF SecretsInv, ServingForm
<1>2. RowsHeld'
  BY DEF SecretsInv, RowsHeld, ServingForm
<1>. QED  BY <1>1, <1>2 DEF SecretsInv

\* A row whose secret and target stay may replace another.
LEMMA SoundChange ==
    ASSUME NEW rows, Sound(rows), NEW id \in DOMAIN rows, NEW row,
           DOMAIN row = DOMAIN rows[id], row.secret \in {None, row.target}
    PROVE  Sound([rows EXCEPT ![id] = row])
  BY DEF Sound

LEMMA SecretsStep ==
    ASSUME SecretsInv, NEW r \in Requests, ConnectionsStep(r)
    PROVE  SecretsInv'
<1>. USE DEF SecretsInv
<1>1. ASSUME NEW rows, NEW next, Changes(r, rows, next), Sound(rows),
             "op" \in DOMAIN next, next.op \in After
      PROVE  SecretsInv'
  <2>1. serving' = [serving EXCEPT ![r] = [op |-> "rewrite", rows |-> rows, next |-> next]]
    BY <1>1 DEF Changes, Asks, Starts
  <2>2. Sound(connections')
    BY <1>1 DEF Changes, Asks, connectionsVars
  <2>. QED  BY <1>1, <2>1, <2>2, SoundRewriteTo
<1>2. ASSUME NEW rows, NEW next, Rewrites(r, rows, next), UNCHANGED connections, Sound(rows),
             "op" \in DOMAIN next, next.op \in After
      PROVE  SecretsInv'
  <2>1. serving' = [serving EXCEPT ![r] = [op |-> "rewrite", rows |-> rows, next |-> next]]
    BY <1>2 DEF Rewrites, Continues
  <2>. QED  BY <1>2, <2>1, SoundRewriteTo
<1>3. "op" \in DOMAIN Idle /\ Idle.op = "idle" /\ Idle.op \in After
  BY DEF Idle, After
<1>4. CASE \E id \in Saved : \E target \in Targets, keeps, entered \in BOOLEAN :
              Edit(r, id, target, keeps, entered)
  <2>1. PICK id \in DOMAIN connections, target \in Targets, keeps \in BOOLEAN, entered \in BOOLEAN :
           Changes(r, [connections EXCEPT ![id] = Edited(connections[id], target, keeps, entered)], Idle)
    BY <1>4 DEF Edit
  <2>. DEFINE row == Edited(connections[id], target, keeps, entered)
  <2>2. DOMAIN row = DOMAIN connections[id] /\ row.secret \in {None, row.target}
    BY DEF Edited, Kept, Sound
  <2>. HIDE DEF row
  <2>3. Sound([connections EXCEPT ![id] = row])
    BY <2>2, SoundChange
  <2>. QED  BY <1>1, <1>3, <2>1, <2>3 DEF row
<1>5. CASE \E id \in Saved : \E target \in Targets, keeps, entered \in BOOLEAN :
              SaveAgain(r, id, target, keeps, entered)
  <2>1. PICK id \in DOMAIN connections, target \in Targets, keeps \in BOOLEAN, entered \in BOOLEAN :
           /\ connections[id].target = target
           /\ Changes(r, [connections EXCEPT ![id].secret =
                            IF keeps /\ entered THEN target ELSE @], Idle)
    BY <1>5 DEF SaveAgain
  <2>. DEFINE row == [connections[id] EXCEPT !.secret = IF keeps /\ entered THEN target ELSE @]
  <2>2. DOMAIN row = DOMAIN connections[id] /\ row.secret \in {None, row.target}
    BY <2>1 DEF Sound
  <2>3. Changes(r, [connections EXCEPT ![id] = row], Idle)
    BY <2>1
  <2>. HIDE DEF row
  <2>4. Sound([connections EXCEPT ![id] = row])
    BY <2>2, SoundChange
  <2>. QED  BY <1>1, <1>3, <2>3, <2>4
<1>6. CASE \E id \in Saved : \E target \in Targets, keeps, entered \in BOOLEAN :
              SaveNew(r, id, target, keeps, entered)
  <2>1. PICK id \in Saved, target \in Targets, keeps \in BOOLEAN, entered \in BOOLEAN :
           SaveNew(r, id, target, keeps, entered)
    BY <1>6
  <2>. DEFINE row == [target |-> target, status |-> "active", test |-> NoTest, analysis |-> None,
                      secret |-> IF keeps /\ entered THEN target ELSE None]
              rows == [other \in DOMAIN connections \cup {id} |->
                         IF other = id THEN row ELSE connections[other]]
  <2>2. /\ DOMAIN row = {"target", "status", "test", "analysis", "secret"}
        /\ row.secret \in {None, row.target}
    OBVIOUS
  <2>3. Changes(r, rows, Idle)
    BY <2>1, Zenon DEF SaveNew
  <2>. HIDE DEF row
  <2>4. Sound(rows)
    BY <2>2 DEF Sound
  <2>. HIDE DEF rows
  <2>. QED  BY <1>1, <1>3, <2>3, <2>4
<1>7. CASE \E id \in Saved : \E status \in {"active", "stopped"} : SetConnection(r, id, status)
  <2>1. PICK id \in DOMAIN connections, status \in {"active", "stopped"} :
           Changes(r, [connections EXCEPT ![id].status = status], Idle)
    BY <1>7 DEF SetConnection
  <2>. DEFINE row == [connections[id] EXCEPT !.status = status]
  <2>2. DOMAIN row = DOMAIN connections[id] /\ row.secret \in {None, row.target}
    BY DEF Sound
  <2>3. Changes(r, [connections EXCEPT ![id] = row], Idle)
    BY <2>1
  <2>. HIDE DEF row
  <2>4. Sound([connections EXCEPT ![id] = row])
    BY <2>2, SoundChange
  <2>. QED  BY <1>1, <1>3, <2>3, <2>4
<1>8. CASE \E id \in Saved : Delete(r, id)
  <2>1. PICK id \in Saved :
           Changes(r, [other \in DOMAIN connections \ {id} |-> connections[other]],
                   [op |-> "forget", id |-> id])
    BY <1>8 DEF Delete
  <2>2. Sound([other \in DOMAIN connections \ {id} |-> connections[other]])
    BY DEF Sound
  <2>. QED  BY <1>1, <2>1, <2>2 DEF After
<1>9. CASE \E id \in Saved : Test(r, id) \/ Introspect(r, id) \/ IntrospectUnlisted(r, id)
  <2>1. PICK op \in {"test", "introspect", "list"} :
           \E id, target : Asks(r, [op |-> op, id |-> id, target |-> target])
    BY <1>9 DEF Test, Introspect, IntrospectUnlisted
  <2>2. PICK id, target : Asks(r, [op |-> op, id |-> id, target |-> target])
    BY <2>1
  <2>. DEFINE request == [op |-> op, id |-> id, target |-> target]
  <2>3. serving' = [serving EXCEPT ![r] = request] /\ Sound(connections')
    BY <2>2 DEF Asks, Starts, connectionsVars
  <2>4. "op" \in DOMAIN request /\ request.op \notin {"rewrite", "fill"}
    OBVIOUS
  <2>. HIDE DEF request
  <2>. QED  BY <2>3, <2>4, SoundOtherwise
<1>10. ASSUME NEW id \in DOMAIN connections, NEW test
       PROVE  Sound(WithTest(id, test))
  <2>. DEFINE row == [connections[id] EXCEPT !.test = test]
  <2>1. DOMAIN row = DOMAIN connections[id] /\ row.secret \in {None, row.target}
    BY DEF Sound
  <2>2. WithTest(id, test) = [connections EXCEPT ![id] = row]
    BY DEF WithTest
  <2>. HIDE DEF row
  <2>3. Sound([connections EXCEPT ![id] = row])
    BY <2>1, SoundChange
  <2>. QED  BY <2>2, <2>3, Zenon
<1>11. CASE \E result \in {"ok", "failed", "unsupported"} : RecordTest(r, result)
  <2>1. UNCHANGED connections
    BY <1>11 DEF RecordTest, connectionsVars
  <2>2. \/ Answers(r)
        \/ \E id \in DOMAIN connections : \E test : Rewrites(r, WithTest(id, test), Idle)
    BY <1>11, Zenon DEF RecordTest
  <2>3. CASE Answers(r)
    BY <1>3, <2>1, <2>3, SoundOtherwise DEF Answers, Continues
  <2>4. CASE \E id \in DOMAIN connections : \E test : Rewrites(r, WithTest(id, test), Idle)
    <3>1. PICK id : id \in DOMAIN connections /\ \E test : Rewrites(r, WithTest(id, test), Idle)
      BY <2>4
    <3>2. PICK test : Rewrites(r, WithTest(id, test), Idle)
      BY <3>1
    <3>3. Sound(WithTest(id, test))
      BY <1>10, <3>1
    <3>. QED  BY <1>2, <1>3, <2>1, <3>2, <3>3
  <2>. QED  BY <2>2, <2>3, <2>4
<1>12. CASE MarkTesting(r)
  <2>. DEFINE probe == [serving[r] EXCEPT !.op = "probe"]
  <2>1. "op" \in DOMAIN probe /\ probe.op = "probe"
    BY DEF ServingForm
  <2>2. UNCHANGED connections
    BY <1>12 DEF MarkTesting, connectionsVars
  <2>3. \/ Continues(r, probe)
        \/ \E id \in DOMAIN connections :
              Rewrites(r, WithTest(id, Evidence("testing", None)), probe)
    BY <1>12 DEF MarkTesting
  <2>. HIDE DEF probe
  <2>4. CASE Continues(r, probe)
    BY <2>1, <2>2, <2>4, SoundOtherwise DEF Continues
  <2>5. CASE \E id \in DOMAIN connections :
                Rewrites(r, WithTest(id, Evidence("testing", None)), probe)
    BY <1>2, <1>10, <2>1, <2>2, <2>5 DEF After
  <2>. QED  BY <2>3, <2>4, <2>5
<1>13. CASE \E ok \in BOOLEAN : RecordAnalysis(r, ok)
  <2>. DEFINE list == [serving[r] EXCEPT !.op = "list"]
  <2>1. "op" \in DOMAIN list /\ list.op = "list"
    BY DEF ServingForm
  <2>2. UNCHANGED connections
    BY <1>13 DEF RecordAnalysis, connectionsVars
  <2>3. \/ Answers(r)
        \/ Continues(r, list)
        \/ \E id \in DOMAIN connections :
              Rewrites(r, [connections EXCEPT ![id].analysis = serving[r].target], list)
    BY <1>13 DEF RecordAnalysis
  <2>. HIDE DEF list
  <2>4. CASE Answers(r)
    BY <1>3, <2>2, <2>4, SoundOtherwise DEF Answers, Continues
  <2>5. CASE Continues(r, list)
    BY <2>1, <2>2, <2>5, SoundOtherwise DEF Continues
  <2>6. CASE \E id \in DOMAIN connections :
                Rewrites(r, [connections EXCEPT ![id].analysis = serving[r].target], list)
    <3>1. PICK id \in DOMAIN connections :
             Rewrites(r, [connections EXCEPT ![id].analysis = serving[r].target], list)
      BY <2>6
    <3>. DEFINE row == [connections[id] EXCEPT !.analysis = serving[r].target]
    <3>2. DOMAIN row = DOMAIN connections[id] /\ row.secret \in {None, row.target}
      BY DEF Sound
    <3>3. Rewrites(r, [connections EXCEPT ![id] = row], list)
      BY <3>1
    <3>. HIDE DEF row
    <3>4. Sound([connections EXCEPT ![id] = row])
      BY <3>2, SoundChange
    <3>. QED  BY <1>2, <2>1, <2>2, <3>3, <3>4 DEF After
  <2>. QED  BY <2>3, <2>4, <2>5, <2>6
<1>14. CASE Empties(r)
  <2>. DEFINE request == [serving[r] EXCEPT !.op = "fill"]
  <2>1. serving' = [serving EXCEPT ![r] = request] /\ connections' = <<>>
    BY <1>14 DEF Empties, Continues
  <2>2. /\ DOMAIN request = {"op", "rows", "next"} /\ request.op = "fill"
        /\ Sound(request.rows) /\ "op" \in DOMAIN request.next /\ request.next.op \in After
    BY <1>14 DEF Empties, ServingForm, RowsHeld
  <2>3. Sound(connections')
    BY <2>1 DEF Sound
  <2>. HIDE DEF request
  <2>. QED  BY <2>1, <2>2, <2>3, SoundRewrite
<1>15. CASE Fills(r)
  <2>1. /\ serving' = [serving EXCEPT ![r] = serving[r].next]
        /\ Sound(connections')
        /\ "op" \in DOMAIN serving[r].next /\ serving[r].next.op \in After
    BY <1>15 DEF Fills, Continues, ServingForm, RowsHeld
  <2>. QED  BY <2>1, SoundOtherwise DEF After
<1>16. CASE Forget(r) \/ RecordInventory(r)
  BY <1>3, <1>16, SoundOtherwise DEF Forget, RecordInventory, Answers, Continues
<1>. QED
  BY <1>4, <1>5, <1>6, <1>7, <1>8, <1>9, <1>11, <1>12, <1>13, <1>14, <1>15, <1>16
  DEF ConnectionsStep

LEMMA SecretsAlways == Spec => []SecretsInv
<1>1. Init => SecretsInv
  BY DEF Init, WorkersInit, SecretsInv, ServingForm, Sound, RowsHeld, Idle
<1>2. SecretsInv /\ [Next]_vars => SecretsInv'
  <2>. SUFFICES ASSUME SecretsInv, [Next]_vars PROVE SecretsInv'
    OBVIOUS
  <2>. USE DEF SecretsInv
  <2>1. ASSUME NEW r \in Requests, WorkspacesStep(r), UNCHANGED connectionsVars PROVE SecretsInv'
    BY <2>1, PeopleTurns, SecretsElsewhere DEF OnlyTurns, PeopleOps, connectionsVars
  <2>2. ASSUME NEW r \in Requests, AgentsStep(r), UNCHANGED connectionsVars PROVE SecretsInv'
    BY <2>2, AgentsTurns, SecretsElsewhere DEF OnlyTurns, AgentsOps, connectionsVars
  <2>3. ASSUME NEW r \in Requests, TaskOrdersStep(r) \/ MigrationWavesStep(r),
               UNCHANGED connectionsVars
        PROVE  SecretsInv'
    BY <2>3, OrdersTurns, SecretsElsewhere
    DEF OnlyTurns, OrdersOps, SortOps, SearchOps, MoveOps, connectionsVars
  <2>4. ASSUME NEW r \in Requests, ConnectionsStep(r) PROVE SecretsInv'
    BY <2>4, SecretsStep
  <2>5. ASSUME NEW p \in Processes, Restart(p), UNCHANGED connectionsVars PROVE SecretsInv'
    <3>1. OnlyTurns(PeopleOps)
      BY <2>5, RestartTurns
    <3>. QED  BY <2>5, <3>1, SecretsElsewhere DEF PeopleOps, connectionsVars
  <2>6. CASE UNCHANGED vars
    BY <2>6 DEF vars, connectionsVars, ServingForm, Sound, RowsHeld
  <2>. QED  BY <2>1, <2>2, <2>3, <2>4, <2>5, <2>6 DEF Next
<1>. QED  BY <1>1, <1>2, PTL DEF Spec

\* save_connection: a saved password stays with the target it was entered for,
\* whatever edits, tests and stops of any number of handlers overwrite each other.
THEOREM SecretsStayTrue == Spec => []SecretsMatchTarget
<1>1. SecretsInv => SecretsMatchTarget
  BY DEF SecretsInv, Sound, SecretsMatchTarget
<1>. QED  BY <1>1, SecretsAlways, PTL

-----------------------------------------------------------------------------
(***************************************************************************)
(* The account owner.                                                      *)
(***************************************************************************)

OnlyOwner(o) == \A u \in Users : accounts[u].role = "owner" <=> u = o

OwnerKept == Known # {} => \E o \in Users : OnlyOwner(o)

AccountsTyped == accounts \in [Users -> [role : Roles \cup {"none"}, active : BOOLEAN]]

\* Whoever is invited or has a status was named by one who has an account.
AccountsHeld ==
    \A r \in Requests :
       /\ serving[r].op \in {"signup", "invite_account", "status"} => serving[r].user \in Users
       /\ serving[r].op = "status" => serving[r].active \in BOOLEAN
       /\ serving[r].op \in {"invite_account", "status"} => Known # {}

OwnerInv == ServingForm /\ AccountsTyped /\ OwnerKept /\ AccountsHeld

LEMMA OwnerElsewhere ==
    ASSUME OwnerInv, NEW ops, OnlyTurns(ops),
           ops \cap {"signup", "invite_account", "status"} = {},
           UNCHANGED accounts, ServingForm'
    PROVE  OwnerInv'
<1>1. AccountsTyped' /\ OwnerKept' /\ Known' = Known
  BY DEF OwnerInv, AccountsTyped, OwnerKept, OnlyOwner, Known
<1>2. AccountsHeld'
  <2>1. CASE \E r \in Requests : Turns(r, ops)
    BY <1>1, <2>1 DEF OwnerInv, AccountsHeld, Turns, ServingForm
  <2>2. CASE \A r \in Requests : serving'[r] \in {serving[r], Idle}
    BY <1>1, <2>2 DEF OwnerInv, AccountsHeld, Idle
  <2>. QED  BY <2>1, <2>2 DEF OnlyTurns
<1>. QED  BY <1>1, <1>2 DEF OwnerInv

\* A request is started with what an active account names.
LEMMA OwnerAsked ==
    ASSUME OwnerInv, NEW r \in Requests, NEW request, "op" \in DOMAIN request,
           serving' = [serving EXCEPT ![r] = request], UNCHANGED accounts,
           request.op \in PeopleOps,
           request.op \in {"signup", "invite_account", "status"} => request.user \in Users,
           request.op = "status" => request.active \in BOOLEAN,
           request.op \in {"invite_account", "status"} => Known # {}
    PROVE  OwnerInv'
<1>1. ServingForm'
  BY DEF OwnerInv, ServingForm, PeopleOps
<1>2. AccountsTyped' /\ OwnerKept' /\ Known' = Known
  BY DEF OwnerInv, AccountsTyped, OwnerKept, OnlyOwner, Known
<1>3. AccountsHeld'
  BY <1>2 DEF OwnerInv, AccountsHeld, ServingForm
<1>. QED  BY <1>1, <1>2, <1>3 DEF OwnerInv

\* One account is written, and there is an owner then.
LEMMA OwnerWritten ==
    ASSUME OwnerInv, NEW r \in Requests, NEW request, "op" \in DOMAIN request,
           serving' = [serving EXCEPT ![r] = request],
           request.op \in {"idle", "invite", "signup_space"},
           AccountsTyped', \E o \in Users : OnlyOwner(o)'
    PROVE  OwnerInv'
<1>1. ServingForm'
  BY DEF OwnerInv, ServingForm
<1>2. OwnerKept' /\ Known' # {}
  BY DEF OwnerKept, OnlyOwner, Known, NoAccount
<1>3. AccountsHeld'
  BY <1>2 DEF OwnerInv, AccountsHeld, ServingForm
<1>. QED  BY <1>1, <1>2, <1>3 DEF OwnerInv

LEMMA OwnerStep ==
    ASSUME OwnerInv, NEW r \in Requests, WorkspacesStep(r)
    PROVE  OwnerInv'
<1>. USE DEF OwnerInv
<1>1. ASSUME NEW v \in Users, NEW w, NEW roles, Acts(v, w, roles) PROVE Known # {}
  BY <1>1 DEF Acts, Known, NoAccount
<1>2. ASSUME NEW request, Starts(r, "people", request), UNCHANGED accounts,
             "op" \in DOMAIN request, request.op \in PeopleOps,
             request.op \in {"signup", "invite_account", "status"} => request.user \in Users,
             request.op = "status" => request.active \in BOOLEAN,
             request.op \in {"invite_account", "status"} => Known # {}
      PROVE  OwnerInv'
  BY <1>2, OwnerAsked DEF Starts
<1>3. CASE \E u \in Users : SignUp(r, u)
  <2>1. PICK u \in Users : SignUp(r, u)
    BY <1>3
  <2>. DEFINE request == [op |-> "signup", user |-> u, first |-> Known = {}]
  <2>2. Starts(r, "people", request) /\ UNCHANGED accounts
    BY <2>1 DEF SignUp, workspacesVars
  <2>3. "op" \in DOMAIN request /\ request.op = "signup" /\ request.user = u
    OBVIOUS
  <2>. HIDE DEF request
  <2>. QED  BY <1>2, <2>2, <2>3 DEF PeopleOps
<1>4. CASE \E v \in Users, w \in Spaces : CreateSpace(r, v, w)
  BY <1>2, <1>4 DEF CreateSpace, Idle, PeopleOps
<1>5. CASE \E v \in Users, w \in Spaces : \E u \in Users : \E role \in Roles :
              Invite(r, v, w, u, role)
  <2>1. PICK v \in Users, w \in Spaces, u \in Users, role \in Roles : Invite(r, v, w, u, role)
    BY <1>5
  <2>. DEFINE request == [op |-> InviteStep(u), space |-> w, user |-> u, role |-> role]
  <2>2. Starts(r, "people", request) /\ UNCHANGED accounts
    BY <2>1 DEF Invite, workspacesVars
  <2>3. /\ "op" \in DOMAIN request /\ request.op \in {"invite", "invite_account"}
        /\ request.user = u
    BY DEF InviteStep
  <2>4. Known # {}
    BY <1>1, <2>1 DEF Invite
  <2>. HIDE DEF request
  <2>. QED  BY <1>2, <2>2, <2>3, <2>4 DEF PeopleOps
<1>6. CASE \E v \in Users, w \in Spaces : \E u \in Users : \E role \in Roles \cup {"none"} :
              ChangeRole(r, v, w, u, role)
  <2>1. PICK v \in Users, w \in Spaces, u \in Users, role \in Roles \cup {"none"} :
           ChangeRole(r, v, w, u, role)
    BY <1>6
  <2>. DEFINE request == [op |-> "role", space |-> w, user |-> u, role |-> role]
  <2>2. Starts(r, "people", request) /\ UNCHANGED accounts
    BY <2>1 DEF ChangeRole, workspacesVars
  <2>3. "op" \in DOMAIN request /\ request.op = "role"
    OBVIOUS
  <2>. HIDE DEF request
  <2>. QED  BY <1>2, <2>2, <2>3 DEF PeopleOps
<1>7. CASE \E v \in Users, w \in Spaces : \E u \in Users : \E active \in BOOLEAN :
              ChangeStatus(r, v, w, u, active)
  <2>1. PICK v \in Users, w \in Spaces, u \in Users, active \in BOOLEAN :
           ChangeStatus(r, v, w, u, active)
    BY <1>7
  <2>. DEFINE request == [op |-> "status", user |-> u, active |-> active]
  <2>2. Starts(r, "people", request) /\ UNCHANGED accounts
    BY <2>1 DEF ChangeStatus, workspacesVars
  <2>3. /\ "op" \in DOMAIN request /\ request.op = "status"
        /\ request.user = u /\ request.active = active
    OBVIOUS
  <2>4. Known # {}
    BY <1>1, <2>1 DEF ChangeStatus
  <2>. HIDE DEF request
  <2>. QED  BY <1>2, <2>2, <2>3, <2>4 DEF PeopleOps
<1>8. "op" \in DOMAIN Idle /\ Idle.op = "idle"
  BY DEF Idle
<1>9. ASSUME Answers(r), UNCHANGED accounts PROVE OwnerInv'
  BY <1>8, <1>9, OwnerAsked DEF Answers, Continues, PeopleOps
<1>10. CASE SignUpAccount(r)
  <2>. DEFINE s == serving[r]
              account == [role |-> AccountRole(r), active |-> TRUE]
              request == [s EXCEPT !.op = "signup_space"]
  <2>1. CASE s.user \in Known
    BY <1>9, <1>10, <2>1 DEF SignUpAccount
  <2>2. CASE s.user \notin Known
    <3>1. /\ accounts' = [accounts EXCEPT ![s.user] = account]
          /\ serving' = [serving EXCEPT ![r] = request]
      BY <1>10, <2>2 DEF SignUpAccount, Continues
    <3>2. s.user \in Users /\ accounts[s.user] = NoAccount
      BY <1>10, <2>2 DEF SignUpAccount, AccountsHeld, Known
    <3>3. "op" \in DOMAIN request /\ request.op = "signup_space"
      BY DEF ServingForm
    <3>. HIDE DEF request
    <3>4. AccountsTyped'
      BY <3>1, <3>2 DEF AccountsTyped, AccountRole, Roles
    <3>5. CASE Known = {}
      <4>1. \A u \in Users : accounts[u] = NoAccount
        BY <3>5 DEF Known
      <4>2. accounts'[s.user].role = "owner"
        BY <3>1, <3>2, <3>5 DEF AccountRole, AccountsTyped
      <4>3. \A u \in Users \ {s.user} : accounts'[u].role = "none"
        BY <3>1, <4>1 DEF AccountsTyped, NoAccount
      <4>4. \A u \in Users : accounts'[u].role = "owner" <=> u = s.user
        BY <4>2, <4>3
      <4>. QED  BY <3>1, <3>2, <3>3, <3>4, <4>4, OwnerWritten DEF OnlyOwner
    <3>6. CASE Known # {}
      <4>1. PICK o \in Users : OnlyOwner(o)
        BY <3>6 DEF OwnerKept
      <4>2. accounts'[s.user].role = "engineer"
        BY <3>1, <3>2, <3>6 DEF AccountRole, AccountsTyped
      <4>3. s.user # o
        BY <3>2, <4>1 DEF OnlyOwner, NoAccount
      <4>4. \A u \in Users \ {s.user} : accounts'[u] = accounts[u]
        BY <3>1 DEF AccountsTyped
      <4>5. \A u \in Users : accounts'[u].role = "owner" <=> u = o
        BY <4>1, <4>2, <4>3, <4>4 DEF OnlyOwner
      <4>. QED  BY <3>1, <3>3, <3>4, <4>5, OwnerWritten DEF OnlyOwner
    <3>. QED  BY <3>5, <3>6
  <2>. QED  BY <2>1, <2>2
<1>11. CASE InviteAccount(r)
  <2>. DEFINE s == serving[r]
              account == [role |-> "viewer", active |-> TRUE]
              request == [s EXCEPT !.op = "invite"]
  <2>1. CASE s.user \in Known
    BY <1>9, <1>11, <2>1 DEF InviteAccount
  <2>2. CASE s.user \notin Known
    <3>1. /\ accounts' = [accounts EXCEPT ![s.user] = account]
          /\ serving' = [serving EXCEPT ![r] = request]
      BY <1>11, <2>2 DEF InviteAccount, Continues
    <3>2. s.user \in Users /\ accounts[s.user] = NoAccount /\ Known # {}
      BY <1>11, <2>2 DEF InviteAccount, AccountsHeld, Known
    <3>3. "op" \in DOMAIN request /\ request.op = "invite"
      BY DEF ServingForm
    <3>. HIDE DEF request
    <3>4. AccountsTyped'
      BY <3>1, <3>2 DEF AccountsTyped, Roles
    <3>5. PICK o \in Users : OnlyOwner(o)
      BY <3>2 DEF OwnerKept
    <3>6. accounts'[s.user].role = "viewer"
      BY <3>1, <3>2 DEF AccountsTyped
    <3>7. s.user # o
      BY <3>2, <3>5 DEF OnlyOwner, NoAccount
    <3>8. \A u \in Users \ {s.user} : accounts'[u] = accounts[u]
      BY <3>1 DEF AccountsTyped
    <3>9. \A u \in Users : accounts'[u].role = "owner" <=> u = o
      BY <3>5, <3>6, <3>7, <3>8 DEF OnlyOwner
    <3>. QED  BY <3>1, <3>3, <3>4, <3>9, OwnerWritten DEF OnlyOwner
  <2>. QED  BY <2>1, <2>2
<1>12. CASE SetStatus(r)
  <2>. DEFINE s == serving[r]
  <2>1. /\ accounts' \in {accounts, [accounts EXCEPT ![s.user].active = s.active]}
        /\ serving' = [serving EXCEPT ![r] = Idle]
    BY <1>12 DEF SetStatus, Answers, Continues
  <2>2. s.user \in Users /\ s.active \in BOOLEAN /\ Known # {}
    BY <1>12 DEF SetStatus, AccountsHeld
  <2>3. AccountsTyped'
    BY <2>1, <2>2 DEF AccountsTyped
  <2>4. PICK o \in Users : OnlyOwner(o)
    BY <2>2 DEF OwnerKept
  <2>5. \A u \in Users : accounts'[u].role = accounts[u].role
    BY <2>1, <2>2 DEF AccountsTyped
  <2>6. \A u \in Users : accounts'[u].role = "owner" <=> u = o
    BY <2>4, <2>5 DEF OnlyOwner
  <2>. QED  BY <1>8, <2>1, <2>3, <2>6, OwnerWritten DEF OnlyOwner
<1>13. CASE SignUpSpace(r) \/ InviteMember(r) \/ SetRole(r)
  BY <1>9, <1>13 DEF SignUpSpace, InviteMember, SetRole
<1>. QED
  BY <1>3, <1>4, <1>5, <1>6, <1>7, <1>10, <1>11, <1>12, <1>13 DEF WorkspacesStep

LEMMA OwnerAlways == Spec => []OwnerInv
<1>1. Init => OwnerInv
  <2>. SUFFICES ASSUME Init PROVE OwnerInv
    OBVIOUS
  <2>1. ServingForm /\ AccountsHeld
    BY DEF Init, WorkersInit, ServingForm, AccountsHeld, Idle
  <2>2. CASE accounts = [u \in Users |-> NoAccount]
    BY <2>1, <2>2 DEF OwnerInv, AccountsTyped, OwnerKept, Known, NoAccount
  <2>3. CASE Staffed
    <3>1. PICK o \in Users : accounts = [u \in Users |-> [active |-> TRUE,
                                role |-> IF u = o THEN "owner" ELSE "viewer"]]
      BY <2>3 DEF Staffed
    <3>2. OnlyOwner(o)
      BY <3>1 DEF OnlyOwner
    <3>3. AccountsTyped
      BY <3>1 DEF AccountsTyped, Roles
    <3>. QED  BY <2>1, <3>2, <3>3 DEF OwnerInv, OwnerKept
  <2>. QED  BY <2>2, <2>3 DEF Init, Empty, Planning, Ordering, Connecting
<1>2. OwnerInv /\ ServingForm' /\ [Next]_vars => OwnerInv'
  <2>. SUFFICES ASSUME OwnerInv, ServingForm', [Next]_vars PROVE OwnerInv'
    OBVIOUS
  <2>. USE DEF OwnerInv
  <2>1. ASSUME NEW r \in Requests, WorkspacesStep(r) PROVE OwnerInv'
    BY <2>1, OwnerStep
  <2>2. ASSUME NEW r \in Requests, AgentsStep(r), UNCHANGED accounts PROVE OwnerInv'
    <3>1. OnlyTurns(AgentsOps)
      BY <2>2, AgentsTurns DEF OnlyTurns
    <3>. QED  BY <2>2, <3>1, OwnerElsewhere DEF AgentsOps
  <2>3. ASSUME NEW r \in Requests, TaskOrdersStep(r) \/ MigrationWavesStep(r),
               UNCHANGED accounts
        PROVE  OwnerInv'
    <3>1. OnlyTurns(OrdersOps)
      BY <2>3, OrdersTurns DEF OnlyTurns
    <3>. QED  BY <2>3, <3>1, OwnerElsewhere DEF OrdersOps, SortOps, SearchOps, MoveOps
  <2>4. ASSUME NEW r \in Requests, ConnectionsStep(r), UNCHANGED accounts PROVE OwnerInv'
    <3>1. OnlyTurns(ConnectionsOps)
      BY <2>4, ConnectionsTurns DEF OnlyTurns
    <3>. QED  BY <2>4, <3>1, OwnerElsewhere DEF ConnectionsOps
  <2>5. ASSUME NEW p \in Processes, Restart(p) PROVE OwnerInv'
    <3>1. OnlyTurns(AgentsOps) /\ UNCHANGED accounts
      BY <2>5, RestartTurns DEF Restart
    <3>. QED  BY <3>1, OwnerElsewhere DEF AgentsOps
  <2>6. CASE UNCHANGED vars
    BY <2>6 DEF vars, workspacesVars, AccountsTyped, OwnerKept, OnlyOwner, Known, AccountsHeld
  <2>7. ASSUME NEW r \in Requests, AgentsStep(r) PROVE UNCHANGED accounts
    BY <2>7 DEF AgentsStep, Plan, Planned, StartRun, RunAgent, SkipAgent, WriteReport, Truncate,
                Consider, DecideRequest, ClaimRequest, ReadTrail, workspacesVars
  <2>. QED
    BY <2>1, <2>2, <2>3, <2>4, <2>5, <2>6, <2>7 DEF Next, workspacesVars
<1>3. SecretsInv => ServingForm
  BY DEF SecretsInv
<1>. QED  BY <1>1, <1>2, <1>3, SecretsAlways, PTL DEF Spec

\* AuthStore.create_user: an instance has one account owner from its first
\* account on, whoever signs up, is invited or removed at the same time.
THEOREM AlwaysOneOwner == Spec => []OneAccountOwner
<1>1. OwnerInv => OneAccountOwner
  <2>. SUFFICES ASSUME OwnerInv, Known # {}
                PROVE  Cardinality({u \in Users : accounts[u].role = "owner"}) = 1
    BY DEF OneAccountOwner
  <2>1. PICK o \in Users : OnlyOwner(o)
    BY DEF OwnerInv, OwnerKept
  <2>2. {u \in Users : accounts[u].role = "owner"} = {o}
    BY <2>1 DEF OnlyOwner
  <2>. QED  BY <2>2, FS_Singleton
<1>. QED  BY <1>1, OwnerAlways, PTL

-----------------------------------------------------------------------------
(***************************************************************************)
(* The owners of the workspaces, while one process serves every request:   *)
(* one request at a time is being served then, so that what it checked     *)
(* still holds when it writes.                                             *)
(***************************************************************************)

OneProcess == \A r, q \in Requests : process[r] = process[q]

OneAtATime ==
    \A r, q \in Requests : serving[r].op # "idle" /\ serving[q].op # "idle" => r = q

\* A request turns only when no other of its process is being served.
Takes(r) ==
    /\ \/ serving[r].op # "idle"
       \/ \A q \in Requests : process[q] = process[r] => serving[q] = Idle
    /\ UNCHANGED process

LEMMA PeopleTake ==
    ASSUME NEW r \in Requests, WorkspacesStep(r)
    PROVE  Takes(r)
<1>1. CASE \/ \E u \in Users : SignUp(r, u)
           \/ \E v \in Users, w \in Spaces :
                 \/ CreateSpace(r, v, w)
                 \/ \E u \in Users :
                       \/ \E role \in Roles : Invite(r, v, w, u, role)
                       \/ \E role \in Roles \cup {"none"} : ChangeRole(r, v, w, u, role)
                       \/ \E active \in BOOLEAN : ChangeStatus(r, v, w, u, active)
  <2>1. \E request : Starts(r, "people", request)
    <3>1. CASE \E u \in Users : SignUp(r, u)
      BY <3>1, Zenon DEF SignUp
    <3>2. ASSUME NEW v \in Users, NEW w \in Spaces,
                 \/ CreateSpace(r, v, w)
                 \/ \E u \in Users :
                       \/ \E role \in Roles : Invite(r, v, w, u, role)
                       \/ \E role \in Roles \cup {"none"} : ChangeRole(r, v, w, u, role)
                       \/ \E active \in BOOLEAN : ChangeStatus(r, v, w, u, active)
          PROVE  \E request : Starts(r, "people", request)
      <4>1. CASE CreateSpace(r, v, w)
        BY <4>1, Zenon DEF CreateSpace
      <4>2. ASSUME NEW u, NEW role, Invite(r, v, w, u, role)
            PROVE  \E request : Starts(r, "people", request)
        BY <4>2, Zenon DEF Invite
      <4>3. ASSUME NEW u, NEW role, ChangeRole(r, v, w, u, role)
            PROVE  \E request : Starts(r, "people", request)
        BY <4>3, Zenon DEF ChangeRole
      <4>4. ASSUME NEW u, NEW active, ChangeStatus(r, v, w, u, active)
            PROVE  \E request : Starts(r, "people", request)
        BY <4>4, Zenon DEF ChangeStatus
      <4>. QED  BY <3>2, <4>1, <4>2, <4>3, <4>4, Zenon
    <3>. QED  BY <1>1, <3>1, <3>2, Zenon
  <2>. QED  BY <2>1 DEF Starts, MayStart, Takes
<1>2. CASE SignUpAccount(r) \/ SignUpSpace(r) \/ InviteAccount(r) \/ InviteMember(r)
  BY <1>2 DEF SignUpAccount, SignUpSpace, InviteAccount, InviteMember, Answers, Continues, Takes
<1>3. CASE SetRole(r) \/ SetStatus(r)
  BY <1>3 DEF SetRole, SetStatus, Answers, Continues, Takes
<1>. QED  BY <1>1, <1>2, <1>3 DEF WorkspacesStep

LEMMA AgentsTake ==
    ASSUME NEW r \in Requests, AgentsStep(r)
    PROVE  Takes(r)
<1>1. CASE \E selected \in (SUBSET Agents) \ {{}} : Plan(r, selected)
  BY <1>1 DEF Plan, Starts, MayStart, Takes
<1>2. CASE \E u \in Users, selected \in Selections, pre \in Preauthorized :
              StartRun(r, u, selected, pre)
  <2>1. \E request : Starts(r, "runs", request)
    BY <1>2, Zenon DEF StartRun
  <2>. QED  BY <2>1 DEF Starts, MayStart, Takes
<1>3. CASE \E v \in Users, id \in DOMAIN queue, verdict \in Verdicts \cup {"claim"} :
              Consider(r, v, id, verdict)
  BY <1>3 DEF Consider, Starts, MayStart, Takes
<1>4. CASE (\E result \in Results : RunAgent(r, result)) \/ SkipAgent(r)
  BY <1>4 DEF RunAgent, SkipAgent, Continues, Takes
<1>5. CASE Planned(r) \/ Truncate(r) \/ WriteReport(r)
  BY <1>5 DEF Planned, Truncate, WriteReport, Answers, Continues, Takes
<1>6. CASE DecideRequest(r) \/ ClaimRequest(r) \/ ReadTrail(r)
  BY <1>6 DEF DecideRequest, ClaimRequest, ReadTrail, Answers, Continues, Takes
<1>. QED  BY <1>1, <1>2, <1>3, <1>4, <1>5, <1>6 DEF AgentsStep

LEMMA OrdersTake ==
    ASSUME NEW r \in Requests, TaskOrdersStep(r) \/ MigrationWavesStep(r)
    PROVE  Takes(r)
<1>1. CASE \E request : Starts(r, "analyses", request)
  BY <1>1 DEF Starts, MayStart, Takes
<1>2. CASE serving[r].op # "idle" /\ \E request : Continues(r, request)
  BY <1>2 DEF Continues, Takes
<1>3. CASE \E links \in TaskLinks : \/ \E by \in OneByOne : Order(r, by, links)
                                    \/ \E by \in ByWaves : Waves(r, by, links)
                                    \/ Cycles(r, links)
  BY <1>1, <1>3, Zenon DEF Order, Waves, Cycles
<1>4. CASE \E links \in EstateLinks : Simulate(r, links)
  BY <1>1, <1>4, Zenon DEF Simulate
<1>5. CASE Place(r) \/ EndOrder(r) \/ TakeWave(r) \/ EndWaves(r)
  BY <1>2, <1>5 DEF Place, EndOrder, TakeWave, EndWaves
<1>6. CASE EnterRoot(r) \/ Follow(r) \/ Leave(r) \/ EndCycles(r)
  BY <1>2, <1>6 DEF EnterRoot, Follow, Leave, EndCycles
<1>7. CASE ReleaseFree(r) \/ Stall(r) \/ ReleaseKnots(r) \/ Simulated(r)
  BY <1>2, <1>7 DEF ReleaseFree, Stall, ReleaseKnots, Simulated
<1>8. CASE OpenRoot(r) \/ Look(r) \/ Close(r)
  BY <1>2, <1>8 DEF OpenRoot, Look, Close
<1>9. CASE serving[r].op \in {"ordered", "in_waves", "cycles_found", "simulated"} /\ Answers(r)
  BY <1>2, <1>9 DEF Answers
<1>. QED
  BY <1>3, <1>4, <1>5, <1>6, <1>7, <1>8, <1>9 DEF TaskOrdersStep, MigrationWavesStep

LEMMA ConnectionsTake ==
    ASSUME NEW r \in Requests, ConnectionsStep(r)
    PROVE  Takes(r)
<1>1. CASE \E request : Starts(r, "connections", request)
  BY <1>1 DEF Starts, MayStart, Takes
<1>2. CASE serving[r].op # "idle" /\ \E request : Continues(r, request)
  BY <1>2 DEF Continues, Takes
<1>3. CASE \E id \in Saved :
             \/ \E target \in Targets, keeps, entered \in BOOLEAN :
                   \/ Edit(r, id, target, keeps, entered)
                   \/ SaveAgain(r, id, target, keeps, entered)
                   \/ SaveNew(r, id, target, keeps, entered)
             \/ \E status \in {"active", "stopped"} : SetConnection(r, id, status)
             \/ Delete(r, id)
  <2>1. \E rows, next : Changes(r, rows, next)
    BY <1>3, Zenon DEF Edit, SaveAgain, SaveNew, SetConnection, Delete
  <2>. QED  BY <1>1, <2>1 DEF Changes, Asks
<1>4. CASE \E id \in Saved : Test(r, id) \/ Introspect(r, id) \/ IntrospectUnlisted(r, id)
  BY <1>1, <1>4 DEF Test, Introspect, IntrospectUnlisted, Asks
<1>5. CASE \/ \E result \in {"ok", "failed", "unsupported"} : RecordTest(r, result)
           \/ \E ok \in BOOLEAN : RecordAnalysis(r, ok)
           \/ MarkTesting(r)
  BY <1>2, <1>5 DEF RecordTest, RecordAnalysis, MarkTesting, Rewrites, Answers
<1>6. CASE Empties(r) \/ Fills(r) \/ Forget(r) \/ RecordInventory(r)
  BY <1>2, <1>6 DEF Empties, Fills, Forget, RecordInventory, Answers
<1>. QED  BY <1>3, <1>4, <1>5, <1>6 DEF ConnectionsStep

RolesIn == Roles \cup {"none"}

Rosters ==
    \A w \in Made : members[w] \in [Users -> RolesIn] /\ \E u \in Users : members[w][u] = "owner"

\* What a request named, and whom it found to be no member.
RosterHeld(s) ==
    /\ s.op = "signup" => DOMAIN s = {"op", "user", "first"} /\ s.user \in Users
    /\ s.op = "signup_space" => s.user \in Users
    /\ s.op \in {"invite_account", "invite", "role"} =>
         /\ DOMAIN s = {"op", "space", "user", "role"}
         /\ s.space \in Made /\ s.user \in Users /\ s.role \in RolesIn
    /\ s.op \in {"invite_account", "invite"} => members[s.space][s.user] = "none"

RosterInv == OneAtATime /\ Rosters /\ \A r \in Requests : RosterHeld(serving[r])

LEMMA RosterAdded ==
    ASSUME Rosters, NEW w, NEW roster \in [Users -> RolesIn], NEW o \in Users, roster[o] = "owner",
           members' = WithSpace(w, roster)
    PROVE  Rosters'
  BY DEF Rosters, Made, WithSpace

\* Whatever a request turns to, no other is being served.
LEMMA RosterTurned ==
    ASSUME ServingForm, OneProcess, RosterInv, NEW r \in Requests, NEW request,
           serving' = [serving EXCEPT ![r] = request], Takes(r),
           RosterHeld(request)', Rosters'
    PROVE  RosterInv'
<1>1. \A q \in Requests \ {r} : serving[q].op = "idle"
  BY DEF Takes, OneProcess, RosterInv, OneAtATime, Idle
<1>2. serving'[r] = request /\ \A q \in Requests \ {r} : serving'[q] = serving[q]
  BY DEF ServingForm
<1>3. OneAtATime'
  BY <1>1, <1>2 DEF OneAtATime
<1>4. ASSUME NEW q \in Requests PROVE RosterHeld(serving[q])'
  <2>1. CASE q = r
    BY <1>2, <2>1 DEF RosterHeld
  <2>2. CASE q # r
    BY <1>1, <1>2, <2>2 DEF RosterHeld
  <2>. QED  BY <2>1, <2>2
<1>. QED  BY <1>3, <1>4 DEF RosterInv

LEMMA RosterElsewhere ==
    ASSUME ServingForm, OneProcess, RosterInv, NEW r \in Requests, NEW ops, Turns(r, ops), Takes(r),
           ops \cap {"signup", "signup_space", "invite_account", "invite", "role"} = {},
           UNCHANGED members
    PROVE  RosterInv'
<1>. DEFINE request == serving'[r]
<1>1. serving' = [serving EXCEPT ![r] = request] /\ request.op \in ops
  BY DEF Turns
<1>2. Rosters'
  BY DEF RosterInv, Rosters, Made
<1>3. RosterHeld(serving[r])'
  BY <1>1 DEF RosterHeld
<1>4. PICK q : q = serving'[r]
  OBVIOUS
<1>5. RosterHeld(q)'
  BY <1>3, <1>4 DEF RosterHeld
<1>. QED  BY <1>1, <1>2, <1>4, <1>5, RosterTurned

LEMMA RosterStep ==
    ASSUME ServingForm, OneProcess, OwnerInv, RosterInv, NEW r \in Requests, WorkspacesStep(r)
    PROVE  RosterInv'
<1>. DEFINE s == serving[r]
<1>1. Takes(r) /\ RosterHeld(s)
  BY PeopleTake DEF RosterInv
<1>2. UNCHANGED members => Rosters'
  BY DEF RosterInv, Rosters, Made
\* What changes no roster.
<1>3. ASSUME NEW request, serving' = [serving EXCEPT ![r] = request], UNCHANGED members,
             RosterHeld(request)
      PROVE  RosterInv'
  <2>1. RosterHeld(request)'
    BY <1>3 DEF RosterHeld, Made
  <2>. QED  BY <1>1, <1>2, <1>3, <2>1, RosterTurned
\* What ends with a roster written.
<1>4. ASSUME Answers(r), Rosters' PROVE RosterInv'
  <2>1. RosterHeld(Idle)'
    BY DEF RosterHeld, Idle
  <2>. QED  BY <1>1, <1>4, <2>1, RosterTurned DEF Answers, Continues
<1>5. CASE \E u \in Users : SignUp(r, u)
  <2>1. PICK u \in Users : SignUp(r, u)
    BY <1>5
  <2>. PICK request : request = [op |-> "signup", user |-> u, first |-> Known = {}]
    OBVIOUS
  <2>2. serving' = [serving EXCEPT ![r] = request] /\ UNCHANGED members
    BY <2>1 DEF SignUp, Starts, workspacesVars
  <2>3. RosterHeld(request)
    BY DEF RosterHeld
  <2>. QED  BY <1>3, <2>2, <2>3
<1>6. CASE \E v \in Users, w \in Spaces : CreateSpace(r, v, w)
  <2>1. PICK v \in Users, w \in Spaces : CreateSpace(r, v, w)
    BY <1>6
  <2>. DEFINE roster == OwnedBy(v)
  <2>2. /\ serving' = [serving EXCEPT ![r] = Idle]
        /\ members' = WithSpace(w, roster)
    BY <2>1 DEF CreateSpace, Starts
  <2>3. roster \in [Users -> RolesIn] /\ roster[v] = "owner"
    BY DEF OwnedBy, RolesIn, Roles
  <2>. HIDE DEF roster
  <2>4. Rosters'
    BY <2>2, <2>3, RosterAdded DEF RosterInv
  <2>5. RosterHeld(Idle)'
    BY DEF RosterHeld, Idle
  <2>. QED  BY <1>1, <2>2, <2>4, <2>5, RosterTurned
<1>7. CASE \E v \in Users, w \in Spaces : \E u \in Users : \E role \in Roles :
              Invite(r, v, w, u, role)
  <2>1. PICK v \in Users, w \in Spaces, u \in Users, role \in Roles : Invite(r, v, w, u, role)
    BY <1>7
  <2>. PICK request : request = [op |-> InviteStep(u), space |-> w, user |-> u, role |-> role]
    OBVIOUS
  <2>2. /\ serving' = [serving EXCEPT ![r] = request] /\ UNCHANGED members
        /\ w \in Made /\ members[w][u] = "none"
    BY <2>1 DEF Invite, Starts, workspacesVars
  <2>3. RosterHeld(request)
    BY <2>2 DEF RosterHeld, InviteStep, RolesIn
  <2>. QED  BY <1>3, <2>2, <2>3
<1>8. CASE \E v \in Users, w \in Spaces : \E u \in Users : \E role \in Roles \cup {"none"} :
              ChangeRole(r, v, w, u, role)
  <2>1. PICK v \in Users, w \in Spaces, u \in Users, role \in RolesIn :
           ChangeRole(r, v, w, u, role)
    BY <1>8 DEF RolesIn
  <2>. PICK request : request = [op |-> "role", space |-> w, user |-> u, role |-> role]
    OBVIOUS
  <2>2. /\ serving' = [serving EXCEPT ![r] = request] /\ UNCHANGED members
        /\ w \in Made
    BY <2>1 DEF ChangeRole, Starts, workspacesVars
  <2>3. RosterHeld(request)
    BY <2>2 DEF RosterHeld
  <2>. QED  BY <1>3, <2>2, <2>3
<1>9. CASE \E v \in Users, w \in Spaces : \E u \in Users : \E active \in BOOLEAN :
              ChangeStatus(r, v, w, u, active)
  <2>1. PICK v \in Users, w \in Spaces, u \in Users, active \in BOOLEAN :
           ChangeStatus(r, v, w, u, active)
    BY <1>9
  <2>. PICK request : request = [op |-> "status", user |-> u, active |-> active]
    OBVIOUS
  <2>2. serving' = [serving EXCEPT ![r] = request] /\ UNCHANGED members
    BY <2>1 DEF ChangeStatus, Starts, workspacesVars
  <2>3. RosterHeld(request)
    BY DEF RosterHeld
  <2>. QED  BY <1>3, <2>2, <2>3
<1>10. CASE SignUpAccount(r)
  <2>1. CASE Answers(r)
    BY <1>2, <1>4, <1>10, <2>1 DEF SignUpAccount
  <2>2. CASE Continues(r, [s EXCEPT !.op = "signup_space"])
    <3>. PICK request : request = [s EXCEPT !.op = "signup_space"]
      OBVIOUS
    <3>1. serving' = [serving EXCEPT ![r] = request] /\ UNCHANGED members /\ s.op = "signup"
      BY <1>10, <2>2 DEF SignUpAccount, Continues
    <3>2. RosterHeld(request)
      BY <1>1, <3>1 DEF RosterHeld
    <3>. QED  BY <1>3, <3>1, <3>2
  <2>. QED  BY <1>10, <2>1, <2>2 DEF SignUpAccount
<1>11. CASE SignUpSpace(r)
  <2>. DEFINE roster == OwnedBy(s.user)
  <2>1. s.user \in Users /\ Answers(r) /\ members' \in {members, WithSpace(Default, roster)}
    BY <1>1, <1>11 DEF SignUpSpace, RosterHeld
  <2>2. roster \in [Users -> RolesIn] /\ roster[s.user] = "owner"
    BY <2>1 DEF OwnedBy, RolesIn, Roles
  <2>. HIDE DEF roster
  <2>3. Rosters'
    BY <1>2, <2>1, <2>2, RosterAdded DEF RosterInv
  <2>. QED  BY <1>4, <2>1, <2>3
<1>12. CASE InviteAccount(r)
  <2>1. CASE Answers(r)
    BY <1>2, <1>4, <1>12, <2>1 DEF InviteAccount
  <2>2. CASE Continues(r, [s EXCEPT !.op = "invite"])
    <3>. PICK request : request = [s EXCEPT !.op = "invite"]
      OBVIOUS
    <3>1. serving' = [serving EXCEPT ![r] = request] /\ UNCHANGED members /\ s.op = "invite_account"
      BY <1>12, <2>2 DEF InviteAccount, Continues
    <3>2. RosterHeld(request)
      BY <1>1, <3>1 DEF RosterHeld
    <3>. QED  BY <1>3, <3>1, <3>2
  <2>. QED  BY <1>12, <2>1, <2>2 DEF InviteAccount
\* A role is written: whoever was an owner stays one, or another is.
<1>13. ASSUME NEW w \in Made, NEW u \in Users, NEW role \in RolesIn,
              members' = [members EXCEPT ![w][u] = role],
              role = "owner" \/ \E o \in Users \ {u} : members[w][o] = "owner"
       PROVE  Rosters'
  <2>1. members[w] \in [Users -> RolesIn]
    BY DEF RosterInv, Rosters
  <2>. PICK roster : roster = [members[w] EXCEPT ![u] = role]
    OBVIOUS
  <2>2. roster \in [Users -> RolesIn] /\ \E o \in Users : roster[o] = "owner"
    BY <1>13, <2>1
  <2>3. DOMAIN members' = DOMAIN members /\ members'[w] = roster
    BY <1>13 DEF Made
  <2>4. \A v \in DOMAIN members \ {w} : members'[v] = members[v]
    BY <1>13
  <2>. QED  BY <2>2, <2>3, <2>4 DEF RosterInv, Rosters, Made
<1>14. CASE InviteMember(r)
  <2>1. /\ s.space \in Made /\ s.user \in Users /\ s.role \in RolesIn
        /\ members[s.space][s.user] = "none"
        /\ members' = [members EXCEPT ![s.space][s.user] = s.role] /\ Answers(r)
    BY <1>1, <1>14 DEF InviteMember, RosterHeld
  <2>2. PICK o \in Users : members[s.space][o] = "owner"
    BY <2>1 DEF RosterInv, Rosters
  <2>. PICK w \in Made, u \in Users, role \in RolesIn : s.space = w /\ s.user = u /\ s.role = role
    BY <2>1
  <2>3. o \in Users \ {u} /\ members[w][o] = "owner"
    BY <2>1, <2>2
  <2>4. Rosters'
    BY <1>13, <2>1, <2>3
  <2>. QED  BY <1>4, <2>1, <2>4
<1>15. CASE SetRole(r)
  <2>1. s.space \in Made /\ s.user \in Users /\ s.role \in RolesIn /\ Answers(r)
    BY <1>1, <1>15 DEF SetRole, RosterHeld
  <2>2. CASE members' = members
    BY <1>2, <1>4, <2>1, <2>2
  <2>3. CASE members' # members
    <3>1. /\ KeepsOwner(s.space, s.user, s.role)
          /\ members' = [members EXCEPT ![s.space][s.user] = s.role]
      BY <1>15, <2>3 DEF SetRole
    <3>2. PICK o \in Users : members[s.space][o] = "owner"
      BY <2>1 DEF RosterInv, Rosters
    <3>3. s.role = "owner" \/ \E owner \in Users \ {s.user} : members[s.space][owner] = "owner"
      BY <2>1, <3>1, <3>2 DEF KeepsOwner, Owners
    <3>. PICK w \in Made, u \in Users, role \in RolesIn : s.space = w /\ s.user = u /\ s.role = role
      BY <2>1
    <3>4. Rosters'
      BY <1>13, <3>1, <3>3
    <3>. QED  BY <1>4, <2>1, <3>4
  <2>. QED  BY <2>2, <2>3
<1>16. CASE SetStatus(r)
  BY <1>2, <1>4, <1>16 DEF SetStatus
<1>. QED
  BY <1>5, <1>6, <1>7, <1>8, <1>9, <1>10, <1>11, <1>12, <1>14, <1>15, <1>16 DEF WorkspacesStep

\* A restart: nothing is being served, and the account owner owns the default.
LEMMA RosterRestarted ==
    ASSUME ServingForm, OneProcess, OwnerInv, RosterInv, NEW p \in Processes, Restart(p)
    PROVE  RosterInv'
<1>1. \A r \in Requests : serving'[r] = Idle
  BY DEF Restart, Dies, OneProcess
<1>2. OneAtATime' /\ \A r \in Requests : RosterHeld(serving[r])'
  BY <1>1 DEF OneAtATime, RosterHeld, Idle
<1>3. CASE members' = members
  BY <1>2, <1>3 DEF RosterInv, Rosters, Made
<1>4. CASE members' # members
  <2>. DEFINE roster == [u \in Users |-> accounts[u].role]
  <2>1. Known # {} /\ members' = WithSpace(Default, roster)
    BY <1>4 DEF Restart
  <2>2. PICK o \in Users : OnlyOwner(o)
    BY <2>1 DEF OwnerInv, OwnerKept
  <2>3. roster \in [Users -> RolesIn] /\ roster[o] = "owner"
    BY <2>2 DEF OwnerInv, AccountsTyped, RolesIn, OnlyOwner
  <2>. HIDE DEF roster
  <2>4. Rosters'
    BY <2>1, <2>3, RosterAdded DEF RosterInv
  <2>. QED  BY <1>2, <2>4 DEF RosterInv
<1>. QED  BY <1>3, <1>4

LEMMA RosterAlways == Spec => [](OneProcess => RosterInv)
<1>1. Init => RosterInv
  <2>. SUFFICES ASSUME Init PROVE RosterInv
    OBVIOUS
  <2>1. OneAtATime /\ \A r \in Requests : RosterHeld(serving[r])
    BY DEF Init, WorkersInit, OneAtATime, RosterHeld, Idle
  <2>2. CASE members = <<>>
    BY <2>1, <2>2 DEF RosterInv, Rosters, Made
  <2>3. CASE Staffed
    <3>1. PICK o \in Users, role \in {"admin", "engineer"} :
             members = [w \in {Default} |-> [u \in Users |-> IF u = o THEN "owner" ELSE role]]
      BY <2>3 DEF Staffed
    <3>2. Rosters
      BY <3>1 DEF Rosters, Made, RolesIn, Roles
    <3>. QED  BY <2>1, <3>2 DEF RosterInv
  <2>. QED  BY <2>2, <2>3 DEF Init, Empty, Planning, Ordering, Connecting
<1>2. OwnerInv /\ (OneProcess => RosterInv) /\ [Next]_vars => (OneProcess => RosterInv)'
  <2>. SUFFICES ASSUME OwnerInv, OneProcess => RosterInv, [Next]_vars, OneProcess'
                PROVE  RosterInv'
    OBVIOUS
  <2>1. ServingForm
    BY DEF OwnerInv
  <2>2. ASSUME UNCHANGED process PROVE OneProcess /\ RosterInv
    BY <2>2 DEF OneProcess
  <2>3. ASSUME NEW r \in Requests, WorkspacesStep(r) PROVE RosterInv'
    BY <2>1, <2>2, <2>3, PeopleTake, RosterStep DEF Takes
  <2>4. ASSUME NEW r \in Requests, NEW ops, Turns(r, ops), Takes(r), UNCHANGED members,
               ops \cap {"signup", "signup_space", "invite_account", "invite", "role"} = {}
        PROVE  RosterInv'
    BY <2>1, <2>2, <2>4, RosterElsewhere DEF Takes
  <2>5. ASSUME NEW r \in Requests, AgentsStep(r) PROVE RosterInv'
    <3>1. UNCHANGED members
      BY <2>5 DEF AgentsStep, Plan, Planned, StartRun, RunAgent, SkipAgent, WriteReport, Truncate,
                  Consider, DecideRequest, ClaimRequest, ReadTrail, workspacesVars
    <3>. QED  BY <2>1, <2>4, <2>5, <3>1, AgentsTurns, AgentsTake DEF AgentsOps
  <2>6. ASSUME NEW r \in Requests, TaskOrdersStep(r) \/ MigrationWavesStep(r),
               UNCHANGED members
        PROVE  RosterInv'
    BY <2>1, <2>4, <2>6, OrdersTurns, OrdersTake DEF OrdersOps, SortOps, SearchOps, MoveOps
  <2>7. ASSUME NEW r \in Requests, ConnectionsStep(r), UNCHANGED members PROVE RosterInv'
    BY <2>1, <2>4, <2>7, ConnectionsTurns, ConnectionsTake DEF ConnectionsOps
  <2>8. ASSUME NEW p \in Processes, Restart(p) PROVE RosterInv'
    BY <2>1, <2>2, <2>8, RosterRestarted DEF Restart, Dies
  <2>9. CASE UNCHANGED vars
    BY <2>2, <2>9 DEF vars, workspacesVars, RosterInv, OneAtATime, Rosters, RosterHeld, Made
  <2>. QED
    BY <2>3, <2>5, <2>6, <2>7, <2>8, <2>9 DEF Next, workspacesVars
<1>. QED  BY <1>1, <1>2, OwnerAlways, PTL DEF Spec

\* WorkspaceStore: while one process serves everything, no workspace is without
\* an owner, whoever is invited, demoted or removed, and whenever it dies.
THEOREM WorkspacesKeepOwners == Spec => []OwnerRemains
<1>1. (OneProcess => RosterInv) => OwnerRemains
  BY DEF OneProcess, RosterInv, Rosters, OwnerRemains, Owners
<1>. QED  BY <1>1, RosterAlways, PTL

-----------------------------------------------------------------------------
(***************************************************************************)
(* The trails of the agents.                                               *)
(***************************************************************************)

IsSequence(s) == \E S : s \in Seq(S)

\* What an agent that acted depends on had committed before.
Acted(trail, i) ==
    trail[i].decision \in Decisions \ {"skipped"} =>
      \A a \in depends[trail[i].agent] : \E j \in 1 .. i - 1 :
         trail[j].agent = a /\ trail[j].decision \in Commits

InTurn(trail) == IsSequence(trail) /\ \A i \in DOMAIN trail : Acted(trail, i)

CommittedIn(trail, a) ==
    \E j \in DOMAIN trail : trail[j].agent = a /\ trail[j].decision \in Commits

RunFields == {"op", "run", "user", "pre", "left", "committed", "trail"}

TrailHeld(s) ==
    /\ s.op = "run" =>
         /\ DOMAIN s = RunFields
         /\ \A a \in s.committed : CommittedIn(s.trail, a)
    /\ s.op \in {"run", "write", "append"} => InTurn(s.trail)
    /\ s.op \in {"run", "write", "append"} => s.run \in DOMAIN reports
    /\ s.op \in {"decide", "decided"} => s.id[1] \in DOMAIN reports
    /\ s.op = "decided" => s.verdict \in Verdicts

ReportsInTurn ==
    /\ IsSequence(reports)
    /\ \A run \in DOMAIN reports :
          reports[run].state = "written" => InTurn(reports[run].trail)

TrailInv ==
    /\ ServingForm
    /\ ReportsInTurn
    /\ \A id \in DOMAIN queue : id[1] \in DOMAIN reports
    /\ \A r \in Requests : TrailHeld(serving[r])

LEMMA AppendToSequence ==
    ASSUME NEW s, NEW e, IsSequence(s)
    PROVE  /\ IsSequence(Append(s, e))
           /\ Len(s) \in Nat
           /\ DOMAIN s = 1 .. Len(s)
           /\ DOMAIN Append(s, e) = 1 .. Len(s) + 1
           /\ \A i \in DOMAIN s : Append(s, e)[i] = s[i]
           /\ Append(s, e)[Len(s) + 1] = e
<1>1. PICK S : s \in Seq(S)
  BY DEF IsSequence
<1>. DEFINE T == S \cup {e}
<1>2. s \in Seq(T)
  BY <1>1, SeqMonotonic
<1>3. Append(s, e) \in Seq(T)
  BY <1>2, AppendProperties
<1>. QED  BY <1>2, <1>3, AppendProperties, LenProperties DEF IsSequence

LEMMA ExceptIsSequence ==
    ASSUME NEW s, NEW k \in DOMAIN s, NEW e, IsSequence(s)
    PROVE  IsSequence([s EXCEPT ![k] = e])
<1>1. PICK S : s \in Seq(S)
  BY DEF IsSequence
<1>2. s \in Seq(S \cup {e}) /\ k \in 1 .. Len(s)
  BY <1>1, SeqMonotonic, LenProperties
<1>. QED  BY <1>2, ExceptSeq DEF IsSequence

\* A trail that is in turn stays so when an agent whose needs have committed
\* acts, or when what is recorded is not that an agent acts.
LEMMA AppendInTurn ==
    ASSUME NEW trail, InTurn(trail), NEW agent, NEW decision,
           \/ decision \notin Decisions \ {"skipped"}
           \/ \A a \in depends[agent] : CommittedIn(trail, a)
    PROVE  /\ InTurn(Append(trail, Event(agent, decision)))
           /\ \A a : CommittedIn(trail, a) =>
                CommittedIn(Append(trail, Event(agent, decision)), a)
           /\ decision \in Commits =>
                CommittedIn(Append(trail, Event(agent, decision)), agent)
<1>. DEFINE e == Event(agent, decision)
            longer == Append(trail, e)
<1>1. e.agent = agent /\ e.decision = decision
  BY DEF Event
<1>2. /\ IsSequence(longer)
      /\ Len(trail) \in Nat
      /\ DOMAIN trail = 1 .. Len(trail)
      /\ DOMAIN longer = 1 .. Len(trail) + 1
      /\ \A i \in DOMAIN trail : longer[i] = trail[i]
      /\ longer[Len(trail) + 1] = e
  BY AppendToSequence DEF InTurn
<1>. HIDE DEF e, longer
<1>3. ASSUME NEW i \in DOMAIN trail PROVE Acted(longer, i)
  <2>1. 1 .. i - 1 \subseteq DOMAIN trail /\ i \in DOMAIN longer
    BY <1>2
  <2>. QED  BY <1>2, <2>1 DEF InTurn, Acted
<1>4. Acted(longer, Len(trail) + 1)
  BY <1>1, <1>2 DEF Acted, CommittedIn
<1>5. InTurn(longer)
  BY <1>2, <1>3, <1>4 DEF InTurn
<1>6. \A a : CommittedIn(trail, a) => CommittedIn(longer, a)
  BY <1>2 DEF CommittedIn
<1>7. decision \in Commits => CommittedIn(longer, agent)
  BY <1>1, <1>2 DEF CommittedIn
<1>. QED  BY <1>5, <1>6, <1>7 DEF e, longer

LEMMA TrailElsewhere ==
    ASSUME TrailInv, NEW ops, OnlyTurns(ops),
           ops \cap {"run", "write", "append", "decide", "decided"} = {},
           UNCHANGED agentsVars, ServingForm'
    PROVE  TrailInv'
<1>1. ReportsInTurn' /\ \A id \in DOMAIN queue' : id[1] \in DOMAIN reports'
  BY DEF TrailInv, agentsVars, ReportsInTurn, InTurn, Acted
<1>2. ASSUME NEW s, TrailHeld(s) PROVE TrailHeld(s)'
  BY <1>2 DEF TrailHeld, agentsVars, InTurn, Acted
<1>3. \A r \in Requests : TrailHeld(serving'[r])
  <2>1. CASE \E r \in Requests : Turns(r, ops)
    BY <2>1 DEF TrailInv, TrailHeld, Turns, ServingForm
  <2>2. CASE \A r \in Requests : serving'[r] \in {serving[r], Idle}
    BY <2>2 DEF TrailInv, TrailHeld, Idle
  <2>. QED  BY <2>1, <2>2 DEF OnlyTurns
<1>. QED  BY <1>1, <1>2, <1>3 DEF TrailInv

\* One request changes, and what is on file with it.
LEMMA TrailChanged ==
    ASSUME TrailInv, NEW r \in Requests, NEW request, "op" \in DOMAIN request,
           serving' = [serving EXCEPT ![r] = request],
           request.op \in AgentsOps, UNCHANGED depends,
           DOMAIN reports \subseteq DOMAIN reports', ReportsInTurn',
           \A id \in DOMAIN queue' : id[1] \in DOMAIN reports',
           TrailHeld(request)'
    PROVE  TrailInv'
<1>1. ServingForm'
  BY DEF TrailInv, ServingForm, AgentsOps
<1>2. \A r2 \in Requests \ {r} : serving'[r2] = serving[r2]
  BY DEF TrailInv, ServingForm
<1>3. ASSUME NEW s, TrailHeld(s) PROVE TrailHeld(s)'
  BY <1>3 DEF TrailHeld, InTurn, Acted
<1>4. \A s : TrailHeld(s) => TrailHeld(s)'
  BY <1>3
<1>5. serving'[r] = request
  BY DEF TrailInv, ServingForm
<1>6. \A r2 \in Requests : TrailHeld(serving[r2])'
  <2>1. ASSUME NEW r2 \in Requests PROVE TrailHeld(serving[r2])'
    <3>1. CASE r2 = r
      BY <1>5, <3>1 DEF TrailHeld
    <3>2. CASE r2 # r
      BY <1>2, <1>4, <3>2 DEF TrailInv, TrailHeld
    <3>. QED  BY <3>1, <3>2
  <2>. QED  BY <2>1
<1>. QED  BY <1>1, <1>6 DEF TrailInv

\* One report is written over.
LEMMA ReportWritten ==
    ASSUME TrailInv, NEW run \in DOMAIN reports, NEW report,
           reports' = [reports EXCEPT ![run] = report], UNCHANGED depends,
           report.state = "written" => InTurn(report.trail)
    PROVE  ReportsInTurn' /\ DOMAIN reports' = DOMAIN reports
<1>1. IsSequence(reports')
  BY ExceptIsSequence DEF TrailInv, ReportsInTurn
<1>2. \A n \in DOMAIN reports' : reports'[n].state = "written" => InTurn(reports'[n].trail)
  BY DEF TrailInv, ReportsInTurn
<1>3. \A trail : InTurn(trail) => InTurn(trail)'
  BY DEF InTurn, Acted
<1>. QED  BY <1>1, <1>2, <1>3 DEF ReportsInTurn, InTurn

LEMMA TrailStep ==
    ASSUME TrailInv, NEW r \in Requests, AgentsStep(r)
    PROVE  TrailInv'
<1>. USE DEF TrailInv
<1>. DEFINE s == serving[r]
<1>1. TrailHeld(s) /\ "op" \in DOMAIN s
  BY DEF ServingForm
<1>2. \A trail : InTurn(trail) /\ UNCHANGED depends => InTurn(trail)'
  BY DEF InTurn, Acted
<1>3. "op" \in DOMAIN Idle /\ Idle.op = "idle"
  BY DEF Idle
\* What changes no file.
<1>4. ASSUME NEW request, "op" \in DOMAIN request, serving' = [serving EXCEPT ![r] = request],
             request.op \in AgentsOps, UNCHANGED agentsVars, TrailHeld(request)
      PROVE  TrailInv'
  <2>1. ReportsInTurn'
    BY <1>2, <1>4 DEF agentsVars, ReportsInTurn
  <2>2. TrailHeld(request)'
    BY <1>2, <1>4 DEF agentsVars, TrailHeld
  <2>. QED  BY <1>4, <2>1, <2>2, TrailChanged DEF agentsVars
<1>5. ASSUME Answers(r), UNCHANGED agentsVars PROVE TrailInv'
  BY <1>3, <1>4, <1>5 DEF Answers, Continues, TrailHeld, AgentsOps
<1>6. CASE \E selected \in (SUBSET Agents) \ {{}} : Plan(r, selected)
  <2>1. PICK selected : Plan(r, selected)
    BY <1>6
  <2>. PICK request : request = [op |-> "plan", selected |-> selected, plan |-> Toposort(selected)]
    OBVIOUS
  <2>2. serving' = [serving EXCEPT ![r] = request] /\ UNCHANGED agentsVars
    BY <2>1 DEF Plan, Starts
  <2>3. "op" \in DOMAIN request /\ request.op = "plan"
    OBVIOUS
  <2>4. request.op \in AgentsOps /\ TrailHeld(request)
    BY <2>3 DEF AgentsOps, TrailHeld
  <2>. QED  BY <1>4, <2>2, <2>3, <2>4
<1>7. CASE \E u \in Users, selected \in Selections, pre \in Preauthorized :
              StartRun(r, u, selected, pre)
  <2>1. PICK u \in Users, selected \in Selections, pre \in Preauthorized :
           StartRun(r, u, selected, pre)
    BY <1>7
  <2>. DEFINE asked == [op |-> "run", run |-> Len(reports) + 1, user |-> u,
                        pre |-> pre, left |-> Toposort(selected).order,
                        committed |-> {}, trail |-> <<>>]
  <2>. PICK request : request = asked
    OBVIOUS
  <2>2. /\ serving' = [serving EXCEPT ![r] = request]
        /\ reports' = Append(reports, NoReport)
        /\ UNCHANGED <<queue, depends>>
    BY <2>1 DEF StartRun, Starts
  <2>3. /\ DOMAIN request = RunFields /\ request.op = "run" /\ request.committed = {}
        /\ request.trail = <<>> /\ request.run = Len(reports) + 1
    BY DEF RunFields
  <2>. HIDE DEF asked
  <2>4. /\ IsSequence(reports')
        /\ DOMAIN reports = 1 .. Len(reports) /\ Len(reports) \in Nat
        /\ DOMAIN reports' = 1 .. Len(reports) + 1
        /\ \A i \in DOMAIN reports : reports'[i] = reports[i]
        /\ reports'[Len(reports) + 1] = NoReport
    BY <2>2, AppendToSequence DEF ReportsInTurn
  <2>5. ReportsInTurn'
    BY <1>2, <2>2, <2>4 DEF ReportsInTurn, NoReport
  <2>6. InTurn(<<>>)
    BY EmptySeq DEF InTurn, IsSequence
  <2>7. TrailHeld(request)'
    BY <1>2, <2>2, <2>3, <2>4, <2>6 DEF TrailHeld
  <2>8. DOMAIN reports \subseteq DOMAIN reports'
    BY <2>4
  <2>9. \A id \in DOMAIN queue' : id[1] \in DOMAIN reports'
    BY <2>2, <2>8
  <2>10. "op" \in DOMAIN request /\ request.op \in AgentsOps
    BY <2>3 DEF AgentsOps, RunFields
  <2>. HIDE DEF TrailInv
  <2>. QED  BY <2>2, <2>5, <2>7, <2>8, <2>9, <2>10, TrailChanged
\* The trail is longer by what became of the agent.
<1>8. ASSUME NEW decision, Continues(r, Ran(s, decision)), s.op = "run",
             \/ decision \notin Decisions \ {"skipped"}
             \/ Unmet(Head(s.left), s.committed) = {},
             UNCHANGED <<reports, depends>>,
             \A id \in DOMAIN queue' : id[1] \in DOMAIN reports
      PROVE  TrailInv'
  <2>. DEFINE a == Head(s.left)
  <2>. PICK request : request = Ran(s, decision)
    OBVIOUS
  <2>1. /\ DOMAIN request = RunFields /\ request.op = "run" /\ request.run = s.run
        /\ request.trail = Append(s.trail, Event(a, decision))
        /\ request.committed = IF decision \in Commits THEN s.committed \cup {a} ELSE s.committed
    BY <1>1, <1>8 DEF Ran, TrailHeld, RunFields
  <2>2. serving' = [serving EXCEPT ![r] = request]
    BY <1>8 DEF Continues
  <2>3. InTurn(s.trail) /\ (\A b \in s.committed : CommittedIn(s.trail, b)) /\ s.run \in DOMAIN reports
    BY <1>1, <1>8 DEF TrailHeld
  <2>4. \/ decision \notin Decisions \ {"skipped"}
        \/ \A b \in depends[a] : CommittedIn(s.trail, b)
    BY <1>8, <2>3 DEF Unmet
  <2>. HIDE DEF a
  <2>5. /\ InTurn(request.trail)
        /\ \A b : CommittedIn(s.trail, b) => CommittedIn(request.trail, b)
        /\ decision \in Commits => CommittedIn(request.trail, a)
    BY <2>1, <2>3, <2>4, AppendInTurn
  <2>6. TrailHeld(request)
    BY <2>1, <2>3, <2>5 DEF TrailHeld
  <2>7. TrailHeld(request)' /\ ReportsInTurn'
    BY <1>2, <1>8, <2>6 DEF TrailHeld, ReportsInTurn
  <2>. QED  BY <1>8, <2>1, <2>2, <2>7, TrailChanged DEF AgentsOps, RunFields
<1>9. CASE \E result \in Results : RunAgent(r, result)
  <2>1. PICK result \in Results : RunAgent(r, result)
    BY <1>9
  <2>2. /\ s.op = "run" /\ UNCHANGED <<reports, depends>>
        /\ Unmet(Head(s.left), s.committed) = {}
        /\ Continues(r, Ran(s, Decide(Head(s.left), result, s.pre)))
        /\ queue' \in {queue, Opened(s, Head(s.left), result)}
    BY <2>1 DEF RunAgent
  <2>3. DOMAIN queue' \subseteq DOMAIN queue \cup {<<s.run, Head(s.left)>>}
    BY <2>2 DEF Opened, WithRequest
  <2>4. \A id \in DOMAIN queue' : id[1] \in DOMAIN reports
    BY <1>1, <2>2, <2>3 DEF TrailHeld
  <2>. QED  BY <1>8, <2>2, <2>4
<1>10. CASE SkipAgent(r)
  BY <1>8, <1>10 DEF SkipAgent, agentsVars
\* A report is emptied, and written.
<1>11. CASE Truncate(r)
  <2>. PICK request : request = [op |-> "write", run |-> s.run, trail |-> s.trail]
    OBVIOUS
  <2>1. /\ serving' = [serving EXCEPT ![r] = request]
        /\ reports' = [reports EXCEPT ![s.run] = Torn]
        /\ UNCHANGED <<queue, depends>>
        /\ s.op \in {"run", "append"}
    BY <1>11 DEF Truncate, Continues
  <2>2. "op" \in DOMAIN request /\ request.op = "write" /\ request.run = s.run /\ request.trail = s.trail
    OBVIOUS
  <2>3. s.run \in DOMAIN reports /\ InTurn(s.trail)
    BY <1>1, <2>1 DEF TrailHeld
  <2>4. Torn.state # "written"
    BY DEF Torn
  <2>5. ReportsInTurn' /\ DOMAIN reports' = DOMAIN reports
    BY <2>1, <2>3, <2>4, ReportWritten
  <2>6. TrailHeld(request)'
    BY <1>2, <2>1, <2>2, <2>3, <2>5 DEF TrailHeld
  <2>. QED  BY <2>1, <2>2, <2>5, <2>6, TrailChanged DEF AgentsOps
<1>12. CASE WriteReport(r)
  <2>1. /\ serving' = [serving EXCEPT ![r] = Idle]
        /\ reports' = [reports EXCEPT ![s.run] = Written(s.trail)]
        /\ UNCHANGED <<queue, depends>>
        /\ s.op = "write"
    BY <1>12 DEF WriteReport, Answers, Continues
  <2>2. s.run \in DOMAIN reports /\ InTurn(s.trail)
    BY <1>1, <2>1 DEF TrailHeld
  <2>3. Written(s.trail).trail = s.trail
    BY DEF Written
  <2>4. ReportsInTurn' /\ DOMAIN reports' = DOMAIN reports
    BY <2>1, <2>2, <2>3, ReportWritten
  <2>5. TrailHeld(Idle)'
    BY <1>3 DEF TrailHeld
  <2>. QED  BY <1>3, <2>1, <2>4, <2>5, TrailChanged DEF AgentsOps
<1>13. CASE \E v \in Users, id \in DOMAIN queue, verdict \in Verdicts \cup {"claim"} :
               Consider(r, v, id, verdict)
  <2>1. PICK v \in Users, id \in DOMAIN queue, verdict \in Verdicts \cup {"claim"} :
           Consider(r, v, id, verdict)
    BY <1>13
  <2>. DEFINE request == [op |-> "decide", id |-> id, user |-> v, verdict |-> verdict]
  <2>2. serving' = [serving EXCEPT ![r] = request] /\ UNCHANGED agentsVars
    BY <2>1 DEF Consider, Starts
  <2>3. "op" \in DOMAIN request /\ request.op = "decide" /\ request.id = id
    OBVIOUS
  <2>. HIDE DEF request
  <2>. QED  BY <1>4, <2>2, <2>3 DEF TrailHeld, AgentsOps
<1>14. CASE DecideRequest(r)
  <2>1. CASE ~MayDecide(s)
    BY <1>5, <1>14, <2>1 DEF DecideRequest, agentsVars
  <2>2. CASE MayDecide(s)
    <3>. PICK request : request = [op |-> "decided", id |-> s.id, verdict |-> s.verdict]
      OBVIOUS
    <3>1. /\ serving' = [serving EXCEPT ![r] = request]
          /\ DOMAIN queue' = DOMAIN queue
          /\ UNCHANGED <<reports, depends>>
          /\ s.op = "decide" /\ s.verdict \in Verdicts
      BY <1>14, <2>2 DEF DecideRequest, Continues
    <3>2. /\ "op" \in DOMAIN request /\ request.op = "decided" /\ request.id = s.id
          /\ request.verdict = s.verdict
      OBVIOUS
    <3>3. TrailHeld(request)' /\ ReportsInTurn'
      BY <1>1, <1>2, <3>1, <3>2 DEF TrailHeld, ReportsInTurn
    <3>. QED  BY <3>1, <3>2, <3>3, TrailChanged DEF AgentsOps
  <2>. QED  BY <2>1, <2>2
<1>15. CASE ClaimRequest(r)
  <2>1. /\ serving' = [serving EXCEPT ![r] = Idle]
        /\ DOMAIN queue' = DOMAIN queue
        /\ UNCHANGED <<reports, depends>>
    BY <1>15 DEF ClaimRequest, Answers, Continues
  <2>2. TrailHeld(Idle)' /\ ReportsInTurn'
    BY <1>2, <1>3, <2>1 DEF TrailHeld, ReportsInTurn
  <2>. QED  BY <1>3, <2>1, <2>2, TrailChanged DEF AgentsOps
\* A verdict is added to the trail that was read.
<1>16. CASE ReadTrail(r)
  <2>1. CASE reports[s.id[1]].state # "written"
    BY <1>5, <1>16, <2>1 DEF ReadTrail
  <2>2. CASE reports[s.id[1]].state = "written"
    <3>. DEFINE run == s.id[1]
                trail == Append(reports[run].trail, Event(s.id[2], s.verdict))
                request == [op |-> "append", run |-> run, trail |-> trail]
    <3>1. serving' = [serving EXCEPT ![r] = request] /\ UNCHANGED agentsVars /\ s.op = "decided"
      BY <1>16, <2>2 DEF ReadTrail, Continues
    <3>2. run \in DOMAIN reports /\ InTurn(reports[run].trail) /\ s.verdict \notin Decisions
      BY <1>1, <2>2, <3>1 DEF TrailHeld, ReportsInTurn, Verdicts, Decisions
    <3>3. InTurn(trail)
      BY <3>2, AppendInTurn
    <3>. HIDE DEF trail
    <3>4. /\ "op" \in DOMAIN request /\ request.op = "append" /\ request.run = run
          /\ request.trail = trail
      OBVIOUS
    <3>. HIDE DEF request
    <3>. QED  BY <1>4, <3>1, <3>2, <3>3, <3>4 DEF TrailHeld, AgentsOps
  <2>. QED  BY <2>1, <2>2
<1>17. CASE Planned(r)
  BY <1>5, <1>17 DEF Planned
<1>. QED
  BY <1>6, <1>7, <1>9, <1>10, <1>11, <1>12, <1>13, <1>14, <1>15, <1>16, <1>17 DEF AgentsStep

LEMMA TrailAlways == Spec => []TrailInv
<1>1. Init => TrailInv
  BY EmptySeq
  DEF Init, WorkersInit, TrailInv, ServingForm, ReportsInTurn, IsSequence, TrailHeld, Idle
<1>2. TrailInv /\ ServingForm' /\ [Next]_vars => TrailInv'
  <2>. SUFFICES ASSUME TrailInv, ServingForm', [Next]_vars PROVE TrailInv'
    OBVIOUS
  <2>1. ServingForm
    BY DEF TrailInv
  <2>2. ASSUME NEW r \in Requests, AgentsStep(r) PROVE TrailInv'
    BY <2>2, TrailStep
  <2>3. ASSUME NEW r \in Requests, WorkspacesStep(r), UNCHANGED agentsVars PROVE TrailInv'
    <3>1. OnlyTurns(PeopleOps)
      BY <2>1, <2>3, PeopleTurns DEF OnlyTurns
    <3>. QED  BY <2>3, <3>1, TrailElsewhere DEF PeopleOps
  <2>4. ASSUME NEW r \in Requests, TaskOrdersStep(r) \/ MigrationWavesStep(r),
               UNCHANGED agentsVars
        PROVE  TrailInv'
    <3>1. OnlyTurns(OrdersOps)
      BY <2>1, <2>4, OrdersTurns DEF OnlyTurns
    <3>. QED  BY <2>4, <3>1, TrailElsewhere DEF OrdersOps, SortOps, SearchOps, MoveOps
  <2>5. ASSUME NEW r \in Requests, ConnectionsStep(r), UNCHANGED agentsVars PROVE TrailInv'
    <3>1. OnlyTurns(ConnectionsOps)
      BY <2>1, <2>5, ConnectionsTurns DEF OnlyTurns
    <3>. QED  BY <2>5, <3>1, TrailElsewhere DEF ConnectionsOps
  <2>6. ASSUME NEW p \in Processes, Restart(p), UNCHANGED agentsVars PROVE TrailInv'
    <3>1. OnlyTurns(PeopleOps)
      BY <2>1, <2>6, RestartTurns
    <3>. QED  BY <2>6, <3>1, TrailElsewhere DEF PeopleOps
  <2>7. CASE UNCHANGED vars
    <3>1. OnlyTurns({})
      BY <2>1, <2>7 DEF vars, ServingForm, OnlyTurns
    <3>. QED  BY <2>7, <3>1, TrailElsewhere DEF vars
  <2>. QED  BY <2>2, <2>3, <2>4, <2>5, <2>6, <2>7 DEF Next
<1>3. SecretsInv => ServingForm
  BY DEF SecretsInv
<1>. QED  BY <1>1, <1>2, <1>3, SecretsAlways, PTL DEF Spec

\* TaskOrchestrator.run: no agent is recorded to have acted before all it
\* depends on committed in that run, for any number of agents that depend on
\* each other in any way, whoever decides or rewrites the report meanwhile.
THEOREM ActsInTurn == Spec => []DependenciesCommitted
<1>1. TrailInv => DependenciesCommitted
  BY DEF TrailInv, ReportsInTurn, InTurn, Acted, DependenciesCommitted, Trails
<1>. QED  BY <1>1, TrailAlways, PTL

-----------------------------------------------------------------------------
(***************************************************************************)
(* The queue and the trails. A trail of a run is the one in its report and *)
(* any that a request is about to write there.                             *)
(***************************************************************************)

Writers == {"run", "write", "append"}

TrailsOf(n) ==
    {serving[r].trail : r \in {q \in Requests : serving[q].op \in Writers /\ serving[q].run = n}}
    \cup {reports[k].trail : k \in {m \in DOMAIN reports : m = n /\ reports[m].state = "written"}}

Agrees(n, trail) ==
    /\ {a \in Agents : <<n, a>> \in DOMAIN queue} =
         {a \in Agents : Event(a, "needs_approval") \in Range(trail)}
    /\ \A i \in DOMAIN trail :
          trail[i].decision \in Verdicts =>
            /\ <<n, trail[i].agent>> \in DOMAIN queue
            /\ queue[<<n, trail[i].agent>>].status = trail[i].decision
            /\ \A j \in DOMAIN trail : trail[j] = trail[i] => j = i

TrailsAgree == \A n \in DOMAIN reports : \A trail \in TrailsOf(n) : Agrees(n, trail)

\* Nobody else has a trail of a run that goes on.
RunsAlone ==
    \A r \in Requests :
       serving[r].op = "run" =>
         /\ reports[serving[r].run].state = "none"
         /\ \A q \in Requests \ {r} :
               serving[q].op \in Writers => serving[q].run # serving[r].run

NoVerdict(trail, a) == \A i \in DOMAIN trail : trail[i].agent = a => trail[i].decision \notin Verdicts

\* A verdict that is about to be recorded is in the queue and in no trail, and
\* nobody else is about to record one on the same agent.
RecordsOnce(r, id) ==
    /\ queue[id].status = serving[r].verdict
    /\ \A trail \in TrailsOf(id[1]) : NoVerdict(trail, id[2])
    /\ \A q \in Requests \ {r} : serving[q].op = "decided" => serving[q].id # id

VerdictsOnce ==
    \A r \in Requests, id \in DOMAIN queue :
       serving[r].op = "decided" /\ serving[r].id = id => RecordsOnce(r, id)

QueueForm ==
    \A id \in DOMAIN queue :
       id = <<id[1], id[2]>> /\ DOMAIN queue[id] = {"status", "by", "approver", "claimed"}

\* What is decided is in the queue.
Queued ==
    /\ QueueForm
    /\ \A r \in Requests : serving[r].op \in {"decide", "decided"} => serving[r].id \in DOMAIN queue

AgreeInv == TrailsAgree /\ RunsAlone /\ VerdictsOnce /\ Queued

\* Requests come to the queue, and what has a verdict keeps it.
QueueGrows ==
    /\ DOMAIN queue \subseteq DOMAIN queue'
    /\ \A id \in DOMAIN queue : queue[id].status \in Verdicts => queue'[id].status = queue[id].status

LEMMA AgreesKept ==
    ASSUME NEW n, NEW trail, Agrees(n, trail), QueueGrows,
           \A a \in Agents : <<n, a>> \in DOMAIN queue' => <<n, a>> \in DOMAIN queue
    PROVE  Agrees(n, trail)'
<1>1. \A a \in Agents : <<n, a>> \in DOMAIN queue' <=> <<n, a>> \in DOMAIN queue
  BY DEF QueueGrows
<1>2. {a \in Agents : <<n, a>> \in DOMAIN queue'} =
        {a \in Agents : Event(a, "needs_approval") \in Range(trail)}
  BY <1>1 DEF Agrees
<1>3. ASSUME NEW i \in DOMAIN trail, trail[i].decision \in Verdicts
      PROVE  /\ <<n, trail[i].agent>> \in DOMAIN queue'
             /\ queue'[<<n, trail[i].agent>>].status = trail[i].decision
             /\ \A j \in DOMAIN trail : trail[j] = trail[i] => j = i
  BY <1>3 DEF Agrees, QueueGrows
<1>. QED  BY <1>2, <1>3 DEF Agrees

\* Steps that are not of the runs, and those of them that change no file and
\* carry no trail.
LEMMA AgreeQuiet ==
    ASSUME AgreeInv, UNCHANGED <<queue, reports>>,
           \A r \in Requests : \/ serving'[r] = serving[r]
                              \/ serving'[r].op \notin Writers \cup {"decide", "decided"}
    PROVE  AgreeInv'
<1>1. ASSUME NEW n PROVE TrailsOf(n)' \subseteq TrailsOf(n)
  BY DEF TrailsOf
<1>2. TrailsAgree'
  BY <1>1 DEF AgreeInv, TrailsAgree, Agrees
<1>3. RunsAlone'
  BY DEF AgreeInv, RunsAlone, Writers
<1>4. ASSUME NEW r \in Requests, NEW id \in DOMAIN queue, serving'[r].op = "decided",
             serving'[r].id = id
      PROVE  RecordsOnce(r, id)'
  <2>1. serving'[r] = serving[r]
    BY <1>4
  <2>2. RecordsOnce(r, id)
    BY <1>4, <2>1 DEF AgreeInv, VerdictsOnce
  <2>3. \A trail \in TrailsOf(id[1])' : NoVerdict(trail, id[2])
    BY <1>1, <2>2 DEF RecordsOnce
  <2>4. \A q \in Requests \ {r} : serving'[q].op = "decided" => serving'[q].id # id
    BY <2>2 DEF RecordsOnce
  <2>. QED  BY <2>1, <2>2, <2>3, <2>4 DEF RecordsOnce, NoVerdict
<1>5. VerdictsOnce'
  BY <1>4 DEF VerdictsOnce
<1>6. Queued'
  BY DEF AgreeInv, Queued, QueueForm
<1>. QED  BY <1>2, <1>3, <1>5, <1>6 DEF AgreeInv

\* One request turns, and begins to record no verdict.
LEMMA AgreeTurned ==
    ASSUME ServingForm, AgreeInv, NEW r \in Requests, NEW request,
           serving' = [serving EXCEPT ![r] = request],
           TrailsAgree', RunsAlone', QueueGrows,
           QueueForm',
           \A q \in Requests \ {r}, id \in DOMAIN queue :
              serving[q].op = "decided" /\ serving[q].id = id =>
                \A trail \in TrailsOf(id[1])' : NoVerdict(trail, id[2]),
           \A q \in Requests \ {r} : serving[q].op = "decided" => serving[q].verdict \in Verdicts,
           request.op = "decide" => request.id \in DOMAIN queue',
           request.op # "decided"
    PROVE  AgreeInv'
<1>1. serving'[r] = request /\ \A q \in Requests \ {r} : serving'[q] = serving[q]
  BY DEF ServingForm
<1>2. ASSUME NEW q \in Requests, NEW id \in DOMAIN queue',
             serving'[q].op = "decided", serving'[q].id = id
      PROVE  RecordsOnce(q, id)'
  <2>1. q # r /\ serving'[q] = serving[q] /\ id \in DOMAIN queue
    BY <1>1, <1>2 DEF AgreeInv, Queued, QueueForm
  <2>2. RecordsOnce(q, id)
    BY <1>2, <2>1 DEF AgreeInv, VerdictsOnce
  <2>3. queue'[id].status = serving'[q].verdict
    BY <1>2, <2>1, <2>2 DEF RecordsOnce, QueueGrows
  <2>4. \A trail \in TrailsOf(id[1])' : NoVerdict(trail, id[2])
    BY <1>2, <2>1
  <2>5. \A q2 \in Requests \ {q} : serving'[q2].op = "decided" => serving'[q2].id # id
    BY <1>1, <2>2 DEF RecordsOnce
  <2>. QED  BY <2>3, <2>4, <2>5 DEF RecordsOnce, NoVerdict
<1>3. VerdictsOnce'
  BY <1>2 DEF VerdictsOnce
<1>4. Queued'
  BY <1>1 DEF AgreeInv, Queued, QueueForm, QueueGrows
<1>. QED  BY <1>3, <1>4 DEF AgreeInv

\* No trail is new, and no request comes to the queue.
LEMMA AgreeNoNews ==
    ASSUME ServingForm, AgreeInv, NEW r \in Requests, NEW request,
           serving' = [serving EXCEPT ![r] = request],
           \A n : TrailsOf(n)' \subseteq TrailsOf(n),
           DOMAIN reports' = DOMAIN reports, RunsAlone',
           QueueGrows, QueueForm', DOMAIN queue' = DOMAIN queue,
           \A q \in Requests \ {r} : serving[q].op = "decided" => serving[q].verdict \in Verdicts,
           request.op = "decide" => request.id \in DOMAIN queue',
           request.op # "decided"
    PROVE  AgreeInv'
<1>1. TrailsAgree'
  <2>1. ASSUME NEW n \in DOMAIN reports, NEW trail \in TrailsOf(n)' PROVE Agrees(n, trail)'
    <3>1. Agrees(n, trail)
      BY <2>1 DEF AgreeInv, TrailsAgree
    <3>. QED  BY <3>1, AgreesKept
  <2>. QED  BY <2>1 DEF TrailsAgree
<1>2. ASSUME NEW q \in Requests \ {r}, NEW id \in DOMAIN queue,
             serving[q].op = "decided", serving[q].id = id
      PROVE  \A trail \in TrailsOf(id[1])' : NoVerdict(trail, id[2])
  <2>1. RecordsOnce(q, id)
    BY <1>2 DEF AgreeInv, VerdictsOnce
  <2>. QED  BY <2>1 DEF RecordsOnce
<1>. QED  BY <1>1, <1>2, AgreeTurned

LEMMA AgreeStarted ==
    ASSUME TrailInv, AgreeInv, NEW r \in Requests, NEW request, NEW n,
           serving' = [serving EXCEPT ![r] = request], UNCHANGED queue,
           n = Len(reports) + 1, reports' = Append(reports, NoReport),
           request.op = "run", request.run = n, request.trail = <<>>
    PROVE  AgreeInv'
<1>1. ServingForm /\ IsSequence(reports)
  BY DEF TrailInv, ReportsInTurn
<1>2. serving'[r] = request /\ \A q \in Requests \ {r} : serving'[q] = serving[q]
  BY <1>1 DEF ServingForm
<1>3. /\ DOMAIN reports' = DOMAIN reports \cup {n} /\ n \notin DOMAIN reports
      /\ \A m \in DOMAIN reports : reports'[m] = reports[m]
      /\ reports'[n] = NoReport
  BY <1>1, AppendToSequence
<1>4. \A q \in Requests : serving[q].op \in Writers => serving[q].run \in DOMAIN reports
  BY DEF TrailInv, TrailHeld, Writers
<1>5. \A m \in DOMAIN reports : TrailsOf(m)' \subseteq TrailsOf(m)
  BY <1>2, <1>3 DEF TrailsOf
<1>6. TrailsOf(n)' \subseteq {<<>>}
  BY <1>2, <1>3, <1>4 DEF TrailsOf, NoReport
<1>7. QueueGrows
  BY DEF QueueGrows
<1>8. Agrees(n, <<>>)'
  <2>1. \A a \in Agents : <<n, a>> \notin DOMAIN queue
    BY <1>3 DEF TrailInv
  <2>2. Range(<<>>) = {}
    BY DEF Range
  <2>. QED  BY <2>1, <2>2 DEF Agrees
<1>9. TrailsAgree'
  <2>1. ASSUME NEW m \in DOMAIN reports', NEW trail \in TrailsOf(m)' PROVE Agrees(m, trail)'
    <3>1. CASE m = n
      <4>1. trail = <<>>
        BY <1>6, <2>1, <3>1
      <4>. QED  BY <1>8, <3>1, <4>1
    <3>2. CASE m # n
      <4>1. Agrees(m, trail)
        BY <1>3, <1>5, <2>1, <3>2 DEF AgreeInv, TrailsAgree
      <4>. QED  BY <1>7, <4>1, AgreesKept
    <3>. QED  BY <3>1, <3>2
  <2>. QED  BY <2>1 DEF TrailsAgree
<1>10. RunsAlone'
  BY <1>2, <1>3, <1>4 DEF AgreeInv, RunsAlone, NoReport, Writers
<1>11. ASSUME NEW q \in Requests \ {r}, NEW id \in DOMAIN queue,
              serving[q].op = "decided", serving[q].id = id
       PROVE  \A trail \in TrailsOf(id[1])' : NoVerdict(trail, id[2])
  <2>1. RecordsOnce(q, id)
    BY <1>11 DEF AgreeInv, VerdictsOnce
  <2>2. id[1] \in DOMAIN reports
    BY DEF TrailInv
  <2>. QED  BY <1>5, <2>1, <2>2 DEF RecordsOnce
<1>12. \A q \in Requests \ {r} : serving[q].op = "decided" => serving[q].verdict \in Verdicts
  BY DEF TrailInv, TrailHeld
<1>13. QueueForm'
  BY DEF AgreeInv, Queued, QueueForm
<1>. QED  BY <1>1, <1>7, <1>9, <1>10, <1>11, <1>12, <1>13, AgreeTurned

\* What became of an agent is put on the trail; no one else has a trail of the run.
LEMMA AgreeRan ==
    ASSUME TrailInv, AgreeInv, NEW r \in Requests, NEW request, NEW n, NEW agent, NEW decision,
           NEW trail, NEW longer,
           serving[r].op = "run", serving[r].run = n, serving[r].trail = trail,
           serving' = [serving EXCEPT ![r] = request], UNCHANGED reports,
           request.op = "run", request.run = n, request.trail = longer,
           longer = Append(trail, Event(agent, decision)), decision \in Decisions,
           QueueGrows, QueueForm',
           DOMAIN queue' = DOMAIN queue \cup
                             (IF decision = "needs_approval" THEN {<<n, agent>>} ELSE {})
    PROVE  AgreeInv'
<1>1. /\ ServingForm /\ IsSequence(trail) /\ n \in DOMAIN reports
  BY DEF TrailInv, TrailHeld, InTurn
<1>2. serving'[r] = request /\ \A q \in Requests \ {r} : serving'[q] = serving[q]
  BY <1>1 DEF ServingForm
<1>3. reports[n].state = "none"
  BY DEF AgreeInv, RunsAlone
<1>4. \A q \in Requests \ {r} : serving[q].op \in Writers => serving[q].run # n
  BY DEF AgreeInv, RunsAlone
<1>5. \A m : m # n => TrailsOf(m)' \subseteq TrailsOf(m)
  BY <1>2 DEF TrailsOf
<1>6. TrailsOf(n)' \subseteq {longer} /\ trail \in TrailsOf(n)
  BY <1>2, <1>3, <1>4 DEF TrailsOf, Writers
<1>. DEFINE e == Event(agent, decision)
<1>7. e.agent = agent /\ e.decision = decision /\ decision \notin Verdicts
  BY DEF Event, Decisions, Verdicts
<1>8. /\ DOMAIN trail = 1 .. Len(trail) /\ Len(trail) \in Nat
      /\ DOMAIN longer = 1 .. Len(trail) + 1
      /\ \A i \in DOMAIN trail : longer[i] = trail[i]
      /\ longer[Len(trail) + 1] = e
  BY <1>1, AppendToSequence
<1>9. \A a : Event(a, "needs_approval") = e <=> a = agent /\ decision = "needs_approval"
  BY DEF Event
<1>. HIDE DEF e
<1>10. Range(longer) = Range(trail) \cup {e}
  BY <1>8 DEF Range
<1>11. \A i \in DOMAIN longer : longer[i].decision \in Verdicts => i \in DOMAIN trail
  BY <1>7, <1>8
<1>12. Agrees(n, trail)
  BY <1>1, <1>6 DEF AgreeInv, TrailsAgree
<1>13. Agrees(n, longer)'
  <2>1. {a \in Agents : <<n, a>> \in DOMAIN queue'} =
          {a \in Agents : Event(a, "needs_approval") \in Range(longer)}
    <3>1. ASSUME NEW a \in Agents
          PROVE  <<n, a>> \in DOMAIN queue' <=> Event(a, "needs_approval") \in Range(longer)
      <4>1. <<n, a>> \in DOMAIN queue <=> Event(a, "needs_approval") \in Range(trail)
        BY <1>12 DEF Agrees
      <4>2. <<n, a>> \in DOMAIN queue' <=>
              <<n, a>> \in DOMAIN queue \/ (a = agent /\ decision = "needs_approval")
        OBVIOUS
      <4>. QED  BY <1>9, <1>10, <4>1, <4>2
    <3>. QED  BY <3>1
  <2>2. ASSUME NEW i \in DOMAIN longer, longer[i].decision \in Verdicts
        PROVE  /\ <<n, longer[i].agent>> \in DOMAIN queue'
               /\ queue'[<<n, longer[i].agent>>].status = longer[i].decision
               /\ \A j \in DOMAIN longer : longer[j] = longer[i] => j = i
    <3>1. i \in DOMAIN trail /\ longer[i] = trail[i]
      BY <1>8, <1>11, <2>2
    <3>2. /\ <<n, trail[i].agent>> \in DOMAIN queue
          /\ queue[<<n, trail[i].agent>>].status = trail[i].decision
          /\ \A j \in DOMAIN trail : trail[j] = trail[i] => j = i
      BY <1>12, <2>2, <3>1 DEF Agrees
    <3>3. \A j \in DOMAIN longer : longer[j] = longer[i] => j = i
      BY <1>8, <1>11, <2>2, <3>1, <3>2
    <3>. QED  BY <2>2, <3>1, <3>2, <3>3 DEF QueueGrows
  <2>. QED  BY <2>1, <2>2 DEF Agrees
<1>14. TrailsAgree'
  <2>1. ASSUME NEW m \in DOMAIN reports', NEW t \in TrailsOf(m)' PROVE Agrees(m, t)'
    <3>1. CASE m = n
      <4>1. t = longer
        BY <1>6, <2>1, <3>1
      <4>. QED  BY <1>13, <3>1, <4>1
    <3>2. CASE m # n
      <4>1. Agrees(m, t)
        BY <1>5, <2>1, <3>2 DEF AgreeInv, TrailsAgree
      <4>2. \A a \in Agents : <<m, a>> \in DOMAIN queue' => <<m, a>> \in DOMAIN queue
        BY <3>2
      <4>. QED  BY <4>1, <4>2, AgreesKept
    <3>. QED  BY <3>1, <3>2
  <2>. QED  BY <2>1 DEF TrailsAgree
<1>15. RunsAlone'
  BY <1>2 DEF AgreeInv, RunsAlone, Writers
<1>16. ASSUME NEW q \in Requests \ {r}, NEW id \in DOMAIN queue,
              serving[q].op = "decided", serving[q].id = id
       PROVE  \A t \in TrailsOf(id[1])' : NoVerdict(t, id[2])
  <2>1. RecordsOnce(q, id)
    BY <1>16 DEF AgreeInv, VerdictsOnce
  <2>2. CASE id[1] = n
    <3>1. NoVerdict(trail, id[2])
      BY <1>6, <2>1, <2>2 DEF RecordsOnce
    <3>2. NoVerdict(longer, id[2])
      BY <1>8, <1>11, <3>1 DEF NoVerdict
    <3>. QED  BY <1>6, <2>2, <3>2
  <2>3. CASE id[1] # n
    BY <1>5, <2>1, <2>3 DEF RecordsOnce
  <2>. QED  BY <2>2, <2>3
<1>17. \A q \in Requests \ {r} : serving[q].op = "decided" => serving[q].verdict \in Verdicts
  BY DEF TrailInv, TrailHeld
<1>. QED  BY <1>1, <1>14, <1>15, <1>16, <1>17, AgreeTurned

\* A request that was pending is decided: its verdict is in no trail yet.
LEMMA AgreeDecided ==
    ASSUME TrailInv, AgreeInv, NEW r \in Requests, NEW request, NEW id \in DOMAIN queue, NEW verdict,
           serving[r].op = "decide", queue[id].status = "pending", verdict \in Verdicts,
           serving' = [serving EXCEPT ![r] = request], UNCHANGED reports,
           request.op = "decided", request.id = id, request.verdict = verdict,
           QueueForm', DOMAIN queue' = DOMAIN queue, queue'[id].status = verdict,
           \A other \in DOMAIN queue \ {id} : queue'[other] = queue[other]
    PROVE  AgreeInv'
<1>1. ServingForm /\ "pending" \notin Verdicts
  BY DEF TrailInv, Verdicts
<1>2. serving'[r] = request /\ \A q \in Requests \ {r} : serving'[q] = serving[q]
  BY <1>1 DEF ServingForm
<1>3. \A n : TrailsOf(n)' \subseteq TrailsOf(n)
  BY <1>2 DEF TrailsOf, Writers
<1>4. QueueGrows
  BY <1>1 DEF QueueGrows
<1>5. TrailsAgree'
  <2>1. ASSUME NEW n \in DOMAIN reports, NEW trail \in TrailsOf(n)' PROVE Agrees(n, trail)'
    <3>1. Agrees(n, trail)
      BY <1>3, <2>1 DEF AgreeInv, TrailsAgree
    <3>. QED  BY <1>4, <3>1, AgreesKept
  <2>. QED  BY <2>1 DEF TrailsAgree
<1>6. RunsAlone'
  BY <1>2 DEF AgreeInv, RunsAlone, Writers
<1>7. \A q \in Requests : serving[q].op = "decided" => serving[q].verdict \in Verdicts
  BY DEF TrailInv, TrailHeld
<1>8. \A q \in Requests \ {r} : serving[q].op = "decided" => serving[q].id # id
  BY <1>1, <1>7 DEF AgreeInv, VerdictsOnce, RecordsOnce
<1>9. RecordsOnce(r, id)'
  <2>1. \A trail \in TrailsOf(id[1])' : NoVerdict(trail, id[2])
    <3>1. ASSUME NEW trail \in TrailsOf(id[1]), NEW i \in DOMAIN trail, trail[i].agent = id[2],
                 trail[i].decision \in Verdicts
          PROVE  FALSE
      <4>1. id[1] \in DOMAIN reports
        BY DEF TrailInv
      <4>2. Agrees(id[1], trail)
        BY <4>1 DEF AgreeInv, TrailsAgree
      <4>3. id = <<id[1], trail[i].agent>>
        BY <3>1 DEF AgreeInv, Queued, QueueForm
      <4>4. queue[<<id[1], trail[i].agent>>].status = trail[i].decision
        BY <3>1, <4>2 DEF Agrees
      <4>. QED  BY <1>1, <3>1, <4>3, <4>4
    <3>. QED  BY <1>3, <3>1 DEF NoVerdict
  <2>. QED  BY <1>2, <1>8, <2>1 DEF RecordsOnce, NoVerdict
<1>10. ASSUME NEW q \in Requests \ {r}, NEW other \in DOMAIN queue,
              serving[q].op = "decided", serving[q].id = other
       PROVE  RecordsOnce(q, other)'
  <2>1. RecordsOnce(q, other)
    BY <1>10 DEF AgreeInv, VerdictsOnce
  <2>2. other # id
    BY <1>8, <1>10
  <2>3. \A trail \in TrailsOf(other[1])' : NoVerdict(trail, other[2])
    BY <1>3, <2>1 DEF RecordsOnce
  <2>4. \A p \in Requests \ {q} : serving'[p].op = "decided" => serving'[p].id # other
    BY <1>2, <2>1, <2>2 DEF RecordsOnce
  <2>. QED  BY <1>2, <2>1, <2>2, <2>3, <2>4 DEF RecordsOnce, NoVerdict
<1>11. VerdictsOnce'
  BY <1>2, <1>9, <1>10 DEF VerdictsOnce
<1>12. Queued'
  BY <1>2 DEF AgreeInv, Queued, QueueForm
<1>. QED  BY <1>5, <1>6, <1>11, <1>12 DEF AgreeInv

\* A verdict is put on the trail that was read.
LEMMA AgreeRecords ==
    ASSUME TrailInv, AgreeInv, NEW r \in Requests, NEW request, NEW id \in DOMAIN queue,
           NEW n, NEW trail, NEW longer, NEW verdict,
           serving[r].op = "decided", serving[r].id = id, serving[r].verdict = verdict, n = id[1],
           n \in DOMAIN reports, reports[n].state = "written", reports[n].trail = trail,
           serving' = [serving EXCEPT ![r] = request], UNCHANGED <<queue, reports>>,
           request.op = "append", request.run = n, request.trail = longer,
           longer = Append(trail, Event(id[2], verdict))
    PROVE  AgreeInv'
<1>1. /\ ServingForm /\ IsSequence(trail) /\ verdict \in Verdicts
  BY DEF TrailInv, ReportsInTurn, InTurn, TrailHeld
<1>2. serving'[r] = request /\ \A q \in Requests \ {r} : serving'[q] = serving[q]
  BY <1>1 DEF ServingForm
<1>3. trail \in TrailsOf(n)
  BY DEF TrailsOf
<1>4. \A m : TrailsOf(m)' \subseteq TrailsOf(m) \cup (IF m = n THEN {longer} ELSE {})
  BY <1>2 DEF TrailsOf, Writers
<1>. DEFINE e == Event(id[2], verdict)
<1>5. e.agent = id[2] /\ e.decision = verdict /\ \A a : e # Event(a, "needs_approval")
  BY <1>1 DEF Event, Verdicts
<1>6. /\ DOMAIN trail = 1 .. Len(trail) /\ Len(trail) \in Nat
      /\ DOMAIN longer = 1 .. Len(trail) + 1
      /\ \A i \in DOMAIN trail : longer[i] = trail[i]
      /\ longer[Len(trail) + 1] = e
  BY <1>1, AppendToSequence
<1>. HIDE DEF e
<1>7. Range(longer) = Range(trail) \cup {e}
  BY <1>6 DEF Range
<1>8. RecordsOnce(r, id)
  BY DEF AgreeInv, VerdictsOnce
<1>9. NoVerdict(trail, id[2]) /\ queue[id].status = verdict /\ id = <<n, id[2]>>
  BY <1>3, <1>8 DEF RecordsOnce, AgreeInv, Queued, QueueForm
<1>10. Agrees(n, longer)
  <2>1. Agrees(n, trail)
    BY <1>3 DEF AgreeInv, TrailsAgree
  <2>2. {a \in Agents : <<n, a>> \in DOMAIN queue} =
          {a \in Agents : Event(a, "needs_approval") \in Range(longer)}
    BY <1>5, <1>7, <2>1 DEF Agrees
  <2>3. ASSUME NEW i \in DOMAIN longer, longer[i].decision \in Verdicts
        PROVE  /\ <<n, longer[i].agent>> \in DOMAIN queue
               /\ queue[<<n, longer[i].agent>>].status = longer[i].decision
               /\ \A j \in DOMAIN longer : longer[j] = longer[i] => j = i
    <3>1. CASE i = Len(trail) + 1
      <4>1. longer[i] = e
        BY <1>6, <3>1
      <4>2. \A j \in DOMAIN trail : longer[j] # e
        BY <1>1, <1>5, <1>6, <1>9 DEF NoVerdict
      <4>3. \A j \in DOMAIN longer : longer[j] = longer[i] => j = i
        BY <1>6, <3>1, <4>1, <4>2
      <4>. QED  BY <1>5, <1>9, <4>1, <4>3
    <3>2. CASE i # Len(trail) + 1
      <4>1. i \in DOMAIN trail /\ longer[i] = trail[i]
        BY <1>6, <3>2
      <4>2. /\ <<n, trail[i].agent>> \in DOMAIN queue
            /\ queue[<<n, trail[i].agent>>].status = trail[i].decision
            /\ \A j \in DOMAIN trail : trail[j] = trail[i] => j = i
        BY <2>1, <2>3, <4>1 DEF Agrees
      <4>3. e # trail[i]
        BY <1>5, <1>9, <2>3, <4>1 DEF NoVerdict
      <4>4. \A j \in DOMAIN longer : longer[j] = longer[i] => j = i
        BY <1>6, <4>1, <4>2, <4>3
      <4>. QED  BY <4>1, <4>2, <4>4
    <3>. QED  BY <3>1, <3>2
  <2>. QED  BY <2>2, <2>3 DEF Agrees
<1>11. TrailsAgree'
  <2>1. ASSUME NEW m \in DOMAIN reports, NEW t \in TrailsOf(m)' PROVE Agrees(m, t)
    <3>1. CASE t \in TrailsOf(m)
      BY <3>1 DEF AgreeInv, TrailsAgree
    <3>2. CASE t \notin TrailsOf(m)
      <4>1. m = n /\ t = longer
        BY <1>4, <2>1, <3>2
      <4>. QED  BY <1>10, <4>1
    <3>. QED  BY <3>1, <3>2
  <2>. QED  BY <2>1 DEF TrailsAgree, Agrees
<1>12. RunsAlone'
  BY <1>2 DEF AgreeInv, RunsAlone, Writers
<1>13. QueueGrows
  BY DEF QueueGrows
<1>14. ASSUME NEW q \in Requests \ {r}, NEW other \in DOMAIN queue,
              serving[q].op = "decided", serving[q].id = other
       PROVE  \A t \in TrailsOf(other[1])' : NoVerdict(t, other[2])
  <2>1. RecordsOnce(q, other)
    BY <1>14 DEF AgreeInv, VerdictsOnce
  <2>2. CASE other[1] = n
    <3>1. other # id
      BY <1>8, <1>14 DEF RecordsOnce
    <3>2. other[2] # id[2]
      BY <1>9, <2>2, <3>1 DEF AgreeInv, Queued, QueueForm
    <3>3. NoVerdict(trail, other[2])
      BY <1>3, <2>1, <2>2 DEF RecordsOnce
    <3>4. NoVerdict(longer, other[2])
      BY <1>5, <1>6, <3>2, <3>3 DEF NoVerdict
    <3>. QED  BY <1>4, <2>1, <2>2, <3>4 DEF RecordsOnce
  <2>3. CASE other[1] # n
    BY <1>4, <2>1, <2>3 DEF RecordsOnce
  <2>. QED  BY <2>2, <2>3
<1>15. \A q \in Requests \ {r} : serving[q].op = "decided" => serving[q].verdict \in Verdicts
  BY DEF TrailInv, TrailHeld
<1>16. QueueForm'
  BY DEF AgreeInv, Queued, QueueForm
<1>. QED  BY <1>1, <1>11, <1>12, <1>13, <1>14, <1>15, <1>16, AgreeTurned

LEMMA AgreeStep ==
    ASSUME TrailInv, AgreeInv, NEW r \in Requests, AgentsStep(r)
    PROVE  AgreeInv'
<1>. DEFINE s == serving[r]
<1>1. /\ ServingForm /\ TrailHeld(s)
      /\ \A q \in Requests \ {r} : serving[q].op = "decided" => serving[q].verdict \in Verdicts
  BY DEF TrailInv, TrailHeld
<1>2. ASSUME NEW request, serving' = [serving EXCEPT ![r] = request], UNCHANGED <<queue, reports>>,
             request.op \notin Writers \cup {"decide", "decided"}
      PROVE  AgreeInv'
  <2>1. \A q \in Requests : \/ serving'[q] = serving[q]
                           \/ serving'[q].op \notin Writers \cup {"decide", "decided"}
    BY <1>1, <1>2 DEF ServingForm
  <2>. QED  BY <1>2, <2>1, AgreeQuiet
<1>3. ASSUME Answers(r), UNCHANGED <<queue, reports>> PROVE AgreeInv'
  BY <1>2, <1>3 DEF Answers, Continues, Idle, Writers
<1>4. CASE \E selected \in (SUBSET Agents) \ {{}} : Plan(r, selected)
  BY <1>2, <1>4 DEF Plan, Starts, agentsVars, Writers
<1>5. CASE Planned(r)
  BY <1>3, <1>5 DEF Planned, agentsVars
<1>6. CASE \E u \in Users, selected \in Selections, pre \in Preauthorized :
              StartRun(r, u, selected, pre)
  <2>1. PICK u \in Users, selected \in Selections, pre \in Preauthorized :
           StartRun(r, u, selected, pre)
    BY <1>6
  <2>. PICK request, n :
          /\ n = Len(reports) + 1
          /\ request = [op |-> "run", run |-> n, user |-> u,
                        pre |-> pre, left |-> Toposort(selected).order,
                        committed |-> {}, trail |-> <<>>]
    OBVIOUS
  <2>2. /\ serving' = [serving EXCEPT ![r] = request]
        /\ reports' = Append(reports, NoReport) /\ UNCHANGED queue
    BY <2>1 DEF StartRun, Starts
  <2>3. request.op = "run" /\ request.run = n /\ request.trail = <<>>
    OBVIOUS
  <2>. QED  BY <2>2, <2>3, AgreeStarted
<1>7. ASSUME NEW decision \in Decisions, s.op = "run", Continues(r, Ran(s, decision)),
             UNCHANGED reports, QueueGrows, QueueForm',
             DOMAIN queue' = DOMAIN queue \cup
                (IF decision = "needs_approval" THEN {<<s.run, Head(s.left)>>} ELSE {})
      PROVE  AgreeInv'
  <2>. PICK request, n, agent, trail, longer :
          /\ request = Ran(s, decision)
          /\ n = s.run /\ agent = Head(s.left) /\ trail = s.trail
          /\ longer = Append(trail, Event(agent, decision))
    OBVIOUS
  <2>1. request.op = "run" /\ request.run = n /\ request.trail = longer
    BY <1>1, <1>7 DEF TrailHeld, Ran, RunFields
  <2>2. serving' = [serving EXCEPT ![r] = request]
    BY <1>7 DEF Continues
  <2>. QED  BY <1>7, <2>1, <2>2, AgreeRan
<1>8. CASE \E result \in Results : RunAgent(r, result)
  <2>1. PICK result \in Results : RunAgent(r, result)
    BY <1>8
  <2>. PICK made, decision : made = <<s.run, Head(s.left)>> /\ decision = Decide(Head(s.left), result, s.pre)
    OBVIOUS
  <2>2. /\ s.op = "run" /\ Continues(r, Ran(s, decision)) /\ UNCHANGED reports
        /\ queue' = IF decision = "needs_approval" THEN WithRequest(made, s.user) ELSE queue
    BY <2>1 DEF RunAgent, Opened
  <2>3. decision \in Decisions
    BY <2>1, AgentRunsAssumption DEF Decide, Decisions, AgentResults
  <2>4. QueueGrows
    BY <2>2 DEF QueueGrows, WithRequest, Verdicts
  <2>5. DOMAIN queue' = DOMAIN queue \cup (IF decision = "needs_approval" THEN {made} ELSE {})
    BY <2>2 DEF WithRequest
  <2>6. QueueForm'
    BY <2>2 DEF WithRequest, Pending, AgreeInv, Queued, QueueForm
  <2>. QED  BY <1>7, <2>2, <2>3, <2>4, <2>5, <2>6
<1>9. CASE SkipAgent(r)
  <2>1. "skipped" \in Decisions /\ QueueGrows /\ QueueForm'
    BY <1>9 DEF SkipAgent, Decisions, QueueGrows, agentsVars, AgreeInv, Queued, QueueForm
  <2>. QED  BY <1>7, <1>9, <2>1 DEF SkipAgent, agentsVars
<1>10. CASE Truncate(r)
  <2>. PICK request : request = [op |-> "write", run |-> s.run, trail |-> s.trail]
    OBVIOUS
  <2>1. /\ serving' = [serving EXCEPT ![r] = request]
        /\ reports' = [reports EXCEPT ![s.run] = Torn]
        /\ UNCHANGED queue
        /\ s.op \in {"run", "append"} /\ s.run \in DOMAIN reports
    BY <1>1, <1>10 DEF Truncate, Continues, TrailHeld
  <2>2. /\ serving'[r] = request /\ \A q \in Requests \ {r} : serving'[q] = serving[q]
        /\ \A n \in DOMAIN reports \ {s.run} : reports'[n] = reports[n]
        /\ reports'[s.run] = Torn /\ DOMAIN reports' = DOMAIN reports
    BY <1>1, <2>1 DEF ServingForm
  <2>3. \A n : TrailsOf(n)' \subseteq TrailsOf(n)
    BY <2>1, <2>2 DEF TrailsOf, Torn, Writers
  <2>4. RunsAlone'
    BY <1>1, <2>1, <2>2 DEF AgreeInv, RunsAlone, Writers
  <2>5. QueueGrows /\ QueueForm'
    BY <2>1 DEF QueueGrows, AgreeInv, Queued, QueueForm
  <2>6. DOMAIN reports' = DOMAIN reports /\ DOMAIN queue' = DOMAIN queue
    BY <2>1, <2>2
  <2>7. request.op # "decided" /\ (request.op = "decide" => request.id \in DOMAIN queue')
    OBVIOUS
  <2>8. serving' = [serving EXCEPT ![r] = request]
    BY <2>1
  <2>9. ServingForm /\ \A q \in Requests \ {r} : serving[q].op = "decided" => serving[q].verdict \in Verdicts
    BY <1>1
  <2>. QED  BY <2>3, <2>4, <2>5, <2>6, <2>7, <2>8, <2>9, AgreeNoNews
<1>11. CASE WriteReport(r)
  <2>1. /\ serving' = [serving EXCEPT ![r] = Idle]
        /\ reports' = [reports EXCEPT ![s.run] = Written(s.trail)]
        /\ UNCHANGED queue
        /\ s.op = "write" /\ s.run \in DOMAIN reports
    BY <1>1, <1>11 DEF WriteReport, Answers, Continues, TrailHeld
  <2>2. /\ serving'[r] = Idle /\ \A q \in Requests \ {r} : serving'[q] = serving[q]
        /\ \A n \in DOMAIN reports \ {s.run} : reports'[n] = reports[n]
        /\ reports'[s.run].trail = s.trail /\ DOMAIN reports' = DOMAIN reports
        /\ Idle.op = "idle"
    BY <1>1, <2>1 DEF ServingForm, Written, Idle
  <2>3. \A n : TrailsOf(n)' \subseteq TrailsOf(n)
    <3>1. ASSUME NEW n, NEW trail \in TrailsOf(n)' PROVE trail \in TrailsOf(n)
      <4>1. CASE \E q \in Requests : /\ serving'[q].op \in Writers /\ serving'[q].run = n
                                    /\ trail = serving'[q].trail
        BY <2>2, <4>1 DEF TrailsOf, Writers
      <4>2. CASE /\ n \in DOMAIN reports' /\ reports'[n].state = "written"
                 /\ trail = reports'[n].trail
        BY <2>1, <2>2, <4>2 DEF TrailsOf, Writers
      <4>. QED  BY <4>1, <4>2 DEF TrailsOf
    <3>. QED  BY <3>1
  <2>4. RunsAlone'
    BY <1>1, <2>1, <2>2 DEF AgreeInv, RunsAlone, Writers
  <2>5. QueueGrows /\ QueueForm'
    BY <2>1 DEF QueueGrows, AgreeInv, Queued, QueueForm
  <2>. QED  BY <1>1, <2>1, <2>2, <2>3, <2>4, <2>5, AgreeNoNews
<1>12. CASE \E v \in Users, id \in DOMAIN queue, verdict \in Verdicts \cup {"claim"} :
               Consider(r, v, id, verdict)
  <2>1. PICK v \in Users, id \in DOMAIN queue, verdict \in Verdicts \cup {"claim"} :
           Consider(r, v, id, verdict)
    BY <1>12
  <2>. PICK request : request = [op |-> "decide", id |-> id, user |-> v, verdict |-> verdict]
    OBVIOUS
  <2>2. serving' = [serving EXCEPT ![r] = request] /\ UNCHANGED <<queue, reports>>
    BY <2>1 DEF Consider, Starts, agentsVars
  <2>3. request.op = "decide" /\ request.id \in DOMAIN queue'
    BY <2>2
  <2>4. serving'[r] = request /\ \A q \in Requests \ {r} : serving'[q] = serving[q]
    BY <1>1, <2>2 DEF ServingForm
  <2>5. (\A n : TrailsOf(n)' \subseteq TrailsOf(n)) /\ RunsAlone' /\ QueueGrows
    BY <2>2, <2>3, <2>4 DEF TrailsOf, Writers, AgreeInv, RunsAlone, QueueGrows
  <2>6. QueueForm'
    BY <2>2 DEF AgreeInv, Queued, QueueForm
  <2>. QED  BY <1>1, <2>2, <2>3, <2>5, <2>6, AgreeNoNews
<1>13. CASE DecideRequest(r)
  <2>1. CASE ~MayDecide(s)
    BY <1>3, <1>13, <2>1 DEF DecideRequest
  <2>2. CASE MayDecide(s)
    <3>. PICK request, id, verdict :
            /\ request = [op |-> "decided", id |-> s.id, verdict |-> s.verdict]
            /\ id = s.id /\ verdict = s.verdict
      OBVIOUS
    <3>1. /\ serving' = [serving EXCEPT ![r] = request] /\ UNCHANGED reports
          /\ s.op = "decide" /\ verdict \in Verdicts /\ queue[id].status = "pending"
          /\ queue' = [queue EXCEPT ![id].status = verdict, ![id].approver = s.user]
      BY <1>13, <2>2 DEF DecideRequest, MayDecide, Continues
    <3>2. id \in DOMAIN queue
      BY <3>1 DEF AgreeInv, Queued, QueueForm
    <3>3. /\ DOMAIN queue' = DOMAIN queue
          /\ \A other \in DOMAIN queue \ {id} : queue'[other] = queue[other]
      BY <3>1
    <3>4. PICK row : row = [queue[id] EXCEPT !.status = verdict]
      OBVIOUS
    <3>5. queue'[id] = [row EXCEPT !.approver = s.user]
      BY <3>1, <3>2, <3>4
    <3>6. DOMAIN queue[id] = {"status", "by", "approver", "claimed"}
      BY <3>2 DEF AgreeInv, Queued, QueueForm
    <3>7. queue'[id].status = verdict
      BY <3>4, <3>5, <3>6
    <3>8. QueueForm'
      BY <3>3, <3>4, <3>5, <3>6 DEF AgreeInv, Queued, QueueForm
    <3>9. request.op = "decided" /\ request.id = id /\ request.verdict = verdict
      OBVIOUS
    <3>. QED  BY <3>1, <3>2, <3>3, <3>7, <3>8, <3>9, AgreeDecided
  <2>. QED  BY <2>1, <2>2
<1>14. CASE ClaimRequest(r)
  <2>1. /\ serving' = [serving EXCEPT ![r] = Idle] /\ UNCHANGED reports
        /\ DOMAIN queue' = DOMAIN queue
    BY <1>14 DEF ClaimRequest, Answers, Continues
  <2>2. serving'[r] = Idle /\ (\A q \in Requests \ {r} : serving'[q] = serving[q]) /\ Idle.op = "idle"
    BY <1>1, <2>1 DEF ServingForm, Idle
  <2>3. \A id \in DOMAIN queue : queue'[id].status = queue[id].status
    BY <1>14 DEF ClaimRequest
  <2>4. (\A n : TrailsOf(n)' \subseteq TrailsOf(n)) /\ RunsAlone' /\ QueueGrows
    BY <2>1, <2>2, <2>3 DEF TrailsOf, Writers, AgreeInv, RunsAlone, QueueGrows
  <2>5. \A id \in DOMAIN queue : DOMAIN queue'[id] = DOMAIN queue[id]
    BY <1>14 DEF ClaimRequest
  <2>6. QueueForm'
    BY <2>1, <2>5 DEF AgreeInv, Queued, QueueForm
  <2>. QED  BY <1>1, <2>1, <2>2, <2>4, <2>6, AgreeNoNews
<1>15. CASE ReadTrail(r)
  <2>1. CASE reports[s.id[1]].state # "written"
    BY <1>3, <1>15, <2>1 DEF ReadTrail, agentsVars
  <2>2. CASE reports[s.id[1]].state = "written"
    <3>. PICK id, n, verdict, trail, longer, request :
            /\ id = s.id /\ n = id[1] /\ verdict = s.verdict /\ trail = reports[n].trail
            /\ longer = Append(trail, Event(id[2], verdict))
            /\ request = [op |-> "append", run |-> n, trail |-> longer]
      OBVIOUS
    <3>1. /\ serving' = [serving EXCEPT ![r] = request] /\ UNCHANGED <<queue, reports>>
          /\ s.op = "decided"
      BY <1>15, <2>2 DEF ReadTrail, Continues, agentsVars
    <3>2. request.op = "append" /\ request.run = n /\ request.trail = longer
      OBVIOUS
    <3>3. id \in DOMAIN queue /\ n \in DOMAIN reports
      BY <1>1, <3>1 DEF AgreeInv, Queued, QueueForm, TrailHeld
    <3>. QED  BY <2>2, <3>1, <3>2, <3>3, AgreeRecords
  <2>. QED  BY <2>1, <2>2
<1>. QED
  BY <1>4, <1>5, <1>6, <1>8, <1>9, <1>10, <1>11, <1>12, <1>13, <1>14, <1>15 DEF AgentsStep

LEMMA AgreeAlways == Spec => []AgreeInv
<1>1. Init => AgreeInv
  <2>. SUFFICES ASSUME Init PROVE AgreeInv
    OBVIOUS
  <2>1. queue = <<>> /\ reports = <<>> /\ \A r \in Requests : serving[r].op = "idle"
    BY DEF Init, WorkersInit, Idle
  <2>. QED
    BY <2>1 DEF AgreeInv, TrailsAgree, RunsAlone, VerdictsOnce, Queued, QueueForm
<1>2. TrailInv /\ AgreeInv /\ [Next]_vars => AgreeInv'
  <2>. SUFFICES ASSUME TrailInv, AgreeInv, [Next]_vars PROVE AgreeInv'
    OBVIOUS
  <2>1. ServingForm
    BY DEF TrailInv
  <2>2. ASSUME NEW r \in Requests, NEW ops, Turns(r, ops), UNCHANGED agentsVars,
               ops \cap (Writers \cup {"decide", "decided"}) = {}
        PROVE  AgreeInv'
    <3>1. \A q \in Requests : \/ serving'[q] = serving[q]
                             \/ serving'[q].op \notin Writers \cup {"decide", "decided"}
      BY <2>1, <2>2 DEF Turns, ServingForm
    <3>. QED  BY <2>2, <3>1, AgreeQuiet DEF agentsVars
  <2>3. ASSUME NEW r \in Requests, AgentsStep(r) PROVE AgreeInv'
    BY <2>3, AgreeStep
  <2>4. ASSUME NEW r \in Requests, WorkspacesStep(r), UNCHANGED agentsVars PROVE AgreeInv'
    BY <2>1, <2>2, <2>4, PeopleTurns DEF PeopleOps, Writers
  <2>5. ASSUME NEW r \in Requests, TaskOrdersStep(r) \/ MigrationWavesStep(r), UNCHANGED agentsVars
        PROVE  AgreeInv'
    BY <2>1, <2>2, <2>5, OrdersTurns DEF OrdersOps, SortOps, SearchOps, MoveOps, Writers
  <2>6. ASSUME NEW r \in Requests, ConnectionsStep(r), UNCHANGED agentsVars PROVE AgreeInv'
    BY <2>1, <2>2, <2>6, ConnectionsTurns DEF ConnectionsOps, Writers
  <2>7. ASSUME NEW p \in Processes, Restart(p), UNCHANGED agentsVars PROVE AgreeInv'
    <3>1. \A q \in Requests : serving'[q] = serving[q] \/ serving'[q].op = "idle"
      BY <2>7 DEF Restart, Dies, Idle
    <3>. QED  BY <2>7, <3>1, AgreeQuiet DEF agentsVars, Writers
  <2>8. CASE UNCHANGED vars
    BY <2>8, AgreeQuiet DEF vars, agentsVars
  <2>. QED  BY <2>3, <2>4, <2>5, <2>6, <2>7, <2>8 DEF Next
<1>. QED  BY <1>1, <1>2, TrailAlways, PTL DEF Spec

\* open_request, record_decision: the requests of a reported run are those its
\* trail holds for approval, and a verdict in a trail is the one in the queue,
\* and is there once, for any number of runs, deciders and processes.
THEOREM QueueAndTrailStayTogether == Spec => []QueueAndTrailAgree
<1>1. AgreeInv => QueueAndTrailAgree
  <2>. SUFFICES ASSUME AgreeInv, NEW run \in DOMAIN reports, reports[run].state = "written"
                PROVE  Agrees(run, reports[run].trail)
    BY DEF Agrees, QueueAndTrailAgree
  <2>1. reports[run].trail \in TrailsOf(run)
    BY DEF TrailsOf
  <2>. QED  BY <2>1 DEF AgreeInv, TrailsAgree
<1>. QED  BY <1>1, AgreeAlways, PTL


-----------------------------------------------------------------------------
(***************************************************************************)
(* What leads to what in a graph.                                          *)
(***************************************************************************)

LEMMA DownIs ==
    ASSUME NEW links, NEW t \in DOMAIN links
    PROVE  Downstream(links)[t] =
             {u \in DOMAIN links :
                \A ts \in Enclosed(links) : Successors(links, t) \subseteq ts => u \in ts}
  BY DEF Downstream

\* A link leads where it goes.
LEMMA DownByLink ==
    ASSUME NEW links, NEW t \in DOMAIN links, NEW u \in Successors(links, t)
    PROVE  u \in Downstream(links)[t]
<1>1. u \in DOMAIN links
  BY DEF Successors
<1>. QED  BY <1>1, DownIs

\* What leads to a task leads where that leads.
LEMMA DownOn ==
    ASSUME NEW links, NEW t \in DOMAIN links, NEW u \in Downstream(links)[t],
           NEW v \in Downstream(links)[u]
    PROVE  v \in Downstream(links)[t]
<1>1. u \in DOMAIN links
  BY DownIs
<1>2. v \in DOMAIN links
  BY <1>1, DownIs
<1>3. ASSUME NEW ts \in Enclosed(links), Successors(links, t) \subseteq ts
      PROVE  v \in ts
  <2>1. u \in ts
    BY <1>3, DownIs
  <2>2. Successors(links, u) \subseteq ts
    BY <2>1 DEF Enclosed
  <2>. QED  BY <1>1, <2>2, DownIs
<1>. QED  BY <1>2, <1>3, DownIs

\* Whatever it leads to, it leads to by a link that it has.
LEMMA DownFirst ==
    ASSUME NEW links, NEW t \in DOMAIN links, NEW u \in Downstream(links)[t]
    PROVE  \E v \in Successors(links, t) : u = v \/ u \in Downstream(links)[v]
<1>. DEFINE ts == {w \in DOMAIN links :
                     \E v \in Successors(links, t) : w = v \/ w \in Downstream(links)[v]}
<1>1. Successors(links, t) \subseteq ts
  BY DEF Successors
<1>2. ASSUME NEW w \in ts, NEW x \in Successors(links, w)
      PROVE  x \in ts
  <2>1. PICK v \in Successors(links, t) : w = v \/ w \in Downstream(links)[v]
    OBVIOUS
  <2>2. x \in DOMAIN links /\ w \in DOMAIN links /\ v \in DOMAIN links
    BY DEF Successors
  <2>3. x \in Downstream(links)[w]
    BY <2>2, DownByLink
  <2>4. x \in Downstream(links)[v]
    BY <2>1, <2>2, <2>3, DownOn
  <2>. QED  BY <2>2, <2>4
<1>3. ts \in Enclosed(links)
  BY <1>2 DEF Enclosed
<1>. HIDE DEF ts
<1>4. u \in ts
  BY <1>1, <1>3, DownIs
<1>. QED  BY <1>4 DEF ts

\* The members of a knot lead to each other, where there are several, and all
\* that do are members.
KnotOf(links, t) == {t} \cup {u \in Downstream(links)[t] : t \in Downstream(links)[u]}

LEMMA KnotsAre ==
    ASSUME NEW links
    PROVE  Knots(links) = {KnotOf(links, t) : t \in DOMAIN links}
  BY DEF Knots, KnotOf

LEMMA KnotIs ==
    ASSUME NEW links, NEW t \in DOMAIN links
    PROVE  /\ KnotOf(links, t) \subseteq DOMAIN links
           /\ t \in KnotOf(links, t)
           /\ \A u, v \in KnotOf(links, t) : u # v => u \in Downstream(links)[v]
           /\ \A u \in KnotOf(links, t) : \A v \in DOMAIN links :
                 u \in Downstream(links)[v] /\ v \in Downstream(links)[u] =>
                   v \in KnotOf(links, t)
<1>1. \A u \in KnotOf(links, t) : u \in DOMAIN links
  BY DownIs DEF KnotOf
<1>2. ASSUME NEW u \in KnotOf(links, t), NEW v \in KnotOf(links, t), u # v
      PROVE  u \in Downstream(links)[v]
  BY <1>1, <1>2, DownOn DEF KnotOf
<1>3. ASSUME NEW u \in KnotOf(links, t), NEW v \in DOMAIN links,
             u \in Downstream(links)[v], v \in Downstream(links)[u]
      PROVE  v \in KnotOf(links, t)
  <2>1. CASE u = t
    BY <1>3, <2>1 DEF KnotOf
  <2>2. CASE u # t
    <3>1. u \in Downstream(links)[t] /\ t \in Downstream(links)[u]
      BY <2>2 DEF KnotOf
    <3>2. v \in Downstream(links)[t] /\ t \in Downstream(links)[v]
      BY <1>1, <1>3, <3>1, DownOn
    <3>. QED  BY <3>2 DEF KnotOf
  <2>. QED  BY <2>1, <2>2
<1>. QED  BY <1>1, <1>2, <1>3 DEF KnotOf

\* Tasks all of which lead to all of them, themselves too.
Mutual(links, ts) == ts \subseteq DOMAIN links /\ \A t, u \in ts : u \in Downstream(links)[t]

-----------------------------------------------------------------------------
(***************************************************************************)
(* The search for cycles. A task is done when its visit is over. Every     *)
(* link that was followed goes to what is done, or to the next task of the *)
(* path, or closed a cycle that was reported. So tasks that are done, of   *)
(* which no two were reported together, have a last one: a knot has none.  *)
(***************************************************************************)
Done(path, seen) == seen \ Range(path)

Together(found, t, u) == \E cycle \in found : t \in cycle /\ u \in cycle

Followed(links, path, seen, left, found) ==
    \A t \in seen : \A u \in Successors(links, t) \ left[t] :
       \/ u \in Done(path, seen)
       \/ Together(found, t, u)
       \/ \E i \in DOMAIN path : i + 1 \in DOMAIN path /\ path[i] = t /\ path[i + 1] = u

PathHeld(links, path, seen) ==
    /\ path \in Seq(DOMAIN links)
    /\ seen \subseteq DOMAIN links
    /\ Range(path) \subseteq seen
    /\ \A i, j \in DOMAIN path : path[i] = path[j] => i = j
    /\ \A i, j \in DOMAIN path : i < j => path[j] \in Downstream(links)[path[i]]

LeftHeld(links, path, seen, left) ==
    /\ left \in [DOMAIN links -> SUBSET DOMAIN links]
    /\ \A t \in DOMAIN links : left[t] \subseteq Successors(links, t)
    /\ \A t \in DOMAIN links \ seen : left[t] = Successors(links, t)
    /\ \A t \in Done(path, seen) : left[t] = {}

HasLast(links, done, found) ==
    \A ts \in (SUBSET done) \ {{}} :
       \/ \E t \in ts : Successors(links, t) \cap ts = {}
       \/ \E t, u \in ts : Together(found, t, u)

Searched(links, path, seen, left, found) ==
    /\ PathHeld(links, path, seen)
    /\ LeftHeld(links, path, seen, left)
    /\ Followed(links, path, seen, left, found)
    /\ \A cycle \in found : cycle # {} /\ Mutual(links, cycle)
    /\ HasLast(links, Done(path, seen), found)

LEMMA SearchStarts ==
    ASSUME NEW links
    PROVE  Searched(links, <<>>, {}, [t \in DOMAIN links |-> Successors(links, t)], {})
<1>1. Done(<<>>, {}) = {} /\ Range(<<>>) = {} /\ <<>> \in Seq(DOMAIN links)
  BY DEF Done, Range
<1>. QED
  BY <1>1
  DEF Searched, PathHeld, LeftHeld, Followed, HasLast, Successors

\* What becomes of the path when a task is entered, and when one is left.
EntersTo(links, path, seen, t, more) ==
    /\ PathHeld(links, more, seen \cup {t})
    /\ Done(more, seen \cup {t}) = Done(path, seen)
    /\ \A i \in DOMAIN path : i \in DOMAIN more /\ more[i] = path[i]
    /\ path # <<>> => \E i \in DOMAIN more :
         i + 1 \in DOMAIN more /\ more[i] = Last(path) /\ more[i + 1] = t

LEMMA Entered ==
    ASSUME NEW links, NEW path, NEW seen, PathHeld(links, path, seen),
           NEW t \in DOMAIN links \ seen,
           path # <<>> => t \in Successors(links, Last(path)),
           NEW more, more = Append(path, t)
    PROVE  EntersTo(links, path, seen, t, more)
<1>. DEFINE n == Len(path)
<1>1. /\ n \in Nat
      /\ DOMAIN path = 1 .. n
      /\ path \in Seq(DOMAIN links)
      /\ \A i, j \in 1 .. n : path[i] = path[j] => i = j
      /\ \A i, j \in 1 .. n : i < j => path[j] \in Downstream(links)[path[i]]
      /\ \A i \in 1 .. n : path[i] \in seen
      /\ seen \subseteq DOMAIN links
  BY DEF PathHeld, Range
<1>2. /\ DOMAIN more = 1 .. n + 1
      /\ more \in Seq(DOMAIN links)
      /\ more[n + 1] = t
      /\ \A i \in 1 .. n : more[i] = path[i]
      /\ Len(more) = n + 1
  BY <1>1
<1>3. path # <<>> => n \in 1 .. n /\ Last(path) = path[n]
  BY <1>1 DEF Last
<1>. HIDE DEF n
<1>4. Range(more) = Range(path) \cup {t}
  BY <1>1, <1>2 DEF Range
<1>5. ASSUME NEW i \in 1 .. n + 1, NEW j \in 1 .. n + 1, i < j
      PROVE  more[j] \in Downstream(links)[more[i]]
  <2>1. CASE j \in 1 .. n
    BY <1>1, <1>2, <1>5, <2>1
  <2>2. CASE j = n + 1
    <3>1. path # <<>> /\ i \in 1 .. n
      BY <1>1, <1>5, <2>2
    <3>2. path[n] \in DOMAIN links /\ t \in Downstream(links)[path[n]]
      BY <1>1, <1>3, <3>1, DownByLink
    <3>3. CASE i = n
      BY <1>2, <2>2, <3>1, <3>2, <3>3
    <3>4. CASE i # n
      <4>1. path[n] \in Downstream(links)[path[i]] /\ path[i] \in DOMAIN links
        BY <1>1, <1>3, <3>1, <3>4
      <4>2. t \in Downstream(links)[path[i]]
        BY <3>2, <4>1, DownOn
      <4>. QED  BY <1>2, <2>2, <3>1, <4>2
    <3>. QED  BY <3>3, <3>4
  <2>. QED  BY <1>1, <1>5, <2>1, <2>2
<1>6. \A i, j \in 1 .. n + 1 : more[i] = more[j] => i = j
  BY <1>1, <1>2
<1>7. PathHeld(links, more, seen \cup {t})
  BY <1>1, <1>2, <1>4, <1>5, <1>6 DEF PathHeld
<1>8. Done(more, seen \cup {t}) = Done(path, seen)
  BY <1>4 DEF Done
<1>9. \A i \in DOMAIN path : i \in DOMAIN more /\ more[i] = path[i]
  BY <1>1, <1>2
<1>10. path # <<>> => /\ n \in DOMAIN more /\ n + 1 \in DOMAIN more
                      /\ more[n] = Last(path) /\ more[n + 1] = t
  BY <1>1, <1>2, <1>3
<1>. QED  BY <1>7, <1>8, <1>9, <1>10 DEF EntersTo

LEMMA LeftBehind ==
    ASSUME NEW links, NEW path, NEW seen, PathHeld(links, path, seen), path # <<>>,
           NEW less, less = Front(path)
    PROVE  /\ PathHeld(links, less, seen)
           /\ Last(path) \in seen
           /\ Last(path) \notin Done(path, seen)
           /\ Done(less, seen) = Done(path, seen) \cup {Last(path)}
           /\ \A i \in DOMAIN path : i + 1 \in DOMAIN path =>
                /\ path[i] # Last(path)
                /\ path[i + 1] = Last(path) \/
                     (i + 1 \in DOMAIN less /\ i \in DOMAIN less
                        /\ less[i] = path[i] /\ less[i + 1] = path[i + 1])
<1>. DEFINE n == Len(path)
<1>1. /\ n \in Nat \ {0}
      /\ DOMAIN path = 1 .. n
      /\ path \in Seq(DOMAIN links)
      /\ \A i, j \in 1 .. n : path[i] = path[j] => i = j
      /\ \A i, j \in 1 .. n : i < j => path[j] \in Downstream(links)[path[i]]
      /\ \A i \in 1 .. n : path[i] \in seen
      /\ seen \subseteq DOMAIN links
  BY DEF PathHeld, Range
<1>2. /\ DOMAIN less = 1 .. n - 1
      /\ less \in Seq(DOMAIN links)
      /\ \A i \in 1 .. n - 1 : less[i] = path[i]
  BY <1>1 DEF Front
<1>3. Last(path) = path[n]
  BY DEF Last
<1>. HIDE DEF n
<1>4. Range(path) = Range(less) \cup {path[n]} /\ path[n] \notin Range(less)
  <2>1. \A i \in 1 .. n : i = n \/ i \in 1 .. n - 1
    BY <1>1
  <2>2. \A i \in 1 .. n - 1 : i \in 1 .. n /\ i # n
    BY <1>1
  <2>. QED  BY <1>1, <1>2, <2>1, <2>2 DEF Range
<1>5. PathHeld(links, less, seen)
  BY <1>1, <1>2, <1>4 DEF PathHeld, Range
<1>6. Done(less, seen) = Done(path, seen) \cup {path[n]}
  BY <1>1, <1>4 DEF Done, Range
<1>7. ASSUME NEW i \in DOMAIN path, i + 1 \in DOMAIN path
      PROVE  /\ path[i] # path[n]
             /\ path[i + 1] = path[n] \/
                  (i + 1 \in DOMAIN less /\ i \in DOMAIN less
                     /\ less[i] = path[i] /\ less[i + 1] = path[i + 1])
  BY <1>1, <1>2, <1>7
<1>. QED  BY <1>1, <1>3, <1>4, <1>5, <1>6, <1>7 DEF Done

\* What a link back to the path closes: tasks that lead to each other.
ClosedPart(path, u) == {path[i] : i \in {j \in DOMAIN path : \E k \in 1 .. j : path[k] = u}}

LEMMA ClosedMutually ==
    ASSUME NEW links, NEW path, NEW seen, PathHeld(links, path, seen), path # <<>>,
           NEW u \in Range(path), u \in Successors(links, Last(path))
    PROVE  /\ Last(path) \in ClosedPart(path, u)
           /\ u \in ClosedPart(path, u)
           /\ Mutual(links, ClosedPart(path, u))
<1>. DEFINE n == Len(path)
<1>1. /\ n \in Nat \ {0}
      /\ DOMAIN path = 1 .. n
      /\ \A i \in 1 .. n : path[i] \in DOMAIN links
      /\ \A i, j \in 1 .. n : path[i] = path[j] => i = j
      /\ \A i, j \in 1 .. n : i < j => path[j] \in Downstream(links)[path[i]]
  BY DEF PathHeld
<1>2. Last(path) = path[n]
  BY DEF Last
<1>. HIDE DEF n
<1>3. PICK k \in 1 .. n : path[k] = u
  BY <1>1 DEF Range
<1>4. ClosedPart(path, u) = {path[i] : i \in k .. n}
  <2>1. \A j \in 1 .. n : (\E l \in 1 .. j : path[l] = u) <=> j \in k .. n
    BY <1>1, <1>3
  <2>. QED  BY <1>1, <1>3, <2>1 DEF ClosedPart
<1>5. n \in k .. n /\ k \in k .. n
  BY <1>1, <1>3
<1>6. u \in Downstream(links)[path[n]]
  BY <1>1, <1>2, <1>5, DownByLink
<1>7. ASSUME NEW i \in k .. n PROVE u \in Downstream(links)[path[i]]
  <2>1. CASE i = n
    BY <1>6, <2>1
  <2>2. CASE i # n
    <3>1. path[n] \in Downstream(links)[path[i]] /\ path[i] \in DOMAIN links
      BY <1>1, <1>3, <2>2
    <3>. QED  BY <1>6, <3>1, DownOn
  <2>. QED  BY <2>1, <2>2
<1>8. ASSUME NEW i \in k .. n, NEW j \in k .. n
      PROVE  path[j] \in Downstream(links)[path[i]]
  <2>1. path[i] \in DOMAIN links /\ u \in Downstream(links)[path[i]]
    BY <1>1, <1>3, <1>7
  <2>2. CASE j = k
    BY <1>3, <2>1, <2>2
  <2>3. CASE j # k
    <3>1. path[j] \in Downstream(links)[u]
      BY <1>1, <1>3, <2>3
    <3>. QED  BY <2>1, <3>1, DownOn
  <2>. QED  BY <2>2, <2>3
<1>9. \A i \in k .. n : path[i] \in DOMAIN links
  BY <1>1, <1>3
<1>. QED  BY <1>2, <1>3, <1>4, <1>5, <1>8, <1>9 DEF Mutual

LEMMA EntersSearch ==
    ASSUME NEW links, NEW path, NEW seen, NEW left, NEW found,
           Searched(links, path, seen, left, found),
           NEW t \in DOMAIN links \ seen,
           path # <<>> => t \in Successors(links, Last(path)),
           NEW more, more = Append(path, t),
           NEW rest, rest \in [DOMAIN links -> SUBSET DOMAIN links],
           IF path = <<>> THEN rest = left
           ELSE rest = [left EXCEPT ![Last(path)] = left[Last(path)] \ {t}]
    PROVE  Searched(links, more, seen \cup {t}, rest, found)
<1>1. /\ PathHeld(links, path, seen)
      /\ LeftHeld(links, path, seen, left)
      /\ Followed(links, path, seen, left, found)
  BY DEF Searched
<1>2. EntersTo(links, path, seen, t, more)
  BY <1>1, Entered
<1>3. path # <<>> => Last(path) \in seen /\ Last(path) \notin Done(path, seen)
                     /\ Last(path) \in DOMAIN links
  <2>. SUFFICES ASSUME path # <<>>
                PROVE  Last(path) \in seen /\ Last(path) \notin Done(path, seen)
    BY <1>1 DEF PathHeld
  <2>. QED  BY <1>1, LeftBehind
<1>4. /\ \A v \in DOMAIN links : rest[v] \subseteq left[v]
      /\ \A v \in DOMAIN links : path = <<>> \/ v # Last(path) => rest[v] = left[v]
      /\ path # <<>> => rest[Last(path)] = left[Last(path)] \ {t}
  BY <1>1, <1>3 DEF LeftHeld
<1>5. LeftHeld(links, more, seen \cup {t}, rest)
  <2>1. \A v \in DOMAIN links : rest[v] \subseteq Successors(links, v)
    BY <1>1, <1>4 DEF LeftHeld
  <2>2. \A v \in DOMAIN links \ (seen \cup {t}) : rest[v] = Successors(links, v)
    BY <1>1, <1>3, <1>4 DEF LeftHeld
  <2>3. \A v \in Done(path, seen) : v \in DOMAIN links /\ left[v] = {}
    BY <1>1 DEF LeftHeld, PathHeld, Done
  <2>4. \A v \in Done(more, seen \cup {t}) : rest[v] = {}
    BY <1>2, <1>4, <2>3 DEF EntersTo
  <2>. QED  BY <2>1, <2>2, <2>4 DEF LeftHeld
<1>6. Followed(links, more, seen \cup {t}, rest, found)
  <2>. SUFFICES ASSUME NEW v \in seen \cup {t}, NEW u \in Successors(links, v) \ rest[v]
                PROVE  \/ u \in Done(path, seen)
                       \/ Together(found, v, u)
                       \/ \E i \in DOMAIN more :
                            i + 1 \in DOMAIN more /\ more[i] = v /\ more[i + 1] = u
    BY <1>2 DEF Followed, EntersTo
  <2>1. CASE v = t
    <3>1. left[t] = Successors(links, t)
      BY <1>1 DEF LeftHeld
    <3>2. rest[t] = left[t]
      BY <1>3, <1>4
    <3>. QED  BY <2>1, <3>1, <3>2
  <2>2. CASE v \in seen /\ u \notin left[v]
    <3>1. \/ u \in Done(path, seen)
          \/ Together(found, v, u)
          \/ \E i \in DOMAIN path : i + 1 \in DOMAIN path /\ path[i] = v /\ path[i + 1] = u
      BY <1>1, <2>2 DEF Followed
    <3>. QED  BY <1>2, <3>1 DEF EntersTo
  <2>3. CASE v \in seen /\ u \in left[v]
    <3>1. v \in DOMAIN links
      BY <1>1, <2>3 DEF PathHeld
    <3>2. path # <<>> /\ v = Last(path) /\ u = t
      BY <1>4, <2>3, <3>1
    <3>. QED  BY <1>2, <3>2 DEF EntersTo
  <2>. QED  BY <2>1, <2>2, <2>3
<1>. QED  BY <1>1, <1>2, <1>5, <1>6 DEF Searched, EntersTo

LEMMA FollowsSearch ==
    ASSUME NEW links, NEW path, NEW seen, NEW left, NEW found,
           Searched(links, path, seen, left, found),
           path # <<>>, NEW u \in left[Last(path)],
           NEW rest, rest = [left EXCEPT ![Last(path)] = left[Last(path)] \ {u}],
           NEW more,
           \/ u \in Range(path) /\ more = found \cup {ClosedPart(path, u)}
           \/ u \notin Range(path) /\ u \in seen /\ more = found
    PROVE  Searched(links, path, seen, rest, more)
<1>1. /\ PathHeld(links, path, seen)
      /\ LeftHeld(links, path, seen, left)
      /\ Followed(links, path, seen, left, found)
      /\ \A cycle \in found : cycle # {} /\ Mutual(links, cycle)
      /\ HasLast(links, Done(path, seen), found)
  BY DEF Searched
<1>2. Last(path) \in seen /\ Last(path) \notin Done(path, seen) /\ Last(path) \in DOMAIN links
  <2>1. PICK less : less = Front(path)
    OBVIOUS
  <2>2. Last(path) \in seen /\ Last(path) \notin Done(path, seen)
    BY <1>1, <2>1, LeftBehind
  <2>3. seen \subseteq DOMAIN links
    BY <1>1 DEF PathHeld
  <2>. QED  BY <2>2, <2>3
<1>3. u \in Successors(links, Last(path))
  BY <1>1, <1>2 DEF LeftHeld
<1>4. /\ u \in Done(path, seen) \/ Together(more, Last(path), u)
      /\ found \subseteq more
      /\ \A cycle \in more : cycle # {} /\ Mutual(links, cycle)
  <2>1. CASE u \in Range(path)
    <3>1. /\ Last(path) \in ClosedPart(path, u)
          /\ u \in ClosedPart(path, u)
          /\ Mutual(links, ClosedPart(path, u))
      BY <1>1, <1>3, <2>1, ClosedMutually
    <3>. QED  BY <1>1, <2>1, <3>1 DEF Together
  <2>2. CASE u \notin Range(path)
    BY <1>1, <2>2 DEF Done
  <2>. QED  BY <2>1, <2>2
<1>5. /\ rest \in [DOMAIN links -> SUBSET DOMAIN links]
      /\ \A v \in DOMAIN links : v # Last(path) => rest[v] = left[v]
      /\ rest[Last(path)] = left[Last(path)] \ {u}
  BY <1>1, <1>2 DEF LeftHeld
<1>6. LeftHeld(links, path, seen, rest)
  <2>1. \A v \in DOMAIN links : rest[v] \subseteq left[v]
    BY <1>5
  <2>2. \A v \in DOMAIN links \ seen : rest[v] = left[v]
    BY <1>2, <1>5
  <2>3. \A v \in Done(path, seen) : v \in DOMAIN links
    BY <1>1 DEF PathHeld, Done
  <2>. QED  BY <1>1, <1>5, <2>1, <2>2, <2>3 DEF LeftHeld
<1>7. \A v, w : Together(found, v, w) => Together(more, v, w)
  BY <1>4 DEF Together
<1>8. Followed(links, path, seen, rest, more)
  <2>. SUFFICES ASSUME NEW v \in seen, NEW w \in Successors(links, v) \ rest[v]
                PROVE  \/ w \in Done(path, seen)
                       \/ Together(more, v, w)
                       \/ \E i \in DOMAIN path :
                            i + 1 \in DOMAIN path /\ path[i] = v /\ path[i + 1] = w
    BY DEF Followed
  <2>1. CASE w \in left[v]
    <3>1. v \in DOMAIN links
      BY <1>1 DEF PathHeld
    <3>2. v = Last(path) /\ w = u
      BY <1>5, <2>1, <3>1
    <3>. QED  BY <1>4, <3>2
  <2>2. CASE w \notin left[v]
    BY <1>1, <1>7, <2>2 DEF Followed
  <2>. QED  BY <2>1, <2>2
<1>9. HasLast(links, Done(path, seen), more)
  BY <1>1, <1>7 DEF HasLast
<1>. QED  BY <1>1, <1>4, <1>6, <1>8, <1>9 DEF Searched

LEMMA LeavesSearch ==
    ASSUME NEW links, NEW path, NEW seen, NEW left, NEW found,
           Searched(links, path, seen, left, found),
           path # <<>>, left[Last(path)] = {},
           NEW less, less = Front(path)
    PROVE  Searched(links, less, seen, left, found)
<1>1. /\ PathHeld(links, path, seen)
      /\ LeftHeld(links, path, seen, left)
      /\ Followed(links, path, seen, left, found)
      /\ HasLast(links, Done(path, seen), found)
  BY DEF Searched
<1>2. PICK t : t = Last(path)
  OBVIOUS
<1>3. /\ PathHeld(links, less, seen)
      /\ t \in seen
      /\ t \notin Done(path, seen)
      /\ Done(less, seen) = Done(path, seen) \cup {t}
      /\ \A i \in DOMAIN path : i + 1 \in DOMAIN path =>
           /\ path[i] # t
           /\ path[i + 1] = t \/
                (i + 1 \in DOMAIN less /\ i \in DOMAIN less
                   /\ less[i] = path[i] /\ less[i + 1] = path[i + 1])
  BY <1>1, <1>2, LeftBehind
<1>4. LeftHeld(links, less, seen, left)
  BY <1>1, <1>2, <1>3 DEF LeftHeld
<1>5. Followed(links, less, seen, left, found)
  <2>. SUFFICES ASSUME NEW v \in seen, NEW u \in Successors(links, v) \ left[v]
                PROVE  \/ u \in Done(less, seen)
                       \/ Together(found, v, u)
                       \/ \E i \in DOMAIN less :
                            i + 1 \in DOMAIN less /\ less[i] = v /\ less[i + 1] = u
    BY DEF Followed
  <2>1. \/ u \in Done(path, seen)
        \/ Together(found, v, u)
        \/ \E i \in DOMAIN path : i + 1 \in DOMAIN path /\ path[i] = v /\ path[i + 1] = u
    BY <1>1 DEF Followed
  <2>. QED  BY <1>3, <2>1
\* What the tasks that are done lead to.
<1>6. ASSUME NEW v \in Done(less, seen), NEW u \in Successors(links, v)
      PROVE  u \in Done(path, seen) \/ Together(found, v, u)
  <2>1. v \in seen /\ left[v] = {} /\ (v = t \/ v \notin Range(path))
    BY <1>1, <1>2, <1>3, <1>4, <1>6 DEF LeftHeld, Done
  <2>2. ~\E i \in DOMAIN path : i + 1 \in DOMAIN path /\ path[i] = v /\ path[i + 1] = u
    BY <1>3, <2>1 DEF Range
  <2>. QED  BY <1>1, <2>1, <2>2 DEF Followed
<1>7. HasLast(links, Done(less, seen), found)
  <2>. SUFFICES ASSUME NEW ts \in (SUBSET Done(less, seen)) \ {{}},
                       \A v, u \in ts : ~Together(found, v, u)
                PROVE  \E v \in ts : Successors(links, v) \cap ts = {}
    BY DEF HasLast
  <2>1. CASE ts = {t}
    BY <1>3, <1>6, <2>1
  <2>2. CASE ts # {t}
    <3>1. ts \ {t} \in (SUBSET Done(path, seen)) \ {{}}
      BY <1>3, <2>2
    <3>2. PICK v \in ts \ {t} : Successors(links, v) \cap (ts \ {t}) = {}
      BY <1>1, <3>1 DEF HasLast
    <3>3. t \in ts => t \notin Successors(links, v)
      BY <1>3, <1>6, <3>2
    <3>. QED  BY <3>2, <3>3
  <2>. QED  BY <2>1, <2>2
<1>. QED  BY <1>3, <1>4, <1>5, <1>7 DEF Searched

\* What is reported: parts of knots, one at least of each that is on a cycle.
Reported(links, found) ==
    LET knots == {knot \in Knots(links) : knot \subseteq OnCycle(links)} IN
    /\ {} \notin found
    /\ \A cycle \in found : \E knot \in knots : cycle \subseteq knot
    /\ \A knot \in knots : \E cycle \in found : cycle \subseteq knot

\* When all is done, every knot has been reported, and nothing else.
LEMMA SearchEnds ==
    ASSUME NEW links, NEW left, NEW found,
           Searched(links, <<>>, DOMAIN links, left, found)
    PROVE  Reported(links, found)
<1>. DEFINE knots == {knot \in Knots(links) : knot \subseteq OnCycle(links)}
<1>1. /\ \A cycle \in found : cycle # {} /\ Mutual(links, cycle)
      /\ HasLast(links, DOMAIN links, found)
  <2>1. Range(<<>>) = {}
    BY DEF Range
  <2>. QED  BY <2>1 DEF Searched, Done
<1>2. OnCycle(links) = {t \in DOMAIN links : t \in Downstream(links)[t]}
  BY DEF OnCycle
<1>3. ASSUME NEW cycle \in found
      PROVE  \E knot \in knots : cycle \subseteq knot
  <2>1. PICK t \in cycle : t \in DOMAIN links /\ t \in Downstream(links)[t]
    BY <1>1 DEF Mutual
  <2>2. cycle \subseteq KnotOf(links, t)
    BY <1>1, <2>1 DEF Mutual, KnotOf
  <2>3. \A u \in KnotOf(links, t) : u \in DOMAIN links /\ u \in Downstream(links)[u]
    <3>. TAKE u \in KnotOf(links, t)
    <3>1. u \in DOMAIN links
      BY <2>1, KnotIs
    <3>2. u # t => u \in Downstream(links)[t] /\ t \in Downstream(links)[u]
      BY <2>1, KnotIs
    <3>. QED  BY <2>1, <3>1, <3>2, DownOn
  <2>4. KnotOf(links, t) \in knots
    BY <1>2, <2>1, <2>3, KnotsAre
  <2>. QED  BY <2>2, <2>4
<1>4. ASSUME NEW knot \in knots
      PROVE  \E cycle \in found : cycle \subseteq knot
  <2>1. PICK t \in DOMAIN links : knot = KnotOf(links, t)
    BY KnotsAre
  <2>2. /\ knot \subseteq DOMAIN links
        /\ t \in knot
        /\ \A u, v \in knot : u # v => u \in Downstream(links)[v]
        /\ \A u \in knot : \A v \in DOMAIN links :
              u \in Downstream(links)[v] /\ v \in Downstream(links)[u] => v \in knot
    BY <2>1, KnotIs
  <2>3. \A u \in knot : u \in Downstream(links)[u]
    BY <1>2
  <2>4. ASSUME NEW u \in knot PROVE Successors(links, u) \cap knot # {}
    <3>1. PICK v \in Successors(links, u) : u = v \/ u \in Downstream(links)[v]
      BY <2>2, <2>3, DownFirst
    <3>2. v \in DOMAIN links /\ v \in Downstream(links)[u]
      BY <2>2, DownByLink DEF Successors
    <3>. QED  BY <2>2, <3>1, <3>2
  <2>5. PICK u, v \in knot : Together(found, u, v)
    BY <1>1, <2>2, <2>4 DEF HasLast
  <2>6. PICK cycle \in found : u \in cycle
    BY <2>5 DEF Together
  <2>7. cycle \subseteq knot
    BY <1>1, <2>2, <2>6 DEF Mutual
  <2>. QED  BY <2>7
<1>. QED  BY <1>1, <1>3, <1>4 DEF Reported

-----------------------------------------------------------------------------
(***************************************************************************)
(* The same of every request.                                              *)
(***************************************************************************)

CyclesHeld(s) ==
    /\ s.op = "cycles" =>
         /\ DOMAIN s = {"op", "links", "path", "seen", "left", "found"}
         /\ Searched(s.links, s.path, s.seen, s.left, s.found)
    /\ s.op = "cycles_found" => Reported(s.links, s.found)

CyclesInv == ServingForm /\ \A r \in Requests : CyclesHeld(serving[r])

LEMMA SearchHeld ==
    ASSUME ServingForm, NEW r \in Requests, CyclesHeld(serving[r]), SearchStep(r)
    PROVE  CyclesHeld(serving'[r])
<1>. DEFINE s == serving[r]
<1>1. ASSUME NEW next, Continues(r, next) \/ Starts(r, "analyses", next)
      PROVE  serving'[r] = next
  BY <1>1 DEF ServingForm, Continues, Starts
<1>2. CASE \E links \in TaskLinks : Cycles(r, links)
  <2>1. PICK links \in TaskLinks : Cycles(r, links)
    BY <1>2
  <2>2. PICK next : next = [op |-> "cycles", links |-> links, path |-> <<>>, seen |-> {},
                            left |-> [t \in DOMAIN links |-> Successors(links, t)],
                            found |-> {}]
    OBVIOUS
  <2>3. serving'[r] = next
    BY <1>1, <2>1, <2>2 DEF Cycles
  <2>4. CyclesHeld(next)
    BY <2>2, SearchStarts DEF CyclesHeld
  <2>. QED  BY <2>3, <2>4
<1>3. CASE s.op = "cycles"
  <2>1. /\ DOMAIN s = {"op", "links", "path", "seen", "left", "found"}
        /\ Searched(s.links, s.path, s.seen, s.left, s.found)
    BY <1>3 DEF CyclesHeld
  <2>2. /\ PathHeld(s.links, s.path, s.seen)
        /\ LeftHeld(s.links, s.path, s.seen, s.left)
        /\ s.path # <<>> => Last(s.path) \in DOMAIN s.links /\ Last(s.path) \in s.seen
    <3>1. PathHeld(s.links, s.path, s.seen) /\ LeftHeld(s.links, s.path, s.seen, s.left)
      BY <2>1 DEF Searched
    <3>2. s.path # <<>> => Last(s.path) \in s.seen
      BY <3>1, LeftBehind
    <3>. QED  BY <3>1, <3>2 DEF PathHeld
  <2>3. CASE EnterRoot(r)
    <3>1. PICK t \in DOMAIN s.links \ s.seen : Continues(r, Enters(s, t)) /\ s.path = <<>>
      BY <2>3 DEF EnterRoot
    <3>2. PICK next : next = Enters(s, t)
      OBVIOUS
    <3>3. /\ DOMAIN next = DOMAIN s /\ next.op = s.op /\ next.links = s.links
          /\ next.path = Append(s.path, t) /\ next.seen = s.seen \cup {t}
          /\ next.left = s.left /\ next.found = s.found
      BY <2>1, <3>2 DEF Enters
    <3>4. s.left \in [DOMAIN s.links -> SUBSET DOMAIN s.links]
      BY <2>2 DEF LeftHeld
    <3>5. Searched(s.links, next.path, s.seen \cup {t}, s.left, s.found)
      BY <2>1, <3>1, <3>3, <3>4, EntersSearch
    <3>6. CyclesHeld(next)
      BY <1>3, <2>1, <3>3, <3>5 DEF CyclesHeld
    <3>. QED  BY <1>1, <3>1, <3>2, <3>6
  <2>4. CASE Leave(r)
    <3>1. s.path # <<>> /\ s.left[Last(s.path)] = {}
      BY <2>4 DEF Leave
    <3>2. PICK next : next = [s EXCEPT !.path = Front(@)]
      OBVIOUS
    <3>3. serving'[r] = next
      BY <1>1, <2>4, <3>2 DEF Leave
    <3>4. /\ DOMAIN next = DOMAIN s /\ next.op = s.op /\ next.links = s.links
          /\ next.path = Front(s.path) /\ next.seen = s.seen
          /\ next.left = s.left /\ next.found = s.found
      BY <2>1, <3>2
    <3>5. Searched(s.links, next.path, s.seen, s.left, s.found)
      BY <2>1, <3>1, <3>4, LeavesSearch
    <3>6. CyclesHeld(next)
      BY <1>3, <2>1, <3>4, <3>5 DEF CyclesHeld
    <3>. QED  BY <3>3, <3>6
  <2>5. CASE EndCycles(r)
    <3>1. s.path = <<>> /\ s.seen = DOMAIN s.links
      BY <2>5 DEF EndCycles
    <3>2. PICK next : next = [op |-> "cycles_found", links |-> s.links, found |-> s.found]
      OBVIOUS
    <3>3. serving'[r] = next
      BY <1>1, <2>5, <3>2 DEF EndCycles
    <3>4. Reported(s.links, s.found)
      <4>1. Searched(s.links, <<>>, DOMAIN s.links, s.left, s.found)
        BY <2>1, <3>1
      <4>. QED  BY <4>1, SearchEnds
    <3>5. CyclesHeld(next)
      BY <3>2, <3>4 DEF CyclesHeld
    <3>. QED  BY <3>3, <3>5
  <2>6. CASE Follow(r)
    <3>1. PICK u, looked :
             /\ u \in s.left[Last(s.path)]
             /\ looked = [s EXCEPT !.left[Last(s.path)] = @ \ {u}]
             /\ s.path # <<>>
             /\ Continues(r, IF Closes(s, u) THEN [looked EXCEPT !.found = @ \cup {ClosedBy(s, u)}]
                             ELSE IF u \in s.seen THEN looked
                             ELSE Enters(looked, u))
      BY <2>6 DEF Follow
    <3>2. PICK rest : rest = [s.left EXCEPT ![Last(s.path)] = s.left[Last(s.path)] \ {u}]
      OBVIOUS
    <3>3. /\ DOMAIN looked = DOMAIN s /\ looked.op = s.op /\ looked.links = s.links
          /\ looked.path = s.path /\ looked.seen = s.seen
          /\ looked.left = rest /\ looked.found = s.found
      BY <2>1, <3>1, <3>2
    <3>4. u \in Successors(s.links, Last(s.path)) /\ u \in DOMAIN s.links
      BY <2>2, <3>1 DEF LeftHeld, Successors
    <3>5. CASE u \in Range(s.path)
      <4>1. PICK next : next = [looked EXCEPT !.found = @ \cup {ClosedBy(s, u)}]
        OBVIOUS
      <4>2. serving'[r] = next
        BY <1>1, <3>1, <3>5, <4>1 DEF Closes
      <4>3. /\ DOMAIN next = DOMAIN s /\ next.op = s.op /\ next.links = s.links
            /\ next.path = s.path /\ next.seen = s.seen
            /\ next.left = rest /\ next.found = s.found \cup {ClosedPart(s.path, u)}
        BY <2>1, <3>3, <4>1 DEF ClosedBy, ClosedPart
      <4>4. Searched(s.links, s.path, s.seen, rest, next.found)
        BY <2>1, <3>1, <3>2, <3>5, <4>3, FollowsSearch
      <4>5. CyclesHeld(next)
        BY <1>3, <2>1, <4>3, <4>4 DEF CyclesHeld
      <4>. QED  BY <4>2, <4>5
    <3>6. CASE u \notin Range(s.path) /\ u \in s.seen
      <4>1. serving'[r] = looked
        BY <1>1, <3>1, <3>6 DEF Closes
      <4>2. Searched(s.links, s.path, s.seen, rest, s.found)
        BY <2>1, <3>1, <3>2, <3>6, FollowsSearch
      <4>3. CyclesHeld(looked)
        BY <1>3, <2>1, <3>3, <4>2 DEF CyclesHeld
      <4>. QED  BY <4>1, <4>3
    <3>7. CASE u \notin s.seen
      <4>1. u \notin Range(s.path)
        BY <2>2, <3>7 DEF PathHeld
      <4>2. PICK next : next = Enters(looked, u)
        OBVIOUS
      <4>3. serving'[r] = next
        BY <1>1, <3>1, <3>7, <4>1, <4>2 DEF Closes
      <4>4. /\ DOMAIN next = DOMAIN s /\ next.op = s.op /\ next.links = s.links
            /\ next.path = Append(s.path, u) /\ next.seen = s.seen \cup {u}
            /\ next.left = rest /\ next.found = s.found
        BY <2>1, <3>3, <4>2 DEF Enters
      <4>5. rest \in [DOMAIN s.links -> SUBSET DOMAIN s.links]
        BY <2>2, <3>1, <3>2 DEF LeftHeld
      <4>6. Searched(s.links, next.path, s.seen \cup {u}, rest, s.found)
        BY <2>1, <3>1, <3>2, <3>4, <3>7, <4>4, <4>5, EntersSearch
      <4>7. CyclesHeld(next)
        BY <1>3, <2>1, <4>4, <4>6 DEF CyclesHeld
      <4>. QED  BY <4>3, <4>7
    <3>. QED  BY <3>5, <3>6, <3>7
  <2>. QED
    BY <1>2, <2>3, <2>4, <2>5, <2>6 DEF SearchStep
<1>. QED
  BY <1>2, <1>3 DEF SearchStep, EnterRoot, Follow, Leave, EndCycles

\* What all others do turns no request into a search.
LEMMA CyclesElsewhere ==
    ASSUME CyclesInv, NEW ops, OnlyTurns(ops), ops \cap SearchOps = {}, ServingForm'
    PROVE  CyclesInv'
<1>1. \A r \in Requests : CyclesHeld(serving'[r])
  <2>1. CASE \E r \in Requests : Turns(r, ops)
    BY <2>1 DEF CyclesInv, CyclesHeld, Turns, ServingForm, SearchOps
  <2>2. CASE \A r \in Requests : serving'[r] \in {serving[r], Idle}
    BY <2>2 DEF CyclesInv, CyclesHeld, Idle
  <2>. QED  BY <2>1, <2>2 DEF OnlyTurns
<1>. QED  BY <1>1 DEF CyclesInv

LEMMA CyclesAlways == Spec => []CyclesInv
<1>1. Init => CyclesInv
  BY DEF Init, WorkersInit, CyclesInv, ServingForm, CyclesHeld, Idle
<1>2. CyclesInv /\ ServingForm' /\ [Next]_vars => CyclesInv'
  <2>. SUFFICES ASSUME CyclesInv, ServingForm', [Next]_vars PROVE CyclesInv'
    OBVIOUS
  <2>1. ServingForm
    BY DEF CyclesInv
  <2>2. ASSUME NEW r \in Requests, TaskOrdersStep(r) \/ MigrationWavesStep(r)
        PROVE  CyclesInv'
    <3>1. CASE Turns(r, SortOps) \/ Turns(r, MoveOps)
      BY <3>1, CyclesElsewhere DEF OnlyTurns, SortOps, MoveOps, SearchOps
    <3>2. CASE SearchStep(r) /\ Turns(r, SearchOps)
      <4>1. CyclesHeld(serving'[r])
        BY <2>1, <3>2, SearchHeld DEF CyclesInv
      <4>2. \A q \in Requests \ {r} : serving'[q] = serving[q]
        BY <3>2 DEF Turns, ServingForm
      <4>. QED  BY <4>1, <4>2 DEF CyclesInv
    <3>. QED  BY <2>1, <2>2, <3>1, <3>2, OrdersTurnsApart
  <2>3. ASSUME NEW r \in Requests, WorkspacesStep(r) \/ AgentsStep(r) \/ ConnectionsStep(r)
        PROVE  CyclesInv'
    <3>1. OnlyTurns(PeopleOps) \/ OnlyTurns(AgentsOps) \/ OnlyTurns(ConnectionsOps)
      BY <2>1, <2>3, PeopleTurns, AgentsTurns, ConnectionsTurns DEF OnlyTurns
    <3>. QED
      BY <3>1, CyclesElsewhere DEF PeopleOps, AgentsOps, ConnectionsOps, SearchOps
  <2>4. ASSUME NEW p \in Processes, Restart(p) PROVE CyclesInv'
    <3>1. OnlyTurns(PeopleOps)
      BY <2>1, <2>4, RestartTurns
    <3>. QED  BY <3>1, CyclesElsewhere DEF PeopleOps, SearchOps
  <2>5. CASE UNCHANGED vars
    BY <2>5 DEF vars, CyclesInv
  <2>. QED  BY <2>2, <2>3, <2>4, <2>5 DEF Next
<1>3. SecretsInv => ServingForm
  BY DEF SecretsInv
<1>. QED  BY <1>1, <1>2, <1>3, SecretsAlways, PTL DEF Spec

\* detect_cycles, cycles: whatever the graph, the tasks of every cycle that is
\* reported lead to each other, and no group of tasks that do goes without a
\* report of some of them.
THEOREM CyclesAlwaysFound == Spec => []CyclesFound
<1>1. CyclesInv => CyclesFound
  BY Zenon DEF CyclesInv, CyclesHeld, Reported, CyclesFound
<1>. QED  BY <1>1, CyclesAlways, PTL

-----------------------------------------------------------------------------
(***************************************************************************)
(* Counting up, one step after another, and from left to right.            *)
(***************************************************************************)

LEMMA SmallestOf ==
    ASSUME NEW S, IsFiniteSet(S), NEW Sets, Sets # {}, \A T \in Sets : T \subseteq S
    PROVE  \E T \in Sets : \A U \in Sets : U \subseteq T => U = T
<1>1. Sets \in SUBSET SUBSET S
  BY Zenon
<1>. QED  BY <1>1, SmallestSet

LEMMA NatsAll ==
    ASSUME NEW Good, 0 \in Good, \A n \in Nat : n \in Good => n + 1 \in Good
    PROVE  \A n \in Nat : n \in Good
<1>. SUFFICES ASSUME NEW n \in Nat, n \notin Good PROVE FALSE
  OBVIOUS
<1>. DEFINE Bad == {k \in 0 .. n : k \notin Good}
<1>1. PICK Upto : Upto = 0 .. n /\ IsFiniteSet(Upto)
  BY FS_Interval
<1>2. PICK Sets : Sets = {0 .. k : k \in Bad} /\ Sets # {} /\ \A T \in Sets : T \subseteq Upto
  <2>1. \A T \in {0 .. k : k \in Bad} : T \subseteq Upto
    BY <1>1
  <2>2. {0 .. k : k \in Bad} # {}
    OBVIOUS
  <2>. QED  BY <2>1, <2>2
<1>3. PICK T \in Sets : \A U \in Sets : U \subseteq T => U = T
  <2>1. Sets # {} /\ (\A T \in Sets : T \subseteq Upto) /\ IsFiniteSet(Upto)
    BY <1>1, <1>2
  <2>. QED  BY <2>1, SmallestOf
<1>4. PICK m \in Bad : T = 0 .. m
  BY <1>2
<1>5. m # 0 /\ m - 1 \in Nat /\ m \in Nat
  BY <1>4
<1>6. m - 1 \in Bad
  BY <1>4, <1>5
<1>7. 0 .. (m - 1) \in Sets /\ 0 .. (m - 1) \subseteq T
  BY <1>2, <1>4, <1>5, <1>6
<1>8. m \in 0 .. (m - 1)
  <2>1. m \in T /\ 0 .. (m - 1) = T
    BY <1>3, <1>4, <1>5, <1>7
  <2>. QED  BY <2>1
<1>. QED  BY <1>5, <1>8

\* What n steps make of a start.
Prefix(start, step, n, f) ==
    DOMAIN f = 0 .. n /\ f[0] = start /\ \A i \in 1 .. n : f[i] = step[f[i - 1]]

LEMMA PrefixesAgree ==
    ASSUME NEW start, NEW step, NEW n \in Nat, NEW m \in Nat, NEW f, NEW g,
           Prefix(start, step, n, f), Prefix(start, step, m, g),
           NEW i \in Nat, i <= n, i <= m
    PROVE  f[i] = g[i]
<1>. DEFINE Good == {k \in Nat : k <= n /\ k <= m => f[k] = g[k]}
<1>1. 0 \in Good
  BY DEF Prefix
<1>2. \A k \in Nat : k \in Good => k + 1 \in Good
  <2>. TAKE k \in Nat
  <2>. HAVE k \in Good
  <2>. SUFFICES ASSUME k + 1 <= n, k + 1 <= m PROVE f[k + 1] = g[k + 1]
    OBVIOUS
  <2>1. f[k] = g[k] /\ k + 1 \in 1 .. n /\ k + 1 \in 1 .. m /\ (k + 1) - 1 = k
    OBVIOUS
  <2>2. f[k + 1] = step[f[(k + 1) - 1]] /\ g[k + 1] = step[g[(k + 1) - 1]]
    BY <2>1 DEF Prefix
  <2>. QED  BY <2>1, <2>2
<1>. HIDE DEF Good
<1>3. i \in Good
  BY <1>1, <1>2, NatsAll
<1>. QED  BY <1>3 DEF Good

LEMMA PrefixExists ==
    ASSUME NEW start, NEW step, NEW n \in Nat
    PROVE  \E f : Prefix(start, step, n, f)
<1>. DEFINE Good == {k \in Nat : \E f : Prefix(start, step, k, f)}
<1>1. 0 \in Good
  <2>1. Prefix(start, step, 0, [i \in 0 .. 0 |-> start])
    BY DEF Prefix
  <2>. QED  BY <2>1
<1>2. \A k \in Nat : k \in Good => k + 1 \in Good
  <2>. TAKE k \in Nat
  <2>. HAVE k \in Good
  <2>1. PICK f : Prefix(start, step, k, f)
    OBVIOUS
  <2>2. PICK g : g = [i \in 0 .. k + 1 |-> IF i = k + 1 THEN step[f[k]] ELSE f[i]]
    OBVIOUS
  <2>3. \A i \in 0 .. k : g[i] = f[i]
    BY <2>2
  <2>4. g[k + 1] = step[f[k]] /\ DOMAIN g = 0 .. k + 1
    BY <2>2
  <2>5. ASSUME NEW i \in 1 .. k + 1 PROVE g[i] = step[g[i - 1]]
    <3>1. CASE i = k + 1
      BY <2>3, <2>4, <3>1
    <3>2. CASE i # k + 1
      <4>1. i \in 1 .. k /\ i \in 0 .. k /\ i - 1 \in 0 .. k
        BY <3>2
      <4>. QED  BY <2>1, <2>3, <4>1 DEF Prefix
    <3>. QED  BY <3>1, <3>2
  <2>6. Prefix(start, step, k + 1, g)
    BY <2>1, <2>3, <2>4, <2>5 DEF Prefix
  <2>. QED  BY <2>6
<1>. HIDE DEF Good
<1>3. n \in Good
  BY <1>1, <1>2, NatsAll
<1>. QED  BY <1>3 DEF Good

\* A function of the number of steps exists.
Repeats(start, step, after) ==
    after = [n \in Nat |-> IF n = 0 THEN start ELSE step[after[n - 1]]]

LEMMA StepsExist ==
    ASSUME NEW start, NEW step
    PROVE  \E after : Repeats(start, step, after)
<1>. DEFINE prefix(n) == CHOOSE f : Prefix(start, step, n, f)
<1>1. PICK after : after = [n \in Nat |-> prefix(n)[n]]
  OBVIOUS
<1>2. \A n \in Nat : Prefix(start, step, n, prefix(n))
  BY PrefixExists
<1>. HIDE DEF prefix
<1>3. ASSUME NEW n \in Nat
      PROVE  after[n] = IF n = 0 THEN start ELSE step[after[n - 1]]
  <2>1. CASE n = 0
    BY <1>1, <1>2, <2>1 DEF Prefix
  <2>2. CASE n # 0
    <3>1. n - 1 \in Nat /\ n \in 1 .. n
      BY <2>2
    <3>2. prefix(n)[n - 1] = prefix(n - 1)[n - 1]
      BY <1>2, <3>1, PrefixesAgree
    <3>3. prefix(n)[n] = step[prefix(n)[n - 1]]
      BY <1>2, <3>1 DEF Prefix
    <3>. QED  BY <1>1, <2>2, <3>1, <3>2, <3>3
  <2>. QED  BY <2>1, <2>2
<1>4. after = [n \in Nat |-> IF n = 0 THEN start ELSE step[after[n - 1]]]
  BY <1>1, <1>3
<1>. QED  BY <1>4 DEF Repeats

\* A list of a set, from the least to the greatest.
Lists(order, S) ==
    /\ order \in [1 .. Cardinality(S) -> S]
    /\ Range(order) = S
    /\ \A i, j \in DOMAIN order : i < j => order[i] < order[j]

\* The greatest of finitely many numbers.
LEMMA GreatestOf ==
    ASSUME NEW S \in SUBSET Nat, IsFiniteSet(S), S # {}
    PROVE  \E n \in S : \A m \in S : m <= n
<1>. DEFINE above(n) == {m \in S : n < m}
<1>1. PICK Sets : Sets = {above(n) : n \in S} /\ Sets # {} /\ \A T \in Sets : T \subseteq S
  <2>1. \A T \in {above(n) : n \in S} : T \subseteq S
    OBVIOUS
  <2>2. {above(n) : n \in S} # {}
    OBVIOUS
  <2>. HIDE DEF above
  <2>. QED  BY <2>1, <2>2
<1>2. PICK T \in Sets : \A U \in Sets : U \subseteq T => U = T
  <2>1. Sets # {} /\ \A T \in Sets : T \subseteq S
    BY <1>1
  <2>. QED  BY <2>1, SmallestOf
<1>3. PICK n \in S : T = above(n)
  BY <1>1
<1>4. ASSUME NEW m \in S, n < m PROVE FALSE
  <2>1. above(m) \in Sets /\ above(m) \subseteq T
    <3>1. above(m) \in Sets
      BY <1>1
    <3>2. \A k \in above(m) : k \in above(n)
      BY <1>4
    <3>. QED  BY <1>3, <3>1, <3>2
  <2>2. m \in above(m)
    BY <1>2, <1>3, <1>4, <2>1
  <2>. QED  BY <2>2
<1>. QED  BY <1>4

LEMMA ListExists ==
    ASSUME NEW S \in SUBSET Nat, IsFiniteSet(S)
    PROVE  \E order : Lists(order, S)
<1>. DEFINE Good == {T \in SUBSET S : \E order : Lists(order, T)}
<1>1. ASSUME NEW T \in SUBSET S, \A U \in SUBSET T : U # T => U \in Good
      PROVE  T \in Good
  <2>1. IsFiniteSet(T)
    BY FS_Subset
  <2>2. CASE T = {}
    <3>1. Cardinality(T) = 0
      BY <2>2, FS_EmptySet
    <3>2. PICK order : order = [i \in 1 .. 0 |-> 0]
      OBVIOUS
    <3>3. Lists(order, T)
      BY <2>2, <3>1, <3>2 DEF Lists, Range
    <3>. QED  BY <3>3
  <2>3. CASE T # {}
    <3>1. PICK n \in T : \A m \in T : m <= n
      BY <2>1, <2>3, GreatestOf
    <3>. DEFINE U == T \ {n}
    <3>2. U \in SUBSET T /\ U # T /\ T = U \cup {n} /\ n \notin U
      OBVIOUS
    <3>3. PICK less : Lists(less, U)
      BY <1>1, <3>2
    <3>. HIDE DEF U
    <3>13. IsFiniteSet(U)
      BY <2>1, <3>2, FS_Subset
    <3>4. PICK c \in Nat : c = Cardinality(U) /\ Cardinality(T) = c + 1
      BY <3>2, <3>13, FS_CardinalityType, FS_AddElement
    <3>5. /\ DOMAIN less = 1 .. c /\ \A i \in 1 .. c : less[i] \in U
          /\ \A m \in U : \E i \in 1 .. c : less[i] = m
          /\ \A i, j \in 1 .. c : i < j => less[i] < less[j]
      BY <3>3, <3>4 DEF Lists, Range
    <3>6. PICK order : order = [i \in 1 .. c + 1 |-> IF i = c + 1 THEN n ELSE less[i]]
      OBVIOUS
    <3>7. /\ DOMAIN order = 1 .. c + 1 /\ order[c + 1] = n
          /\ \A i \in 1 .. c : order[i] = less[i]
      BY <3>6
    <3>8. \A i \in 1 .. c + 1 : i = c + 1 \/ i \in 1 .. c
      OBVIOUS
    <3>9. order \in [1 .. c + 1 -> T]
      BY <3>2, <3>5, <3>6, <3>8
    <3>10. Range(order) = T
      <4>1. \A m \in T : \E i \in 1 .. c + 1 : order[i] = m
        <5>. TAKE m \in T
        <5>1. CASE m = n
          BY <3>7, <5>1
        <5>2. CASE m \in U
          <6>1. PICK i \in 1 .. c : less[i] = m
            BY <3>5, <5>2
          <6>. QED  BY <3>7, <6>1
        <5>. QED  BY <3>2, <5>1, <5>2
      <4>. QED  BY <3>7, <3>9, <4>1 DEF Range
    <3>11. ASSUME NEW i \in 1 .. c + 1, NEW j \in 1 .. c + 1, i < j
           PROVE  order[i] < order[j]
      <4>1. i \in 1 .. c
        BY <3>11
      <4>2. CASE j = c + 1
        <5>1. less[i] \in T /\ less[i] # n /\ less[i] <= n
          BY <3>1, <3>2, <3>5, <4>1
        <5>2. less[i] \in Nat /\ n \in Nat
          BY <5>1
        <5>. QED  BY <3>7, <4>1, <4>2, <5>1, <5>2
      <4>3. CASE j \in 1 .. c
        BY <3>5, <3>7, <3>11, <4>1, <4>3
      <4>. QED  BY <4>2, <4>3
    <3>12. Lists(order, T)
      BY <3>4, <3>7, <3>9, <3>10, <3>11 DEF Lists
    <3>. QED  BY <3>12
  <2>. QED  BY <2>2, <2>3
<1>2. \A T \in SUBSET S : T \in Good
  <2>. HIDE DEF Good
  <2>. QED  BY <1>1, SubsetInduction
<1>. QED  BY <1>2

LEMMA LeftToRightLists ==
    ASSUME NEW S \in SUBSET Nat, IsFiniteSet(S)
    PROVE  Lists(LeftToRight(S), S)
<1>1. \E order \in [1 .. Cardinality(S) -> S] :
         /\ Range(order) = S
         /\ \A i, j \in DOMAIN order : i < j => order[i] < order[j]
  BY ListExists DEF Lists
<1>. QED  BY <1>1 DEF LeftToRight, Lists

LEMMA LeastOf ==
    ASSUME NEW S \in SUBSET Nat, S # {}
    PROVE  Least(S) \in S /\ \A n \in S : Least(S) <= n
<1>1. PICK n \in S : TRUE
  OBVIOUS
<1>2. PICK m \in S : \A k \in S : m <= k
  <2>. DEFINE Good == {k \in Nat : \A i \in 0 .. k : i \notin S}
  <2>1. ASSUME \A m \in S : \E k \in S : k < m PROVE FALSE
    <3>1. 0 \in Good
      BY <2>1
    <3>2. \A k \in Nat : k \in Good => k + 1 \in Good
      <4>. TAKE k \in Nat
      <4>. HAVE k \in Good
      <4>1. k + 1 \notin S
        BY <2>1
      <4>. QED  BY <4>1
    <3>3. n \in Good
      <4>. HIDE DEF Good
      <4>. QED  BY <3>1, <3>2, NatsAll
    <3>. QED  BY <1>1, <3>3
  <2>. QED  BY <2>1
<1>. QED  BY <1>2 DEF Least

-----------------------------------------------------------------------------
(***************************************************************************)
(* Tasks that nothing can put in order.                                    *)
(***************************************************************************)

\* Whatever it leads to, something it leads to, or itself, is linked to that.
LEMMA DownLast ==
    ASSUME NEW links, NEW t \in DOMAIN links, NEW u \in Downstream(links)[t]
    PROVE  \E v \in Predecessors(links, u) : v = t \/ v \in Downstream(links)[t]
<1>1. PICK ts : ts = {w \in DOMAIN links : \E v \in Predecessors(links, w) :
                         v = t \/ v \in Downstream(links)[t]}
  OBVIOUS
<1>2. Successors(links, t) \subseteq ts
  BY <1>1 DEF Successors, Predecessors
<1>3. ASSUME NEW w \in ts, NEW x \in Successors(links, w)
      PROVE  x \in ts
  <2>1. PICK v \in Predecessors(links, w) : v = t \/ v \in Downstream(links)[t]
    BY <1>1, <1>3
  <2>2. w \in DOMAIN links /\ v \in DOMAIN links /\ w \in Successors(links, v)
    BY <1>1, <1>3 DEF Successors, Predecessors
  <2>3. w \in Downstream(links)[v]
    BY <2>2, DownByLink
  <2>4. w \in Downstream(links)[t]
    BY <2>1, <2>3, DownOn
  <2>5. x \in DOMAIN links /\ w \in Predecessors(links, x)
    BY <2>2 DEF Successors, Predecessors
  <2>. QED  BY <1>1, <2>4, <2>5
<1>4. ts \subseteq DOMAIN links
  BY <1>1
<1>5. ts \in Enclosed(links)
  BY <1>3, <1>4 DEF Enclosed
<1>6. u \in ts
  BY <1>2, <1>5, DownIs
<1>. QED  BY <1>1, <1>6

LEMMA StrandedIs ==
    ASSUME NEW links, NEW t
    PROVE  /\ t \in OnCycle(links) <=> t \in DOMAIN links /\ t \in Downstream(links)[t]
           /\ t \in Stranded(links) <=>
                \/ t \in OnCycle(links)
                \/ \E u \in OnCycle(links) : t \in Downstream(links)[u]
           /\ Stranded(links) \subseteq DOMAIN links
<1>1. t \in OnCycle(links) <=> t \in DOMAIN links /\ t \in Downstream(links)[t]
  BY DEF OnCycle
<1>2. Stranded(links) = OnCycle(links) \cup UNION {Downstream(links)[u] : u \in OnCycle(links)}
  BY DEF Stranded
<1>3. OnCycle(links) \subseteq DOMAIN links
  BY DEF OnCycle
<1>4. \A u \in DOMAIN links : \A v \in Downstream(links)[u] : v \in DOMAIN links
  BY DownIs
<1>. QED  BY <1>1, <1>2, <1>3, <1>4

\* One that is stranded waits for one that is.
LEMMA StrandedWaits ==
    ASSUME NEW links, NEW t \in Stranded(links)
    PROVE  Predecessors(links, t) \cap Stranded(links) # {}
<1>1. PICK u \in DOMAIN links : u \in OnCycle(links) /\ t \in Downstream(links)[u]
  BY StrandedIs
<1>2. PICK v \in Predecessors(links, t) : v = u \/ v \in Downstream(links)[u]
  BY <1>1, DownLast
<1>3. v \in Stranded(links)
  BY <1>1, <1>2, StrandedIs
<1>. QED  BY <1>2, <1>3

\* What has a place that is after those of all it waits for is not stranded.
LEMMA PlacedNotStranded ==
    ASSUME NEW links, NEW placed, NEW place,
           \A t \in placed : place[t] \in Nat,
           \A t \in placed : \A u \in Predecessors(links, t) :
              u \in placed /\ place[u] < place[t]
    PROVE  placed \cap Stranded(links) = {}
<1>. DEFINE Good == {n \in Nat : \A t \in placed : place[t] <= n => t \notin Stranded(links)}
<1>1. ASSUME NEW t \in placed, t \in Stranded(links)
      PROVE  \E u \in placed : u \in Stranded(links) /\ place[u] < place[t]
  BY <1>1, StrandedWaits
<1>2. 0 \in Good
  <2>. SUFFICES ASSUME NEW t \in placed, place[t] <= 0, t \in Stranded(links) PROVE FALSE
    OBVIOUS
  <2>. QED  BY <1>1
<1>3. \A n \in Nat : n \in Good => n + 1 \in Good
  <2>. TAKE n \in Nat
  <2>. HAVE n \in Good
  <2>. SUFFICES ASSUME NEW t \in placed, place[t] <= n + 1, t \in Stranded(links) PROVE FALSE
    OBVIOUS
  <2>1. PICK u \in placed : u \in Stranded(links) /\ place[u] < place[t]
    BY <1>1
  <2>2. place[u] <= n
    BY <2>1
  <2>. QED  BY <2>1, <2>2
<1>4. \A n \in Nat : n \in Good
  <2>. HIDE DEF Good
  <2>. QED  BY <1>2, <1>3, NatsAll
<1>. QED  BY <1>4

\* Of finitely many tasks that all wait for others of them, all are stranded.
LEMMA LeftAreStranded ==
    ASSUME NEW links, IsFiniteSet(DOMAIN links), NEW rest \in SUBSET DOMAIN links,
           \A t \in rest : Predecessors(links, t) \cap rest # {}
    PROVE  rest \subseteq Stranded(links)
<1>. SUFFICES ASSUME NEW t \in rest, t \notin Stranded(links) PROVE FALSE
  OBVIOUS
<1>1. PICK before : before = {u \in rest : u = t \/ t \in Downstream(links)[u]}
  OBVIOUS
<1>2. t \in before /\ before \subseteq DOMAIN links
  BY <1>1
<1>3. \A u \in before : u \notin Downstream(links)[u]
  BY <1>1, <1>2, StrandedIs
<1>4. ASSUME NEW u \in before PROVE \E v \in before : u \in Downstream(links)[v]
  <2>1. PICK v \in Predecessors(links, u) \cap rest : TRUE
    BY <1>1
  <2>2. v \in DOMAIN links /\ u \in Successors(links, v)
    BY <1>2 DEF Successors, Predecessors
  <2>3. u \in Downstream(links)[v]
    BY <2>2, DownByLink
  <2>4. v \in before
    BY <1>1, <2>1, <2>2, <2>3, DownOn
  <2>. QED  BY <2>3, <2>4
<1>. DEFINE ahead(u) == {w \in before : w \notin Downstream(links)[u]}
<1>5. PICK Sets : Sets = {ahead(u) : u \in before} /\ Sets # {} /\ \A S \in Sets : S \subseteq before
  <2>1. \A S \in {ahead(u) : u \in before} : S \subseteq before
    OBVIOUS
  <2>2. {ahead(u) : u \in before} # {}
    BY <1>2
  <2>. HIDE DEF ahead
  <2>. QED  BY <2>1, <2>2
<1>6. PICK S \in Sets : \A U \in Sets : U \subseteq S => U = S
  <2>1. Sets # {} /\ (\A V \in Sets : V \subseteq before) /\ IsFiniteSet(before)
    BY <1>2, <1>5, FS_Subset
  <2>. QED  BY <2>1, SmallestOf
<1>7. PICK u \in before : S = ahead(u)
  BY <1>5
<1>8. PICK v \in before : u \in Downstream(links)[v]
  BY <1>4
<1>9. ahead(v) \subseteq ahead(u)
  BY <1>2, <1>8, DownOn
<1>10. ahead(v) = ahead(u)
  <2>1. ahead(v) \in Sets
    BY <1>5
  <2>. HIDE DEF ahead
  <2>. QED  BY <1>6, <1>7, <1>9, <2>1
<1>. QED  BY <1>3, <1>8, <1>10

\* What is placed, each after all it waits for, and what then waits for others
\* that have no place: the second are all that are stranded.
LEMMA RestIsStranded ==
    ASSUME NEW links, IsFiniteSet(DOMAIN links), NEW placed \in SUBSET DOMAIN links, NEW place,
           \A t \in placed : place[t] \in Nat,
           \A t \in placed : \A u \in Predecessors(links, t) :
              u \in placed /\ place[u] < place[t],
           \A t \in DOMAIN links \ placed : ~(Predecessors(links, t) \subseteq placed)
    PROVE  DOMAIN links \ placed = Stranded(links)
<1>1. placed \cap Stranded(links) = {}
  BY PlacedNotStranded
<1>2. PICK rest \in SUBSET DOMAIN links : rest = DOMAIN links \ placed
  OBVIOUS
<1>3. \A t \in rest : Predecessors(links, t) \cap rest # {}
  BY <1>2 DEF Predecessors
<1>4. rest \subseteq Stranded(links)
  BY <1>3, LeftAreStranded
<1>5. Stranded(links) \subseteq DOMAIN links
  BY StrandedIs
<1>. QED  BY <1>1, <1>2, <1>4, <1>5

\* Something is stranded where something is on a cycle.
LEMMA StrandedWhereCycles ==
    ASSUME NEW links
    PROVE  Stranded(links) = {} <=> OnCycle(links) = {}
  BY StrandedIs

-----------------------------------------------------------------------------
(***************************************************************************)
(* One at a time. What is counted for a task are the links of those that   *)
(* have no place yet (Remains), so that it is ready when all it waits for  *)
(* have one, however many links there are of one pair.                     *)
(***************************************************************************)

Remains(links, placed, t) ==
    SumFunctionOnSet([u \in DOMAIN links |-> links[u][t]], DOMAIN links \ placed)

LEMMA OnceIsGraph ==
    ASSUME NEW links, IsGraph(links)
    PROVE  IsGraph(Once(links))
  BY DEF IsGraph, Once

LEMMA RemainsNone ==
    ASSUME NEW links, IsGraph(links), NEW placed, NEW t \in DOMAIN links
    PROVE  /\ Remains(links, placed, t) \in Nat
           /\ Remains(links, placed, t) = 0 <=> Predecessors(links, t) \subseteq placed
<1>1. PICK f : f = [u \in DOMAIN links |-> links[u][t]]
  OBVIOUS
<1>2. PICK S : S = DOMAIN links \ placed /\ IsFiniteSet(S)
  BY FS_Subset DEF IsGraph
<1>3. \A u \in S : f[u] = links[u][t] /\ f[u] \in Nat
  BY <1>1, <1>2 DEF IsGraph
<1>4. Remains(links, placed, t) = SumFunctionOnSet(f, S)
  BY <1>1, <1>2 DEF Remains
<1>5. SumFunctionOnSet(f, S) \in Nat
  BY <1>2, <1>3, SumType
<1>6. CASE Predecessors(links, t) \subseteq placed
  <2>1. \A u \in S : f[u] = 0
    BY <1>2, <1>3, <1>6 DEF Predecessors
  <2>. QED  BY <1>2, <1>4, <1>5, <1>6, <2>1, SumZero
<1>7. CASE ~(Predecessors(links, t) \subseteq placed)
  <2>1. PICK u \in S : f[u] # 0
    BY <1>2, <1>3, <1>7 DEF Predecessors
  <2>2. SumFunctionOnSet(f, S) = f[u] + SumFunctionOnSet(f, S \ {u})
    BY <1>2, <1>3, SumRemove DEF Whole
  <2>3. SumFunctionOnSet(f, S \ {u}) \in Nat
    <3>1. IsFiniteSet(S \ {u}) /\ \A v \in S \ {u} : f[v] \in Nat
      BY <1>2, <1>3, FS_Subset
    <3>. QED  BY <3>1, SumType
  <2>. QED  BY <1>3, <1>4, <1>5, <1>7, <2>1, <2>2, <2>3
<1>. QED  BY <1>6, <1>7

LEMMA RemainsLess ==
    ASSUME NEW links, IsGraph(links), NEW placed, NEW t \in DOMAIN links \ placed,
           NEW more, more = placed \cup {t}, NEW u \in DOMAIN links
    PROVE  Remains(links, more, u) = Remains(links, placed, u) - links[t][u]
<1>1. PICK f : f = [v \in DOMAIN links |-> links[v][u]]
  OBVIOUS
<1>2. PICK S : S = DOMAIN links \ placed /\ IsFiniteSet(S)
  BY FS_Subset DEF IsGraph
<1>3. \A v \in S : f[v] = links[v][u] /\ f[v] \in Nat
  BY <1>1, <1>2 DEF IsGraph
<1>4. SumFunctionOnSet(f, S) = f[t] + SumFunctionOnSet(f, S \ {t})
  BY <1>2, <1>3, SumRemove DEF Whole
<1>5. SumFunctionOnSet(f, S \ {t}) \in Nat
  <2>1. IsFiniteSet(S \ {t}) /\ \A v \in S \ {t} : f[v] \in Nat
    BY <1>2, <1>3, FS_Subset
  <2>. QED  BY <2>1, SumType
<1>6. Remains(links, placed, u) = SumFunctionOnSet(f, S)
  BY <1>1, <1>2 DEF Remains
<1>7. Remains(links, more, u) = SumFunctionOnSet(f, S \ {t})
  <2>1. DOMAIN links \ more = S \ {t}
    BY <1>2
  <2>. QED  BY <1>1, <2>1 DEF Remains
<1>8. f[t] = links[t][u] /\ f[t] \in Nat
  BY <1>2, <1>3
<1>. QED  BY <1>4, <1>5, <1>6, <1>7, <1>8

\* Each once and after all it waits for.
InTurnPlaced(links, order) ==
    /\ order \in Seq(DOMAIN links)
    /\ \A i, j \in DOMAIN order : order[i] = order[j] => i = j
    /\ \A i \in DOMAIN order :
          Predecessors(links, order[i]) \subseteq {order[j] : j \in 1 .. i - 1}

Counted(links, order, waiting) ==
    waiting = [t \in DOMAIN links |-> Remains(links, Range(order), t)]

LEMMA NothingPlaced ==
    ASSUME NEW links
    PROVE  InTurnPlaced(links, <<>>) /\ Counted(links, <<>>, Waiting(links))
<1>1. Range(<<>>) = {} /\ DOMAIN <<>> = {} /\ <<>> \in Seq(DOMAIN links)
  BY DEF Range
<1>. QED  BY <1>1 DEF InTurnPlaced, Counted, Waiting, Remains

LEMMA OnePlaced ==
    ASSUME NEW links, IsGraph(links), NEW order, NEW waiting,
           InTurnPlaced(links, order), Counted(links, order, waiting),
           NEW t \in DOMAIN links \ Range(order), waiting[t] = 0,
           NEW more, more = Append(order, t),
           NEW fewer, fewer = [u \in DOMAIN links |-> waiting[u] - links[t][u]]
    PROVE  InTurnPlaced(links, more) /\ Counted(links, more, fewer)
<1>. DEFINE n == Len(order)
<1>1. n \in Nat /\ DOMAIN order = 1 .. n /\ order \in Seq(DOMAIN links)
  BY DEF InTurnPlaced
<1>2. /\ DOMAIN more = 1 .. n + 1
      /\ more \in Seq(DOMAIN links)
      /\ more[n + 1] = t
      /\ \A i \in 1 .. n : more[i] = order[i]
  BY <1>1
<1>. HIDE DEF n
<1>3. Range(more) = Range(order) \cup {t}
  BY <1>1, <1>2 DEF Range
<1>4. Predecessors(links, t) \subseteq Range(order)
  BY RemainsNone DEF Counted
<1>5. ASSUME NEW i \in 1 .. n + 1
      PROVE  Predecessors(links, more[i]) \subseteq {more[j] : j \in 1 .. i - 1}
  <2>1. CASE i = n + 1
    <3>1. Range(order) = {order[j] : j \in 1 .. n}
      BY <1>1 DEF Range
    <3>2. {order[j] : j \in 1 .. n} = {more[j] : j \in 1 .. i - 1}
      BY <1>1, <1>2, <2>1
    <3>. QED  BY <1>2, <1>4, <2>1, <3>1, <3>2
  <2>2. CASE i # n + 1
    <3>1. i \in 1 .. n
      BY <1>1, <2>2
    <3>2. {order[j] : j \in 1 .. i - 1} = {more[j] : j \in 1 .. i - 1}
      BY <1>1, <1>2, <3>1
    <3>. QED  BY <1>1, <1>2, <3>1, <3>2 DEF InTurnPlaced
  <2>. QED  BY <2>1, <2>2
<1>6. \A i, j \in 1 .. n + 1 : more[i] = more[j] => i = j
  BY <1>1, <1>2 DEF InTurnPlaced, Range
<1>7. \A u \in DOMAIN links : fewer[u] = Remains(links, Range(more), u)
  BY <1>3, RemainsLess DEF Counted
<1>8. fewer = [u \in DOMAIN links |-> Remains(links, Range(more), u)]
  BY <1>7
<1>9. InTurnPlaced(links, more)
  BY <1>2, <1>5, <1>6 DEF InTurnPlaced
<1>. QED  BY <1>8, <1>9 DEF Counted

\* A list in which nothing is twice is as long as the set of what is in it.
LEMMA LengthIsNumber ==
    ASSUME NEW list, NEW n \in Nat, DOMAIN list = 1 .. n,
           \A i, j \in 1 .. n : list[i] = list[j] => i = j
    PROVE  Cardinality(Range(list)) = n
<1>1. PICK f : f = [i \in 1 .. n |-> list[i]]
  OBVIOUS
<1>2. f \in [1 .. n -> Range(list)]
  BY <1>1 DEF Range
<1>3. \A x \in Range(list) : \E i \in 1 .. n : f[i] = x
  BY <1>1 DEF Range
<1>4. \A i, j \in 1 .. n : f[i] = f[j] => i = j
  BY <1>1
<1>5. f \in Bijection(1 .. n, Range(list))
  BY <1>2, <1>3, <1>4 DEF Bijection, Injection, Surjection, IsInjective
<1>. QED  BY <1>5, FS_CountingElements DEF ExistsBijection

\* What is left when nothing is ready is what is stranded.
LEMMA RestOfOrder ==
    ASSUME NEW links, IsGraph(links), NEW order, NEW waiting,
           InTurnPlaced(links, order), Counted(links, order, waiting),
           {t \in DOMAIN links \ Range(order) : waiting[t] = 0} = {}
    PROVE  /\ DOMAIN links \ Range(order) = Stranded(links)
           /\ Range(order) = DOMAIN links \ Stranded(links)
<1>1. Range(order) \in SUBSET DOMAIN links /\ IsFiniteSet(DOMAIN links)
  BY DEF InTurnPlaced, Range, IsGraph
<1>2. PICK place : place = [t \in Range(order) |-> CHOOSE i \in DOMAIN order : order[i] = t]
  OBVIOUS
<1>3. \A t \in Range(order) : place[t] \in DOMAIN order /\ order[place[t]] = t
  BY <1>2 DEF Range
<1>4. \A i \in DOMAIN order : place[order[i]] = i /\ i \in Nat /\ order[i] \in Range(order)
  BY <1>3 DEF InTurnPlaced, Range
<1>5. ASSUME NEW t \in Range(order), NEW u \in Predecessors(links, t)
      PROVE  u \in Range(order) /\ place[u] < place[t]
  <2>1. PICK j \in 1 .. place[t] - 1 : order[j] = u
    BY <1>3 DEF InTurnPlaced
  <2>2. j \in DOMAIN order
    BY <1>3, <2>1 DEF InTurnPlaced
  <2>. QED  BY <1>3, <1>4, <2>1, <2>2
<1>6. \A t \in DOMAIN links \ Range(order) : ~(Predecessors(links, t) \subseteq Range(order))
  BY RemainsNone DEF Counted
<1>7. \A t \in Range(order) : place[t] \in Nat
  BY <1>3, <1>4
<1>8. DOMAIN links \ Range(order) = Stranded(links)
  BY <1>1, <1>5, <1>6, <1>7, RestIsStranded
<1>. QED  BY <1>1, <1>8

LEMMA OrderEnds ==
    ASSUME NEW links, IsGraph(links), NEW order, InTurnPlaced(links, order),
           DOMAIN links \ Range(order) = Stranded(links),
           Range(order) = DOMAIN links \ Stranded(links),
           NEW s, s.links = links,
           s.order = IF s.by = "control_flow" THEN order
                     ELSE order \o LeftToRight(DOMAIN links \ Range(order))
    PROVE  OrderRespects(s)
<1>. DEFINE n == Len(order)
            rest == LeftToRight(Stranded(links))
            m == Cardinality(Stranded(links))
<1>1. n \in Nat /\ DOMAIN order = 1 .. n /\ order \in Seq(DOMAIN links)
  BY DEF InTurnPlaced
<1>2. IsFiniteSet(Stranded(links)) /\ Stranded(links) \in SUBSET Nat /\ m \in Nat
  BY StrandedIs, FS_Subset, FS_CardinalityType DEF IsGraph
<1>3. Lists(rest, Stranded(links))
  BY <1>2, LeftToRightLists
<1>. HIDE DEF n, m, rest
<1>4. /\ DOMAIN rest = 1 .. m
      /\ rest \in [1 .. m -> Stranded(links)]
      /\ \A i \in 1 .. m : rest[i] \in Stranded(links) /\ rest[i] \in Nat
      /\ Range(rest) = Stranded(links)
      /\ \A i, j \in 1 .. m : i < j => rest[i] < rest[j]
  BY <1>2, <1>3 DEF Lists, m
<1>5. \A i, j \in 1 .. m : rest[i] = rest[j] => i = j
  BY <1>2, <1>4
<1>6. \A i \in 1 .. n : Predecessors(links, order[i]) \subseteq {order[j] : j \in 1 .. i - 1}
  BY <1>1 DEF InTurnPlaced
<1>7. CASE s.by = "control_flow"
  <2>1. Cardinality(Range(order)) = n
    BY <1>1, LengthIsNumber DEF InTurnPlaced
  <2>. QED  BY <1>1, <1>6, <1>7, <2>1 DEF OrderRespects, n
<1>8. CASE s.by # "control_flow"
  <2>1. PICK all : all = order \o rest
    OBVIOUS
  <2>2. rest \in Seq(Nat)
    <3>1. rest \in [1 .. m -> Nat]
      BY <1>2, <1>4
    <3>. QED  BY <1>2, <3>1
  <2>3. Len(rest) = m
    BY <1>2, <1>4, <2>2
  <2>4. /\ Len(all) = n + m
        /\ DOMAIN all = 1 .. n + m
        /\ \A i \in 1 .. n : all[i] = order[i]
        /\ \A i \in 1 .. m : all[n + i] = rest[i]
    <3>1. order \in Seq(Nat)
      <4>1. DOMAIN links \subseteq Nat
        BY DEF IsGraph
      <4>. QED  BY <1>1, <4>1
    <3>2. Len(order) = n
      BY DEF n
    <3>6. all \in Seq(Nat)
      BY <2>1, <2>2, <3>1
    <3>7. Len(all) = Len(order) + Len(rest)
      BY <2>1, <2>2, <3>1
    <3>3. all \in Seq(Nat) /\ Len(all) = n + m
      BY <2>3, <3>2, <3>6, <3>7
    <3>4. \A i \in 1 .. n : all[i] = order[i]
      BY <1>1, <1>2, <2>1, <2>2, <2>3, <3>1, <3>2
    <3>5. \A i \in 1 .. m : all[n + i] = rest[i]
      BY <1>1, <1>2, <2>1, <2>2, <2>3, <3>1, <3>2
    <3>. QED  BY <1>1, <1>2, <3>3, <3>4, <3>5
  <2>5. \A i \in 1 .. n + m : i \in 1 .. n \/ \E k \in 1 .. m : i = n + k
    <3>. TAKE i \in 1 .. n + m
    <3>1. CASE i <= n
      BY <1>1, <3>1
    <3>2. CASE i > n
      <4>1. i - n \in 1 .. m /\ i = n + (i - n)
        BY <1>1, <1>2, <3>2
      <4>. QED  BY <4>1
    <3>. QED  BY <1>1, <1>2, <3>1, <3>2
  <2>6. Range(all) = DOMAIN links
    <3>1. Range(order) \cup Range(rest) = DOMAIN links
      BY <1>4, StrandedIs
    <3>2. Range(all) \subseteq Range(order) \cup Range(rest)
      BY <1>1, <1>4, <2>4, <2>5 DEF Range
    <3>3. \A i \in 1 .. n : i \in 1 .. n + m
      BY <1>1, <1>2
    <3>4. \A i \in 1 .. m : n + i \in 1 .. n + m
      BY <1>1, <1>2
    <3>5. Range(order) \subseteq Range(all)
      BY <1>1, <2>4, <3>3 DEF Range
    <3>6. Range(rest) \subseteq Range(all)
      BY <1>4, <2>4, <3>4 DEF Range
    <3>. QED  BY <3>1, <3>2, <3>5, <3>6
  <2>7. \A i \in 1 .. n : \A k \in 1 .. m : all[i] # all[n + k]
    BY <1>1, <1>4, <2>4 DEF Range
  <2>8. \A i, j \in 1 .. n + m : all[i] = all[j] => i = j
    <3>. SUFFICES ASSUME NEW i \in 1 .. n + m, NEW j \in 1 .. n + m, all[i] = all[j]
                  PROVE  i = j
      OBVIOUS
    <3>1. CASE i \in 1 .. n /\ j \in 1 .. n
      BY <1>1, <2>4, <3>1 DEF InTurnPlaced
    <3>2. CASE i \notin 1 .. n /\ j \notin 1 .. n
      BY <1>5, <2>4, <2>5, <3>2
    <3>3. CASE (i \in 1 .. n) # (j \in 1 .. n)
      BY <2>5, <2>7, <3>3
    <3>. QED  BY <3>1, <3>2, <3>3
  <2>9. n + m \in Nat
    BY <1>1, <1>2
  <2>10. Cardinality(Range(all)) = n + m
    BY <2>4, <2>8, <2>9, LengthIsNumber
  <2>11. ASSUME NEW i \in 1 .. n + m, all[i] \notin Stranded(links)
         PROVE  Predecessors(links, all[i]) \subseteq {all[j] : j \in 1 .. i - 1}
    <3>1. i \in 1 .. n
      BY <1>4, <2>4, <2>5, <2>11
    <3>2. {order[j] : j \in 1 .. i - 1} = {all[j] : j \in 1 .. i - 1}
      BY <1>1, <2>4, <3>1
    <3>. QED  BY <1>6, <2>4, <3>1, <3>2
  <2>12. s.order = all
    BY <1>8, <2>1 DEF rest
  <2>13. DOMAIN s.links \ (IF s.by = "control_flow" THEN Stranded(s.links) ELSE {}) = DOMAIN links
    BY <1>8
  <2>14. \A i \in 1 .. n + m : all[i] \notin Stranded(links) =>
            Predecessors(links, all[i]) \subseteq {all[j] : j \in 1 .. i - 1}
    BY <2>11
  <2>15. Len(all) = Cardinality(DOMAIN links) /\ Range(all) = DOMAIN links
    BY <2>4, <2>6, <2>10
  <2>16. \A i \in DOMAIN s.order : s.order[i] \notin Stranded(s.links) =>
            Predecessors(s.links, s.order[i]) \subseteq {s.order[j] : j \in 1 .. i - 1}
    <3>. TAKE i \in DOMAIN s.order
    <3>1. {s.order[j] : j \in 1 .. i - 1} = {all[j] : j \in 1 .. i - 1}
      BY <2>12
    <3>. QED  BY <2>4, <2>12, <2>14, <3>1
  <2>. DEFINE placed == DOMAIN s.links \ (IF s.by = "control_flow" THEN Stranded(s.links) ELSE {})
  <2>17. Len(s.order) = Cardinality(placed) /\ Range(s.order) = placed
    BY <2>12, <2>13, <2>15
  <2>. QED  BY <2>16, <2>17 DEF OrderRespects
<1>. QED  BY <1>7, <1>8

-----------------------------------------------------------------------------
(***************************************************************************)
(* By waves. Whatever has no wave yet waits for something that was not     *)
(* placed before the last one: so the next wave is all that waits for      *)
(* nothing, though a workflow looks at what the last wave leads to only.   *)
(***************************************************************************)

FirstWaves(waves, n) == UNION {waves[j] : j \in 1 .. n}

InWaves(links, waves) ==
    /\ waves \in Seq(SUBSET DOMAIN links)
    /\ \A i, j \in DOMAIN waves : i # j => waves[i] \cap waves[j] = {}
    /\ \A i \in DOMAIN waves : \A t \in waves[i] :
          /\ Predecessors(links, t) \subseteq FirstWaves(waves, i - 1)
          /\ i # 1 => Predecessors(links, t) \cap waves[i - 1] # {}
    /\ waves # <<>> =>
         \A t \in DOMAIN links \ UNION Range(waves) :
            ~(Predecessors(links, t) \subseteq FirstWaves(waves, Len(waves) - 1))

LEMMA WavesSoFar ==
    ASSUME NEW S, NEW waves \in Seq(SUBSET S)
    PROVE  /\ UNION Range(waves) = FirstWaves(waves, Len(waves))
           /\ UNION Range(waves) \subseteq S
           /\ waves # <<>> =>
                /\ Len(waves) \in DOMAIN waves
                /\ Last(waves) = waves[Len(waves)]
                /\ UNION Range(waves) = FirstWaves(waves, Len(waves) - 1) \cup Last(waves)
<1>. DEFINE n == Len(waves)
<1>1. n \in Nat /\ DOMAIN waves = 1 .. n /\ \A i \in 1 .. n : waves[i] \subseteq S
  OBVIOUS
<1>2. waves # <<>> => n \in 1 .. n
  BY <1>1
<1>3. Last(waves) = waves[n]
  BY DEF Last
<1>. HIDE DEF n
<1>4. Range(waves) = {waves[j] : j \in 1 .. n}
  BY <1>1 DEF Range
<1>5. UNION Range(waves) = FirstWaves(waves, n)
  BY <1>4 DEF FirstWaves
<1>6. UNION Range(waves) \subseteq S
  BY <1>1, <1>4
<1>7. ASSUME waves # <<>> PROVE FirstWaves(waves, n) = FirstWaves(waves, n - 1) \cup waves[n]
  <2>1. \A j \in 1 .. n : j \in 1 .. n - 1 \/ j = n
    BY <1>1
  <2>2. \A j \in 1 .. n - 1 : j \in 1 .. n
    BY <1>1
  <2>. QED  BY <1>2, <1>7, <2>1, <2>2 DEF FirstWaves
<1>. QED  BY <1>1, <1>2, <1>3, <1>5, <1>6, <1>7 DEF n

LEMMA NextWaveIs ==
    ASSUME NEW s, InWaves(s.links, s.waves)
    PROVE  NextWave(s) =
             {t \in DOMAIN s.links \ Placed(s) : Predecessors(s.links, t) \subseteq Placed(s)}
<1>1. PICK links, waves : links = s.links /\ waves = s.waves
  OBVIOUS
<1>2. Placed(s) = UNION Range(waves) /\ InWaves(links, waves)
  BY <1>1 DEF Placed
<1>3. Candidates(s) \subseteq DOMAIN links
  BY <1>1 DEF Candidates, Successors
<1>4. ASSUME NEW t \in DOMAIN links \ Placed(s), Predecessors(links, t) \subseteq Placed(s)
      PROVE  t \in Candidates(s)
  <2>1. CASE s.by = "workflow" /\ waves # <<>>
    <3>1. ~(Predecessors(links, t) \subseteq FirstWaves(waves, Len(waves) - 1))
      BY <1>2, <1>4, <2>1 DEF InWaves
    <3>2. UNION Range(waves) = FirstWaves(waves, Len(waves) - 1) \cup Last(waves)
      BY <1>2, <2>1, WavesSoFar DEF InWaves
    <3>3. PICK u \in Predecessors(links, t) : u \in Last(waves)
      BY <1>2, <1>4, <3>1, <3>2
    <3>4. t \in Successors(links, u)
      BY <1>4, <3>3 DEF Predecessors, Successors
    <3>. QED  BY <1>1, <2>1, <3>3, <3>4 DEF Candidates
  <2>2. CASE ~(s.by = "workflow" /\ waves # <<>>)
    BY <1>1, <2>2 DEF Candidates
  <2>. QED  BY <2>1, <2>2
<1>5. ASSUME NEW t
      PROVE  t \in NextWave(s) <=>
               t \in DOMAIN links \ Placed(s) /\ Predecessors(links, t) \subseteq Placed(s)
  BY <1>1, <1>3, <1>4 DEF NextWave
<1>. QED  BY <1>1, <1>5

LEMMA NoWaves ==
    ASSUME NEW links
    PROVE  InWaves(links, <<>>)
<1>1. DOMAIN <<>> = {} /\ <<>> \in Seq(SUBSET DOMAIN links)
  OBVIOUS
<1>. QED  BY <1>1 DEF InWaves

\* A wave is added; what is said of the others stays true.
WaveAdded(waves, wave, more) ==
    /\ Len(more) = Len(waves) + 1
    /\ DOMAIN more = DOMAIN waves \cup {Len(waves) + 1}
    /\ more[Len(waves) + 1] = wave
    /\ \A i \in DOMAIN waves :
          more[i] = waves[i] /\ FirstWaves(more, i - 1) = FirstWaves(waves, i - 1)
    /\ FirstWaves(more, Len(waves)) = UNION Range(waves)
    /\ UNION Range(more) = (UNION Range(waves)) \cup wave

LEMMA OneWave ==
    ASSUME NEW S, NEW waves \in Seq(SUBSET S), NEW wave \in SUBSET S,
           NEW more, more = Append(waves, wave)
    PROVE  more \in Seq(SUBSET S) /\ WaveAdded(waves, wave, more)
<1>. DEFINE n == Len(waves)
<1>1. n \in Nat /\ DOMAIN waves = 1 .. n
  OBVIOUS
<1>2. /\ more \in Seq(SUBSET S) /\ Len(more) = n + 1 /\ DOMAIN more = 1 .. n + 1
      /\ more[n + 1] = wave
      /\ \A i \in 1 .. n : more[i] = waves[i]
  OBVIOUS
<1>3. more # <<>>
  BY <1>1, <1>2
<1>. HIDE DEF n
<1>4. DOMAIN more = DOMAIN waves \cup {n + 1}
  BY <1>1, <1>2
<1>5. ASSUME NEW i \in 1 .. n PROVE FirstWaves(more, i - 1) = FirstWaves(waves, i - 1)
  <2>1. \A j \in 1 .. i - 1 : more[j] = waves[j]
    BY <1>1, <1>2
  <2>. QED  BY <2>1 DEF FirstWaves
<1>6. FirstWaves(more, n) = FirstWaves(waves, n)
  BY <1>2 DEF FirstWaves
<1>7. UNION Range(waves) = FirstWaves(waves, n)
  BY WavesSoFar DEF n
<1>8. UNION Range(more) = FirstWaves(more, n) \cup wave
  <2>1. Last(more) = wave
    BY <1>2 DEF Last
  <2>2. Len(more) - 1 = n
    BY <1>1, <1>2
  <2>3. more \in Seq(SUBSET S)
    BY <1>2
  <2>4. UNION Range(more) = FirstWaves(more, Len(more) - 1) \cup Last(more)
    BY <1>3, <2>3, WavesSoFar
  <2>. QED  BY <2>1, <2>2, <2>4
<1>. QED  BY <1>1, <1>2, <1>4, <1>5, <1>6, <1>7, <1>8 DEF n, WaveAdded

LEMMA WaveTaken ==
    ASSUME NEW s, InWaves(s.links, s.waves),
           NEW more, more = Append(s.waves, NextWave(s))
    PROVE  InWaves(s.links, more)
<1>1. PICK links, waves, wave : links = s.links /\ waves = s.waves /\ wave = NextWave(s)
  OBVIOUS
<1>2. PICK placed : placed = UNION Range(waves) /\ placed = Placed(s)
  BY <1>1 DEF Placed
<1>3. /\ wave = {t \in DOMAIN links \ placed : Predecessors(links, t) \subseteq placed}
      /\ waves \in Seq(SUBSET DOMAIN links)
      /\ more = Append(waves, wave)
  <2>1. NextWave(s) = {t \in DOMAIN s.links \ Placed(s) :
                         Predecessors(s.links, t) \subseteq Placed(s)}
    BY NextWaveIs
  <2>. QED  BY <1>1, <1>2, <2>1 DEF InWaves
<1>. DEFINE n == Len(waves)
<1>4. /\ more \in Seq(SUBSET DOMAIN links)
      /\ Len(more) = n + 1
      /\ DOMAIN more = DOMAIN waves \cup {n + 1}
      /\ more[n + 1] = wave
      /\ \A i \in DOMAIN waves :
            more[i] = waves[i] /\ FirstWaves(more, i - 1) = FirstWaves(waves, i - 1)
      /\ FirstWaves(more, n) = placed
      /\ UNION Range(more) = placed \cup wave
  <2>1. wave \in SUBSET DOMAIN links
    BY <1>3
  <2>2. more \in Seq(SUBSET DOMAIN links) /\ WaveAdded(waves, wave, more)
    BY <1>3, <2>1, OneWave
  <2>. QED  BY <1>2, <2>2 DEF WaveAdded
<1>5. n \in Nat /\ DOMAIN waves = 1 .. n /\ (n + 1) - 1 = n /\ n + 1 \notin DOMAIN waves
  BY <1>3
<1>6. /\ \A i, j \in DOMAIN waves : i # j => waves[i] \cap waves[j] = {}
      /\ \A i \in DOMAIN waves : \A t \in waves[i] :
            /\ Predecessors(links, t) \subseteq FirstWaves(waves, i - 1)
            /\ i # 1 => Predecessors(links, t) \cap waves[i - 1] # {}
      /\ waves # <<>> => \A t \in DOMAIN links \ placed :
            ~(Predecessors(links, t) \subseteq FirstWaves(waves, n - 1))
  BY <1>1, <1>2 DEF InWaves
<1>7. waves # <<>> => /\ n \in DOMAIN waves
                      /\ placed = FirstWaves(waves, n - 1) \cup waves[n]
  BY <1>2, <1>3, WavesSoFar
<1>8. \A i \in DOMAIN waves : waves[i] \subseteq placed
  BY <1>2 DEF Range
<1>. HIDE DEF n
<1>9. \A i, j \in DOMAIN more : i # j => more[i] \cap more[j] = {}
  BY <1>3, <1>4, <1>6, <1>8
<1>10. ASSUME NEW i \in DOMAIN waves, NEW t \in more[i]
       PROVE  /\ Predecessors(links, t) \subseteq FirstWaves(more, i - 1)
              /\ i # 1 => Predecessors(links, t) \cap more[i - 1] # {}
  <2>1. i # 1 => i - 1 \in DOMAIN waves
    BY <1>5
  <2>. QED  BY <1>4, <1>6, <1>10, <2>1
<1>11. ASSUME NEW t \in more[n + 1]
       PROVE  /\ Predecessors(links, t) \subseteq FirstWaves(more, (n + 1) - 1)
              /\ n + 1 # 1 => Predecessors(links, t) \cap more[(n + 1) - 1] # {}
  <2>1. t \in DOMAIN links \ placed /\ Predecessors(links, t) \subseteq placed
    BY <1>3, <1>4, <1>11
  <2>2. n + 1 # 1 => waves # <<>>
    BY <1>3, <1>5 DEF n
  <2>3. n + 1 # 1 => Predecessors(links, t) \cap more[n] # {}
    BY <1>4, <1>6, <1>7, <2>1, <2>2
  <2>. QED  BY <1>4, <1>5, <2>1, <2>3
<1>12. \A t \in DOMAIN links \ UNION Range(more) :
          ~(Predecessors(links, t) \subseteq FirstWaves(more, Len(more) - 1))
  <2>1. Len(more) - 1 = n
    BY <1>4, <1>5
  <2>. QED  BY <1>3, <1>4, <2>1
<1>13. InWaves(links, more)
  <2>1. \A i \in DOMAIN more : \A t \in more[i] :
            /\ Predecessors(links, t) \subseteq FirstWaves(more, i - 1)
            /\ i # 1 => Predecessors(links, t) \cap more[i - 1] # {}
    BY <1>4, <1>10, <1>11
  <2>. QED  BY <1>4, <1>9, <1>12, <2>1 DEF InWaves
<1>. QED  BY <1>1, <1>13

\* What is left when there is no next wave is what is stranded.
LEMMA RestOfWaves ==
    ASSUME NEW s, IsGraph(s.links), InWaves(s.links, s.waves), NextWave(s) = {}
    PROVE  DOMAIN s.links \ Placed(s) = Stranded(s.links)
<1>1. PICK links, waves : links = s.links /\ waves = s.waves
  OBVIOUS
<1>2. PICK placed : placed = UNION Range(waves) /\ placed = Placed(s)
  BY <1>1 DEF Placed
<1>3. IsGraph(links) /\ InWaves(links, waves) /\ waves \in Seq(SUBSET DOMAIN links)
  BY <1>1 DEF InWaves
<1>4. \A t \in DOMAIN links \ placed : ~(Predecessors(links, t) \subseteq placed)
  <2>1. NextWave(s) = {t \in DOMAIN s.links \ Placed(s) :
                         Predecessors(s.links, t) \subseteq Placed(s)}
    BY NextWaveIs
  <2>. QED  BY <1>1, <1>2, <2>1
<1>5. placed \in SUBSET DOMAIN links /\ IsFiniteSet(DOMAIN links)
  BY <1>2, <1>3, WavesSoFar DEF IsGraph
<1>6. PICK place : place = [t \in placed |-> CHOOSE i \in DOMAIN waves : t \in waves[i]]
  OBVIOUS
<1>7. \A t \in placed : place[t] \in DOMAIN waves /\ t \in waves[place[t]]
  BY <1>2, <1>6 DEF Range
<1>8. \A i \in DOMAIN waves : i \in Nat /\ \A t \in waves[i] : t \in placed /\ place[t] = i
  <2>1. \A i, j \in DOMAIN waves : i # j => waves[i] \cap waves[j] = {}
    BY <1>3 DEF InWaves
  <2>2. \A i \in DOMAIN waves : i \in Nat /\ \A t \in waves[i] : t \in placed
    BY <1>2, <1>3 DEF Range
  <2>. QED  BY <1>7, <2>1, <2>2
<1>9. ASSUME NEW t \in placed, NEW u \in Predecessors(links, t)
      PROVE  u \in placed /\ place[u] < place[t]
  <2>1. PICK j \in 1 .. place[t] - 1 : u \in waves[j]
    BY <1>3, <1>7 DEF InWaves, FirstWaves
  <2>2. j \in DOMAIN waves
    BY <1>3, <1>7, <2>1
  <2>. QED  BY <1>7, <1>8, <2>1, <2>2
<1>10. \A t \in placed : place[t] \in Nat
  BY <1>7, <1>8
<1>11. DOMAIN links \ placed = Stranded(links)
  BY <1>3, <1>4, <1>5, <1>9, <1>10, RestIsStranded
<1>. QED  BY <1>1, <1>2, <1>11

LEMMA OnlyWave ==
    ASSUME NEW waves, NEW i \in DOMAIN waves, NEW t \in waves[i],
           \A j \in DOMAIN waves : t \in waves[j] => j = i
    PROVE  WavesOf(waves, t) = {i} /\ Cardinality(WavesOf(waves, t)) = 1
<1>1. WavesOf(waves, t) = {i}
  BY DEF WavesOf
<1>. QED  BY <1>1, FS_Singleton

LEMMA WavesEnd ==
    ASSUME NEW links, IsGraph(links), NEW waves, InWaves(links, waves),
           NEW rest, rest = DOMAIN links \ UNION Range(waves), rest = Stranded(links),
           NEW s, s.links = links,
           s.waves = IF rest = {} THEN waves ELSE Append(waves, rest)
    PROVE  WavesRespect(s)
<1>1. PICK more : more = s.waves
  OBVIOUS
<1>2. waves \in Seq(SUBSET DOMAIN links) /\ rest \in SUBSET DOMAIN links
  BY DEF InWaves
<1>. DEFINE n == Len(waves)
<1>3. n \in Nat /\ DOMAIN waves = 1 .. n /\ n + 1 \notin DOMAIN waves
  BY <1>2
\* The waves there were, and one of what is left.
<1>4. /\ DOMAIN waves \subseteq DOMAIN more
      /\ \A i \in DOMAIN waves : more[i] = waves[i]
      /\ \A i \in DOMAIN more \ DOMAIN waves : i = n + 1 /\ more[i] = rest /\ rest # {}
      /\ rest # {} => n + 1 \in DOMAIN more
  <2>1. CASE rest = {}
    BY <1>1, <2>1
  <2>2. CASE rest # {}
    <3>1. more = Append(waves, rest)
      BY <1>1, <2>2
    <3>2. WaveAdded(waves, rest, more)
      BY <1>2, <3>1, OneWave
    <3>. QED  BY <2>2, <3>2 DEF WaveAdded
  <2>. QED  BY <2>1, <2>2
<1>. HIDE DEF n
<1>5. /\ \A i, j \in DOMAIN waves : i # j => waves[i] \cap waves[j] = {}
      /\ \A i \in DOMAIN waves : \A t \in waves[i] :
            /\ Predecessors(links, t) \subseteq FirstWaves(waves, i - 1)
            /\ i # 1 => Predecessors(links, t) \cap waves[i - 1] # {}
  BY DEF InWaves
<1>6. \A i \in DOMAIN waves : waves[i] \cap rest = {}
  BY DEF Range
<1>7. ASSUME NEW t \in DOMAIN links
      PROVE  \E i \in DOMAIN more :
               /\ t \in more[i]
               /\ \A j \in DOMAIN more : t \in more[j] => j = i
               /\ t \notin rest => i \in DOMAIN waves
  <2>1. CASE t \in rest
    BY <1>3, <1>4, <1>6, <2>1
  <2>2. CASE t \notin rest
    <3>1. PICK i \in DOMAIN waves : t \in waves[i]
      BY <2>2 DEF Range
    <3>. QED  BY <1>4, <1>5, <2>2, <3>1
  <2>. QED  BY <2>1, <2>2
<1>8. ASSUME NEW t \in DOMAIN links PROVE Cardinality(WavesOf(more, t)) = 1
  BY <1>7, OnlyWave
<1>9. ASSUME NEW t \in DOMAIN links \ rest
      PROVE  /\ \A u \in Predecessors(links, t) : Before(more, u, t)
             /\ \A i \in WavesOf(more, t) \ {1} : Predecessors(links, t) \cap more[i - 1] # {}
  <2>1. PICK i \in DOMAIN waves : t \in waves[i] /\ WavesOf(more, t) = {i}
    BY <1>4, <1>7, OnlyWave
  <2>2. ASSUME NEW u \in Predecessors(links, t) PROVE Before(more, u, t)
    <3>1. PICK j \in 1 .. i - 1 : u \in waves[j]
      BY <1>5, <2>1 DEF FirstWaves
    <3>2. j \in DOMAIN waves /\ j < i
      BY <1>3, <2>1, <3>1
    <3>3. u \in DOMAIN links
      BY DEF Predecessors
    <3>4. WavesOf(more, u) = {j}
      BY <1>4, <1>7, <3>1, <3>2, <3>3, OnlyWave
    <3>. QED  BY <2>1, <3>2, <3>4 DEF Before
  <2>3. i # 1 => Predecessors(links, t) \cap more[i - 1] # {}
    <3>1. i # 1 => i - 1 \in DOMAIN waves
      BY <1>3, <2>1
    <3>. QED  BY <1>4, <1>5, <2>1, <3>1
  <2>. QED  BY <2>1, <2>2, <2>3
<1>. QED  BY <1>1, <1>8, <1>9 DEF WavesRespect, InOneWave

-----------------------------------------------------------------------------
(***************************************************************************)
(* The plan. Each visit that begins is one that was not open or over, so   *)
(* that after two steps for every agent all are over, or a visit came back *)
(* to one that was open.                                                   *)
(***************************************************************************)

Visits == [order : Seq(Agents), path : Seq(Agents), cyclic : BOOLEAN]

\* Of a list of agents, each once.
NoneTwice(list) == \A i, j \in DOMAIN list : list[i] = list[j] => i = j

Visiting(selected, v) ==
    /\ v \in [order : Seq(selected), path : Seq(selected), cyclic : BOOLEAN]
    /\ NoneTwice(v.order) /\ NoneTwice(v.path) /\ Range(v.order) \cap Range(v.path) = {}
    /\ \A i \in DOMAIN v.order :
          depends[v.order[i]] \cap selected \subseteq {v.order[j] : j \in 1 .. i - 1}
    /\ \A i \in DOMAIN v.path : i + 1 \in DOMAIN v.path => v.path[i + 1] \in depends[v.path[i]]
    /\ v.cyclic => HasCycle(selected)

Finished(selected, v) == v.path = <<>> /\ selected \subseteq Range(v.order)

\* How many visits began and how many are over.
Steps(v) == 2 * Len(v.order) + Len(v.path)

Extended(list, x, more) ==
    /\ NoneTwice(more)
    /\ Range(more) = Range(list) \cup {x}
    /\ Len(more) = Len(list) + 1
    /\ DOMAIN list = 1 .. Len(list)
    /\ DOMAIN more = 1 .. Len(list) + 1
    /\ more[Len(list) + 1] = x
    /\ \A i \in DOMAIN list : more[i] = list[i]

Shortened(list, x, less) ==
    /\ NoneTwice(less)
    /\ Range(list) = Range(less) \cup {x}
    /\ x \notin Range(less)
    /\ Len(less) = Len(list) - 1
    /\ Len(list) \in Nat \ {0}
    /\ DOMAIN list = 1 .. Len(list)
    /\ DOMAIN less = 1 .. Len(list) - 1
    /\ x = list[Len(list)]
    /\ \A i \in DOMAIN less : less[i] = list[i]

LEMMA ListExtended ==
    ASSUME NEW S, NEW list \in Seq(S), NoneTwice(list), NEW x \in S, x \notin Range(list),
           NEW more, more = Append(list, x)
    PROVE  more \in Seq(S) /\ Extended(list, x, more)
<1>. DEFINE n == Len(list)
<1>1. n \in Nat /\ DOMAIN list = 1 .. n
  OBVIOUS
<1>2. /\ more \in Seq(S) /\ Len(more) = n + 1 /\ DOMAIN more = 1 .. n + 1
      /\ more[n + 1] = x /\ \A i \in 1 .. n : more[i] = list[i]
  OBVIOUS
<1>. HIDE DEF n
<1>3. Range(more) = Range(list) \cup {x}
  BY <1>1, <1>2 DEF Range
<1>4. NoneTwice(more)
  BY <1>1, <1>2 DEF NoneTwice, Range
<1>. QED  BY <1>1, <1>2, <1>3, <1>4 DEF n, Extended

LEMMA ListShortened ==
    ASSUME NEW S, NEW list \in Seq(S), NoneTwice(list), list # <<>>,
           NEW less, less = Front(list)
    PROVE  less \in Seq(S) /\ Last(list) \in S /\ Shortened(list, Last(list), less)
<1>. DEFINE n == Len(list)
<1>1. n \in Nat \ {0} /\ DOMAIN list = 1 .. n
  OBVIOUS
<1>2. /\ less \in Seq(S) /\ Len(less) = n - 1 /\ DOMAIN less = 1 .. n - 1
      /\ \A i \in 1 .. n - 1 : less[i] = list[i]
  BY <1>1 DEF Front
<1>3. Last(list) = list[n] /\ list[n] \in S
  BY <1>1 DEF Last
<1>. HIDE DEF n
<1>4. \A i \in 1 .. n : i \in 1 .. n - 1 \/ i = n
  BY <1>1
<1>5. \A i \in 1 .. n - 1 : i \in 1 .. n /\ i # n
  BY <1>1
<1>6. n \in 1 .. n
  BY <1>1
<1>7. Range(list) = Range(less) \cup {list[n]} /\ list[n] \notin Range(less)
  BY <1>1, <1>2, <1>4, <1>5, <1>6 DEF Range, NoneTwice
<1>8. NoneTwice(less)
  BY <1>1, <1>2, <1>5 DEF NoneTwice
<1>. QED  BY <1>1, <1>2, <1>3, <1>7, <1>8 DEF n, Shortened

\* A visit that comes back to the path shows a cycle.
LEMMA BackToPath ==
    ASSUME depends \in [Agents -> SUBSET Agents], NEW selected \in SUBSET Agents, NEW v,
           Visiting(selected, v), v.path # <<>>,
           NEW a \in Range(v.path), a \in depends[Last(v.path)]
    PROVE  HasCycle(selected)
<1>1. PICK path, n : path = v.path /\ n = Len(path)
  OBVIOUS
<1>2. /\ n \in Nat \ {0} /\ DOMAIN path = 1 .. n /\ Last(path) = path[n]
      /\ \A i \in 1 .. n : path[i] \in selected
      /\ \A i \in 1 .. n : i + 1 \in 1 .. n => path[i + 1] \in depends[path[i]]
  <2>1. path \in Seq(selected) /\ path # <<>>
    BY <1>1 DEF Visiting
  <2>2. \A i \in DOMAIN path : i + 1 \in DOMAIN path => path[i + 1] \in depends[path[i]]
    BY <1>1 DEF Visiting
  <2>. QED  BY <1>1, <2>1, <2>2 DEF Last
<1>3. PICK k \in 1 .. n : path[k] = a
  BY <1>1, <1>2 DEF Range
<1>4. PICK S : S = {path[i] : i \in k .. n}
  OBVIOUS
<1>5. S \in (SUBSET selected) \ {{}}
  <2>1. k \in k .. n /\ \A i \in k .. n : i \in 1 .. n
    BY <1>2, <1>3
  <2>2. path[k] \in S /\ \A b \in S : b \in selected
    BY <1>2, <1>4, <2>1
  <2>. QED  BY <2>2
<1>6. ASSUME NEW b \in S PROVE depends[b] \cap S # {}
  <2>1. PICK i \in k .. n : b = path[i]
    BY <1>4, <1>6
  <2>2. CASE i = n
    <3>1. a \in S
      BY <1>2, <1>3, <1>4
    <3>. QED  BY <1>1, <1>2, <2>1, <2>2, <3>1
  <2>3. CASE i # n
    <3>1. i + 1 \in k .. n /\ i \in 1 .. n /\ i + 1 \in 1 .. n
      BY <1>2, <1>3, <2>3
    <3>. QED  BY <1>2, <1>4, <2>1, <3>1
  <2>. QED  BY <2>2, <2>3
<1>. QED  BY <1>5, <1>6 DEF HasCycle

LEMMA VisitStep ==
    ASSUME depends \in [Agents -> SUBSET Agents], NEW selected \in SUBSET Agents, NEW v,
           Visiting(selected, v), NEW w, w = Visit(selected, v)
    PROVE  /\ Visiting(selected, w)
           /\ w.cyclic \/ Finished(selected, w) \/ (~v.cyclic /\ Steps(w) = Steps(v) + 1)
<1>1. PICK needs : needs = Needs(selected, v)
  OBVIOUS
<1>2. PICK next : next = Least(needs)
  OBVIOUS
<1>3. /\ v.order \in Seq(selected) /\ v.path \in Seq(selected) /\ v.cyclic \in BOOLEAN
      /\ v = [order |-> v.order, path |-> v.path, cyclic |-> v.cyclic]
      /\ NoneTwice(v.order) /\ NoneTwice(v.path) /\ Range(v.order) \cap Range(v.path) = {}
  BY DEF Visiting
<1>4. needs \subseteq selected \ Range(v.order)
  BY <1>1 DEF Needs
<1>5. needs # {} => next \in needs
  <2>1. needs \in SUBSET Nat
    BY <1>4 DEF Agents
  <2>. QED  BY <1>2, <2>1, LeastOf
<1>6. CASE needs = {} /\ v.path = <<>>
  <2>1. w = v
    BY <1>1, <1>6 DEF Visit
  <2>2. Finished(selected, w)
    BY <1>1, <1>6, <2>1 DEF Needs, Finished
  <2>. QED  BY <2>1, <2>2
<1>7. CASE needs = {} /\ v.path # <<>>
  <2>. DEFINE a == Last(v.path)
  <2>1. PICK order, path : order = Append(v.order, a) /\ path = Front(v.path)
    OBVIOUS
  <2>2. w = [order |-> order, path |-> path, cyclic |-> v.cyclic]
    BY <1>1, <1>3, <1>7, <2>1 DEF Visit
  <2>3. /\ path \in Seq(selected) /\ NoneTwice(path)
        /\ Range(v.path) = Range(path) \cup {a} /\ a \notin Range(path) /\ a \in selected
        /\ Len(path) = Len(v.path) - 1 /\ Len(v.path) \in Nat \ {0}
        /\ DOMAIN v.path = 1 .. Len(v.path)
        /\ DOMAIN path = 1 .. Len(v.path) - 1
        /\ \A i \in DOMAIN path : path[i] = v.path[i]
    <3>1. /\ path \in Seq(selected) /\ Last(v.path) \in selected
          /\ Shortened(v.path, Last(v.path), path)
      BY <1>3, <1>7, <2>1, ListShortened
    <3>. QED  BY <3>1 DEF Shortened
  <2>4. a \notin Range(v.order)
    BY <1>3, <2>3
  <2>. HIDE DEF a
  <2>5. /\ order \in Seq(selected) /\ NoneTwice(order)
        /\ Range(order) = Range(v.order) \cup {a}
        /\ Len(order) = Len(v.order) + 1
        /\ DOMAIN v.order = 1 .. Len(v.order)
        /\ DOMAIN order = 1 .. Len(v.order) + 1
        /\ order[Len(v.order) + 1] = a
        /\ \A i \in DOMAIN v.order : order[i] = v.order[i]
    <3>1. order \in Seq(selected) /\ Extended(v.order, a, order)
      BY <1>3, <2>1, <2>3, <2>4, ListExtended
    <3>. QED  BY <3>1 DEF Extended
  <2>6. depends[a] \cap selected \subseteq Range(v.order)
    BY <1>1, <1>7 DEF Needs, a
  <2>7. Len(v.order) \in Nat
    BY <1>3
  <2>8. ASSUME NEW i \in DOMAIN order
        PROVE  depends[order[i]] \cap selected \subseteq {order[j] : j \in 1 .. i - 1}
    <3>1. CASE i \in DOMAIN v.order
      <4>1. \A j \in 1 .. i - 1 : order[j] = v.order[j]
        BY <2>5, <2>7, <3>1
      <4>2. {order[j] : j \in 1 .. i - 1} = {v.order[j] : j \in 1 .. i - 1}
        BY <4>1
      <4>. QED  BY <2>5, <3>1, <4>2 DEF Visiting
    <3>2. CASE i = Len(v.order) + 1
      <4>1. Range(v.order) = {order[j] : j \in 1 .. i - 1}
        BY <2>5, <2>7, <3>2 DEF Range
      <4>. QED  BY <2>5, <2>6, <3>2, <4>1
    <3>. QED  BY <2>5, <2>7, <3>1, <3>2
  <2>9. \A i \in DOMAIN path : i + 1 \in DOMAIN path => path[i + 1] \in depends[path[i]]
    <3>1. \A i \in DOMAIN path : i \in DOMAIN v.path
      BY <2>3
    <3>. QED  BY <2>3, <3>1 DEF Visiting
  <2>10. Visiting(selected, w)
    <3>1. w \in [order : Seq(selected), path : Seq(selected), cyclic : BOOLEAN]
      BY <1>3, <2>2, <2>3, <2>5
    <3>2. w.order = order /\ w.path = path /\ w.cyclic = v.cyclic
      BY <2>2
    <3>3. Range(order) \cap Range(path) = {}
      BY <1>3, <2>3, <2>5
    <3>4. v.cyclic => HasCycle(selected)
      BY DEF Visiting
    <3>. QED  BY <2>3, <2>5, <2>8, <2>9, <3>1, <3>2, <3>3, <3>4 DEF Visiting
  <2>11. Steps(w) = Steps(v) + 1
    <3>1. Len(w.order) = Len(v.order) + 1 /\ Len(w.path) = Len(v.path) - 1
      BY <2>2, <2>3, <2>5
    <3>2. PICK k \in Nat, m \in Nat : k = Len(v.order) /\ m = Len(v.path)
      BY <2>3, <2>7
    <3>3. Steps(v) = 2 * k + m /\ Steps(w) = 2 * (k + 1) + (m - 1)
      BY <3>1, <3>2 DEF Steps
    <3>. QED  BY <3>3
  <2>. QED  BY <1>3, <2>2, <2>10, <2>11
<1>8. CASE needs # {} /\ next \in Range(v.path)
  <2>1. w = [v EXCEPT !.cyclic = TRUE]
    BY <1>1, <1>2, <1>8 DEF Visit
  <2>2. v.path # <<>>
    BY <1>8 DEF Range
  <2>3. next \in depends[Last(v.path)]
    BY <1>1, <1>5, <1>8, <2>2 DEF Needs
  <2>4. HasCycle(selected)
    BY <1>8, <2>2, <2>3, BackToPath
  <2>5. w.order = v.order /\ w.path = v.path /\ w.cyclic = TRUE
    BY <1>3, <2>1
  <2>6. w \in [order : Seq(selected), path : Seq(selected), cyclic : BOOLEAN]
    BY <1>3, <2>1
  <2>7. Visiting(selected, w)
    BY <2>4, <2>5, <2>6 DEF Visiting
  <2>. QED  BY <2>5, <2>7
<1>9. CASE needs # {} /\ next \notin Range(v.path)
  <2>1. PICK path : path = Append(v.path, next)
    OBVIOUS
  <2>2. w = [order |-> v.order, path |-> path, cyclic |-> v.cyclic]
    BY <1>1, <1>2, <1>3, <1>9, <2>1 DEF Visit
  <2>3. next \in selected /\ next \notin Range(v.order)
    BY <1>4, <1>5, <1>9
  <2>4. /\ path \in Seq(selected) /\ NoneTwice(path)
        /\ Range(path) = Range(v.path) \cup {next}
        /\ Len(path) = Len(v.path) + 1
        /\ DOMAIN v.path = 1 .. Len(v.path)
        /\ DOMAIN path = 1 .. Len(v.path) + 1
        /\ path[Len(v.path) + 1] = next
        /\ \A i \in DOMAIN v.path : path[i] = v.path[i]
    <3>1. path \in Seq(selected) /\ Extended(v.path, next, path)
      BY <1>3, <1>9, <2>1, <2>3, ListExtended
    <3>. QED  BY <3>1 DEF Extended
  <2>5. Len(v.path) \in Nat /\ Len(v.order) \in Nat
    BY <1>3
  <2>6. ASSUME NEW i \in DOMAIN path, i + 1 \in DOMAIN path
        PROVE  path[i + 1] \in depends[path[i]]
    <3>1. i \in DOMAIN v.path
      BY <2>4, <2>5, <2>6
    <3>2. CASE i + 1 \in DOMAIN v.path
      BY <2>4, <3>1, <3>2 DEF Visiting
    <3>3. CASE i = Len(v.path)
      <4>1. v.path # <<>> /\ Last(v.path) = v.path[i]
        BY <2>4, <3>1, <3>3 DEF Last
      <4>2. next \in depends[Last(v.path)]
        BY <1>1, <1>5, <1>9, <4>1 DEF Needs
      <4>. QED  BY <2>4, <3>1, <3>3, <4>1, <4>2
    <3>. QED  BY <2>4, <2>5, <2>6, <3>1, <3>2, <3>3
  <2>7. Visiting(selected, w)
    <3>1. w \in [order : Seq(selected), path : Seq(selected), cyclic : BOOLEAN]
      BY <1>3, <2>2, <2>4
    <3>2. w.order = v.order /\ w.path = path /\ w.cyclic = v.cyclic
      BY <2>2
    <3>3. Range(v.order) \cap Range(path) = {}
      BY <1>3, <2>3, <2>4
    <3>4. /\ v.cyclic => HasCycle(selected)
          /\ \A i \in DOMAIN v.order :
                depends[v.order[i]] \cap selected \subseteq {v.order[j] : j \in 1 .. i - 1}
      BY DEF Visiting
    <3>. QED  BY <1>3, <2>4, <2>6, <3>1, <3>2, <3>3, <3>4 DEF Visiting
  <2>8. Steps(w) = Steps(v) + 1
    <3>1. Len(w.order) = Len(v.order) /\ Len(w.path) = Len(v.path) + 1
      BY <2>2, <2>4
    <3>2. PICK k \in Nat, m \in Nat : k = Len(v.order) /\ m = Len(v.path)
      BY <2>5
    <3>3. Steps(v) = 2 * k + m /\ Steps(w) = 2 * k + (m + 1)
      BY <3>1, <3>2 DEF Steps
    <3>. QED  BY <3>3
  <2>. QED  BY <1>3, <2>2, <2>7, <2>8
<1>. QED  BY <1>6, <1>7, <1>8, <1>9

Counts(selected, after) ==
    after = [n \in Nat |-> IF n = 0 THEN NoVisit ELSE Visit(selected, after[n - 1])]

LEMMA NoVisitYet ==
    ASSUME NEW selected
    PROVE  Visiting(selected, NoVisit) /\ Steps(NoVisit) = 0 /\ ~NoVisit.cyclic
<1>1. /\ NoVisit \in [order : Seq(selected), path : Seq(selected), cyclic : BOOLEAN]
      /\ NoVisit.order = <<>> /\ NoVisit.path = <<>> /\ ~NoVisit.cyclic
  BY DEF NoVisit
<1>2. Range(<<>>) = {} /\ DOMAIN <<>> = {} /\ Len(<<>>) = 0
  BY DEF Range
<1>. QED  BY <1>1, <1>2 DEF Visiting, Steps, NoneTwice

LEMMA CountExists ==
    ASSUME depends \in [Agents -> SUBSET Agents], NEW selected \in SUBSET Agents
    PROVE  \E after : Counts(selected, after)
<1>1. PICK step : step = [v \in Visits |-> Visit(selected, v)]
  OBVIOUS
<1>10. PICK after : Repeats(NoVisit, step, after)
  BY StepsExist
<1>2. after = [n \in Nat |-> IF n = 0 THEN NoVisit ELSE step[after[n - 1]]]
  BY <1>10 DEF Repeats
<1>3. /\ after[0] = NoVisit
      /\ \A n \in Nat : after[n + 1] = step[after[n]]
      /\ \A n \in Nat : n # 0 => n - 1 \in Nat /\ after[n] = step[after[n - 1]]
  BY <1>2
<1>4. ASSUME NEW v, Visiting(selected, v) PROVE step[v] = Visit(selected, v)
  <2>1. v \in [order : Seq(selected), path : Seq(selected), cyclic : BOOLEAN]
    BY <1>4 DEF Visiting
  <2>2. v \in Visits
    BY <2>1 DEF Visits
  <2>. QED  BY <1>1, <2>2
<1>. DEFINE Good == {n \in Nat : Visiting(selected, after[n])}
<1>5. 0 \in Good
  BY <1>3, NoVisitYet
<1>6. \A n \in Nat : n \in Good => n + 1 \in Good
  <2>. TAKE n \in Nat
  <2>. HAVE n \in Good
  <2>1. PICK v, w : v = after[n] /\ w = after[n + 1]
    OBVIOUS
  <2>2. Visiting(selected, v)
    BY <2>1
  <2>3. w = Visit(selected, v)
    BY <1>3, <1>4, <2>1, <2>2
  <2>4. Visiting(selected, w)
    BY <2>2, <2>3, VisitStep
  <2>. QED  BY <2>1, <2>4
<1>7. \A n \in Nat : Visiting(selected, after[n])
  <2>1. \A n \in Nat : n \in Good
    <3>. HIDE DEF Good
    <3>. QED  BY <1>5, <1>6, NatsAll
  <2>. QED  BY <2>1
<1>8. \A n \in Nat : n # 0 => step[after[n - 1]] = Visit(selected, after[n - 1])
  BY <1>3, <1>4, <1>7
<1>9. after = [n \in Nat |-> IF n = 0 THEN NoVisit ELSE Visit(selected, after[n - 1])]
  BY <1>2, <1>8
<1>. QED  BY <1>9 DEF Counts

\* So many steps were made unless there was nothing left to do.
LEMMA CountGoes ==
    ASSUME depends \in [Agents -> SUBSET Agents], NEW selected \in SUBSET Agents,
           NEW after, Counts(selected, after), NEW n \in Nat
    PROVE  /\ Visiting(selected, after[n])
           /\ \/ after[n].cyclic
              \/ Finished(selected, after[n])
              \/ Steps(after[n]) >= n
<1>. DEFINE Goes(k, v) == v.cyclic \/ Finished(selected, v) \/ Steps(v) = k
            Good == {k \in Nat : Visiting(selected, after[k]) /\ Goes(k, after[k])}
<1>1. after[0] = NoVisit /\ \A k \in Nat : after[k + 1] = Visit(selected, after[k])
  BY DEF Counts
<1>2. 0 \in Good
  BY <1>1, NoVisitYet
<1>3. \A k \in Nat : k \in Good => k + 1 \in Good
  <2>. TAKE k \in Nat
  <2>. HAVE k \in Good
  <2>1. PICK v, w : v = after[k] /\ w = after[k + 1]
    OBVIOUS
  <2>2. Visiting(selected, v) /\ Goes(k, v) /\ w = Visit(selected, v)
    BY <1>1, <2>1
  <2>3. /\ Visiting(selected, w)
        /\ w.cyclic \/ Finished(selected, w) \/ (~v.cyclic /\ Steps(w) = Steps(v) + 1)
    BY <2>2, VisitStep
  <2>4. Finished(selected, v) => w = v
    BY <2>2 DEF Visit, Needs, Finished
  <2>5. Goes(k + 1, w)
    BY <2>2, <2>3, <2>4
  <2>. QED  BY <2>1, <2>3, <2>5
<1>4. n \in Good
  <2>. HIDE DEF Good
  <2>. QED  BY <1>2, <1>3, NatsAll
<1>. QED  BY <1>4

LEMMA PlanFinished ==
    ASSUME NEW selected \in SUBSET Agents, NEW v, Visiting(selected, v),
           ~v.cyclic, Finished(selected, v) \/ Steps(v) >= 2 * Cardinality(selected)
    PROVE  InOrder(v.order, selected) /\ ~HasCycle(selected)
<1>1. /\ v.order \in Seq(selected) /\ v.path \in Seq(selected)
      /\ NoneTwice(v.order) /\ NoneTwice(v.path) /\ Range(v.order) \cap Range(v.path) = {}
      /\ \A i \in DOMAIN v.order :
            depends[v.order[i]] \cap selected \subseteq {v.order[j] : j \in 1 .. i - 1}
  BY DEF Visiting
<1>2. IsFiniteSet(selected)
  <2>1. IsFiniteSet(Agents)
    BY AgentPlanAssumption, FS_Interval DEF Agents
  <2>. QED  BY <2>1, FS_Subset
<1>3. PICK k \in Nat, m \in Nat, c \in Nat :
         k = Len(v.order) /\ m = Len(v.path) /\ c = Cardinality(selected)
  BY <1>1, <1>2, FS_CardinalityType
<1>4. DOMAIN v.order = 1 .. k /\ DOMAIN v.path = 1 .. m
  BY <1>1, <1>3
<1>5. Cardinality(Range(v.order)) = k /\ Cardinality(Range(v.path)) = m
  BY <1>1, <1>4, LengthIsNumber DEF NoneTwice
<1>6. Range(v.order) \in SUBSET selected /\ Range(v.path) \in SUBSET selected
  BY <1>1 DEF Range
<1>7. Range(v.order) = selected
  <2>1. CASE Finished(selected, v)
    BY <1>6, <2>1 DEF Finished
  <2>2. CASE Steps(v) >= 2 * Cardinality(selected)
    <3>1. IsFiniteSet(Range(v.order)) /\ IsFiniteSet(Range(v.path))
      BY <1>2, <1>6, FS_Subset
    <3>2. Cardinality(Range(v.order) \cup Range(v.path)) = k + m
      <4>1. PICK S, T : S = Range(v.order) /\ T = Range(v.path)
        OBVIOUS
      <4>2. Cardinality(S \cup T) = Cardinality(S) + Cardinality(T) - Cardinality(S \cap T)
        BY <3>1, <4>1, FS_Union
      <4>3. Cardinality(S \cap T) = 0
        BY <1>1, <4>1, FS_EmptySet
      <4>4. Cardinality(S) = k /\ Cardinality(T) = m
        BY <1>5, <4>1
      <4>5. Cardinality(S \cup T) = k + m
        <5>1. PICK x : x = Cardinality(S \cup T)
          OBVIOUS
        <5>. QED  BY <4>2, <4>3, <4>4, <5>1
      <4>. QED  BY <4>1, <4>5
    <3>3. k + m <= c
      <4>1. Range(v.order) \cup Range(v.path) \in SUBSET selected
        BY <1>6
      <4>2. Cardinality(Range(v.order) \cup Range(v.path)) <= Cardinality(selected)
        BY <1>2, <4>1, FS_Subset
      <4>. QED  BY <1>3, <3>2, <4>2
    <3>4. 2 * k + m >= 2 * c
      BY <1>3, <2>2 DEF Steps
    <3>5. k = c
      BY <3>3, <3>4
    <3>. QED  BY <1>2, <1>3, <1>5, <1>6, <3>5, FS_Subset
  <2>. QED  BY <2>1, <2>2
<1>8. InOrder(v.order, selected)
  BY <1>1, <1>3, <1>5, <1>7 DEF InOrder
<1>9. ASSUME NEW S \in (SUBSET selected) \ {{}}, \A a \in S : depends[a] \cap S # {}
      PROVE  FALSE
  <2>1. PICK places : places = {i \in 1 .. k : v.order[i] \in S}
    OBVIOUS
  <2>6. places \in SUBSET Nat
    BY <2>1
  <2>7. places # {}
    <3>1. PICK a \in S : a \in Range(v.order)
      BY <1>7, <1>9
    <3>. QED  BY <1>4, <2>1, <3>1 DEF Range
  <2>2. PICK i \in places : \A j \in places : i <= j
    BY <2>6, <2>7, LeastOf
  <2>3. PICK a \in S : a \in depends[v.order[i]]
    BY <1>9, <2>1, <2>2
  <2>4. PICK j \in 1 .. i - 1 : v.order[j] = a
    BY <1>1, <1>4, <2>1, <2>2, <2>3
  <2>5. j \in places /\ j < i
    BY <2>1, <2>2, <2>4
  <2>. QED  BY <2>1, <2>2, <2>5
<1>. QED  BY <1>8, <1>9 DEF HasCycle

\* Refused if there is a cycle, and in order if there is none.
LEMMA PlanIsInOrder ==
    ASSUME depends \in [Agents -> SUBSET Agents], NEW selected \in SUBSET Agents,
           NEW plan, plan = Toposort(selected)
    PROVE  IF HasCycle(selected) THEN plan.cyclic
           ELSE ~plan.cyclic /\ InOrder(plan.order, selected)
<1>1. plan = (CHOOSE after : Counts(selected, after))[2 * Cardinality(selected)]
  BY DEF Toposort, Counts
<1>2. PICK after : after = CHOOSE f : Counts(selected, f)
  OBVIOUS
<1>3. Counts(selected, after)
  BY <1>2, CountExists
<1>4. 2 * Cardinality(selected) \in Nat
  <2>1. IsFiniteSet(Agents)
    BY AgentPlanAssumption, FS_Interval DEF Agents
  <2>2. Cardinality(selected) \in Nat
    BY <2>1, FS_Subset, FS_CardinalityType
  <2>. QED  BY <2>2
<1>5. PICK n \in Nat : n = 2 * Cardinality(selected)
  BY <1>4
<1>6. plan = after[n]
  BY <1>1, <1>2, <1>5
<1>7. /\ Visiting(selected, plan)
      /\ plan.cyclic \/ Finished(selected, plan) \/ Steps(plan) >= n
  BY <1>3, <1>6, CountGoes
<1>8. CASE plan.cyclic
  BY <1>7, <1>8 DEF Visiting
<1>9. CASE ~plan.cyclic
  <2>1. InOrder(plan.order, selected) /\ ~HasCycle(selected)
    BY <1>5, <1>7, <1>9, PlanFinished
  <2>. QED  BY <1>9, <2>1
<1>. QED  BY <1>8, <1>9

-----------------------------------------------------------------------------
(***************************************************************************)
(* The same of every request.                                              *)
(***************************************************************************)

OrderHeld(s) ==
    /\ s.op = "order" =>
         /\ DOMAIN s = {"op", "by", "links", "order", "waiting"}
         /\ IsGraph(s.links)
         /\ InTurnPlaced(s.links, s.order)
         /\ Counted(s.links, s.order, s.waiting)
    /\ s.op = "ordered" => OrderRespects(s)

WavesHeld(s) ==
    /\ s.op = "waves" =>
         /\ DOMAIN s = {"op", "by", "links", "waves"}
         /\ IsGraph(s.links)
         /\ InWaves(s.links, s.waves)
    /\ s.op = "in_waves" => WavesRespect(s) /\ (s.reported <=> OnCycle(s.links) # {})

PlanHeld(s) ==
    s.op = "plan" =>
      IF HasCycle(s.selected) THEN s.plan.cyclic
      ELSE ~s.plan.cyclic /\ InOrder(s.plan.order, s.selected)

OrdersHeld(s) == OrderHeld(s) /\ WavesHeld(s) /\ PlanHeld(s)

OrdersInv ==
    /\ ServingForm
    /\ depends \in [Agents -> SUBSET Agents]
    /\ \A r \in Requests : OrdersHeld(serving[r])

\* What agents depend on is given once and for all.
LEMMA DependsStays ==
    ASSUME [Next]_vars
    PROVE  UNCHANGED depends
<1>1. ASSUME NEW r \in Requests, AgentsStep(r) PROVE UNCHANGED depends
  <2>1. CASE \E u \in Users, selected \in Selections, pre \in Preauthorized :
                StartRun(r, u, selected, pre)
    BY <2>1, Zenon DEF StartRun
  <2>2. CASE ~ \E u \in Users, selected \in Selections, pre \in Preauthorized :
                StartRun(r, u, selected, pre)
    BY <1>1, <2>2 DEF AgentsStep, Plan, Planned, SkipAgent, RunAgent, Truncate, WriteReport,
          Consider, DecideRequest, ClaimRequest, ReadTrail, agentsVars
  <2>. QED  BY <2>1, <2>2
<1>. QED  BY <1>1 DEF Next, vars, agentsVars

LEMMA SortHeld ==
    ASSUME ServingForm, NEW r \in Requests, OrdersHeld(serving[r]), SortStep(r)
    PROVE  OrdersHeld(serving'[r])
<1>. DEFINE s == serving[r]
<1>1. ASSUME NEW next, Continues(r, next) \/ Starts(r, "analyses", next)
      PROVE  serving'[r] = next
  BY <1>1 DEF ServingForm, Continues, Starts
<1>2. CASE \E links \in TaskLinks, by \in OneByOne : Order(r, by, links)
  <2>1. PICK links \in TaskLinks, by \in OneByOne : Order(r, by, links)
    BY <1>2
  <2>2. PICK counted : counted = IF by \in Counting THEN links ELSE Once(links)
    OBVIOUS
  <2>3. IsGraph(counted)
    BY <2>2, TaskOrdersAssumption, OnceIsGraph
  <2>4. PICK next : next = [op |-> "order", by |-> by, links |-> counted,
                            order |-> <<>>, waiting |-> Waiting(counted)]
    OBVIOUS
  <2>5. serving'[r] = next
    BY <1>1, <2>1, <2>2, <2>4, Zenon DEF Order
  <2>6. OrdersHeld(next)
    BY <2>3, <2>4, NothingPlaced DEF OrdersHeld, OrderHeld, WavesHeld, PlanHeld
  <2>. QED  BY <2>5, <2>6
<1>3. CASE Place(r)
  <2>1. PICK t \in Ready(s) :
           /\ s.op = "order"
           /\ Continues(r, [s EXCEPT !.order = Append(@, t), !.waiting = Relieved(s, t)])
    BY <1>3 DEF Place
  <2>2. /\ DOMAIN s = {"op", "by", "links", "order", "waiting"}
        /\ IsGraph(s.links)
        /\ InTurnPlaced(s.links, s.order)
        /\ Counted(s.links, s.order, s.waiting)
    BY <2>1 DEF OrdersHeld, OrderHeld
  <2>3. t \in DOMAIN s.links \ Range(s.order) /\ s.waiting[t] = 0
    BY <2>1 DEF Ready
  <2>4. PICK more, fewer : more = Append(s.order, t) /\ fewer = Relieved(s, t)
    OBVIOUS
  <2>5. PICK next : next = [s EXCEPT !.order = more, !.waiting = fewer]
    OBVIOUS
  <2>6. serving'[r] = next
    BY <1>1, <2>1, <2>4, <2>5
  <2>7. /\ DOMAIN next = DOMAIN s /\ next.op = "order" /\ next.links = s.links
        /\ next.order = more /\ next.waiting = fewer
    BY <2>1, <2>2, <2>5
  <2>8. InTurnPlaced(s.links, more) /\ Counted(s.links, more, fewer)
    BY <2>2, <2>3, <2>4, OnePlaced DEF Relieved
  <2>9. OrdersHeld(next)
    BY <2>2, <2>7, <2>8 DEF OrdersHeld, OrderHeld, WavesHeld, PlanHeld
  <2>. QED  BY <2>6, <2>9
<1>4. CASE EndOrder(r)
  <2>1. PICK left : left = DOMAIN s.links \ Range(s.order)
    OBVIOUS
  <2>2. PICK list : list = IF s.by = "control_flow" THEN s.order
                           ELSE s.order \o LeftToRight(left)
    OBVIOUS
  <2>3. PICK next : next = [op |-> "ordered", by |-> s.by, links |-> s.links, order |-> list]
    OBVIOUS
  <2>4. s.op = "order" /\ Ready(s) = {} /\ serving'[r] = next
    BY <1>1, <1>4, <2>1, <2>2, <2>3 DEF EndOrder
  <2>5. /\ IsGraph(s.links)
        /\ InTurnPlaced(s.links, s.order)
        /\ Counted(s.links, s.order, s.waiting)
    BY <2>4 DEF OrdersHeld, OrderHeld
  <2>6. /\ left = Stranded(s.links)
        /\ Range(s.order) = DOMAIN s.links \ Stranded(s.links)
    BY <2>1, <2>4, <2>5, RestOfOrder DEF Ready
  <2>7. next.op = "ordered" /\ next.links = s.links /\ next.by = s.by /\ next.order = list
    BY <2>3
  <2>8. OrderRespects(next)
    BY <2>1, <2>2, <2>5, <2>6, <2>7, OrderEnds
  <2>9. OrdersHeld(next)
    BY <2>7, <2>8 DEF OrdersHeld, OrderHeld, WavesHeld, PlanHeld
  <2>. QED  BY <2>4, <2>9
<1>5. CASE \E links \in TaskLinks, by \in ByWaves : Waves(r, by, links)
  <2>1. PICK links \in TaskLinks, by \in ByWaves : Waves(r, by, links)
    BY <1>5
  <2>2. PICK next : next = [op |-> "waves", by |-> by, links |-> links, waves |-> <<>>]
    OBVIOUS
  <2>3. serving'[r] = next
    BY <1>1, <2>1, <2>2 DEF Waves
  <2>4. OrdersHeld(next)
    BY <2>2, TaskOrdersAssumption, NoWaves DEF OrdersHeld, OrderHeld, WavesHeld, PlanHeld
  <2>. QED  BY <2>3, <2>4
<1>6. CASE TakeWave(r)
  <2>1. PICK more : more = Append(s.waves, NextWave(s))
    OBVIOUS
  <2>2. PICK next : next = [s EXCEPT !.waves = more]
    OBVIOUS
  <2>3. s.op = "waves" /\ serving'[r] = next
    BY <1>1, <1>6, <2>1, <2>2 DEF TakeWave
  <2>4. /\ DOMAIN s = {"op", "by", "links", "waves"}
        /\ IsGraph(s.links)
        /\ InWaves(s.links, s.waves)
    BY <2>3 DEF OrdersHeld, WavesHeld
  <2>5. /\ DOMAIN next = DOMAIN s /\ next.op = "waves" /\ next.links = s.links
        /\ next.waves = more
    BY <2>2, <2>3, <2>4
  <2>6. InWaves(s.links, more)
    BY <2>1, <2>4, WaveTaken
  <2>7. OrdersHeld(next)
    BY <2>4, <2>5, <2>6 DEF OrdersHeld, OrderHeld, WavesHeld, PlanHeld
  <2>. QED  BY <2>3, <2>7
<1>7. CASE EndWaves(r)
  <2>1. PICK left : left = DOMAIN s.links \ Placed(s)
    OBVIOUS
  <2>2. PICK waves : waves = IF left = {} THEN s.waves ELSE Append(s.waves, left)
    OBVIOUS
  <2>3. PICK next : next = [op |-> "in_waves", by |-> s.by, links |-> s.links,
                            waves |-> waves, reported |-> left # {}]
    OBVIOUS
  <2>4. s.op = "waves" /\ NextWave(s) = {} /\ serving'[r] = next
    BY <1>1, <1>7, <2>1, <2>2, <2>3 DEF EndWaves
  <2>5. IsGraph(s.links) /\ InWaves(s.links, s.waves)
    BY <2>4 DEF OrdersHeld, WavesHeld
  <2>6. left = Stranded(s.links)
    BY <2>1, <2>4, <2>5, RestOfWaves
  <2>7. /\ next.op = "in_waves" /\ next.links = s.links /\ next.waves = waves
        /\ next.reported <=> left # {}
    BY <2>3
  <2>8. WavesRespect(next)
    <3>1. left = DOMAIN s.links \ UNION Range(s.waves)
      BY <2>1 DEF Placed
    <3>. QED  BY <2>2, <2>5, <2>6, <2>7, <3>1, WavesEnd
  <2>9. next.reported <=> OnCycle(next.links) # {}
    BY <2>6, <2>7, StrandedWhereCycles
  <2>10. OrdersHeld(next)
    BY <2>7, <2>8, <2>9 DEF OrdersHeld, OrderHeld, WavesHeld, PlanHeld
  <2>. QED  BY <2>4, <2>10
<1>. QED  BY <1>2, <1>3, <1>4, <1>5, <1>6, <1>7 DEF SortStep

\* What holds of each request after a step holds then, for depends stays.
LEMMA OrdersStay ==
    ASSUME OrdersInv, UNCHANGED depends, ServingForm',
           \A r \in Requests : OrdersHeld(serving'[r])
    PROVE  OrdersInv'
<1>2. ASSUME NEW r \in Requests PROVE PlanHeld(serving[r])'
  BY <1>2 DEF OrdersHeld, PlanHeld, HasCycle, InOrder
<1>3. ASSUME NEW r \in Requests PROVE OrderHeld(serving[r])' /\ WavesHeld(serving[r])'
  BY <1>3 DEF OrdersHeld, OrderHeld, WavesHeld
<1>. QED  BY <1>2, <1>3 DEF OrdersInv, OrdersHeld

\* What all others do turns no request into an order, or waves, or a plan.
LEMMA OrdersElsewhere ==
    ASSUME OrdersInv, UNCHANGED depends, ServingForm',
           NEW ops, OnlyTurns(ops), ops \cap (SortOps \cup {"plan"}) = {}
    PROVE  OrdersInv'
<1>1. ASSUME NEW r \in Requests PROVE OrdersHeld(serving'[r])
  <2>1. CASE serving'[r] \in {serving[r], Idle}
    BY <2>1 DEF OrdersInv, OrdersHeld, OrderHeld, WavesHeld, PlanHeld, Idle
  <2>2. CASE serving'[r].op \in ops
    BY <2>2 DEF OrdersHeld, OrderHeld, WavesHeld, PlanHeld, SortOps
  <2>3. serving'[r] \in {serving[r], Idle} \/ serving'[r].op \in ops
    BY DEF OnlyTurns, Turns, OrdersInv, ServingForm
  <2>. QED  BY <2>1, <2>2, <2>3
<1>. QED  BY <1>1, OrdersStay

LEMMA OrdersAlways == Spec => []OrdersInv
<1>1. Init => OrdersInv
  <2>1. Init => depends \in [Agents -> SUBSET Agents]
    BY ConsoleAssumption DEF Init, Empty, Staffed, Planning, Ordering, Connecting
  <2>. QED
    BY <2>1 DEF Init, WorkersInit, OrdersInv, ServingForm, OrdersHeld, OrderHeld, WavesHeld,
       PlanHeld, Idle
<1>2. OrdersInv /\ ServingForm' /\ [Next]_vars => OrdersInv'
  <2>. SUFFICES ASSUME OrdersInv, ServingForm', [Next]_vars PROVE OrdersInv'
    OBVIOUS
  <2>1. ServingForm /\ UNCHANGED depends
    BY DependsStays DEF OrdersInv
  <2>2. ASSUME NEW r \in Requests, OrdersHeld(serving'[r]), NEW ops, Turns(r, ops)
        PROVE  OrdersInv'
    <3>1. \A q \in Requests : OrdersHeld(serving'[q])
      BY <2>1, <2>2 DEF OrdersInv, Turns, ServingForm
    <3>. QED  BY <2>1, <3>1, OrdersStay
  <2>3. ASSUME NEW r \in Requests, TaskOrdersStep(r) \/ MigrationWavesStep(r)
        PROVE  OrdersInv'
    <3>1. CASE Turns(r, SearchOps) \/ Turns(r, MoveOps)
      <4>1. OnlyTurns(SearchOps) \/ OnlyTurns(MoveOps)
        BY <3>1 DEF OnlyTurns
      <4>. QED  BY <2>1, <4>1, OrdersElsewhere DEF SearchOps, MoveOps, SortOps
    <3>2. CASE SortStep(r) /\ Turns(r, SortOps)
      <4>1. OrdersHeld(serving'[r])
        BY <2>1, <3>2, SortHeld DEF OrdersInv
      <4>. QED  BY <2>2, <3>2, <4>1
    <3>. QED  BY <2>1, <2>3, <3>1, <3>2, OrdersTurnsApart
  <2>4. ASSUME NEW r \in Requests, AgentsStep(r) PROVE OrdersInv'
    <3>1. CASE Turns(r, RunOps)
      <4>1. OnlyTurns(RunOps)
        BY <3>1 DEF OnlyTurns
      <4>. QED  BY <2>1, <4>1, OrdersElsewhere DEF RunOps, AgentsOps, SortOps
    <3>2. CASE Turns(r, {"plan"}) /\ \E selected \in (SUBSET Agents) \ {{}} : Plan(r, selected)
      <4>1. PICK selected \in SUBSET Agents : Plan(r, selected)
        BY <3>2
      <4>2. PICK plan : plan = Toposort(selected)
        OBVIOUS
      <4>3. PICK next : next = [op |-> "plan", selected |-> selected, plan |-> plan]
        OBVIOUS
      <4>4. serving'[r] = next
        BY <2>1, <4>1, <4>2, <4>3 DEF Plan, Starts, ServingForm
      <4>5. IF HasCycle(selected) THEN plan.cyclic
            ELSE ~plan.cyclic /\ InOrder(plan.order, selected)
        BY <4>2, PlanIsInOrder DEF OrdersInv
      <4>6. OrdersHeld(next)
        BY <4>3, <4>5 DEF OrdersHeld, OrderHeld, WavesHeld, PlanHeld
      <4>. QED  BY <2>2, <3>2, <4>4, <4>6
    <3>. QED  BY <2>1, <2>4, <3>1, <3>2, AgentsTurnsApart
  <2>5. ASSUME NEW r \in Requests, WorkspacesStep(r) \/ ConnectionsStep(r)
        PROVE  OrdersInv'
    <3>1. OnlyTurns(PeopleOps) \/ OnlyTurns(ConnectionsOps)
      BY <2>1, <2>5, PeopleTurns, ConnectionsTurns DEF OnlyTurns
    <3>. QED  BY <2>1, <3>1, OrdersElsewhere DEF PeopleOps, ConnectionsOps, SortOps
  <2>6. ASSUME NEW p \in Processes, Restart(p) PROVE OrdersInv'
    <3>1. OnlyTurns(PeopleOps)
      BY <2>1, <2>6, RestartTurns
    <3>. QED  BY <2>1, <3>1, OrdersElsewhere DEF PeopleOps, SortOps
  <2>7. CASE UNCHANGED vars
    <3>1. \A r \in Requests : OrdersHeld(serving'[r])
      BY <2>7 DEF vars, OrdersInv
    <3>. QED  BY <2>1, <3>1, OrdersStay
  <2>. QED  BY <2>3, <2>4, <2>5, <2>6, <2>7 DEF Next
<1>3. SecretsInv => ServingForm
  BY DEF SecretsInv
<1>. QED  BY <1>1, <1>2, <1>3, SecretsAlways, PTL DEF Spec

\* execution_waves, execution_order, get_topological_order, _topo and plan:
\* whatever the graph, an order has every task once and after all it depends on,
\* and so has a plan; those on a cycle or behind one are left out or come last,
\* waves are as early as they may be, and a cycle is reported, or a plan refused,
\* if and only if there is one.
THEOREM OrdersAlwaysRespectDependencies == Spec => []OrdersRespectDependencies
<1>1. OrdersInv => OrdersRespectDependencies
  <2>. SUFFICES ASSUME OrdersInv PROVE OrdersRespectDependencies
    OBVIOUS
  <2>1. PlanIsTopological
    BY DEF OrdersInv, OrdersHeld, PlanHeld, PlanIsTopological
  <2>2. ASSUME NEW r \in Requests
        PROVE  /\ serving[r].op = "ordered" => OrderRespects(serving[r])
               /\ serving[r].op = "in_waves" =>
                    /\ WavesRespect(serving[r])
                    /\ serving[r].reported <=> OnCycle(serving[r].links) # {}
    BY DEF OrdersInv, OrdersHeld, OrderHeld, WavesHeld
  <2>. QED  BY <2>1, <2>2 DEF OrdersRespectDependencies
<1>. QED  BY <1>1, OrdersAlways, PTL

-----------------------------------------------------------------------------
(***************************************************************************)
(* The components of what is left of an estate. An object is on the stack  *)
(* until its component is closed; what is not on it any more leads only to *)
(* what is not either. The lowest place an object is known to lead to, on  *)
(* the stack, is no higher than any its links have shown, so that when the *)
(* visit of one ends that leads no lower than itself, what was found since *)
(* leads to it and to nothing lower: it is a knot.                         *)
(***************************************************************************)

\* The place of an object among those found.
At(found, n) == CHOOSE i \in DOMAIN found : found[i] = n

\* Some of those found, in the order in which they were.
Rising(found, list) ==
    /\ list \in Seq(Range(found))
    /\ NoneTwice(list)
    /\ \A i, j \in DOMAIN list : i < j => At(found, list[i]) < At(found, list[j])

Listed(rest, found, work, stack) ==
    /\ found \in Seq(rest)
    /\ NoneTwice(found)
    /\ Rising(found, work)
    /\ Rising(found, stack)
    /\ Range(work) \subseteq Range(stack)

Looked(links, rest, found, work, left) ==
    /\ left \in [DOMAIN links -> SUBSET DOMAIN links]
    /\ \A n \in rest :
         /\ left[n] \subseteq Successors(links, n)
         /\ Successors(links, n) \ left[n] \subseteq Range(found)
         /\ n \notin Range(found) => left[n] = Successors(links, n)
         /\ n \in Range(found) \ Range(work) => left[n] = {}

\* What is in a component leads to what is in one.
Shut(links, found, stack) ==
    \A n \in Range(found) \ Range(stack) :
       Successors(links, n) \subseteq Range(found) \ Range(stack)

\* An open visit leads to all that was found since and is on the stack.
Leads(links, found, work, stack) ==
    \A i \in DOMAIN work : \A n \in Range(stack) :
       At(found, work[i]) <= At(found, n) => n = work[i] \/ n \in Downstream(links)[work[i]]

Lowest(links, found, work, stack, low, left, n) ==
    /\ low[n] <= At(found, n)
    /\ n \notin Range(work) => low[n] < At(found, n)
    /\ \E m \in Range(stack) :
          At(found, m) = low[n] /\ (m = n \/ m \in Downstream(links)[n])
    /\ \A u \in Successors(links, n) \ left[n] :
          u \in Range(stack) => At(found, n) < At(found, u) \/ low[n] <= At(found, u)

Lows(links, found, work, stack, low, left) ==
    /\ low \in [DOMAIN links -> Nat]
    /\ \A n \in Range(stack) : Lowest(links, found, work, stack, low, left, n)

\* What was found in a visit that is over leads no lower than the visit it was in.
Under(found, work, stack, low) ==
    \A i \in DOMAIN work : \A n \in Range(stack) :
       /\ At(found, work[i]) < At(found, n)
       /\ i + 1 \in DOMAIN work => At(found, n) < At(found, work[i + 1])
       => low[work[i]] <= low[n]

Parting(links, rest, found, work, stack, low, left, components) ==
    /\ Listed(rest, found, work, stack)
    /\ Looked(links, rest, found, work, left)
    /\ Shut(links, found, stack)
    /\ Leads(links, found, work, stack)
    /\ Lows(links, found, work, stack, low, left)
    /\ Under(found, work, stack, low)
    /\ \A c \in components : \E n \in rest : c = KnotOf(links, n)

\* No link leads from what is left to what has moved.
NoneBack(links, rest) ==
    rest \subseteq DOMAIN links /\ \A n \in rest : Successors(links, n) \subseteq rest

LEMMA AtIs ==
    ASSUME NEW found, NoneTwice(found), NEW n \in Range(found)
    PROVE  At(found, n) \in DOMAIN found /\ found[At(found, n)] = n
<1>1. \E i \in DOMAIN found : found[i] = n
  BY DEF Range
<1>. QED  BY <1>1 DEF At

LEMMA AtOnly ==
    ASSUME NEW found, NoneTwice(found), NEW i \in DOMAIN found
    PROVE  At(found, found[i]) = i
<1>1. found[i] \in Range(found)
  BY DEF Range
<1>. QED  BY <1>1, AtIs DEF NoneTwice

\* Two of the same place are one.
LEMMA AtApart ==
    ASSUME NEW found, NoneTwice(found), NEW n \in Range(found), NEW m \in Range(found),
           At(found, n) = At(found, m)
    PROVE  n = m
  BY AtIs

\* Every place is a number.
LEMMA AtNumber ==
    ASSUME NEW rest, NEW found \in Seq(rest), NoneTwice(found), NEW n \in Range(found)
    PROVE  At(found, n) \in 1 .. Len(found) /\ Len(found) \in Nat /\ n \in rest
<1>1. DOMAIN found = 1 .. Len(found) /\ Len(found) \in Nat
  OBVIOUS
<1>. QED  BY <1>1, AtIs

\* What is found next comes after all others.
FoundNext(found, n, more) ==
    /\ NoneTwice(more)
    /\ Range(more) = Range(found) \cup {n}
    /\ Len(found) \in Nat
    /\ At(more, n) = Len(found) + 1
    /\ \A m \in Range(found) : At(more, m) = At(found, m) /\ At(found, m) \in 1 .. Len(found)

LEMMA AtExtended ==
    ASSUME NEW rest, NEW found \in Seq(rest), NoneTwice(found), NEW n \in rest, n \notin Range(found),
           NEW more, more = Append(found, n)
    PROVE  more \in Seq(rest) /\ FoundNext(found, n, more)
<1>1. more \in Seq(rest) /\ Extended(found, n, more)
  BY ListExtended
<1>2. Len(found) \in Nat
  OBVIOUS
<1>3. At(more, n) = Len(found) + 1
  <2>1. NoneTwice(more) /\ Len(found) + 1 \in DOMAIN more /\ more[Len(found) + 1] = n
    BY <1>1, <1>2 DEF Extended
  <2>. QED  BY <2>1, AtOnly
<1>4. ASSUME NEW m \in Range(found)
      PROVE  At(more, m) = At(found, m) /\ At(found, m) \in 1 .. Len(found)
  <2>1. At(found, m) \in 1 .. Len(found) /\ found[At(found, m)] = m
    BY AtIs
  <2>2. At(found, m) \in DOMAIN more /\ more[At(found, m)] = m
    BY <1>1, <1>2, <2>1 DEF Extended
  <2>. QED  BY <1>1, <2>1, <2>2, AtOnly DEF Extended
<1>. QED  BY <1>1, <1>2, <1>3, <1>4 DEF Extended, FoundNext

\* What the lists are, in sets and numbers.
InLists(links, rest, found, work, stack) ==
    /\ found \in Seq(rest) /\ NoneTwice(found)
    /\ Rising(found, work) /\ Rising(found, stack)
    /\ Range(work) \subseteq Range(stack) /\ Range(stack) \subseteq Range(found)
    /\ Range(found) \subseteq rest /\ rest \subseteq DOMAIN links
    /\ \A n \in Range(found) : At(found, n) \in Nat
    /\ Len(work) \in Nat /\ DOMAIN work = 1 .. Len(work)
    /\ \A i \in DOMAIN work : work[i] \in Range(work)
    /\ work # <<>> => Last(work) = work[Len(work)] /\ Len(work) \in DOMAIN work

LEMMA ListsAre ==
    ASSUME NEW links, NEW rest, NoneBack(links, rest), NEW found, NEW work, NEW stack,
           Listed(rest, found, work, stack)
    PROVE  InLists(links, rest, found, work, stack)
<1>1. /\ found \in Seq(rest) /\ NoneTwice(found)
      /\ Rising(found, work) /\ Rising(found, stack)
      /\ Range(work) \subseteq Range(stack)
  BY DEF Listed
<1>2. Range(found) \subseteq rest
  BY <1>1 DEF Range
<1>3. PICK S : S = Range(found)
  OBVIOUS
<1>4. stack \in Seq(S) /\ work \in Seq(S)
  BY <1>1, <1>3 DEF Rising
<1>5. Range(stack) \subseteq Range(found)
  BY <1>3, <1>4 DEF Range
<1>6. \A n \in Range(found) : At(found, n) \in Nat
  BY <1>1, AtNumber
<1>7. /\ Len(work) \in Nat /\ DOMAIN work = 1 .. Len(work)
      /\ \A i \in DOMAIN work : work[i] \in Range(work)
  BY <1>4 DEF Range
<1>8. work # <<>> => Last(work) = work[Len(work)] /\ Len(work) \in DOMAIN work
  BY <1>4 DEF Last
<1>. QED  BY <1>1, <1>2, <1>5, <1>6, <1>7, <1>8 DEF InLists, NoneBack

\* A list that goes on with what is found.
LEMMA RisingExtended ==
    ASSUME NEW rest, NEW found \in Seq(rest), NoneTwice(found), NEW n \in rest, n \notin Range(found),
           NEW more, more = Append(found, n),
           NEW list, Rising(found, list), NEW next, next = Append(list, n)
    PROVE  /\ Rising(more, next)
           /\ Extended(list, n, next)
           /\ Len(list) \in Nat
<1>1. /\ Range(more) = Range(found) \cup {n}
      /\ At(more, n) = Len(found) + 1 /\ Len(found) \in Nat
      /\ \A m \in Range(found) : At(more, m) = At(found, m) /\ At(found, m) \in 1 .. Len(found)
  <2>1. FoundNext(found, n, more)
    BY AtExtended
  <2>. QED  BY <2>1 DEF FoundNext
<1>2. list \in Seq(Range(more)) /\ NoneTwice(list) /\ Range(list) \subseteq Range(found)
  <2>1. list \in Seq(Range(found)) /\ NoneTwice(list) /\ Range(found) \subseteq Range(more)
    BY <1>1 DEF Rising
  <2>2. PICK S, T : S = Range(found) /\ T = Range(more)
    OBVIOUS
  <2>3. list \in Seq(T) /\ \A i \in DOMAIN list : list[i] \in S
    BY <2>1, <2>2
  <2>. QED  BY <2>1, <2>2, <2>3 DEF Range
<1>3. next \in Seq(Range(more)) /\ Extended(list, n, next)
  BY <1>1, <1>2, ListExtended
<1>4. Len(list) \in Nat
  BY <1>2
<1>5. ASSUME NEW i \in DOMAIN next, NEW j \in DOMAIN next, i < j
      PROVE  At(more, next[i]) < At(more, next[j])
  <2>1. i \in DOMAIN list /\ next[i] = list[i] /\ list[i] \in Range(found)
    <3>1. i \in DOMAIN list /\ next[i] = list[i]
      BY <1>3, <1>4, <1>5 DEF Extended
    <3>. QED  BY <1>2, <3>1 DEF Range
  <2>2. CASE j \in DOMAIN list
    <3>1. next[j] = list[j] /\ list[j] \in Range(found)
      BY <1>2, <1>3, <2>2 DEF Extended, Range
    <3>2. At(found, list[i]) < At(found, list[j])
      BY <1>5, <2>1, <2>2 DEF Rising
    <3>. QED  BY <1>1, <2>1, <3>1, <3>2
  <2>3. CASE j \notin DOMAIN list
    <3>1. next[j] = n
      BY <1>3, <1>4, <2>3 DEF Extended
    <3>. QED  BY <1>1, <2>1, <3>1
  <2>. QED  BY <2>2, <2>3
<1>. QED  BY <1>3, <1>4, <1>5 DEF Rising, Extended

\* An object is opened, the first of a visit or one that the last visit leads to.
OpensNext(found, work, stack, low, left, n, found2, work2, stack2, low2, left2) ==
    /\ found2 = Append(found, n)
    /\ work2 = Append(work, n)
    /\ stack2 = Append(stack, n)
    /\ low2 = [low EXCEPT ![n] = Len(found) + 1]
    /\ left2 = IF work = <<>> THEN left
               ELSE [left EXCEPT ![Last(work)] = left[Last(work)] \ {n}]

LEMMA OpensOne ==
    ASSUME NEW links, NEW rest, NoneBack(links, rest), NEW found, NEW work, NEW stack, NEW low, NEW left,
           NEW components, Parting(links, rest, found, work, stack, low, left, components),
           NEW n \in rest, n \notin Range(found),
           work # <<>> => n \in Successors(links, Last(work)),
           NEW found2, NEW work2, NEW stack2, NEW low2, NEW left2,
           OpensNext(found, work, stack, low, left, n, found2, work2, stack2, low2, left2)
    PROVE  Parting(links, rest, found2, work2, stack2, low2, left2, components)
<1>. USE DEF OpensNext
<1>1. /\ Listed(rest, found, work, stack)
      /\ Looked(links, rest, found, work, left)
      /\ Shut(links, found, stack)
      /\ Leads(links, found, work, stack)
      /\ Lows(links, found, work, stack, low, left)
      /\ Under(found, work, stack, low)
      /\ \A c \in components : \E m \in rest : c = KnotOf(links, m)
  BY DEF Parting
<1>2. /\ found \in Seq(rest) /\ NoneTwice(found)
      /\ Rising(found, work) /\ Rising(found, stack)
      /\ Range(work) \subseteq Range(stack) /\ Range(stack) \subseteq Range(found)
      /\ Range(found) \subseteq rest /\ rest \subseteq DOMAIN links
      /\ work # <<>> => Last(work) = work[Len(work)] /\ Len(work) \in DOMAIN work
  BY <1>1, ListsAre DEF InLists
<1>3. PICK k \in Nat : k = Len(found)
  BY <1>2
<1>4. /\ found2 \in Seq(rest) /\ NoneTwice(found2)
      /\ Range(found2) = Range(found) \cup {n}
      /\ At(found2, n) = k + 1
      /\ \A m \in Range(found) : At(found2, m) = At(found, m) /\ At(found, m) \in 1 .. k
  <2>1. found2 \in Seq(rest) /\ FoundNext(found, n, found2)
    BY <1>2, AtExtended
  <2>. QED  BY <1>3, <2>1 DEF FoundNext
<1>5. /\ Rising(found2, work2) /\ Extended(work, n, work2) /\ Len(work) \in Nat
      /\ Rising(found2, stack2) /\ Extended(stack, n, stack2) /\ Len(stack) \in Nat
  BY <1>2, RisingExtended
<1>6. Range(work2) = Range(work) \cup {n} /\ Range(stack2) = Range(stack) \cup {n}
  BY <1>5 DEF Extended
<1>7. PICK w \in Nat : /\ w = Len(work) /\ DOMAIN work = 1 .. w /\ DOMAIN work2 = 1 .. w + 1
                       /\ work2[w + 1] = n
                       /\ \A i \in DOMAIN work : work2[i] = work[i] /\ work[i] \in Range(work)
  BY <1>5 DEF Extended, Range
<1>8. work # <<>> => /\ Last(work) = work[w] /\ w \in DOMAIN work
                     /\ Last(work) \in Range(stack) /\ Last(work) \in Range(found)
  BY <1>2, <1>7
<1>9. /\ left2 \in [DOMAIN links -> SUBSET DOMAIN links]
      /\ \A m \in DOMAIN links : left2[m] \subseteq left[m] /\ left[m] \ left2[m] \subseteq {n}
      /\ \A m \in DOMAIN links \ Range(found) : left2[m] = left[m]
  <2>1. left \in [DOMAIN links -> SUBSET DOMAIN links]
    BY <1>1 DEF Looked
  <2>. QED  BY <1>2, <1>8, <2>1
<1>10. /\ low2 \in [DOMAIN links -> Nat]
       /\ low2[n] = k + 1
       /\ \A m \in DOMAIN links : m # n => low2[m] = low[m]
  <2>1. low \in [DOMAIN links -> Nat]
    BY <1>1 DEF Lows
  <2>. QED  BY <1>2, <1>3, <2>1
<1>11. Listed(rest, found2, work2, stack2)
  BY <1>2, <1>4, <1>5, <1>6 DEF Listed
<1>12. Looked(links, rest, found2, work2, left2)
  <2>1. ASSUME NEW m \in rest
        PROVE  /\ left2[m] \subseteq Successors(links, m)
               /\ Successors(links, m) \ left2[m] \subseteq Range(found2)
               /\ m \notin Range(found2) => left2[m] = Successors(links, m)
               /\ m \in Range(found2) \ Range(work2) => left2[m] = {}
    <3>1. /\ left[m] \subseteq Successors(links, m)
          /\ Successors(links, m) \ left[m] \subseteq Range(found)
          /\ m \notin Range(found) => left[m] = Successors(links, m)
          /\ m \in Range(found) \ Range(work) => left[m] = {}
      BY <1>1 DEF Looked
    <3>2. m \in DOMAIN links
      BY <1>2
    <3>. QED  BY <1>4, <1>6, <1>9, <3>1, <3>2
  <2>. QED  BY <1>9, <2>1 DEF Looked
<1>13. Shut(links, found2, stack2)
  <2>1. Range(found2) \ Range(stack2) = Range(found) \ Range(stack)
    BY <1>4, <1>6
  <2>. QED  BY <1>1, <2>1 DEF Shut
<1>14. Leads(links, found2, work2, stack2)
  <2>. SUFFICES ASSUME NEW i \in DOMAIN work2, NEW m \in Range(stack2),
                       At(found2, work2[i]) <= At(found2, m)
                PROVE  m = work2[i] \/ m \in Downstream(links)[work2[i]]
    BY DEF Leads
  <2>1. CASE i = w + 1
    <3>1. work2[i] = n
      BY <1>7, <2>1
    <3>. QED  BY <1>2, <1>3, <1>4, <1>6, <3>1
  <2>2. CASE i \in DOMAIN work /\ m # n
    <3>1. work2[i] = work[i] /\ work[i] \in Range(found) /\ m \in Range(stack) /\ m \in Range(found)
      BY <1>2, <1>6, <1>7, <2>2
    <3>2. At(found, work[i]) <= At(found, m)
      BY <1>4, <3>1
    <3>. QED  BY <1>1, <2>2, <3>1, <3>2 DEF Leads
  <2>3. CASE i \in DOMAIN work /\ m = n
    <3>1. /\ work # <<>> /\ i <= w /\ Last(work) = work[w] /\ w \in DOMAIN work
          /\ Last(work) \in Range(stack) /\ n \in Successors(links, Last(work))
      <4>1. work # <<>>
        BY <2>3
      <4>. QED  BY <1>7, <1>8, <2>3, <4>1
    <3>2. At(found, work[i]) <= At(found, Last(work))
      <4>1. i = w \/ At(found, work[i]) < At(found, work[w])
        <5>1. i = w \/ i < w
          BY <1>7, <2>3, <3>1
        <5>2. \A p, q \in DOMAIN work : p < q => At(found, work[p]) < At(found, work[q])
          BY <1>2 DEF Rising
        <5>. QED  BY <2>3, <3>1, <5>1, <5>2
      <4>2. At(found, work[i]) \in Nat /\ At(found, work[w]) \in Nat
        BY <1>2, <1>4, <1>7, <2>3, <3>1
      <4>. QED  BY <3>1, <4>1, <4>2
    <3>3. Last(work) = work[i] \/ Last(work) \in Downstream(links)[work[i]]
      BY <1>1, <2>3, <3>1, <3>2 DEF Leads
    <3>4. work[i] \in DOMAIN links /\ Last(work) \in DOMAIN links /\ work2[i] = work[i]
      BY <1>2, <1>7, <2>3, <3>1
    <3>5. n \in Downstream(links)[Last(work)]
      BY <3>1, <3>4, DownByLink
    <3>. QED  BY <2>3, <3>3, <3>4, <3>5, DownOn
  <2>. QED  BY <1>7, <2>1, <2>2, <2>3
<1>15. Lows(links, found2, work2, stack2, low2, left2)
  <2>. SUFFICES ASSUME NEW m \in Range(stack2)
                PROVE  Lowest(links, found2, work2, stack2, low2, left2, m)
    BY <1>10 DEF Lows
  <2>1. CASE m = n
    <3>1. n \in DOMAIN links /\ left2[n] = Successors(links, n)
      BY <1>1, <1>2, <1>9 DEF Looked
    <3>. QED  BY <1>4, <1>6, <1>10, <2>1, <3>1 DEF Lowest
  <2>2. CASE m # n
    <3>1. /\ m \in Range(stack) /\ m \in Range(found) /\ m \in DOMAIN links
          /\ low2[m] = low[m] /\ At(found2, m) = At(found, m) /\ At(found, m) \in 1 .. k
      BY <1>2, <1>4, <1>6, <1>10, <2>2
    <3>2. /\ low[m] <= At(found, m)
          /\ m \notin Range(work) => low[m] < At(found, m)
          /\ \A u \in Successors(links, m) \ left[m] :
                u \in Range(stack) => At(found, m) < At(found, u) \/ low[m] <= At(found, u)
      BY <1>1, <3>1 DEF Lows, Lowest
    <3>3. PICK v \in Range(stack) : At(found, v) = low[m] /\ (v = m \/ v \in Downstream(links)[m])
      BY <1>1, <3>1 DEF Lows, Lowest
    <3>4. v \in Range(stack2) /\ At(found2, v) = low2[m]
      BY <1>2, <1>4, <1>6, <3>1, <3>3
    <3>5. ASSUME NEW u \in Successors(links, m) \ left2[m], u \in Range(stack2)
          PROVE  At(found2, m) < At(found2, u) \/ low2[m] <= At(found2, u)
      <4>1. CASE u = n
        BY <1>3, <1>4, <3>1, <4>1
      <4>2. CASE u # n
        <5>1. u \in Range(stack) /\ u \in Range(found) /\ u \in Successors(links, m) \ left[m]
          BY <1>2, <1>6, <1>9, <3>1, <3>5, <4>2
        <5>. QED  BY <1>4, <3>1, <3>2, <5>1
      <4>. QED  BY <4>1, <4>2
    <3>. QED  BY <1>6, <3>1, <3>2, <3>3, <3>4, <3>5 DEF Lowest
  <2>. QED  BY <2>1, <2>2
<1>16. Under(found2, work2, stack2, low2)
  <2>. SUFFICES ASSUME NEW i \in DOMAIN work2, NEW m \in Range(stack2),
                       At(found2, work2[i]) < At(found2, m),
                       i + 1 \in DOMAIN work2 => At(found2, m) < At(found2, work2[i + 1])
                PROVE  low2[work2[i]] <= low2[m]
    BY DEF Under
  <2>1. i # w + 1
    <3>1. At(found2, m) <= k + 1 /\ At(found2, m) \in Nat
      BY <1>2, <1>3, <1>4, <1>6
    <3>. QED  BY <1>3, <1>4, <1>7, <3>1
  <2>2. i \in DOMAIN work /\ i + 1 \in DOMAIN work2 /\ work2[i] = work[i]
    BY <1>7, <2>1
  <2>3. At(found2, work2[i + 1]) <= k + 1 /\ At(found2, work2[i + 1]) \in Nat
    <3>1. work2[i + 1] \in Range(work2)
      BY <2>2 DEF Range
    <3>. QED  BY <1>2, <1>3, <1>4, <1>6, <3>1
  <2>4. m # n
    BY <1>3, <1>4, <2>2, <2>3
  <2>5. m \in Range(stack) /\ m \in Range(found) /\ work[i] \in Range(found) /\ work[i] # n
    BY <1>2, <1>6, <1>7, <2>2, <2>4
  <2>6. low2[m] = low[m] /\ low2[work[i]] = low[work[i]]
    BY <1>2, <1>10, <2>4, <2>5
  <2>7. At(found, work[i]) < At(found, m)
    BY <1>4, <2>2, <2>5
  <2>8. i + 1 \in DOMAIN work => At(found, m) < At(found, work[i + 1])
    <3>. SUFFICES ASSUME i + 1 \in DOMAIN work PROVE At(found, m) < At(found, work[i + 1])
      OBVIOUS
    <3>1. work2[i + 1] = work[i + 1] /\ work[i + 1] \in Range(found)
      BY <1>2, <1>7
    <3>. QED  BY <1>4, <2>2, <2>5, <3>1
  <2>. QED  BY <1>1, <2>2, <2>5, <2>6, <2>7, <2>8 DEF Under
<1>17. \A c \in components : \E m \in rest : c = KnotOf(links, m)
  BY <1>1
<1>. QED  BY <1>11, <1>12, <1>13, <1>14, <1>15, <1>16, <1>17, Zenon DEF Parting

\* The last visit looks at an object that was found before.
LEMMA LooksAtOne ==
    ASSUME NEW links, NEW rest, NoneBack(links, rest),
           NEW found, NEW work, NEW stack, NEW low, NEW left, NEW components,
           Parting(links, rest, found, work, stack, low, left, components),
           work # <<>>, NEW top, top = Last(work),
           NEW n \in left[top], n \in Range(found),
           NEW left2, left2 = [left EXCEPT ![top] = left[top] \ {n}],
           NEW low2, low2 = IF n \in Range(stack)
                            THEN [low EXCEPT ![top] = Lower(low[top], At(found, n))] ELSE low
    PROVE  Parting(links, rest, found, work, stack, low2, left2, components)
<1>1. /\ Listed(rest, found, work, stack)
      /\ Looked(links, rest, found, work, left)
      /\ Shut(links, found, stack)
      /\ Leads(links, found, work, stack)
      /\ Lows(links, found, work, stack, low, left)
      /\ Under(found, work, stack, low)
      /\ \A c \in components : \E m \in rest : c = KnotOf(links, m)
  BY DEF Parting
<1>2. InLists(links, rest, found, work, stack)
  BY <1>1, ListsAre
<1>3. PICK w \in Nat :
         /\ w = Len(work) /\ w \in DOMAIN work /\ DOMAIN work = 1 .. w /\ work[w] = top
         /\ top \in Range(work) /\ top \in Range(stack) /\ top \in Range(found)
         /\ top \in rest /\ top \in DOMAIN links
  BY <1>2 DEF InLists
<1>4. /\ n \in Successors(links, top) /\ At(found, n) \in Nat
      /\ left2 \in [DOMAIN links -> SUBSET DOMAIN links]
      /\ left2[top] = left[top] \ {n}
      /\ \A m \in DOMAIN links : m # top => left2[m] = left[m]
  BY <1>1, <1>2, <1>3 DEF Looked, InLists
<1>5. /\ low2 \in [DOMAIN links -> Nat] /\ low \in [DOMAIN links -> Nat]
      /\ low2[top] <= low[top]
      /\ n \in Range(stack) => low2[top] <= At(found, n)
      /\ low2[top] = low[top] \/ (n \in Range(stack) /\ low2[top] = At(found, n))
      /\ \A m \in DOMAIN links : m # top => low2[m] = low[m]
  <2>1. low \in [DOMAIN links -> Nat]
    BY <1>1 DEF Lows
  <2>2. CASE n \in Range(stack)
    <3>1. PICK less \in Nat : /\ less = Lower(low[top], At(found, n))
                              /\ less <= low[top] /\ less <= At(found, n)
                              /\ less = low[top] \/ less = At(found, n)
      BY <1>3, <1>4, <2>1 DEF Lower
    <3>2. low2 = [low EXCEPT ![top] = less]
      BY <2>2, <3>1
    <3>. QED  BY <1>3, <2>1, <2>2, <3>1, <3>2
  <2>3. CASE n \notin Range(stack)
    BY <1>3, <2>1, <2>3
  <2>. QED  BY <2>2, <2>3
<1>6. Looked(links, rest, found, work, left2)
  <2>1. ASSUME NEW m \in rest
        PROVE  /\ left2[m] \subseteq Successors(links, m)
               /\ Successors(links, m) \ left2[m] \subseteq Range(found)
               /\ m \notin Range(found) => left2[m] = Successors(links, m)
               /\ m \in Range(found) \ Range(work) => left2[m] = {}
    <3>1. /\ left[m] \subseteq Successors(links, m)
          /\ Successors(links, m) \ left[m] \subseteq Range(found)
          /\ m \notin Range(found) => left[m] = Successors(links, m)
          /\ m \in Range(found) \ Range(work) => left[m] = {}
          /\ m \in DOMAIN links
      BY <1>1, <1>2 DEF Looked, InLists
    <3>. QED  BY <1>3, <1>4, <3>1
  <2>. QED  BY <1>4, <2>1 DEF Looked
<1>7. Lows(links, found, work, stack, low2, left2)
  <2>. SUFFICES ASSUME NEW m \in Range(stack)
                PROVE  Lowest(links, found, work, stack, low2, left2, m)
    BY <1>5 DEF Lows
  <2>1. /\ low[m] <= At(found, m)
        /\ m \notin Range(work) => low[m] < At(found, m)
        /\ \A u \in Successors(links, m) \ left[m] :
              u \in Range(stack) => At(found, m) < At(found, u) \/ low[m] <= At(found, u)
    BY <1>1 DEF Lows, Lowest
  <2>2. PICK v \in Range(stack) : At(found, v) = low[m] /\ (v = m \/ v \in Downstream(links)[m])
    BY <1>1 DEF Lows, Lowest
  <2>3. m \in DOMAIN links /\ At(found, m) \in Nat /\ low[m] \in Nat /\ low2[m] \in Nat
    BY <1>2, <1>5 DEF InLists
  <2>4. CASE m # top
    <3>1. low2[m] = low[m] /\ left2[m] = left[m]
      BY <1>4, <1>5, <2>3, <2>4
    <3>. QED  BY <2>1, <2>2, <3>1 DEF Lowest
  <2>5. CASE m = top
    <3>1. low2[m] <= At(found, m)
      BY <1>5, <2>1, <2>3, <2>5
    <3>2. \E x \in Range(stack) : At(found, x) = low2[m] /\ (x = m \/ x \in Downstream(links)[m])
      <4>1. n \in Downstream(links)[top]
        BY <1>3, <1>4, DownByLink
      <4>. QED  BY <1>5, <2>2, <2>5, <4>1
    <3>3. ASSUME NEW u \in Successors(links, m) \ left2[m], u \in Range(stack)
          PROVE  At(found, m) < At(found, u) \/ low2[m] <= At(found, u)
      <4>1. CASE u = n
        BY <1>5, <2>5, <3>3, <4>1
      <4>2. CASE u # n
        <5>1. u \in Successors(links, m) \ left[m] /\ At(found, u) \in Nat
          BY <1>2, <1>4, <2>5, <3>3, <4>2 DEF InLists
        <5>. QED  BY <1>5, <2>1, <2>3, <2>5, <3>3, <5>1
      <4>. QED  BY <4>1, <4>2
    <3>. QED  BY <1>3, <2>5, <3>1, <3>2, <3>3 DEF Lowest
  <2>. QED  BY <2>4, <2>5
<1>8. Under(found, work, stack, low2)
  <2>. SUFFICES ASSUME NEW i \in DOMAIN work, NEW m \in Range(stack),
                       At(found, work[i]) < At(found, m),
                       i + 1 \in DOMAIN work => At(found, m) < At(found, work[i + 1])
                PROVE  low2[work[i]] <= low2[m]
    BY DEF Under
  <2>1. /\ m \in DOMAIN links /\ work[i] \in DOMAIN links
        /\ At(found, m) \in Nat /\ At(found, work[i]) \in Nat
    BY <1>2 DEF InLists
  <2>2. low[work[i]] <= low[m]
    BY <1>1 DEF Under
  <2>3. m # top
    <3>. SUFFICES ASSUME m = top PROVE FALSE
      OBVIOUS
    <3>1. i # w /\ i < w /\ i + 1 \in DOMAIN work
      BY <1>3, <2>1
    <3>2. At(found, top) < At(found, work[i + 1]) /\ At(found, work[i + 1]) \in Nat
      BY <1>2, <3>1 DEF InLists
    <3>3. i + 1 = w \/ At(found, work[i + 1]) < At(found, work[w])
      <4>1. Rising(found, work)
        BY <1>2 DEF InLists
      <4>. QED  BY <1>3, <3>1, <4>1 DEF Rising
    <3>. QED  BY <1>3, <2>1, <3>2, <3>3
  <2>4. low2[m] = low[m] /\ low2[work[i]] <= low[work[i]]
    <3>1. low2[work[i]] <= low[work[i]]
      BY <1>5, <2>1
    <3>. QED  BY <1>5, <2>1, <2>3, <3>1
  <2>. QED  BY <1>5, <2>1, <2>2, <2>4
<1>9. \A c \in components : \E m \in rest : c = KnotOf(links, m)
  BY <1>1
<1>. QED  BY <1>1, <1>6, <1>7, <1>8, <1>9, Zenon DEF Parting

\* What becomes of the visits when the last is over.
VisitEnds(found, work, top, less) ==
    /\ Rising(found, less)
    /\ top \in Range(work)
    /\ Range(less) = Range(work) \ {top}
    /\ Len(work) \in Nat \ {0} /\ DOMAIN work = 1 .. Len(work)
    /\ work[Len(work)] = top
    /\ DOMAIN less = 1 .. Len(work) - 1
    /\ \A i \in DOMAIN less : less[i] = work[i] /\ At(found, work[i]) < At(found, top)
    /\ less # <<>> => /\ Len(work) - 1 \in DOMAIN less
                      /\ Last(less) = work[Len(work) - 1]
                      /\ Last(less) \in Range(less)

LEMMA VisitEndsSo ==
    ASSUME NEW found, NEW work, Rising(found, work), work # <<>>,
           NEW top, top = Last(work), NEW less, less = Front(work)
    PROVE  VisitEnds(found, work, top, less)
<1>1. PICK S : S = Range(found)
  OBVIOUS
<1>2. work \in Seq(S) /\ NoneTwice(work)
  BY <1>1 DEF Rising
<1>3. less \in Seq(S) /\ Shortened(work, top, less)
  BY <1>2, ListShortened
<1>4. PICK w \in Nat \ {0} : w = Len(work) /\ DOMAIN work = 1 .. w /\ DOMAIN less = 1 .. w - 1
                             /\ Len(less) = w - 1
  BY <1>3 DEF Shortened
<1>5. /\ NoneTwice(less) /\ top = work[w] /\ \A i \in DOMAIN less : less[i] = work[i]
      /\ Range(less) = Range(work) \ {top} /\ top \in Range(work)
  BY <1>3, <1>4 DEF Shortened
<1>6. \A i, j \in DOMAIN work : i < j => At(found, work[i]) < At(found, work[j])
  BY DEF Rising
<1>7. \A i \in DOMAIN less : At(found, work[i]) < At(found, top)
  BY <1>4, <1>5, <1>6
<1>8. Rising(found, less)
  <2>1. \A i, j \in DOMAIN less : i < j => At(found, less[i]) < At(found, less[j])
    BY <1>4, <1>5, <1>6
  <2>. QED  BY <1>1, <1>3, <1>5, <2>1 DEF Rising
<1>9. ASSUME less # <<>>
      PROVE  w - 1 \in DOMAIN less /\ Last(less) = work[w - 1] /\ Last(less) \in Range(less)
  <2>1. w - 1 # 0
    <3>1. Len(less) # 0
      BY <1>3, <1>9
    <3>. QED  BY <1>4, <3>1
  <2>2. w - 1 \in DOMAIN less
    BY <1>4, <2>1
  <2>3. Last(less) = less[w - 1]
    BY <1>4 DEF Last
  <2>. QED  BY <1>5, <2>2, <2>3 DEF Range
<1>. QED  BY <1>4, <1>5, <1>7, <1>8, <1>9 DEF VisitEnds

\* What was found since, and is on the stack.
Since(found, stack, top) == {n \in Range(stack) : At(found, top) <= At(found, n)}

Cut(list, place, lower, upper) ==
    lower = SubSeq(list, 1, place - 1) /\ upper = SubSeq(list, place, Len(list))

LEMMA StackSplits ==
    ASSUME NEW rest, NEW found \in Seq(rest), NoneTwice(found), NEW stack, Rising(found, stack),
           NEW top \in Range(stack), NEW place \in DOMAIN stack, stack[place] = top,
           NEW lower, NEW upper, Cut(stack, place, lower, upper)
    PROVE  /\ Rising(found, lower)
           /\ Range(lower) = Range(stack) \ Since(found, stack, top)
           /\ Range(upper) = Since(found, stack, top)
<1>. USE DEF Cut
<1>1. PICK S : S = Range(found)
  OBVIOUS
<1>2. stack \in Seq(S) /\ NoneTwice(stack)
  BY <1>1 DEF Rising
<1>3. PICK k \in Nat : k = Len(stack) /\ DOMAIN stack = 1 .. k
  BY <1>2
<1>4. place \in 1 .. k /\ stack[place] = top
  BY <1>3
<1>5. /\ lower \in Seq(S) /\ DOMAIN lower = 1 .. place - 1
      /\ \A i \in 1 .. place - 1 : lower[i] = stack[i]
  BY <1>2, <1>3, <1>4
<1>6. /\ DOMAIN upper = 1 .. k - place + 1
      /\ \A i \in 1 .. k - place + 1 : upper[i] = stack[place + i - 1]
  BY <1>2, <1>3, <1>4
<1>7. /\ \A i, j \in 1 .. k : i < j => At(found, stack[i]) < At(found, stack[j])
      /\ \A i \in 1 .. k : stack[i] \in Range(stack) /\ At(found, stack[i]) \in Nat
  <2>1. \A i \in 1 .. k : stack[i] \in S
    BY <1>2, <1>3
  <2>2. \A i \in 1 .. k : stack[i] \in Range(stack)
    BY <1>3 DEF Range
  <2>3. \A n \in S : At(found, n) \in Nat
    BY <1>1, AtNumber
  <2>. QED  BY <1>3, <2>1, <2>2, <2>3 DEF Rising
<1>8. ASSUME NEW i \in 1 .. k
      PROVE  stack[i] \in Since(found, stack, top) <=> place <= i
  <2>1. stack[i] \in Range(stack) /\ At(found, stack[i]) \in Nat /\ At(found, top) \in Nat
    BY <1>4, <1>7
  <2>2. CASE i < place
    <3>1. At(found, stack[i]) < At(found, top)
      BY <1>4, <1>7, <2>2
    <3>2. ~(At(found, top) <= At(found, stack[i])) /\ ~(place <= i)
      BY <1>4, <2>1, <2>2, <3>1
    <3>. QED  BY <3>2 DEF Since
  <2>3. CASE place <= i
    <3>1. i = place \/ place < i
      BY <1>4, <2>3
    <3>2. stack[i] = top \/ At(found, top) < At(found, stack[i])
      BY <1>4, <1>7, <3>1
    <3>3. At(found, top) <= At(found, stack[i])
      BY <2>1, <3>2
    <3>. QED  BY <2>1, <2>3, <3>3 DEF Since
  <2>. QED  BY <1>4, <2>2, <2>3
<1>9. \A n \in Range(stack) : \E i \in 1 .. k : n = stack[i]
  BY <1>3 DEF Range
<1>10. Range(lower) = Range(stack) \ Since(found, stack, top)
  <2>1. ASSUME NEW n \in Range(lower) PROVE n \in Range(stack) \ Since(found, stack, top)
    <3>1. PICK i \in 1 .. place - 1 : n = stack[i]
      BY <1>5 DEF Range
    <3>2. i \in 1 .. k /\ ~(place <= i)
      BY <1>4
    <3>. QED  BY <1>7, <1>8, <3>1, <3>2
  <2>2. ASSUME NEW n \in Range(stack) \ Since(found, stack, top) PROVE n \in Range(lower)
    <3>1. PICK i \in 1 .. k : n = stack[i] /\ ~(place <= i)
      BY <1>8, <1>9
    <3>2. i \in 1 .. place - 1
      BY <1>4, <3>1
    <3>. QED  BY <1>5, <3>1, <3>2 DEF Range
  <2>. QED  BY <2>1, <2>2
<1>11. Range(upper) = Since(found, stack, top)
  <2>1. ASSUME NEW n \in Range(upper) PROVE n \in Since(found, stack, top)
    <3>1. PICK i \in 1 .. k - place + 1 : n = stack[place + i - 1]
      <4>1. PICK i \in DOMAIN upper : n = upper[i]
        BY DEF Range
      <4>2. i \in 1 .. k - place + 1
        BY <1>6, <4>1
      <4>. QED  BY <1>6, <4>1, <4>2
    <3>2. place + i - 1 \in 1 .. k /\ place <= place + i - 1
      BY <1>4
    <3>. QED  BY <1>8, <3>1, <3>2
  <2>2. ASSUME NEW n \in Since(found, stack, top) PROVE n \in Range(upper)
    <3>1. n \in Range(stack)
      BY DEF Since
    <3>2. PICK i \in 1 .. k : n = stack[i] /\ place <= i
      BY <1>8, <1>9, <3>1
    <3>3. PICK j : j = i - place + 1
      OBVIOUS
    <3>4. j \in 1 .. k - place + 1 /\ place + j - 1 = i
      BY <1>4, <3>2, <3>3
    <3>5. upper[j] = n /\ j \in DOMAIN upper
      BY <1>6, <3>2, <3>4
    <3>. QED  BY <3>5 DEF Range
  <2>. QED  BY <2>1, <2>2
<1>12. Rising(found, lower)
  <2>1. NoneTwice(lower)
    BY <1>2, <1>3, <1>4, <1>5 DEF NoneTwice
  <2>2. ASSUME NEW i \in DOMAIN lower, NEW j \in DOMAIN lower, i < j
        PROVE  At(found, lower[i]) < At(found, lower[j])
    <3>1. i \in 1 .. k /\ j \in 1 .. k /\ lower[i] = stack[i] /\ lower[j] = stack[j]
      BY <1>4, <1>5
    <3>. QED  BY <1>7, <2>2, <3>1
  <2>. QED  BY <1>1, <1>5, <2>1, <2>2 DEF Rising
<1>. QED  BY <1>10, <1>11, <1>12

\* A visit that leads lower than itself: its object stays on the stack.
LEMMA EndsOnStack ==
    ASSUME NEW links, NEW rest, NoneBack(links, rest),
           NEW found, NEW work, NEW stack, NEW low, NEW left, NEW components,
           Parting(links, rest, found, work, stack, low, left, components),
           work # <<>>, NEW top, top = Last(work), left[top] = {}, low[top] # At(found, top),
           NEW less, less = Front(work),
           NEW low2, low2 = IF less = <<>> THEN low
                            ELSE [low EXCEPT ![Last(less)] = Lower(low[Last(less)], low[top])]
    PROVE  Parting(links, rest, found, less, stack, low2, left, components)
<1>1. /\ Listed(rest, found, work, stack)
      /\ Looked(links, rest, found, work, left)
      /\ Shut(links, found, stack)
      /\ Leads(links, found, work, stack)
      /\ Lows(links, found, work, stack, low, left)
      /\ Under(found, work, stack, low)
      /\ \A c \in components : \E m \in rest : c = KnotOf(links, m)
  BY DEF Parting
<1>2. /\ found \in Seq(rest) /\ NoneTwice(found)
      /\ Rising(found, work) /\ Rising(found, stack)
      /\ Range(work) \subseteq Range(stack) /\ Range(stack) \subseteq Range(found)
      /\ Range(found) \subseteq rest /\ rest \subseteq DOMAIN links
      /\ \A n \in Range(found) : At(found, n) \in Nat
      /\ \A i \in DOMAIN work : work[i] \in Range(work)
  BY <1>1, ListsAre DEF InLists
<1>3. VisitEnds(found, work, top, less)
  BY <1>2, VisitEndsSo
<1>4. PICK w \in Nat \ {0} : /\ w = Len(work) /\ DOMAIN work = 1 .. w /\ DOMAIN less = 1 .. w - 1
                             /\ work[w] = top
  BY <1>3 DEF VisitEnds
<1>5. /\ Rising(found, less)
      /\ top \in Range(work) /\ Range(less) = Range(work) \ {top}
      /\ \A i \in DOMAIN less : less[i] = work[i] /\ At(found, work[i]) < At(found, top)
      /\ less # <<>> => /\ w - 1 \in DOMAIN less
                        /\ Last(less) = work[w - 1]
                        /\ Last(less) \in Range(less)
  BY <1>3, <1>4 DEF VisitEnds
<1>6. top \in Range(stack) /\ top \in Range(found) /\ top \in rest /\ top \in DOMAIN links
  BY <1>2, <1>5
<1>7. low \in [DOMAIN links -> Nat] /\ low[top] < At(found, top)
  <2>1. low[top] <= At(found, top) /\ low \in [DOMAIN links -> Nat]
    BY <1>1, <1>6 DEF Lows, Lowest
  <2>. QED  BY <1>2, <1>6, <2>1
<1>8. /\ low2 \in [DOMAIN links -> Nat]
      /\ \A n \in DOMAIN links : low2[n] <= low[n]
      /\ \A n \in DOMAIN links : less = <<>> \/ n # Last(less) => low2[n] = low[n]
      /\ less # <<>> => /\ low2[Last(less)] <= low[top]
                        /\ low2[Last(less)] \in {low[Last(less)], low[top]}
  <2>1. CASE less = <<>>
    BY <1>7, <2>1
  <2>2. CASE less # <<>>
    <3>1. PICK last : last = Last(less) /\ last \in DOMAIN links
      BY <1>2, <1>5, <2>2
    <3>2. PICK lower \in Nat : /\ lower = Lower(low[last], low[top])
                               /\ lower <= low[last] /\ lower <= low[top]
                               /\ lower \in {low[last], low[top]}
      BY <1>6, <1>7, <3>1 DEF Lower
    <3>3. low2 = [low EXCEPT ![last] = lower]
      BY <2>2, <3>1, <3>2
    <3>. QED  BY <1>7, <2>2, <3>1, <3>2, <3>3
  <2>. QED  BY <2>1, <2>2
<1>9. Listed(rest, found, less, stack)
  BY <1>2, <1>5 DEF Listed
<1>10. Looked(links, rest, found, less, left)
  <2>1. ASSUME NEW n \in rest
        PROVE  /\ left[n] \subseteq Successors(links, n)
               /\ Successors(links, n) \ left[n] \subseteq Range(found)
               /\ n \notin Range(found) => left[n] = Successors(links, n)
               /\ n \in Range(found) \ Range(less) => left[n] = {}
    BY <1>1, <1>5 DEF Looked
  <2>. QED  BY <1>1, <2>1 DEF Looked
<1>11. Leads(links, found, less, stack)
  BY <1>1, <1>4, <1>5 DEF Leads
<1>12. Lows(links, found, less, stack, low2, left)
  <2>. SUFFICES ASSUME NEW n \in Range(stack)
                PROVE  Lowest(links, found, less, stack, low2, left, n)
    BY <1>8 DEF Lows
  <2>1. /\ low[n] <= At(found, n)
        /\ n \notin Range(work) => low[n] < At(found, n)
        /\ \A u \in Successors(links, n) \ left[n] :
              u \in Range(stack) => At(found, n) < At(found, u) \/ low[n] <= At(found, u)
    BY <1>1 DEF Lows, Lowest
  <2>2. PICK v \in Range(stack) : At(found, v) = low[n] /\ (v = n \/ v \in Downstream(links)[n])
    BY <1>1 DEF Lows, Lowest
  <2>3. /\ n \in DOMAIN links /\ At(found, n) \in Nat /\ low[n] \in Nat /\ low2[n] \in Nat
        /\ low2[n] <= low[n]
    BY <1>2, <1>7, <1>8
  <2>4. low2[n] <= At(found, n)
    BY <2>1, <2>3
  <2>5. n \notin Range(less) => low2[n] < At(found, n)
    BY <1>5, <1>7, <2>1, <2>3
  <2>6. ASSUME NEW u \in Successors(links, n) \ left[n], u \in Range(stack)
        PROVE  At(found, n) < At(found, u) \/ low2[n] <= At(found, u)
    <3>1. At(found, u) \in Nat
      BY <1>2, <2>6
    <3>. QED  BY <2>1, <2>3, <2>6, <3>1
  <2>7. \E m \in Range(stack) : At(found, m) = low2[n] /\ (m = n \/ m \in Downstream(links)[n])
    <3>1. CASE low2[n] = low[n]
      BY <2>2, <3>1
    <3>2. CASE low2[n] # low[n]
      <4>1. less # <<>> /\ n = Last(less) /\ low2[n] = low[top]
        BY <1>8, <2>3, <3>2
      <4>2. PICK m \in Range(stack) :
               At(found, m) = low[top] /\ (m = top \/ m \in Downstream(links)[top])
        BY <1>1, <1>6 DEF Lows, Lowest
      <4>3. top \in Downstream(links)[n]
        <5>1. w - 1 \in DOMAIN work /\ work[w - 1] = n /\ At(found, n) < At(found, top)
          BY <1>4, <1>5, <4>1
        <5>2. top # n
          BY <1>2, <1>6, <5>1
        <5>. QED  BY <1>1, <1>2, <1>6, <2>3, <5>1, <5>2 DEF Leads
      <4>4. m \in Downstream(links)[n]
        BY <2>3, <4>2, <4>3, DownOn
      <4>. QED  BY <4>1, <4>2, <4>4
    <3>. QED  BY <3>1, <3>2
  <2>. QED  BY <2>4, <2>5, <2>6, <2>7 DEF Lowest
<1>13. Under(found, less, stack, low2)
  <2>. SUFFICES ASSUME NEW i \in DOMAIN less, NEW n \in Range(stack),
                       At(found, less[i]) < At(found, n),
                       i + 1 \in DOMAIN less => At(found, n) < At(found, less[i + 1])
                PROVE  low2[less[i]] <= low2[n]
    BY DEF Under
  <2>1. /\ less[i] = work[i] /\ i \in DOMAIN work /\ i + 1 \in DOMAIN work
        /\ At(found, work[i]) < At(found, top)
    BY <1>4, <1>5
  <2>2. /\ n \in DOMAIN links /\ work[i] \in DOMAIN links /\ At(found, n) \in Nat
        /\ At(found, work[i]) \in Nat /\ At(found, top) \in Nat
    BY <1>2, <1>6, <2>1
  <2>3. less # <<>>
    BY <1>4
  <2>4. CASE i = w - 1
    <3>1. work[i] = Last(less) /\ work[i + 1] = top
      BY <1>4, <1>5, <2>3, <2>4
    <3>2. n # Last(less)
      BY <2>1, <2>2, <3>1
    <3>3. low2[n] = low[n] /\ low2[work[i]] <= low[work[i]] /\ low2[work[i]] <= low[top]
      BY <1>8, <2>2, <2>3, <3>1, <3>2
    <3>4. low[work[i]] <= low[n] \/ low[top] <= low[n]
      <4>1. CASE At(found, n) < At(found, top)
        BY <1>1, <2>1, <3>1, <4>1 DEF Under
      <4>2. CASE At(found, top) < At(found, n)
        <5>1. w \in DOMAIN work /\ w + 1 \notin DOMAIN work
          BY <1>4
        <5>. QED  BY <1>1, <1>4, <4>2, <5>1 DEF Under
      <4>3. CASE At(found, top) = At(found, n)
        <5>1. n = top
          BY <1>2, <1>6, <4>3, AtApart
        <5>. QED  BY <1>6, <1>7, <5>1
      <4>. QED  BY <2>2, <4>1, <4>2, <4>3
    <3>5. /\ low[n] \in Nat /\ low[top] \in Nat /\ low[work[i]] \in Nat /\ low2[work[i]] \in Nat
      BY <1>6, <1>7, <1>8, <2>2
    <3>. QED  BY <2>1, <3>3, <3>4, <3>5
  <2>5. CASE i # w - 1
    <3>1. i + 1 \in DOMAIN less /\ less[i + 1] = work[i + 1] /\ w - 1 \in DOMAIN work
      BY <1>4, <1>5, <2>5
    <3>2. At(found, n) < At(found, work[i + 1])
      BY <3>1
    <3>3. low[work[i]] <= low[n]
      BY <1>1, <2>1, <3>2 DEF Under
    <3>4. n # Last(less)
      <4>1. i + 1 = w - 1 \/ At(found, work[i + 1]) < At(found, work[w - 1])
        <5>1. i + 1 = w - 1 \/ i + 1 < w - 1
          BY <1>4, <3>1
        <5>2. \A k, j \in DOMAIN work : k < j => At(found, work[k]) < At(found, work[j])
          BY <1>2 DEF Rising
        <5>. QED  BY <2>1, <3>1, <5>1, <5>2
      <4>2. At(found, work[i + 1]) \in Nat /\ At(found, work[w - 1]) \in Nat
        BY <1>2, <2>1, <3>1
      <4>. QED  BY <1>5, <2>2, <2>3, <3>2, <4>1, <4>2
    <3>5. low2[n] = low[n] /\ low2[work[i]] <= low[work[i]]
      BY <1>8, <2>2, <3>4
    <3>6. low[n] \in Nat /\ low[work[i]] \in Nat /\ low2[work[i]] \in Nat
      BY <1>7, <1>8, <2>2
    <3>. QED  BY <2>1, <3>3, <3>5, <3>6
  <2>. QED  BY <2>4, <2>5
<1>14. \A c \in components : \E m \in rest : c = KnotOf(links, m)
  BY <1>1
<1>. QED  BY <1>1, <1>9, <1>10, <1>11, <1>12, <1>13, <1>14, Zenon DEF Parting

\* What was found since an open visit that leads no lower than itself leads to
\* nothing lower, and to the visit.
LEMMA LeadsNoLower ==
    ASSUME NEW links, NEW rest, NoneBack(links, rest),
           NEW found, NEW work, NEW stack, NEW low, NEW left, NEW components,
           Parting(links, rest, found, work, stack, low, left, components),
           work # <<>>, NEW top, top = Last(work), left[top] = {}, low[top] = At(found, top),
           NEW since, since = Since(found, stack, top)
    PROVE  /\ top \in since /\ since \subseteq Range(stack)
           /\ \A n \in since : low[top] <= low[n] /\ left[n] = {}
           /\ \A n \in since : n = top \/ n \in Downstream(links)[top]
           /\ \A n \in since : n = top \/ top \in Downstream(links)[n]
           /\ \A n \in since :
                 Successors(links, n) \subseteq Range(found) \ (Range(stack) \ since)
<1>1. /\ Listed(rest, found, work, stack)
      /\ Looked(links, rest, found, work, left)
      /\ Shut(links, found, stack)
      /\ Leads(links, found, work, stack)
      /\ Lows(links, found, work, stack, low, left)
      /\ Under(found, work, stack, low)
  BY DEF Parting
<1>2. /\ found \in Seq(rest) /\ NoneTwice(found) /\ Rising(found, work)
      /\ Range(work) \subseteq Range(stack) /\ Range(stack) \subseteq Range(found)
      /\ Range(found) \subseteq rest /\ rest \subseteq DOMAIN links
      /\ \A n \in Range(found) : At(found, n) \in Nat
  BY <1>1, ListsAre DEF InLists
<1>3. PICK less : less = Front(work)
  OBVIOUS
<1>4. VisitEnds(found, work, top, less)
  BY <1>2, <1>3, VisitEndsSo
<1>5. PICK w \in Nat \ {0} : /\ w = Len(work) /\ DOMAIN work = 1 .. w /\ DOMAIN less = 1 .. w - 1
                             /\ work[w] = top
  BY <1>4 DEF VisitEnds
<1>6. top \in Range(stack) /\ top \in Range(found) /\ top \in DOMAIN links
  BY <1>2, <1>4 DEF VisitEnds
<1>7. low \in [DOMAIN links -> Nat]
  BY <1>1 DEF Lows
<1>8. /\ since \subseteq Range(stack) /\ since \subseteq Range(found) /\ since \subseteq DOMAIN links
      /\ \A n \in since : At(found, top) <= At(found, n) /\ At(found, n) \in Nat
      /\ \A n \in Range(stack) \ since : At(found, n) < At(found, top)
      /\ top \in since
  BY <1>2, <1>6 DEF Since
<1>9. ASSUME NEW n \in since, n # top
      PROVE  /\ At(found, top) < At(found, n)
             /\ n \notin Range(work)
             /\ low[top] <= low[n]
             /\ n \in Downstream(links)[top]
  <2>1. At(found, top) < At(found, n)
    <3>1. At(found, top) # At(found, n)
      BY <1>2, <1>6, <1>8, <1>9, AtApart
    <3>. QED  BY <1>2, <1>6, <1>8, <3>1
  <2>2. n \notin Range(work)
    <3>. SUFFICES ASSUME n \in Range(work) PROVE FALSE
      OBVIOUS
    <3>1. PICK i \in DOMAIN work : n = work[i]
      BY DEF Range
    <3>2. i \in DOMAIN less
      BY <1>5, <1>9, <3>1
    <3>3. At(found, n) < At(found, top)
      BY <1>4, <3>1, <3>2 DEF VisitEnds
    <3>. QED  BY <1>2, <1>6, <1>8, <2>1, <3>3
  <2>3. low[top] <= low[n]
    <3>1. w \in DOMAIN work /\ w + 1 \notin DOMAIN work
      BY <1>5
    <3>. QED  BY <1>1, <1>5, <1>8, <2>1, <3>1 DEF Under
  <2>4. n \in Downstream(links)[top]
    <3>1. w \in DOMAIN work
      BY <1>5
    <3>. QED  BY <1>1, <1>5, <1>8, <1>9, <3>1 DEF Leads
  <2>. QED  BY <2>1, <2>2, <2>3, <2>4
<1>10. \A n \in since : low[top] <= low[n] /\ left[n] = {}
  <2>1. ASSUME NEW n \in since PROVE low[top] <= low[n]
    BY <1>6, <1>7, <1>9
  <2>2. ASSUME NEW n \in since, n # top PROVE left[n] = {}
    <3>1. n \in Range(found) \ Range(work) /\ n \in rest
      BY <1>2, <1>8, <1>9, <2>2
    <3>. QED  BY <1>1, <3>1 DEF Looked
  <2>. QED  BY <2>1, <2>2
<1>11. ASSUME NEW n \in since, NEW u \in Successors(links, n)
       PROVE  u \in Range(found) \ (Range(stack) \ since)
  <2>1. u \in Range(found)
    BY <1>1, <1>2, <1>8, <1>10 DEF Looked
  <2>. SUFFICES ASSUME u \in Range(stack), u \notin since PROVE FALSE
    BY <2>1
  <2>2. At(found, u) < At(found, top) /\ At(found, u) \in Nat
    BY <1>2, <1>8, <2>1
  <2>3. u \notin left[n]
    BY <1>10
  <2>4. At(found, n) < At(found, u) \/ low[n] <= At(found, u)
    BY <1>1, <1>8, <2>3 DEF Lows, Lowest
  <2>5. low[n] \in Nat /\ At(found, n) \in Nat /\ At(found, top) \in Nat
    BY <1>2, <1>6, <1>7, <1>8
  <2>. QED  BY <1>8, <1>10, <2>2, <2>4, <2>5
<1>12. ASSUME NEW n \in since PROVE n = top \/ top \in Downstream(links)[n]
  <2>. DEFINE Bad == {k \in Nat : \E m \in since : /\ At(found, m) = k
                                                   /\ m # top /\ top \notin Downstream(links)[m]}
              Good == {k \in Nat : \A j \in 0 .. k : j \notin Bad}
  <2>1. ASSUME NEW k \in Nat, \A j \in Nat : j < k => j \notin Bad PROVE k \notin Bad
    <3>. SUFFICES ASSUME NEW m \in since, At(found, m) = k, m # top, top \notin Downstream(links)[m]
                  PROVE  FALSE
      OBVIOUS
    <3>1. low[m] < At(found, m)
      BY <1>1, <1>8, <1>9 DEF Lows, Lowest
    <3>2. PICK v \in Range(stack) : At(found, v) = low[m] /\ (v = m \/ v \in Downstream(links)[m])
      BY <1>1, <1>8 DEF Lows, Lowest
    <3>3. v \in since
      <4>1. At(found, top) <= At(found, v)
        BY <1>10, <3>2
      <4>. QED  BY <3>2, <4>1 DEF Since
    <3>4. v # m /\ v \in Downstream(links)[m]
      BY <1>8, <3>1, <3>2
    <3>5. v # top /\ top \notin Downstream(links)[v]
      BY <1>8, <3>3, <3>4, DownOn
    <3>6. At(found, v) \in Bad /\ At(found, v) \in Nat /\ At(found, v) < k
      BY <1>8, <3>1, <3>2, <3>3, <3>5
    <3>. QED  BY <2>1, <3>6
  <2>. HIDE DEF Bad
  <2>2. 0 \in Good
    <3>1. 0 \notin Bad
      BY <2>1
    <3>. QED  BY <3>1
  <2>3. ASSUME NEW k \in Nat, k \in Good PROVE k + 1 \in Good
    <3>1. \A j \in Nat : j < k + 1 => j \notin Bad
      BY <2>3
    <3>2. k + 1 \notin Bad
      BY <2>1, <3>1
    <3>. QED  BY <3>1, <3>2
  <2>4. \A k \in Nat : k \in Good
    <3>. HIDE DEF Good
    <3>. QED  BY <2>2, <2>3, NatsAll
  <2>5. \A k \in Nat : k \notin Bad
    BY <2>4
  <2>6. At(found, n) \in Nat
    BY <1>8
  <2>. QED  BY <2>5, <2>6 DEF Bad
<1>. QED  BY <1>8, <1>9, <1>10, <1>11, <1>12

\* Such a component is a knot.
LEMMA ComponentIsKnot ==
    ASSUME NEW links, NEW found, NEW stack, NEW top, NEW since,
           Range(found) \subseteq DOMAIN links, Range(stack) \subseteq Range(found),
           Shut(links, found, stack),
           top \in since, since \subseteq Range(stack),
           \A n \in since : n = top \/ n \in Downstream(links)[top],
           \A n \in since : n = top \/ top \in Downstream(links)[n],
           \A n \in since : Successors(links, n) \subseteq Range(found) \ (Range(stack) \ since)
    PROVE  since = KnotOf(links, top)
<1>1. PICK off, more : off = Range(found) \ Range(stack) /\ more = off \cup since
  OBVIOUS
<1>2. more = Range(found) \ (Range(stack) \ since) /\ off \subseteq DOMAIN links /\ more \subseteq DOMAIN links
  BY <1>1
<1>3. off \in Enclosed(links)
  BY <1>1, <1>2 DEF Shut, Enclosed
<1>4. more \in Enclosed(links)
  <2>1. ASSUME NEW n \in more PROVE Successors(links, n) \subseteq more
    <3>1. CASE n \in off
      BY <1>1, <3>1 DEF Shut
    <3>2. CASE n \in since
      BY <1>2, <3>2
    <3>. QED  BY <1>1, <3>1, <3>2
  <2>. QED  BY <1>2, <2>1 DEF Enclosed
<1>5. top \in DOMAIN links /\ top \in more
  BY <1>1, <1>2
<1>6. ASSUME NEW n \in KnotOf(links, top), n # top PROVE n \in since
  <2>1. n \in Downstream(links)[top] /\ top \in Downstream(links)[n]
    BY <1>6 DEF KnotOf
  <2>2. Successors(links, top) \subseteq more
    BY <1>4, <1>5 DEF Enclosed
  <2>3. n \in more
    BY <1>4, <1>5, <2>1, <2>2, DownIs
  <2>4. ASSUME n \in off PROVE FALSE
    <3>1. n \in DOMAIN links /\ Successors(links, n) \subseteq off
      BY <1>2, <1>3, <2>4 DEF Enclosed
    <3>2. top \in off
      BY <1>3, <2>1, <3>1, DownIs
    <3>. QED  BY <1>1, <3>2
  <2>. QED  BY <1>1, <2>3, <2>4
<1>7. ASSUME NEW n \in since PROVE n \in KnotOf(links, top)
  BY <1>7 DEF KnotOf
<1>. QED  BY <1>6, <1>7

\* A visit that leads no lower than itself: its component is closed.
EndsWith(work, stack, low, top, less, lower, upper, low2) ==
    LET place == CHOOSE i \in DOMAIN stack : stack[i] = top IN
    /\ less = Front(work)
    /\ lower = SubSeq(stack, 1, place - 1)
    /\ upper = SubSeq(stack, place, Len(stack))
    /\ low2 = IF less = <<>> THEN low
              ELSE [low EXCEPT ![Last(less)] = Lower(low[Last(less)], low[top])]

LEMMA EndsComponent ==
    ASSUME NEW links, NEW rest, NoneBack(links, rest),
           NEW found, NEW work, NEW stack, NEW low, NEW left, NEW components,
           Parting(links, rest, found, work, stack, low, left, components),
           work # <<>>, NEW top, top = Last(work), left[top] = {}, low[top] = At(found, top),
           NEW less, NEW lower, NEW upper, NEW low2, NEW more,
           EndsWith(work, stack, low, top, less, lower, upper, low2),
           more = components \cup {Range(upper)}
    PROVE  Parting(links, rest, found, less, lower, low2, left, more)
<1>1. /\ Listed(rest, found, work, stack)
      /\ Looked(links, rest, found, work, left)
      /\ Shut(links, found, stack)
      /\ Leads(links, found, work, stack)
      /\ Lows(links, found, work, stack, low, left)
      /\ Under(found, work, stack, low)
      /\ \A c \in components : \E m \in rest : c = KnotOf(links, m)
  BY DEF Parting
<1>2. /\ found \in Seq(rest) /\ NoneTwice(found)
      /\ Rising(found, work) /\ Rising(found, stack)
      /\ Range(work) \subseteq Range(stack) /\ Range(stack) \subseteq Range(found)
      /\ Range(found) \subseteq rest /\ rest \subseteq DOMAIN links
      /\ \A n \in Range(found) : At(found, n) \in Nat
      /\ \A i \in DOMAIN work : work[i] \in Range(work)
  BY <1>1, ListsAre DEF InLists
<1>3. VisitEnds(found, work, top, less)
  <2>1. less = Front(work)
    BY DEF EndsWith
  <2>. QED  BY <1>2, <2>1, VisitEndsSo
<1>4. PICK w \in Nat \ {0} : /\ w = Len(work) /\ DOMAIN work = 1 .. w /\ DOMAIN less = 1 .. w - 1
                             /\ work[w] = top
  BY <1>3 DEF VisitEnds
<1>5. /\ Rising(found, less)
      /\ top \in Range(work) /\ Range(less) = Range(work) \ {top}
      /\ \A i \in DOMAIN less : less[i] = work[i] /\ At(found, work[i]) < At(found, top)
      /\ less # <<>> => /\ w - 1 \in DOMAIN less
                        /\ Last(less) = work[w - 1]
                        /\ Last(less) \in Range(less)
  BY <1>3, <1>4 DEF VisitEnds
<1>6. top \in Range(stack) /\ top \in Range(found) /\ top \in rest /\ top \in DOMAIN links
  BY <1>2, <1>5
<1>7. PICK since : since = Since(found, stack, top)
  OBVIOUS
<1>8. /\ top \in since /\ since \subseteq Range(stack)
      /\ \A n \in since : n = top \/ n \in Downstream(links)[top]
      /\ \A n \in since : n = top \/ top \in Downstream(links)[n]
      /\ \A n \in since : Successors(links, n) \subseteq Range(found) \ (Range(stack) \ since)
  BY <1>7, LeadsNoLower
<1>9. since = KnotOf(links, top)
  <2>1. Range(found) \subseteq DOMAIN links
    BY <1>2
  <2>. QED  BY <1>1, <1>2, <1>8, <2>1, ComponentIsKnot
<1>10. Rising(found, lower) /\ Range(lower) = Range(stack) \ since /\ Range(upper) = since
  <2>1. /\ Rising(found, lower)
        /\ Range(lower) = Range(stack) \ Since(found, stack, top)
        /\ Range(upper) = Since(found, stack, top)
    <3>1. found \in Seq(rest) /\ NoneTwice(found) /\ Rising(found, stack) /\ top \in Range(stack)
      BY <1>2, <1>6
    <3>2. PICK place : place = CHOOSE i \in DOMAIN stack : stack[i] = top
      OBVIOUS
    <3>3. place \in DOMAIN stack /\ stack[place] = top
      <4>1. \E i \in DOMAIN stack : stack[i] = top
        BY <3>1 DEF Range
      <4>. QED  BY <3>2, <4>1
    <3>4. Cut(stack, place, lower, upper)
      BY <3>2 DEF Cut, EndsWith
    <3>. QED  BY <3>1, <3>3, <3>4, StackSplits
  <2>. QED  BY <1>7, <2>1
<1>11. \A n \in Range(stack) : n \notin since => At(found, n) < At(found, top)
  BY <1>2, <1>6, <1>7 DEF Since
<1>12. \A n \in Range(stack) : At(found, n) < At(found, top) => n \in Range(lower)
  <2>1. ASSUME NEW n \in since PROVE ~(At(found, n) < At(found, top))
    BY <1>2, <1>6, <1>7, <2>1 DEF Since
  <2>. QED  BY <1>10, <2>1
<1>13. low2 = low
  <2>1. CASE less = <<>>
    BY <2>1 DEF EndsWith
  <2>2. CASE less # <<>>
    <3>1. PICK last : last = Last(less) /\ last \in Range(stack) /\ last \in DOMAIN links
      BY <1>2, <1>5, <2>2
    <3>2. low \in [DOMAIN links -> Nat] /\ low[last] <= At(found, last)
      BY <1>1, <3>1 DEF Lows, Lowest
    <3>3. At(found, last) < At(found, top)
      BY <1>5, <2>2, <3>1
    <3>4. Lower(low[last], low[top]) = low[last]
      BY <1>2, <1>6, <3>1, <3>2, <3>3 DEF Lower
    <3>. QED  BY <2>2, <3>1, <3>2, <3>4 DEF EndsWith
  <2>. QED  BY <2>1, <2>2
<1>14. Listed(rest, found, less, lower)
  <2>1. ASSUME NEW n \in Range(less) PROVE n \in Range(lower)
    <3>1. PICK i \in DOMAIN less : n = less[i]
      BY DEF Range
    <3>2. n \in Range(stack) /\ At(found, n) < At(found, top)
      BY <1>2, <1>5, <3>1
    <3>. QED  BY <1>12, <3>2
  <2>. QED  BY <1>2, <1>5, <1>10, <2>1 DEF Listed
<1>15. Looked(links, rest, found, less, left)
  <2>1. ASSUME NEW n \in rest
        PROVE  /\ left[n] \subseteq Successors(links, n)
               /\ Successors(links, n) \ left[n] \subseteq Range(found)
               /\ n \notin Range(found) => left[n] = Successors(links, n)
               /\ n \in Range(found) \ Range(less) => left[n] = {}
    BY <1>1, <1>5 DEF Looked
  <2>. QED  BY <1>1, <2>1 DEF Looked
<1>16. Shut(links, found, lower)
  <2>. SUFFICES ASSUME NEW n \in Range(found) \ Range(lower)
                PROVE  Successors(links, n) \subseteq Range(found) \ Range(lower)
    BY DEF Shut
  <2>1. CASE n \in since
    BY <1>8, <1>10, <2>1
  <2>2. CASE n \notin since
    <3>1. n \in Range(found) \ Range(stack)
      BY <1>10, <2>2
    <3>2. Successors(links, n) \subseteq Range(found) \ Range(stack)
      BY <1>1, <3>1 DEF Shut
    <3>. QED  BY <1>10, <3>2
  <2>. QED  BY <2>1, <2>2
<1>17. Leads(links, found, less, lower)
  <2>1. \A i \in DOMAIN less : i \in DOMAIN work /\ less[i] = work[i]
    BY <1>4, <1>5
  <2>2. Range(lower) \subseteq Range(stack)
    BY <1>10
  <2>. QED  BY <1>1, <2>1, <2>2 DEF Leads
<1>18. Lows(links, found, less, lower, low, left)
  <2>. SUFFICES ASSUME NEW n \in Range(lower)
                PROVE  Lowest(links, found, less, lower, low, left, n)
    BY <1>1 DEF Lows
  <2>1. n \in Range(stack) /\ n # top /\ n \in DOMAIN links /\ At(found, n) \in Nat
    BY <1>2, <1>8, <1>10
  <2>2. /\ low[n] <= At(found, n)
        /\ n \notin Range(work) => low[n] < At(found, n)
        /\ \A u \in Successors(links, n) \ left[n] :
              u \in Range(stack) => At(found, n) < At(found, u) \/ low[n] <= At(found, u)
    BY <1>1, <2>1 DEF Lows, Lowest
  <2>3. PICK v \in Range(stack) : At(found, v) = low[n] /\ (v = n \/ v \in Downstream(links)[n])
    BY <1>1, <2>1 DEF Lows, Lowest
  <2>4. At(found, n) < At(found, top)
    BY <1>10, <1>11, <2>1
  <2>5. At(found, v) < At(found, top)
    BY <1>2, <1>6, <2>1, <2>2, <2>3, <2>4
  <2>6. v \in Range(lower)
    BY <1>12, <2>5
  <2>7. n \notin Range(less) => low[n] < At(found, n)
    BY <1>5, <2>1, <2>2
  <2>8. \A u \in Successors(links, n) \ left[n] :
           u \in Range(lower) => At(found, n) < At(found, u) \/ low[n] <= At(found, u)
    BY <1>10, <2>2
  <2>. QED  BY <2>2, <2>3, <2>6, <2>7, <2>8 DEF Lowest
<1>19. Under(found, less, lower, low)
  <2>. SUFFICES ASSUME NEW i \in DOMAIN less, NEW n \in Range(lower),
                       At(found, less[i]) < At(found, n),
                       i + 1 \in DOMAIN less => At(found, n) < At(found, less[i + 1])
                PROVE  low[less[i]] <= low[n]
    BY DEF Under
  <2>1. less[i] = work[i] /\ i \in DOMAIN work /\ n \in Range(stack)
    BY <1>4, <1>5, <1>10
  <2>2. i + 1 \in DOMAIN work => At(found, n) < At(found, work[i + 1])
    <3>1. CASE i + 1 \in DOMAIN less
      BY <1>5, <3>1
    <3>2. CASE i + 1 \notin DOMAIN less
      <4>1. i + 1 = w
        BY <1>4, <3>2
      <4>2. At(found, n) < At(found, top)
        BY <1>10, <1>11
      <4>. QED  BY <1>4, <4>1, <4>2
    <3>. QED  BY <3>1, <3>2
  <2>. QED  BY <1>1, <2>1, <2>2 DEF Under
<1>20. \A c \in more : \E m \in rest : c = KnotOf(links, m)
  BY <1>1, <1>6, <1>9, <1>10
<1>21. Parting(links, rest, found, less, lower, low, left, more)
  BY <1>14, <1>15, <1>16, <1>17, <1>18, <1>19, <1>20, Zenon DEF Parting
<1>. QED  BY <1>13, <1>21

\* Nothing is found yet.
LEMMA NothingFound ==
    ASSUME NEW links, NEW rest, NoneBack(links, rest),
           NEW low \in [DOMAIN links -> Nat],
           NEW left \in [DOMAIN links -> SUBSET DOMAIN links],
           \A n \in rest : left[n] = Successors(links, n)
    PROVE  Parting(links, rest, <<>>, <<>>, <<>>, low, left, {})
<1>1. Range(<<>>) = {} /\ DOMAIN <<>> = {} /\ <<>> \in Seq(rest) /\ <<>> \in Seq(Range(<<>>))
  BY DEF Range
<1>2. NoneTwice(<<>>) /\ Rising(<<>>, <<>>)
  BY <1>1 DEF NoneTwice, Rising
<1>3. Listed(rest, <<>>, <<>>, <<>>)
  BY <1>1, <1>2 DEF Listed
<1>4. Looked(links, rest, <<>>, <<>>, left)
  BY <1>1 DEF Looked
<1>5. Shut(links, <<>>, <<>>) /\ Leads(links, <<>>, <<>>, <<>>)
  BY <1>1 DEF Shut, Leads
<1>6. Lows(links, <<>>, <<>>, <<>>, low, left)
  BY <1>1 DEF Lows
<1>7. Under(<<>>, <<>>, <<>>, low)
  BY <1>1 DEF Under
<1>. QED  BY <1>3, <1>4, <1>5, <1>6, <1>7 DEF Parting

-----------------------------------------------------------------------------
(***************************************************************************)
(* The waves of an estate. Each knot is in one wave, and what its objects  *)
(* take data from is in it, or in a wave before; what is counted for an    *)
(* object are those of its sources that have not moved.                    *)
(***************************************************************************)

Settled(links, waves) ==
    /\ waves \in Seq(SUBSET DOMAIN links)
    /\ \A i, j \in DOMAIN waves : i # j => waves[i] \cap waves[j] = {}
    /\ \A i \in DOMAIN waves : \A t \in waves[i] :
          /\ KnotOf(links, t) \subseteq waves[i]
          /\ Predecessors(links, t) \subseteq KnotOf(links, t) \cup FirstWaves(waves, i - 1)

Awaited(links, waves, waiting) ==
    waiting = [n \in DOMAIN links |->
                 Cardinality(Predecessors(links, n) \ UNION Range(waves))]

LEMMA SumOfOnes ==
    ASSUME NEW S, IsFiniteSet(S), NEW f, \A x \in S : f[x] \in {0, 1}
    PROVE  SumFunctionOnSet(f, S) = Cardinality({x \in S : f[x] = 1})
<1>. DEFINE Ones(T) == {x \in T : f[x] = 1}
            Good == {T \in SUBSET S : SumFunctionOnSet(f, T) = Cardinality(Ones(T))}
<1>1. {} \in Good
  BY SumEmpty, FS_EmptySet
<1>2. ASSUME NEW T \in SUBSET S, T # {}, Rest(T) \in Good
      PROVE  T \in Good
  <2>1. PICK x, U : x = Some(T) /\ U = Rest(T) /\ x \in T /\ U = T \ {x}
    BY <1>2, SomeElement DEF Rest
  <2>2. IsFiniteSet(T) /\ IsFiniteSet(Ones(U))
    BY <2>1, FS_Subset
  <2>3. SumFunctionOnSet(f, T) = f[x] + SumFunctionOnSet(f, U)
    BY <1>2, <2>1, <2>2, SumUnfold
  <2>4. SumFunctionOnSet(f, U) = Cardinality(Ones(U)) /\ Cardinality(Ones(U)) \in Nat
    BY <1>2, <2>1, <2>2, FS_CardinalityType
  <2>5. CASE f[x] = 1
    <3>1. Ones(T) = Ones(U) \cup {x} /\ x \notin Ones(U)
      BY <2>1, <2>5
    <3>2. Cardinality(Ones(T)) = Cardinality(Ones(U)) + 1
      BY <2>2, <3>1, FS_AddElement
    <3>. QED  BY <2>3, <2>4, <2>5, <3>2
  <2>6. CASE f[x] = 0
    <3>1. Ones(T) = Ones(U)
      BY <2>1, <2>6
    <3>2. SumFunctionOnSet(f, T) = SumFunctionOnSet(f, U)
      BY <2>3, <2>4, <2>6
    <3>. QED  BY <2>4, <3>1, <3>2
  <2>. QED  BY <2>1, <2>5, <2>6
<1>3. \A T \in SUBSET S : T \in Good
  <2>. HIDE DEF Good
  <2>. QED  BY <1>1, <1>2, FoldInduction
<1>. QED  BY <1>3

LEMMA NothingMoved ==
    ASSUME NEW estate, IsGraph(estate), NEW links, links = Once(estate)
    PROVE  IsGraph(links) /\ Settled(links, <<>>) /\ Awaited(links, <<>>, Waiting(links))
<1>1. Range(<<>>) = {} /\ DOMAIN <<>> = {} /\ <<>> \in Seq(SUBSET DOMAIN links)
  BY DEF Range
<1>2. IsGraph(links)
  BY OnceIsGraph
<1>3. ASSUME NEW n \in DOMAIN links
      PROVE  SumFunctionOnSet([u \in DOMAIN links |-> links[u][n]], DOMAIN links)
               = Cardinality(Predecessors(links, n))
  <2>1. PICK f : f = [u \in DOMAIN links |-> links[u][n]]
    OBVIOUS
  <2>2. \A u \in DOMAIN links : f[u] = links[u][n] /\ links[u][n] \in {0, 1}
    BY <1>3, <2>1 DEF Once
  <2>3. SumFunctionOnSet(f, DOMAIN links) = Cardinality({u \in DOMAIN links : f[u] = 1})
    BY <1>2, <2>2, SumOfOnes DEF IsGraph
  <2>4. {u \in DOMAIN links : f[u] = 1} = Predecessors(links, n)
    BY <2>2 DEF Predecessors
  <2>. QED  BY <2>1, <2>3, <2>4
<1>4. Awaited(links, <<>>, Waiting(links))
  <2>1. \A n \in DOMAIN links :
           Predecessors(links, n) = Predecessors(links, n) \ UNION Range(<<>>)
    BY <1>1
  <2>. QED  BY <1>3, <2>1 DEF Awaited, Waiting
<1>. QED  BY <1>1, <1>2, <1>4 DEF Settled

\* What is left leads to nothing that has moved.
LEMMA RestClosed ==
    ASSUME NEW links, NEW waves, Settled(links, waves),
           NEW rest, rest = DOMAIN links \ UNION Range(waves)
    PROVE  /\ NoneBack(links, rest)
           /\ \A n \in rest : KnotOf(links, n) \subseteq rest
<1>1. ASSUME NEW n \in rest, NEW u \in Successors(links, n) PROVE u \in rest
  <2>1. u \in DOMAIN links /\ n \in Predecessors(links, u)
    BY <1>1 DEF Successors, Predecessors
  <2>. SUFFICES ASSUME u \in UNION Range(waves) PROVE FALSE
    BY <2>1
  <2>2. PICK i \in DOMAIN waves : u \in waves[i]
    BY DEF Range
  <2>3. n \in waves[i] \/ n \in FirstWaves(waves, i - 1)
    BY <2>1, <2>2 DEF Settled
  <2>4. FirstWaves(waves, i - 1) \subseteq UNION Range(waves)
    <3>1. waves \in Seq(SUBSET DOMAIN links)
      BY DEF Settled
    <3>2. \A j \in 1 .. i - 1 : j \in DOMAIN waves
      BY <2>2, <3>1
    <3>. QED  BY <3>2 DEF FirstWaves, Range
  <2>. QED  BY <2>2, <2>3, <2>4 DEF Range
<1>2. rest \in Enclosed(links)
  BY <1>1 DEF Enclosed
<1>3. ASSUME NEW n \in rest, NEW u \in KnotOf(links, n) PROVE u \in rest
  <2>1. n \in DOMAIN links /\ Successors(links, n) \subseteq rest
    BY <1>1
  <2>. QED  BY <1>2, <1>3, <2>1, DownIs DEF KnotOf
<1>. QED  BY <1>1, <1>3 DEF NoneBack

\* A wave that holds knots as wholes, and waits for nothing but itself.
Movable(links, rest, wave) ==
    /\ wave \subseteq rest
    /\ \A t \in wave :
          /\ KnotOf(links, t) \subseteq wave
          /\ Predecessors(links, t) \cap rest \subseteq KnotOf(links, t)

MovesBy(links, waves, waiting, wave, more, fewer) ==
    /\ more = Append(waves, wave)
    /\ fewer = [n \in DOMAIN links |->
                  waiting[n] - Cardinality(wave \cap Predecessors(links, n))]

LEMMA WaveMoves ==
    ASSUME NEW links, IsGraph(links), NEW waves, Settled(links, waves),
           NEW waiting, Awaited(links, waves, waiting),
           NEW rest, rest = DOMAIN links \ UNION Range(waves),
           NEW wave, Movable(links, rest, wave),
           NEW more, NEW fewer, MovesBy(links, waves, waiting, wave, more, fewer)
    PROVE  Settled(links, more) /\ Awaited(links, more, fewer)
<1>. USE DEF MovesBy
<1>1. PICK placed : placed = UNION Range(waves)
  OBVIOUS
<1>2. waves \in Seq(SUBSET DOMAIN links) /\ wave \in SUBSET DOMAIN links
  BY DEF Settled, Movable
<1>3. PICK n \in Nat : n = Len(waves) /\ DOMAIN waves = 1 .. n
  BY <1>2
<1>4. /\ more \in Seq(SUBSET DOMAIN links)
      /\ DOMAIN more = DOMAIN waves \cup {n + 1}
      /\ more[n + 1] = wave
      /\ \A i \in DOMAIN waves :
            more[i] = waves[i] /\ FirstWaves(more, i - 1) = FirstWaves(waves, i - 1)
      /\ FirstWaves(more, n) = placed
      /\ UNION Range(more) = placed \cup wave
  <2>1. more \in Seq(SUBSET DOMAIN links) /\ WaveAdded(waves, wave, more)
    BY <1>2, OneWave
  <2>. QED  BY <1>1, <1>3, <2>1 DEF WaveAdded
<1>5. \A i \in DOMAIN waves : waves[i] \subseteq placed /\ waves[i] \cap wave = {}
  BY <1>1 DEF Range, Movable
<1>6. \A i, j \in DOMAIN more : i # j => more[i] \cap more[j] = {}
  BY <1>3, <1>4, <1>5 DEF Settled
<1>7. ASSUME NEW i \in DOMAIN more, NEW t \in more[i]
      PROVE  /\ KnotOf(links, t) \subseteq more[i]
             /\ Predecessors(links, t) \subseteq KnotOf(links, t) \cup FirstWaves(more, i - 1)
  <2>1. CASE i \in DOMAIN waves
    BY <1>4, <1>7, <2>1 DEF Settled
  <2>2. CASE i = n + 1
    <3>1. FirstWaves(more, i - 1) = placed
      BY <1>3, <1>4, <2>2
    <3>2. Predecessors(links, t) \subseteq DOMAIN links
      BY DEF Predecessors
    <3>. QED  BY <1>1, <1>4, <1>7, <2>2, <3>1, <3>2 DEF Movable
  <2>. QED  BY <1>4, <1>7, <2>1, <2>2
<1>8. Settled(links, more)
  BY <1>4, <1>6, <1>7 DEF Settled
<1>9. ASSUME NEW u \in DOMAIN links
      PROVE  waiting[u] - Cardinality(wave \cap Predecessors(links, u))
               = Cardinality(Predecessors(links, u) \ UNION Range(more))
  <2>1. PICK all, left, now : /\ all = Predecessors(links, u) \ placed
                              /\ left = Predecessors(links, u) \ UNION Range(more)
                              /\ now = wave \cap Predecessors(links, u)
    OBVIOUS
  <2>2. all = left \cup now /\ left \cap now = {} /\ left \subseteq DOMAIN links /\ now \subseteq DOMAIN links
    BY <1>1, <1>4, <2>1 DEF Movable, Predecessors
  <2>3. IsFiniteSet(left) /\ IsFiniteSet(now)
    BY <2>2, FS_Subset DEF IsGraph
  <2>4. Cardinality(all) = Cardinality(left) + Cardinality(now) - Cardinality(left \cap now)
    BY <2>2, <2>3, FS_Union
  <2>5. Cardinality(left \cap now) = 0 /\ Cardinality(left) \in Nat /\ Cardinality(now) \in Nat
    BY <2>2, <2>3, FS_EmptySet, FS_CardinalityType
  <2>6. waiting[u] = Cardinality(all)
    BY <1>1, <1>9, <2>1 DEF Awaited
  <2>7. Cardinality(all) - Cardinality(now) = Cardinality(left)
    BY <2>4, <2>5
  <2>. QED  BY <2>1, <2>6, <2>7
<1>10. Awaited(links, more, fewer)
  BY <1>9 DEF Awaited
<1>. QED  BY <1>8, <1>10

\* What waits for nothing is a knot of its own.
LEMMA FreeMove ==
    ASSUME NEW links, IsGraph(links), NEW waves, Settled(links, waves),
           NEW waiting, Awaited(links, waves, waiting),
           NEW rest, rest = DOMAIN links \ UNION Range(waves),
           NEW wave, wave = {n \in rest : waiting[n] = 0}
    PROVE  Movable(links, rest, wave)
<1>. SUFFICES ASSUME NEW t \in wave
              PROVE  /\ KnotOf(links, t) \subseteq wave
                     /\ Predecessors(links, t) \cap rest \subseteq KnotOf(links, t)
  BY DEF Movable
<1>1. t \in rest /\ t \in DOMAIN links /\ waiting[t] = 0
  OBVIOUS
<1>2. Predecessors(links, t) \cap rest = {}
  <2>1. PICK missing : missing = Predecessors(links, t) \ UNION Range(waves)
    OBVIOUS
  <2>2. missing \subseteq DOMAIN links
    BY <2>1 DEF Predecessors
  <2>3. IsFiniteSet(missing)
    BY <2>2, FS_Subset DEF IsGraph
  <2>4. Cardinality(missing) = 0
    BY <1>1, <2>1 DEF Awaited
  <2>5. missing = {}
    BY <2>3, <2>4, FS_EmptySet
  <2>. QED  BY <2>1, <2>5
<1>3. ASSUME NEW u \in KnotOf(links, t), u # t PROVE FALSE
  <2>1. u \in Downstream(links)[t] /\ t \in Downstream(links)[u] /\ u \in DOMAIN links
    BY <1>1, <1>3, KnotIs DEF KnotOf
  <2>2. PICK v \in Predecessors(links, t) : v = u \/ v \in Downstream(links)[u]
    BY <2>1, DownLast
  <2>3. v \in Downstream(links)[t]
    BY <1>1, <2>1, <2>2, DownOn
  <2>4. rest \in Enclosed(links) /\ Successors(links, t) \subseteq rest
    <3>1. NoneBack(links, rest)
      BY RestClosed
    <3>. QED  BY <1>1, <3>1 DEF NoneBack, Enclosed
  <2>5. v \in rest
    BY <1>1, <2>3, <2>4, DownIs
  <2>. QED  BY <1>2, <2>2, <2>5
<1>. QED  BY <1>2, <1>3 DEF KnotOf

\* Components that wait for none of what is left but themselves.
FreeKnots(links, rest, knots) ==
    \A c \in knots : /\ \E n \in rest : c = KnotOf(links, n)
                     /\ \A u \in rest \ c : Successors(links, u) \cap c = {}

LEMMA KnotsMove ==
    ASSUME NEW links, NEW waves, Settled(links, waves),
           NEW rest, rest = DOMAIN links \ UNION Range(waves),
           NEW moving, FreeKnots(links, rest, moving)
    PROVE  Movable(links, rest, UNION moving)
<1>1. ASSUME NEW c \in moving
      PROVE  /\ c \subseteq rest
             /\ \A t \in c : /\ KnotOf(links, t) = c
                             /\ Predecessors(links, t) \cap rest \subseteq c
  <2>1. PICK n \in rest : c = KnotOf(links, n)
    BY DEF FreeKnots
  <2>2. c \subseteq rest /\ n \in DOMAIN links
    BY <2>1, RestClosed
  <2>. SUFFICES ASSUME NEW t \in c
                PROVE  /\ KnotOf(links, t) = c
                       /\ Predecessors(links, t) \cap rest \subseteq c
    BY <2>2
  <2>3. KnotOf(links, t) \subseteq c
    <3>. SUFFICES ASSUME NEW u \in KnotOf(links, t), u # t PROVE u \in c
      OBVIOUS
    <3>1. u \in Downstream(links)[t] /\ t \in Downstream(links)[u] /\ u \in DOMAIN links
      BY <2>2, KnotIs DEF KnotOf
    <3>. QED  BY <2>1, <2>2, <3>1, KnotIs
  <2>4. c \subseteq KnotOf(links, t)
    <3>. SUFFICES ASSUME NEW u \in c, u # t PROVE u \in KnotOf(links, t)
      BY DEF KnotOf
    <3>1. u \in Downstream(links)[t] /\ t \in Downstream(links)[u]
      BY <2>1, <2>2, KnotIs
    <3>. QED  BY <3>1 DEF KnotOf
  <2>5. ASSUME NEW u \in Predecessors(links, t), u \in rest PROVE u \in c
    <3>1. t \in Successors(links, u)
      BY <2>2, <2>5 DEF Successors, Predecessors
    <3>2. \A v \in rest \ c : Successors(links, v) \cap c = {}
      BY DEF FreeKnots
    <3>. QED  BY <2>5, <3>1, <3>2
  <2>. QED  BY <2>3, <2>4, <2>5
<1>. QED  BY <1>1 DEF Movable

\* When all has moved.
LEMMA AllMoved ==
    ASSUME NEW links, NEW waves, Settled(links, waves), DOMAIN links \ UNION Range(waves) = {}
    PROVE  /\ InOneWave(waves, links)
           /\ \A knot \in Knots(links) :
                 /\ \E i \in DOMAIN waves : knot \subseteq waves[i]
                 /\ \A t \in knot, u \in DOMAIN links \ knot :
                       links[u][t] > 0 => Before(waves, u, t)
<1>1. ASSUME NEW t \in DOMAIN links
      PROVE  \E i \in DOMAIN waves : t \in waves[i] /\ WavesOf(waves, t) = {i}
                                     /\ Cardinality(WavesOf(waves, t)) = 1
  <2>1. PICK i \in DOMAIN waves : t \in waves[i]
    BY DEF Range
  <2>2. \A j \in DOMAIN waves : t \in waves[j] => j = i
    BY <2>1 DEF Settled
  <2>. QED  BY <2>1, <2>2, OnlyWave
<1>2. ASSUME NEW knot \in Knots(links)
      PROVE  /\ \E i \in DOMAIN waves : knot \subseteq waves[i]
             /\ \A t \in knot, u \in DOMAIN links \ knot :
                   links[u][t] > 0 => Before(waves, u, t)
  <2>1. PICK n \in DOMAIN links : knot = KnotOf(links, n)
    BY <1>2, KnotsAre
  <2>2. PICK i \in DOMAIN waves : n \in waves[i]
    BY <1>1
  <2>3. knot \subseteq waves[i]
    BY <2>1, <2>2 DEF Settled
  <2>4. ASSUME NEW t \in knot, NEW u \in DOMAIN links \ knot, links[u][t] > 0
        PROVE  Before(waves, u, t)
    <3>1. t \in waves[i] /\ t \in DOMAIN links /\ WavesOf(waves, t) = {i}
      <4>1. t \in waves[i] /\ t \in DOMAIN links
        BY <2>1, <2>3, KnotIs
      <4>. QED  BY <1>1, <4>1 DEF WavesOf
    <3>2. u \in Predecessors(links, t)
      BY <2>4 DEF Predecessors
    <3>3. u \notin KnotOf(links, t)
      <4>. SUFFICES ASSUME u \in KnotOf(links, t) PROVE FALSE
        OBVIOUS
      <4>1. u # t /\ u \in Downstream(links)[t] /\ t \in Downstream(links)[u]
        BY <2>4 DEF KnotOf
      <4>. QED  BY <2>1, <2>4, <4>1, KnotIs
    <3>4. u \in FirstWaves(waves, i - 1)
      BY <3>1, <3>2, <3>3 DEF Settled
    <3>5. PICK j \in 1 .. i - 1 : u \in waves[j]
      BY <3>4 DEF FirstWaves
    <3>6. j \in DOMAIN waves /\ j < i
      <4>1. waves \in Seq(SUBSET DOMAIN links)
        BY DEF Settled
      <4>. QED  BY <3>5, <4>1
    <3>7. WavesOf(waves, u) = {j}
      BY <1>1, <3>5, <3>6 DEF WavesOf
    <3>. QED  BY <3>1, <3>6, <3>7 DEF Before
  <2>. QED  BY <2>3, <2>4
<1>. QED  BY <1>1, <1>2 DEF InOneWave

\* When no visit is open, nothing is on the stack: the lowest there would lead lower.
LEMMA StackEmptied ==
    ASSUME NEW links, NEW rest, NEW found, NEW stack, NEW low, NEW left, NEW components,
           Parting(links, rest, found, <<>>, stack, low, left, components)
    PROVE  Range(stack) = {}
<1>1. Listed(rest, found, <<>>, stack) /\ Lows(links, found, <<>>, stack, low, left)
  BY DEF Parting
<1>2. /\ stack \in Seq(Range(found)) /\ NoneTwice(found) /\ found \in Seq(rest)
      /\ \A i, j \in DOMAIN stack : i < j => At(found, stack[i]) < At(found, stack[j])
  BY <1>1 DEF Listed, Rising
<1>. SUFFICES ASSUME Range(stack) # {} PROVE FALSE
  OBVIOUS
<1>3. PICK k \in Nat : DOMAIN stack = 1 .. k
  BY <1>2
<1>4. 1 \in DOMAIN stack
  BY <1>3 DEF Range
<1>5. PICK n : n = stack[1] /\ n \in Range(stack) /\ n \notin Range(<<>>)
  BY <1>4 DEF Range
<1>6. low[n] < At(found, n)
  BY <1>1, <1>5 DEF Lows, Lowest
<1>7. PICK m \in Range(stack) : At(found, m) = low[n]
  BY <1>1, <1>5 DEF Lows, Lowest
<1>8. PICK j \in DOMAIN stack : m = stack[j]
  BY <1>7 DEF Range
<1>9. j = 1 \/ 1 < j
  BY <1>3, <1>8
<1>10. At(found, n) \in Nat /\ At(found, m) \in Nat
  <2>1. n \in Range(found) /\ m \in Range(found)
    BY <1>2, <1>5, <1>7 DEF Range
  <2>. QED  BY <1>2, <2>1, AtNumber
<1>. QED  BY <1>2, <1>4, <1>5, <1>6, <1>7, <1>8, <1>9, <1>10

\* Of what is left, those that lead to an object, and the object.
Above(links, rest, n) == {m \in rest : m = n \/ n \in Downstream(links)[m]}

\* Components that leave out nothing; and that some of them wait for no other.
Parts(links, rest, components) ==
    /\ rest \subseteq UNION components
    /\ \A c \in components : \E n \in rest : c = KnotOf(links, n)

SomeFree(links, rest, components) ==
    \E c \in components : c # {} /\ \A u \in rest \ c : Successors(links, u) \cap c = {}

\* Some wait for no other: that of an object above which there is as little as
\* above any that leads to it.
LEMMA SomeKnotIsFree ==
    ASSUME NEW links, NEW rest, IsFiniteSet(rest), rest # {}, rest \subseteq DOMAIN links,
           NEW components, Parts(links, rest, components)
    PROVE  SomeFree(links, rest, components)
<1>. USE DEF Parts, SomeFree
<1>. DEFINE Sets == {Above(links, rest, n) : n \in rest}
<1>1. PICK n \in rest : \A u \in rest :
         Above(links, rest, u) \subseteq Above(links, rest, n) =>
            Above(links, rest, u) = Above(links, rest, n)
  <2>1. Sets # {} /\ \A T \in Sets : T \subseteq rest
    <3>1. \A m \in rest : Above(links, rest, m) \subseteq rest
      BY DEF Above
    <3>. QED  BY <3>1, Zenon
  <2>2. \E T \in Sets : \A U \in Sets : U \subseteq T => U = T
    <3>. HIDE DEF Sets
    <3>. QED  BY <2>1, SmallestOf
  <2>3. PICK T \in Sets : \A U \in Sets : U \subseteq T => U = T
    BY <2>2
  <2>4. PICK n \in rest : T = Above(links, rest, n)
    BY <2>3
  <2>5. \A u \in rest : Above(links, rest, u) \in Sets
    OBVIOUS
  <2>. QED
    <3>. HIDE DEF Sets
    <3>. QED  BY <2>3, <2>4, <2>5
<1>2. PICK c \in components : n \in c
  OBVIOUS
<1>3. PICK k \in rest : c = KnotOf(links, k)
  OBVIOUS
<1>4. ASSUME NEW u \in rest \ c, NEW t \in Successors(links, u), t \in c
      PROVE  FALSE
  <2>1. u \in DOMAIN links /\ n \in DOMAIN links /\ k \in DOMAIN links /\ t \in DOMAIN links
    BY <1>2, <1>4 DEF Successors
  <2>2. t \in Downstream(links)[u]
    BY <1>4, <2>1, DownByLink
  <2>3. n \in Downstream(links)[u]
    <3>1. n = t \/ n \in Downstream(links)[t]
      BY <1>2, <1>3, <1>4, <2>1, KnotIs
    <3>. QED  BY <2>1, <2>2, <3>1, DownOn
  <2>4. Above(links, rest, u) \subseteq Above(links, rest, n)
    <3>. SUFFICES ASSUME NEW m \in Above(links, rest, u) PROVE m \in Above(links, rest, n)
      OBVIOUS
    <3>1. m \in rest /\ m \in DOMAIN links /\ (m = u \/ u \in Downstream(links)[m])
      BY DEF Above
    <3>2. n \in Downstream(links)[m]
      BY <2>1, <2>3, <3>1, DownOn
    <3>. QED  BY <3>1, <3>2 DEF Above
  <2>5. n \in Above(links, rest, u)
    BY <1>1, <2>4 DEF Above
  <2>6. u \in Downstream(links)[n]
    BY <1>2, <1>4, <2>5 DEF Above
  <2>. QED  BY <1>2, <1>3, <1>4, <2>1, <2>3, <2>6, KnotIs
<1>. QED  BY <1>2, <1>4

\* What has left the stack is in a component.
Covered(found, stack, components) == Range(found) \ Range(stack) \subseteq UNION components

LEMMA RangeAppended ==
    ASSUME NEW S, NEW list \in Seq(S), NEW x \in S
    PROVE  Range(Append(list, x)) = Range(list) \cup {x}
<1>1. PICK n \in Nat : n = Len(list) /\ DOMAIN list = 1 .. n
  OBVIOUS
<1>2. PICK more : more = Append(list, x)
  OBVIOUS
<1>3. DOMAIN more = 1 .. n + 1 /\ more[n + 1] = x /\ \A i \in 1 .. n : more[i] = list[i]
  BY <1>1, <1>2
<1>4. Range(more) = Range(list) \cup {x}
  BY <1>1, <1>3 DEF Range
<1>. QED  BY <1>2, <1>4

LEMMA CoveredOpen ==
    ASSUME NEW rest, NEW found, NEW work, NEW stack, Listed(rest, found, work, stack),
           NEW components, Covered(found, stack, components), NEW n \in rest,
           NEW found2, found2 = Append(found, n), NEW stack2, stack2 = Append(stack, n)
    PROVE  Covered(found2, stack2, components)
<1>1. PICK S : S = Range(found) \cup {n}
  OBVIOUS
<1>2. found \in Seq(S) /\ stack \in Seq(S)
  <2>1. found \in Seq(rest) /\ stack \in Seq(Range(found))
    BY DEF Listed, Rising
  <2>2. found \in Seq(Range(found))
    BY <2>1 DEF Range
  <2>. QED  BY <1>1, <2>1, <2>2
<1>3. Range(found2) = Range(found) \cup {n} /\ Range(stack2) = Range(stack) \cup {n}
  BY <1>1, <1>2, RangeAppended
<1>. QED  BY <1>3 DEF Covered

LEMMA CoveredClose ==
    ASSUME NEW rest, NEW found, NEW work, NEW stack, Listed(rest, found, work, stack),
           NEW components, Covered(found, stack, components), NEW top \in Range(work),
           NEW place \in DOMAIN stack, stack[place] = top,
           NEW lower, NEW upper, Cut(stack, place, lower, upper)
    PROVE  Covered(found, lower, components \cup {Range(upper)})
<1>1. found \in Seq(rest) /\ NoneTwice(found) /\ Rising(found, stack) /\ top \in Range(stack)
  BY DEF Listed
<1>2. Range(lower) = Range(stack) \ Since(found, stack, top) /\ Range(upper) = Since(found, stack, top)
  BY <1>1, StackSplits
<1>. QED  BY <1>2 DEF Covered

KnotsMoved(s) ==
    /\ InOneWave(s.waves, s.links)
    /\ \A knot \in Knots(s.links) :
          /\ \E i \in DOMAIN s.waves : knot \subseteq s.waves[i]
          /\ \A t \in knot, u \in DOMAIN s.links \ knot :
                s.links[u][t] > 0 => Before(s.waves, u, t)

MoveHeld(s) ==
    /\ IsGraph(s.links)
    /\ Settled(s.links, s.waves)
    /\ Awaited(s.links, s.waves, s.waiting)
    /\ {} \notin Range(s.waves)

KnotsHeld(s) ==
    /\ s.op = "simulate" =>
         DOMAIN s = {"op", "links", "waves", "waiting"} /\ MoveHeld(s)
    /\ s.op = "components" =>
         /\ DOMAIN s = {"op", "links", "waves", "waiting", "found", "work", "stack", "low",
                        "left", "components"}
         /\ MoveHeld(s) /\ Remaining(s) # {}
         /\ Parting(s.links, Remaining(s), s.found, s.work, s.stack, s.low, s.left, s.components)
         /\ Covered(s.found, s.stack, s.components)
    /\ s.op = "simulated" => KnotsMoved(s) /\ {} \notin Range(s.waves)

KnotsInv == ServingForm /\ \A r \in Requests : KnotsHeld(serving[r])

LEMMA MovesOn ==
    ASSUME NEW s, MoveHeld(s), NEW wave, wave # {}, Movable(s.links, Remaining(s), wave)
    PROVE  KnotsHeld(WithWave(s, wave))
<1>1. PICK links, waves, waiting : links = s.links /\ waves = s.waves /\ waiting = s.waiting
  OBVIOUS
<1>2. PICK more, fewer :
         /\ more = Append(waves, wave)
         /\ fewer = [n \in DOMAIN links |->
                       waiting[n] - Cardinality(wave \cap Predecessors(links, n))]
  OBVIOUS
<1>3. /\ IsGraph(links) /\ Settled(links, waves) /\ Awaited(links, waves, waiting)
      /\ {} \notin Range(waves)
  BY <1>1 DEF MoveHeld
<1>4. PICK rest : rest = DOMAIN links \ UNION Range(waves) /\ Movable(links, rest, wave)
  BY <1>1 DEF Remaining
<1>9. {} \notin Range(more)
  <2>1. waves \in Seq(SUBSET DOMAIN links) /\ wave \in SUBSET DOMAIN links
    BY <1>3, <1>4 DEF Settled, Movable
  <2>. QED  BY <1>2, <1>3, <2>1 DEF Range
<1>5. Settled(links, more) /\ Awaited(links, more, fewer)
  <2>1. MovesBy(links, waves, waiting, wave, more, fewer)
    BY <1>2 DEF MovesBy
  <2>. QED  BY <1>3, <1>4, <2>1, WaveMoves
<1>6. PICK next : next = [op |-> "simulate", links |-> links, waves |-> more, waiting |-> fewer]
  OBVIOUS
<1>7. WithWave(s, wave) = next
  BY <1>1, <1>2, <1>6 DEF WithWave
<1>8. KnotsHeld(next)
  BY <1>3, <1>5, <1>6, <1>9 DEF KnotsHeld, MoveHeld
<1>. QED  BY <1>7, <1>8

\* One step of taking the rest apart.
LEMMA StillParting ==
    ASSUME NEW s, KnotsHeld(s), s.op = "components",
           NEW next, DOMAIN next = DOMAIN s, next.op = s.op, next.links = s.links,
           next.waves = s.waves, next.waiting = s.waiting,
           Parting(s.links, Remaining(s), next.found, next.work, next.stack, next.low,
                   next.left, next.components),
           Covered(next.found, next.stack, next.components)
    PROVE  KnotsHeld(next)
<1>1. Remaining(next) = Remaining(s)
  BY DEF Remaining
<1>2. MoveHeld(next) /\ DOMAIN next = {"op", "links", "waves", "waiting", "found", "work",
                                       "stack", "low", "left", "components"}
  BY DEF KnotsHeld, MoveHeld
<1>. QED  BY <1>1, <1>2 DEF KnotsHeld

LEMMA MoveStepHeld ==
    ASSUME ServingForm, NEW r \in Requests, KnotsHeld(serving[r]), MoveStep(r)
    PROVE  KnotsHeld(serving'[r])
<1>. DEFINE s == serving[r]
<1>1. ASSUME NEW next, Continues(r, next) \/ Starts(r, "analyses", next)
      PROVE  serving'[r] = next
  BY <1>1 DEF ServingForm, Continues, Starts
<1>2. CASE \E links \in EstateLinks : Simulate(r, links)
  <2>1. PICK estate \in EstateLinks : Simulate(r, estate)
    BY <1>2
  <2>2. PICK links, waiting : links = Once(estate) /\ waiting = Waiting(links)
    OBVIOUS
  <2>3. PICK next : next = [op |-> "simulate", links |-> links, waves |-> <<>>, waiting |-> waiting]
    OBVIOUS
  <2>4. serving'[r] = next
    BY <1>1, <2>1, <2>2, <2>3 DEF Simulate
  <2>5. IsGraph(links) /\ Settled(links, <<>>) /\ Awaited(links, <<>>, waiting)
    BY <2>2, MigrationWavesAssumption, NothingMoved
  <2>6. KnotsHeld(next)
    <3>1. {} \notin Range(<<>>)
      BY DEF Range
    <3>. QED  BY <2>3, <2>5, <3>1 DEF KnotsHeld, MoveHeld
  <2>. QED  BY <2>4, <2>6
<1>3. CASE ReleaseFree(r)
  <2>1. PICK wave : wave = Free(s)
    OBVIOUS
  <2>2. s.op = "simulate" /\ wave # {} /\ serving'[r] = WithWave(s, wave)
    BY <1>1, <1>3, <2>1 DEF ReleaseFree
  <2>3. MoveHeld(s)
    BY <2>2 DEF KnotsHeld
  <2>4. Movable(s.links, Remaining(s), wave)
    BY <2>1, <2>3, FreeMove DEF MoveHeld, Free, Remaining
  <2>. QED  BY <2>2, <2>3, <2>4, MovesOn
<1>4. CASE Stall(r)
  <2>1. PICK rest : rest = Remaining(s)
    OBVIOUS
  <2>2. PICK low, left : /\ low = [n \in DOMAIN s.links |-> 0]
                         /\ left = [n \in DOMAIN s.links |-> Successors(s.links, n) \cap rest]
    OBVIOUS
  <2>3. PICK next : next = [op |-> "components", links |-> s.links, waves |-> s.waves,
                            waiting |-> s.waiting, found |-> <<>>, work |-> <<>>,
                            stack |-> <<>>, low |-> low, left |-> left, components |-> {}]
    OBVIOUS
  <2>4. s.op = "simulate" /\ serving'[r] = next
    BY <1>1, <1>4, <2>1, <2>2, <2>3 DEF Stall
  <2>5. MoveHeld(s)
    BY <2>4 DEF KnotsHeld
  <2>6. NoneBack(s.links, rest)
    BY <2>1, <2>5, RestClosed DEF MoveHeld, Remaining
  <2>7. /\ low \in [DOMAIN s.links -> Nat]
        /\ left \in [DOMAIN s.links -> SUBSET DOMAIN s.links]
        /\ \A n \in rest : left[n] = Successors(s.links, n)
    BY <2>2, <2>6 DEF NoneBack, Successors
  <2>8. Parting(s.links, rest, <<>>, <<>>, <<>>, low, left, {})
    BY <2>6, <2>7, NothingFound
  <2>9. Remaining(next) = rest /\ MoveHeld(next)
    BY <2>1, <2>3, <2>5 DEF Remaining, MoveHeld
  <2>10. KnotsHeld(next)
    <3>1. Covered(<<>>, <<>>, {})
      BY DEF Covered, Range
    <3>2. rest # {}
      BY <1>4, <2>1 DEF Stall
    <3>. QED  BY <2>3, <2>8, <2>9, <3>1, <3>2 DEF KnotsHeld
  <2>. QED  BY <2>4, <2>10
<1>5. CASE Simulated(r)
  <2>1. PICK next : next = [op |-> "simulated", links |-> s.links, waves |-> s.waves]
    OBVIOUS
  <2>2. s.op = "simulate" /\ Remaining(s) = {} /\ serving'[r] = next
    BY <1>1, <1>5, <2>1 DEF Simulated
  <2>3. PICK links, waves : links = s.links /\ waves = s.waves
    OBVIOUS
  <2>4. Settled(links, waves) /\ DOMAIN links \ UNION Range(waves) = {}
    BY <2>2, <2>3 DEF KnotsHeld, MoveHeld, Remaining
  <2>5. next.links = links /\ next.waves = waves /\ next.op = "simulated"
    BY <2>1, <2>3
  <2>6. KnotsMoved(next)
    BY <2>4, <2>5, AllMoved DEF KnotsMoved
  <2>7. KnotsHeld(next)
    <3>1. {} \notin Range(waves)
      BY <2>2, <2>3 DEF KnotsHeld, MoveHeld
    <3>. QED  BY <2>5, <2>6, <3>1 DEF KnotsHeld
  <2>. QED  BY <2>2, <2>7
<1>6. CASE Answers(r)
  <2>1. serving'[r] = Idle
    BY <1>6, AnswersTurns DEF MoveOps
  <2>. QED  BY <2>1 DEF KnotsHeld, Idle
<1>7. CASE s.op = "components"
  <2>1. /\ DOMAIN s = {"op", "links", "waves", "waiting", "found", "work", "stack", "low",
                       "left", "components"}
        /\ MoveHeld(s) /\ Remaining(s) # {}
        /\ Parting(s.links, Remaining(s), s.found, s.work, s.stack, s.low, s.left, s.components)
        /\ Covered(s.found, s.stack, s.components)
    BY <1>7 DEF KnotsHeld
  <2>2. PICK links, rest : links = s.links /\ rest = Remaining(s)
    OBVIOUS
  <2>3. /\ NoneBack(links, rest) /\ rest = DOMAIN links \ UNION Range(s.waves)
        /\ IsGraph(links) /\ Settled(links, s.waves)
    BY <2>1, <2>2, RestClosed DEF MoveHeld, Remaining
  <2>4. /\ Parting(links, rest, s.found, s.work, s.stack, s.low, s.left, s.components)
        /\ Range(s.found) \subseteq rest /\ Range(s.work) \subseteq rest /\ rest \subseteq DOMAIN links
        /\ s.work # <<>> => Last(s.work) \in rest
        /\ \A n \in rest : s.left[n] \subseteq Successors(links, n)
        /\ s.left \in [DOMAIN links -> SUBSET DOMAIN links]
    <3>1. Parting(links, rest, s.found, s.work, s.stack, s.low, s.left, s.components)
      BY <2>1, <2>2
    <3>2. InLists(links, rest, s.found, s.work, s.stack)
      BY <2>3, <3>1, ListsAre DEF Parting
    <3>3. Looked(links, rest, s.found, s.work, s.left)
      BY <3>1 DEF Parting
    <3>. QED  BY <3>1, <3>2, <3>3 DEF InLists, Looked
  <2>5. CASE OpenRoot(r)
    <3>1. PICK unseen, n : unseen = rest \ Range(s.found) /\ n = LeftToRight(unseen)[1]
      OBVIOUS
    <3>2. PICK next : next = Opens(s, n)
      OBVIOUS
    <3>3. s.work = <<>> /\ unseen # {} /\ serving'[r] = next
      BY <1>1, <2>2, <2>5, <3>1, <3>2 DEF OpenRoot
    <3>4. n \in unseen
      <4>1. unseen \in SUBSET Nat /\ IsFiniteSet(unseen)
        BY <2>3, <3>1, FS_Subset DEF IsGraph
      <4>2. Lists(LeftToRight(unseen), unseen)
        BY <4>1, LeftToRightLists
      <4>3. Cardinality(unseen) \in Nat /\ Cardinality(unseen) # 0
        BY <3>3, <4>1, FS_CardinalityType, FS_EmptySet
      <4>. QED  BY <3>1, <4>2, <4>3 DEF Lists
    <3>5. /\ DOMAIN next = DOMAIN s /\ next.op = s.op /\ next.links = s.links
          /\ next.waves = s.waves /\ next.waiting = s.waiting
          /\ next.found = Append(s.found, n) /\ next.work = Append(s.work, n)
          /\ next.stack = Append(s.stack, n)
          /\ next.low = [s.low EXCEPT ![n] = Len(s.found) + 1]
          /\ next.left = s.left /\ next.components = s.components
      BY <2>1, <3>2 DEF Opens
    <3>6. n \in rest /\ n \notin Range(s.found)
      BY <3>1, <3>4
    <3>7. OpensNext(s.found, s.work, s.stack, s.low, s.left, n, next.found, next.work,
                    next.stack, next.low, next.left)
      BY <3>3, <3>5 DEF OpensNext
    <3>8. Parting(links, rest, next.found, next.work, next.stack, next.low, next.left,
                  s.components)
      BY <2>3, <2>4, <3>3, <3>6, <3>7, OpensOne
    <3>9. Covered(next.found, next.stack, next.components)
      <4>1. Listed(rest, s.found, s.work, s.stack)
        BY <2>4 DEF Parting
      <4>2. Covered(Append(s.found, n), Append(s.stack, n), s.components)
        BY <2>1, <3>6, <4>1, CoveredOpen
      <4>. QED  BY <3>5, <4>2
    <3>. QED  BY <1>7, <2>2, <3>3, <3>5, <3>8, <3>9, StillParting
  <2>6. CASE Look(r)
    <3>1. PICK top : top = Last(s.work)
      OBVIOUS
    <3>2. PICK n, looked :
             /\ s.work # <<>> /\ n \in s.left[top]
             /\ looked = [s EXCEPT !.left[top] = @ \ {n}]
             /\ Continues(r, IF n \notin Range(s.found) THEN Opens(looked, n)
                             ELSE IF n \in Range(s.stack)
                             THEN [looked EXCEPT !.low[top] = Lower(@, Index(s, n))]
                             ELSE looked)
      BY <2>6, <3>1 DEF Look
    <3>3. PICK left : left = [s.left EXCEPT ![top] = s.left[top] \ {n}]
      OBVIOUS
    <3>4. /\ DOMAIN looked = DOMAIN s /\ looked.op = s.op /\ looked.links = s.links
          /\ looked.waves = s.waves /\ looked.waiting = s.waiting
          /\ looked.found = s.found /\ looked.work = s.work /\ looked.stack = s.stack
          /\ looked.low = s.low /\ looked.left = left /\ looked.components = s.components
      BY <2>1, <3>2, <3>3
    <3>5. /\ top \in rest /\ n \in Successors(links, top) /\ n \in rest
      <4>1. top \in rest /\ n \in Successors(links, top)
        BY <2>4, <3>1, <3>2
      <4>. QED  BY <2>3, <4>1 DEF NoneBack
    <3>6. CASE n \notin Range(s.found)
      <4>1. PICK next : next = Opens(looked, n)
        OBVIOUS
      <4>2. serving'[r] = next
        BY <1>1, <3>2, <3>6, <4>1
      <4>3. /\ DOMAIN next = DOMAIN s /\ next.op = s.op /\ next.links = s.links
            /\ next.waves = s.waves /\ next.waiting = s.waiting
            /\ next.found = Append(s.found, n) /\ next.work = Append(s.work, n)
            /\ next.stack = Append(s.stack, n)
            /\ next.low = [s.low EXCEPT ![n] = Len(s.found) + 1]
            /\ next.left = left /\ next.components = s.components
        <5>1. DOMAIN looked = {"op", "links", "waves", "waiting", "found", "work", "stack",
                               "low", "left", "components"}
          BY <2>1, <3>4
        <5>. QED  BY <3>4, <4>1, <5>1 DEF Opens
      <4>4. left = IF s.work = <<>> THEN s.left
                   ELSE [s.left EXCEPT ![Last(s.work)] = s.left[Last(s.work)] \ {n}]
        BY <3>1, <3>2, <3>3
      <4>5. s.work # <<>> => n \in Successors(links, Last(s.work))
        BY <3>1, <3>5
      <4>6. OpensNext(s.found, s.work, s.stack, s.low, s.left, n, next.found, next.work,
                      next.stack, next.low, next.left)
        BY <4>3, <4>4 DEF OpensNext
      <4>7. Parting(links, rest, next.found, next.work, next.stack, next.low, next.left,
                    s.components)
        BY <2>3, <2>4, <3>5, <3>6, <4>5, <4>6, OpensOne
      <4>8. Covered(next.found, next.stack, next.components)
        <5>1. Listed(rest, s.found, s.work, s.stack)
          BY <2>4 DEF Parting
        <5>2. Covered(Append(s.found, n), Append(s.stack, n), s.components)
          BY <2>1, <3>5, <5>1, CoveredOpen
        <5>. QED  BY <4>3, <5>2
      <4>. QED  BY <1>7, <2>2, <4>2, <4>3, <4>7, <4>8, StillParting
    <3>7. CASE n \in Range(s.found)
      <4>1. PICK low : low = IF n \in Range(s.stack)
                             THEN [s.low EXCEPT ![top] = Lower(s.low[top], At(s.found, n))]
                             ELSE s.low
        OBVIOUS
      <4>2. PICK next : next = IF n \in Range(s.stack)
                               THEN [looked EXCEPT !.low[top] = Lower(@, Index(s, n))] ELSE looked
        OBVIOUS
      <4>3. serving'[r] = next
        BY <1>1, <3>2, <3>7, <4>2
      <4>4. Index(s, n) = At(s.found, n)
        BY DEF Index, At
      <4>5. /\ DOMAIN next = DOMAIN s /\ next.op = s.op /\ next.links = s.links
            /\ next.waves = s.waves /\ next.waiting = s.waiting
            /\ next.found = s.found /\ next.work = s.work /\ next.stack = s.stack
            /\ next.low = low /\ next.left = left /\ next.components = s.components
        <5>1. CASE n \in Range(s.stack)
          <6>1. next = [looked EXCEPT !.low[top] = Lower(@, At(s.found, n))]
            BY <4>2, <4>4, <5>1
          <6>2. low = [looked.low EXCEPT ![top] = Lower(looked.low[top], At(s.found, n))]
            BY <3>4, <4>1, <5>1
          <6>. QED  BY <2>1, <3>4, <6>1, <6>2
        <5>2. CASE n \notin Range(s.stack)
          <6>1. next = looked /\ low = s.low
            BY <4>1, <4>2, <5>2
          <6>. QED  BY <3>4, <6>1
        <5>. QED  BY <5>1, <5>2
      <4>6. Parting(links, rest, s.found, s.work, s.stack, low, left, s.components)
        <5>1. PICK found, work, stack, prior, before, components :
                 /\ found = s.found /\ work = s.work /\ stack = s.stack
                 /\ prior = s.low /\ before = s.left /\ components = s.components
          OBVIOUS
        <5>2. /\ Parting(links, rest, found, work, stack, prior, before, components)
              /\ work # <<>> /\ top = Last(work) /\ n \in before[top] /\ n \in Range(found)
          BY <2>4, <3>1, <3>2, <3>7, <5>1
        <5>3. left = [before EXCEPT ![top] = before[top] \ {n}]
          BY <3>3, <5>1
        <5>4. low = IF n \in Range(stack)
                    THEN [prior EXCEPT ![top] = Lower(prior[top], At(found, n))] ELSE prior
          BY <4>1, <5>1
        <5>5. Parting(links, rest, found, work, stack, low, left, components)
          BY <2>3, <5>2, <5>3, <5>4, LooksAtOne
        <5>. QED  BY <5>1, <5>5
      <4>7. Covered(next.found, next.stack, next.components)
        BY <2>1, <4>5
      <4>. QED  BY <1>7, <2>2, <4>3, <4>5, <4>6, <4>7, StillParting
    <3>. QED  BY <3>6, <3>7
  <2>7. CASE Close(r)
    <3>1. PICK top, less : top = Last(s.work) /\ less = Front(s.work)
      OBVIOUS
    <3>2. PICK place : place = CHOOSE i \in DOMAIN s.stack : s.stack[i] = top
      OBVIOUS
    <3>3. PICK low : low = IF less = <<>> THEN s.low
                           ELSE [s.low EXCEPT ![Last(less)] = Lower(s.low[Last(less)], s.low[top])]
      OBVIOUS
    <3>4. PICK lower, upper : /\ lower = SubSeq(s.stack, 1, place - 1)
                              /\ upper = SubSeq(s.stack, place, Len(s.stack))
      OBVIOUS
    <3>5. PICK closed : closed = Closed(s)
      OBVIOUS
    <3>6. PICK next : next = IF less = <<>> THEN [closed EXCEPT !.work = less]
                             ELSE [closed EXCEPT !.work = less,
                                                 !.low[Last(less)] = Lower(@, s.low[top])]
      OBVIOUS
    <3>7. s.work # <<>> /\ s.left[top] = {} /\ serving'[r] = next
      BY <1>1, <2>7, <3>1, <3>5, <3>6 DEF Close
    <3>8. Index(s, top) = At(s.found, top)
      BY DEF Index, At
    <3>9. PICK stack, components :
             /\ stack = IF s.low[top] = At(s.found, top) THEN lower ELSE s.stack
             /\ components = IF s.low[top] = At(s.found, top)
                             THEN s.components \cup {Range(upper)} ELSE s.components
      OBVIOUS
    <3>11. /\ DOMAIN closed = DOMAIN s /\ closed.op = s.op /\ closed.links = s.links
           /\ closed.waves = s.waves /\ closed.waiting = s.waiting
           /\ closed.found = s.found /\ closed.work = s.work /\ closed.stack = stack
           /\ closed.low = s.low /\ closed.left = s.left /\ closed.components = components
      <4>1. closed = IF s.low[top] = At(s.found, top)
                     THEN [s EXCEPT !.components = @ \cup {Range(upper)}, !.stack = lower]
                     ELSE s
        BY <3>1, <3>2, <3>4, <3>5, <3>8 DEF Closed
      <4>2. CASE s.low[top] = At(s.found, top)
        <5>1. stack = lower /\ components = s.components \cup {Range(upper)}
          BY <3>9, <4>2
        <5>. QED  BY <2>1, <4>1, <4>2, <5>1
      <4>3. CASE s.low[top] # At(s.found, top)
        <5>1. stack = s.stack /\ components = s.components /\ closed = s
          BY <3>9, <4>1, <4>3
        <5>. QED  BY <5>1
      <4>. QED  BY <4>2, <4>3
    <3>12. /\ DOMAIN next = DOMAIN s /\ next.op = s.op /\ next.links = s.links
           /\ next.waves = s.waves /\ next.waiting = s.waiting
           /\ next.found = s.found /\ next.work = less /\ next.stack = stack
           /\ next.low = low /\ next.left = s.left /\ next.components = components
      <4>1. CASE less = <<>>
        BY <2>1, <3>3, <3>6, <3>11, <4>1
      <4>2. CASE less # <<>>
        BY <2>1, <3>3, <3>6, <3>11, <4>2
      <4>. QED  BY <4>1, <4>2
    <3>13. Parting(links, rest, s.found, less, stack, low, s.left, components)
      <4>1. CASE s.low[top] = At(s.found, top)
        <5>1. EndsWith(s.work, s.stack, s.low, top, less, lower, upper, low)
          BY <3>1, <3>2, <3>3, <3>4, Zenon DEF EndsWith
        <5>2. stack = lower /\ components = s.components \cup {Range(upper)}
          BY <3>9, <4>1
        <5>. QED  BY <2>3, <2>4, <3>1, <3>7, <4>1, <5>1, <5>2, EndsComponent
      <4>2. CASE s.low[top] # At(s.found, top)
        <5>1. Parting(links, rest, s.found, less, s.stack, low, s.left, s.components)
          BY <2>3, <2>4, <3>1, <3>3, <3>7, <4>2, EndsOnStack
        <5>. QED  BY <3>9, <4>2, <5>1
      <4>. QED  BY <4>1, <4>2
    <3>14. Covered(s.found, stack, components)
      <4>1. Listed(rest, s.found, s.work, s.stack)
        BY <2>4 DEF Parting
      <4>2. Covered(s.found, lower, s.components \cup {Range(upper)})
        <5>1. Cut(s.stack, place, lower, upper)
          BY <3>4 DEF Cut
        <5>2. top \in Range(s.work)
          <6>1. InLists(links, rest, s.found, s.work, s.stack)
            BY <2>3, <4>1, ListsAre
          <6>. QED  BY <3>1, <3>7, <6>1 DEF InLists
        <5>3. place \in DOMAIN s.stack /\ s.stack[place] = top
          <6>1. Range(s.work) \subseteq Range(s.stack)
            BY <4>1 DEF Listed
          <6>2. \E i \in DOMAIN s.stack : s.stack[i] = top
            BY <5>2, <6>1 DEF Range
          <6>. QED  BY <3>2, <6>2
        <5>4. Covered(s.found, s.stack, s.components)
          BY <2>1
        <5>. QED  BY <4>1, <5>1, <5>2, <5>3, <5>4, CoveredClose
      <4>. QED  BY <2>1, <3>9, <4>2
    <3>. QED  BY <1>7, <2>2, <3>7, <3>12, <3>13, <3>14, StillParting
  <2>8. CASE ReleaseKnots(r)
    <3>1. PICK moving : moving = {c \in s.components : ~Waits(s, c)}
      OBVIOUS
    <3>2. serving'[r] = WithWave(s, UNION moving) /\ s.work = <<>> /\ Range(s.found) = rest
      BY <1>1, <2>2, <2>8, <3>1 DEF ReleaseKnots
    <3>3. FreeKnots(links, rest, moving)
      <4>. SUFFICES ASSUME NEW c \in moving
                    PROVE  /\ \E n \in rest : c = KnotOf(links, n)
                           /\ \A u \in rest \ c : Successors(links, u) \cap c = {}
        BY DEF FreeKnots
      <4>1. c \in s.components /\ ~Waits(s, c)
        BY <3>1
      <4>2. \E n \in rest : c = KnotOf(links, n)
        BY <2>4, <4>1 DEF Parting
      <4>. QED  BY <2>2, <4>1, <4>2 DEF Waits
    <3>4. Movable(links, rest, UNION moving)
      <4>1. PICK waves : waves = s.waves
        OBVIOUS
      <4>2. Settled(links, waves)
        BY <2>3, <4>1
      <4>3. rest = DOMAIN links \ UNION Range(waves)
        BY <2>3, <4>1
      <4>. QED  BY <3>3, <4>2, <4>3, KnotsMove
    <3>5. UNION moving # {}
      <4>1. PICK components : components = s.components
        OBVIOUS
      <4>2. rest \subseteq UNION components
        BY <2>1, <2>4, <3>2, <4>1, StackEmptied DEF Covered
      <4>3. \A c \in components : \E n \in rest : c = KnotOf(links, n)
        BY <2>4, <4>1 DEF Parting
      <4>4. rest # {} /\ IsFiniteSet(rest) /\ rest \subseteq DOMAIN links
        BY <2>1, <2>2, <2>3, FS_Subset DEF IsGraph
      <4>5. SomeFree(links, rest, components)
        <5>1. Parts(links, rest, components)
          BY <4>2, <4>3 DEF Parts
        <5>. QED  BY <4>4, <5>1, SomeKnotIsFree
      <4>6. PICK c \in components :
               c # {} /\ \A u \in rest \ c : Successors(links, u) \cap c = {}
        BY <4>5 DEF SomeFree
      <4>. QED  BY <2>2, <3>1, <4>1, <4>6 DEF Waits
    <3>. QED  BY <2>1, <2>2, <3>2, <3>4, <3>5, MovesOn
  <2>. QED  BY <1>2, <1>3, <1>4, <1>5, <1>6, <2>5, <2>6, <2>7, <2>8 DEF MoveStep
<1>. QED
  BY <1>2, <1>3, <1>4, <1>5, <1>6, <1>7 DEF MoveStep, OpenRoot, Look, Close, ReleaseKnots

\* What all others do turns no request into a migration.
LEMMA KnotsElsewhere ==
    ASSUME KnotsInv, NEW ops, OnlyTurns(ops),
           ops \cap {"simulate", "components", "simulated"} = {}, ServingForm'
    PROVE  KnotsInv'
<1>1. \A r \in Requests : KnotsHeld(serving'[r])
  <2>1. CASE \E r \in Requests : Turns(r, ops)
    BY <2>1 DEF KnotsInv, KnotsHeld, Turns, ServingForm
  <2>2. CASE \A r \in Requests : serving'[r] \in {serving[r], Idle}
    BY <2>2 DEF KnotsInv, KnotsHeld, Idle
  <2>. QED  BY <2>1, <2>2 DEF OnlyTurns
<1>. QED  BY <1>1 DEF KnotsInv

LEMMA KnotsAlways == Spec => []KnotsInv
<1>1. Init => KnotsInv
  BY DEF Init, WorkersInit, KnotsInv, ServingForm, KnotsHeld, Idle
<1>2. KnotsInv /\ ServingForm' /\ [Next]_vars => KnotsInv'
  <2>. SUFFICES ASSUME KnotsInv, ServingForm', [Next]_vars PROVE KnotsInv'
    OBVIOUS
  <2>1. ServingForm
    BY DEF KnotsInv
  <2>2. ASSUME NEW r \in Requests, TaskOrdersStep(r) \/ MigrationWavesStep(r)
        PROVE  KnotsInv'
    <3>1. CASE Turns(r, SortOps) \/ Turns(r, SearchOps)
      BY <3>1, KnotsElsewhere DEF OnlyTurns, SortOps, SearchOps
    <3>2. CASE MoveStep(r) /\ Turns(r, MoveOps)
      <4>1. KnotsHeld(serving'[r])
        BY <2>1, <3>2, MoveStepHeld DEF KnotsInv
      <4>2. \A q \in Requests \ {r} : serving'[q] = serving[q]
        BY <3>2 DEF Turns, ServingForm
      <4>. QED  BY <4>1, <4>2 DEF KnotsInv
    <3>. QED  BY <2>1, <2>2, <3>1, <3>2, OrdersTurnsApart
  <2>3. ASSUME NEW r \in Requests, WorkspacesStep(r) \/ AgentsStep(r) \/ ConnectionsStep(r)
        PROVE  KnotsInv'
    <3>1. OnlyTurns(PeopleOps) \/ OnlyTurns(AgentsOps) \/ OnlyTurns(ConnectionsOps)
      BY <2>1, <2>3, PeopleTurns, AgentsTurns, ConnectionsTurns DEF OnlyTurns
    <3>. QED
      BY <3>1, KnotsElsewhere DEF PeopleOps, AgentsOps, ConnectionsOps
  <2>4. ASSUME NEW p \in Processes, Restart(p) PROVE KnotsInv'
    <3>1. OnlyTurns(PeopleOps)
      BY <2>1, <2>4, RestartTurns
    <3>. QED  BY <3>1, KnotsElsewhere DEF PeopleOps
  <2>5. CASE UNCHANGED vars
    BY <2>5 DEF vars, KnotsInv
  <2>. QED  BY <2>2, <2>3, <2>4, <2>5 DEF Next
<1>3. SecretsInv => ServingForm
  BY DEF SecretsInv
<1>. QED  BY <1>1, <1>2, <1>3, SecretsAlways, PTL DEF Spec

\* simulate_migration: whatever the estate, each object moves in one wave, the
\* objects of a knot move together, and none of them before an object outside
\* the knot that they take data from; and no wave moves nothing.
THEOREM KnotsAlwaysMoveTogether == Spec => []KnotsMoveTogether
<1>1. KnotsInv => KnotsMoveTogether
  <2>. SUFFICES ASSUME KnotsInv, NEW r \in Requests, NEW s, s = serving[r]
                PROVE  /\ s.op \in {"simulate", "simulated"} => {} \notin Range(s.waves)
                       /\ s.op = "simulated" => KnotsMoved(s)
    BY Zenon DEF KnotsMoved, KnotsMoveTogether
  <2>. QED  BY DEF KnotsInv, KnotsHeld, MoveHeld
<1>. QED  BY <1>1, KnotsAlways, PTL
=============================================================================
