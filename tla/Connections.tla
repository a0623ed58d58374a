------------------------------ MODULE Connections ------------------------------
(***************************************************************************)
(* Saved connections of a workspace: one file, which every change reads    *)
(* whole, empties, and writes whole, without a lock. Most handlers run in  *)
(* a thread, so that those of one process interleave as those of several   *)
(* do. A test and an analysis ask the system behind a connection in        *)
(* between, with what they read before.                                    *)
(***************************************************************************)
EXTENDS Workers

CONSTANTS
    Saved,          \* the ids connections may get
    Targets         \* what a connection may point to: its parameters

VARIABLES
    connections,    \* connections.json: id to its row
    inventories     \* connection_inventory: the target whose objects are listed

connectionsVars == <<connections, inventories>>

None == "none"

\* Evidence is kept with the target it is about, which the file does not say.
Evidence(result, target) == [result |-> result, of |-> target]
NoTest == Evidence(None, None)
Tests == {NoTest, Evidence("testing", None)} \cup
         {Evidence(result, target) : result \in {"ok", "failed", "unsupported"},
                                     target \in Targets}

\* secret: the target the saved password was entered for.
Rows == [target : Targets, status : {"active", "stopped"}, test : Tests,
         analysis : Targets \cup {None}, secret : Targets \cup {None}]

\* connection_state.
Connected(row) ==
    /\ row.status = "active"
    /\ \/ row.test.result = "ok"
       \/ row.test.result \notin {"testing", "failed"} /\ row.analysis # None

\* _write opens the file, which empties it, and then writes it; to _load, a
\* file that cannot be read has no rows.
Rewrites(r, rows, next) == Continues(r, [op |-> "rewrite", rows |-> rows, next |-> next])

Empties(r) ==
    /\ serving[r].op = "rewrite"
    /\ connections' = <<>>
    /\ Continues(r, [serving[r] EXCEPT !.op = "fill"])
    /\ UNCHANGED inventories

Fills(r) ==
    /\ serving[r].op = "fill"
    /\ connections' = serving[r].rows
    /\ Continues(r, serving[r].next)
    /\ UNCHANGED inventories

Asks(r, request) ==
    /\ Starts(r, "connections", request)
    /\ UNCHANGED connectionsVars

\* A change begins with a read of the file.
Changes(r, rows, next) ==
    Asks(r, [op |-> "rewrite", rows |-> rows, next |-> next])

(***************************************************************************)
(* save_connection. entered: whether a password comes with the parameters; *)
(* keeps: whether it is to be saved. The console sends no test with it.    *)
(***************************************************************************)
\* Faulty: a password that is not entered again follows the new target.
KeptWherever(row, target, keeps, entered) ==
    IF keeps /\ entered THEN target ELSE IF keeps THEN row.secret ELSE None

Kept(row, target, keeps, entered) ==
    IF keeps /\ entered THEN target
    ELSE IF keeps /\ row.target = target THEN row.secret ELSE None

\* A connection that points elsewhere is untested again.
Edited(row, target, keeps, entered) ==
    [row EXCEPT !.target = target,
                !.secret = Kept(row, target, keeps, entered),
                !.test = IF row.target = target THEN @ ELSE NoTest,
                !.analysis = IF row.target = target THEN @ ELSE None]

Edit(r, id, target, keeps, entered) ==
    /\ id \in DOMAIN connections
    /\ Changes(r, [connections EXCEPT ![id] = Edited(@, target, keeps, entered)], Idle)

\* One with the same parameters is updated rather than made twice.
SaveAgain(r, id, target, keeps, entered) ==
    /\ id \in DOMAIN connections
    /\ connections[id].target = target
    /\ Changes(r, [connections EXCEPT ![id].secret = IF keeps /\ entered THEN target ELSE @], Idle)

\* The ids a handler has in hand.
InHand(s) == (IF "id" \in DOMAIN s THEN {s.id} ELSE {}) \cup
             (IF "rows" \in DOMAIN s THEN DOMAIN s.rows ELSE {})

\* An id is drawn at random: it is nobody's yet.
Unused(id) ==
    /\ id \notin DOMAIN connections
    /\ inventories[id] = None
    /\ \A q \in Requests :
          LET s == serving[q] IN
          /\ id \notin InHand(s)
          /\ "next" \in DOMAIN s => id \notin InHand(s.next)

SaveNew(r, id, target, keeps, entered) ==
    /\ \A other \in DOMAIN connections : connections[other].target # target
    /\ Unused(id)
    /\ LET row == [target |-> target, status |-> "active", test |-> NoTest, analysis |-> None,
                   secret |-> IF keeps /\ entered THEN target ELSE None] IN
       Changes(r, [other \in DOMAIN connections \cup {id} |->
                     IF other = id THEN row ELSE connections[other]], Idle)

(***************************************************************************)
(* set_status and delete_connection.                                       *)
(***************************************************************************)
SetConnection(r, id, status) ==
    /\ id \in DOMAIN connections
    /\ Changes(r, [connections EXCEPT ![id].status = status], Idle)

Delete(r, id) ==
    /\ id \in DOMAIN connections
    /\ Changes(r, [other \in DOMAIN connections \ {id} |-> connections[other]],
               [op |-> "forget", id |-> id])

Forget(r) ==
    /\ serving[r].op = "forget"
    /\ inventories' = [inventories EXCEPT ![serving[r].id] = None]
    /\ Answers(r)
    /\ UNCHANGED connections

(***************************************************************************)
(* v1_connection_test: resolve_params, mark_testing, the probe of what was *)
(* resolved, record_test.                                                  *)
(***************************************************************************)
\* A connection that is stopped is refused.
Usable(id) == id \in DOMAIN connections /\ connections[id].status = "active"

Test(r, id) ==
    /\ Usable(id)
    /\ Asks(r, [op |-> "test", id |-> id, target |-> connections[id].target])

WithTest(id, test) == [connections EXCEPT ![id].test = test]

MarkTesting(r) ==
    LET s == serving[r]
        probe == [s EXCEPT !.op = "probe"] IN
    /\ s.op = "test"
    /\ IF s.id \in DOMAIN connections
       THEN Rewrites(r, WithTest(s.id, Evidence("testing", None)), probe)
       ELSE Continues(r, probe)
    /\ UNCHANGED connectionsVars

RecordTest(r, result) ==
    LET s == serving[r] IN
    /\ s.op = "probe"
    /\ IF s.id \in DOMAIN connections
       THEN Rewrites(r, WithTest(s.id, Evidence(result, s.target)), Idle)
       ELSE Answers(r)
    /\ UNCHANGED connectionsVars

(***************************************************************************)
(* v1_connection_introspect: resolve_params, the analysis, and if it is    *)
(* one, record_analysis and record_inventory.                              *)
(***************************************************************************)
Introspect(r, id) ==
    /\ Usable(id)
    /\ Asks(r, [op |-> "introspect", id |-> id, target |-> connections[id].target])

RecordAnalysis(r, ok) ==
    LET s == serving[r]
        list == [s EXCEPT !.op = "list"] IN
    /\ s.op = "introspect"
    /\ IF ~ok THEN Answers(r)
       ELSE IF s.id \in DOMAIN connections
       THEN Rewrites(r, [connections EXCEPT ![s.id].analysis = s.target], list)
       ELSE Continues(r, list)
    /\ UNCHANGED connectionsVars

RecordInventory(r) ==
    /\ serving[r].op = "list"
    /\ inventories' = [inventories EXCEPT ![serving[r].id] = serving[r].target]
    /\ Answers(r)
    /\ UNCHANGED connections

\* Building the digital twin, and a run of the agents, analyse what was not.
IntrospectUnlisted(r, id) ==
    /\ Usable(id)
    /\ inventories[id] = None
    /\ Asks(r, [op |-> "list", id |-> id, target |-> connections[id].target])

ConnectionsStep(r) ==
    \/ /\ MayStart(r, "connections")
       /\ \E id \in Saved :
             \/ \E target \in Targets, keeps, entered \in BOOLEAN :
                   \/ Edit(r, id, target, keeps, entered)
                   \/ SaveAgain(r, id, target, keeps, entered)
                   \/ SaveNew(r, id, target, keeps, entered)
             \/ \E status \in {"active", "stopped"} : SetConnection(r, id, status)
             \/ Delete(r, id)
             \/ Test(r, id)
             \/ Introspect(r, id)
             \/ IntrospectUnlisted(r, id)
    \/ \E result \in {"ok", "failed", "unsupported"} : RecordTest(r, result)
    \/ \E ok \in BOOLEAN : RecordAnalysis(r, ok)
    \/ Empties(r)
    \/ Fills(r)
    \/ Forget(r)
    \/ MarkTesting(r)
    \/ RecordInventory(r)
=============================================================================
