------------------------------- MODULE MCConsole -------------------------------
(***************************************************************************)
(* Instances of Console for TLC.                                           *)
(***************************************************************************)
EXTENDS Console

Spare(budget) ==
    [desk \in Desks |-> IF desk \in DOMAIN budget THEN budget[desk] ELSE 0]

MCEmpty == {Spare([people |-> 5])}
MCStaffed == {Spare([people |-> 3]), Spare([runs |-> 2]),
              Spare([runs |-> 1, decisions |-> 3]),
              Spare([people |-> 1, runs |-> 1, decisions |-> 1])}
MCPlan == {Spare([plans |-> 1])}
MCOrder == {Spare([analyses |-> 1])}
MCSaved == {Spare([connections |-> 4])}
NoSpare == {}

\* Agent 2 needs 1, and 3 needs both.
MCGraph == [a \in Agents |-> {b \in Agents : b < a}]

Result(confidence, sensitive) ==
    [failed |-> FALSE, confidence |-> confidence, sensitive |-> sensitive]
MCResults == {[failed |-> TRUE, confidence |-> "hopeless", sensitive |-> FALSE],
              Result("hopeless", FALSE), Result("high", FALSE), Result("high", TRUE)}
MCPreauthorized == {{}, {2}}
MCRisky == {2, 3}
MCSelections == {{1, 2, 3}, {2, 3}}

\* Tasks may depend on themselves, or be linked twice; objects in any way by
\* at most five edges.
Links(n, most) == [1 .. n -> [1 .. n -> 0 .. most]]
NoLoops(links) == \A t \in DOMAIN links : links[t][t] = 0
MCTaskLinks == Links(3, 1) \cup {links \in Links(3, 2) : NoLoops(links)}
MCEstateLinks == {[t \in 1 .. 4 |-> [u \in 1 .. 4 |-> IF <<t, u>> \in edges THEN 1 ELSE 0]] :
                    edges \in UNION {kSubset(k, {<<t, u>> \in (1 .. 4) \X (1 .. 4) : t # u}) :
                                       k \in 0 .. 5}}
                  \cup Links(2, 1)

Symmetry == Permutations(Users) \cup Permutations(Saved) \cup Permutations(Targets) \cup
            Permutations(Requests) \cup Permutations(Processes)
=============================================================================
