-------------------------------- MODULE Packages --------------------------------
(***************************************************************************)
(* The catalog of the marketplace, and resolve: which packages one must    *)
(* install to have a given one. A package is a version of an item. A       *)
(* dependency names an item and the versions of it that will do; a range   *)
(* of versions is the set of those it admits. resolve calls collect, which *)
(* calls itself along every chain of dependencies, and then visit, which   *)
(* orders the final choices; each call of the two is a step.               *)
(***************************************************************************)
EXTENDS Workers, SequencesExt

CONSTANTS
    Items,
    Newest,     \* Bound: the versions of an item are among 1 .. Newest
    None        \* no package, no plugin

Versions == 1 .. Newest

Package(i, v) == [item |-> i, version |-> v]

ASSUME PackagesAssumption ==
    /\ Newest \in Nat
    /\ None \notin Items
    /\ \A i \in Items, v \in Versions : None # Package(i, v)

VARIABLE
    catalog     \* what is published, by item and version; it does not change

\* catalog[i][v]: a published package, whether it passes the gates, the plugin
\* it registers, and its dependencies in their order.
Needs(p) == catalog[p.item][p.version].needs
Published == UNION {{Package(i, v) : v \in DOMAIN catalog[i]} : i \in DOMAIN catalog}

\* MarketplaceCatalog.get, without a version.
Latest(i) == Package(i, Max(DOMAIN catalog[i]))

Dependencies == [item : Items, accepts : SUBSET Versions]

\* A catalog that MarketplaceCatalog.publish may have left.
WellFormed(c) ==
    /\ DOMAIN c \subseteq Items
    /\ \A i \in DOMAIN c :
          /\ DOMAIN c[i] \in (SUBSET Versions) \ {{}}
          /\ \A v \in DOMAIN c[i] : c[i][v].needs \in Seq(Dependencies)

(***************************************************************************)
(* What is asked of each item. wants has the items that were asked for, as *)
(* the keys of the code's constraints, and the versions all demands admit. *)
(***************************************************************************)
NoDemands == [i \in {} |-> Versions]

Admissible(wants, i) == IF i \in DOMAIN wants THEN wants[i] ELSE Versions

\* Faulty: only the last demand counts.
DemandedLast(wants, i, accepts) ==
    [j \in DOMAIN wants \cup {i} |-> IF j = i THEN accepts ELSE wants[j]]

Demanded(wants, i, accepts) ==
    [j \in DOMAIN wants \cup {i} |->
        IF j = i THEN Admissible(wants, i) \cap accepts ELSE wants[j]]

\* Faulty: the oldest version that will do.
ChosenOldest(wants, i) ==
    LET fitting == DOMAIN catalog[i] \cap Admissible(wants, i) IN
    IF fitting = {} THEN None ELSE Package(i, Min(fitting))

\* _choose: the newest version that all demands admit.
Chosen(wants, i) ==
    LET fitting == IF i \in DOMAIN catalog THEN DOMAIN catalog[i] \cap Admissible(wants, i)
                   ELSE {} IN
    IF fitting = {} THEN None ELSE Package(i, Max(fitting))

(***************************************************************************)
(* resolve, for a request s. Its path is the calls that have not returned, *)
(* the latest last: each is about an item, and has dependencies left.      *)
(***************************************************************************)
Call(p) == [item |-> p.item, left |-> Needs(p)]
OnPath(path) == {path[k].item : k \in DOMAIN path}
Left(path) == Last(path).left
PassedOver(path) == [path EXCEPT ![Len(path)].left = Tail(@)]

\* The packages to install, dependencies first; none if it is refused.
Resolved(s, chain) ==
    [op |-> "gate", root |-> s.root, chain |-> chain, flags |-> s.flags,
     pending |-> s.pending, applied |-> s.applied]

Refused(s) == Resolved(s, <<>>)

\* An item met again on its own chain is a cycle.
Collect(r) ==
    LET s == serving[r]
        need == Head(Left(s.path))
        wants == Demanded(s.wants, need.item, need.accepts)
        chosen == Chosen(wants, need.item) IN
    /\ s.op = "collect"
    /\ Left(s.path) # <<>>
    /\ Continues(r, IF need.item \in OnPath(s.path) \/ chosen = None THEN Refused(s)
                    ELSE [s EXCEPT !.wants = wants,
                                   !.path = Append(PassedOver(@), Call(chosen))])

CollectReturns(r) ==
    LET s == serving[r] IN
    /\ s.op = "collect"
    /\ Left(s.path) = <<>>
    /\ Continues(r, IF Len(s.path) > 1 THEN [s EXCEPT !.path = Front(@)]
                    ELSE [op |-> "visit", root |-> s.root, wants |-> s.wants,
                          path |-> <<Call(Chosen(s.wants, s.root.item))>>, order |-> <<>>,
                          flags |-> s.flags, pending |-> s.pending, applied |-> s.applied])

\* A dependency is left when it is in order. visit looks for cycles again; what
\* collect has accepted has none.
Visit(r) ==
    LET s == serving[r]
        i == Head(Left(s.path)).item
        chosen == Chosen(s.wants, i) IN
    /\ s.op = "visit"
    /\ Left(s.path) # <<>>
    /\ Continues(r, IF i \in Range(s.order) THEN [s EXCEPT !.path = PassedOver(@)]
                    ELSE IF i \in OnPath(s.path) \/ chosen = None THEN Refused(s)
                    ELSE [s EXCEPT !.path = Append(@, Call(chosen))])

VisitReturns(r) ==
    LET s == serving[r]
        order == Append(s.order, Last(s.path).item) IN
    /\ s.op = "visit"
    /\ Left(s.path) = <<>>
    /\ Continues(r, IF Len(s.path) > 1 THEN [s EXCEPT !.path = Front(@), !.order = order]
                    ELSE Resolved(s, [k \in DOMAIN order |-> Chosen(s.wants, order[k])]))

ResolveStep(r) ==
    /\ Collect(r) \/ CollectReturns(r) \/ Visit(r) \/ VisitReturns(r)
    /\ UNCHANGED catalog
=============================================================================
