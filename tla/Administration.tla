----------------------------- MODULE Administration -----------------------------
(***************************************************************************)
(* The pages of the web application that administer an instance: the       *)
(* marketplace that installs packages, and the accounts that sign in,      *)
(* served by worker processes that may die between any two file operations.*)
(***************************************************************************)
EXTENDS Marketplace, SignIns

CONSTANTS
    Catalogs,       \* Bound: what may be published, and how many requests come then
    SignInsSpare    \* Bound: how many requests come to sign in

ASSUME AdministrationAssumption ==
    /\ \A c \in Catalogs : WellFormed(c.catalog)
    /\ SignInsSpare \cup {c.spare : c \in Catalogs} \subseteq [Desks -> Nat]

vars == <<process, serving, spare, marketplaceVars, signInsVars>>

\* One process serves the marketplace: two of them lose each other's records.
Stocked ==
    /\ process = [r \in Requests |-> CHOOSE p \in Processes : TRUE]
    /\ \E c \in Catalogs : catalog = c.catalog /\ spare = c.spare

Signing ==
    /\ catalog = <<>>
    /\ spare \in SignInsSpare

Init ==
    /\ WorkersInit
    /\ NothingInstalled
    /\ NobodySignedIn
    /\ Stocked \/ Signing

Next ==
    \/ \E r \in Requests :
          \/ MarketplaceStep(r) /\ UNCHANGED signInsVars
          \/ SignInsStep(r) /\ UNCHANGED marketplaceVars
    \/ Lapses /\ UNCHANGED marketplaceVars
    \/ \E p \in Processes : Dies(p) /\ Forgets(p) /\ Interrupts(p)

\* A worker goes on with the request it serves, while it lives.
Fairness == \A r \in Requests : WF_vars(SignInsProgress(r) /\ UNCHANGED marketplaceVars)

Spec == Init /\ [][Next]_vars /\ Fairness

-----------------------------------------------------------------------------
(***************************************************************************)
(* Properties of the marketplace.                                          *)
(***************************************************************************)
\* Requests whose chain has just been resolved.
Resolving == {r \in Requests : serving[r].op = "gate"}

Satisfies(need, p) == p.item = need.item /\ p.version \in need.accepts

\* resolve: the chain ends in what was asked for, has no item twice, and every
\* package in it comes after packages that satisfy all its dependencies,
\* whatever was chosen and given up on the way.
ChainsSatisfy ==
    \A r \in Resolving :
       LET chain == serving[r].chain IN
       chain # <<>> =>
         /\ Last(chain) = serving[r].root
         /\ \A k \in DOMAIN chain :
               /\ \A j \in 1 .. k - 1 : chain[j].item # chain[k].item
               /\ \A need \in Range(Needs(chain[k])) :
                     \E j \in 1 .. k - 1 : Satisfies(need, chain[j])

\* The newest of everything beside root.
NewestWith(root) == {root} \cup {Latest(i) : i \in DOMAIN catalog \ {root.item}}

\* These packages satisfy each other, and no chain of dependencies returns.
WorkTogether(ps) ==
    /\ \A p \in ps : \A need \in Range(Needs(p)) : \E q \in ps : Satisfies(need, q)
    /\ \A some \in (SUBSET ps) \ {{}} :
          \E p \in some : \A need \in Range(Needs(p)) : \A q \in some : need.item # q.item

\* _choose takes the highest version: where packages at their newest would do,
\* nothing is refused, and nothing else is installed.
NewestWherePossible ==
    \A r \in Resolving :
       \A ps \in SUBSET NewestWith(serving[r].root) :
          serving[r].root \in ps /\ WorkTogether(ps) =>
             serving[r].chain # <<>> /\ Range(serving[r].chain) \subseteq ps

Quiet == \A r \in Requests : serving[r] = Idle

\* install, uninstall: no plugin is left live without the record of an item that
\* uninstalls it, and no files without a record that names their version,
\* whichever package of a chain fails and whichever requests come after it. What
\* breaks this are three things: a record that could not be written or was lost
\* with the file, a worker that died before it was written, and an update to a
\* version that registers another plugin. Each does so for the items or the
\* plugin it meets alone, and for an item only until it is installed again.
InstalledIsRecorded ==
    Quiet =>
      /\ \A proc \in Processes : \A g \in Plugins \ stranded[proc] :
            live[proc][g] # None /\ live[proc][g].item \notin lost =>
              LET i == live[proc][g].item IN
              Loaded[i] # 0 /\ PluginOf(Package(i, Loaded[i])) = g
      /\ \A i \in Items \ lost : files[i] # 0 => Loaded[i] = files[i]

\* install: when a package comes on record, those it depends on are on record,
\* at versions that satisfy it, though an earlier package of the chain failed,
\* the file was lost, or a worker died.
RecordedAfterNeeds ==
    [][\A i \in Items :
         records'[i] \notin {0, records[i]} =>
           \A need \in Range(Needs(Package(i, records'[i]))) :
              records'[need.item] \in need.accepts]_vars

-----------------------------------------------------------------------------
(***************************************************************************)
(* Properties of signing in.                                               *)
(***************************************************************************)
\* The account is being signed out of all its sessions, or a worker died at that.
Revoking(u) ==
    \/ u \in interrupted
    \/ \E r \in Requests : serving[r].op \in {"burn", "revoke"} /\ serving[r].user = u

\* reset_password, set_status: when the request is over, no session is left
\* that was open when the password changed or the account was deactivated,
\* whatever else was opened, revoked or handed out meanwhile.
RevokedStay ==
    \A t \in Tokens :
       LET s == sessions[t] IN
       s # NoSession /\ ~Revoking(s.user) =>
         /\ s.under.password = standing[s.user].password
         /\ s.under.blocks = standing[s.user].blocks

\* create_reset_token, reset_password: it is always the last link handed out to
\* an account that changes its password, whichever process handed it out; and it
\* does so once, though several requests carry it at a time, but where a worker
\* died in the middle of it.
ResetByNewestLink ==
    [][resets' # resets =>
         LET used == Last(resets') IN
         \E i \in DOMAIN handed :
            /\ handed[i].link = used
            /\ \A j \in DOMAIN handed : j > i => handed[j].user # handed[i].user
            /\ used \in Range(resets) => handed[i].user \in interrupted]_vars

\* reset_password: a session that was open when the password changed ends, but
\* where a worker dies in the middle of it.
OldSessionsEnd ==
    \A t \in Tokens :
       (sessions[t] # NoSession
          /\ sessions[t].under.password # standing[sessions[t].user].password)
         ~> (sessions[t] = NoSession \/ sessions[t].user \in interrupted)
=============================================================================
