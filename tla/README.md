# A verification project for metabridge

MetaBridge is a migration compiler (SQL and ETL text in, another platform's
text out) inside a commercial product: a control plane that sells subscriptions
and meters their use, an instance that enforces them at the customer's, agents
whose consequential actions people approve, a marketplace, and a web console.
The compiler is a set of functions on text. What can go wrong because several
things happen at once, or one of them fails, is in the product around it, and
that is what this project models, checks and proves.

Paths below are relative to the repository. `PROJECT.json` names, for every
definition, the lines it translates.

## 1. Inventory

### The control plane, `src/metabridge_control/`

Every operation is a function that opens one transaction
(`with engine.begin()`), reads rows, decides, writes, appends to the audit
trail and commits. There is no other shared state and no in-process lock: all
concurrency is between transactions. `db.py` gives it two meanings. On SQLite
every transaction begins with `BEGIN IMMEDIATE` and is a critical section. On
PostgreSQL transactions are READ COMMITTED: each statement sees what was
committed before it, and only `FOR UPDATE`, the row lock an update takes and
the unique constraints stop another.

| component | state | operations | what is hard | what makes it correct |
|---|---|---|---|---|
| entitlement gate and quota ledger, `entitlements.py` | resolved entitlements, overrides, reservations, consumption | `check_access` (CHECK, RESERVE, COMMIT, RELEASE), `consume`, `sweep_expired_reservations`, `resolve_in_conn` | retries under one key, races for the last of a quota, holds that cross a billing period or a change of subscription, overrides that lapse | nothing is charged twice, or sold beyond the limit, or granted to who is not entitled; the books balance |
| subscription service, `subscriptions.py` | the nine-state row with its version, the history, contracts | `create_subscription`, `activate` ... `terminate`, `add_override`, `execute_contract` | optimistic compare-and-set, reads outside the transaction, operations in two transactions | histories are legal paths; state, history, audit and entitlements move together |
| audit trail, `audit.py` | the chain of events and its anchor, by tenant | `record` inside the caller's transaction, `verify_chain` | two appends at once, the first append | the chain verifies |
| metering, `metering.py`, `ai_cost.py` | usage events, aggregates, signed statements | `record_usage`, `ingest_batch`, `adjust_usage`, `aggregate`, `ingest_signed_statement`, `record_ai_usage` | replays, freezing a period while it is recomputed, a record and its roll-up in two transactions | each event counts once; a final figure stays |
| rating and billing, `pricing.py`, `billing.py` | price books, rating runs, invoices, payments, credit notes, webhooks | `rate_subscription`, `approve_price_override`, `issue_invoice`, `record_payment`, `issue_credit_note`, `mark_overdue`, `ingest_webhook` | usage read before the transaction, superseded runs already invoiced, payments that sum what they see | a period is invoiced once; what an invoice says was paid is what was paid |
| partners, `partners.py` | deals, commissions, payouts | deal transitions, `accrue_commission`, `mark_payable`, `pay_partner`, `_compensate` | conditions checked once and used later | a commission is paid once, on paid revenue |
| licensing and enrollment, `licensing.py`, `enrollment.py` | licenses, license files, tokens, instances | issue, generate, activate, renew, revoke; enroll, revoke | one-time tokens, a renewal that races a revocation | a token enrolls once; a revoked license stays revoked |
| access control, `rbac.py`, `context.py`, `tenancy.py`, `enforcement.py` | roles, the caller's tenant | guards before an operation | little: no state of its own | - |

### The instance, `src/metabridge/`

| component | state | operations | what is hard | what makes it correct |
|---|---|---|---|---|
| usage spool and reporter, `commercial/usage.py`, `transport.py` | a bounded queue in a file, rewritten atomically under a file lock | `add`, `ack`, `drain_once`, `flush`, `push_usage` | crashes, lost and late answers, several flushers, a full queue, an event the server refuses | no event is lost or counted twice; all are delivered in the end |
| commercial runtime, `commercial/runtime.py`, `bridge.py`, `airgap.py`, `licensefile.py` | cached entitlements, the imported license | refresh, offline grace, statements | stale caches | use follows what was granted |
| agents, `agents/` | the approval queue, the files of runs with their audit chains | `plan`, `run`, `open_request`, `approve`, `reject`, `claim`, `record_decision` | a queue with a lock and files without; results held, denied, failed in a graph of dependencies | what others depend on has committed first; queue and trail agree |
| saved connections, `connections_store.py` | one file of rows with their evidence, an inventory by connection | save, edit, start, stop, delete, test, introspect | the file is read, emptied and rewritten without a lock by handlers that run in threads; a test lasts while the row changes | a password stays with its target; what is shown as connected was tested |
| web accounts, `web/auth.py`, `web/workspaces.py` | users, workspaces and their members | sign up, invite, roles, status, restart | several file operations in one request, two worker processes | one account owner; no workspace without an owner |
| signing in, `web/auth.py` | passwords, sessions, reset links, a file each under one lock | sign in and out, mint a link, reset, deactivate, remove | a sign-in checks without the lock; a reset writes three files, and may die between two | a link works once; no session outlives the password it was opened with |
| task orders, `orchestration/`, `parsers/`, `ir/`, `twin/` | none that lasts | put the tasks of a workflow in order or in waves, report cycles, simulate a migration | graphs with parallel links, self-loops, cycles that share nodes | everything once and after what it depends on; a cycle is reported if there is one |
| marketplace, `marketplace/`, `plugins/registry.py` | the record of what is installed, a directory by item, the plugins in the memory of each process | resolve, install, uninstall, update, auto-update | demands that meet on one item, a package that fails in the middle of a chain, two processes | dependencies are satisfied and come first; files, plugins and record agree |
| platform stores | JSON files | register, notify | rewritten under a lock | no update is lost |
| the rest of the compiler, reports, connectors | none shared | text to text, I/O | - | not modelled |

### How they interact

A usage of a metered feature asks the gate (`check_access` RESERVE), works, and
commits what it used; the gate reads the subscription row that the subscription
service moves, and writes under that row's lock. An instance spools usage
events; a reporter posts them to `/instance/usage/batch`, which ingests them;
aggregation freezes a period; rating prices it; billing invoices it; overdue
invoices move the subscription (`mark_past_due`); paid ones make commissions
payable. Every control-plane transaction appends to the tenant's audit chain.

The console is one FastAPI application in two worker processes
(`Dockerfile:22`, `--workers 2`). They share nothing but files. An `async`
handler runs without a pause in its process; a plain one runs in a thread, and
interleaves with every other. A run of the agents opens requests in the
approval queue, whose decisions are appended to the report of that run.

## 2. What is modelled

`SubscriptionStates` is data both sides share: `TRANSITIONS`, the columns each
operation writes (`Moved`), and what the gate reads from a row (`TimeStatus`,
`Admits`).

**`Entitlements`** is one tenant and one METERED_QUOTA code. A call is a
transaction in two or three steps: `Begin` chooses the authoritative
subscription and has read the clock some time before; `Admit...` obtains the
row lock, re-reads, and decides; `Finish...` writes and commits. `Abort` may
end it anywhere. `Exclusive` makes the three one critical section when
`Serial` (SQLite), and `Unlocked` is the `FOR UPDATE` lock. The guards of the
code appear in its order: `consume` looks for the key before the entitlement,
RESERVE after it; COMMIT and RELEASE pass no gate. An entitlement row that
lapsed is healed in the transaction that meets it (`FreshEntitlement`), also by
a CHECK (`BeginCheck`, `FinishCheck`), which holds no lock. An IntegrityError on
`uq_resv_tenant_idem` rolls everything back (`FinishReserve`, `FinishConsume`).
Billing periods are `clock \div PeriodLength`.

**`ReservationProtocol`** is what the quota ledger promises for one key: the
machine of `docs/commercialization/03-domain-model.md` section 6.3. The
refinement in `Entitlements` maps the reservation's state, the quantity it
holds and all that was charged for it.

**`Subscriptions`** with **`AuditChain`** is the subscription service down to
the statements of `_transition`: read and validate (`Read`), the versioned
update (`CompareAndSet`), the audit head (`ReadHead`), commit (`Commit`).
`Ask` is the read that `activate`, `start_trial` and `cancel` make in a
connection of their own, with what they remember of it: the two transactions of
a draft's activation, and the term end a cancellation will write.
`RowFree` and `HeadFree` are PostgreSQL's row locks; the unique number of an
event is in `Appends`. An HMAC is a value no other event has.

**`SubscriptionLedger`** is what it promises: each change of state is legal and
indivisible with its history and its audit event.

**`UsageSpool`** is the queue and its reporters: the place of each key in the
file, `Add`, `Drop` (backpressure), and `flush` as the phases of its loop
(`Start`, `Send`, `Drained`, `Ack`, `Retry`). **`UsagePipeline`** adds the
call: it is served, served and not heard (`ServeUnheard`), refused or timed out
(`Fail`), or still on its way when its sender has given up (`late`, `Arrive`);
and `Crash`. A batch is one transaction, in which each event that has a row
keeps it (`Ingested`), and one malformed event refuses the batch (`Accepts`).

### From usage to payout

**`Sessions`** is what all operations of the control plane have in common: a
request reads, and refuses what is illegal; then it commits what it decided
from what it had read. `CanBegin` makes the two steps one critical
section when `Serial`; `Breaks` is a transaction that fails in between.
`budget` bounds how many requests each desk may still take. The chain
`Sessions`, `Metering`, `Rating`, `Billing`, `Partners`, in which each module
extends the one before, and `Licensing` beside it, meet in **`Revenue`**.

- **`Metering`**: the events of a period, adjustments, `aggregate` and the
  finalization that freezes it.
- **`Rating`**: `rate_subscription` in its two transactions (the usage is read
  in the first), the price a discount leaves, the floor and the overrides that
  another person must approve, the runs and their supersession.
- **`Billing`**: invoices of runs, issue, void, payments, credit notes, overdue
  marking, and `ingest_webhook`, whose notices may come again, before their
  invoice, or with a refused signature.
- **`Partners`**: an agreement, a deal, accrual, the gate to PAYABLE, batches,
  compensation.
- **`Licensing`**: licenses, the files signed for them, tokens and enrollment.
- **`Receivables`** is the abstract specification of money owed: an account
  takes each receipt once, is settled by the receipt that brings it to what is
  owed and by nothing else, and nothing about it changes once it is settled or
  cancelled. `Revenue` maps its invoices, payments and notices to it.

### The console

**`Workers`** serves requests: `process` says in which process each is handled,
`serving` what a handler is doing and what it has read, `MayStart` that a
process begins no handler beside another, and `Dies` that what a process was
doing is lost while its files stay. A file operation under a lock file is one
step; a file that is rewritten without one is emptied in one step and filled in
the next.

- **`Workspaces`**: accounts, workspaces and rosters, each handler with the
  file operations it is made of (`auth_signup`: has_users, create_user,
  ensure_default), and the migration a restart makes.
- **`AgentPlan`**, **`AgentRuns`**: `_toposort` as the path of its open
  visits, `Visit` by `Visit`, since as a recursion it cannot be proved about; `run`
  agent by agent (`SkipAgent`, `RunAgent`), the governance decision (`Decide`),
  the queue, `_persist` as `Truncate` and `WriteReport`, and the decisions:
  `DecideRequest` under the lock of the queue, then `ReadTrail` and the report.
- **`Connections`**: `connections.json`, which every change reads, empties
  (`Empties`) and fills (`Fills`); tests and analyses that ask a system in
  between, and the inventories. Passwords and evidence are kept with the target
  they are about, which the file does not say and the properties need.
- **`TaskGraphs`**, **`TaskOrders`**: six ways in which the compiler orders
  tasks. `Order` covers those that take one task at a time and differ in what
  they count, in who is ready first and in what becomes of a cycle: a mapping,
  a workflow, a control flow of SSIS or DataStage, the views of a model;
  `Waves` those that take all that are ready (`execution_waves`,
  `execution_order`); `Cycles` the depth-first searches of `detect_cycles` and
  `cycles`. A parallel link is a number of links.
- **`MigrationWaves`**: `simulate_migration`, which releases what waits for
  nothing, and when all wait, the groups of objects that only wait for each
  other, found by Tarjan's algorithm (`_sccs`).

Two more modules extend `Workers`, and meet in **`Administration`**:

- **`Marketplace`** over **`Packages`**. `Packages` is `resolve`, with the calls
  of its two recursive functions as a path that grows and shrinks by a step:
  `Collect` and `CollectReturns` gather what every chain of dependencies demands
  of an item (`wants`), and choose the newest version that all demands so far
  admit; `Visit` and `VisitReturns` order the final choices. No other request
  can tell these steps apart, since one process serves the store and a resolution
  writes nothing; as steps they can be proved about. `Marketplace` is the installer, one file operation a step:
  the gates (`Gate`), then for each package that is not on record (`Skip`) the directory is cleared, written
  and its plugin loaded (`Clear`, `Write`), or removed (`Break`), and the whole
  record is emptied and filled (`Empty`, `Fill`) from the copy the handler read
  at its start. Both steps may fail in a process that lives on (`SaveFails`, a
  full disk): the request ends, and nothing it did is undone. `update` is an
  installation of the newest version. A version is a number, a version range the set of those it admits, a signature, a platform
  or a license a flag of the package. An automatic update takes the items in
  any order, the code in that of the record. A process that dies loses its
  plugins (`Forgets`). Two histories that no guard reads say what the property
  excepts: `lost`, the items whose record a save that failed, or a death before
  it, kept from the file, until they are written again; and `stranded`, the
  plugins of a process that an update to a version with another plugin left.
- **`SignIns`**: `auth_login` in its two steps (`Login` checks, `OpenSession`
  writes), `create_reset_token` (`Mint`), and `reset_password` in its three:
  the password, the link (`Burn`, under the lock of the first), the sessions
  (`Revoke`). A password is the number of resets before it. Every session keeps
  which password opened it, and how the account stood then; `interrupted`
  remembers whose reset or deactivation died with its process (`Interrupts`).

`Administration` begins with a store (`Stocked`), served by one process, or with
accounts only (`Signing`), served by one or two. What is published, and how many
requests come, is a constant.

**`Console`** composes those from `Workspaces` to `MigrationWaves`. Its `Init` is
one of five instances: a new one (`Empty`), one with members (`Staffed`), one
whose agents depend on each other in any way (`Planning`), one that only orders
(`Ordering`), and one that only works with connections (`Connecting`), where
each handler has a process of its own, because its handlers are threads.

The data is abstract where the properties do not look at it: codes, meters,
tenants, dimensions and money are absent, time is a small number, an
idempotency key is a model value. NULL columns are the integer `NULL`. A price is
per unit, an event has quantity 1, a connection's parameters are the target
they lead to, an agent's result is a confidence and a sensitivity.

## 3. The runs

| run | question | instance |
|---|---|---|
| `EntitlementsSerial` | SQLite. `BooksBalance`, `ImplementsProtocol`, `GrantsHonoured` with two subscriptions that alternate as the authoritative one, trials, past-due and suspension | 2 subscriptions, 2 keys, 1 client, quantities 10 of 12, commit 15, two instants in two billing periods; 1.5 million states |
| `EntitlementsPostgres` | PostgreSQL. `TypeOK`, `ChargedAsRecorded`, `NoOversell`, `GrantsFit`, `SettledIsFinal` | 1 subscription, 2 clients, 2 keys, commits below and above the hold, an override that lapses; 0.85 million states |
| `EntitlementsTwoSubs` | violates `NoOversell` (finding 1) | as Serial, one instant |
| `EntitlementsHealRace` | violates `OverrideEffective` (finding 2) | PostgreSQL, 1 client, 2 overrides |
| `SubscriptionsPostgres` | `HistoryIsPath`, `ChainVerifies`, `EntitledOnEntry`, `ImplementsLedger` | 2 subscriptions, 2 sessions, 9 operations, 5 audit events; 0.76 million states |
| `SubscriptionsNoTerm` | violates `ActiveHasTerm` (finding 3) | 1 subscription, 1 session, 4 events |
| `UsagePipeline` | `NoLoss`, `NoDuplication`, `FlushReturns`, `EventuallyMetered` | 3 events, one malformed, 2 reporters, a spool of 2, batches of 2, 2 attempts, 1 crash, 1 late call |
| `Revenue` | SQLite. `FrozenStays`, `OneCurrentRun`, `BelowFloorApproved`, `BooksAgree`, `PayoutsBacked`, `StatementReconciles`, `TokenEnrollsOnce`, `RevokedIsFinal`, `ImplementsReceivables` | 2 clients, 2 events, 2 staff, 1 notice, 2 tokens, 5 to 7 requests spent in seven ways; 0.76 million states |
| `RevenueFrozenGap` | violates `RunServesFrozen` (finding 4) | 3 requests to metering, 1 to rating |
| `Console` | `OneAccountOwner`, `OwnerRemains`, `OrdersRespectDependencies`, `CyclesFound`, `KnotsMoveTogether`, `DependenciesCommitted`, `QueueAndTrailAgree`, `SecretsMatchTarget` | 2 requests, 2 processes that may die, 2 users, 2 workspaces, 3 agents, 3 tasks, 4 objects, 2 connections, 2 targets; 0.27 million states |
| `ConsoleStaleTest` | violates `ConnectedWasTested` (finding 5) | 4 requests for connections; no process dies |
| `Administration` | `ChainsSatisfy`, `NewestWherePossible`, `InstalledIsRecorded`, `RecordedAfterNeeds`, `RevokedStay`, `ResetByNewestLink`, `OldSessionsEnd` | 2 requests, 2 processes that may die; 3 items in 2 versions in 2 040 shapes of dependencies that are resolved only, and a store with 4 requests; 2 users, 2 sessions, 2 links, 4 requests to sign in; 0.97 million states |

Why these bounds. Two keys are what a race for a quota needs, since a limit of
12 fits one request of 10 and not two, and a commit of 15 exceeds both the hold
and the tolerance (its charge is 11). Two instants with a period length of 1
put a hold and its commit in different periods, and let a hold, a trial, a
grace period and an override lapse. Under `Serial` a second client is never in a
transaction while the first is, so that one client shows every behaviour; on
PostgreSQL a client beyond the second finds the locks in no new state. The
passing PostgreSQL run has one subscription because two of them violate
`NoOversell` (finding 1) already on SQLite. In `Subscriptions` five events allow a subscription created
and provisioned by one session while another races it at every statement, and
the second subscription shares its chain; the calls open when the bound is
reached still finish. In `UsagePipeline` a spool of 2 is full, a batch of 2
holds what another reporter has sent too, and the third event meets
backpressure.

`Revenue` spends its requests in seven ways (`MCFresh`, `MCBilled`), each deep
in one place: recording, freezing and rating; prices, overrides and their
approval; accrual from a new book; licenses and tokens; payments, notices and credit notes of an
invoice; payability, payout and clawback, which begin where an invoice was
issued (`Billed`), since a path from the first event to a second payout would
not fit. A second client is needed, although `Serial`, because a rating keeps
what it read between its two transactions. `Console` does the same with `Spare`: five requests of people bring
two sign-ups and what two owners can do to each other, one run and three
decisions let two deciders meet over one report, and four requests for
connections let an edit, its predecessor's write and a test overlap. Every
graph of three agents, of three tasks (with up to two links, or self-loops) and
of four objects with at most five edges is an initial choice: two cycles that
share a node, a knot behind a knot and a task behind a cycle are all among
them. `OwnerRemains` is stated for one process: the roster is checked before
it is changed in another file operation, and two processes can each demote one
of the last two owners. An account may also be deactivated through another
workspace, whatever it owns; the property speaks of rosters.

`Administration` chooses its catalog at the start. The shapes have dependencies in
two orders, an item needed twice, cycles, demands that conflict, and demands
that only a later choice meets: two dependencies, of which the first leads to
the second's item, are the least that makes a choice change. Nothing is
installed from a shape, so that an item has no more versions and no more
dependencies in it than a choice can depend on. The store has
packages that are unverified, licensed, or share a plugin, one whose next
version registers another plugin and one whose next version registers none, and
four requests are two installations with what their packages need, then an
update and a removal. One process serves the store, because two lose records (below).
Of the accounts, two sessions of one user, two links and two processes let a reset,
a deactivation and a sign-in overlap; the second user has what they must not
touch.

Deadlock is checked in the Entitlements runs, where a call can always be made.
It is not in the other runs, whose bounds on
events and requests let the system go quiet: every reporter idle and the spool empty is a
good end.

Fairness is assumed in `UsagePipeline` and in `Administration`. In the second a
handler that signs in, resets or deactivates goes on (`WF` of
`SignInsProgress`): it awaits nothing after it has read the
request, and the lock it may wait for is held by another handler for two file
operations. Nothing is assumed of when a session or a link lapses.
A process may die instead, and `OldSessionsEnd` excepts the accounts whose request
died with it. In `UsagePipeline` a reporter that runs is a loop
with nothing to wait for (`WF` of its steps); a call ends, at the latest by the
15 s timeout of the HTTP client (`WF` of `Fail`); whoever calls `drain_usage`
calls it again while something is pending (`WF` of `Start`: this caller is
outside the repository); and a control plane that is asked again and again does
not fail a good batch for ever (`SF` of `Serve`). Nothing is assumed of the
application, of crashes or of late calls. `FlushReturns` needs no answer at
all. It is shown for a bounded number of events: `drain_once` ends only when it
sees the spool empty, so an application that adds for ever can keep a flush
busy for ever.

### What the violations show

1. **A commit is charged to another subscription** (`entitlements.py:441`).
   `_commit` finds the reservation by tenant and key, then charges the
   subscription *this* call chose. If another one has become authoritative, its
   books receive a charge that nobody checked against its limit.
2. **An override that is undone by a CHECK** (`entitlements.py:189-199`,
   `123-141`, on PostgreSQL).
3. **Active without a term** (`subscriptions.py:27`): DRAFT, `cancel`,
   `rescind_cancellation`. The transition DRAFT to CANCELLED is in
   `TRANSITIONS` and not in the diagram of the domain model.
4. **A run that differs from the frozen figure** (`pricing.py:453`).
   `rate_subscription` reads the usage in one transaction and writes the run in
   a later one.
5. **Connected to what nobody tested** (`connections_store.py:272`). A test, or
   an analysis, resolves a connection, which is then pointed elsewhere, and
   writes its result into the row that is there by then.

What was met on the way, of which no run is made:

- On PostgreSQL a call that waited for the row lock may grant under a
  subscription that was terminated meanwhile (`entitlements.py:171-175`): the
  re-read under the lock is by id, and the state is not looked at again.
  `GrantsHonoured` fails there, and is claimed of SQLite.
- On PostgreSQL (`Serial = FALSE`) two requests of `Revenue` that read the same
  row each write what they read: `FrozenStays`, `OneCurrentRun`,
  `BooksAgree`, `ImplementsReceivables`, `PayoutsBacked`, `TokenEnrollsOnce` and
  `RevokedIsFinal` fail there, and are claimed of SQLite.
- A decision of an agent's request may be in the queue and in no trail
  (`orchestrator.py:280`): `record_decision` gives up on a report that another
  process has emptied and not yet filled. `docs/agentic-ai.md:160` promises
  every decision in the trail. `QueueAndTrailAgree` says the converse.
- `_load` of the connections takes a file it cannot parse for an empty one
  (`connections_store.py:42-43`): a save that reads while another one writes
  loses every other connection.
- The inventory of a connection stays after it was pointed elsewhere.
- The module comment of `agents/governance.py:14` has any action below the
  approval threshold require approval; `decide` commits advice and analyses below it
  and flags them (`governance.py:145-147`, and so says the comment at 59-64).
  `Decide` and `DependenciesCommitted` follow the code.
- `_topo_views` knows a view by its name in lower case (`wom/generate.py:40`):
  of two views of different schemas with one name the last stays, and the
  other is not written. The nodes of `Order` are names; that views are left
  out is not modelled.
- The orders of SSIS, DataStage and SAP leave out what is on a cycle or behind
  one; `TaskOrders` has this as `by = "control_flow"`. In SAP process chains
  (`sap/normalize.py:577-580`) the trigger is no node while its links stay, so
  that what is behind it is left out too.
- `agents/agents.py:228-234` looks for mappings that `execution_order` could
  not place, to report a cycle; `ir/model.py:238-240` places every mapping.
- The constraints of a version that was displaced stay (`install.py:107-109`):
  packages that would satisfy each other may be refused, or an older version
  chosen than they need.
- Neither `uninstall` nor an installation that pins a dependency looks at what
  else depends on it; after a restart no installed plugin is loaded, and
  installing it again is skipped; `uninstall` unloads the plugin from one of
  the two processes.
- A failed update takes the old version with it (`install.py:226`): the directory
  is cleared before the new version is written, and removed if that fails. The
  record still names the old version, and installing that one is skipped. The
  comment at `install.py:195` calls the failing item atomic.
- A save of `installed.json` that fails, on a full disk (`install.py:60-61`,
  called at 210 and 267), is not undone: the request fails with the plugin live
  and the files written, and where the write had begun the file is cut short,
  which `_load` takes for empty, so that every other record is lost as well.
  The comment at `install.py:192-196` and `docs/extensibility.md:324` say that a
  failure never leaves a live plugin or files without a record. `SaveFails` has
  this; `InstalledIsRecorded` excepts the items it happened to (`lost`).
- An update to a version that registers another plugin, or none, overwrites the
  record of the old one, whose plugin stays live (`install.py:203`), against the
  same promise; `publish` does not ask that versions agree on it. The store of
  the run has two such items; `InstalledIsRecorded` excepts the plugins that
  were left (`stranded`), and no others of the item.
- Two workers lose a record of `installed.json`, or leave it at another version
  than the files (`install.py:190`). A worker that dies while it writes that
  file (`install.py:61`) leaves one that `_load` takes for empty: all that is
  installed is forgotten. `InstalledIsRecorded` excepts the items this meets
  (`lost`).
- `auto_update` reports as applied what a later item of the same request has put
  back to its old version (`install.py:330`, `docs/extensibility.md:344`).
- A sign-in that checked the old password before a reset opens its session after
  it (`app.py:535`; `auth.py:379-380` says that a reset revokes all sessions).
  `RevokedStay` speaks of the sessions that were open. One that was checked
  before a deactivation and opened after it is refused while the account is
  deactivated, and works when it is activated.
- A worker that dies between the new password and the end of the link leaves a
  link that works again (`auth.py:443`; `app.py:743` says that it works once).
  That is the exception `ResetByNewestLink` makes. One that dies before the
  revocation leaves the sessions of the old password until they lapse.
- A removed member stays signed in (`app.py:1210`): `docs/faq.md:71` and `:76`
  say that the sessions are revoked; `delete_user` touches the roster only, and
  `remove_user`, which would, is called by no route.

On PostgreSQL, too, a commit that read a live hold before a sweep expired it
writes COMMITTED over EXPIRED: `ImplementsProtocol` is claimed for SQLite only,
and `SettledIsFinal` speaks of committed and released rows.

## 4. What is proved

`tlapm` proves these for every value of the constants that the modules'
assumptions allow: each module with constants has one, named after it, which
says that quantities, prices and lengths are numbers of their kind, that an
operation is one of the machine's, a malformed event an event, a graph a
graph, that a catalog is one that `publish` may have left (`WellFormed`), and
that the names that stand for nobody and nothing are no user's and no item's.

An invariant of a run is seldom inductive. Each section of a proof module
states what must be added, mostly of what a handler or a transaction carries
from one step to its next, and every added invariant was checked by TLC on the
instance of the run before it was proved. A theorem with a hypothesis says so
below, and why the code needs it.

`EntitlementsProofs`:

- `TypeCorrect`: `TypeOK` is an invariant. It is inductive as it stands.
- `ExactlyOnce`: `ChargedAsRecorded`, when one lock guards the ledger: on
  SQLite, or on PostgreSQL for a tenant with one subscription (`OneLock`).
  With two subscriptions and two clients on PostgreSQL the two locks are
  different and a key can be charged twice. The property says nothing of open
  transactions, so `ChargeInv` adds what they rely on: at most one transaction
  is past the lock, the row of a commit that is about to be written is still
  RESERVED, or expired by the sweep, so that nothing was charged for it yet,
  and a consumption charges the quantity it records.
- `GrantsAreHonoured`: `GrantsHonoured` on SQLite. `SerialInv` keeps, of the
  one open transaction, that the subscription it chose is honoured and, once a
  grant is admitted, in a full or warm state, and that the hold of a commit is
  live and covers its charge but for the tolerance. On PostgreSQL it fails
  (section 3), so that `Serial` cannot be dropped.
- `LedgerImplementsProtocol`: on SQLite, `Spec` implements
  `ReservationProtocol`; each Finish action is one abstract step, the sweep is
  `Expire`, everything else a stutter.
- `SettledForGood`: `SettledIsFinal` under `OneLock`. Of the writes only that of
  a commit does not look at the state of the row (`FinishCommit`); `ChargeInv`
  says that it finds it reserved or expired.
- `BooksAlwaysBalance`: `BooksBalance` under `OneLock`. The books are sums over
  all keys, so a step is shown by the one key whose row it writes: the sum moves
  by what that row did, and the balance by the same. `LedgerInv` says that the keys
  in use are finitely many and each is booked under a subscription and in a period.
- `GrantsAlwaysFit`: the action property `GrantsFit`, on both databases and for
  any number of subscriptions, without a hypothesis. `FitInv` says of a grant
  between its decision and its write that it still fits (only the holder of a
  subscription's lock adds to what is consumed and held under it), and that
  the entitlement it relied on was resolved and in force when the call began.
- `NeverOversold`: `NoOversell` for a tenant with one subscription (`NumSubs = 1`).
  With two it is false, which is finding 1. `OversellInv` adds `CommitFits`:
  a commit charges little more than its hold, and one whose hold the sweep
  expired under it finds as much room as that took.
- `OverridesTakeEffect`: `OverrideEffective` on SQLite, for any number of
  subscriptions. On PostgreSQL it is false, which is finding 2. `EffectiveInv`
  says it of what a CHECK is about to write and of what a grant will write: a
  transaction resolves at an instant that has passed, when whatever is in force
  now already was (`ResolvedInForce`), and the overrides it read wait for it to
  end (`OverridesWait`).

`UsagePipelineProofs`:

- `UsageIsNotLost` and `UsageIsNotDuplicated`: `NoLoss` and `NoDuplication`,
  for any number of events, reporters, crashes and late calls. `MeteringInv`
  adds that what a reporter is about to ack is recorded; it survives the other
  reporters because a usage row is never removed.

`SubscriptionsProofs`, on SQLite and on PostgreSQL, for any number of
subscriptions, sessions and crashes:

- `SubscriptionsTyped`, `TrailsVerify`, `AlwaysEntitled`, and of
  `HistoriesArePaths` that the rows of a history follow each other
  (`HistoryLinks`). None is inductive alone. `IInv` adds `Held`,
  what an open call knows (once its compare-and-set has passed it holds the row,
  and what it plans to write is legal from the state it read; once it has read
  the head, its event is the next), and `OneLocks`, that no two calls hold one
  row or one head. The commit is the step that needs all of it.

- `HistoriesArePaths`: `HistoryIsPath`, which also says that every row of a
  history is a legal transition (`HistoryLegal`). That follows from the
  refinement, whose steps add legal moves only (`LegalStays`).
- `ServiceImplementsLedger`: `ImplementsLedger`, the refinement. Each commit of a
  transition is one step of `SubscriptionLedger`, each other statement a
  stutter. `ReadyInv` says of a call that it plans one legal transition of a
  subscription that exists, or the creation of one that nobody else knows, and
  that the event it is about to append says just that.

`RevenueProofs` and `PayoutProofs`, all on
SQLite (each is `Serial => (Spec => ...)`; above is what fails without):

- `FrozenForGood` (`FrozenStays`), `OneRunCounts` (`OneCurrentRun`),
  `FloorNeedsApproval` (`BelowFloorApproved`), `RevokedForGood`
  (`RevokedIsFinal`) and `OneInstancePerToken` (`TokenEnrollsOnce`) in the first.
- `FrozenIsBilled`: how far `RunServesFrozen` is from true (finding 4). From any
  moment on at which the period is frozen and no rating is half done, it holds
  for good, for any number of ratings: what is read from then on is the frozen
  figure (`ReadFrozen`). Only a rating that straddles the freeze bills another.
- `PayoutsAreBacked` (`PayoutsBacked`) with `PaidForGood`, on which it rests,
  `BooksAlwaysAgree` (`BooksAgree`) and `StatementAlwaysReconciles`
  (`StatementReconciles`) in the second. The last two are about sums: a payment or a
  commission is written once, so that the sum over all moves by that one.
- `BillingImplementsReceivables` (`ImplementsReceivables`): every step of
  the whole chain, from an event to a payout, is a step of the accounts of
  money owed or a stutter.
- They share one argument: `Serialized` says that at most one transaction is
  open, and a `...Held` part says that what it has read still is what the
  tables hold, since nobody else can have moved them. The exception is a
  rating, whose usage may have changed by its second transaction
  (`UsageHeld` keeps its type only). Each module of the chain needs to know
  only that the others leave its tables alone (`TurnsElsewhere`).

`ConsoleProofs`, without an assumption on processes or crashes:

- `AlwaysOneOwner` (`OneAccountOwner`): `AccountsHeld` says that an invitation
  or a change of status is under way only where accounts already exist; only a
  sign-up may write the first, and it decides the role from the file under its
  lock.
- `ActsInTurn` (`DependenciesCommitted`): `TrailHeld` says it of what a run, a
  truncated report or a decision has in hand, which is all a crash can lose.
- `SecretsStayTrue` (`SecretsMatchTarget`): `RowsHeld` says it of the rows a
  handler is about to write back, however old they are.

- `WorkspacesKeepOwners` (`OwnerRemains`, whose own antecedent is one process):
  `RosterInv` says that requests then come one at a time, so that what one has
  checked (who is no member yet) is still so when it writes.
- `QueueAndTrailStayTogether` (`QueueAndTrailAgree`): it needs the converse of the
  property too, of every trail that anybody is about to write (`AgreeInv`): a
  run that goes on is the only one with its trail, an agent is in the trail as
  awaiting approval if and only if its request is in the queue, and a verdict
  that is about to be recorded is in the queue and in no trail yet.

- `CyclesAlwaysFound` (`CyclesFound`), for every finite graph. `Searched` keeps
  the path a chain of links and says where every link that was followed led
  (`Followed`). Of any tasks whose visits are over, two were reported together
  or one has no link to the others (`HasLast`); a group of tasks that all lead
  to each other has none such.
- `OrdersAlwaysRespectDependencies` (`OrdersRespectDependencies`), for every
  finite graph of tasks and every dependency of agents. What is counted for a task
  is the number of links from tasks that are not yet placed (`Counted`), so that
  what is ready is what waits for nothing (`InTurnPlaced`); when nothing is
  ready, whatever is left waits for something left, so that in a finite graph
  it is on a cycle or behind one (`LeftAreStranded`). The waves of a workflow,
  which look only at successors of the last wave, miss nothing, since whatever
  has no place yet waits for something that had none before that wave either
  (`InWaves`). A plan
  has at most two visits an agent to begin and end, so that counting them out
  ends it (`PlanFinished`); the open visits each depend on the next
  (`Visiting`), so that one that comes back closes a cycle, and a finished plan
  leaves no room for one.
- `KnotsAlwaysMoveTogether` (`KnotsMoveTogether`), for every finite graph of
  objects. `Parting` is the invariant of Tarjan's algorithm: what has left the
  stack leads only to what has left it (`Shut`); an open visit leads to all that
  was put on the stack since (`Leads`); `low` of an object on the stack is the
  place of something it leads to, below its own if its visit is over, and no
  higher than any its followed links showed (`Lows`); and no visit that ended in
  an open one led lower than that (`Under`). So what is on the stack
  since a visit that leads no lower than itself leads to nothing lower
  (`LeadsNoLower`), leads back to it, by descent along `low`, and is a knot
  (`ComponentIsKnot`). `Settled` says of the waves so far that each holds whole
  knots whose sources are in the knot or in waves before, and `Awaited` that
  what is counted for an object are its sources that have not moved, so that one
  with none left is a knot of its own (`FreeMove`). That the loop ends is part of
  the property, as that no wave is empty: what has left the stack is in a
  component (`Covered`), so that once no visit is open every object is in one
  (`StackEmptied`), and of the components left, one above whose objects there is
  least waits for no other (`SomeKnotIsFree`).

`AdministrationProofs`, whoever dies, for any number of requests, accounts,
sessions, links, packages and versions:

- `RevokedStayRevoked` (`RevokedStay`) and `NewestLinkOnly` (`ResetByNewestLink`),
  for any number of processes. `AccountsInv` adds that a link that works is the
  latest of its account, and that one that has been used works only while the
  request that used it is to end it, or died at that.
- `ChainsInOrder` (`ChainsSatisfy`). The calls of `resolve` form a path of
  different items. While collecting, a dependency of a choice is met by the
  demands or is still ahead of a call on the path (`CollectHeld`); at the end none is ahead,
  so all choices are final and satisfy each other. While visiting, the order
  contains no item before its dependencies (`VisitHeld`).
- `NewestChosen` (`NewestWherePossible`). For a set of newest packages that work
  together, no demand ever excludes one of them (`CollectLeads`, `Admits`), so
  that the choice is always in the set; and the path never meets itself, since
  its items would be packages of the set that depend on each other in a circle
  (`NothingInTheWay`).
- `RecordsFollowNeeds` (`RecordedAfterNeeds`). `StoreInv`: one request for
  packages is served at a time; what it has in hand is what the file holds, and
  whatever is left of a chain has its dependencies before it or in the
  book.
- `InstalledStaysRecorded` (`InstalledIsRecorded`), for every catalog, also where
  versions of an item register different plugins, and with saves that fail.
  `KeptInv` relates file, directories and memory in the middle of an
  installation, where they do not agree: what is not yet in the file is in the
  book of the one request that is served, so that when its save fails exactly
  the items in which the two differ are lost (`LessIsAgreed`), and writing an
  item again leaves nothing of it live that is neither its new plugin nor
  stranded (`WriteKeeps`).

`SumTheorems` has what the books, and the links that are counted for a task,
need of sums. A fold over a set is a recursive
function that the provers cannot unfold, and whose order nobody knows. That such
a function exists, and that its value does not depend on the order, is proved
from induction over the subsets of a finite set, taken in its set form (`Good`
is a set, not a predicate), which the provers can instantiate.

Only model-checked: liveness (`FlushReturns`, `EventuallyMetered`,
`OldSessionsEnd`), which the prover does not handle. Every safety invariant and
action property of the passing runs is stated by a theorem.

## 5. What is not modelled

- The rest of the compiler, reports, connectors, language models, mail and page
  rendering: functions from text to text, and I/O. This is most of the
  repository by lines (parsers, generators, SQL, events, reports and connectors
  are well over half of it), so that the share of lines the map covers stays small however much of the
  product around it is modelled. What those functions promise is about the
  content of SQL and ETL text, which a model checker cannot enumerate; what they
  share with each other, the orders of tasks, is modelled.
- Roles and tenant checks: guards with no state. A modelled call is one that
  passed. BOOLEAN, TIER and LIMIT codes only read.
- Contracts, price books and simulations, dunning, billing accounts, deal
  registration, signed usage statements: rows written once, or decimal
  arithmetic.
- The AI roll-up: a record and its roll-up in two transactions, as metering
  has; listed for completeness among the components.
- The commercial runtime of an instance: a cached answer with an age limit, in
  one process. It caches the license for the life of the process
  (`runtime.py:74`) and serves any refusal from the cache as if it were an
  outage (`transport.py:139`).
- Of the marketplace: publishing, signatures, plugins loaded by hand or from a
  directory.
- The platform stores: each change is one step under `file_lock`, but for a
  notification center that is read before its file exists
  (`notifications.py:117-123`).
- The workspace a session is in, avatars and names; a test result sent along
  with a saved connection, which no caller in `src/` sends; the backfill of
  `created_by`.

## 6. Running it

    tlc -workers 2 -config EntitlementsSerial.cfg MCEntitlements.tla
    tlapm EntitlementsProofs.tla

Each `.cfg` is named after its run and belongs to the MC module of the same
component. Every property has, in `PROJECT.json`, a mutant: a faulty variant of
a definition (`...Blind`, `...AnyState`, `...InCallPeriod`, marked "Faulty" in
its comment) with which TLC finds the property violated.
