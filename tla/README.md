# TLA+ models of Checklist-Assistant

This directory holds TLA+ modules for the core of Checklist-Assistant, the TLC
configurations that check them, and TLAPS proofs about them. Paths below are
relative to the repository; `store.cpp` stands for `src/core/checklist_store.cpp`,
`app.cpp` for `src/core/app.cpp`, and "the specification" for
`spec/checklist-assistant-spec.md`. `PROJECT.json` maps every definition that
models code to its lines.

## 1. The system and its components

Checklist-Assistant is a C++ server. It keeps checklist rows ("slugs") in SQLite,
serves them over HTTP to a web client and, through a bridge, to MCP clients, and
lets *predicates* on the edges between rows propagate results and statuses.

| component | state it keeps | operations | interacts with | correct when |
|---|---|---|---|---|
| Predicate daemon and row updates (`ChecklistStore::ApplyUpdate`) | `slugs`, `history`, `address_relationships`; a stack of pending updates while a call runs | apply one update, append a history snapshot, evaluate the predicates on the outgoing edges | dataset CSV, Verify evaluation; runs under the store's mutex | a cascade ends within its hops, writes only rows that exist, un-asserts nothing, keeps the audit trail |
| Store connection, transactions and batches | one SQLite connection, one mutex, the open transaction | single statements, `ApplyBulkUpdates`, `ReplaceRelationships`, deletes | every HTTP worker calls it | a transaction is ended by its own thread, batches are whole, acknowledged updates are stored |
| Row order | `slug_order` | resolve, backfill and repack section bands | row creation and imports | rows of a section keep their relative order |
| Ownership | `address_ownership`, `slug_ownership` | upsert, inherit, delete owned instances, prune | import, instantiate and delete | a successful request's rows are owned; an import leaves a source exactly its rows |
| Template relationships and lineage | `template_relationships`, predecessor and successor links | replace, materialise on row creation, latest slug, aliases | writes the edges that the daemon reads | edges of an instance do not depend on the order its rows came in; lineage is not lost |
| Verify evaluation | none | parse a spec, convert units, give TRUE / FALSE / INDETERMINATE | the daemon and the API | storing a result, or its unit, changes no verdict |
| HTTP API handlers | none of their own | decode a request, call the store several times, encode the answer | each call takes and drops the store's mutex | see the components they call |
| OAuth store and authorize flow | codes, refresh and access tokens, sessions, request stamps | authorize, exchange, rotate, expire, limit | its own connection and mutex on the file of the rows, form state behind another mutex | each grant is used once, rotations are whole, scopes are inherited |
| Server process lifecycle and launcher | server state file, processes, background thread | run, start, stop, status, stale state cleanup | processes that only share the file | a stop ends the server and leaves no helper and no record |
| Graph projection, relationship workbench | none | one pass over rows, relationships and declarations | the store and the files of a package | the findings say what the drawn edges show |
| Web save controller | timers per row | debounce, save, fail timer | answers arrive asynchronously | (not modelled) |
| MCP bridge, Markdown codec, reports, asset packs, logging, web pages, test controller | none, or files they only read or produce | translation and rendering | through the API or the store | (not modelled) |

What is hard about it:

* **The cascade.** A request may rewrite any number of rows; a proposal is decided
  when it is pushed and applied, unchanged, when it is popped; graphs have
  cycles, gates, duplicates and self-loops; only a hop count stops the loop, and
  the mutex is held meanwhile. It must stay within its hops, never meet a
  missing row half-way, never un-assert a status, and keep the audit trail.
* **The shared connection.** A transaction belongs to the connection and not to
  a thread. `ApplyBulkUpdates` begins and ends one without the mutex, handlers
  drop the mutex between a check and the write it guards, and an exception can
  leave a transaction open. Updates that were answered with success must be stored.
* **Crashes and failing statements.** Most methods commit statement by statement, so that a crash
  between two statements, or a second one that throws, leaves the first. `ChecklistStore` and
  `OAuthStore` have a connection each to the same file (`src/core/main.cpp:956`, `960`), in WAL mode and
  without a busy timeout: while one writes, a statement of the other that wants to write fails at once.
  Readers never wait. A COMMIT can fail too (full disk, I/O error); SQLite then rolls back, and
  no method looks at the result.
* **Requests of many calls.** Creating a row, claiming it for its source and
  replacing its edges are calls of their own; another import or a delete may run
  between any two. Derived edges must come out the same in whatever order rows are
  created, and row orders must survive a band that overflows.
* **Time.** History rows are keyed by whole seconds.
* **Tokens.** A code or refresh token must be used once although requests race,
  clocks pass expiries and the process restarts.
* **Processes.** The state file outlives the process that it names, is truncated
  before it is written, and is removed by whoever thinks it stale.
* **Numbers.** A tolerance, a range bound and a reading each bring a unit, or none;
  the result is rewritten in the spec's unit before it is stored and is judged again later.
* **Client timers.** A save's answer may arrive after a newer edit was queued.

Every hazard, with its line and the properties that would catch it, is listed
under `hazards` in `PROJECT.json`; a hazard no property covers says why.

## 2. The modules

| module | models | builds on |
|---|---|---|
| `Predicates` | the predicate vocabulary: statuses, texts, tokens, gate verdicts, the Verify write plan | |
| `PredicateDaemon` | `ApplyUpdate` statement by statement, the daemon's loop, edge inserts, instance deletes, the clock, statements that throw, crashes | `Predicates` |
| `MCPredicateDaemon` | four rows, nine mixed graphs, seven layered ones, a gate counterexample | `PredicateDaemon` |
| `PredicateDaemonProofs` | theorems about `PredicateDaemon` | `PredicateDaemon` |
| `StoreConnection` | the connection, the mutex and the worker threads | |
| `MCStoreConnection` | two workers, two rows that exist and one that does not | `StoreConnection` |
| `StoreConnectionProofs` | theorems about `StoreConnection`: types, transactions, batches, replaced edges | `StoreConnection` |
| `SlugOrder` | row order: bands, gaps, repacking, import order, backfill, as operators | |
| `Lineage` | successor index, latest slug, aliases, merge of an import, as operators | |
| `ChecklistRows` | the tables of rows, orders, owners, template relationships and edges, and the requests that write them | `SlugOrder`, `Lineage` |
| `SlugOrderProofs` | lemmas about orders: finite sets of integers, bands, repacking, backfill | `SlugOrder` |
| `ChecklistRowsProofs` | theorems about `ChecklistRows` | `ChecklistRows`, `SlugOrderProofs` |
| `MCChecklistRows` | a template, an instance, a row edited into another, two sources sharing a row | `ChecklistRows` |
| `OneTimeGrants` | what the OAuth store promises: every grant is spent once and yields one pair | |
| `OAuthStore` | authorize form, sessions, code grant, rotation, bearer check, limiter | refines `OneTimeGrants` |
| `MCOAuthStore` | two workers, a registered client and a stranger, a redeemed code and a good one | `OAuthStore` |
| `OAuthStoreProofs` | theorems about `OAuthStore`, among them the refinement | `OAuthStore` |
| `ServerLifecycle` | `run`, `start`, `launch`, `status`, `stop`, the background thread, the state file | |
| `MCServerLifecycle` | two servers, three concurrent commands | `ServerLifecycle` |
| `ServerLifecycleProofs` | theorems about `ServerLifecycle` | `ServerLifecycle` |
| `VerifySpecs` | the spec grammar, units, tolerances and verdicts | `Predicates` |
| `MCVerifySpecs` | specs of every shape, readings in several units | `VerifySpecs` |
| `VerifySpecsProofs` | theorems about `VerifySpecs` | `VerifySpecs` |
| `RelationshipWorkbench` | the workbench's pass, loop body by loop body | `Lineage` |
| `MCRelationshipWorkbench` | three rows and one replaced slug | `RelationshipWorkbench` |
| `RelationshipWorkbenchProofs` | theorems about `RelationshipWorkbench` | `RelationshipWorkbench` |

Operators whose comment starts with "(faulty)" or "Mutant:" are not used by any
specification. Each is a plausible mistake in the code next to it, and shows that a
property notices it (`mutants` in `PROJECT.json`).

### 2.1 PredicateDaemon

`Accept` is the call of `ApplyUpdate`: it takes the mutex and pushes the request.
`Apply` pops an update and runs its UPDATE statement, `Snapshot` runs the `INSERT OR
IGNORE INTO history` and decides whether to go on, `Push` finds the next edge whose
predicate has something to write and pushes it, `Dispatched` ends the loops over the
edges. `ThrowMissing` is the exception of `GetSlugOrThrow`. The loop runs the
four families of predicates one after the other, each over the outgoing edges in
rowid order, which is what `Position` and `Precedes` stand for. `phase` is the
place in the loop; `"idle"` is "nobody holds the mutex", and the other operations
wait for it. `InsertAddressRelationship` and `DeleteInstance` are the operations
that change the same tables, `Tick` is the wall clock. `Interrupt` is an early end of the call at
any place: a statement throws, the UPDATE or the history INSERT among them, or the process dies. What
was executed stays, as there is no transaction, and the rest of the stack is gone. It covers the busy database, since
`ApplyUpdate` has no retry.

| TLA+ | code |
|---|---|
| `rows[a]` | the runtime columns of `slugs`; `None` when there is no row |
| `edges[s]` | `address_relationships` by rowid |
| `history[a][t]` | `history`, whose primary key is (address, timestamp) |
| `pending` | the `std::vector` used as a stack, with `depth_remaining` |
| `current` | the row just written, what changed in it, the hops left and `now` |
| `StatusProposal`, `VerifyProposal`, `CopyProposal`, `PrefillProposal` | the four loop bodies |
| `GateOpen`, `EdgeVerdict`, `Contributors` | the gate evaluation of status and Verify predicates |
| `Applied`, `ChangedFields` | the `optional` fields of `SlugUpdate` merged into the row, and the `*_changed` flags |

Abstractions. Texts are tagged tuples (`<<"status", s>>`, `<<"time", t>>`, `<<"filled", predicate,
address>>`, ...), because what a text can be parsed as decides what a copy may
write. The three epistemic types Validated, Implied and Assumed, which the daemon
never tells apart, are one gate `"None"`. Template columns do not change and are the
operator `TemplateText`. Unit conversion, spec evaluation and the CSV lookup are the
constant operators `ToSpecUnit`, `SpecVerdict` and `Dataset`: the model and the proofs
hold for whatever they compute. The clock counts whole seconds because
timestamps do. The chain depth is fixed for a run, as it is read from the
configuration at startup.

### 2.2 StoreConnection

Threads run handlers; `pc[t]` is the next statement of thread `t` and `job[t]` its
request and progress. `disk` is what is committed, `view` what the connection reads
(with the open transaction), and `tx` the thread whose BEGIN opened it. `Exec` is a data
statement of any thread: on disk at once in autocommit mode, otherwise part of
whatever transaction is open. `BEGIN` inside a transaction fails (`Refused`).

| actions | code |
|---|---|
| `BatchBegin`, `BatchCommit`, `BatchRollback` | `ApplyBulkUpdates`: none of the three takes the mutex |
| `UpdateItem`, `LogItem`, `ItemMissing`, `LogViolation` | `ApplyUpdate`, whose two statements run under the mutex |
| `Reread`, `Answer` | the handlers read back the rows they answer with |
| `KeepRow`, `CreateRow`, `TemplatesBegin`, `TemplatesCommit` | the import: `CreateSlugIfMissing`, template relationships |
| `CheckSubject`, `CheckTarget` | the ends of an edge, looked up in locked reads of their own, for imports and for `POST /relationships/address` |
| `ReplaceBegin`, `InsertEdge`, `InsertViolation`, `ReplaceCommit` | `ReplaceRelationships` |
| `InsertAddressRelationship`, `DeleteBegin`, `DeleteCommit` | a new edge; `DeleteInstance` |
| `Crash` | the process dies with the open transaction |

Abstractions. A row is present or not; `applied` and `history` are the sets of UPDATEs and
history INSERTs that took effect, so a lost write is visible as a missing
element. The cascade of an update is folded into its first row (2.1 models it).
Owners, orders, entities, the predicates dictionary, sources and templates are
left out; `ReplaceTemplateRelationshipsForSubjects` keeps its BEGIN and COMMIT,
because an open transaction makes its BEGIN fail. An import's edges start at rows it
imports, in list order (a file may also name edges of other rows, which are replaced
the same way). `acked`
and `purged` are history variables for the properties. The rows' other tables and
the handlers that create and delete them are 2.3. A statement that the other connection's write
refuses ends its method as one that meets a missing row does (`ItemMissing`, `LogViolation`), and such a BEGIN as
one inside a transaction does (`Refused`); neither is a step of its own here. Inside a transaction nothing is refused any more, since
BEGIN IMMEDIATE has the write lock. The COMMITs, whose results the store
ignores (`store.cpp:3204`, `5215` and others), are taken to succeed: with the failing ones the runs
grow too large. What ignoring one does is shown where it matters most, by `oauth_code_reuse`.

### 2.3 ChecklistRows

A step is one call of the store, under its mutex; the calls of a handler interleave
with those of other workers. `db` holds the tables of one checklist, `wk[w]` the
request that worker `w` serves, `stuck` says that a failed `ReplaceRelationships`
left its transaction open.

| TLA+ | code |
|---|---|
| `db.rows`, `db.ord` | `slugs`, `slug_order` |
| `db.aown`, `db.sown` | `address_ownership`, `slug_ownership` |
| `db.trel`, `db.erel` | `template_relationships`, `address_relationships` |
| `UpsertSlug`, `Placed`, `Inherited`, `Materialised` | `UpsertSlugUnlocked`: the row, its order, the owners it inherits, the edges derived for it |
| `Torn` | the statements of `UpsertSlugUnlocked` a crash leaves behind |
| `HandleCreateSlug`, `HandleDeleteInstance`, `HandleDeleteChecklist` | the handlers of the same names |
| `CheckLink`, `InsertTemplateRelationship` | `POST /relationships/template`: check, then insert |
| `BeginImport`, `ImportRow`, `ClaimRow`, `MergeLineage`, `ReplaceTemplate`, `CheckEdges`, `ReplaceEdges` | the imports, which share this sequence; kind `replace` deletes what the source owned first, `keep` deletes nothing, `markdown` only creates missing rows and names no source |
| `BeginJsonl`, `Meant`, `MeantOrder` | the JSONL import, which looks every line up before it writes the first: a line with an address of the instance means the latest successor by the instance's own edges, any other that of its slug; a line may give the row's order |
| `ReplaceEdgesFails` | the INSERT that violates a foreign key |
| `CrashRestart` | the process dies, the rollback of an open transaction, `Opened` backfills orders |

`SlugOrder` has the arithmetic: `ResolveSectionOrder`, `ResolveAddressOrder`, `RepackedTo`
(a repack stopped by a crash after some rows), `ImportOrder`, `Backfill`. `Stride` and
`OrderGap` are constants, so that a small band fills after three rows as the
code's fills after many. `Lineage` has `SuccessorIndex`, `Latest` and `Aliases`.
Abstractions: section, procedure and action of a slug are a section number and a rank;
results and history are 2.2's; `fresh` is a history variable. A statement that throws in the middle of `UpsertSlugUnlocked`
leaves what `Torn` says, as a crash does, but without the restart that backfills orders: until the next restart such a row has no
order. The model has the crash only.

### 2.4 OAuthStore

`pc[t]` is the next step of a worker, `job[t]` its request and the time that its method, or the limiter, read before
it waited for the mutex (the step before keeps it).
`codes` and `tokens` are what the connection reads, `saved` what is on disk, `holder` who is inside the
store's mutex, `forms` who holds the static mutexes of the authorize form. `ConsumeBegin` and `ConsumeCommit` are `ConsumeAuthorizationCode`,
`RotateBegin`, `Revoke` and `RotateCommit` are `RotateRefreshToken`, one statement
each; `IssueTokens`, `FindAccessToken` and `IssueAuthorizationCode` are methods of one
statement. `EnterForm`, `Validate`, `Login` and `CheckSession` are the authorize form, `Allow` the
rate limiter behind its mutex, with a time read before it, so that stamps may be out of order; `CheckClient` is the client
lookup. `StatementFails` is a statement that throws, with the
rollback of its method; `ConsumeLapse` and `RotateLapse` are a COMMIT that fails and is not noticed (`oauth.cpp:412`,
`724`): the handler goes on and the tables are as before. `Crash` is a restart that keeps `saved` only, `Tick` the clock.
History variables: `origin[p]` is the grant a pair was minted from (the table
does not record it), `lapses[c]` how often redeeming a code went unrecorded, `admitted` what the limiter let through.

`OneTimeGrants` knows only whether a grant is new, live or spent, which pair
came from which, and how often spending a code lapsed: a refresh token yields one pair at most, a code one and one more
for each lapse. `GrantsUsedOnce` is its specification with `standing <- Standing`, computed
from the rows on disk.

### 2.5 ServerLifecycle

`main[p]` and `thread[p]` are the threads of the `run` with process id `p`, `cmd[c]` a
command and the record it read, `file` the state file (`Torn` between open and write),
`writers` the processes that still have that file open: a record flushed into
a removed file is lost. Each command is the sequence of its system calls, so that
commands race each other and the server. `bound` are the servers that listen on the port. A second one may
succeed or fail to bind (`Bind`): httplib sets `SO_REUSEPORT` wherever there is one, so that outside Windows both listen; on
Windows, or when an unrelated program has the port, it fails. With several listeners a request reaches any of them, with none
of them a stranger or nobody (`PostShutdown`). `ReusePid` gives the id of a dead server to
another program, `Die` is a signal taking effect, `StopServing` the end of
`HttpServer::Start` after a shutdown request.

### 2.6 VerifySpecs

Texts are sequences of lexemes and numbers exact decimals `n * 10^x`; the
operators carry the names of the functions they translate. `Enter` stores a result as
`ApplyUpdate` does (normalised to the spec's unit) and evaluates it; `Upsert` normalises what is
stored once more, as an import of the row's own export does.

The code computes in doubles and stores twelve digits; the model computes with the decimals. `PrecisionAssumption` says of
the numbers written that they have at most `Significant` (up to 12) digits and are below a million in canonical units. Twelve digits
then give back the decimal that a multiplication missed by a rounding error, so that what is stored is what the model stores; and
two numbers compare as the decimals do unless one that is converted lies exactly on a bound, or exactly a tolerance from it.
There the rounding decides: `0.7 cm` is 0.006999999999999999 m and misses `>= 7 mm`, yet it is stored as `7 mm`, which
meets it. `AtBound` names that case. The verdict that the row carries is the one of what is stored; `VerdictSurvivesStorage` says
that it is the one of the reading as typed too, only where that is not `AtBound`. Units whose factor is no power of ten are left
out. Numbers are compared at the place of the finer one, which `Scaled`
moves the other to by at most `Digits` places: TLC's integers carry no more.

### 2.7 RelationshipWorkbench

`phase` is the loop being worked on; an action is one body of a loop of
`BuildRelationshipWorkbench`, with its input chosen when it is read. `connected`,
`support` and `numbered` are the sets and counters the function keeps beside the edges. `Draw`
emits a node, its alias and its edges. `Mistyped` is the `json::value` exception.
`RenderedEdges` is what the DOT writer keeps. Titles, details and the order of arrays are
left out.

## 3. What TLC checks

Except for `verify_specs`, the runs have TLC's deadlock check off: a system whose bound on requests
is used up really stops, and that nothing waits for ever is checked by the liveness
properties instead.

| run | question | bounds |
|---|---|---|
| `daemon_core` | types, `NoDanglingWrite`, `ReachBounded`, `NeverUnset`, `HistoryAppendOnly`, `FaultLosesOneSnapshot`, `RequestCompletes` | 4 rows, 9 graphs of up to 4 edges and 1 added, 2 requests of 5 kinds, chain depth 2, clock 0..1, 1 fault (throwing statement or crash), 2 instances to delete |
| `daemon_layered` | `SettledAtRest`: at rest every edge has had its effect | layered graphs of 3 rows of height at most the chain depth 2, 3 requests at the roots |
| `daemon_own_rows` | a statement of the specification that the code does not keep | as `daemon_core` |
| `store_requests` | types, `OwnTransaction`, `BatchAllOrNothing`, `EdgesReplacedWhole`, `TransactionEnds`, `EveryCallAnswered` | 2 threads, 3 of 7 requests: an update, an edge, batches that fail and that do not, a delete, two imports; 1 crash |
| `store_batch_loss` | `AcknowledgedStored`, which the code does not keep | 2 threads, 2 requests |
| `workspace_rows` | types with the foreign keys, `SuccessMeansStored`, `ImportHeals`, `LineageKept`, `MaterialisedWhole`, `SectionOrderKept` | 3 slugs in one section, 2 instances, 2 sources, one file that lists a row twice, JSONL lines with and without address and order, 2 workers, 3 requests, bands of 4 with gap 2, any crash |
| `workspace_lineage_edge` | a statement of a contract that the code does not keep | as `workspace_rows` |
| `oauth_grants` | types, `GrantsUsedOnce` (the refinement), `RotationIsWhole`, `CodesYieldTokens`, `ScopesNeverGrow`, `RateHeld`, `AccessEndsWithRotation`, `EveryRequestAnswered` | 2 workers, 3 of 6 requests, clock 0..3, lifetimes of 1 and 2, 1 fault (crash, throwing statement or failing COMMIT), limit 2 in a window of 1 |
| `oauth_code_reuse` | `CodesSingleUse`, which the code does not keep | as `oauth_grants`, 2 requests |
| `server_lifecycle` | types, `StoppedLeavesNothing`, `StopMeansStopped`, `HelpersRecorded`, `StopEndsServer` | 2 servers, 3 commands, 1 server dying on its own |
| `verify_specs` | `VerdictSurvivesStorage`, `VerdictIsUnitFree`, `UnitMayBeGivenOnce` | specs of every shape of the grammar, 23 readings of up to 3 digits, 10 units of 3 quantities |
| `workbench` | `NothingIsDropped`, `WarningsMatchEdges`, `AliasFollowsImport` | 3 rows, 5 sets of relationships, 6 of lineage, up to 2 declarations of any kind |

Why these bounds are enough to be interesting. Four rows hold every shape in
which the daemon's loop can misbehave: a chain longer than the chain depth (2), a fork, a
two-source gate, cycles of two and three rows, a self-loop and parallel edges. Two requests make the second one meet
what the first cascade left, and a clock of two values makes history rows both collide
and not. Two threads suffice for every pairwise interference on
the connection, in the imports and in the token endpoint; a third request finds what two concurrent ones left
behind, such as an open transaction, a half-imported source or a rotated pair. Three rows fill a
band of four, so that the third repacks it. Lifetimes of one and two ticks let access expire before
refresh, and both before the clock ends. Two servers and three commands give a start that races a start, and a stop that races
a start, a server's own end or another stop. The invariants that section 4 lists do not depend on the bounds at all.

`SettledAtRest` holds on layered graphs only (`Layered`: every edge leads one layer up, to no
layer above the chain depth; requests come at rows nothing leads to; no two edges into a row want different
things of it). On other graphs a cascade can end with an
edge unsettled: a later push overtakes an earlier one, two edges overwrite each other, or the hops run out; and
a request cut short loses the updates still on the stack. `GraphsAreLayered` has TLC confirm that the graphs of the run are of this class.
`MaterialisedWhole` speaks of instances whose rows all came from `UpsertSlug` under the
relationships as they stand, with no superseded row and no slug replaced by two; `SuccessMeansStored` excepts requests whose
rows another request deleted or replaced for the same source. `CodesYieldTokens` counts:
a consumed code without a pair is one being redeemed now, or one lost to a fault between
the two methods of the code grant. It counts codes consumed in this run of the server: what an
earlier run left may hold any number of lost ones. `RateHeld` counts the requests that read the clock and passed the limiter
within a window; one that read it before the window and waited is not counted, since the limiter cannot know of the
wait. `TransactionEnds` excepts the behaviours in which an import meets the INSERT that breaks its foreign key, which
does leave a transaction open (below).

Fairness. `PredicateDaemon!FairSpec` assumes weak fairness of `Cascade`: the thread inside
`ApplyUpdate` waits for nothing, so it keeps executing. `StoreConnection!FairSpec` and
`OAuthStore!FairSpec` assume weak fairness of each thread's `Step`: the operating system
schedules every worker, and a worker that waits on the mutex gets it once it stays free.
`ServerLifecycle!Spec` assumes that commands and the threads of a server go on and that a
signalled process dies; not that `StopServing` is ever taken, since closing the
server waits for its open connections, and `stop` must end it all the same. Arrivals,
the clock and crashes are never assumed to happen. The bounded number of requests
keeps a waiting thread from being overtaken for ever; an unbounded stream of
requests would need a fair mutex, which `std::mutex` does not promise.

### Where code and documents disagree

Shown by runs:

* `daemon_own_rows`: the daemon overwrites rows it wrote itself; the specification
  (line 3540) says it must not.
* `store_batch_loss`: an update of another thread, executed while a batch is open and
  answered with success, vanishes when the batch rolls back.
* `oauth_code_reuse`: when the COMMIT of `ConsumeAuthorizationCode` fails, its result is not looked at
  (`oauth.cpp:412`): tokens are issued, the code stays unused on disk and can be redeemed again. The tests say that codes must
  be single-use (`tests/oauth_flow_test.cpp:332`). A failed COMMIT of a rotation (`oauth.cpp:724`) answers with a pair that no
  table knows, and the old pair stays good.
* `workspace_lineage_edge`: a row created in an instance after its template declared it the
  successor of an absent row gets the declaration as an edge to itself; the workbench
  contract says a declaration is not turned into a self-edge.

Met while modelling, contained in the models, without a run of their own:

* A status decided behind an open AndGate is written after a cascade pushed later, and
  run earlier, has closed the gate (specification, line 3462).
* A repeated update moves the timestamp; the idempotency window of the specification
  (line 3799) does not exist in `ApplyUpdate`.
* The history is keyed by whole seconds and ignores conflicts, so two updates of a row in
  one second leave one snapshot (line 4102). An INSERT that throws after its UPDATE (`store.cpp:4488`) leaves none:
  the request is answered with an error and its row is changed. `FaultLosesOneSnapshot` counts those.
* A result copied to a row with another unit is compared before it is converted (`store.cpp:4692`), so that the same
  value is written again on every cascade.
* A refresh token that expires while its request waits for the mutex is still rotated, since the clock
  is read before (`oauth.cpp:635`). In the limiter the same order makes stamps go back in time (`app.cpp:2568`).
* A reading exactly at a bound may pass because of how it is stored (2.6).
* The workbench takes a row for connected when it is a source of evidence (`src/core/graph_projection.cpp:953`); the message
  of `ORPHAN_ROW` (line 1161) and the contract (`docs/relationship_workbench_contract.md:138-142`, `194`) list what
  connects a row without it, though the contract's lines 161-162 name it for self-only rows. `WarningsMatchEdges` follows the code.
* One failing item rolls a whole batch back; line 4101 asks for atomicity per update.
* An import whose target row is deleted between check and insert throws inside
  `ReplaceRelationships` and leaves the transaction open (`store.cpp:3200`). Updates answered with success
  afterwards are never committed and are gone after a restart. `TransactionEnds` says that nothing else leaves one open.
* The tolerance of an equality is a quarter step of the last written digit (line 3486), but
  at least 1e-9 in canonical units (`store.cpp:1125`), so that `5.0 nm` accepts 6 nm.
* A bound without a unit takes the unit of the reading: `10..12 mm` decides `1.1 cm` rightly only because
  the result was rewritten in mm before; and a range of two units with a
  reading of none compares each bound in its own.
* A second `run` that cannot bind (on Windows, or beside an unrelated program; elsewhere both listen) has already overwritten the state file, takes the first
  server's health answer for its own and launches background processes, and removes the file
  but leaves its helpers when it ends; `status` then reports that nothing runs (`main.cpp:1037`).
* A stop kills the helpers in the record it read: background processes launched after that,
  by a server that then has to be killed, live on. `StoppedLeavesNothing` speaks of a `run` that
  ends by itself.
* A repack rewrites a section row by row, each row a statement of its own. In a section whose rows
  lie in several bands, or have orders a client gave, a crash in the middle can leave a repacked row
  behind one that was not reached: with rows at 1000, 2000 and one far ahead, the first is put past
  the second. `SectionOrderKept` therefore excepts what such a crash moved past a row in another place of the repack.
* The edges of an instance depend on the order its rows were created in where the only row that keeps a
  lineage declaration loaded is deleted, where two rows replace one slug, or where a superseded row hides
  another that then goes. `MaterialisedWhole` excepts the three.
* A file may list a row twice: `AssignImportOrder` numbers both places and the later one stays. A file may also list a
  row together with its successor: its relationships to the old row then lead to the new one all the same.
  `ImportHeals` says so of both.
* A row declared its own predecessor or successor takes the alias away from the row that replaces it when an import
  resolves it (`BuildSlugLineageAliases` counts the declaration, `BuildSlugSuccessorIndex` skips it), but
  not in the workbench. `AliasFollowsImport` speaks of rows without such a declaration.
* In the workbench a field of another JSON type fails the whole request; aliases are not followed
  from one replaced slug to the next, and a slug replaced by two rows leads to both, unlike in an import;
  two declarations of one alias double its edge; declarations that are no objects are skipped without a finding.

## 4. What TLAPS proves

The proofs hold for every set of addresses, graph, request set, number of threads
and bound, under the named assumptions of the modules: `ConstantsAssumption` (the
requests, edges and initial stores have their types; initial edges join existing
rows; clients do not call themselves the daemon), `TextAssumption` (parsing and the
constant operators return values of their types) and `ConnectionAssumption` (types of
the requests; a batch names at least one row, an update exactly one), `OAuthAssumption` (names of different
kinds are distinct, requests have their type, the server has finitely many workers), `StoredAssumption` (what an earlier run stored: typed
tables, whose pairs come from used-up grants or from codes whose use lapsed) and `ScopesAssumption` (what an earlier
run stored has scopes its client is allowed, inherited along rotations: the
administrator did not narrow a client in between), `KindsAssumption` and `AbsenceAssumption` (the commands;
"no file", "torn file" and "nobody" are no records and no processes).
For `ChecklistRows` they are `RequestAssumption` (types of the requests; an import has a row and finitely many
relationships; "none" is no owner and no slug),
`TemplateAssumption` (the template is an instance), `RankAssumption` (slugs and instances are ordered as
their ids are, strictly) and `StrideAssumption` (a band is not empty and the gap fits into it); for
`RelationshipWorkbench`, `FilesAssumption` (a file lists finitely many relationships; "no row" is no row). For
`VerifySpecs`, another `TextAssumption` (specs and readings are texts; "nothing found" is nothing a recogniser may find)
`ScaleAssumption` (the unit table: a canonical unit that is in the table stands for itself) and
`PrecisionAssumption` (2.6; it justifies the decimals, no proof needs it).
`UnitFree` has a hypothesis of its own, `ExactArithmetic(b)`: exponents and factors
are within `b` of 0 and `Digits` is large enough (`6 * b + 22`) that no comparison is cut off. Two readings of one
quantity are only recognised as such by exact arithmetic; the other two theorems hold for any `Digits`.
`LayeredGraphsSettle` has `LayeredFor(InitialStore, Request)`, and no fault, edge or deletion that comes in between; each of
them can leave an edge unsettled. The constants of `daemon_layered` satisfy it.

| theorem | states | inductive invariant |
|---|---|---|
| `TypeCorrect` | `Spec => []TypeOK` | `TypeInv`: with the shape of the loop (`LoopOK`: something to pop when popping, a current row when one is worked on) and `CurrentHasHops`. Without them `Top` and `depth - 1` have no type |
| `CascadeNeverDangles` | `Spec => []NoDanglingWrite` | `SoundInv`: edges join existing rows and every queued daemon write has its target and never an `Unknown` status; only deletes could break it, and they wait for the mutex and detach both ends of edges |
| `DaemonNeverUnsets` | `Spec => NeverUnset` | from `SoundInv` |
| `AuditTrailKept` | `Spec => HistoryAppendOnly` | from `TypeInv` |
| `ReachIsBounded` | `Spec => ReachBounded` | `HopInv`: a pending update with `d` hops left is within `EffectiveDepth - d` hops of the request's row, and so is the current row. The path lemmas `HopsToItself`, `MoreHops` and `OneMoreHop` extend a path by an edge |
| `CascadeRunsOut` | `Spec => [][Cascade => Descends]_vars`: the work left, counted per number of hops left, shrinks at some number and grows at no higher one | `HopInv`, which bounds the hops. A pop takes an update off its count; a push adds one a hop lower, and the loops over the edges have a position less to come to |
| `LayeredGraphsSettle` | on layered graphs: `Spec /\ SettledAtRest => []SettledAtRest` | `SettlingInv`, for some assignment of layers. The stack climbs the layers (`StackLayered`), so that while updates of a layer wait the rows they were computed from stand still; no queued update goes against an edge into its row (`Agreed`); what an edge wants is in its target, or on the stack, or to be proposed by an edge of the row at hand that is still ahead (`Kept`). `DueAbove`: what a write newly asks for, a gate it opens included, is asked by an edge of the row written; `ProposalsServe`, `ProposalsAgree`: that edge proposes it, and no other edge the contrary |
| `ConnectionTypeCorrect` | `Spec => []TypeOK` | `Data /\ Threads`: each thread has a job that fits its place (`JobOK`): a list that is not empty where its head is taken, an edge where its target is looked up. Each action is a `Go` whose new place and job fit (`GoKeeps`) |
| `TransactionsAreOwned` | `Spec => []OwnTransaction` | `OwnTransaction` with the type invariant. `OwnKeeps`: a thread may change `tx` only when it is `None` or its own, and whoever ends up inside a transaction owns it |
| `FaultsForgetOneSnapshot` | `Spec => []FaultLosesOneSnapshot` | `ForgottenInv`: the rows without a snapshot of their last second, but for the one about to get it, are finitely many and no more than the faults; only the end of a request between an UPDATE and its INSERT, by a crash or because the INSERT throws, can leave one behind |
| `BatchesAreWhole` | `Spec => BatchAllOrNothing` | `BatchInv`: without a transaction the view is the disk (`Settled`), requests have ids of their own (`IdsApart`), and at each place of a batch the updates seen and stored are those `Progress` says: none on disk before the COMMIT, all of them in the view at it. `StepEffect` says what any step of another thread can do to that |
| `EdgesAreReplacedWhole` | `Spec => EdgesReplacedWhole` | `EdgesInv`: whoever is between two statements of a method holds the mutex (`MutexHeld`), and what the open transaction has made of the edges fits its place (`EdgesOK`): a replacement touched one subject, a delete took edges with their rows, any other only added |
| `LimiterHolds` | `Spec => []RateHeld` | `LimitInv`: the bucket is the end of what was let through, and what it forgot was asked more than a window ago (`Remembered`); nobody holds a time that is yet to come. So whoever reads the clock and passes within a window finds all the others of that window in the bucket, in whatever order the stamps are |
| `CodesAreNotWasted` | `Spec => []CodesYieldTokens` | `YieldInv`: what an earlier run used stays used and is not redeemed again. `CountBoth` and `CountFault`: a lost code and the worker redeeming it come and go together, and a fault costs each worker at most one |
| `OAuthTypeCorrect` | `Spec => []TypeOK` | the whole of `Data /\ Run /\ GrantInv`: the tables have their types; at every place of a method the lock, the open transaction and the request are what the place says (`PlaceOK`); outside an open transaction, `saved` is what the connection reads (`Committed`) |
| `RotationNeverHalf`, `ScopesAreInherited` | `Spec => []RotationIsWhole`, `[]ScopesNeverGrow` | conjuncts of `GrantInv`, kept together with `Lineal`: no two pairs come from one grant, and the grant a pair came from is consumed or revoked |
| `RotationEndsAccess` | `Spec => AccessEndsWithRotation` | from the same invariant: a pair that is an origin is revoked, and the bearer check reads `revoked` |
| `StoreKeepsGrants` | `Spec => GrantsUsedOnce`: `OAuthStore` implements `OneTimeGrants` | initial states map to `Consistent` ones; a commit maps to `Issue`, `Spend`, `Mint` or `Exchange`, a failing COMMIT of a redemption to `Lapse`, every other step to a stutter. `GrantInv` counts: a worker about to issue is a use or a lapse whose pair is still to come |
| `EveryEdgeIsDrawn` | `Spec => []NothingIsDropped` | `DrawnInv`: rows are drawn before anything else, edges join nodes |
| `WarningsAreTrue` | `Spec => []WarningsMatchEdges` | `DrawnInv /\ Reported`: `connected` and `support` are what the edges imply after every loop body (lemma `DeclarationDrawn`), and findings of the two kinds appear only in their phases |
| `AliasesFollowImports` | `Spec => []AliasFollowsImport` | the recursive walk of `Lineage` ends after one step (`LatestAfterOne`) where an alias is declared once, and declarations are finite (`FinitelyDeclared`) |
| `RowsAreTyped` | `Spec => []TypeOK`, the foreign keys with it | `TypeOK` with the shape of each request: every statement list, whole or torn by a crash, leaves tables whose references exist (`TornTyped`, `OpenedTyped`) |
| `SuccessIsStored` | `Spec => SuccessMeansStored` | `RowsInv`: `TablesTyped`, `JobTyped` and `Owned`, what a worker has stored so far is owned as its request asked unless another request took it away |
| `SectionOrderIsKept` | `Spec => SectionOrderKept` | `RowsInv`. `PlaceStrict` and `RepackKeepsOrder`: a repack is strictly increasing in the place a row had; `RestartOrders`: what the backfill after a crash adds moves no row that had an order |
| `ImportsHeal` | `Spec => ImportHeals` | `HealInv`: `RowsInv`, owners of rows own the slugs (`OwnersBacked`), and a replacing import that runs alone has at each of its places the owners, orders and edges that its file gives the rows passed so far (`OwnsItsRows`, `OrdersItsRows`, `JoinsItsRows`); a change by another request ends its running alone |
| `EdgesMaterialise` | `Spec => []MaterialisedWhole` | `RowsInv` with: an instance whose rows all came from `UpsertSlug` has exactly the edges the declarations ask for between its rows (`WholeIn`). `UpsertSlug` adds those of its row from both ends; every other writer of edges or declarations ends the instance's being fresh |
| `LineageIsKept` | `Spec => LineageKept` | `PutsBack`: an import about to replace relationships carries the lineage it read for its rows (`MergedKeepsLineage`). Every other operation, torn or whole, keeps the template relationships or leaves no rows (`Keeps`) |
| `VerdictSurvives` | `Spec => []VerdictSurvivesStorage` | `StoredInv`: what is stored is the entry in the unit of the spec, which is stable (`NormalizeTwice`), and the verdict is that of what is stored. Of the reading as typed, off the bounds: `ComparedInCanonical`: numbers whose units are known compare as their canonical values do, tolerance included, although the code compares equal units as they are written; `RewrittenIs`: rewriting keeps the canonical value |
| `UnitGivenOnce` | `Spec => []UnitMayBeGivenOnce` | `StoredInv`. The recognisers find the same parts in the range that repeats its unit (`GivenRange`); a stored reading has the unit of the spec or none, so a bound takes the unit it would have been given (`OnceAlike`), or it compares to neither (`OnceApart`) |
| `UnitFree` | `ExactArithmetic(b)` implies `Spec => []VerdictIsUnitFree` | `StoredInv`. Exact decimals are numbers at any lower place (`LeqValue`, `DistanceValue`), so that equal canonical values compare alike to any bound (`SameCompares`) |
| `LifecycleTypeCorrect` | `Spec => []TypeOK` | `Inv`: a command past its first read has a record |
| `StoppedRunIsClean`, `StopIsTruthful`, `RecordIsComplete` | `[]StoppedLeavesNothing`, `[]StopMeansStopped`, `[]HelpersRecorded` | `Inv`: what a record says of its server (`Recorded`: it is past its first record, and a recorded helper is not launched again) holds at any later time, read or not, since servers only go on (`Onward`); the background thread is over before the helpers are killed; a record that names a server lists its helpers except while the thread rewrites it |

Only model-checked:

* `RequestCompletes`, `TransactionEnds`, `EveryCallAnswered`, `EveryRequestAnswered` and
  `StopEndsServer`: liveness under fairness is out of the prover's reach. Of `RequestCompletes`, that no cascade goes on
  for ever is proved (`CascadeRunsOut`); that the thread is scheduled, and never stuck, is TLC's.

The library's induction theorems take an operator as parameter and cannot be used here. Where a proof
needs induction over numbers (the walk of `Lineage`, the backfill of orders, least and largest elements, the stamps of the limiter, the powers of ten) it goes by the
least counterexample and the definition of the recursive function; what folds
over arbitrary sets and sequences compute stays with TLC.

## 5. What is left of the plan

The modules of the plan are written except for `SaveController`. In order of importance, what remains:

1. An abstract specification of what an update promises (a cascade as one atomic step
   that changes rows within the chain depth), with `PredicateDaemon` shown to
   implement it; the same for the connection, where a correct subset of the
   requests implements a serial store.
2. `SaveController`: debounce and fail timers against late answers.

## 6. Not modelled

The Markdown codec, reports, logging, asset packs, MCP bridge and
test controller keep no state across calls and only translate or render; what an
import parses is an input of `ChecklistRows`. Of the graph projection, node shapes and kinds,
the section flow and the DBML text are formatting and left out.
The web pages are forms over the API; the save controller is a few timers in a browser.
Platform wrappers (sockets, processes) are taken as reliable I/O, except that signals take effect
later, process ids are reused, and a port may or may not be shared. Listing, exports and asset handlers only
read, or write files; `ReplaceChecklist` has no caller. Runs with different ports or state files are left out. SQLite itself is trusted: its
statements are atomic, its foreign keys enforced, and a commit that was reported survives a crash. A SELECT that fails with an I/O error is left
out: the code takes any step that yields no row for an empty answer (`store.cpp:4562`, `4614` and others), and so do the
lookups of the OAuth store; a busy database does not make one fail in WAL mode. JSONL imports without `resolve_lineage`, and lines
without the template's fields, are left out.

## 7. Running the checks

    tlc -config daemon_core.cfg MCPredicateDaemon.tla
    tlc -config store_requests.cfg MCStoreConnection.tla
    tlc -config workspace_rows.cfg MCChecklistRows.tla
    tlc -config oauth_grants.cfg MCOAuthStore.tla
    tlc -config oauth_code_reuse.cfg MCOAuthStore.tla
    tlc -config server_lifecycle.cfg MCServerLifecycle.tla
    tlc -config verify_specs.cfg MCVerifySpecs.tla
    tlc -config workbench.cfg MCRelationshipWorkbench.tla
    tlapm PredicateDaemonProofs.tla
    tlapm StoreConnectionProofs.tla
    tlapm SlugOrderProofs.tla
    tlapm ChecklistRowsProofs.tla
    tlapm OAuthStoreProofs.tla
    tlapm ServerLifecycleProofs.tla
    tlapm VerifySpecsProofs.tla
    tlapm RelationshipWorkbenchProofs.tla

`runs` in `PROJECT.json` lists every configuration with its module. Those with `expect:
violation` end with a counterexample; all others finish without an error.
