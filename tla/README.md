# A verification project for zero-cache-rust

zero-cache-rust keeps a SQLite replica of a Postgres database, runs clients'
queries against it incrementally, and streams the results to clients over
WebSockets. A horizontally scaled deployment has one *owner* (replicator and
change-streamer) and several *view-syncers* that follow it. This directory holds
TLA+ models of the parts where concurrency and failure decide whether a client
ends up with the right rows, the TLC configurations that check them on small
instances, and TLAPS proofs.

`PROJECT.json` has the machine-readable side: the source lines behind every
definition (`map`), the runs, the mutants each property is shown to catch, the
hazards, the findings and the theorems.

Contents

1. [The system](#1-the-system)
2. [Modules, state and actions](#2-modules-state-and-actions)
3. [Runs](#3-runs)
4. [Fairness](#4-fairness)
5. [Proofs](#5-proofs)
6. [What the code does differently from its documentation](#6-what-the-code-does-differently-from-its-documentation)
7. [Modelling assumptions](#7-modelling-assumptions)
8. [What is not modelled](#8-what-is-not-modelled)
9. [Plan](#9-plan)

## 1. The system

Paths are relative to `src/crates/`.

| Component | State | Operations | Hard behaviour | What makes it correct |
|---|---|---|---|---|
| **Replicator** (`zero-cache-server/src/replicator_service.rs`, `zero-cache-sqlite/src/replication_apply.rs`, `replication_supervisor.rs`, `initial_sync.rs`) | replication slot and walsender upstream; the replica file; `resume_lsn`, `flush_lsn`, the dispatcher's open transaction; table specs, `schema_baseline`, the `schema_change` flag; readiness | initial sync, connect, apply messages, commit, acknowledge, publish, reconnect with backoff, schema poll, resync | acknowledgements lost after the commit, so transactions are replayed; DDL between any two steps; a walsender that outlives its connection; a resync that starts in the middle of a transaction; crash at any point | the slot never passes data that is not durable; the replica is an upstream prefix; it converges |
| **Inline DDL, relations** (`pg_to_change.rs`, `ddl.rs`, `pg_schema_diff.rs`, `ddl_apply.rs`) | relation cache, replica schema | decode event-trigger messages, apply schema changes, detect drift | DDL with and without event triggers against the poll | the replica's schema is that of the position in the stream |
| **Row application and change log** (`change_dispatcher.rs`, `row_apply.rs`, `change_log.rs`) | rows, `_zero.changeLog2` (one entry per row, the last operation) | begin, row operations, truncate, commit, rollback | coalescing; replays rewrite entries with old versions | a reader of the log catches up from any watermark |
| **Change-streamer** (`change_streamer_server.rs`, `change_streamer_wire.rs`, `change_fanout.rs`) | per subscriber: `last`, the bounded broadcast buffer, the socket | reserve a snapshot, validate, catch up, live batches | log and rows read in separate statements; `Lagged`; resyncs and restarts of the owner under open connections | no subscriber misses a change; none sleeps while there is one to send |
| **View-syncer client** (`view_syncer_client.rs`, `streamed_apply.rs`, `subscriber_catchup.rs`, `litestream.rs`) | its replica, watermark and version | restore from the backup, subscribe, apply a batch, exit and restart on any error | a restored backup, a new owner snapshot, a refused watermark | its replica has every change up to its label; it ends up following |
| **CVR store** (`zero-cache-view-syncer/src/cvr_store_pg.rs`, `cvr_ownership.rs`, `cvr_config_store.rs`, `cvr_flush_sql.rs`, `cvr_row_cache_sql.rs`; `zero-cache-server/src/cvr_row_flush_barrier.rs`, `cvr_purger.rs`) | per client group in Postgres: `instances` (version, owner, grantedAt, lastActive, deleted), clients, queries, desires, `rows`, `rowsVersion`; in the process: the chain of deferred row flushes | load, claim ownership, flush with compare-and-swap, deferred row flush, purge | loads in several statements; several nodes; rows committed after the configuration; a purger that does not know who is connected | no transition is overwritten; a cookie a client can load has its rows |
| **Group processor, transitions** (`group_processor.rs`, `group_transition.rs`, `group_registry.rs`, `group_cvr.rs`) | the group's CVR copy, pending row updates, subscribers | attach, detach, desired queries, commits, pokes | failed flushes, lagging clients, two configurations (`ZERO_GROUP_OWNERSHIP`) | pokes follow the durable cookie, clients see one order |
| **Live connection** (`live_connection.rs`, `bootstrap.rs`, `serve_connection.rs`, `client_handler.rs`) | one client's cookie, transition lock, retries | connect, reload, transition, push, poke | reconnect while an older connection lives; retries after a lost compare-and-swap | a poke's base cookie is the one the client has |
| **Snapshotter, pipelines** (`snapshotter.rs`, `pipeline_driver.rs`, `group_shared_pipeline.rs`, `query_pipeline.rs`) | two leapfrogging SQLite snapshots, registered queries, the log of advances | advance, diff, hydrate, reset | diffs from a coalesced log; several clients reading one advance | advance equals re-evaluation at the new snapshot |
| **Client view records** (`cvr_types.rs`, `cvr_updater.rs`, `cvr_query_handler.rs`, `cvr_ref_counts.rs`, …) | versions, desires with TTL, reference counts | put, delete, inactivate, expire, receive rows | versions bump once per transition; counts that reach zero | a row is in the view iff a query returns it |
| **Mutations** (`zero-cache-mutagen/src/*`) | lastMutationID per client, limiter windows, pusher queue | apply, skip, retry as error-only, push to the API server | repeated, reordered and failing mutations; two nodes | each mutation takes effect once, in order |
| **IVM operators, builder, planner** (`zql/src/*`) | operator storage (Take's window, Exists' counts) | push, fetch | incremental result against the query's definition | push equals re-evaluation |
| **Types and versions** (`zero-cache-types/src/*`) | none | lexicographic versions, LSNs, Postgres to SQLite values | encodings that must keep the order of numbers | order-preserving and injective |
| **Authorization, custom queries, protocol, configuration, observability, utilities** | little or none | parsing, formatting, rewriting, reporting | — | — |

How they interact. The replicator commits to SQLite, then acknowledges to
Postgres, then publishes the commit to the fan-out (`SyncService::publish_commit`).
Subscribers of the fan-out are view-syncer connections (woken, they read the
change log, never the notification) and, on the same node, the client groups,
which advance their snapshot and pipeline, make a CVR transition, flush it to
Postgres and only then poke their clients. A view-syncer process does the same
with the replica it follows. Mutations go to Postgres and come back as commits.

## 2. Modules, state and actions

| Module | What it is |
|---|---|
| `Replicator` | The owner's writer and the upstream slot. |
| `ReplicaTables` | Schema and row statements upstream, and what they make of the replica's tables, metadata and change log. |
| `RowHistory` | What a sequence of transactions makes of each row; shared vocabulary of the next two. |
| `FollowedReplica` | Abstract specification: what a view-syncer's replica is promised. |
| `ChangeStreamer` | Owner, change-streamer, one view-syncer; implements `FollowedReplica`. |
| `QueryGraph` | The query engine: operators, their fetches and pushes, the builder. |
| `QueryEngine` | One query, hydrated and then kept up to date by pushed changes. |
| `GroupTransition` | What a transition of a client group is made of: driver, row records, hydration, poke. Operators only. |
| `LiveConnection` | The connections of a group on one node (`ZERO_GROUP_OWNERSHIP` off, the default). |
| `GroupProcessor` | The processor loops of a group on one node (`ZERO_GROUP_OWNERSHIP` on). |
| `CvrStore` | One client group's CVR in Postgres, the sessions that use it, deferred flushes, the purger. |
| `Mutations` | Pushes applied to upstream Postgres or forwarded to a mutate server. |
| `Authorizer` | Read and write permissions. |
| `ConnectionContexts` | The authentication state of a group's connections. |
| `ReplicatorProofs`, `ChangeStreamerProofs`, `CvrStoreProofs`, `LiveConnectionProofs`, `GroupProcessorProofs`, `MutationsProofs`, `ConnectionContextsProofs` | Theorems about the module of that name (section 5). |
| `GroupTransitionProofs` | Lemmas about the operators of `GroupTransition`, shared by the two modules that use them. |
| `MCReplicator`, `MCChangeStreamer`, `MCCvrStore`, `MCQueryEngine`, `MCLiveConnection`, `MCGroupProcessor` | Instances for TLC. |
| `MCServices` | One instance of `Mutations`, `Authorizer`, `ConnectionContexts` and `ReplicaTables` together. |

How the modules fit. `Replicator` produces committed transactions; `ReplicaTables`
looks inside one of them, `ChangeStreamer` at what other nodes make of them.
`GroupTransition`'s replica is a sequence of such commits; its `Fetch` of a query
is what `QueryGraph` computes, there row by row. `LiveConnection` and
`GroupProcessor` take a load and a flush of the CVR as one step each, `CvrStore`
takes them statement by statement and forgets what the rows mean.

Operators with names such as `FlushNothing` or `NewestFirst` are mutants: wrong
versions of the definition that follows them. `PROJECT.json` pairs each property
with the mutant it catches; no specification uses them.

### Replicator

`pc` is where `run_replicator` is: `prepare`, `create_slot`, `copy`,
`introspect` (the full initial sync, which a resync runs again with
`mode = "resync"`), `connect`, then a session (`stream`, `ack`, `publish`), and
`resync`, `drop_slot`, `stopped`, `failed`. Each wire message is an action
(`DeliverBegin`, `DeliverDdl`, `DeliverRelation`, `DeliverRows`,
`DeliverCommit`), because the connection may be lost and the schema poll may
trip between any two; commit, acknowledgement and publication are three steps
because the code awaits between them. The acknowledgement travels (`acking`) and
is received, or lost with the connection. The two halves of the schema poll
(`PollIntrospect`, `PollCompare`) are separate actions, since the poll awaits
Postgres between reading the schema and comparing it with a baseline that a
resync may have replaced.

An LSN is an index into the upstream log; a transaction is the set of keys it
writes and the kind of DDL it carries; a row's value is the LSN that wrote it. This
is all that tells a right replica from a wrong one.

### ChangeStreamer

`changes_since` reads the change log in one statement (`ReadLog`, from
`Catchup` or `RecvCommit`) and every row in another (`ResolveRow`), so a batch can
hold rows newer than its watermark. The owner's replicator is reduced to what a
subscriber sees: `OwnerCommit`, `OwnerPublish`, a session that replays
(`OwnerReplay`), a resync (`OwnerReset`, `OwnerMetadata`, `OwnerCopied`), a
crash and a restart with a new snapshot. The coalesced log is, per key, the
version and operation of its one entry, with sets of versions for the table-wide
entries. `Notify` is the bounded broadcast channel: at capacity the oldest
notification is dropped and the receiver sees `Lagged`.

### CvrStore

A session is whoever makes CVR transitions for the group on a node. With
`ZERO_GROUP_OWNERSHIP` off it is a connection, which reloads the durable CVR
before each transition under the node's transition lock; with it on it is the
group's processor loop, which keeps its own copy. A loop starts from `seed`, the
one load the connections of a node share as long as any of them, or a loop,
keeps the group service alive (`connect_cvr`); `SpawnLoop` joins the loop that
connections still hold or starts one, `ReleaseLoop` is the last of them leaving,
possibly during a commit. The flags are a variable that `Init` chooses, so a run
covers several combinations.

`LoadInstance`, `ClaimOwnership`, `ReadConfig` and `ReadRows` are the separate
statements of a load. `FlushBegin` is the flush's transaction up to its version
check under the row lock; `FlushCommit` is its writes and commit. With
`ZERO_DEFER_CVR_ROWS`, `FlushCommit` appends to the node's chain and
`DeferredFlush` writes the rows later. `LatestSlot` and `Landed` are the barrier:
a load remembers the newest slot when it starts and waits until that one is gone.

The clients, queries and desires of a CVR are the set of transition stamps that
made them (a flush upserts what it has), a row record is the stamp of the
transition that made it. `intended`, `lost`, `stray` and `kept` are history
variables used by the properties only. A transition may bump the version once for
its configuration and once more for its rows; the model takes both as one bump.

### ReplicaTables

`up` is upstream: tables by oid, columns by number, indexes, rows. A statement is
an action (`CreateTable`, `AlterTable`, `RenameColumn`, `SetPublished`, `Insert`,
`Update`, `Truncate`, …). A DDL statement puts the published schema before and
after it into the stream; `make_schema_changes` turns the two into schema changes
in the order of `pg_to_change.rs`, `apply` is the dispatcher: SQLite statements, the
metadata tables, the table specs read back and the change log with its
coalescing. `rep` is the replica; `rep.failed` is a statement that SQLite would
refuse. `CommitTables` ends a transaction, `base` remembers the rows then.

Rows have integers and text; a value carries its storage class, so a retyped
column that keeps its old class is visible. Four flags excuse what the code is
known to get wrong (section 6): `misled` (a change under `REPLICA IDENTITY FULL`
by a listed key that is stale or nullable), `keyless` (such a change of a table that
has no key, which the code refuses), `clobbered` (a truncate that takes
the log position of another table-wide entry of its transaction), `unlogged` (a
table without a row key).

### QueryGraph, QueryEngine

An operator is a record that holds its inputs; `build_pipeline` makes the graph of
a query as the builder does. `Fetch` pulls, `Flow` gives the steps of one pushed
change in the order the operators take them: forward it, write a Take's storage,
hide a row from fetches, accumulate in a FanIn. The world a graph reads is the
snapshot plus the changes pushed since, because sources answer a fetch in the
middle of a push from both. `Answer` is the reference: the meaning of the query
by comprehension, without operators.

`QueryEngine` hydrates one query, pushes changes and commits. Fetches are eager.
An edit keeps the join key (a change of it arrives as a removal and an addition,
`join_input.rs:56-59`). A child's change is pushed only where one subquery reads
its source and neither a limit nor an OR sits above: elsewhere the engine relies
on rehydration, and the live server always rehydrates and compares, so `push` is
library code today.

### GroupTransition, LiveConnection

A row is a value and the commit that wrote it. A driver is a snapshot and the
rows each query last knew; `Advance` moves the snapshot and gives each query's
changes, directly or by rehydration; `HydratedRefs`, `RowPatches`, `BuildPoke` are
the CVR's reference counts and the poke made of them, with the filter on row
versions a client was already sent and the cookie chain. `LiveConnection`'s
`work` is the transition under the group's lock: `Desire` starts one,
`AdvanceForPut` and `Hydrate` are two steps since a commit may come between them,
`Build`, `Flush` (the compare-and-swap) and `Retry` follow; `Rehydrate` is the
answer to a commit. `AdvanceFails`, `FlushFails` and `GiveUp` are the error paths,
`OtherNode` a commit of another node. `Deliver` is one poke that the client applies,
which it does up to an error frame; `Disconnect` ends the socket and loses
whatever was on it.

`trust` is a history variable: for each client and row, `fresh` once the
connection has sent it, `astray` once the code has lost track of it in one of the
ways section 6 names. `ViewIsCurrent` covers every other row, so a new way of
losing one violates it.

### GroupProcessor

`sess` are WebSocket connections in order, `loops` the processor loops, `service`
what they share: the driver, who desires each query, the first CVR loaded
(`seed`). A connection resolves the service, joins or spawns a loop, sends
`Attach`, `Desire` and `Detach` commands, which the loop takes in order and
before commit notifications. A client may be back on a new socket before the
server has noticed the loss of the old one (`Notice`), and a loop may end while
the next is spawned on the same service (`LoopEnds`, `GiveUp`). A transform's AST
is a number, 0 a failed transform; two clients whose ASTs differ make the loop
reset the shared query. Four ways for a command to fail end it with an error
frame and undo nothing: the advance (`AdvanceFails`), the registration of the query
with the driver (`AddQueryFails`), the read of its root rows (`FetchFails`), and
what follows that read (`FetchedFails`: a registration with the rows read, or the
related rows). The desire of a query is counted before it is registered, so
`unbuilt` has the queries whose registration failed. Delivery is immediate here, since `LiveConnection` has
the socket. `trust`, `lost`, `failed` and `service.unbuilt` are history variables.

### Mutations

`log` is what upstream committed, in order; a client's `lastMutationID` is the
number of its entries. Without a mutate server a connection begins a
SERIALIZABLE transaction (`Begin` takes the snapshot), commits (`Finish`) or
conflicts; the connection to Postgres may break before or after the commit.
With one, `Forward` makes a call, which the server serves mutation by mutation
(`Serve`). A call may fail at any point (`CallFails`), retryably or not, and the
server may go on with what it has of it (`left`, `ServeLeft`) while the next
attempt of the same push is under way. Clients push again what they do not know
to be confirmed, over another connection and while the old handler is still at
it.

### Authorizer

A case is one query or one mutation with rules, claims and rows, taken from all
small ones. Reading: the transformed query on all rows answers as the query does
on the rows its user may see. Writing: a mutation is authorized exactly when its
operations, run one after the other, each obey the rules on the rows they find,
with one exception. An EXISTS in a write rule is evaluated on the replica as it
was before the mutation (`live_connection.rs:1694`; upstream's speculative
transaction is not ported, `write_authorizer.rs:184-186`), so where other operations of the mutation write a table
that the rules of one look at, that one is judged on those rows. Deleting the
comment and updating the issue that needs it in one mutation is therefore
authorized, and `AuthorizedExactly` says so. Rules that look at other rows of
their own table, and mutations that write a row twice, are outside it.

### ConnectionContexts

`ConnectionContextManager` as the code has it, with `AskServer` for the query
server that validates outside of it and may answer when the connection has
changed. The two maintenance intervals are chosen at the start and either may be
disabled (`None`, written `{}`): then no deadline of its kind is ever set and
nothing is deferred. WebSocket ids are unique per connection. The live server does not use
this manager yet.

## 3. Runs

All bounds are constants named in the modules and limit the environment (commits,
faults, ticks), never the code under check. Two keys are enough to tell a row a
transaction wrote from one it did not; two or three transactions give a replay, a
coalesced entry, and something after it. Two clients are needed for shared
queries and replaced connections; a parent and a child row for reference counts
that two queries hold.

| Run | Bounds | Result |
|---|---|---|
| `replicator_safety` | 2 keys, all DDL kinds, 3 transactions, 2 faults | `TypeOK`, `SlotNeverPastDurable`, `CaughtUpIsPrefix`, `BeginNeverNested`, `SchemaFollowsStream`, `AckedIsPublished` and the inductive `ReplicatorInv` hold; 3.4 million states. Two faults give a fault during the recovery from one. |
| `replicator_converges` | 2 keys, 2 transactions, 2 faults, shutdown, no DDL | `EventuallyConsistent` holds. |
| `streamer_safety` | 2 keys, truncations and schema changes, 3 transactions, buffer of 1, a lost connection, an owner restart | `NothingMissed`, `NoLostWakeup`, `LiveOnSameSnapshot`, and `FollowsPromise` (it implements `FollowedReplica`); 2.3 million states. |
| `streamer_follows` | row changes, 2 transactions, buffer of 1, 2 transactions on the socket, a replay, a resync, an owner restart | `NoLostWakeup` holds through replays and resyncs; `EventuallyFollows` holds for owners that neither replay nor resync. |
| `cvr_nodes` | 2 nodes with a connection each, 2 rows, 3 transitions on an existing group, rows deferred or not, a tick, one failure of each kind, a crash | `CookieHasRows` and `NoLostUpdate` hold; 2.3 million states. |
| `cvr_one_node` | 1 node, 2 sessions, all four flag settings, 2 transitions of an existing group, one failure of each kind, a crash, a tick and the purger | `RowsNeverRollBack`, `RowsCatchUp` and `SessionsSettle`; 300 thousand states. Two sessions give a loop that starts, from an old load, while another one closes. |
| `cvr_new_group` | 2 nodes, 2 transitions of a new group | **violates** `NoLostUpdate` (section 6). |
| `engine` | ten queries, every content of a parent table (up to 3 rows) and a child table (up to 2), two changes, a commit after each | `HydrationMeansTheQuery`, `SyncedRowsAreEnough`, `ViewFollowsPushes`. Three parents are one more than the largest limit, two children one more than theirs; NULL, equal sort values and both start bounds occur. |
| `sync` | three budgets: 2 clients, 2 commits, 2 messages; 1 client that connects twice, with a commit, another node's commit and a failure; 1 client and two commits of another node, which use up its two attempts | `PokesFollowOn`, `ViewIsCurrent`. Two commits give one between advance and hydration and one after it. |
| `group` | 2 clients, 2 connections, 2 patches of three, a commit, a failure | `PokesFollowOn`, `StaysAttached`, `PipelinesAreDesired`, `ViewIsCurrent`; 2.0 million states. |
| `group_cas` | the same, no failure | **violates** `CasCannotLose` (section 6). |
| `services` | mutations: 2 clients, 2 connections, 2 mutations each of three kinds, a fault, 2 attempts; authorizer: all small queries, and mutations of one or two operations on one table or on two with rules that ask for rows of the other, with their rules, claims and rows; contexts: 2 clients, 2 sockets, 2 users, 2 validations under way, each interval set or disabled; tables: two schemas, up to four tables and statements together, 3 transactions | `ExactlyOnceInOrder`, `AnswersAreHonest`; `AuthorizedExactly`; `ValidatedAsItIs`, `MaintenanceIsPlanned`; `ReplicaAsCopied`, `VersionsTellChanges`, `LogTellsChanges`; 0.9 million states up to the symmetry of clients and sockets. The four share no state: a behaviour is one of one of them (`part`). |

A buffer of one notification is the smallest that overruns, and overruns are
what `NoLostWakeup` is about. Deadlock checking is off because every model stops
once its bounds are used up, and because a process may be shut down.

What the properties leave out, on purpose. `CookieHasRows` excuses row records
whose deferred flush was lost; it and `NoLostUpdate` excuse groups whose tombstone
a deferred flush has landed on (`stray`) and processor loops that went on with
changes they could not commit (`kept`). `ViewIsCurrent` excuses `astray` rows,
and in `GroupProcessor` mutation ids after a failed transition. The properties of
`ReplicaTables` excuse `misled`, `keyless`, `clobbered` and `unlogged`.
`PipelinesAreDesired` excuses the queries in `unbuilt`. In each case the code
does lose track, see section 6. The passing CVR runs start from a group that
exists and do not reach the removal of its tombstone, after which it is a new
one: `cvr_new_group` shows what happens then. `RowsNeverRollBack` is about one node:
two nodes have a chain of deferred flushes each, and nothing orders one behind
the other. `CaughtUpIsPrefix` speaks of a
session past its replay: during a replay rows really do go back to old values.

## 4. Fairness

* `Replicator`: weak fairness of the replicator's own steps (a task on a live
  runtime whose waits all have a timeout or a backoff), of Postgres receiving a
  status update, noticing a closed socket and decoding its log, of the poll, and
  of the orchestrator's restart. Commits, faults and shutdown are never forced.
* `ChangeStreamer`: weak fairness of publication, of a replay that has begun, of
  a resync or restart going on, of Litestream, of the serving task and of the
  view-syncer. `serve_subscriber` is one task, so its steps share one
  condition.
* `CvrStore`: the statements of a load or flush end, and spawned row flushes run.
  Nobody has to connect, disconnect or ask for anything, and neither the purger
  nor time has to move.

The other modules state safety only: whether a query's answer, a poke or a
permission is right does not depend on when it comes.

No strong fairness is assumed anywhere.

## 5. Proofs

The theorems hold for every value of the constants (sets of keys, rows, clients,
sessions or nodes of any size, any number of commits, faults and restarts) under
the assumptions named in the module that declares them. Those only say what kind
of thing a constant is; two ask for more and say why: `CvrStoreAssumption` has
finitely many sessions, since versions are counted per transition under way, and
a tombstone that is kept at least as long as an idle group.

| Module | Theorem | States |
|---|---|---|
| `ReplicatorProofs` | `ReplicatorInvariance` | `Spec => []ReplicatorInv` |
| | `TypeCorrect` | `Spec => []TypeOK` |
| | `SlotSafety` | `Spec => []SlotNeverPastDurable` |
| | `PrefixSafety` | `Spec => []CaughtUpIsPrefix` |
| | `NestingSafety` | `Spec => []BeginNeverNested` |
| | `PublishSafety` | `Spec => []AckedIsPublished` |
| | `SchemaSafety` | `Spec => []SchemaFollowsStream` |
| `ChangeStreamerProofs` | `TypeCorrect` | `Spec => []TypeOK` |
| | `WakeupsAreNeverLost` | `Spec => []NoLostWakeup` |
| | `ServedFromOneSnapshot` | `Spec => []LiveOnSameSnapshot`, if `MaxResyncs = 0` |
| | `NothingIsMissed` | `Spec => []NothingMissed`, if `MaxReplays = MaxResyncs = 0` |
| | `PromiseIsKept` | `Spec => FollowsPromise`, under the same condition |
| `CvrStoreProofs` | `TypeCorrect` | `Spec => []TypeOK` |
| | `RowsStayInOrder` | `Spec /\ []HasRow => RowsNeverRollBack`, on one node |
| | `UpdatesAreNotLost` | `Spec /\ []Settled => NoLostUpdate` |
| | `CookiesHaveRows` | `Spec /\ []Settled => []CookieHasRows` |
| `LiveConnectionProofs` | `ConnectionsTyped` | `Spec => []TypeOK` |
| | `ConnectionPokesFollowOn` | `Spec => []PokesFollowOn` |
| `GroupProcessorProofs` | `StaysAttachedAlways` | `Spec => []StaysAttached` |
| | `PipelinesStayDesired` | `Spec => []PipelinesAreDesired` |
| | `GroupPokesFollowOn` | `Spec => []PokesFollowOn` |
| `MutationsProofs` | `MutationsApplyOnce` | `MutSpec => []ExactlyOnceInOrder` |
| | `ClientsAreToldTheTruth` | `MutSpec => []AnswersAreHonest` |
| `ConnectionContextsProofs` | `AnswersAreCurrent` | `CtxSpec => []ValidatedAsItIs` |
| | `MaintenanceGoesOn` | `CtxSpec => []MaintenanceIsPlanned` |

None of the properties is inductive alone; what each proof adds, and why:

**Replicator.** `SlotNeverPastDurable` needs to know why the position about to be
acknowledged is durable, which is a fact about the session: `SessionInv` says
that every write at or below `pos` is in the rows or overwritten, that no position
that may be acknowledged or resumed from is beyond `pos`, and that everything up
to `pos` (`pos - 1` between commit and publication) was published. When the
stream is lost the session is gone, and `ReconnectInv` keeps the same for the
three places a next session may start from: the slot, an acknowledgement still
travelling to the old walsender, and `resume`. `TxnInv` ties the open transaction
to the committed rows, so that a commit extends them by exactly one transaction,
`CopiedInv` says the copied rows are the snapshot, and `SlotInv` that a copy runs
on an idle slot standing at that snapshot. `ReplicatorInv` is their conjunction,
and is also an invariant of `replicator_safety`. `SchemaInv` adds which schema the
open transaction has reached, so that a replayed DDL is seen to be applied
already.

**ChangeStreamer.** `WakeupInv` ties the batch being resolved to the change log,
also while a replay rewrites it. `FollowInv` follows a change from one end to the
other: the owner's rows are upstream's, the log has every change since the
initial sync and each entry is the last operation on its row, a backup has
everything up to its label, and the transactions on the socket and the one being
built carry the view-syncer from its watermark on without a gap. The
refinement uses it: applying the next transaction is the one step of
`FollowedReplica`, restoring is its start, everything else a stutter. The
hypotheses are not for convenience. A replay writes old versions over new ones
and a resync replaces the replica under live subscribers; the properties are
then false (section 6), and `streamer_follows` runs with both.

**CvrStore.** `CountInv` bounds versions: a version is counted once for each
transition that can still make one. `RowsStayInOrder` adds that a node's chain of
deferred flushes is in the order of its versions and that `rowsVersion` is not
ahead of it. `CopyInv` says that whatever a session or a loop holds of the CVR is
what the database had at that version, that rows under way in a chain are those
the configuration was flushed with, and that a flush past its version check holds
the row lock. `HasRow` and `Settled` ask that the group's row in `instances` is
there: once the purger has removed its tombstone, versions start again and a first
flush has nothing to lock, which is what `cvr_new_group` violates. `Settled` also
asks that a processor loop loses no deferred flush, because it goes on from its
own copy, not from what was flushed.

**GroupTransition.** The lemmas say what one poke is (`BuildsPoke`): its base is
the cookie of the delivery state it is built on, its cookie the highest version
of what it includes, and that is the cookie of the delivery state it leaves;
when nothing is included there is no poke and the state keeps its cookie. A patch
set is `Stamped` with a bound on its versions, `GotBy` bounds the versions at
which a CVR got its queries; hydrating, diffing and desiring keep both.

**LiveConnection.** `PokesFollowOn` is about what a client received.
`ConnectionInv` takes it back to where a poke is made: the frames on the socket
form a chain that begins at the client's cookie and does not pass the durable
version (`FramesInv`), and the delivery state of the connection stands at the end
of it (`DeliveriesInv`), except during a flush, when it is already one
poke ahead and the state to go back to is in `work`. `StagedInv` and `FlushInv`
bound what a transition will send by the version it commits, so that the chain
stays within the durable CVR when the compare-and-swap succeeds and nothing is
sent when it fails. `LockInv` is the group's lock: between reading the CVR and the
end of the transition nobody sends to that client. `PendingInv` covers a
hydration left over from the handshake until another message lets the loop send
it. An error ends the
chain: what is behind it is never applied. `ShapeInv` gives the types.

**GroupProcessor.** `ControlInv` is about control only: which sessions have a
command queued and in what order (`CommandsInv`), that generations are handed out
once per loop (`GenerationsInv`), and that a loop's entry for a client is of a
session that is open or whose `Detach` is still queued, while an open session has
its entry or a later session of its client has attached (`AttachedInv`). That is
what makes a late `Detach` harmless. `ServiceInv` says that the service is there
for whoever holds it, that the driver runs the desired queries but for the
unbuilt ones, and whose the desires are. `PokesFollowOn` needs both, since a poke goes to whichever connection
the loop has for a client: `PokesInv` adds `VersionsInv`, that what a
transition carries is stamped no later than its CVR and, if it hydrated nothing,
could still go back to the version it began with (what
`process_desired_queries` does), `ClientsInv`, that no client holds a cookie
beyond the durable CVR, and `DeliveriesInv`, that the connection a client is on
starts from the cookie the client holds, whether it is attached already or its
`Attach` is still queued. A loop may have connections of sockets that are gone,
with older cookies; their pokes reach nobody. `PokesInv` was an invariant of the
instance of `group` (2 million states) before it was proved.

**Mutations.** `ExactlyOnceInOrder` follows from what a transaction may add to the
log: the entry whose id is the client's count plus one. For upstream this needs
that a snapshot that SERIALIZABLE lets commit has all the client's entries
(`CountOfPrefix`); for a mutate server it holds of every call, given up or not.
`AnswersAreHonest` needs `ReachOK`: a push is a run of consecutive ids, and its
first is not beyond the client's next one unless the client has heard, or is about
to hear, of a failure. The same is kept for a call and for the push that would be
called again. The invariant was checked on the instance of `services` first.

**ConnectionContexts.** `ContextsInv` says that a background connection is chosen
exactly while one is validated, that a deadline is set exactly while it applies
and its interval is not disabled, and that of several deferrals one is kept.

Only model-checked, and why. Liveness (`EventuallyConsistent`,
`EventuallyFollows`, `RowsCatchUp`, `SessionsSettle`) is beyond the prover.
`QueryGraph` and `Authorizer` follow queries and conditions with recursive
operators, about which it cannot reason, and so nothing is proved of `QueryEngine`
either. `ReplicaTables` folds over statements and columns, so its properties would
need induction over data. `ViewIsCurrent`, in `LiveConnection` and
`GroupProcessor`, compares a client's rows with the answer of its queries; an
inductive invariant for it has to say of every row what each driver, each CVR and
each poke on its way know of it and how the ways of losing one in section 6 affect
that, and has not been written.

## 6. What the code does differently from its documentation

The first two have a run whose counterexample TLC prints.

* **Two nodes' first flushes overwrite each other** (`cvr_new_group`). There is no
  row to lock yet (`cvr_store_pg.rs:510`, against `cvr_config_store.rs:209-212`).
* **A processor loop loses every compare-and-swap from then on** (`group_cas`).
  A patch with a put that hydrates nothing is flushed one version above the one
  its loop keeps (`group_processor.rs:536`, against its line 460).

The others were met while modelling and are in the models as the code has them;
where a property would fail because of one, it says which rows it excuses.

Replication and change streaming:

* A resync can retry for ever: the slot is dropped once, before the retry loop,
  and the result is ignored (`replicator_service.rs:658`, against its lines
  653-655 and 664); if the walsender of the stream just closed still holds it,
  every `CREATE_REPLICATION_SLOT` after it fails too.
* A replay rewrites rows and log entries with their old versions; a batch read in
  between sends the old row under a newer entry's watermark, and the row's last
  version is then not newer than `last` (`change_streamer_server.rs:351`, against
  its lines 13-15). `NothingMissed` holds without replays.
* DDL between the snapshot and the introspection enters the specs and the poll's
  baseline but not the replica, and is not detected (`replicator_service.rs:446`).
* An inline DDL that was applied can still cause a resync through the poll
  (`replicator_service.rs:505-508`). Readiness stays set during a resync. An
  idle stream does not notice a shutdown.
* The owner never advances `stateVersion` after its initial sync
  (`change_dispatcher.rs:748`).
* Truncation deletes rows but leaves their `set` entries; a subscriber behind
  them drops every batch until the rows are written again
  (`change_streamer_server.rs:203`). So does a `reset` entry.
* `WatermarkTooOld` refuses subscribers because of coalescing although nothing
  was purged (`change_streamer_server.rs:288`). A resync in the running process
  leaves subscribers of the old snapshot connected, and a backup taken during the
  copy holds the new version without its rows.

The replica's tables:

* Table-wide log entries have position -1 (`change_log.rs:259-272`): of
  `TRUNCATE a, b`, or of a schema change and a truncate in one transaction, only
  the last is kept (`clobbered`).
* Dropping an index does not reload the table specs
  (`change_dispatcher.rs:657-661`): under `REPLICA IDENTITY FULL` rows are then
  found by a key that is none; and a unique index with nullable columns is taken
  for a key although its NULLs match nothing (`misled`).
* A table with a unique index, no primary key and identity DEFAULT is served, but
  its inserts are never logged (`unlogged`).
* A retyped column keeps its values but for SQLite's affinity; a change of a
  varchar's length is no difference; a literal default with a cast is stored as
  text. A swap of two unique values that upstream defers fails in SQLite.

Client view records and groups:

* A failed deferred row flush is forgotten: the next one brings `rowsVersion` up
  to date without its rows (`live_connection.rs:264`, against
  `cvr_row_flush_barrier.rs:6-9`).
* `process_desired_queries` keeps the version of a flush that failed
  (`group_processor.rs:481`): its compare-and-swap then fails for ever, or
  succeeds on an equal version that another loop has committed and overwrites it.
  `RolledBack` models this and `kept` marks it; two nodes' loops are therefore not
  in `cvr_nodes`.
* With group ownership every connection of a node takes the group service's
  first load, since nothing is ever put into `cvr_cell`
  (`group_registry.rs:68-70` says otherwise). A loop that starts while the
  previous one closes has an old copy, and loses every compare-and-swap until
  its connections leave. With four transitions the two together overwrite one.
* A crash between a configuration's commit and its deferred rows, or another
  node's deferred flush that lands late, leaves the rows behind for good, and
  every later load gives up.
* `lastActive` is the time of connecting, so a long-lived connection's CVR is
  purged (`cvr_purger.rs:18-19` says an active one is skipped); a deferred flush
  may then write to the tombstone (`stray`). A client whose CVR was purged has its
  socket closed without `ClientNotFound`.

View synchronisation (`astray` rows):

* The desire of a query is counted before the driver builds its pipeline, and
  stays counted when that fails (`group_shared_pipeline.rs:161-166` and 186-190,
  against `group_query_set.rs:106-107`): the next client that asks is taken for a
  later desirer and gets the rows, but later commits reach neither (`unbuilt`).
* `hydrate_put` moves the driver to the head and discards the changes this makes
  to the other queries (`group_shared_pipeline.rs:33-35` and 224-226,
  `query_pipeline.rs:56-61` say they are delivered).
* A commit between that advance and the SQL of the hydration is in the rows and,
  again, in the next advance (`group_transition.rs:1019-1022`).
* Related rows are hydrated against an empty map of existing records, which
  overwrites the references other queries hold (`group_transition.rs:1083-1084`).
  A deleted query's references stay. A row that one client's query drops while
  another client's still returns it stays with the first one, unchanged.
* A retry after a lost compare-and-swap finds the driver already advanced, so
  the changes are gone. A reconnect with an empty patch registers no pipeline
  (`bootstrap.rs:714-717`); a reconnect's hydration deletes stale rows of the
  root table only.
* The second client to put an executed query gets its root rows only
  (`group_transition.rs:1087-1088`); a query deleted and put again is registered
  with no rows; putting a desired query again after a commit's poke is filtered.
* Last mutation ids are read from the head of the replica, not from the snapshot
  of the poke's rows. A persistence failure on the commit path keeps a connection
  that asks to be closed, and in a loop loses the patches
  (`group_processor.rs:514`).
* A failed transform has fingerprint 0 and resets the query for the clients
  whose transform succeeded. An older connection's slower set-up replaces the
  handle of a newer one.
* After an `initConnection` in the handshake only its configuration poke is sent;
  the staged hydration waits for the client's next message or a commit
  (`bootstrap.rs:1051`, against `live_connection.rs:2304-2307`).

Query engine:

* A pending row equal to the start row of a fetch that begins *after* it is kept,
  where the SQL would not return it (`sqlite_source.rs:284`, against its lines
  36-38); a Take asks for such fetches (`take.rs:458-470`). Changes applied directly lose a row when two rows swap a
  unique value.

Mutations and permissions:

* A write rule with an EXISTS is evaluated on the replica before the mutation,
  whatever its other operations do to the rows it asks for
  (`live_connection.rs:1694` and 1873-1910).
* `apply_push_upstream` calls the variant without retry as error-only
  (`apply_mutation.rs:195`): a mutation that fails, is malformed, rate-limited or
  custom, or that conflicts, is answered as an application error without counting
  its id; later ones are out of order, and it may be applied when pushed again
  after it was reported as failed. A broken upstream connection is never
  replaced, so every later push of the client fails this way, although
  `live_connection.rs:1216-1218` avoids just that for a failed connect.

## 7. Modelling assumptions

* SQLite and Postgres transactions are atomic and isolated as configured;
  single statements are atomic; a crash rolls back what is open.
* One view-syncer, one client group: the code keeps their state apart.
  `Replicator` and `ChangeStreamer` have one published table, `ReplicaTables` has
  several.
* In `ChangeStreamer` a truncation comes before the row operations of its
  transaction.
* A view-syncer's own change log, read only by its clients, is not modelled.
* `COPY` at an exported snapshot is one step; its workers and chunks share the
  snapshot and the replica is not read until it is done, except by the backup,
  which `ChangeStreamer` models.
* Timeouts and backoffs are nondeterministic; in `CvrStore` the eight retries
  after a lost compare-and-swap and the ten attempts of a load end whenever they
  like.
* `ReplicaTables` applies what a statement sends at once. The rows of a table are
  a set: no statement makes two of them equal.
* In `LiveConnection` and `GroupProcessor` one SQL step reads all rows of a
  hydration; a client applies a poke at once and refuses one that does not start
  from its cookie. In `LiveConnection` an advance can fail, but not what follows it
  in a hydration (the driver's registration, the SQL reads): the code ends the
  transition the same way then, and nobody else has the connection's driver. In
  `GroupProcessor`, where the driver is shared, they can. The ASTs of one query return the same rows. In a group's loop
  the deletions of a patch come before its puts.
* Postgres, the walsender, `INSERT … ON CONFLICT`, Litestream, the orchestrator,
  the clients, the mutate server and the query server are modelled from how the
  code uses them (marked external where a definition models nothing else).

## 8. What is not modelled

* The planner and cost model, which choose an order of joins and not a result;
  `LIKE`, scalar subqueries and query covering.
* Decoding: pgoutput and COPY formats, JSON messages, lexicographic versions and
  conversions of dates, booleans and JSON values. The models take their results.
* In `ReplicaTables`: identity USING INDEX, publication column lists, deferrable
  constraints, and backfill, which this change source never sends.
* Library code that the running server does not call: the durable change-stream
  services and notifier, the pusher's batches, the lifecycle and session of
  `zero-cache-view-syncer`, the shared pipeline's log of advances, `Subscription`.
  (A waiting consumer of `Subscription` that is dropped takes the message that was
  handed to it along.)
* Expiry of inactive queries, eviction, deletion of clients, the window of the
  mutation limiter, token verification and refresh.
* HTTP dispatch, configuration, start-up, observability, maintenance, shared
  utilities; benchmarks, simulation and the vendored SQLite.

`PROJECT.json` lists every file under one of its components.

## 9. Plan

All modules of the plan are written and checked. To prove next:

1. `ViewIsCurrent` in `LiveConnection`: first for one client and no failure, where
   no row goes astray, then with the ways of section 6.
2. `ReplicaTables`: `LogTellsChanges` for one statement at a time.
3. `QueryEngine`: its types, given that the operators of `QueryGraph` keep theirs.

To model next: expiry of inactive queries and TTL, the reset of a pipeline on a
schema change, the limiter's window, the version encoding against the order of
numbers, the planner's joins against the unplanned query.
