----------------------------- MODULE Replicator -----------------------------
(***************************************************************************)
(* The replicator: the single writer that copies an upstream Postgres      *)
(* database into the SQLite replica and then follows it by logical         *)
(* replication (run_replicator, drive_apply_loop, ReplicationApplier,      *)
(* ReplicatorSupervisor, run_full_initial_sync).                           *)
(*                                                                         *)
(* Data is abstracted to what tells a right replica from a wrong one.  An  *)
(* LSN is the index of a transaction in the upstream log, a transaction is *)
(* the set of row keys it writes, and the value of a row is the LSN of the *)
(* transaction whose write it holds (0: never written).  The published     *)
(* schema is a version number, starting at 1; every DDL adds one.          *)
(***************************************************************************)
EXTENDS Integers, Sequences

CONSTANTS
    Keys,            \* row keys of the published table
    DdlKinds,        \* the kinds of DDL the upstream may run
    MaxLsn,          \* bound: upstream transactions
    MaxSchema,       \* bound: schema versions
    MaxFaults,       \* bound: faults (disconnects, failed calls, crashes)
    PromptTeardown,  \* the walsender exits as soon as the stream is dropped
    PollEnabled,     \* ZERO_SCHEMA_POLL_INTERVAL_MS > 0
    MayShutDown      \* whether a shutdown may be requested

(***************************************************************************)
(* "inline": the event trigger's message decodes into schema changes;      *)
(* "rebuild": it decodes into DdlOutcome::Resync (a backfill is needed);   *)
(* "silent": no event trigger (ddlDetection = false), so no message.       *)
(***************************************************************************)
ASSUME DdlKindsAssumption == DdlKinds \subseteq {"inline", "rebuild", "silent"}
ASSUME BoundsAssumption == /\ MaxLsn \in Nat
                           /\ MaxSchema \in Nat
                           /\ MaxFaults \in Nat
ASSUME SwitchAssumption == /\ PromptTeardown \in BOOLEAN
                           /\ PollEnabled \in BOOLEAN
                           /\ MayShutDown \in BOOLEAN

VARIABLES
    wal,            \* upstream: the committed transactions
    slotExists,     \* upstream: the replication slot exists
    slotActive,     \* upstream: a walsender holds the slot
    confirmed,      \* upstream: the slot's confirmed_flush_lsn
    acking,         \* the standby status update in flight to the walsender
    replica,        \* "empty" | "partial" | "synced"
    rows,           \* the replica's committed rows
    replicaSchema,  \* the schema the replica's tables have
    stateVersion,   \* _zero.replicationState.stateVersion
    applied,        \* the last transaction committed to this replica
    pc,             \* where run_replicator is
    mode,           \* "startup" | "resync": which caller runs the full sync
    snapshot,       \* consistent_point of the slot the copy uses
    inTxn,          \* the dispatcher has a transaction open
    txRows,         \* the rows as the open transaction sees them
    txSchema,       \* the schema as the open transaction sees it
    pos,            \* the last transaction received whole in this session
    phase,          \* the next message of transaction pos + 1
    relSent,        \* schema of the last Relation message (0: none yet)
    flushLsn,       \* flush_lsn of drive_apply_loop
    resume,         \* resume_lsn
    specs,          \* schema version of the published table specs
    baseline,       \* schema version behind schema_baseline (0: no poll yet)
    schemaChange,   \* the schema_change flag
    pollSeen,       \* schema the poll has introspected, not yet compared
    queryConn,      \* query_conn is alive
    ready,          \* the readiness flag
    published,      \* the highest watermark published to the fan-out
    shutdown,       \* the shutdown flag
    faults          \* faults so far

upstreamVars == <<wal, slotExists, slotActive, confirmed, acking>>
replicaVars  == <<replica, rows, replicaSchema, stateVersion, applied>>
syncVars     == <<mode, snapshot, ready>>
txnVars      == <<inTxn, txRows, txSchema>>
sessionVars  == <<pos, phase, relSent, flushLsn>>
specVars     == <<specs, baseline>>
pollVars     == <<schemaChange, pollSeen>>
vars == <<upstreamVars, replicaVars, syncVars, txnVars, sessionVars, specVars,
          pollVars, pc, resume, queryConn, published, shutdown, faults>>

-----------------------------------------------------------------------------
(* The upstream log                                                        *)

Txn == [keys : SUBSET Keys, ddl : DdlKinds \cup {"none"}, schema : Nat]

\* The schema version once the first n transactions have committed.
SchemaAt(n) == IF n = 0 THEN 1 ELSE wal[n].schema

CurrentSchema == SchemaAt(Len(wal))

\* v is the last of the first n transactions that writes k (0: none does).
IsLastWriter(k, n, v) ==
    /\ v \in 0..n
    /\ v > 0 => k \in wal[v].keys
    /\ \A i \in (v + 1)..n : k \notin wal[i].keys

\* f holds exactly what the first n transactions wrote.
IsPrefixState(f, n) == \A k \in Keys : IsLastWriter(k, n, f[k])

\* pgoutput sends nothing for a transaction without rows and messages.
Streamed(t) == t.keys # {} \/ t.ddl \in {"inline", "rebuild"}

\* Mutant: event-trigger messages are dropped as unknown.
FirstMessageWithoutDdl(t) == IF t.keys = {} THEN "commit" ELSE "data"

\* The first message after Begin of transaction t.
FirstMessage(t) == IF t.ddl \in {"inline", "rebuild"} THEN "ddl" ELSE "data"

LaterOf(a, b) == IF a > b THEN a ELSE b

Session == {"stream", "ack", "publish"}

-----------------------------------------------------------------------------
(***************************************************************************)
(* A process starts with whatever an earlier one left: a replica, a slot,  *)
(* and perhaps a walsender that still holds the slot.                      *)
(***************************************************************************)
Init ==
    /\ wal = <<>>
    /\ slotExists \in BOOLEAN
    /\ slotActive \in {FALSE, slotExists}
    /\ confirmed = 0
    /\ acking = 0
    /\ replica \in {"empty", "synced"}
    /\ rows = [k \in Keys |-> 0]
    /\ replicaSchema = 1
    /\ stateVersion = 0
    /\ applied = 0
    /\ pc = "prepare"
    /\ mode = "startup"
    /\ snapshot = 0
    /\ inTxn = FALSE
    /\ txRows = rows
    /\ txSchema = 1
    /\ pos = 0
    /\ phase = "begin"
    /\ relSent = 0
    /\ flushLsn = 0
    /\ resume = 0
    /\ specs = 0
    /\ baseline = 0
    /\ schemaChange = FALSE
    /\ pollSeen = 0
    /\ queryConn = FALSE
    /\ ready = FALSE
    /\ published = 0
    /\ shutdown = FALSE
    /\ faults = 0

-----------------------------------------------------------------------------
(* Upstream Postgres                                                       *)

UpstreamCommit ==
    /\ Len(wal) < MaxLsn
    /\ \E ks \in SUBSET Keys, d \in DdlKinds \cup {"none"} :
          /\ ks # {} \/ d # "none"
          /\ d # "none" => CurrentSchema < MaxSchema
          /\ wal' = Append(wal, [keys   |-> ks, ddl |-> d,
                                 schema |-> CurrentSchema
                                            + (IF d = "none" THEN 0 ELSE 1)])
    /\ UNCHANGED <<slotExists, slotActive, confirmed, acking, replicaVars, pc,
                   syncVars, txnVars, sessionVars, specVars, pollVars, resume,
                   queryConn, published, shutdown, faults>>

\* The walsender moves the slot to the flush position it was sent.  It may
\* still do so after the client has dropped the stream.
ReceiveAck ==
    /\ slotActive
    /\ acking > confirmed
    /\ confirmed' = acking
    /\ UNCHANGED <<wal, slotExists, slotActive, acking, replicaVars, pc,
                   syncVars, txnVars, sessionVars, specVars, pollVars, resume,
                   queryConn, published, shutdown, faults>>

\* A walsender notices that its client is gone and releases the slot.
WalsenderExit ==
    /\ slotActive
    /\ pc \notin Session
    /\ slotActive' = FALSE
    /\ acking' = 0
    /\ UNCHANGED <<wal, slotExists, confirmed, replicaVars, pc, syncVars,
                   txnVars, sessionVars, specVars, pollVars, resume,
                   queryConn, published, shutdown, faults>>

\* drop(stream): the socket closes; the walsender may take a while to notice.
DropStream ==
    IF PromptTeardown THEN slotActive' = FALSE /\ acking' = 0
                      ELSE UNCHANGED <<slotActive, acking>>

\* Mutant: an error path that forgets the rollback.
KeepTransaction == UNCHANGED inTxn

\* ReplicationApplier::rollback
Rollback == inTxn' = FALSE

\* A fault the environment may inject, within the bound.
Fault == faults < MaxFaults /\ faults' = faults + 1

\* reset_replica_for_resync: every table is dropped.
ResetReplica ==
    /\ replica' = "empty"
    /\ rows' = [k \in Keys |-> 0]
    /\ replicaSchema' = 0
    /\ stateVersion' = 0
    /\ applied' = 0

-----------------------------------------------------------------------------
(* Full initial sync, at startup and on a resync                           *)

\* prepare_initial_sync_attempt: reset the replica, then drop the slot.
PrepareInitialSync ==
    /\ pc = "prepare"
    /\ ~slotActive
    /\ ResetReplica
    /\ slotExists' = FALSE
    /\ confirmed' = 0
    /\ pc' = "create_slot"
    /\ UNCHANGED <<wal, slotActive, acking, syncVars, txnVars, sessionVars,
                   specVars, pollVars, resume, queryConn, published, shutdown,
                   faults>>

\* What both retry loops do with a failed attempt.  The startup loop begins
\* again with prepare_initial_sync_attempt; the resync loop only reopens
\* query_conn and calls run_full_initial_sync again.
Retry ==
    /\ pc' = IF shutdown THEN "stopped"
             ELSE IF mode = "startup" THEN "prepare" ELSE "create_slot"
    /\ IF mode = "resync" THEN queryConn' \in {queryConn, TRUE}
                          ELSE UNCHANGED queryConn

\* The slot cannot be dropped while active, or upstream cannot be reached;
\* the replica is already reset.
PrepareFails ==
    /\ pc = "prepare"
    /\ (slotActive /\ UNCHANGED faults) \/ Fault
    /\ ResetReplica
    /\ Retry
    /\ UNCHANGED <<upstreamVars, syncVars, txnVars, sessionVars, specVars,
                   pollVars, resume, published, shutdown>>

\* run_full_initial_sync, steps 1 to 3: CREATE_REPLICATION_SLOT fixes the
\* snapshot and the consistent point.
CreateSlot ==
    /\ pc = "create_slot"
    /\ ~slotExists
    /\ slotExists' = TRUE
    /\ confirmed' = Len(wal)
    /\ snapshot' = Len(wal)
    /\ pc' = "copy"
    /\ UNCHANGED <<wal, slotActive, acking, replicaVars, mode, ready, txnVars,
                   sessionVars, specVars, pollVars, resume, queryConn,
                   published, shutdown, faults>>

CreateSlotFails ==
    /\ pc = "create_slot"
    /\ (slotExists /\ UNCHANGED faults) \/ Fault
    /\ Retry
    /\ UNCHANGED <<upstreamVars, replicaVars, syncVars, txnVars, sessionVars,
                   specVars, pollVars, resume, published, shutdown>>

\* run_full_initial_sync, step 4: metadata tables, then the copy at the
\* snapshot.  The startup caller then sets ready.
CopySnapshot ==
    /\ pc = "copy"
    /\ replica = "empty"
    /\ replica' = "synced"
    /\ rows' \in {f \in [Keys -> 0..MaxLsn] : IsPrefixState(f, snapshot)}
    /\ replicaSchema' = SchemaAt(snapshot)
    /\ stateVersion' = snapshot
    /\ applied' = snapshot
    /\ ready' = (ready \/ mode = "startup")
    /\ pc' = "introspect"
    /\ UNCHANGED <<upstreamVars, mode, snapshot, txnVars, sessionVars,
                   specVars, pollVars, resume, queryConn, published, shutdown,
                   faults>>

\* The copy fails half way and leaves the slot and some tables behind.
CopyFails ==
    /\ pc = "copy"
    /\ Fault
    /\ replica' = "partial"
    /\ Retry
    /\ UNCHANGED <<upstreamVars, rows, replicaSchema, stateVersion, applied,
                   syncVars, txnVars, sessionVars, specVars, pollVars, resume,
                   published, shutdown>>

\* Mutant: the flag survives the resync it asked for.
KeepSchemaChange == UNCHANGED schemaChange

\* A resync ends with schema_change.store(false).
ClearSchemaChange ==
    schemaChange' = IF mode = "resync" THEN FALSE ELSE schemaChange

\* get_publication_info on query_conn reads the live schema, not the one at
\* the snapshot; specs, resume_lsn, the applier and the poll's baseline are
\* set from it, and a resync also clears the schema_change flag.
IntrospectSpecs ==
    /\ pc = "introspect"
    /\ mode = "resync" => queryConn
    /\ queryConn' = TRUE
    /\ specs' = CurrentSchema
    /\ baseline' = CurrentSchema
    /\ resume' = snapshot
    /\ inTxn' = FALSE
    /\ ClearSchemaChange
    /\ pc' = "connect"
    /\ UNCHANGED <<upstreamVars, replicaVars, syncVars, txRows, txSchema,
                   sessionVars, pollSeen, published, shutdown, faults>>

\* At startup the error ends run_replicator, and with it the process.
IntrospectFails ==
    /\ pc = "introspect"
    /\ (mode = "resync" /\ ~queryConn /\ UNCHANGED faults) \/ Fault
    /\ IF mode = "startup" THEN pc' = "failed" /\ UNCHANGED queryConn
                           ELSE Retry
    /\ UNCHANGED <<upstreamVars, replicaVars, syncVars, txnVars, sessionVars,
                   specVars, pollVars, resume, published, shutdown>>

-----------------------------------------------------------------------------
(* The supervised stream                                                   *)

\* while !shutdown
LoopExits ==
    /\ pc = "connect"
    /\ shutdown
    /\ pc' = "stopped"
    /\ UNCHANGED <<upstreamVars, replicaVars, syncVars, txnVars, sessionVars,
                   specVars, pollVars, resume, queryConn, published, shutdown,
                   faults>>

\* connect and START_REPLICATION: Postgres streams from the later of the
\* requested and the confirmed position, and refuses a slot that is active.
Connect ==
    /\ pc = "connect"
    /\ ~shutdown
    /\ slotExists
    /\ ~slotActive
    /\ slotActive' = TRUE
    /\ acking' = 0
    /\ pos' = LaterOf(resume, confirmed)
    /\ phase' = "begin"
    /\ relSent' = 0
    /\ flushLsn' = 0
    /\ pc' = "stream"
    /\ UNCHANGED <<wal, slotExists, confirmed, replicaVars, syncVars, txnVars,
                   specVars, pollVars, resume, queryConn, published, shutdown,
                   faults>>

\* A failed attempt only sleeps through the backoff.
ConnectFails ==
    /\ pc = "connect"
    /\ ~shutdown
    /\ Fault
    /\ UNCHANGED <<upstreamVars, replicaVars, syncVars, txnVars, sessionVars,
                   specVars, pollVars, pc, resume, queryConn, published,
                   shutdown>>

\* The walsender decodes a transaction that has nothing to stream.
SkipUnstreamed ==
    /\ pc = "stream"
    /\ phase = "begin"
    /\ pos < Len(wal)
    /\ ~Streamed(wal[pos + 1])
    /\ pos' = pos + 1
    /\ UNCHANGED <<upstreamVars, replicaVars, syncVars, txnVars, phase,
                   relSent, flushLsn, specVars, pollVars, pc, resume,
                   queryConn, published, shutdown, faults>>

\* An event is handled only after the schema_change flag was found clear.
NextMessage(p) ==
    /\ pc = "stream"
    /\ ~schemaChange
    /\ phase = p
    /\ pos < Len(wal)
    /\ Streamed(wal[pos + 1])

DeliverBegin ==
    /\ NextMessage("begin")
    /\ ~inTxn
    /\ inTxn' = TRUE
    /\ txRows' = rows
    /\ txSchema' = replicaSchema
    /\ phase' = FirstMessage(wal[pos + 1])
    /\ UNCHANGED <<upstreamVars, replicaVars, syncVars, pos, relSent,
                   flushLsn, specVars, pollVars, pc, resume, queryConn,
                   published, shutdown, faults>>

\* DdlOutcome::Changes: ALTER TABLE on the replica, which SQLite refuses when
\* the change is already there.
DeliverDdl ==
    /\ NextMessage("ddl")
    /\ wal[pos + 1].ddl = "inline"
    /\ txSchema + 1 = wal[pos + 1].schema
    /\ txSchema' = wal[pos + 1].schema
    /\ phase' = IF wal[pos + 1].keys = {} THEN "commit" ELSE "data"
    /\ UNCHANGED <<upstreamVars, replicaVars, syncVars, inTxn, txRows, pos,
                   relSent, flushLsn, specVars, pollVars, pc, resume,
                   queryConn, published, shutdown, faults>>

\* pgoutput announces the relation before its first row in a session, and
\* again after its schema changed.  It matches the specs.
DeliverRelation ==
    /\ NextMessage("data")
    /\ relSent # wal[pos + 1].schema
    /\ specs = wal[pos + 1].schema
    /\ relSent' = wal[pos + 1].schema
    /\ UNCHANGED <<upstreamVars, replicaVars, syncVars, txnVars, pos, phase,
                   flushLsn, specVars, pollVars, pc, resume, queryConn,
                   published, shutdown, faults>>

\* Insert / Update / Delete messages, applied in the open transaction.
DeliverRows ==
    /\ NextMessage("data")
    /\ relSent = wal[pos + 1].schema
    /\ txSchema = wal[pos + 1].schema
    /\ txRows' = [k \in Keys |-> IF k \in wal[pos + 1].keys THEN pos + 1
                                 ELSE txRows[k]]
    /\ phase' = "commit"
    /\ UNCHANGED <<upstreamVars, replicaVars, syncVars, inTxn, txSchema, pos,
                   relSent, flushLsn, specVars, pollVars, pc, resume,
                   queryConn, published, shutdown, faults>>

\* ChangeDispatcher::commit: the transaction becomes durable.  It does not
\* write _zero.replicationState.
DeliverCommit ==
    /\ NextMessage("commit")
    /\ rows' = txRows
    /\ replicaSchema' = txSchema
    /\ applied' = LaterOf(applied, pos + 1)
    /\ inTxn' = FALSE
    /\ pos' = pos + 1
    /\ phase' = "begin"
    /\ flushLsn' = LaterOf(flushLsn, pos + 1)
    /\ pc' = "ack"
    /\ UNCHANGED <<upstreamVars, replica, stateVersion, syncVars, txRows,
                   txSchema, relSent, specVars, pollVars, resume, queryConn,
                   published, shutdown, faults>>

\* Mutant: acknowledge the position received, not the one committed.
ReceivedLsn == IF pos < Len(wal) THEN pos + 1 ELSE pos

\* Mutant: off by one.
LsnAfterFlush == flushLsn + 1

\* What a status update reports as flushed and applied.
AckLsn == flushLsn

\* send_standby_status_update after a commit.  (The reply to a keepalive
\* carries the same flush_lsn, so it is already in flight.)
SendAck ==
    /\ pc = "ack"
    /\ acking' = AckLsn
    /\ pc' = "publish"
    /\ UNCHANGED <<wal, slotExists, slotActive, confirmed, replicaVars,
                   syncVars, txnVars, sessionVars, specVars, pollVars, resume,
                   queryConn, published, shutdown, faults>>

\* Mutant: publish only when the log is drained.
PublishedWhenIdle == IF pos = Len(wal) THEN LaterOf(published, pos) ELSE published

\* publish_commit wakes every subscriber for this commit and those before it.
PublishedUpTo == LaterOf(published, pos)

\* The should_stop closure publishes the commit and reads the shutdown flag.
PublishCommit ==
    /\ pc = "publish"
    /\ published' = PublishedUpTo
    /\ IF shutdown THEN pc' = "stopped" /\ DropStream
                   ELSE pc' = "stream" /\ UNCHANGED <<slotActive, acking>>
    /\ UNCHANGED <<wal, slotExists, confirmed, replicaVars, syncVars, txnVars,
                   sessionVars, specVars, pollVars, resume, queryConn,
                   shutdown, faults>>

\* Mutant: resume from the server's current position.
HeadLsn == Len(wal)

\* confirmed_lsn(..).unwrap_or(resume_lsn)
ConfirmedLsn == IF queryConn /\ slotExists THEN confirmed ELSE resume

\* The loop returned Err, or the stream ended: stop if asked to, otherwise
\* roll back and resume from the slot's position if it can be read.
LeaveStream ==
    /\ DropStream
    /\ IF shutdown
       THEN /\ pc' = "stopped"
            /\ UNCHANGED <<inTxn, resume>>
       ELSE /\ pc' = "connect"
            /\ Rollback
            /\ resume' = ConfirmedLsn
    /\ UNCHANGED <<wal, slotExists, confirmed, replicaVars, syncVars, txRows,
                   txSchema, sessionVars, specVars, pollVars, queryConn,
                   published, shutdown>>

\* Disconnect, liveness timeout, CopyDone, or a status update that could not
\* be sent.
StreamEnds ==
    /\ pc \in {"stream", "ack"}
    /\ Fault
    /\ LeaveStream

\* A message cannot be applied: Begin inside a transaction, a schema change
\* the replica already has, or rows of a schema it does not have.
ApplyFails ==
    /\ \/ NextMessage("begin") /\ inTxn
       \/ /\ NextMessage("ddl")
          /\ wal[pos + 1].ddl = "inline"
          /\ txSchema + 1 # wal[pos + 1].schema
       \/ /\ NextMessage("data")
          /\ relSent = wal[pos + 1].schema
          /\ txSchema # wal[pos + 1].schema
    /\ LeaveStream
    /\ UNCHANGED faults

\* The loop stops with a drift reason; decide_next_action lets drift win even
\* over a requested stop.
Drift ==
    /\ pc' = "resync"
    /\ DropStream
    /\ UNCHANGED <<wal, slotExists, confirmed, replicaVars, syncVars, txnVars,
                   sessionVars, specVars, pollVars, resume, queryConn,
                   published, shutdown, faults>>

\* schema_poll_tripped, on any event: keepalives arrive on an idle stream.
PollTripped ==
    /\ pc = "stream"
    /\ schemaChange
    /\ Drift

RelationDrift ==
    /\ NextMessage("data")
    /\ relSent # wal[pos + 1].schema
    /\ specs # wal[pos + 1].schema
    /\ Drift

DdlNeedsResync ==
    /\ NextMessage("ddl")
    /\ wal[pos + 1].ddl = "rebuild"
    /\ Drift

-----------------------------------------------------------------------------
(* Resync                                                                  *)

\* Roll back, then drop every table of the replica.
ResyncReset ==
    /\ pc = "resync"
    /\ Rollback
    /\ ResetReplica
    /\ mode' = "resync"
    /\ pc' = "drop_slot"
    /\ UNCHANGED <<upstreamVars, snapshot, ready, txRows, txSchema,
                   sessionVars, specVars, pollVars, resume, queryConn,
                   published, shutdown, faults>>

\* A replica database error is the one fatal error of a resync.
ResyncResetFails ==
    /\ pc = "resync"
    /\ Fault
    /\ pc' = "failed"
    /\ UNCHANGED <<upstreamVars, replicaVars, syncVars, txnVars, sessionVars,
                   specVars, pollVars, resume, queryConn, published,
                   shutdown>>

DropSlot ==
    /\ pc = "drop_slot"
    /\ queryConn
    /\ ~slotActive
    /\ slotExists' = FALSE
    /\ confirmed' = 0
    /\ pc' = "create_slot"
    /\ UNCHANGED <<wal, slotActive, acking, replicaVars, syncVars, txnVars,
                   sessionVars, specVars, pollVars, resume, queryConn,
                   published, shutdown, faults>>

\* The result of pg_drop_replication_slot is ignored.
DropSlotFails ==
    /\ pc = "drop_slot"
    /\ ((slotActive \/ ~queryConn) /\ UNCHANGED faults) \/ Fault
    /\ pc' = "create_slot"
    /\ UNCHANGED <<upstreamVars, replicaVars, syncVars, txnVars, sessionVars,
                   specVars, pollVars, resume, queryConn, published,
                   shutdown>>

-----------------------------------------------------------------------------
(* The schema poll, the connection used for queries, the process           *)

\* One round of run_schema_poll, first half: introspect the live schema.
PollIntrospect ==
    /\ PollEnabled
    /\ baseline # 0
    /\ pc \notin {"stopped", "failed"}
    /\ ~shutdown
    /\ pollSeen = 0
    /\ pollSeen' = CurrentSchema
    /\ UNCHANGED <<upstreamVars, replicaVars, syncVars, txnVars, sessionVars,
                   specVars, schemaChange, pc, resume, queryConn, published,
                   shutdown, faults>>

\* Second half: compare its fingerprint with the baseline of that moment.
PollCompare ==
    /\ pollSeen # 0
    /\ pc \notin {"stopped", "failed"}
    /\ schemaChange' = (schemaChange \/ pollSeen # baseline)
    /\ pollSeen' = 0
    /\ UNCHANGED <<upstreamVars, replicaVars, syncVars, txnVars, sessionVars,
                   specVars, pc, resume, queryConn, published, shutdown,
                   faults>>

QueryConnDies ==
    /\ queryConn
    /\ Fault
    /\ queryConn' = FALSE
    /\ UNCHANGED <<upstreamVars, replicaVars, syncVars, txnVars, sessionVars,
                   specVars, pollVars, pc, resume, published, shutdown>>

RequestShutdown ==
    /\ MayShutDown
    /\ ~shutdown
    /\ pc # "failed"
    /\ shutdown' = TRUE
    /\ UNCHANGED <<upstreamVars, replicaVars, syncVars, txnVars, sessionVars,
                   specVars, pollVars, pc, resume, queryConn, published,
                   faults>>

\* The process dies anywhere.  SQLite rolls the open transaction back.
Crash ==
    /\ pc \notin {"stopped", "failed"}
    /\ Fault
    /\ pc' = "failed"
    /\ DropStream
    /\ UNCHANGED <<wal, slotExists, confirmed, replicaVars, syncVars, txnVars,
                   sessionVars, specVars, pollVars, resume, queryConn,
                   published, shutdown>>

\* The orchestrator starts the process again: only upstream and the replica
\* file survive.
Restart ==
    /\ pc = "failed"
    /\ pc' = "prepare"
    /\ mode' = "startup"
    /\ snapshot' = 0
    /\ ready' = FALSE
    /\ inTxn' = FALSE
    /\ pos' = 0 /\ phase' = "begin" /\ relSent' = 0 /\ flushLsn' = 0
    /\ resume' = 0
    /\ specs' = 0 /\ baseline' = 0
    /\ schemaChange' = FALSE /\ pollSeen' = 0
    /\ queryConn' = FALSE
    /\ published' = 0
    /\ shutdown' = FALSE
    /\ UNCHANGED <<upstreamVars, replicaVars, txRows, txSchema, faults>>

-----------------------------------------------------------------------------
InitialSyncStep == PrepareInitialSync \/ PrepareFails \/ CreateSlot
                   \/ CreateSlotFails \/ CopySnapshot \/ CopyFails
                   \/ IntrospectSpecs \/ IntrospectFails

StreamStep == LoopExits \/ Connect \/ ConnectFails \/ DeliverBegin
              \/ DeliverDdl \/ DeliverRelation \/ DeliverRows \/ DeliverCommit
              \/ SendAck \/ PublishCommit \/ StreamEnds \/ ApplyFails
              \/ PollTripped \/ RelationDrift \/ DdlNeedsResync

ResyncStep == ResyncReset \/ ResyncResetFails \/ DropSlot \/ DropSlotFails

RunReplicator == InitialSyncStep \/ StreamStep \/ ResyncStep

Upstream == UpstreamCommit \/ ReceiveAck \/ WalsenderExit \/ SkipUnstreamed

Poll == PollIntrospect \/ PollCompare

Process == QueryConnDies \/ RequestShutdown \/ Crash \/ Restart

Next == RunReplicator \/ Upstream \/ Poll \/ Process

Spec == Init /\ [][Next]_vars

(***************************************************************************)
(* Fairness.  run_replicator and the poll are tasks on a live runtime and  *)
(* every wait of theirs is bounded by a timeout or a backoff; Postgres     *)
(* processes the socket of a walsender, decodes its log and notices a      *)
(* closed one; the orchestrator restarts the process.  Commits, faults and *)
(* shutdown are never forced.                                              *)
(***************************************************************************)
Fairness ==
    /\ WF_vars(RunReplicator)
    /\ WF_vars(ReceiveAck)
    /\ WF_vars(WalsenderExit)
    /\ WF_vars(SkipUnstreamed)
    /\ WF_vars(PollIntrospect)
    /\ WF_vars(PollCompare)
    /\ WF_vars(Restart)

FairSpec == Spec /\ Fairness

-----------------------------------------------------------------------------
(* Properties                                                              *)

FlagsOK ==
    /\ slotExists \in BOOLEAN /\ slotActive \in BOOLEAN
    /\ inTxn \in BOOLEAN /\ schemaChange \in BOOLEAN /\ queryConn \in BOOLEAN
    /\ ready \in BOOLEAN /\ shutdown \in BOOLEAN

PositionsOK ==
    /\ wal \in Seq(Txn)
    /\ rows \in [Keys -> 0..Len(wal)] /\ txRows \in [Keys -> 0..Len(wal)]
    /\ \A n \in {confirmed, acking, stateVersion, applied, snapshot, resume,
                  pos, flushLsn, published} : n \in 0..Len(wal)

ControlOK ==
    /\ replica \in {"empty", "partial", "synced"}
    /\ pc \in {"prepare", "create_slot", "copy", "introspect", "connect",
               "stream", "ack", "publish", "resync", "drop_slot", "stopped",
               "failed"}
    /\ mode \in {"startup", "resync"}
    /\ phase \in {"begin", "ddl", "data", "commit"}

CountersOK ==
    /\ \A v \in {replicaSchema, txSchema, relSent, specs, baseline, pollSeen} :
          v \in Nat
    /\ faults \in 0..MaxFaults

TypeOK == FlagsOK /\ ControlOK /\ PositionsOK /\ CountersOK

\* The states in which the replica is meant to follow the slot.
Following == pc \in Session \cup {"connect"}

\* "The slot never moves past data the replica hasn't durably applied": every
\* write at or before the slot's position, or before an acknowledgement still
\* in flight, is in the committed rows, or a later write of the same row is.
SlotNeverPastDurable ==
    Following =>
        \A k \in Keys : \A i \in 1..LaterOf(confirmed, acking) :
            k \in wal[i].keys => rows[k] >= i

\* Once a session has passed everything the replica had applied before it
\* (the replay after a lost acknowledgement is over), the committed rows are
\* exactly what the upstream's first pos transactions wrote: nothing was
\* skipped, applied twice, or applied in the wrong order.
CaughtUpIsPrefix ==
    (pc \in Session /\ pos >= applied) => IsPrefixState(rows, pos)

\* A stream error, a clean end or a resync never leaves a transaction open
\* under the next session's Begin (AlreadyInTransaction).
BeginNeverNested ==
    \/ pc = "stream" /\ phase # "begin"
    \/ pc \in {"resync", "stopped", "failed"}
    \/ ~inTxn

\* Inline DDL keeps the replica's schema that of the last transaction applied,
\* as long as every DDL so far was streamed.
SchemaFollowsStream ==
    (/\ pc \in Session
     /\ pos >= applied
     /\ \A i \in 1..pos : wal[i].ddl # "silent")
    => replicaSchema = SchemaAt(pos)

\* A commit whose acknowledgement may have moved the slot has been published:
\* the slot never passes a streamed commit that no subscriber was woken for.
AckedIsPublished ==
    pc \in {"stream", "connect"} =>
        \A n \in (snapshot + 1)..LaterOf(confirmed, acking) :
            Streamed(wal[n]) => n <= published

\* The replica ends up equal to the upstream, rows and schema, and following
\* it, whatever faults came before, unless a shutdown was requested.
EventuallyConsistent ==
    <>[](\/ shutdown
         \/ /\ Following
            /\ IsPrefixState(rows, Len(wal))
            /\ replicaSchema = CurrentSchema)

-----------------------------------------------------------------------------
(* The inductive invariant behind the safety properties                    *)

\* Every write of the first n transactions is in the committed rows, or has
\* been overwritten by a later one.
NothingMissingBelow(n) ==
    \A i \in 1..n : \A k \in wal[i].keys : rows[k] >= i

\* Every streamed transaction after the snapshot, up to n, was published.
PublishedThrough(n) ==
    \A i \in (snapshot + 1)..n : Streamed(wal[i]) => i <= published

\* A row holds a write of its own key, none later than applied.
RowsSound ==
    \A k \in Keys : /\ rows[k] <= applied
                    /\ rows[k] > 0 => k \in wal[rows[k]].keys

SlotInv ==
    /\ slotActive => slotExists
    /\ ~slotActive => acking = 0
    /\ pc \in Session => slotActive
    /\ pc \in {"copy", "introspect"} => /\ slotExists
                                        /\ ~slotActive
                                        /\ confirmed = snapshot

CopiedInv ==
    pc = "introspect" => IsPrefixState(rows, snapshot) /\ applied = snapshot

SessionInv ==
    pc \in Session =>
        /\ confirmed <= pos /\ acking <= pos /\ resume <= pos /\ flushLsn <= pos
        /\ RowsSound
        /\ NothingMissingBelow(pos)
        /\ IF pc = "stream"
           THEN PublishedThrough(pos)
           ELSE phase = "begin" /\ pos > 0 /\ PublishedThrough(pos - 1)
        /\ pc = "ack" => confirmed < pos /\ acking < pos /\ resume < pos

ReconnectInv ==
    pc = "connect" =>
        /\ RowsSound
        /\ \A n \in {confirmed, acking, resume} :
              NothingMissingBelow(n) /\ PublishedThrough(n)

TxnInv ==
    /\ BeginNeverNested
    /\ (pc = "stream" /\ phase # "begin") => pos < Len(wal)
    /\ (pc = "stream" /\ phase \in {"ddl", "data"}) => txRows = rows
    /\ (pc = "stream" /\ phase = "commit") =>
          txRows = [k \in Keys |-> IF k \in wal[pos + 1].keys THEN pos + 1
                                   ELSE rows[k]]

\* The inductive invariant: what a session has applied and published covers
\* everything at or below its position; what a reconnect may resume from is
\* no further than that; and the open transaction is the committed rows plus
\* at most the transaction being received.
ReplicatorInv ==
    /\ TypeOK
    /\ SlotInv
    /\ CopiedInv
    /\ SessionInv
    /\ ReconnectInv
    /\ TxnInv
=============================================================================
