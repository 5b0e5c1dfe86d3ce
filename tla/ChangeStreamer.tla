---------------------------- MODULE ChangeStreamer ----------------------------
(***************************************************************************)
(* The change-streamer of a horizontally scaled deployment and one of its  *)
(* view-syncer subscribers (serve_subscriber, changes_since,               *)
(* bootstrap_replica, run_view_syncer, apply_streamed_commit).  The owner  *)
(* node's replicator is reduced to what subscribers see of it: commits to  *)
(* the replica and its change log, their publication, replays after a lost *)
(* acknowledgement, resyncs and crashes.                                   *)
(*                                                                         *)
(* A version is the index of a transaction of the upstream log.  The       *)
(* owner's stateVersion never leaves the version of its initial sync, so   *)
(* replicaVersion stands for both.                                         *)
(***************************************************************************)
EXTENDS RowHistory

CONSTANTS
    WideOps,          \* the table-wide operations the upstream may run
    MaxVersion,       \* bound: upstream transactions
    Capacity,         \* buffer of the commit fan-out, per subscriber
    MaxInFlight,      \* bound: transactions on the socket
    MaxDisconnects,   \* bound: lost subscriber connections
    MaxReplays,       \* bound: replication sessions that replay
    MaxResyncs,       \* bound: resyncs of the running owner
    MaxCrashes,       \* bound: restarts of the owner process
    MaxFaults         \* bound: all of these together

ASSUME WideOpsAssumption == WideOps \subseteq {"t", "r"}
ASSUME StreamerBounds == /\ MaxVersion \in Nat
                         /\ Capacity \in Nat \ {0}
                         /\ MaxInFlight \in Nat \ {0}
                         /\ MaxDisconnects \in Nat
                         /\ MaxReplays \in Nat
                         /\ MaxResyncs \in Nat
                         /\ MaxCrashes \in Nat
                         /\ MaxFaults \in Nat

VARIABLES
    txns,            \* the upstream transactions, in commit order
    wpos,            \* the last transaction the owner's session has applied
    confirmed,       \* where a reconnecting session would start at the latest
    owner,           \* "synced" | "resetting" | "copying" | "down"
    rows,            \* the owner's rows
    logV,            \* per key, stateVersion of its change-log entry (0: none)
    logOp,           \* per key, the op of that entry
    truncs,          \* stateVersions of the "t" entries
    resets,          \* stateVersions of the "r" entries
    replicaVersion,  \* version of the owner's initial sync
    unpublished,     \* a commit is not published yet
    backup,          \* the Litestream backup: [rows, version]
    subPc,           \* "reserve" | "restore" | "subscribe" | "live"
    subRows,         \* the view-syncer's rows
    subVersion,      \* the version its replica derives from (-1: no replica)
    subWatermark,    \* its stateVersion
    task,            \* serve_subscriber: "catchup" | "resolve" | "idle"
    last,            \* its last
    unread,          \* fan-out notifications it has not received
    lagged,          \* its receiver was overrun
    batch,           \* the transaction changes_since is building
    todo,            \* keys of batch whose row is still to be read
    wire,            \* transactions on the socket
    disconnects, replays, resyncs, crashes

streamVars == <<txns, wpos, confirmed>>
ownerVars  == <<owner, rows, logV, logOp, truncs, resets, replicaVersion>>
subVars    == <<subRows, subVersion, subWatermark>>
fanVars    == <<unread, lagged>>
taskVars   == <<task, last, batch, todo>>
countVars  == <<disconnects, replays, resyncs, crashes>>

MayFail == disconnects + replays + resyncs + crashes < MaxFaults
vars == <<streamVars, ownerVars, unpublished, backup, subPc, subVars, fanVars,
          taskVars, wire, countVars>>

NoVersion == -1

\* A transaction as it travels: the watermark, per key the op, the version of
\* the change-log entry and the row, and the truncations.
Batch == [w : Nat, op : [Keys -> RowOps], v : [Keys -> Nat],
          val : [Keys -> Nat], truncs : SUBSET Nat]

NoBatch == [w |-> 0, op |-> [k \in Keys |-> "none"], v |-> [k \in Keys |-> 0],
            val |-> [k \in Keys |-> 0], truncs |-> {}]

NoRows == [k \in Keys |-> 0]

-----------------------------------------------------------------------------
Init ==
    /\ txns = <<>> /\ wpos = 0 /\ confirmed = 0
    /\ owner = "synced"
    /\ rows = NoRows
    /\ logV = NoRows /\ logOp = [k \in Keys |-> "none"]
    /\ truncs = {} /\ resets = {}
    /\ replicaVersion = 0
    /\ unpublished = FALSE
    /\ backup = [rows |-> NoRows, version |-> 0]
    /\ subPc = "reserve"
    /\ subRows = NoRows /\ subVersion = NoVersion /\ subWatermark = 0
    /\ task = "idle" /\ last = 0 /\ batch = NoBatch /\ todo = {}
    /\ unread = 0 /\ lagged = FALSE
    /\ wire = <<>>
    /\ disconnects = 0 /\ replays = 0 /\ resyncs = 0 /\ crashes = 0

-----------------------------------------------------------------------------
(* The owner's replicator                                                  *)

\* A transaction the upstream may commit next: it changes something, and
\* deletes only rows that exist.
Legal(t) ==
    /\ t.wide \in WideOps \cup {"none"}
    /\ t # EmptyTxn
    /\ \A k \in Keys : t.op[k] = "d" => rows[k] # 0 /\ t.wide # "t"

\* The next transaction of the session: one that is replayed, or a new one.
NextTxn(t) ==
    \/ wpos < Len(txns) /\ t = txns[wpos + 1] /\ UNCHANGED txns
    \/ /\ wpos = Len(txns) /\ wpos < MaxVersion
       /\ Legal(t)
       /\ txns' = Append(txns, t)

\* Mutant: an update of a row that is in the log keeps its entry.
FirstEntryVersion(t, v) ==
    [k \in Keys |-> IF t.op[k] = "none" \/ logV[k] > 0 THEN logV[k] ELSE v]

\* log_row_op replaces the entry of the row: one entry per key.
EntryVersion(t, v) ==
    [k \in Keys |-> IF t.op[k] = "none" THEN logV[k] ELSE v]

\* One replicated transaction: rows, then change-log entries, one SQLite
\* transaction.  A truncation leaves the entries of the rows it deletes.
OwnerCommit ==
    /\ owner = "synced"
    /\ ~unpublished
    /\ \E t \in Txn :
          /\ NextTxn(t)
          /\ rows' = [k \in Keys |->
                        CASE t.op[k] = "s" -> wpos + 1
                          [] t.op[k] = "d" -> 0
                          [] t.op[k] = "none" ->
                                IF t.wide = "t" THEN 0 ELSE rows[k]]
          /\ logV' = EntryVersion(t, wpos + 1)
          /\ logOp' = [k \in Keys |-> IF t.op[k] = "none" THEN logOp[k]
                                      ELSE t.op[k]]
          /\ truncs' = IF t.wide = "t" THEN truncs \cup {wpos + 1} ELSE truncs
          /\ resets' = IF t.wide = "r" THEN resets \cup {wpos + 1} ELSE resets
    /\ wpos' = wpos + 1
    /\ unpublished' = TRUE
    /\ UNCHANGED <<confirmed, owner, replicaVersion, backup, subPc, subVars,
                   fanVars, taskVars, wire, countVars>>

\* Mutant: a notification is only sent to a subscriber that waits for one.
NotifyWaiting ==
    /\ unread' = IF subPc = "live" /\ task = "idle" /\ unread = 0
                 THEN 1 ELSE unread
    /\ UNCHANGED lagged

\* Mutant: the buffer of a subscriber has no bound.
NotifyUnbounded ==
    /\ unread' = IF subPc = "live" THEN unread + 1 ELSE unread
    /\ UNCHANGED lagged

\* ChangeFanout::publish: a full buffer drops its oldest notification, and the
\* receiver is told so by Lagged.
Notify ==
    IF subPc = "live"
    THEN /\ unread' = IF unread < Capacity THEN unread + 1 ELSE unread
         /\ lagged' = (lagged \/ unread = Capacity)
    ELSE UNCHANGED fanVars

OwnerPublish ==
    /\ unpublished
    /\ unpublished' = FALSE
    /\ Notify
    /\ UNCHANGED <<streamVars, ownerVars, backup, subPc, subVars, taskVars,
                   wire, countVars>>

\* The replication stream is lost and resumed from a position at or after the
\* last one Postgres has confirmed.  A commit whose acknowledgement failed is
\* not published and is always replayed.  (Replayed inline DDL fails, so a
\* session never gets past it.)
OwnerReplay ==
    /\ owner = "synced"
    /\ replays < MaxReplays /\ MayFail
    /\ \E p \in confirmed..wpos :
          /\ unpublished => p < wpos
          /\ \A i \in (p + 1)..Len(txns) : txns[i].wide # "r"
          /\ wpos' = p
          /\ confirmed' = p
    /\ unpublished' = FALSE
    /\ replays' = replays + 1
    /\ UNCHANGED <<txns, ownerVars, backup, subPc, subVars, fanVars, taskVars,
                   wire, disconnects, resyncs, crashes>>

NoReplica ==
    /\ rows' = NoRows
    /\ logV' = NoRows /\ logOp' = [k \in Keys |-> "none"]
    /\ truncs' = {} /\ resets' = {}

\* reset_replica_for_resync in the running process: every table is dropped,
\* and subscribers stay connected.
OwnerReset ==
    /\ owner = "synced"
    /\ ~unpublished
    /\ resyncs < MaxResyncs /\ MayFail
    /\ Len(txns) < MaxVersion
    /\ NoReplica
    /\ owner' = "resetting"
    /\ resyncs' = resyncs + 1
    /\ UNCHANGED <<streamVars, replicaVersion, unpublished, backup, subPc,
                   subVars, fanVars, taskVars, wire, disconnects, replays,
                   crashes>>

\* The consistent point of the new slot is a log position of its own.
NewSnapshot ==
    /\ txns' = Append(txns, EmptyTxn)
    /\ replicaVersion' = Len(txns) + 1
    /\ wpos' = Len(txns) + 1
    /\ confirmed' = Len(txns) + 1

\* run_initial_sync_introspected writes the change-log and state tables
\* before it copies the rows.
OwnerMetadata ==
    /\ owner = "resetting"
    /\ NewSnapshot
    /\ owner' = "copying"
    /\ UNCHANGED <<rows, logV, logOp, truncs, resets, unpublished, backup,
                   subPc, subVars, fanVars, taskVars, wire, countVars>>

\* A copy of the published rows at the last snapshot.
SnapshotRows(h) ==
    {f \in [Keys -> 0..Len(h)] : \A k \in Keys : HasValue(h, k, Len(h), f[k])}

OwnerCopied ==
    /\ owner = "copying"
    /\ rows' \in SnapshotRows(txns)
    /\ owner' = "synced"
    /\ UNCHANGED <<streamVars, logV, logOp, truncs, resets, replicaVersion,
                   unpublished, backup, subPc, subVars, fanVars, taskVars,
                   wire, countVars>>

\* The connection is gone: the view-syncer's process exits and bootstraps
\* again; what was on the socket is lost.
LoseConnection ==
    /\ subPc' = IF subPc = "live" THEN "reserve" ELSE subPc
    /\ wire' = <<>>
    /\ task' = "idle" /\ last' = 0 /\ batch' = NoBatch /\ todo' = {}
    /\ unread' = 0 /\ lagged' = FALSE

OwnerCrash ==
    /\ owner = "synced"
    /\ crashes < MaxCrashes /\ MayFail
    /\ Len(txns) < MaxVersion
    /\ NoReplica
    /\ owner' = "down"
    /\ unpublished' = FALSE
    /\ crashes' = crashes + 1
    /\ LoseConnection
    /\ UNCHANGED <<streamVars, replicaVersion, backup, subVars, disconnects,
                   replays, resyncs>>

\* A started owner listens only after its initial sync.
OwnerRestart ==
    /\ owner = "down"
    /\ NewSnapshot
    /\ rows' \in SnapshotRows(txns)
    /\ owner' = "synced"
    /\ UNCHANGED <<logV, logOp, truncs, resets, unpublished, backup, subPc,
                   subVars, fanVars, taskVars, wire, countVars>>

\* Litestream copies the database file as it is.  A copy without state tables
\* only makes the bootstrap that restores it fail and try again.
LitestreamSync ==
    /\ owner \in {"synced", "copying"}
    /\ backup' = [rows |-> rows, version |-> replicaVersion]
    /\ UNCHANGED <<streamVars, ownerVars, unpublished, subPc, subVars, fanVars,
                   taskVars, wire, countVars>>

-----------------------------------------------------------------------------
(* The view-syncer's bootstrap                                             *)

\* The local replica derives from the snapshot the owner advertises and is
\* not older than it.  An owner without state advertises empty versions.
Compatible ==
    /\ owner # "resetting"
    /\ subVersion = replicaVersion
    /\ subWatermark >= replicaVersion

\* reserve_snapshot, and the removal of an incompatible replica.
ReserveSnapshot ==
    /\ subPc = "reserve"
    /\ owner # "down"
    /\ IF Compatible
       THEN subPc' = "subscribe" /\ UNCHANGED subVersion
       ELSE subPc' = "restore" /\ subVersion' = NoVersion
    /\ UNCHANGED <<streamVars, ownerVars, unpublished, backup, subRows,
                   subWatermark, fanVars, taskVars, wire, countVars>>

RestoreSnapshot ==
    /\ subPc = "restore"
    /\ subRows' = backup.rows
    /\ subVersion' = backup.version
    /\ subWatermark' = backup.version
    /\ subPc' = "subscribe"
    /\ UNCHANGED <<streamVars, ownerVars, unpublished, backup, fanVars,
                   taskVars, wire, countVars>>

\* Mutant: the version of the replica is not compared.
WrongVersionUnchecked == FALSE

WrongReplicaVersion == subVersion # replicaVersion

\* The oldest entry of the change log is newer than the watermark.
WatermarkTooOld ==
    LET entries == {logV[k] : k \in {j \in Keys : logV[j] > 0}}
                   \cup truncs \cup resets
    IN  /\ subWatermark # replicaVersion
        /\ entries # {}
        /\ \A v \in entries : subWatermark < v

\* validate_subscription; an owner whose state cannot be read accepts.
Rejected == owner # "resetting" /\ (WrongReplicaVersion \/ WatermarkTooOld)

\* serve_subscriber up to its status message: join the fan-out, validate.
Subscribe ==
    /\ subPc = "subscribe"
    /\ owner # "down"
    /\ ~Rejected
    /\ subPc' = "live"
    /\ task' = "catchup"
    /\ last' = subWatermark
    /\ UNCHANGED <<streamVars, ownerVars, unpublished, backup, subVars, batch,
                   todo, fanVars, wire, countVars>>

\* A typed error, or no connection: the process exits and starts again.
SubscribeFails ==
    /\ subPc = "subscribe"
    /\ owner = "down" \/ Rejected
    /\ subPc' = "reserve"
    /\ UNCHANGED <<streamVars, ownerVars, unpublished, backup, subVars,
                   fanVars, taskVars, wire, countVars>>

Disconnect ==
    /\ subPc = "live"
    /\ disconnects < MaxDisconnects /\ MayFail
    /\ disconnects' = disconnects + 1
    /\ LoseConnection
    /\ UNCHANGED <<streamVars, ownerVars, unpublished, backup, subVars,
                   replays, resyncs, crashes>>

-----------------------------------------------------------------------------
(* serve_subscriber                                                        *)

NewerKeys == {k \in Keys : logV[k] > last}

NewerVersions ==
    {logV[k] : k \in NewerKeys} \cup {v \in truncs : v > last}

\* The watermark of a batch is its highest entry.
IsWatermark(w) == w \in NewerVersions /\ \A v \in NewerVersions : v <= w

\* changes_since, first half: read_since in a statement of its own.  It finds
\* nothing, or cannot read the log, or meets an entry that does not resolve
\* ("r"): the whole batch is dropped and last stays.
ReadLog ==
    IF owner = "resetting" \/ NewerVersions = {} \/ \E v \in resets : v > last
    THEN /\ task' = "idle"
         /\ UNCHANGED <<batch, todo>>
    ELSE /\ task' = "resolve"
         /\ \E w \in NewerVersions :
               /\ IsWatermark(w)
               /\ batch' = [w   |-> w,
                            op  |-> [k \in Keys |-> IF k \in NewerKeys
                                                    THEN logOp[k] ELSE "none"],
                            v   |-> [k \in Keys |-> IF k \in NewerKeys
                                                    THEN logV[k] ELSE 0],
                            val |-> NoRows,
                            truncs |-> {v \in truncs : v > last}]
         /\ todo' = {k \in NewerKeys : logOp[k] = "s"}

Catchup ==
    /\ subPc = "live"
    /\ task = "catchup"
    /\ ReadLog
    /\ UNCHANGED <<streamVars, ownerVars, unpublished, backup, subPc, subVars,
                   last, fanVars, wire, countVars>>

RecvCommit ==
    /\ subPc = "live"
    /\ task = "idle"
    /\ ~lagged
    /\ unread > 0
    /\ unread' = unread - 1
    /\ ReadLog
    /\ UNCHANGED <<streamVars, ownerVars, unpublished, backup, subPc, subVars,
                   last, lagged, wire, countVars>>

\* Lagged is left to the notifications that are still buffered.
RecvLagged ==
    /\ subPc = "live"
    /\ task = "idle"
    /\ lagged
    /\ lagged' = FALSE
    /\ UNCHANGED <<streamVars, ownerVars, unpublished, backup, subPc, subVars,
                   unread, taskVars, wire, countVars>>

\* changes_since, second half: each set entry reads the row as it is now, in
\* a statement of its own.  A missing row drops the whole batch.
ResolveRow ==
    /\ subPc = "live"
    /\ task = "resolve"
    /\ \E k \in todo :
          /\ \A j \in todo : batch.v[k] <= batch.v[j]
          /\ IF owner = "resetting" \/ rows[k] = 0
             THEN /\ task' = "idle"
                  /\ todo' = {}
                  /\ UNCHANGED batch
             ELSE /\ batch' = [batch EXCEPT !.val[k] = rows[k]]
                  /\ todo' = todo \ {k}
                  /\ UNCHANGED task
    /\ UNCHANGED <<streamVars, ownerVars, unpublished, backup, subPc, subVars,
                   last, fanVars, wire, countVars>>

SendTransaction ==
    /\ subPc = "live"
    /\ task = "resolve"
    /\ todo = {}
    /\ Len(wire) < MaxInFlight
    /\ wire' = Append(wire, batch)
    /\ last' = batch.w
    /\ task' = "idle"
    /\ UNCHANGED <<streamVars, ownerVars, unpublished, backup, subPc, subVars,
                   batch, todo, fanVars, countVars>>

-----------------------------------------------------------------------------
(* run_view_syncer                                                         *)

\* Mutant: deletes are not applied.
ApplyKeepingDeleted(f, b) ==
    [k \in Keys |->
        CASE b.op[k] = "s" -> IF \E v \in b.truncs : v > b.v[k] THEN 0
                              ELSE b.val[k]
          [] b.op[k] # "s" -> IF b.truncs # {} THEN 0 ELSE f[k]]

\* apply_streamed_commit: the changes in log order, a truncation before the
\* rows of its own version.  (What it logs for the view-syncer's own clients
\* is not read by any action here.)
Applied(f, b) ==
    [k \in Keys |->
        CASE b.op[k] = "s" -> IF \E v \in b.truncs : v > b.v[k] THEN 0
                              ELSE b.val[k]
          [] b.op[k] = "d" -> 0
          [] b.op[k] = "none" -> IF b.truncs # {} THEN 0 ELSE f[k]]

ApplyCommit ==
    /\ subPc = "live"
    /\ wire # <<>>
    /\ subRows' = Applied(subRows, Head(wire))
    /\ subWatermark' = Head(wire).w
    /\ wire' = Tail(wire)
    /\ UNCHANGED <<streamVars, ownerVars, unpublished, backup, subPc,
                   subVersion, fanVars, taskVars, countVars>>

-----------------------------------------------------------------------------
Owner == OwnerCommit \/ OwnerPublish \/ OwnerReplay \/ OwnerReset
         \/ OwnerMetadata \/ OwnerCopied \/ OwnerCrash \/ OwnerRestart
         \/ LitestreamSync

Serve == Catchup \/ RecvCommit \/ RecvLagged \/ ResolveRow \/ SendTransaction

ViewSyncer == ReserveSnapshot \/ RestoreSnapshot \/ Subscribe
              \/ SubscribeFails \/ ApplyCommit

Next == Owner \/ Serve \/ ViewSyncer \/ Disconnect

Spec == Init /\ [][Next]_vars

(***************************************************************************)
(* Fairness.  Tasks on a live runtime run, a published commit follows its  *)
(* commit, a replay and a restarted or resyncing owner get on, Litestream  *)
(* replicates continuously.  New commits and faults are never forced.      *)
(***************************************************************************)
Fairness ==
    /\ WF_vars(OwnerPublish)
    /\ WF_vars(OwnerCommit /\ wpos < Len(txns))
    /\ WF_vars(OwnerMetadata \/ OwnerCopied \/ OwnerRestart)
    /\ WF_vars(LitestreamSync)
    /\ WF_vars(Serve)
    /\ WF_vars(ViewSyncer)

FairSpec == Spec /\ Fairness

-----------------------------------------------------------------------------
(* Properties                                                              *)

OwnerOK ==
    /\ txns \in Seq(Txn)
    /\ wpos \in 0..Len(txns) /\ confirmed \in 0..Len(txns)
    /\ owner \in {"synced", "resetting", "copying", "down"}
    /\ rows \in [Keys -> 0..Len(txns)]
    /\ logV \in [Keys -> 0..Len(txns)] /\ logOp \in [Keys -> RowOps]
    /\ truncs \subseteq 1..Len(txns) /\ resets \subseteq 1..Len(txns)
    /\ replicaVersion \in 0..Len(txns)
    /\ unpublished \in BOOLEAN
    /\ backup.rows \in [Keys -> 0..Len(txns)]
    /\ backup.version \in 0..Len(txns)

SubscriberOK ==
    /\ subPc \in {"reserve", "restore", "subscribe", "live"}
    /\ subRows \in [Keys -> 0..Len(txns)]
    /\ subVersion \in {NoVersion} \cup 0..Len(txns)
    /\ subWatermark \in 0..Len(txns)
    /\ wire \in Seq(Batch) /\ Len(wire) <= MaxInFlight

ServerOK ==
    /\ task \in {"catchup", "resolve", "idle"}
    /\ last \in 0..Len(txns)
    /\ unread \in 0..Capacity /\ lagged \in BOOLEAN
    /\ batch \in Batch
    /\ todo \subseteq Keys

TypeOK == OwnerOK /\ SubscriberOK /\ ServerOK

\* "the actual changes are always read from the durable change-log, so a
\* lagging or reconnecting subscriber never misses data": every row of a view-
\* syncer's replica is one the upstream had at the replica's watermark or
\* later, whatever was torn, coalesced, dropped or lost in between.
NothingMissed ==
    subVersion # NoVersion =>
        \A k \in Keys : HasValueSince(txns, k, subWatermark, subRows[k])

\* A change-log entry the subscriber has not been sent and that resolves is
\* never left without a wake-up: a buffered notification, a commit about to be
\* published, or a replay that will publish again.
NoLostWakeup ==
    (/\ subPc = "live" /\ task = "idle" /\ owner = "synced"
     /\ NewerVersions # {}
     /\ ~\E v \in resets : v > last
     /\ \A k \in NewerKeys : logOp[k] = "s" => rows[k] # 0)
    => unread > 0 \/ unpublished \/ wpos < Len(txns)

\* "the subscriber's replica derives from a different initial snapshot; its
\* changes cannot apply": a view-syncer that is being served derives from the
\* snapshot its owner derives from, across restarts of either.
LiveOnSameSnapshot == subPc = "live" => subVersion = replicaVersion

\* Once upstream writes and faults cease, a view-syncer is subscribed for good
\* and its replica holds exactly the owner's rows: no commit is left unsent
\* for want of a wake-up and no bootstrap loops for ever.  A replay or a resync
\* of the running owner may leave the view-syncer behind for good.
EventuallyFollows ==
    <>[](replays + resyncs = 0 =>
            subPc = "live" /\ owner = "synced" /\ subRows = rows)

\* What the view-syncer is promised, as a specification of its own.
Promise == INSTANCE FollowedReplica
             WITH history <- txns, rows <- subRows, version <- subVersion,
                  mark <- subWatermark

FollowsPromise == Promise!FollowSpec
=============================================================================
