------------------------------ MODULE CvrStore ------------------------------
(***************************************************************************)
(* The durable client view record (CVR) of one client group in Postgres,   *)
(* the sessions that load and flush it, the deferred row flushes, and the  *)
(* purger.                                                                 *)
(*                                                                         *)
(* A session is whoever runs CVR transitions for the group on a node: with *)
(* ZERO_GROUP_OWNERSHIP off, a connection, which reloads the durable CVR   *)
(* before every transition under the node's transition lock; with it on,   *)
(* the group's processor loop, which works on its own copy and starts from *)
(* the one load that the connections of a node share.  With                *)
(* ZERO_DEFER_CVR_ROWS a transition commits its configuration first and    *)
(* the row records follow from a per-group chain of tasks.                 *)
(*                                                                         *)
(* The clients, queries and desires of a CVR are the set of stamps of the  *)
(* transitions that made them, since a flush upserts what it has and       *)
(* leaves the rest; a row record is the stamp of the transition that made  *)
(* it, 0 when there is none.  A CVR version is the number of version bumps *)
(* since the empty version "00".                                           *)
(***************************************************************************)
EXTENDS Integers, Sequences, FiniteSets

CONSTANTS
    Nodes,            \* the tasks of the deployment, by task_id
    Sessions,         \* connections or processor loops
    NodeOf,           \* the node a session runs on
    Keys,             \* the rows the group's queries return
    Flags,            \* the settings of the two environment flags to explore
    NewGroup,         \* whether the group starts without an instances row
    Inactivity,       \* ticks after which the purger takes a CVR for inactive
    TombstoneAge,     \* ticks after which it removes a tombstone
    MaxStamp,         \* transitions
    MaxClock,         \* ticks
    MaxFlushErrors,   \* configuration flushes that fail in Postgres
    MaxRowErrors,     \* deferred row flushes that fail
    MaxCrashes        \* crashes of a node

ASSUME CvrStoreAssumption ==
    /\ IsFiniteSet(Sessions)
    /\ NodeOf \in [Sessions -> Nodes]
    /\ Flags \subseteq [defer : BOOLEAN, owned : BOOLEAN]
    /\ NewGroup \in BOOLEAN
    /\ Inactivity \in Nat /\ TombstoneAge \in Nat /\ TombstoneAge >= Inactivity
    /\ MaxStamp \in Nat \ {0} /\ MaxClock \in Nat
    /\ MaxFlushErrors \in Nat /\ MaxRowErrors \in Nat /\ MaxCrashes \in Nat

NoOne == "no one"
ASSUME NoOneAssumption == NoOne \notin Nodes /\ NoOne \notin Sessions

VARIABLES
    flags,        \* ZERO_DEFER_CVR_ROWS, ZERO_GROUP_OWNERSHIP
    instance,     \* the row of the instances table
    config,       \* clients, queries and desires
    rowsVersion,  \* the version of the rowsVersion table, 0 when absent
    rows,         \* the rows table
    lock,         \* the session whose transaction holds the instance's row lock
    st,           \* where each session is
    transition,   \* whether its load is for a transition, not for connecting
    connectTime,  \* last_connect_time_ms
    cvr,          \* the session's copy: version, config, row_records
    mine,         \* the stamp of its transition
    before,       \* the copy its transition started from
    pending,      \* pending_row_updates
    seen,         \* the flush slot its load waits for, 0 when none
    handle,       \* whether a connection still holds the processor loop
    seed,         \* per node, connect_cvr of its group service
    queue,        \* per node, the chained deferred row flushes
    clock, stamp, flushErrors, rowErrors, crashes,
    intended,     \* history: the row records of the transition last committed
    lost,         \* history: the deferred flushes that never reached Postgres
    stray,        \* history: one has landed on a CVR that had been purged
    kept          \* history: a loop went on with changes it could not commit

db == <<instance, config, rowsVersion, rows, intended>>
session == <<st, transition, connectTime, cvr, mine, before, pending, seen,
             handle, seed>>
budgets == <<flushErrors, rowErrors, crashes>>
loops == <<handle, seed>>
history == <<lost, stray, kept>>
vars == <<flags, db, lock, session, queue, clock, stamp, budgets, history>>

Stamps == 0..MaxStamp
Versions == 0..MaxStamp
Times == 0..MaxClock

Cvr == [version : Versions, config : SUBSET Stamps, rows : [Keys -> Stamps]]

(***************************************************************************)
(* A deferred flush: the rowsVersion it sets and the records it writes.    *)
(***************************************************************************)
RowFlush == [slot : Stamps, version : Versions, keys : SUBSET Keys,
             rows : [Keys -> Stamps]]

NoInstance == [present |-> FALSE, version |-> 0, owner |-> NoOne,
               grantedAt |-> 0, lastActive |-> 0, deleted |-> FALSE]

NoRows == [k \in Keys |-> 0]
EmptyCvr == [version |-> 0, config |-> {}, rows |-> NoRows]

NoSeed == [EmptyCvr EXCEPT !.version = -1]

States == {"off", "load", "claim", "config", "rows", "spawn", "idle", "flush", "write"}

TypeOK ==
    /\ flags \in Flags
    /\ instance \in [present : BOOLEAN, version : Versions,
                     owner : Nodes \cup {NoOne}, grantedAt : Times,
                     lastActive : Times, deleted : BOOLEAN]
    /\ config \subseteq Stamps
    /\ rowsVersion \in Versions
    /\ rows \in [Keys -> Stamps]
    /\ lock \in Sessions \cup {NoOne}
    /\ st \in [Sessions -> States]
    /\ transition \in [Sessions -> BOOLEAN]
    /\ connectTime \in [Sessions -> Times]
    /\ cvr \in [Sessions -> Cvr]
    /\ mine \in [Sessions -> Stamps]
    /\ before \in [Sessions -> Cvr]
    /\ pending \in [Sessions -> SUBSET Keys]
    /\ seen \in [Sessions -> Stamps]
    /\ handle \in [Sessions -> BOOLEAN]
    /\ seed \in [Nodes -> Cvr \cup {NoSeed}]
    /\ queue \in [Nodes -> Seq(RowFlush)]
    /\ clock \in Times
    /\ stamp \in Stamps
    /\ flushErrors \in 0..MaxFlushErrors
    /\ rowErrors \in 0..MaxRowErrors
    /\ crashes \in 0..MaxCrashes
    /\ intended \in [Keys -> Stamps]
    /\ lost \subseteq RowFlush
    /\ stray \in BOOLEAN
    /\ kept \in BOOLEAN

(***************************************************************************)
(* A group that is not new has had its first transition committed.         *)
(***************************************************************************)
Init ==
    /\ flags \in Flags
    /\ \E owner \in Nodes :
         instance = IF NewGroup THEN NoInstance
                    ELSE [NoInstance EXCEPT !.present = TRUE, !.version = 1,
                                            !.owner = owner]
    /\ stamp = instance.version
    /\ config = 1..stamp
    /\ rowsVersion = instance.version
    /\ rows = [k \in Keys |-> stamp]
    /\ intended = rows
    /\ lock = NoOne
    /\ st = [s \in Sessions |-> "off"]
    /\ transition = [s \in Sessions |-> FALSE]
    /\ connectTime = [s \in Sessions |-> 0]
    /\ cvr = [s \in Sessions |-> EmptyCvr]
    /\ mine = [s \in Sessions |-> 0]
    /\ before = [s \in Sessions |-> EmptyCvr]
    /\ pending = [s \in Sessions |-> {}]
    /\ seen = [s \in Sessions |-> 0]
    /\ handle = [s \in Sessions |-> FALSE]
    /\ seed = [n \in Nodes |-> NoSeed]
    /\ queue = [n \in Nodes |-> <<>>]
    /\ clock = 0
    /\ flushErrors = 0 /\ rowErrors = 0 /\ crashes = 0
    /\ lost = {}
    /\ stray = FALSE
    /\ kept = FALSE

-----------------------------------------------------------------------------
(***************************************************************************)
(* Loading.                                                                *)
(***************************************************************************)
Goto(s, state) == st' = [st EXCEPT ![s] = state]

(***************************************************************************)
(* The sessions of a set end, and their state goes with them; a node's     *)
(* group service goes with the last of its sessions.                       *)
(***************************************************************************)
End(ended) ==
    /\ st' = [s \in Sessions |-> IF s \in ended THEN "off" ELSE st[s]]
    /\ transition' = [s \in Sessions |-> s \notin ended /\ transition[s]]
    /\ connectTime' = [s \in Sessions |-> IF s \in ended THEN 0 ELSE connectTime[s]]
    /\ cvr' = [s \in Sessions |-> IF s \in ended THEN EmptyCvr ELSE cvr[s]]
    /\ mine' = [s \in Sessions |-> IF s \in ended THEN 0 ELSE mine[s]]
    /\ before' = [s \in Sessions |-> IF s \in ended THEN EmptyCvr ELSE before[s]]
    /\ pending' = [s \in Sessions |-> IF s \in ended THEN {} ELSE pending[s]]
    /\ seen' = [s \in Sessions |-> IF s \in ended THEN 0 ELSE seen[s]]
    /\ handle' = [s \in Sessions |-> s \notin ended /\ handle[s]]
    /\ seed' = [n \in Nodes |->
                  IF \E s \in Sessions \ ended : NodeOf[s] = n /\ st[s] # "off"
                  THEN seed[n] ELSE NoSeed]

\* Mutant: the slot a later flush will get.
SlotAfterLatest(n) ==
    IF queue[n] = <<>> THEN 0 ELSE queue[n][Len(queue[n])].slot + 1

(***************************************************************************)
(* The latest slot of the node's barrier; every flush of the chain before  *)
(* it completes first.                                                     *)
(***************************************************************************)
LatestSlot(n) ==
    IF queue[n] = <<>> THEN 0 ELSE queue[n][Len(queue[n])].slot

(***************************************************************************)
(* wait_for_pending has returned: the slot it looked up has completed.     *)
(***************************************************************************)
Landed(s) == \A i \in 1..Len(queue[NodeOf[s]]) : queue[NodeOf[s]][i].slot # seen[s]

StartLoad(s, forTransition) ==
    /\ Goto(s, "load")
    /\ transition' = [transition EXCEPT ![s] = forTransition]
    /\ seen' = [seen EXCEPT ![s] = LatestSlot(NodeOf[s])]

(***************************************************************************)
(* A client connects; the connection's time is its claim on the CVR.  With *)
(* group ownership it takes what the group service has already loaded, and *)
(* waits for a load that is under way.                                     *)
(***************************************************************************)
Connect(s) ==
    /\ st[s] = "off"
    /\ flags.owned =>
         \A r \in Sessions : NodeOf[r] = NodeOf[s] =>
             st[r] \notin {"load", "claim", "config", "rows"}
    /\ connectTime' = [connectTime EXCEPT ![s] = clock]
    /\ IF flags.owned /\ seed[NodeOf[s]] # NoSeed
       THEN /\ Goto(s, "spawn")
            /\ cvr' = [cvr EXCEPT ![s] = seed[NodeOf[s]]]
            /\ UNCHANGED <<transition, seen>>
       ELSE /\ StartLoad(s, FALSE)
            /\ UNCHANGED cvr
    /\ UNCHANGED <<flags, db, lock, mine, before, pending, loops, queue, clock, stamp,
                   budgets, history>>

OwnedByOther(s) == instance.owner # NodeOf[s]

OwnershipConflicts(s) == OwnedByOther(s) /\ instance.grantedAt > connectTime[s]

RowsBehind == instance.version # rowsVersion

(***************************************************************************)
(* decide_instance_load refuses a tombstone and a CVR another task was     *)
(* granted later.                                                          *)
(***************************************************************************)
Refused(s) == instance.present /\ (instance.deleted \/ OwnershipConflicts(s))

(***************************************************************************)
(* The first statement of load_cvr: the instance and its rowsVersion.      *)
(* While the rows are behind the load is retried.                          *)
(***************************************************************************)
LoadInstance(s) ==
    /\ st[s] = "load"
    /\ Landed(s)
    /\ ~Refused(s)
    /\ instance.present => ~RowsBehind
    /\ Goto(s, IF instance.present /\ OwnedByOther(s) THEN "claim" ELSE "config")
    /\ cvr' = [cvr EXCEPT ![s].version = instance.version]
    /\ seen' = [seen EXCEPT ![s] = 0]
    /\ UNCHANGED <<flags, db, lock, transition, connectTime, mine, before, pending,
                   loops, queue, clock, stamp, budgets, history>>

\* Mutant: rows that stay behind are waited for without limit.
RetriesForEver(s) == Refused(s)

(***************************************************************************)
(* ClientNotFound, an ownership conflict, or rows still behind after the   *)
(* last attempt ...                                                        *)
(***************************************************************************)
GivesUp(s) == Refused(s) \/ (instance.present /\ RowsBehind)

(***************************************************************************)
(* ... and the connection is closed.                                       *)
(***************************************************************************)
LoadFails(s) ==
    /\ st[s] = "load"
    /\ Landed(s)
    /\ GivesUp(s)
    /\ End({s})
    /\ UNCHANGED <<flags, db, lock, queue, clock, stamp, budgets, history>>

(***************************************************************************)
(* The claim waits for the row lock and does nothing if the CVR was        *)
(* granted later meanwhile; nobody looks at how many rows it updated.      *)
(***************************************************************************)
ClaimOwnership(s) ==
    /\ st[s] = "claim"
    /\ lock = NoOne
    /\ instance' =
         IF instance.present /\ instance.grantedAt <= connectTime[s]
         THEN [instance EXCEPT !.owner = NodeOf[s], !.grantedAt = connectTime[s]]
         ELSE instance
    /\ Goto(s, "config")
    /\ UNCHANGED <<flags, config, rowsVersion, rows, intended, lock, transition,
                   connectTime, cvr, mine, before, pending, seen, loops, queue, clock, stamp,
                   budgets, history>>

(***************************************************************************)
(* The clients, queries and desires are read by statements of their own,   *)
(* after the instance.                                                     *)
(***************************************************************************)
ReadConfig(s) ==
    /\ st[s] = "config"
    /\ Goto(s, "rows")
    /\ cvr' = [cvr EXCEPT ![s].config = config]
    /\ UNCHANGED <<flags, db, lock, transition, connectTime, mine, before, pending,
                   seen, loops, queue, clock, stamp, budgets, history>>

(***************************************************************************)
(* And the row records by another one.  What a connection loads when it    *)
(* connects is replaced by the load of its first transition, and what it   *)
(* keeps after a transition by the load of the next: neither is kept here. *)
(* With group ownership it becomes the group service's connect_cvr.        *)
(***************************************************************************)
ReadRows(s) ==
    /\ st[s] = "rows"
    /\ LET loaded == [cvr[s] EXCEPT !.rows = rows]
       IN  /\ Goto(s, IF transition[s] THEN "flush"
                      ELSE IF flags.owned THEN "spawn" ELSE "idle")
           /\ cvr' = [cvr EXCEPT ![s] = IF transition[s] \/ flags.owned
                                        THEN loaded ELSE EmptyCvr]
           /\ seed' = IF flags.owned THEN [seed EXCEPT ![NodeOf[s]] = loaded] ELSE seed
    /\ UNCHANGED <<flags, db, lock, transition, connectTime, mine, before, pending,
                   seen, handle, queue, clock, stamp, budgets, history>>

(***************************************************************************)
(* get_or_spawn: the connection joins the loop that other connections of   *)
(* the node still hold, or starts one.                                     *)
(***************************************************************************)
SpawnLoop(s) ==
    /\ st[s] = "spawn"
    /\ IF \E r \in Sessions : NodeOf[r] = NodeOf[s] /\ handle[r]
       THEN End({s})
       ELSE /\ Goto(s, "idle")
            /\ handle' = [handle EXCEPT ![s] = TRUE]
            /\ UNCHANGED <<transition, connectTime, cvr, mine, before, pending, seen,
                           seed>>
    /\ UNCHANGED <<flags, db, lock, queue, clock, stamp, budgets, history>>

(***************************************************************************)
(* The loop's last connection leaves; it may be in the middle of a commit. *)
(***************************************************************************)
ReleaseLoop(s) ==
    /\ handle[s]
    /\ handle' = [handle EXCEPT ![s] = FALSE]
    /\ UNCHANGED <<flags, db, lock, st, transition, connectTime, cvr, mine, before,
                   pending, seen, seed, queue, clock, stamp, budgets, history>>

-----------------------------------------------------------------------------
(***************************************************************************)
(* Transitions.                                                            *)
(***************************************************************************)
InTransition(s) == st[s] # "off" /\ st[s] # "idle" /\ transition[s]

(***************************************************************************)
(* A client changes its queries, or a commit arrives.  A connection takes  *)
(* the group's transition lock and reloads; a processor loop goes on with  *)
(* the copy it has.                                                        *)
(***************************************************************************)
BeginTransition(s) ==
    /\ st[s] = "idle"
    /\ stamp < MaxStamp
    /\ IF flags.owned
       THEN /\ handle[s]
            /\ Goto(s, "flush")
            /\ transition' = [transition EXCEPT ![s] = TRUE]
            /\ UNCHANGED seen
       ELSE /\ \A r \in Sessions : NodeOf[r] = NodeOf[s] => ~InTransition(r)
            /\ StartLoad(s, TRUE)
    /\ stamp' = stamp + 1
    /\ mine' = [mine EXCEPT ![s] = stamp + 1]
    /\ UNCHANGED <<flags, db, lock, connectTime, cvr, before, pending, loops, queue,
                   clock, budgets, history>>

(***************************************************************************)
(* What the transition makes of the session's copy: a new version with a   *)
(* new configuration and some new row records, or nothing at all.          *)
(***************************************************************************)
After(s, keys, bump) ==
    [version |-> cvr[s].version + bump,
     config  |-> IF bump = 0 THEN cvr[s].config ELSE cvr[s].config \cup {mine[s]},
     rows    |-> [k \in Keys |-> IF k \in keys THEN mine[s] ELSE cvr[s].rows[k]]]

\* Mutant: any version will do.
AnyVersion(s) == TRUE

(***************************************************************************)
(* check_version_and_ownership.                                            *)
(***************************************************************************)
ExpectedVersion(s) == instance.version = cvr[s].version

\* Mutant: the version is read without FOR UPDATE.
NoRowLock(s) == lock

(***************************************************************************)
(* SELECT ... FOR UPDATE locks the instance's row; there is nothing to     *)
(* lock when it does not exist.                                            *)
(***************************************************************************)
RowLock(s) == IF instance.present THEN s ELSE lock

Prepare(s, keys, bump) ==
    /\ before' = [before EXCEPT ![s] = cvr[s]]
    /\ cvr' = [cvr EXCEPT ![s] = After(s, keys, bump)]
    /\ pending' = [pending EXCEPT ![s] = @ \cup keys]

Updates == {u \in [keys : SUBSET Keys, bump : 0..1] : u.bump = 0 => u.keys = {}}

(***************************************************************************)
(* The transition is applied and the flush's transaction finds the version *)
(* it builds on and no later grant to another task.                        *)
(***************************************************************************)
FlushBegin(s) ==
    /\ st[s] = "flush"
    /\ instance.present => lock = NoOne
    /\ ~OwnershipConflicts(s)
    /\ ExpectedVersion(s)
    /\ \E u \in Updates : Prepare(s, u.keys, u.bump)
    /\ lock' = RowLock(s)
    /\ Goto(s, "write")
    /\ UNCHANGED <<flags, db, transition, connectTime, mine, seen, loops, queue, clock,
                   stamp, budgets, history>>

(***************************************************************************)
(* A flush that lost the compare-and-swap.  A connection reloads and       *)
(* retries, or has used up its attempts.                                   *)
(***************************************************************************)
FlushLosesCas(s) ==
    /\ ~flags.owned
    /\ st[s] = "flush"
    /\ instance.present => lock = NoOne
    /\ ~OwnershipConflicts(s)
    /\ ~ExpectedVersion(s)
    /\ \/ /\ StartLoad(s, TRUE)
          /\ cvr' = [cvr EXCEPT ![s] = EmptyCvr]
          /\ UNCHANGED <<connectTime, mine, before, pending, loops>>
       \/ End({s})
    /\ UNCHANGED <<flags, db, lock, queue, clock, stamp, budgets, history>>

(***************************************************************************)
(* A connection whose flush is refused or fails is closed.                 *)
(***************************************************************************)
FlushRefused(s) ==
    /\ ~flags.owned
    /\ st[s] = "flush"
    /\ instance.present => lock = NoOne
    /\ \/ OwnershipConflicts(s) /\ UNCHANGED flushErrors
       \/ flushErrors < MaxFlushErrors /\ flushErrors' = flushErrors + 1
    /\ End({s})
    /\ UNCHANGED <<flags, db, lock, queue, clock, stamp, rowErrors, crashes,
                   history>>

Finish(s) ==
    /\ Goto(s, "idle")
    /\ transition' = [transition EXCEPT ![s] = FALSE]
    /\ mine' = [mine EXCEPT ![s] = 0]

(***************************************************************************)
(* A processor loop whose flush fails withholds the poke and carries on.   *)
(* process_commit puts the CVR back; process_desired_queries does not.     *)
(* Neither puts row_records back, and the updates stay pending.            *)
(***************************************************************************)
RolledBack(s, after, desired) ==
    IF desired THEN after ELSE [after EXCEPT !.version = cvr[s].version,
                                             !.config = cvr[s].config]

LoopFlushFails(s) ==
    /\ flags.owned
    /\ st[s] = "flush"
    /\ instance.present => lock = NoOne
    /\ \/ OwnershipConflicts(s) /\ UNCHANGED flushErrors
       \/ ~ExpectedVersion(s) /\ UNCHANGED flushErrors
       \/ flushErrors < MaxFlushErrors /\ flushErrors' = flushErrors + 1
    /\ \E u \in Updates, desired \in {FALSE, handle[s]} :
         /\ cvr' = [cvr EXCEPT ![s] = RolledBack(s, After(s, u.keys, u.bump), desired)]
         /\ pending' = [pending EXCEPT ![s] = @ \cup u.keys]
         /\ kept' = (kept \/ u.keys # {} \/ cvr'[s] # cvr[s])
    /\ Finish(s)
    /\ UNCHANGED <<flags, db, lock, connectTime, before, seen, loops, queue, clock,
                   stamp, rowErrors, crashes, lost, stray>>

\* Mutant: the row updates are dropped.
FlushNothing(s) == [slot |-> mine[s], version |-> cvr[s].version, keys |-> {},
                    rows |-> cvr[s].rows]

\* Mutant: rowsVersion is set to the version before the transition.
FlushAtOldVersion(s) == [slot |-> mine[s], version |-> before[s].version,
                         keys |-> pending[s], rows |-> cvr[s].rows]

(***************************************************************************)
(* What a flush writes of the rows: every update still pending, under the  *)
(* version its configuration has.                                          *)
(***************************************************************************)
Flush(s) == [slot |-> mine[s], version |-> cvr[s].version, keys |-> pending[s],
             rows |-> cvr[s].rows]

Written(f) == [k \in Keys |-> IF k \in f.keys THEN f.rows[k] ELSE rows[k]]

(***************************************************************************)
(* An INSERT that meets a row another transaction inserted meanwhile waits *)
(* for it and then updates the row.                                        *)
(***************************************************************************)
CanWrite(s) == IF instance.present THEN lock \in {s, NoOne} ELSE TRUE

\* Mutant: a flush does not wait for the ones before it.
NewestFirst(flushes, f) == <<f>> \o flushes

(***************************************************************************)
(* spawn_chained: a flush runs when the one enqueued before it is done.    *)
(***************************************************************************)
Chained(flushes, f) == Append(flushes, f)

Unlock(s) == IF lock = s THEN NoOne ELSE lock

Kept(s) == IF flags.owned THEN cvr[s] ELSE EmptyCvr

UpsertInstance(s) ==
    instance' = [instance EXCEPT !.present = TRUE,
                                 !.version = cvr[s].version,
                                 !.owner = NodeOf[s],
                                 !.grantedAt = connectTime[s],
                                 !.lastActive = connectTime[s]]

(***************************************************************************)
(* The flush writes and commits; with ZERO_DEFER_CVR_ROWS its rows join    *)
(* the node's chain.                                                       *)
(***************************************************************************)
FlushCommit(s) ==
    /\ st[s] = "write"
    /\ CanWrite(s)
    /\ UpsertInstance(s)
    /\ config' = config \cup cvr[s].config
    /\ intended' = cvr[s].rows
    /\ lock' = Unlock(s)
    /\ IF flags.defer
       THEN /\ queue' = [queue EXCEPT ![NodeOf[s]] = Chained(@, Flush(s))]
            /\ UNCHANGED <<rows, rowsVersion>>
       ELSE /\ rows' = Written(Flush(s))
            /\ rowsVersion' = cvr[s].version
            /\ UNCHANGED queue
    /\ pending' = [pending EXCEPT ![s] = {}]
    /\ before' = [before EXCEPT ![s] = EmptyCvr]
    /\ cvr' = [cvr EXCEPT ![s] = Kept(s)]
    /\ Finish(s)
    /\ UNCHANGED <<flags, connectTime, seen, loops, clock, stamp, budgets, history>>

(***************************************************************************)
(* The next deferred flush of a node's chain commits ...                   *)
(***************************************************************************)
DeferredFlush(n) ==
    /\ queue[n] # <<>>
    /\ rows' = Written(Head(queue[n]))
    /\ rowsVersion' = Head(queue[n]).version
    /\ queue' = [queue EXCEPT ![n] = Tail(@)]
    /\ stray' = (stray \/ instance.deleted \/ ~instance.present)
    /\ UNCHANGED <<flags, instance, config, intended, lock, session, clock,
                   stamp, budgets, lost, kept>>

(***************************************************************************)
(* ... or fails: a warning is logged, and its slot completes all the same. *)
(***************************************************************************)
DeferredFlushFails(n) ==
    /\ queue[n] # <<>>
    /\ rowErrors < MaxRowErrors
    /\ rowErrors' = rowErrors + 1
    /\ lost' = lost \cup {Head(queue[n])}
    /\ queue' = [queue EXCEPT ![n] = Tail(@)]
    /\ UNCHANGED <<flags, db, lock, session, clock, stamp, flushErrors, crashes,
                   stray, kept>>

-----------------------------------------------------------------------------
(***************************************************************************)
(* Disconnects, crashes, time and the purger.                              *)
(***************************************************************************)
Disconnect(s) ==
    /\ st[s] = "idle"
    /\ ~handle[s]
    /\ End({s})
    /\ UNCHANGED <<flags, db, lock, queue, clock, stamp, budgets, history>>

Crash(n) ==
    /\ crashes < MaxCrashes
    /\ crashes' = crashes + 1
    /\ End({s \in Sessions : NodeOf[s] = n})
    /\ lock' = IF lock # NoOne /\ NodeOf[lock] = n THEN NoOne ELSE lock
    /\ lost' = lost \cup {queue[n][i] : i \in 1..Len(queue[n])}
    /\ queue' = [queue EXCEPT ![n] = <<>>]
    /\ UNCHANGED <<flags, db, clock, stamp, flushErrors, rowErrors, stray, kept>>

Tick ==
    /\ clock < MaxClock
    /\ clock' = clock + 1
    /\ UNCHANGED <<flags, db, lock, session, queue, stamp, budgets, history>>

Inactive == instance.lastActive < clock - Inactivity

Tombstone == [instance EXCEPT !.deleted = TRUE, !.version = 0,
                              !.owner = NoOne, !.grantedAt = 0]

(***************************************************************************)
(* One round of the purger: an inactive CVR whose row is not locked is     *)
(* turned into a tombstone and its child rows deleted; a tombstone old     *)
(* enough is deleted.                                                      *)
(***************************************************************************)
Purge ==
    /\ instance.present
    /\ lock = NoOne
    /\ instance.deleted \/ Inactive
    /\ LET purges == ~instance.deleted
           row    == IF purges THEN Tombstone ELSE instance
       IN  /\ purges \/ instance.lastActive < clock - TombstoneAge
           /\ instance' = IF row.lastActive < clock - TombstoneAge
                          THEN NoInstance ELSE row
           /\ IF purges
              THEN /\ config' = {}
                   /\ rowsVersion' = 0
                   /\ rows' = NoRows
                   /\ intended' = NoRows
              ELSE UNCHANGED <<config, rowsVersion, rows, intended>>
    /\ UNCHANGED <<flags, lock, session, queue, clock, stamp, budgets, history>>

-----------------------------------------------------------------------------
Step(s) ==
    \/ Connect(s) \/ LoadInstance(s) \/ LoadFails(s) \/ ClaimOwnership(s)
    \/ ReadConfig(s) \/ ReadRows(s) \/ SpawnLoop(s) \/ ReleaseLoop(s)
    \/ BeginTransition(s)
    \/ FlushBegin(s) \/ FlushLosesCas(s) \/ FlushRefused(s)
    \/ LoopFlushFails(s) \/ FlushCommit(s) \/ Disconnect(s)

Next ==
    \/ \E s \in Sessions : Step(s)
    \/ \E n \in Nodes : DeferredFlush(n) \/ DeferredFlushFails(n) \/ Crash(n)
    \/ Tick
    \/ Purge

Spec == Init /\ [][Next]_vars

(***************************************************************************)
(* Spawned tasks and the statements of a load or a flush run to their end. *)
(* Clients need not connect or ask for anything.                           *)
(***************************************************************************)
Fairness ==
    /\ \A n \in Nodes : WF_vars(DeferredFlush(n))
    /\ \A s \in Sessions :
         /\ WF_vars(LoadInstance(s) \/ LoadFails(s))
         /\ WF_vars(ClaimOwnership(s))
         /\ WF_vars(ReadConfig(s) \/ ReadRows(s) \/ SpawnLoop(s))
         /\ WF_vars(FlushBegin(s) \/ FlushLosesCas(s) \/ FlushRefused(s) \/ LoopFlushFails(s))
         /\ WF_vars(FlushCommit(s))

FairSpec == Spec /\ Fairness

-----------------------------------------------------------------------------
(***************************************************************************)
(* Rows whose last record was in a deferred flush that failed or died with *)
(* its process.                                                            *)
(***************************************************************************)
LostKeys ==
    {k \in Keys : \E f \in lost : k \in f.keys /\ f.rows[k] = intended[k]}

(***************************************************************************)
(* A flush replaces only what it was computed from: the configuration it   *)
(* started with, and every row record it does not write, are the ones last *)
(* committed.  The version check under the row lock is what makes this     *)
(* true of loads that read the instance, the configuration and the rows in *)
(* separate statements, and of a loop that starts from an old load.  A     *)
(* loop that went on with changes it could not commit is excused: a        *)
(* version that another one commits may be equal to the one it kept.       *)
(***************************************************************************)
Builds(s) ==
    /\ before[s].config = config
    /\ \A k \in Keys \ (pending[s] \cup LostKeys) : cvr[s].rows[k] = intended[k]

NoLostUpdate ==
    [][\A s \in Sessions :
          st[s] = "write" /\ st'[s] = "idle" /\ ~stray /\ ~kept => Builds(s)]_vars

LoadAccepts == instance.present /\ ~instance.deleted /\ ~RowsBehind

(***************************************************************************)
(* A CVR that a load accepts has its rows: once rowsVersion agrees with    *)
(* the version, every row record is the one of the transition that         *)
(* committed that version, except those of deferred flushes that were      *)
(* lost, and as long as none has landed on a CVR that had been purged.  A  *)
(* loop that went on with changes it could not commit is excused: the rows *)
(* it left pending go out with a later flush, which need not change the    *)
(* version.                                                                *)
(***************************************************************************)
CookieHasRows ==
    ~stray /\ ~kept /\ LoadAccepts =>
        \A k \in Keys \ LostKeys : rows[k] = intended[k]

(***************************************************************************)
(* On one node rowsVersion advances in order: no deferred flush lands      *)
(* after a newer one.  Two nodes have a chain each, and a flush of one of  *)
(* them that changed nothing may set rowsVersion back.                     *)
(***************************************************************************)
RowsNeverRollBack ==
    [][rowsVersion' < rowsVersion /\ ~stray' => instance'.deleted \/ ~instance'.present]_vars

(***************************************************************************)
(* Rows that are behind catch up, unless a deferred flush was lost.        *)
(***************************************************************************)
RowsCatchUp ==
    (instance.present /\ RowsBehind) ~>
        (~RowsBehind \/ lost # {} \/ instance.deleted \/ ~instance.present)

(***************************************************************************)
(* No load or flush hangs: not on the barrier, on the row lock or on rows  *)
(* that never catch up.                                                    *)
(***************************************************************************)
SessionsSettle ==
    \A s \in Sessions : (st[s] \notin {"off", "idle"}) ~> (st[s] \in {"off", "idle"})
=============================================================================
