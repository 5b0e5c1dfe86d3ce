--------------------------- MODULE LiveConnection ---------------------------
(***************************************************************************)
(* The connections of one client group with ZERO_GROUP_OWNERSHIP off: each *)
(* has a pipeline driver of its own and works on the durable CVR, which it *)
(* reloads for every transition under the group's transition lock.  The    *)
(* replica commits at any time, and so between the moment a transition     *)
(* advances its driver and the moment its SQL reads the replica.           *)
(*                                                                         *)
(* CvrStore has the statements of a load and of a flush; here a load is    *)
(* one step and a flush another, and what another node commits between     *)
(* them makes the compare-and-swap lose.                                   *)
(***************************************************************************)
EXTENDS GroupTransition

CONSTANTS
    Synced,         \* the rows of the initial sync
    Writes,         \* the changes of a row that commits make: the row, its value, the mutators
    MaxCvrRetries,  \* MAX_CVR_RETRIES
    Budgets         \* the bounds of a behaviour, one of which it starts with

(***************************************************************************)
(* A budget bounds a behaviour: the clients that connect and how often in  *)
(* all, whether initConnection may come in the handshake, the patches and  *)
(* the number of messages clients send, the commits of the replica, the    *)
(* transitions of another node, and the flushes and advances that fail.    *)
(***************************************************************************)
Budget ==
    [clients : SUBSET Clients, connects : Nat, header : SUBSET BOOLEAN,
     patches : SUBSET [puts : SUBSET Queries, dels : SUBSET Queries],
     messages : Nat, commits : Nat, others : Nat, failures : Nat]

ASSUME LiveConnectionAssumption ==
    /\ MaxCvrRetries \in Nat \ {0}
    /\ Synced \subseteq Rows
    /\ Writes \subseteq [row : Rows, val : Nat, by : SUBSET Clients]
    /\ Budgets \subseteq Budget

VARIABLES
    replica,   \* its rows, its version and the last mutation ID of each client
    durable,   \* the CVR in Postgres
    conn,      \* each client's connection
    work,      \* the transition that holds the group's lock
    down,      \* the pokes on their way to each client
    client,    \* what each client holds
    trust,     \* history: what the connection knows of the client's rows
    left       \* what is left of the budget

vars == <<replica, durable, conn, work, down, client, trust, left>>

Spend(what) ==
    /\ left[what] > 0
    /\ left' = [left EXCEPT ![what] = @ - 1]

Head0 == [rows |-> [r \in Rows |-> NoRow], ver |-> 0]

(***************************************************************************)
(* The head of the replica as a snapshot.                                  *)
(***************************************************************************)
TheHead == [rows |-> replica.rows, ver |-> replica.ver]

Offline ==
    [st |-> "off", header |-> FALSE, notified |-> FALSE, version |-> 0, delivery |-> NewDelivery(NoCookie),
     tracked |-> {}, bodies |-> Empty, driver |-> NewDriver(Head0), pending |-> NoPatches]

Idle == [st |-> "idle"]
None == "none"

Init ==
    /\ replica = [rows |-> [r \in Rows |-> IF r \in Synced THEN [val |-> 1, ver |-> 0] ELSE NoRow],
                  ver |-> 0, lmids |-> [c \in Clients |-> 0]]
    /\ durable = EmptyCvr
    /\ conn = [c \in Clients |-> Offline]
    /\ work = Idle
    /\ down = [c \in Clients |-> <<>>]
    /\ client = [c \in Clients |-> NewClient]
    /\ trust = [c \in Clients |-> [r \in Rows |-> "unknown"]]
    /\ left \in Budgets

-----------------------------------------------------------------------------
(***************************************************************************)
(* The replica commits a change of a row, perhaps the effect of a client's *)
(* mutation, and every connection is notified.                             *)
(***************************************************************************)
Commit(w) ==
    /\ Spend("commits")
    /\ replica.rows[w.row].val # w.val
    /\ replica' = [rows  |-> [replica.rows EXCEPT ![w.row] = [val |-> w.val, ver |-> replica.ver + 1]],
                   ver   |-> replica.ver + 1,
                   lmids |-> [c \in Clients |-> replica.lmids[c] + IF c \in w.by THEN 1 ELSE 0]]
    /\ conn' = [c \in Clients |->
                  [conn[c] EXCEPT !.notified = (@ \/ conn[c].st \in {"await", "open"})]]
    /\ UNCHANGED <<durable, work, down, client, trust>>

(***************************************************************************)
(* A connection: its driver opens a snapshot at the head, its first poke   *)
(* is based on the cookie the client came with.  header says whether       *)
(* initConnection came with the handshake.                                 *)
(***************************************************************************)
Connect(c, header) ==
    /\ conn[c].st = "off"
    /\ Spend("connects")
    /\ conn' = [conn EXCEPT ![c] = [Offline EXCEPT !.st = "await", !.header = header,
                                        !.delivery = NewDelivery(client[c].cookie),
                                        !.driver = NewDriver(TheHead)]]
    /\ trust' = [trust EXCEPT ![c] = [r \in Rows |-> "unknown"]]
    /\ UNCHANGED <<replica, durable, work, down, client>>

(***************************************************************************)
(* A client applies the pokes in their order, up to an error frame.        *)
(***************************************************************************)
Deliver(c) ==
    /\ down[c] # <<>> /\ Head(down[c]) # Error
    /\ client' = [client EXCEPT ![c] = Applied(@, Head(down[c]))]
    /\ down' = [down EXCEPT ![c] = Tail(@)]
    /\ UNCHANGED <<replica, durable, conn, work, trust, left>>

(***************************************************************************)
(* The client, which an error frame makes do so, or the network ends the   *)
(* connection: the pokes still on their way are lost.  The handler ends    *)
(* its transition first, and what it sends then is lost too.               *)
(***************************************************************************)
Free(c) == work # Idle => work.c # c

Disconnect(c) ==
    /\ conn[c].st # "off"
    /\ Free(c)
    /\ conn' = [conn EXCEPT ![c] = Offline]
    /\ down' = [down EXCEPT ![c] = <<>>]
    /\ UNCHANGED <<replica, durable, work, client, trust, left>>

-----------------------------------------------------------------------------
Trusting(c, sent, lost) == [trust EXCEPT ![c] = Learned(@, sent, lost)]

Astray(c, lost) == Trusting(c, {}, lost)

(***************************************************************************)
(* refresh_durable_cvr: the working copy is the durable CVR, queries that  *)
(* are no longer desired are no longer tracked, and a hydration that has   *)
(* not been sent is forgotten.                                             *)
(***************************************************************************)
Refreshed(c) ==
    [conn[c] EXCEPT !.tracked = @ \cap durable.desired[c], !.pending = NoPatches]

Forgotten(c) == DOMAIN conn[c].pending.rows

(***************************************************************************)
(* initConnection or changeDesiredQueries: refresh, configuration patches, *)
(* and the queries to hydrate.  The order of a patch matters only between  *)
(* a put and a del of one query, and the put comes first here.             *)
(***************************************************************************)
StartDesire(c, patch, attempt, delivery) ==
    /\ work' = [st      |-> "put",
                kind    |-> "desire",
                c       |-> c,
                patch   |-> patch,
                attempt |-> attempt,
                before  |-> durable.version,
                config  |-> ConfigVersion(durable, c, patch),
                newly   |-> Needed(durable, c, patch),
                todo    |-> patch.puts,
                q       |-> None,
                cvr     |-> ApplyDesired(durable, c, patch),
                patches |-> IF ChangesConfig(durable, c, patch)
                            THEN [NoPatches EXCEPT !.config = {ConfigVersion(durable, c, patch)}]
                            ELSE NoPatches,
                hydration |-> NoPatches]
    /\ conn' = [conn EXCEPT ![c] = [Refreshed(c) EXCEPT !.st = "open", !.delivery = delivery]]
    /\ trust' = Astray(c, Forgotten(c))

Desire(c, patch) ==
    /\ conn[c].st \in {"await", "open"}
    /\ work = Idle
    /\ Spend("messages")
    /\ StartDesire(c, patch, 1, conn[c].delivery)
    /\ UNCHANGED <<replica, durable, down, client>>

(***************************************************************************)
(* hydrate_put brings the driver to the head and registers the query.  The *)
(* changes of the other queries that this advance finds are discarded.     *)
(***************************************************************************)
AdvanceForPut(q) ==
    /\ work.st = "put"
    /\ q \in work.todo \ Untransformed
    /\ LET c == work.c
           a == Advance(conn[c].driver, TheHead, DOMAIN conn[c].driver.pipes)
       IN  /\ conn' = [conn EXCEPT ![c].driver = PreparePut(a.driver, q, q \in conn[c].tracked)]
           /\ trust' = Astray(c, {ch.row : ch \in a.changes})
    /\ work' = [work EXCEPT !.st = "hydrate", !.q = q, !.todo = @ \ {q}]
    /\ UNCHANGED <<replica, durable, down, client, left>>

(***************************************************************************)
(* A query whose transform failed has no AST: nothing is done for it.      *)
(***************************************************************************)
SkipPut(q) ==
    /\ work.st = "put"
    /\ q \in work.todo \cap Untransformed
    /\ work' = [work EXCEPT !.todo = @ \ {q}]
    /\ UNCHANGED <<replica, durable, conn, down, client, trust, left>>

(***************************************************************************)
(* The rest of hydrate_put, for a query that this connection has run and   *)
(* for one that it has not; the SQL of the latter reads the head that the  *)
(* replica has by now.                                                     *)
(***************************************************************************)
Rewire ==
    /\ work.st = "hydrate"
    /\ work.q \in conn[work.c].tracked
    /\ LET v == work.cvr.version
           p == RowPatches(Rewired(work.cvr, conn[work.c].bodies, work.q), v,
                           GotPatch(work.cvr.got, work.q, v, work.q \in work.newly))
       IN  work' = [work EXCEPT !.st = "put", !.q = None, !.hydration = Extend(@, p)]
    /\ UNCHANGED <<replica, durable, conn, down, client, trust, left>>

Hydrated(cvr, q, version, fetched) ==
    [cvr EXCEPT !.version = version,
                !.got[q] = IF @ = 0 THEN version ELSE @,
                !.refs = HydratedRefs(cvr, q, fetched)]

Hydrate ==
    /\ work.st = "hydrate"
    /\ work.q \notin conn[work.c].tracked
    /\ LET c == work.c
           q == work.q
           d == conn[c].driver
           v == EnsureNewVersion(work.config, work.cvr.version)
           fetched == Fetch(q, replica.rows)
           rows == HydratedRows(work.cvr, q, fetched)
           cvr == Hydrated(work.cvr, q, v, fetched)
           p == RowPatches(rows, v,
                           GotPatch(cvr.got, q, v, q \in work.newly \/ work.cvr.got[q] = 0))
       IN  /\ work' = [work EXCEPT !.st = "put", !.q = None, !.cvr = cvr,
                                   !.hydration = Extend(@, p)]
           /\ conn' = [conn EXCEPT
                         ![c].tracked = @ \cup {q},
                         ![c].bodies = Bodies(@, rows),
                         ![c].driver = IF Direct(q) THEN RegisterQuery(d, q, fetched) ELSE d]
           /\ trust' = [x \in Clients |->
                           Learned(trust[x], IF x = c THEN DOMAIN rows ELSE {},
                                   Overwritten(work.cvr, q, fetched)
                                   \cup (IF x = c THEN OutOfStep(d, q, fetched) ELSE {}))]
    /\ UNCHANGED <<replica, durable, down, client, left>>

(***************************************************************************)
(* The end of apply_and_poke_staged: deleted queries have left the driver, *)
(* the configuration is told in one poke and the hydration kept for the    *)
(* next, unless one of them is empty.                                      *)
(***************************************************************************)
Build ==
    /\ work.st = "put"
    /\ work.todo = {}
    /\ LET c == work.c
           together == IsEmpty(work.patches) \/ IsEmpty(work.hydration)
           v == IF IsEmpty(work.hydration) /\ ~IsEmpty(work.patches)
                THEN work.config ELSE work.cvr.version
           told == IF together THEN Extend(work.patches, work.hydration) ELSE work.patches
           b == BuildPoke(conn[c].delivery, told, v, replica.lmids)
       IN  /\ work' = [st |-> "flush", kind |-> "desire", c |-> c, patch |-> work.patch,
                       attempt |-> work.attempt, before |-> work.before,
                       cvr |-> [work.cvr EXCEPT !.version = v],
                       pokes |-> b.pokes, delivery |-> conn[c].delivery,
                       touched |-> DOMAIN work.hydration.rows]
           /\ conn' = [conn EXCEPT
                         ![c].delivery = b.delivery,
                         ![c].driver.pipes = Without(@, work.patch.dels),
                         ![c].version = v,
                         ![c].pending = IF together THEN NoPatches ELSE work.hydration]
           /\ trust' = Astray(c, RowsOnlyOf(conn[c].driver.pipes, work.patch.dels))
    /\ UNCHANGED <<replica, durable, down, client, left>>

(***************************************************************************)
(* rehydrate_tracked: the commit notification.  The version is bumped      *)
(* whatever the pipelines find.                                            *)
(***************************************************************************)
StartRehydrate(c, attempt, delivery) ==
    LET d == conn[c].driver
        v == durable.version + 1
        a == Advance(d, TheHead, DOMAIN d.pipes)
        p == ChangePatches(durable, a.changes, v)
        b == BuildPoke(delivery, p, v, replica.lmids)
    IN  /\ work' = [st |-> "flush", kind |-> "rehydrate", c |-> c,
                    patch |-> [puts |-> {}, dels |-> {}],
                    attempt |-> attempt, before |-> durable.version,
                    cvr |-> [durable EXCEPT !.version = v, !.refs = RefsAfter(durable, a.changes)],
                    pokes |-> b.pokes, delivery |-> delivery, touched |-> DOMAIN p.rows]
        /\ conn' = [conn EXCEPT ![c] = [Refreshed(c) EXCEPT
                                          !.notified = FALSE,
                                          !.delivery = b.delivery,
                                          !.driver = a.driver,
                                          !.bodies = Bodies(@, p.rows)]]
        /\ trust' = Trusting(c, DOMAIN p.rows,
                             Forgotten(c) \cup HeldByOthers(durable, a.changes, d))

Rehydrate(c) ==
    /\ conn[c].notified
    /\ work = Idle
    /\ StartRehydrate(c, 1, conn[c].delivery)
    /\ UNCHANGED <<replica, durable, down, client, left>>

-----------------------------------------------------------------------------
(***************************************************************************)
(* The flush is a compare-and-swap on the version of the CVR.  When it     *)
(* succeeds the pokes go out; a hydration still pending follows at once,   *)
(* except after an initConnection that came in the handshake: that one is  *)
(* not processed by the loop that sends it.                                *)
(***************************************************************************)
Swapped == durable.version = work.before

Send(c, pokes) == down' = [down EXCEPT ![c] = @ \o pokes]

Flush ==
    /\ work.st = "flush"
    /\ Swapped
    /\ durable' = work.cvr
    /\ LET c == work.c
           closes == work.kind = "desire" /\ work.pokes = <<Error>>
           now == work.kind = "desire" /\ ~conn[c].header /\ ~IsEmpty(conn[c].pending)
           b == BuildPoke(conn[c].delivery, conn[c].pending, work.cvr.version, replica.lmids)
       IN  /\ Send(c, IF now THEN work.pokes \o b.pokes ELSE work.pokes)
           /\ conn' = [conn EXCEPT
                         ![c].st = IF closes THEN "closing" ELSE @,
                         ![c].notified = @ /\ ~closes,
                         ![c].header = @ /\ work.kind = "rehydrate",
                         ![c].delivery = IF now THEN b.delivery ELSE @,
                         ![c].pending = IF now THEN NoPatches ELSE @]
    /\ work' = Idle
    /\ UNCHANGED <<replica, client, trust, left>>

(***************************************************************************)
(* Lost to another node: the delivery state goes back and the transition   *)
(* starts again from the new durable CVR, but the driver has advanced and  *)
(* the query stays tracked.                                                *)
(***************************************************************************)
Retry ==
    /\ work.st = "flush"
    /\ ~Swapped
    /\ work.attempt < MaxCvrRetries
    /\ work' = [work EXCEPT !.st = "retry"]
    /\ trust' = Astray(work.c, work.touched \cup Forgotten(work.c))
    /\ UNCHANGED <<replica, durable, conn, down, client, left>>

Restart ==
    /\ work.st = "retry"
    /\ \/ work.kind = "desire" /\ StartDesire(work.c, work.patch, work.attempt + 1, work.delivery)
       \/ work.kind = "rehydrate" /\ StartRehydrate(work.c, work.attempt + 1, work.delivery)
    /\ UNCHANGED <<replica, durable, down, client, left>>

(***************************************************************************)
(* persistence_failure: an error frame.  It ends the connection when the   *)
(* client's message was being handled; after a commit notification the     *)
(* connection goes on, with the cookie of pokes that were never sent, and  *)
(* it is the client that closes it.                                        *)
(***************************************************************************)
FailFlush(c) ==
    /\ work' = Idle
    /\ Send(c, <<Error>>)
    /\ conn' = [conn EXCEPT ![c].st = IF work.kind = "desire" THEN "closing" ELSE @,
                            ![c].notified = @ /\ work.kind # "desire"]
    /\ trust' = Astray(c, Rows)
    /\ UNCHANGED <<replica, durable, client>>

GiveUp ==
    /\ work.st = "flush"
    /\ ~Swapped
    /\ work.attempt = MaxCvrRetries
    /\ FailFlush(work.c)
    /\ UNCHANGED left

FlushFails ==
    /\ work.st = "flush"
    /\ Spend("failures")
    /\ FailFlush(work.c)

(***************************************************************************)
(* The advance fails: over its budget, or a change log entry that asks for *)
(* a reset.  The snapshot has moved, some pipelines have not.  The         *)
(* transition is persisted all the same, and the client is told the error. *)
(***************************************************************************)
AdvanceFails(done) ==
    /\ Spend("failures")
    /\ \/ /\ work.st = "put"
          /\ work.todo \ Untransformed # {}
          /\ LET c == work.c
                 a == Advance(conn[c].driver, TheHead, done \cap DOMAIN conn[c].driver.pipes)
             IN  /\ conn' = [conn EXCEPT ![c].driver = a.driver]
                 /\ work' = [st |-> "flush", kind |-> "desire", c |-> c, patch |-> work.patch,
                             attempt |-> work.attempt, before |-> work.before, cvr |-> work.cvr,
                             pokes |-> <<Error>>, delivery |-> conn[c].delivery, touched |-> Rows]
                 /\ trust' = Astray(c, Rows)
       \/ /\ work = Idle
          /\ \E c \in Clients :
               /\ conn[c].notified
               /\ LET a == Advance(conn[c].driver, TheHead, done \cap DOMAIN conn[c].driver.pipes)
                  IN  conn' = [conn EXCEPT ![c] = [Refreshed(c) EXCEPT !.notified = FALSE,
                                                                       !.driver = a.driver]]
               /\ work' = [st |-> "flush", kind |-> "rehydrate", c |-> c,
                           patch |-> [puts |-> {}, dels |-> {}], attempt |-> 1,
                           before |-> durable.version,
                           cvr |-> [durable EXCEPT !.version = @ + 1],
                           pokes |-> <<Error>>, delivery |-> conn[c].delivery, touched |-> Rows]
               /\ trust' = Astray(c, Rows)
    /\ UNCHANGED <<replica, durable, down, client>>

(***************************************************************************)
(* Another node serving the group commits a transition of its own.         *)
(***************************************************************************)
OtherNode ==
    /\ Spend("others")
    /\ durable' = [durable EXCEPT !.version = @ + 1]
    /\ UNCHANGED <<replica, conn, work, down, client, trust>>

(***************************************************************************)
(* Any other message of the client (a push, an inspect, a pull) lets the   *)
(* loop send a hydration left pending.                                     *)
(***************************************************************************)
OtherMessage(c) ==
    /\ conn[c].st = "open"
    /\ Free(c)
    /\ ~IsEmpty(conn[c].pending)
    /\ LET b == BuildPoke(conn[c].delivery, conn[c].pending, conn[c].version, replica.lmids)
       IN  /\ Send(c, b.pokes)
           /\ conn' = [conn EXCEPT ![c].delivery = b.delivery, ![c].pending = NoPatches]
    /\ UNCHANGED <<replica, durable, work, client, trust, left>>

-----------------------------------------------------------------------------
Transition ==
    \/ \E q \in Queries : AdvanceForPut(q) \/ SkipPut(q)
    \/ Rewire \/ Hydrate \/ Build
    \/ Flush \/ Retry \/ Restart \/ GiveUp

Next ==
    \/ \E w \in Writes : Commit(w)
    \/ \E c \in left.clients, header \in left.header : Connect(c, header)
    \/ \E c \in Clients : Disconnect(c)
    \/ \E c \in Clients : Deliver(c)
    \/ \E c \in Clients, patch \in left.patches : Desire(c, patch)
    \/ \E c \in Clients : Rehydrate(c)
    \/ Transition
    \/ FlushFails
    \/ \E done \in SUBSET Queries : AdvanceFails(done)
    \/ OtherNode
    \/ \E c \in Clients : OtherMessage(c)

Spec == Init /\ [][Next]_vars

-----------------------------------------------------------------------------
(***************************************************************************)
(* Every variable has its type.                                            *)
(***************************************************************************)
TypeOK ==
    /\ replica.ver \in Nat
    /\ durable.version \in Nat
    /\ durable.desired \in [Clients -> SUBSET Queries]
    /\ durable.refs \in [Rows -> SUBSET Queries]
    /\ \A c \in Clients :
          /\ conn[c].st \in {"off", "await", "open", "closing"}
          /\ conn[c].notified \in BOOLEAN
          /\ conn[c].tracked \subseteq Queries \ Untransformed
          /\ DOMAIN conn[c].bodies \subseteq Rows
          /\ \A q \in DOMAIN conn[c].driver.pipes :
                \A r \in DOMAIN conn[c].driver.pipes[q] :
                    /\ TableOf[r] \in {Root[q]} \cup Related[q]
                    /\ conn[c].driver.pipes[q][r].val # 0
          /\ conn[c].delivery.last >= NoCookie
    /\ work.st \in {"idle", "put", "hydrate", "flush", "retry"}
    /\ trust \in [Clients -> [Rows -> {"unknown", "fresh", "astray"}]]

(***************************************************************************)
(* The pokes on their way to a client that it will apply.                  *)
(***************************************************************************)
Applicable(c) == {i \in DOMAIN down[c] : \A j \in 1..i : down[c][j] # Error}

(***************************************************************************)
(* A client refuses a poke that does not start from the cookie it has: the *)
(* pokes on their way follow on from it and from each other, up to an      *)
(* error frame, and none of them has a cookie that the durable CVR has not *)
(* reached, whatever transitions were retried, refreshed or lost.          *)
(***************************************************************************)
PokesFollowOn ==
    \A c \in Clients :
        /\ \A i \in Applicable(c) :
              /\ down[c][i].base = IF i = 1 THEN client[c].cookie ELSE down[c][i - 1].cookie
              /\ down[c][i].base <= down[c][i].cookie
              /\ down[c][i].cookie <= durable.version
        /\ client[c].cookie <= durable.version

(***************************************************************************)
(* A connection that has nothing left to do.                               *)
(***************************************************************************)
Quiet(c) ==
    /\ conn[c].st = "open"
    /\ Free(c)
    /\ ~conn[c].notified
    /\ IsEmpty(conn[c].pending)
    /\ down[c] = <<>>

(***************************************************************************)
(* A client whose connection has nothing left to do holds, of every row    *)
(* that its connection has not lost track of, what the replica has if one  *)
(* of its queries returns the row, and nothing if it was sent and none     *)
(* does; and it has every acknowledged mutation.                           *)
(***************************************************************************)
ViewIsCurrent ==
    \A c \in {x \in Clients : Quiet(x)} :
        LET wanted == UNION {Result(q, replica.rows) : q \in DOMAIN conn[c].driver.pipes}
        IN  /\ client[c].lmids = replica.lmids
            /\ \A r \in {x \in Rows : trust[c][x] # "astray"} :
                  /\ r \in wanted => r \in DOMAIN client[c].rows
                                     /\ client[c].rows[r] = replica.rows[r]
                  /\ trust[c][r] = "fresh" /\ r \notin wanted => r \notin DOMAIN client[c].rows
=============================================================================
