--------------------------- MODULE GroupProcessor ---------------------------
(***************************************************************************)
(* The client group with ZERO_GROUP_OWNERSHIP on: one processor loop owns  *)
(* the group's CVR and the pipeline that its clients share, and takes      *)
(* commands from the tasks of the connections, in order and before commit  *)
(* notifications.  The loop lives while a connection holds its handle, the *)
(* group service (pipeline and connect-time CVR) while a loop or a         *)
(* connection being set up holds it.  A client may come back on a new      *)
(* socket before the server has noticed that the old one is gone.          *)
(*                                                                         *)
(* A query's transformed AST is a number, 0 when its transform failed; the *)
(* ASTs of one query return the same rows.                                 *)
(***************************************************************************)
EXTENDS GroupTransition

CONSTANTS
    Synced,       \* the rows of the initial sync
    Writes,       \* the changes of a row that commits make: the row, its value, the mutators
    MaxCommits,   \* commits of the replica
    MaxMessages,  \* initConnection and changeDesiredQueries messages
    MaxSessions,  \* WebSocket connections
    MaxFailures,  \* flushes, advances and hydrations that fail
    Patches       \* the desired-queries patches that clients send, with the transformed AST

ASSUME GroupProcessorAssumption ==
    /\ MaxCommits \in Nat /\ MaxMessages \in Nat /\ MaxFailures \in Nat
    /\ MaxSessions \in Nat \ {0}
    /\ Synced \subseteq Rows
    /\ Untransformed = {}
    /\ Writes \subseteq [row : Rows, val : Nat, by : SUBSET Clients]
    /\ Patches \subseteq [puts : SUBSET Queries, dels : SUBSET Queries, ast : Nat]
    /\ \A p \in Patches : p.puts \cap p.dels = {}

VARIABLES
    replica,  \* its rows, its version and the last mutation ID of each client
    durable,  \* the CVR in Postgres
    service,  \* the group service: driver, desirers of each query, connect-time CVR;
              \* history: the desired queries of which the registration failed (unbuilt)
    loops,    \* the processor loops, in the order they were spawned
    sess,     \* the connections, in the order they were made
    cur,      \* the connection each client is on, 0 for none
    client,   \* what each client holds
    trust,    \* history: what the loop knows of the client's rows
    lost,     \* history: the rows of which the service has lost track
    failed,   \* history: a transition has failed
    messages, failures

env == <<messages, failures>>
vars == <<replica, durable, service, loops, sess, cur, client, trust, lost, failed, env>>

Sessions == 1..MaxSessions
Loops == 1..MaxSessions
NoAst == -1
NoSeed == [version |-> -1]
Idle == [st |-> "idle"]

TheHead == [rows |-> replica.rows, ver |-> replica.ver]

NoService == [live |-> FALSE]

NewService ==
    [live |-> TRUE, driver |-> NewDriver(TheHead), seed |-> NoSeed,
     desirers |-> [q \in Queries |-> {}], unbuilt |-> {}]

NewLoop(cvr) ==
    [st |-> "run", queue |-> <<>>, notified |-> FALSE, cvr |-> cvr, tracked |-> {},
     bodies |-> Empty, prints |-> [q \in Queries |-> NoAst], conns |-> Empty,
     gen |-> 0, work |-> Idle]

NoLoop(st) == [NewLoop(EmptyCvr) EXCEPT !.st = st]

Init ==
    /\ replica = [rows |-> [r \in Rows |-> IF r \in Synced THEN [val |-> 1, ver |-> 0] ELSE NoRow],
                  ver |-> 0, lmids |-> [c \in Clients |-> 0]]
    /\ durable = EmptyCvr
    /\ service = NoService
    /\ loops = [l \in Loops |-> NoLoop("none")]
    /\ sess = [s \in Sessions |-> [st |-> "none"]]
    /\ cur = [c \in Clients |-> 0]
    /\ client = [c \in Clients |-> Over(NewClient, [broken |-> FALSE])]
    /\ trust = [c \in Clients |-> [r \in Rows |-> "unknown"]]
    /\ lost = {}
    /\ failed = FALSE
    /\ messages = 0 /\ failures = 0

-----------------------------------------------------------------------------
(***************************************************************************)
(* The shared pipeline: a query runs for as long as a client desires it.   *)
(* The desire is counted before the driver builds the pipeline, and stays  *)
(* counted when that fails.                                                *)
(***************************************************************************)
Desired(svc, c, q) == [svc EXCEPT !.desirers[q] = @ \cup {c}]

IsFirst(svc, q) == svc.desirers[q] = {}

DesireQuery(svc, c, q) ==
    [Desired(svc, c, q) EXCEPT !.driver = IF IsFirst(svc, q) THEN AddQuery(@, q) ELSE @]

RegisterDesire(svc, c, q, rows) ==
    [Desired(svc, c, q) EXCEPT !.driver = IF IsFirst(svc, q) THEN RegisterQuery(@, q, rows) ELSE @]

FailedDesire(svc, c, q) == [Desired(svc, c, q) EXCEPT !.unbuilt = @ \cup {q}]

(* Mutant: the query leaves the driver when any desirer drops it. *)
Orphans_any(svc, c, qs) == {q \in qs : c \in svc.desirers[q]}

Orphans(svc, c, qs) == {q \in qs : svc.desirers[q] = {c}}

Undesire(svc, c, qs) ==
    [svc EXCEPT !.desirers = [q \in Queries |-> IF q \in qs THEN @[q] \ {c} ELSE @[q]],
                !.driver.pipes = Without(@, Orphans(svc, c, qs)),
                !.unbuilt = @ \ Orphans(svc, c, qs)]

ResetQueries(svc, qs) ==
    [svc EXCEPT !.desirers = [q \in Queries |-> IF q \in qs THEN {} ELSE @[q]],
                !.driver.pipes = Without(@, qs),
                !.unbuilt = @ \ qs]

-----------------------------------------------------------------------------
(***************************************************************************)
(* The clients that are on the connection a loop pokes, and what they come *)
(* to know of rows that are sent to them or lost.                          *)
(***************************************************************************)
Served(l) == {c \in DOMAIN loops[l].conns : loops[l].conns[c].s = cur[c]}

Loses(rows) ==
    /\ trust' = [c \in Clients |-> Learned(trust[c], {}, rows)]
    /\ lost' = lost \cup rows

Commit(w) ==
    /\ replica.ver < MaxCommits
    /\ replica.rows[w.row].val # w.val
    /\ replica' = [rows  |-> [replica.rows EXCEPT ![w.row] = [val |-> w.val, ver |-> replica.ver + 1]],
                   ver   |-> replica.ver + 1,
                   lmids |-> [c \in Clients |-> replica.lmids[c] + IF c \in w.by THEN 1 ELSE 0]]
    /\ loops' = [l \in Loops |-> IF loops[l].st = "run"
                                 THEN [loops[l] EXCEPT !.notified = TRUE] ELSE loops[l]]
    /\ UNCHANGED <<durable, service, sess, cur, client, trust, lost, failed, env>>

(***************************************************************************)
(* A connection: get_or_create of the group service; then the connect-time *)
(* CVR, loaded once for the service, and get_or_spawn of the loop, whose   *)
(* first command from the connection is Attach.                            *)
(***************************************************************************)
Resolve(c) ==
    /\ cur[c] = 0
    /\ \E s \in Sessions :
         /\ sess[s].st = "none"
         /\ \A t \in 1..(s - 1) : sess[t].st # "none"
         /\ sess' = [sess EXCEPT ![s] = [st |-> "setup", c |-> c, loop |-> 0, gen |-> 0,
                                         ready |-> FALSE, puts |-> {}]]
         /\ cur' = [cur EXCEPT ![c] = s]
    /\ service' = IF service.live THEN service ELSE NewService
    /\ lost' = IF service.live THEN lost ELSE {}
    /\ trust' = [trust EXCEPT ![c] = [r \in Rows |-> IF r \in lost' THEN "astray" ELSE "unknown"]]
    /\ UNCHANGED <<replica, durable, loops, client, failed, env>>

HoldsLoop(s, l) == sess[s].st \in {"attach", "open", "wait", "closing"} /\ sess[s].loop = l

Enqueue(l, command) == [loops EXCEPT ![l].queue = Append(@, command)]

Join(s) ==
    /\ sess[s].st = "setup"
    /\ LET seed    == IF service.seed = NoSeed THEN durable ELSE service.seed
           held    == {l \in Loops : \E t \in Sessions : HoldsLoop(t, l)}
           l       == IF held # {} THEN Highest(held)
                      ELSE CHOOSE n \in Loops : loops[n].st = "none" /\ \A m \in 1..(n - 1) : loops[m].st # "none"
           attach  == [op |-> "attach", s |-> s, c |-> sess[s].c, base |-> client[sess[s].c].cookie]
       IN  /\ service' = [service EXCEPT !.seed = seed]
           /\ loops' = IF held # {} THEN Enqueue(l, attach)
                       ELSE [loops EXCEPT ![l] = [NewLoop(seed) EXCEPT !.queue = <<attach>>]]
           /\ sess' = [sess EXCEPT ![s].st = "attach", ![s].loop = l]
    /\ UNCHANGED <<replica, durable, cur, client, trust, lost, failed, env>>

(***************************************************************************)
(* The client leaves at any time; what it sent before may be read later,   *)
(* and what is sent to it afterwards is lost.  The task of the connection  *)
(* waits for the reply to a command before it reads on.                    *)
(***************************************************************************)
Message(s, patch) ==
    /\ sess[s].st = "open"
    /\ messages < MaxMessages
    /\ messages' = messages + 1
    /\ sess' = [sess EXCEPT ![s].st = "wait"]
    /\ loops' = Enqueue(sess[s].loop, [op |-> "desire", s |-> s, c |-> sess[s].c, patch |-> patch])
    /\ UNCHANGED <<replica, durable, service, cur, client, trust, lost, failed, failures>>

Leave(c) ==
    /\ cur[c] # 0
    /\ cur' = [cur EXCEPT ![c] = 0]
    /\ UNCHANGED <<replica, durable, service, loops, sess, client, trust, lost, failed, env>>

(***************************************************************************)
(* The task of the connection reads the end of the stream and detaches;    *)
(* its writer, and with it the task and its handle of the loop, ends with  *)
(* the socket or when the loop has dropped the connection.                 *)
(***************************************************************************)
Ended(s) == [sess[s] EXCEPT !.st = "gone", !.ready = FALSE, !.puts = {}]

Notice(s, broken) ==
    /\ sess[s].st = "open"
    /\ cur[sess[s].c] # s
    /\ sess' = [sess EXCEPT ![s] = IF broken THEN Ended(s) ELSE [@ EXCEPT !.st = "closing"]]
    /\ loops' = Enqueue(sess[s].loop, [op |-> "detach", s |-> s, c |-> sess[s].c, gen |-> sess[s].gen])
    /\ UNCHANGED <<replica, durable, service, cur, client, trust, lost, failed, env>>

ServiceWithout(gone, ended) ==
    IF /\ \A t \in Sessions \ gone : sess[t].st # "setup"
       /\ \A l \in Loops \ ended : loops[l].st # "run"
    THEN NoService ELSE service

(***************************************************************************)
(* A connection that is lost while it is being set up.                     *)
(***************************************************************************)
GiveUp(s) ==
    /\ sess[s].st = "setup"
    /\ cur[sess[s].c] # s
    /\ sess' = [sess EXCEPT ![s] = Ended(s)]
    /\ service' = ServiceWithout({s}, {})
    /\ UNCHANGED <<replica, durable, loops, cur, client, trust, lost, failed, env>>

(***************************************************************************)
(* The loop ends when nobody holds its handle and the commands are done.   *)
(***************************************************************************)
LoopEnds(l) ==
    /\ loops[l].st = "run" /\ loops[l].work = Idle /\ loops[l].queue = <<>>
    /\ ~\E s \in Sessions : HoldsLoop(s, l)
    /\ loops' = [loops EXCEPT ![l] = NoLoop("over")]
    /\ service' = ServiceWithout({}, {l})
    /\ UNCHANGED <<replica, durable, sess, cur, client, trust, lost, failed, env>>

-----------------------------------------------------------------------------
(***************************************************************************)
(* handle_command.                                                         *)
(***************************************************************************)
Takes(l, op) ==
    /\ loops[l].st = "run" /\ loops[l].work = Idle
    /\ loops[l].queue # <<>> /\ Head(loops[l].queue).op = op

Attach(l) ==
    /\ Takes(l, "attach")
    /\ LET cmd == Head(loops[l].queue)
           handle == [s |-> cmd.s, gen |-> loops[l].gen, delivery |-> NewDelivery(cmd.base)]
       IN  /\ loops' = [loops EXCEPT ![l].queue = Tail(@), ![l].gen = @ + 1,
                                     ![l].conns = Over(One(cmd.c, handle), @)]
           /\ sess' = [sess EXCEPT ![cmd.s].st = "open", ![cmd.s].gen = loops[l].gen]
    /\ UNCHANGED <<replica, durable, service, cur, client, trust, lost, failed, env>>

(* Mutant: the end of an old socket detaches the client whatever connection it is on. *)
IsAttached_any(l, c, gen) == c \in DOMAIN loops[l].conns

IsAttached(l, c, gen) == c \in DOMAIN loops[l].conns /\ loops[l].conns[c].gen = gen

Detach(l) ==
    /\ Takes(l, "detach")
    /\ LET cmd == Head(loops[l].queue)
       IN  IF IsAttached(l, cmd.c, cmd.gen)
           THEN /\ loops' = [loops EXCEPT ![l].queue = Tail(@), ![l].conns = Without(@, {cmd.c})]
                /\ service' = Undesire(service, cmd.c, Queries)
                /\ Loses(RowsOnlyOf(service.driver.pipes, Orphans(service, cmd.c, Queries)))
           ELSE /\ loops' = [loops EXCEPT ![l].queue = Tail(@)]
                /\ UNCHANGED <<service, trust, lost>>
    /\ sess' = [sess EXCEPT ![Head(loops[l].queue).s] = Ended(Head(loops[l].queue).s)]
    /\ UNCHANGED <<replica, durable, cur, client, failed, env>>

(***************************************************************************)
(* process_desired_queries: nothing for a client that is not attached;     *)
(* else the transform guard, then the patch.                               *)
(***************************************************************************)
Replied(s) == [sess EXCEPT ![s].st = "open", ![s].ready = TRUE]

Divergent(l, patch) == {q \in patch.puts : loops[l].prints[q] \notin {NoAst, patch.ast}}

DesireUnattached(l) ==
    /\ Takes(l, "desire")
    /\ Head(loops[l].queue).c \notin DOMAIN loops[l].conns
    /\ loops' = [loops EXCEPT ![l].queue = Tail(@)]
    /\ sess' = Replied(Head(loops[l].queue).s)
    /\ UNCHANGED <<replica, durable, service, cur, client, trust, lost, failed, env>>

Desire(l) ==
    /\ Takes(l, "desire")
    /\ Head(loops[l].queue).c \in DOMAIN loops[l].conns
    /\ LET cmd   == Head(loops[l].queue)
           cvr   == loops[l].cvr
           reset == Divergent(l, cmd.patch)
           svc   == ResetQueries(service, reset)
       IN  /\ loops' = [loops EXCEPT
                 ![l].queue  = Tail(@),
                 ![l].prints = [q \in Queries |-> IF q \in cmd.patch.puts THEN cmd.patch.ast ELSE @[q]],
                 ![l].cvr    = ApplyDesired(cvr, cmd.c, cmd.patch),
                 ![l].work   = [st |-> "put", kind |-> "desire", s |-> cmd.s, c |-> cmd.c, ast |-> cmd.patch.ast,
                                before |-> cvr, todo |-> cmd.patch.puts, q |-> "none",
                                puts |-> cmd.patch.puts, dels |-> cmd.patch.dels,
                                newly |-> Needed(cvr, cmd.c, cmd.patch),
                                config |-> ConfigVersion(cvr, cmd.c, cmd.patch),
                                patches |-> IF ChangesConfig(cvr, cmd.c, cmd.patch)
                                            THEN [NoPatches EXCEPT !.config = {ConfigVersion(cvr, cmd.c, cmd.patch)}]
                                            ELSE NoPatches,
                                hydration |-> NoPatches]]
           /\ service' = Undesire(svc, cmd.c, cmd.patch.dels)
           /\ Loses(RowsOnlyOf(service.driver.pipes,
                                             reset \cup Orphans(svc, cmd.c, cmd.patch.dels)))
    /\ UNCHANGED <<replica, durable, sess, cur, client, failed, env>>

(***************************************************************************)
(* hydrate_put brings the shared driver to the head, throws away what it   *)
(* finds, and registers the query unless it waits for the rows.            *)
(***************************************************************************)
SharedPut(svc, c, q, executed) ==
    IF executed THEN RegisterDesire(svc, c, q, Empty)
    ELSE IF Direct(q) THEN Undesire(svc, c, {q})
    ELSE DesireQuery(Undesire(svc, c, {q}), c, q)

(***************************************************************************)
(* The rows of a query that starts again from an empty pipeline.           *)
(***************************************************************************)
Restarted(l, q) ==
    IF q \in loops[l].tracked /\ IsFirst(service, q)
    THEN Result(q, replica.rows) \cup {r \in Rows : q \in loops[l].cvr.refs[r]}
    ELSE {}

AdvanceForPut(l, q) ==
    /\ loops[l].work.st = "put" /\ q \in loops[l].work.todo
    /\ loops[l].work.ast # 0
    /\ LET a == Advance(service.driver, TheHead, DOMAIN service.driver.pipes)
       IN  /\ service' = SharedPut([service EXCEPT !.driver = a.driver], loops[l].work.c, q,
                                   q \in loops[l].tracked)
           /\ Loses({ch.row : ch \in a.changes} \cup Restarted(l, q))
    /\ loops' = [loops EXCEPT ![l].work.st = "hydrate", ![l].work.q = q, ![l].work.todo = @ \ {q}]
    /\ UNCHANGED <<replica, durable, sess, cur, client, failed, env>>

(***************************************************************************)
(* Without an AST nothing is done for the query.                           *)
(***************************************************************************)
SkipPut(l, q) ==
    /\ loops[l].work.st = "put" /\ q \in loops[l].work.todo
    /\ loops[l].work.ast = 0
    /\ loops' = [loops EXCEPT ![l].work.todo = @ \ {q}]
    /\ UNCHANGED <<replica, durable, service, sess, cur, client, trust, lost, failed, env>>

Piped(q) == UNION {DOMAIN service.driver.pipes[x] : x \in {q} \cap DOMAIN service.driver.pipes}

Rewire(l) ==
    /\ loops[l].work.st = "hydrate"
    /\ LET w == loops[l].work
           q == w.q
           cvr == loops[l].cvr
           rows == Rewired(cvr, loops[l].bodies, q)
           p == RowPatches(rows, cvr.version, GotPatch(cvr.got, q, cvr.version, q \in w.newly))
           unsent == IF cvr.version > BaseCookie(loops[l].conns[w.c].delivery)
                     THEN Piped(q) \ DOMAIN rows ELSE Piped(q)
       IN  /\ q \in loops[l].tracked
           /\ loops' = [loops EXCEPT ![l].work.st = "put", ![l].work.hydration = Extend(@, p)]
           /\ trust' = [trust EXCEPT ![w.c] = Learned(@, {}, unsent)]
    /\ UNCHANGED <<replica, durable, service, sess, cur, client, lost, failed, env>>

(***************************************************************************)
(* A query that the loop has not executed: SQL reads the head that the     *)
(* replica has by now.                                                     *)
(***************************************************************************)
Hydrate(l) ==
    /\ loops[l].work.st = "hydrate"
    /\ loops[l].work.q \notin loops[l].tracked
    /\ LET w == loops[l].work
           q == w.q
           cvr == loops[l].cvr
           v == EnsureNewVersion(w.config, cvr.version)
           fetched == Fetch(q, replica.rows)
           rows == HydratedRows(cvr, q, fetched)
           got == [cvr.got EXCEPT ![q] = IF @ = 0 THEN v ELSE @]
           p == RowPatches(rows, v, GotPatch(got, q, v, q \in w.newly \/ cvr.got[q] = 0))
           svc == IF Direct(q) THEN RegisterDesire(service, w.c, q, fetched) ELSE service
       IN  /\ loops' = [loops EXCEPT
                 ![l].work.st = "put", ![l].work.hydration = Extend(@, p),
                 ![l].cvr = [@ EXCEPT !.version = v, !.got = got, !.refs = HydratedRefs(cvr, q, fetched)],
                 ![l].tracked = @ \cup {q},
                 ![l].bodies = Bodies(@, rows)]
           /\ service' = svc
           /\ Loses(Overwritten(cvr, q, fetched) \cup OutOfStep(svc.driver, q, fetched)
                               \cup (Piped(q) \ DOMAIN fetched))
    /\ UNCHANGED <<replica, durable, sess, cur, client, failed, env>>

-----------------------------------------------------------------------------
(***************************************************************************)
(* Pokes to the attached connections, each built on the delivery state of  *)
(* its own; told has the patches that each client gets, those of no, one   *)
(* or two pokes.                                                           *)
(***************************************************************************)
BuildPokes(dl, told, version) ==
    LET first  == BuildPoke(dl, told[1], version, replica.lmids)
        second == BuildPoke(first.delivery, told[2], version, replica.lmids)
    IN  CASE Len(told) = 0 -> [pokes |-> <<>>, delivery |-> dl]
          [] Len(told) = 1 -> first
          [] Len(told) = 2 -> [pokes |-> first.pokes \o second.pokes, delivery |-> second.delivery]

RowsIn(pokes) == UNION {DOMAIN pokes[i].rows : i \in DOMAIN pokes}

(* Mutant: only the client that asked is told. *)
Told_requester(l, c, mine, others) == [x \in {c} \cap DOMAIN loops[l].conns |-> mine]

Told(l, c, mine, others) ==
    [x \in DOMAIN loops[l].conns |-> IF x = c THEN mine ELSE others]

Receives(held, p) ==
    Over(Applied(held, p),
         [broken |-> held.broken \/ p.base # held.cookie \/ p.cookie < p.base])

ReceivesAll(held, pokes) ==
    CASE Len(pokes) = 0 -> held
      [] Len(pokes) = 1 -> Receives(held, pokes[1])
      [] Len(pokes) = 2 -> Receives(Receives(held, pokes[1]), pokes[2])

FanOut(l, cvr, told) ==
    LET conns == loops[l].conns
        built == [c \in DOMAIN told |-> BuildPokes(conns[c].delivery, told[c], cvr.version)]
        to    == Served(l) \cap DOMAIN told
    IN  /\ loops' = [loops EXCEPT
              ![l].cvr = cvr, ![l].work = Idle,
              ![l].conns = Over([c \in DOMAIN told |-> [conns[c] EXCEPT !.delivery = built[c].delivery]], conns)]
        /\ client' = Over([c \in to |-> ReceivesAll(client[c], built[c].pokes)], client)
        /\ trust' = Over([c \in to |-> Learned(trust[c], RowsIn(built[c].pokes), {})], trust)

(***************************************************************************)
(* The end of process_desired_queries: the flush, the pokes of the client  *)
(* that asked, and the hydration for the others.  A patch that hydrates    *)
(* nothing takes the version back to that of the configuration.            *)
(***************************************************************************)
FlushDesire(l) ==
    LET w == loops[l].work
        none == IsEmpty(w.hydration)
        cvr == IF none /\ ~IsEmpty(w.patches)
               THEN [loops[l].cvr EXCEPT !.version = w.config] ELSE loops[l].cvr
        mine == IF none \/ IsEmpty(w.patches) THEN <<Extend(w.patches, w.hydration)>>
                ELSE <<w.patches, w.hydration>>
    IN  /\ w.st = "put" /\ w.todo = {}
        /\ durable.version = w.before.version
        /\ durable' = loops[l].cvr
        /\ FanOut(l, cvr, Told(l, w.c, mine, IF none THEN <<>> ELSE <<w.hydration>>))
        /\ sess' = [Replied(w.s) EXCEPT ![w.s].puts = IF w.ast = 0 THEN @ ELSE (@ \cup w.puts) \ w.dels]
        /\ UNCHANGED <<replica, service, cur, lost, failed, env>>

(***************************************************************************)
(* process_commit: nothing without connections, else one advance for all   *)
(* of them.  The notifications that have come so far are taken together.   *)
(***************************************************************************)
Notified(l) ==
    /\ loops[l].st = "run" /\ loops[l].work = Idle /\ loops[l].queue = <<>>
    /\ loops[l].notified

SkipCommit(l) ==
    /\ Notified(l)
    /\ DOMAIN loops[l].conns = {}
    /\ loops' = [loops EXCEPT ![l].notified = FALSE]
    /\ UNCHANGED <<replica, durable, service, sess, cur, client, trust, lost, failed, env>>

ProcessCommit(l) ==
    /\ Notified(l)
    /\ DOMAIN loops[l].conns # {}
    /\ LET cvr == loops[l].cvr
           v   == cvr.version + 1
           a   == Advance(service.driver, TheHead, DOMAIN service.driver.pipes)
           p   == ChangePatches(cvr, a.changes, v)
           rows == {ch.row : ch \in a.changes}
           held == HeldByOthers(cvr, a.changes, service.driver)
       IN  /\ service' = [service EXCEPT !.driver = a.driver]
           /\ loops' = [loops EXCEPT
                 ![l].notified = FALSE,
                 ![l].cvr = [@ EXCEPT !.version = v, !.refs = RefsAfter(cvr, a.changes)],
                 ![l].bodies = Bodies(@, p.rows),
                 ![l].work = [st |-> "commit", before |-> cvr, patches |-> p]]
           /\ trust' = [c \in Clients |->
                           Learned(trust[c], {}, held \cup IF c \in Served(l) THEN {} ELSE rows)]
           /\ lost' = lost \cup held
                      \cup IF \E x \in Loops \ {l} : loops[x].st = "run" THEN rows ELSE {}
    /\ UNCHANGED <<replica, durable, sess, cur, client, failed, env>>

FlushCommit(l) ==
    LET w == loops[l].work
    IN  /\ w.st = "commit"
        /\ durable.version = w.before.version
        /\ durable' = loops[l].cvr
        /\ FanOut(l, loops[l].cvr, Told(l, "none", <<>>, <<w.patches>>))
        /\ UNCHANGED <<replica, service, sess, cur, lost, failed, env>>

-----------------------------------------------------------------------------
(***************************************************************************)
(* The CVR of a commit whose flush fails goes back; the row records, which *)
(* are not part of it, do not.                                             *)
(***************************************************************************)
RolledBack(cvr, before) == [before EXCEPT !.refs = cvr.refs]

Fails(l, cvr) ==
    /\ loops' = [loops EXCEPT ![l].cvr = cvr, ![l].work = Idle]
    /\ failed' = TRUE
    /\ Loses(Rows)

(***************************************************************************)
(* A flush that fails, or whose compare-and-swap loses: no frame is sent,  *)
(* and only the commit path takes its version back.                        *)
(***************************************************************************)
FlushFails(l) ==
    LET w == loops[l].work
    IN  /\ \/ w.st = "commit"
              /\ Fails(l, RolledBack(loops[l].cvr, w.before))
              /\ UNCHANGED sess
           \/ w.st = "put" /\ w.todo = {}
              /\ Fails(l, loops[l].cvr)
              /\ sess' = Replied(w.s)
        /\ IF durable.version = w.before.version
           THEN failures < MaxFailures /\ failures' = failures + 1
           ELSE UNCHANGED failures
        /\ UNCHANGED <<replica, durable, service, cur, client, messages>>

(***************************************************************************)
(* An advance that fails leaves some pipelines behind the snapshot: an     *)
(* error frame, on which the client leaves, if it asked; nothing after a   *)
(* commit.                                                                 *)
(***************************************************************************)
AdvanceFails(l, done) ==
    LET w == loops[l].work
        a == Advance(service.driver, TheHead, done \cap DOMAIN service.driver.pipes)
    IN  /\ failures < MaxFailures
        /\ failures' = failures + 1
        /\ service' = [service EXCEPT !.driver = a.driver]
        /\ \/ /\ w.st = "put" /\ w.todo # {} /\ w.ast # 0
              /\ Fails(l, loops[l].cvr)
              /\ sess' = Replied(w.s)
              /\ cur' = [cur EXCEPT ![w.c] = IF w.c \in Served(l) THEN 0 ELSE @]
           \/ /\ Notified(l) /\ DOMAIN loops[l].conns # {}
              /\ failed' = TRUE
              /\ Loses(Rows)
              /\ loops' = [loops EXCEPT ![l].notified = FALSE]
              /\ UNCHANGED <<sess, cur>>
        /\ UNCHANGED <<replica, durable, client, messages>>

(***************************************************************************)
(* A hydration that fails: the error frame again, and nothing is undone.   *)
(* The query of a first desirer may be unknown to the tables the driver    *)
(* has, before any row is read.                                            *)
(***************************************************************************)
HydrationFails(l, cvr, tracked) ==
    LET w == loops[l].work
    IN  /\ failures < MaxFailures
        /\ failures' = failures + 1
        /\ loops' = [loops EXCEPT ![l].cvr = cvr, ![l].tracked = tracked, ![l].work = Idle]
        /\ failed' = TRUE
        /\ Loses(Rows)
        /\ sess' = Replied(w.s)
        /\ cur' = [cur EXCEPT ![w.c] = IF w.c \in Served(l) THEN 0 ELSE @]
        /\ UNCHANGED <<replica, durable, client, messages>>

AddQueryFails(l, q) ==
    LET w == loops[l].work
        a == Advance(service.driver, TheHead, DOMAIN service.driver.pipes)
        svc == Undesire([service EXCEPT !.driver = a.driver], w.c, {q})
    IN  /\ w.st = "put" /\ q \in w.todo /\ w.ast # 0
        /\ q \notin loops[l].tracked /\ ~Direct(q) /\ IsFirst(svc, q)
        /\ service' = FailedDesire(svc, w.c, q)
        /\ HydrationFails(l, loops[l].cvr, loops[l].tracked)

(***************************************************************************)
(* The read of the root rows, which bumps the version first, fails; or     *)
(* they are read, and what the query then waits for fails: its             *)
(* registration with them, or the read of the related rows.                *)
(***************************************************************************)
FetchFails(l) ==
    LET w == loops[l].work
        cvr == loops[l].cvr
    IN  /\ w.st = "hydrate" /\ w.q \notin loops[l].tracked
        /\ HydrationFails(l, [cvr EXCEPT !.version = EnsureNewVersion(w.config, @)], loops[l].tracked)
        /\ UNCHANGED service

FetchedFails(l) ==
    LET w == loops[l].work
        cvr == loops[l].cvr
        v == EnsureNewVersion(w.config, cvr.version)
    IN  /\ w.st = "hydrate" /\ w.q \notin loops[l].tracked
        /\ HydrationFails(l, [cvr EXCEPT !.version = v, !.got[w.q] = IF @ = 0 THEN v ELSE @],
                          loops[l].tracked \cup {w.q})
        /\ IF Direct(w.q)
           THEN /\ IsFirst(service, w.q) /\ Result(w.q, replica.rows) # {}
                /\ service' = FailedDesire(service, w.c, w.q)
           ELSE UNCHANGED service

-----------------------------------------------------------------------------
LoopStep(l) ==
    \/ Attach(l) \/ Detach(l) \/ DesireUnattached(l) \/ Desire(l)
    \/ \E q \in Queries : AdvanceForPut(l, q) \/ SkipPut(l, q)
    \/ Rewire(l) \/ Hydrate(l) \/ FlushDesire(l)
    \/ SkipCommit(l) \/ ProcessCommit(l) \/ FlushCommit(l)
    \/ LoopEnds(l)

Next ==
    \/ \E w \in Writes : Commit(w)
    \/ \E c \in Clients : Resolve(c) \/ Leave(c)
    \/ \E s \in Sessions : Join(s) \/ GiveUp(s)
    \/ \E s \in Sessions, broken \in BOOLEAN : Notice(s, broken)
    \/ \E s \in Sessions, patch \in Patches : Message(s, patch)
    \/ \E l \in Loops : LoopStep(l) \/ FlushFails(l) \/ FetchFails(l) \/ FetchedFails(l)
    \/ \E l \in Loops, q \in Queries : AddQueryFails(l, q)
    \/ \E l \in Loops, done \in SUBSET Queries : AdvanceFails(l, done)

Spec == Init /\ [][Next]_vars

-----------------------------------------------------------------------------
(***************************************************************************)
(* Whatever sockets a client has left behind, the pokes that reach it on   *)
(* the one it is on follow on from the cookie it has, and no client has a  *)
(* cookie beyond the durable CVR.                                          *)
(***************************************************************************)
PokesFollowOn ==
    \A c \in Clients : ~client[c].broken /\ client[c].cookie <= durable.version

(***************************************************************************)
(* A connection that attached after all earlier ones of its client stays   *)
(* the one the loop pokes, until it detaches itself: the end of an old     *)
(* socket, noticed late, does not freeze the client.                       *)
(***************************************************************************)
Latest(c, s) ==
    \A t \in Sessions :
        (t < s /\ sess[t].c = c) =>
            /\ sess[t].st \notin {"setup", "attach"}
            /\ sess[t].loop = sess[s].loop => sess[t].gen < sess[s].gen

StaysAttached ==
    \A c \in Clients :
        (cur[c] # 0 /\ sess[cur[c]].st \in {"open", "wait"} /\ Latest(c, cur[c])) =>
            LET conns == loops[sess[cur[c]].loop].conns
            IN  c \in DOMAIN conns /\ conns[c].s = cur[c]

(***************************************************************************)
(* The shared driver runs exactly the queries that have a desirer, but for *)
(* those whose first registration failed after its desire was counted, and *)
(* a desirer is a client attached to a loop: however connections come, go  *)
(* and overlap, no query is left running for nobody, nor dropped while     *)
(* somebody is counted for it.                                             *)
(***************************************************************************)
PipelinesAreDesired ==
    service.live =>
        /\ DOMAIN service.driver.pipes = {q \in Queries : service.desirers[q] # {}} \ service.unbuilt
        /\ \A q \in Queries : \A c \in service.desirers[q] :
              \E l \in Loops : loops[l].st = "run" /\ c \in DOMAIN loops[l].conns

(***************************************************************************)
(* A client and a loop that have nothing left to do for it.                *)
(***************************************************************************)
Quiet(c) ==
    /\ cur[c] # 0
    /\ sess[cur[c]].st = "open" /\ sess[cur[c]].ready
    /\ LET l == sess[cur[c]].loop
       IN  /\ loops[l].work = Idle /\ loops[l].queue = <<>> /\ ~loops[l].notified
           /\ c \in Served(l)

(***************************************************************************)
(* A client for which nothing is left to do holds, of the rows the loop    *)
(* has not lost track of, what the replica has of those that its own       *)
(* queries return, where they run, and of those it was ever sent; and      *)
(* every acknowledged mutation.                                            *)
(***************************************************************************)
Returned(qs) == UNION {Result(q, replica.rows) : q \in qs \cap DOMAIN service.driver.pipes}

ViewIsCurrent ==
    \A c \in {x \in Clients : Quiet(x)} :
        LET held == client[c]
        IN  /\ ~failed => held.lmids = replica.lmids
            /\ \A r \in {x \in Rows : trust[c][x] # "astray"} :
                  LET fresh  == trust[c][r] = "fresh"
                      wanted == r \in Returned(IF fresh THEN Queries ELSE sess[cur[c]].puts)
                  IN  /\ wanted => r \in DOMAIN held.rows /\ held.rows[r] = replica.rows[r]
                      /\ fresh /\ ~wanted => r \notin DOMAIN held.rows

(***************************************************************************)
(* On a single node no compare-and-swap on the durable CVR loses: the      *)
(* version a transition starts from is the one Postgres has.               *)
(***************************************************************************)
CasCannotLose ==
    \A l \in {x \in Loops : loops[x].st = "run"} :
        loops[l].work # Idle => loops[l].work.before.version = durable.version
=============================================================================
