------------------------ MODULE LiveConnectionProofs ------------------------
(* Proofs about LiveConnection, for every value of its constants.          *)
EXTENDS LiveConnection, GroupTransitionProofs, TLAPS

(***************************************************************************)
(* The shape of the state: the fields of the records and the types of      *)
(* those that the properties depend on.                                    *)
(***************************************************************************)
ConnFields ==
    {"st", "header", "notified", "version", "delivery", "tracked", "bodies", "driver", "pending"}

StageFields ==
    {"st", "kind", "c", "patch", "attempt", "before", "config", "newly", "todo", "q", "cvr",
     "patches", "hydration"}

FlushFields ==
    {"st", "kind", "c", "patch", "attempt", "before", "cvr", "pokes", "delivery", "touched"}

Trusts == {"unknown", "fresh", "astray"}

PatchOK(patch) == patch.puts \subseteq Queries /\ patch.dels \subseteq Queries

ConnOK(k) ==
    /\ DOMAIN k = ConnFields
    /\ k.st \in {"off", "await", "open", "closing"}
    /\ k.version \in Nat
    /\ DeliveryOK(k.delivery)
    /\ k.tracked \subseteq Queries \ Untransformed
    /\ DOMAIN k.bodies \subseteq Rows
    /\ DriverOK(k.driver)

Notices(k) ==
    /\ k.notified \in BOOLEAN
    /\ k.notified => k.st \in {"await", "open"}

(***************************************************************************)
(* A transition that is being staged, and one whose flush is under way.    *)
(***************************************************************************)
StageOK(w) ==
    /\ DOMAIN w = StageFields
    /\ w.c \in Clients /\ w.kind = "desire" /\ PatchOK(w.patch)
    /\ w.before \in Nat /\ w.config \in Nat
    /\ w.todo \subseteq Queries
    /\ w.st = "hydrate" => w.q \in Queries \ Untransformed
    /\ w.cvr \in Cvrs

FlushOK(w) ==
    /\ DOMAIN w = FlushFields
    /\ w.c \in Clients /\ w.kind \in {"desire", "rehydrate"} /\ PatchOK(w.patch)
    /\ w.before \in Nat
    /\ w.cvr \in Cvrs
    /\ DeliveryOK(w.delivery)

WorkOK(w) ==
    \/ w = Idle
    \/ w.st \in {"put", "hydrate"} /\ StageOK(w)
    \/ w.st \in {"flush", "retry"} /\ FlushOK(w)

LeftOK ==
    /\ {"clients", "patches"} \subseteq DOMAIN left
    /\ left.clients \subseteq Clients
    /\ \A patch \in left.patches : PatchOK(patch)

ShapeInv ==
    /\ replica.ver \in Nat
    /\ durable \in Cvrs
    /\ DOMAIN conn = Clients /\ \A c \in Clients : ConnOK(conn[c]) /\ Notices(conn[c])
    /\ WorkOK(work)
    /\ work # Idle => conn[work.c].st # "off"
    /\ trust \in [Clients -> [Rows -> Trusts]]
    /\ LeftOK

(***************************************************************************)
(* Frames on their way to a client that has cookie k, up to an error: each *)
(* poke starts where the one before it ends, and none goes beyond v.       *)
(***************************************************************************)
AllPokes(s) == \A i \in DOMAIN s : s[i] # Error

EndOf(s, k) == IF s = <<>> THEN k ELSE s[Len(s)].cookie

Frames(s, k, v) ==
    /\ IsSeq(s) /\ k \in Cookies /\ k <= v
    /\ \A i \in DOMAIN s : s[i] # Error => s[i].base \in Cookies /\ s[i].cookie \in Cookies
    /\ \A i \in DOMAIN s :
          (\A j \in 1..i : s[j] # Error) =>
              /\ s[i].base = IF i = 1 THEN k ELSE s[i - 1].cookie
              /\ s[i].base <= s[i].cookie
              /\ s[i].cookie <= v

(***************************************************************************)
(* The cookie the client will have when they have come, and the delivery   *)
(* state that the next poke to it is built on: that of a transition whose  *)
(* flush may still be lost is the one it began with.                       *)
(***************************************************************************)
Sent(c) == EndOf(down[c], client[c].cookie)

Clean(c) == AllPokes(down[c])

Flushing(c) == work.st \in {"flush", "retry"} /\ work.c = c

At(c) == IF Flushing(c) THEN work.delivery ELSE conn[c].delivery

FramesInv ==
    /\ DOMAIN down = Clients /\ DOMAIN client = Clients
    /\ \A c \in Clients :
          /\ Frames(down[c], client[c].cookie, durable.version)
          /\ conn[c].st = "off" => down[c] = <<>>

Delivers(c) == conn[c].st # "off" /\ Clean(c) => BaseCookie(At(c)) = Sent(c)

DeliveriesInv == \A c \in Clients : Delivers(c)

(***************************************************************************)
(* What a transition has staged is not beyond the version of its CVR; when *)
(* it has hydrated nothing, its CVR can go back to the version of the      *)
(* configuration.                                                          *)
(***************************************************************************)
StagedInv ==
    work.st \in {"put", "hydrate"} =>
        /\ work.before <= work.config
        /\ work.config <= work.cvr.version
        /\ Stamped(work.patches, work.config)
        /\ Stamped(work.hydration, work.cvr.version)
        /\ GotBy(work.cvr, work.cvr.version)
        /\ IsEmpty(work.hydration) => GotBy(work.cvr, work.before)
        /\ conn[work.c].pending = NoPatches

(***************************************************************************)
(* A transition whose flush is under way has no poke to send, an error, or *)
(* a poke that leads from the delivery state it began with to that of the  *)
(* connection.                                                             *)
(***************************************************************************)
FlushInv ==
    work.st \in {"flush", "retry"} =>
        /\ work.before <= work.cvr.version
        /\ GotBy(work.cvr, work.cvr.version)
        /\ \/ work.pokes = <<>> /\ BaseCookie(conn[work.c].delivery) = BaseCookie(work.delivery)
           \/ work.pokes = <<Error>>
           \/ \E poke : work.pokes = <<poke>> 
                         /\ PokeOf(poke, work.delivery, conn[work.c].delivery, work.cvr.version)

(***************************************************************************)
(* Nothing is sent to a client from the moment its transition reads the    *)
(* durable CVR to its end.                                                 *)
(***************************************************************************)
LockInv ==
    work # Idle =>
        /\ work.before <= durable.version
        /\ Clean(work.c) => Sent(work.c) <= work.before

(***************************************************************************)
(* A hydration that has been kept for later belongs to a version that is   *)
(* durable once it may be sent, and not behind what has been sent.         *)
(***************************************************************************)
Keeps(c) ==
    ~IsEmpty(conn[c].pending) =>
        /\ Stamped(conn[c].pending, conn[c].version)
        /\ Flushing(c) => conn[c].version = work.cvr.version /\ work.kind = "desire"
        /\ Free(c) /\ conn[c].st = "open" => conn[c].version <= durable.version
        /\ Free(c) /\ conn[c].st = "open" /\ Clean(c) => Sent(c) <= conn[c].version

PendingInv == \A c \in Clients : Keeps(c)

ConnectionInv ==
    /\ ShapeInv
    /\ GotBy(durable, durable.version)
    /\ FramesInv
    /\ DeliveriesInv
    /\ StagedInv
    /\ FlushInv
    /\ LockInv
    /\ PendingInv

LEMMA ShapeMeansType == ShapeInv => TypeOK
  <1> SUFFICES ASSUME ShapeInv PROVE TypeOK
    OBVIOUS
  <1>1. \A c \in Clients : conn[c].notified \in BOOLEAN
    BY Zenon DEF ShapeInv, Notices
  <1>2. ASSUME NEW c \in Clients
        PROVE  /\ conn[c].st \in {"off", "await", "open", "closing"}
               /\ conn[c].tracked \subseteq Queries \ Untransformed
               /\ DOMAIN conn[c].bodies \subseteq Rows
               /\ \A q \in DOMAIN conn[c].driver.pipes :
                     \A r \in DOMAIN conn[c].driver.pipes[q] :
                         /\ TableOf[r] \in {Root[q]} \cup Related[q]
                         /\ conn[c].driver.pipes[q][r].val # 0
               /\ conn[c].delivery.last >= NoCookie
    <2>1. ConnOK(conn[c])
      BY DEF ShapeInv
    <2> QED
      BY <2>1 DEF ConnOK, DriverOK, PipeOK, DeliveryOK, Cookies, NoCookie
  <1>3. work.st \in {"idle", "put", "hydrate", "flush", "retry"}
    BY DEF ShapeInv, WorkOK, Idle
  <1>4. /\ replica.ver \in Nat /\ durable.version \in Nat
        /\ durable.desired \in [Clients -> SUBSET Queries]
        /\ durable.refs \in [Rows -> SUBSET Queries]
        /\ trust \in [Clients -> [Rows -> {"unknown", "fresh", "astray"}]]
    BY DEF ShapeInv, Cvrs, Trusts
  <1> QED
    BY <1>1, <1>2, <1>3, <1>4, Zenon DEF TypeOK

-----------------------------------------------------------------------------
(* The history variable                                                    *)

LEMMA LearnedTyped ==
    ASSUME NEW t \in [Rows -> Trusts], NEW sent, NEW gone
    PROVE  Learned(t, sent, gone) \in [Rows -> Trusts]
  BY DEF Learned, Trusts

LEMMA TrustingTyped ==
    ASSUME trust \in [Clients -> [Rows -> Trusts]], NEW c \in Clients, NEW sent, NEW gone
    PROVE  /\ Trusting(c, sent, gone) \in [Clients -> [Rows -> Trusts]]
           /\ Astray(c, gone) \in [Clients -> [Rows -> Trusts]]
  <1>1. trust[c] \in [Rows -> Trusts]
    OBVIOUS
  <1>2. Learned(trust[c], sent, gone) \in [Rows -> Trusts] /\ Learned(trust[c], {}, gone) \in [Rows -> Trusts]
    BY <1>1, LearnedTyped
  <1> QED
    BY <1>2 DEF Trusting, Astray

-----------------------------------------------------------------------------
(* What a step does to the connections, field by field                     *)

OnlyConn(c, changed) ==
    /\ DOMAIN conn' = Clients
    /\ \A x \in Clients \ {c} : conn'[x] = conn[x]
    /\ DOMAIN conn'[c] = ConnFields
    /\ \A f \in ConnFields \ changed : conn'[c][f] = conn[c][f]

LEMMA StartDesireEffect ==
    ASSUME ShapeInv, NEW c \in Clients, NEW patch, NEW attempt, NEW delivery,
           StartDesire(c, patch, attempt, delivery)
    PROVE  /\ OnlyConn(c, {"st", "delivery", "tracked", "pending"})
           /\ conn'[c].st = "open" /\ conn'[c].delivery = delivery
           /\ conn'[c].tracked \subseteq conn[c].tracked /\ conn'[c].pending = NoPatches
  <1>1. PICK k : k = conn[c] /\ DOMAIN k = ConnFields
    BY DEF ShapeInv, ConnOK
  <1>2. PICK t : t = k.tracked \cap durable.desired[c]
    OBVIOUS
  <1>3. conn' = [conn EXCEPT ![c] = [[k EXCEPT !.tracked = t, !.pending = NoPatches]
                                        EXCEPT !.st = "open", !.delivery = delivery]]
    BY <1>1, <1>2 DEF StartDesire, Refreshed
  <1>4. DOMAIN conn = Clients
    BY DEF ShapeInv
  <1> QED
    BY <1>1, <1>2, <1>3, <1>4 DEF OnlyConn, ConnFields

LEMMA StartRehydrateEffect ==
    ASSUME ShapeInv, NEW c \in Clients, NEW attempt, NEW delivery,
           StartRehydrate(c, attempt, delivery)
    PROVE  LET d == conn[c].driver
               v == durable.version + 1
               a == Advance(d, TheHead, DOMAIN d.pipes)
               p == ChangePatches(durable, a.changes, v)
               b == BuildPoke(delivery, p, v, replica.lmids)
           IN  /\ OnlyConn(c, {"notified", "delivery", "tracked", "bodies", "driver", "pending"})
               /\ conn'[c].notified = FALSE /\ conn'[c].delivery = b.delivery
               /\ conn'[c].tracked \subseteq conn[c].tracked /\ conn'[c].pending = NoPatches
               /\ conn'[c].driver = a.driver /\ conn'[c].bodies = Bodies(conn[c].bodies, p.rows)
  <1> DEFINE d == conn[c].driver
             v == durable.version + 1
             a == Advance(d, TheHead, DOMAIN d.pipes)
             p == ChangePatches(durable, a.changes, v)
             b == BuildPoke(delivery, p, v, replica.lmids)
  <1>1. PICK k : k = conn[c] /\ DOMAIN k = ConnFields
    BY DEF ShapeInv, ConnOK
  <1>2. PICK t, dl, dr, bs : /\ t = k.tracked \cap durable.desired[c] /\ dl = b.delivery
                             /\ dr = a.driver /\ bs = Bodies(k.bodies, p.rows)
    OBVIOUS
  <1>3. conn' = [conn EXCEPT ![c] = [[k EXCEPT !.tracked = t, !.pending = NoPatches]
                                        EXCEPT !.notified = FALSE, !.delivery = dl, !.driver = dr,
                                               !.bodies = bs]]
    <2>1. conn' = [conn EXCEPT ![c] = [Refreshed(c) EXCEPT !.notified = FALSE,
                                          !.delivery = b.delivery, !.driver = a.driver,
                                          !.bodies = Bodies(@, p.rows)]]
      BY DEF StartRehydrate
    <2>2. Refreshed(c) = [k EXCEPT !.tracked = t, !.pending = NoPatches]
      BY <1>1, <1>2 DEF Refreshed
    <2>3. Refreshed(c).bodies = k.bodies
      BY <1>1, <2>2 DEF ConnFields
    <2> HIDE DEF a, b, p
    <2> QED
      BY <1>2, <2>1, <2>2, <2>3
  <1>4. DOMAIN conn = Clients
    BY DEF ShapeInv
  <1>5. /\ OnlyConn(c, {"notified", "delivery", "tracked", "bodies", "driver", "pending"})
        /\ conn'[c].notified = FALSE /\ conn'[c].delivery = dl
        /\ conn'[c].tracked = t /\ conn'[c].pending = NoPatches
        /\ conn'[c].driver = dr /\ conn'[c].bodies = bs
    <2> HIDE DEF a, b, p, d, v
    <2> QED
      BY <1>1, <1>3, <1>4, Zenon DEF OnlyConn, ConnFields
  <1> QED
    BY <1>1, <1>2, <1>5

LEMMA CommitEffect ==
    ASSUME ShapeInv, NEW w, Commit(w)
    PROVE  /\ DOMAIN conn' = Clients
           /\ \A c \in Clients : /\ DOMAIN conn'[c] = ConnFields
                                 /\ \A f \in ConnFields \ {"notified"} : conn'[c][f] = conn[c][f]
                                 /\ Notices(conn'[c])
  <1>1. conn' = [c \in Clients |->
                  [conn[c] EXCEPT !.notified = (@ \/ conn[c].st \in {"await", "open"})]]
    BY DEF Commit
  <1>2. DOMAIN conn' = Clients
    BY <1>1
  <1>3. ASSUME NEW c \in Clients
        PROVE  /\ DOMAIN conn'[c] = ConnFields
               /\ \A f \in ConnFields \ {"notified"} : conn'[c][f] = conn[c][f]
               /\ Notices(conn'[c])
    <2>1. PICK k : k = conn[c] /\ DOMAIN k = ConnFields /\ Notices(k)
      BY DEF ShapeInv, ConnOK
    <2>2. conn'[c] = [k EXCEPT !.notified = (k.notified \/ k.st \in {"await", "open"})]
      BY <1>1, <2>1
    <2>3. PICK n : n = (k.notified \/ k.st \in {"await", "open"})
      OBVIOUS
    <2>4. conn'[c] = [k EXCEPT !.notified = n]
      BY <2>2, <2>3, Zenon
    <2>5. n \in BOOLEAN /\ (n => k.st \in {"await", "open"})
      BY <2>1, <2>3, Zenon DEF Notices
    <2>6. /\ DOMAIN conn'[c] = ConnFields
          /\ \A f \in ConnFields \ {"notified"} : conn'[c][f] = conn[c][f]
          /\ conn'[c].notified = n /\ conn'[c].st = k.st
      BY <2>1, <2>4 DEF ConnFields
    <2>7. Notices(conn'[c])
      BY <2>5, <2>6, Zenon DEF Notices
    <2> QED
      BY <2>6, <2>7
  <1> QED
    BY <1>2, <1>3

LEMMA OfflineOK == ConnOK(Offline) /\ Notices(Offline) /\ Offline.st = "off" /\ Offline.pending = NoPatches
  <1>1. ConnOK(Offline)
    <2>1. DriverOK(NewDriver(Head0))
      BY FreshDriver
    <2>2. DeliveryOK(NewDelivery(NoCookie))
      BY DEF DeliveryOK, NewDelivery, Cookies, NoCookie
    <2> QED
      BY <2>1, <2>2 DEF ConnOK, Offline, ConnFields, Empty
  <1>2. Offline.notified = FALSE
    BY Zenon DEF Offline
  <1>3. Notices(Offline)
    BY <1>2, Zenon DEF Notices
  <1> QED
    BY <1>1, <1>3 DEF Offline

LEMMA ConnectEffect ==
    ASSUME ShapeInv, NEW c \in Clients, NEW header, Connect(c, header)
    PROVE  /\ DOMAIN conn' = Clients
           /\ \A x \in Clients \ {c} : conn'[x] = conn[x]
           /\ DOMAIN conn'[c] = ConnFields
           /\ \A f \in ConnFields \ {"st", "header", "delivery", "driver"} : conn'[c][f] = Offline[f]
           /\ conn'[c].st = "await" /\ conn'[c].delivery = NewDelivery(client[c].cookie)
           /\ conn'[c].driver = NewDriver(TheHead)
  <1>1. PICK k : k = Offline /\ DOMAIN k = ConnFields
    BY OfflineOK DEF ConnOK
  <1>2. PICK dl, dr : dl = NewDelivery(client[c].cookie) /\ dr = NewDriver(TheHead)
    OBVIOUS
  <1>3. conn' = [conn EXCEPT ![c] = [k EXCEPT !.st = "await", !.header = header,
                                              !.delivery = dl, !.driver = dr]]
    BY <1>1, <1>2 DEF Connect
  <1>4. DOMAIN conn = Clients
    BY DEF ShapeInv
  <1> QED
    BY <1>1, <1>2, <1>3, <1>4, Zenon DEF ConnFields

LEMMA AdvanceForPutEffect ==
    ASSUME ShapeInv, NEW q, AdvanceForPut(q), NEW c, c = work.c, c \in Clients
    PROVE  /\ OnlyConn(c, {"driver"})
           /\ conn'[c].driver = PreparePut(Advance(conn[c].driver, TheHead, DOMAIN conn[c].driver.pipes).driver,
                                           q, q \in conn[c].tracked)
  <1>1. PICK k : k = conn[c] /\ DOMAIN k = ConnFields
    BY DEF ShapeInv, ConnOK
  <1>2. PICK dr : dr = PreparePut(Advance(conn[c].driver, TheHead, DOMAIN conn[c].driver.pipes).driver,
                                  q, q \in conn[c].tracked)
    OBVIOUS
  <1>3. conn' = [conn EXCEPT ![c].driver = dr]
    BY <1>2, Zenon DEF AdvanceForPut
  <1>4. DOMAIN conn = Clients
    BY DEF ShapeInv
  <1>5. conn' = [conn EXCEPT ![c] = [k EXCEPT !.driver = dr]]
    BY <1>1, <1>3, <1>4
  <1> QED
    BY <1>1, <1>2, <1>4, <1>5, Zenon DEF OnlyConn, ConnFields

LEMMA HydrateEffect ==
    ASSUME ShapeInv, Hydrate, NEW c, c = work.c, c \in Clients
    PROVE  LET q == work.q
               d == conn[c].driver
               fetched == Fetch(q, replica.rows)
           IN  /\ OnlyConn(c, {"tracked", "bodies", "driver"})
               /\ conn'[c].tracked = conn[c].tracked \cup {q}
               /\ conn'[c].bodies = Bodies(conn[c].bodies, HydratedRows(work.cvr, q, fetched))
               /\ conn'[c].driver = IF Direct(q) THEN RegisterQuery(d, q, fetched) ELSE d
  <1> DEFINE q == work.q
             d == conn[c].driver
             fetched == Fetch(q, replica.rows)
             rows == HydratedRows(work.cvr, q, fetched)
  <1>1. PICK k : k = conn[c] /\ DOMAIN k = ConnFields
    BY DEF ShapeInv, ConnOK
  <1>2. PICK t, bs, dr : /\ t = k.tracked \cup {q} /\ bs = Bodies(k.bodies, rows)
                         /\ dr = IF Direct(q) THEN RegisterQuery(d, q, fetched) ELSE d
    OBVIOUS
  <1>3. conn' = [conn EXCEPT ![c].tracked = @ \cup {q}, ![c].bodies = Bodies(@, rows), ![c].driver = dr]
    BY <1>2, Zenon DEF Hydrate
  <1>4. DOMAIN conn = Clients
    BY DEF ShapeInv
  <1>5. conn' = [conn EXCEPT ![c] = [k EXCEPT !.tracked = t, !.bodies = bs, !.driver = dr]]
    <2> HIDE DEF rows, fetched
    <2> QED
      BY <1>1, <1>2, <1>3, <1>4 DEF ConnFields
  <1> QED
    BY <1>1, <1>2, <1>4, <1>5, Zenon DEF OnlyConn, ConnFields

(***************************************************************************)
(* The poke that ends the staging of a transition: its patches, its        *)
(* version, and whether it tells everything.                               *)
(***************************************************************************)
Together == IsEmpty(work.patches) \/ IsEmpty(work.hydration)

StagedVersion ==
    IF IsEmpty(work.hydration) /\ ~IsEmpty(work.patches) THEN work.config ELSE work.cvr.version

ToldPatches == IF Together THEN Extend(work.patches, work.hydration) ELSE work.patches

LEMMA BuildEffect ==
    ASSUME ShapeInv, Build, NEW c, c = work.c, c \in Clients
    PROVE  LET b == BuildPoke(conn[c].delivery, ToldPatches, StagedVersion, replica.lmids)
           IN  /\ OnlyConn(c, {"delivery", "driver", "version", "pending"})
               /\ conn'[c].delivery = b.delivery /\ conn'[c].version = StagedVersion
               /\ conn'[c].driver = [conn[c].driver EXCEPT !.pipes = Without(@, work.patch.dels)]
               /\ conn'[c].pending = IF Together THEN NoPatches ELSE work.hydration
               /\ work' = [st |-> "flush", kind |-> "desire", c |-> c, patch |-> work.patch,
                           attempt |-> work.attempt, before |-> work.before,
                           cvr |-> [work.cvr EXCEPT !.version = StagedVersion],
                           pokes |-> b.pokes, delivery |-> conn[c].delivery,
                           touched |-> DOMAIN work.hydration.rows]
  <1> DEFINE b == BuildPoke(conn[c].delivery, ToldPatches, StagedVersion, replica.lmids)
  <1>a. DOMAIN conn[c] = ConnFields /\ DOMAIN conn[c].driver = {"at", "pipes"}
    BY DEF ShapeInv, ConnOK, DriverOK
  <1>1. PICK k, d : k = conn[c] /\ DOMAIN k = ConnFields /\ d = k.driver /\ DOMAIN d = {"at", "pipes"}
    BY <1>a, Zenon
  <1>2. PICK dl, v, pd, ps : /\ dl = b.delivery /\ v = StagedVersion
                             /\ pd = IF Together THEN NoPatches ELSE work.hydration
                             /\ ps = Without(d.pipes, work.patch.dels)
    OBVIOUS
  <1>3. /\ conn' = [conn EXCEPT ![c].delivery = dl, ![c].driver.pipes = Without(@, work.patch.dels),
                                ![c].version = v, ![c].pending = pd]
        /\ work' = [st |-> "flush", kind |-> "desire", c |-> c, patch |-> work.patch,
                    attempt |-> work.attempt, before |-> work.before,
                    cvr |-> [work.cvr EXCEPT !.version = StagedVersion],
                    pokes |-> b.pokes, delivery |-> conn[c].delivery,
                    touched |-> DOMAIN work.hydration.rows]
    BY <1>2, Zenon DEF Build, Together, StagedVersion, ToldPatches
  <1>4. DOMAIN conn = Clients
    BY DEF ShapeInv
  <1>5. conn' = [conn EXCEPT ![c] = [k EXCEPT !.delivery = dl, !.driver = [d EXCEPT !.pipes = ps],
                                              !.version = v, !.pending = pd]]
    <2> HIDE DEF b
    <2> QED
      BY <1>1, <1>2, <1>3, <1>4 DEF ConnFields
  <1>6. /\ OnlyConn(c, {"delivery", "driver", "version", "pending"})
        /\ conn'[c].delivery = dl /\ conn'[c].driver = [d EXCEPT !.pipes = ps]
        /\ conn'[c].version = v /\ conn'[c].pending = pd
    <2> HIDE DEF b
    <2> QED
      BY <1>1, <1>4, <1>5, Zenon DEF OnlyConn, ConnFields
  <1>7. [d EXCEPT !.pipes = ps] = [conn[c].driver EXCEPT !.pipes = Without(@, work.patch.dels)]
    BY <1>1, <1>2
  <1> QED
    BY <1>2, <1>3, <1>6, <1>7, Zenon

Closes == work.kind = "desire" /\ work.pokes = <<Error>>

Follows(c) == work.kind = "desire" /\ ~conn[c].header /\ ~IsEmpty(conn[c].pending)

LEMMA FlushEffect ==
    ASSUME ShapeInv, Flush, NEW c, c = work.c, c \in Clients
    PROVE  LET b == BuildPoke(conn[c].delivery, conn[c].pending, work.cvr.version, replica.lmids)
           IN  /\ OnlyConn(c, {"st", "notified", "header", "delivery", "pending"})
               /\ conn'[c].st = IF Closes THEN "closing" ELSE conn[c].st
               /\ conn'[c].notified = (conn[c].notified /\ ~Closes)
               /\ conn'[c].delivery = IF Follows(c) THEN b.delivery ELSE conn[c].delivery
               /\ conn'[c].pending = IF Follows(c) THEN NoPatches ELSE conn[c].pending
               /\ down' = [down EXCEPT ![c] = @ \o IF Follows(c) THEN work.pokes \o b.pokes ELSE work.pokes]
  <1> DEFINE b == BuildPoke(conn[c].delivery, conn[c].pending, work.cvr.version, replica.lmids)
  <1>1. PICK k : k = conn[c] /\ DOMAIN k = ConnFields
    BY DEF ShapeInv, ConnOK
  <1>2. PICK st, n, h, dl, pd : /\ st = IF Closes THEN "closing" ELSE k.st
                                /\ n = (k.notified /\ ~Closes)
                                /\ h = (k.header /\ work.kind = "rehydrate")
                                /\ dl = IF Follows(c) THEN b.delivery ELSE k.delivery
                                /\ pd = IF Follows(c) THEN NoPatches ELSE k.pending
    OBVIOUS
  <1>3. /\ conn' = [conn EXCEPT ![c].st = IF Closes THEN "closing" ELSE @,
                                ![c].notified = @ /\ ~Closes,
                                ![c].header = @ /\ work.kind = "rehydrate",
                                ![c].delivery = IF Follows(c) THEN b.delivery ELSE @,
                                ![c].pending = IF Follows(c) THEN NoPatches ELSE @]
        /\ down' = [down EXCEPT ![c] = @ \o IF Follows(c) THEN work.pokes \o b.pokes ELSE work.pokes]
    BY Zenon DEF Flush, Closes, Follows, Send
  <1>4. DOMAIN conn = Clients
    BY DEF ShapeInv
  <1>5. conn' = [conn EXCEPT ![c] = [k EXCEPT !.st = st, !.notified = n, !.header = h,
                                              !.delivery = dl, !.pending = pd]]
    <2> HIDE DEF b
    <2> QED
      BY <1>1, <1>2, <1>3, <1>4, Zenon DEF ConnFields
  <1>6. /\ OnlyConn(c, {"st", "notified", "header", "delivery", "pending"})
        /\ conn'[c].st = st /\ conn'[c].notified = n /\ conn'[c].delivery = dl /\ conn'[c].pending = pd
    <2> HIDE DEF b
    <2> QED
      BY <1>1, <1>4, <1>5, Zenon DEF OnlyConn, ConnFields
  <1> QED
    BY <1>1, <1>2, <1>3, <1>6, Zenon

LEMMA FailFlushEffect ==
    ASSUME ShapeInv, NEW c \in Clients, FailFlush(c)
    PROVE  /\ OnlyConn(c, {"st", "notified"})
           /\ conn'[c].st = IF work.kind = "desire" THEN "closing" ELSE conn[c].st
           /\ conn'[c].notified = (conn[c].notified /\ work.kind # "desire")
  <1>1. PICK k : k = conn[c] /\ DOMAIN k = ConnFields
    BY DEF ShapeInv, ConnOK
  <1>2. PICK st, n : st = (IF work.kind = "desire" THEN "closing" ELSE k.st)
                     /\ n = (k.notified /\ work.kind # "desire")
    OBVIOUS
  <1>3. conn' = [conn EXCEPT ![c].st = IF work.kind = "desire" THEN "closing" ELSE @,
                             ![c].notified = @ /\ work.kind # "desire"]
    BY Zenon DEF FailFlush
  <1>4. DOMAIN conn = Clients
    BY DEF ShapeInv
  <1>5. conn' = [conn EXCEPT ![c] = [k EXCEPT !.st = st, !.notified = n]]
    BY <1>1, <1>2, <1>3, <1>4, Zenon DEF ConnFields
  <1>6. OnlyConn(c, {"st", "notified"}) /\ conn'[c].st = st /\ conn'[c].notified = n
    BY <1>1, <1>4, <1>5, Zenon DEF OnlyConn, ConnFields
  <1> QED
    BY <1>1, <1>2, <1>6, Zenon

LEMMA OtherMessageEffect ==
    ASSUME ShapeInv, NEW c \in Clients, OtherMessage(c)
    PROVE  LET b == BuildPoke(conn[c].delivery, conn[c].pending, conn[c].version, replica.lmids)
           IN  /\ OnlyConn(c, {"delivery", "pending"})
               /\ conn'[c].delivery = b.delivery /\ conn'[c].pending = NoPatches
               /\ down' = [down EXCEPT ![c] = @ \o b.pokes]
  <1> DEFINE b == BuildPoke(conn[c].delivery, conn[c].pending, conn[c].version, replica.lmids)
  <1>1. PICK k : k = conn[c] /\ DOMAIN k = ConnFields
    BY DEF ShapeInv, ConnOK
  <1>2. PICK dl : dl = b.delivery
    OBVIOUS
  <1>3. /\ conn' = [conn EXCEPT ![c].delivery = dl, ![c].pending = NoPatches]
        /\ down' = [down EXCEPT ![c] = @ \o b.pokes]
    BY <1>2, Zenon DEF OtherMessage, Send
  <1>4. DOMAIN conn = Clients
    BY DEF ShapeInv
  <1>5. conn' = [conn EXCEPT ![c] = [k EXCEPT !.delivery = dl, !.pending = NoPatches]]
    <2> HIDE DEF b
    <2> QED
      BY <1>1, <1>3, <1>4 DEF ConnFields
  <1> QED
    BY <1>1, <1>2, <1>3, <1>4, <1>5, Zenon DEF OnlyConn, ConnFields

LEMMA AdvanceFailsEffect ==
    ASSUME ShapeInv, NEW done, AdvanceFails(done)
    PROVE  \E c \in Clients :
             LET a == Advance(conn[c].driver, TheHead, done \cap DOMAIN conn[c].driver.pipes)
             IN  /\ conn'[c].driver = a.driver /\ trust' = Astray(c, Rows)
                 /\ \/ /\ work.st = "put" /\ c = work.c
                       /\ OnlyConn(c, {"driver"})
                       /\ work' = [st |-> "flush", kind |-> "desire", c |-> c, patch |-> work.patch,
                                   attempt |-> work.attempt, before |-> work.before, cvr |-> work.cvr,
                                   pokes |-> <<Error>>, delivery |-> conn[c].delivery, touched |-> Rows]
                    \/ /\ work = Idle /\ conn[c].notified
                       /\ OnlyConn(c, {"notified", "driver", "tracked", "pending"})
                       /\ conn'[c].notified = FALSE
                       /\ conn'[c].tracked \subseteq conn[c].tracked /\ conn'[c].pending = NoPatches
                       /\ work' = [st |-> "flush", kind |-> "rehydrate", c |-> c,
                                   patch |-> [puts |-> {}, dels |-> {}], attempt |-> 1,
                                   before |-> durable.version,
                                   cvr |-> [durable EXCEPT !.version = @ + 1],
                                   pokes |-> <<Error>>, delivery |-> conn[c].delivery, touched |-> Rows]
  <1>0. DOMAIN conn = Clients
    BY DEF ShapeInv
  <1>1. CASE work.st = "put"
    <2>1. PICK c : c = work.c
      OBVIOUS
    <2>2. c \in Clients
      BY <1>1, <2>1 DEF ShapeInv, WorkOK, StageOK, Idle
    <2>3. PICK k : k = conn[c] /\ DOMAIN k = ConnFields
      BY <2>2 DEF ShapeInv, ConnOK
    <2>4. PICK dr : dr = Advance(conn[c].driver, TheHead, done \cap DOMAIN conn[c].driver.pipes).driver
      OBVIOUS
    <2>5. work # Idle
      BY <1>1 DEF Idle
    <2>6. /\ conn' = [conn EXCEPT ![c].driver = dr] /\ trust' = Astray(c, Rows)
          /\ work' = [st |-> "flush", kind |-> "desire", c |-> c, patch |-> work.patch,
                      attempt |-> work.attempt, before |-> work.before, cvr |-> work.cvr,
                      pokes |-> <<Error>>, delivery |-> conn[c].delivery, touched |-> Rows]
      BY <2>1, <2>4, <2>5, Zenon DEF AdvanceFails
    <2>7. conn' = [conn EXCEPT ![c] = [k EXCEPT !.driver = dr]]
      BY <1>0, <2>3, <2>6
    <2>8. OnlyConn(c, {"driver"}) /\ conn'[c].driver = dr
      BY <1>0, <2>2, <2>3, <2>7, Zenon DEF OnlyConn, ConnFields
    <2> QED
      BY <1>1, <2>1, <2>2, <2>4, <2>6, <2>8, Zenon
  <1>2. CASE work.st # "put"
    <2>1. PICK c \in Clients :
            /\ work = Idle /\ conn[c].notified
            /\ LET a == Advance(conn[c].driver, TheHead, done \cap DOMAIN conn[c].driver.pipes)
               IN  conn' = [conn EXCEPT ![c] = [Refreshed(c) EXCEPT !.notified = FALSE,
                                                                    !.driver = a.driver]]
            /\ work' = [st |-> "flush", kind |-> "rehydrate", c |-> c,
                        patch |-> [puts |-> {}, dels |-> {}], attempt |-> 1,
                        before |-> durable.version,
                        cvr |-> [durable EXCEPT !.version = @ + 1],
                        pokes |-> <<Error>>, delivery |-> conn[c].delivery, touched |-> Rows]
            /\ trust' = Astray(c, Rows)
      BY <1>2, Zenon DEF AdvanceFails
    <2>3. PICK k : k = conn[c] /\ DOMAIN k = ConnFields
      BY DEF ShapeInv, ConnOK
    <2>4. PICK dr, t : /\ dr = Advance(conn[c].driver, TheHead, done \cap DOMAIN conn[c].driver.pipes).driver
                       /\ t = k.tracked \cap durable.desired[c]
      OBVIOUS
    <2>5. conn' = [conn EXCEPT ![c] = [[k EXCEPT !.tracked = t, !.pending = NoPatches]
                                        EXCEPT !.notified = FALSE, !.driver = dr]]
      BY <2>1, <2>3, <2>4, Zenon DEF Refreshed
    <2>6. /\ OnlyConn(c, {"notified", "driver", "tracked", "pending"})
          /\ conn'[c].notified = FALSE /\ conn'[c].driver = dr
          /\ conn'[c].tracked = t /\ conn'[c].pending = NoPatches
      BY <1>0, <2>3, <2>5, Zenon DEF OnlyConn, ConnFields
    <2>7. conn'[c].tracked \subseteq conn[c].tracked
      BY <2>3, <2>4, <2>6
    <2> QED
      BY <2>1, <2>4, <2>6, <2>7, Zenon
  <1> QED
    BY <1>1, <1>2

-----------------------------------------------------------------------------
(* The shape of the state is kept                                          *)

LEMMA SpentLeft ==
    ASSUME LeftOK,
           \E what \in {"connects", "messages", "commits", "others", "failures"} : Spend(what)
    PROVE  LeftOK'
  BY DEF LeftOK, Spend

LEMMA ConnsStay ==
    ASSUME ShapeInv, NEW c \in Clients, NEW F, OnlyConn(c, F), ConnOK(conn'[c]), Notices(conn'[c])
    PROVE  DOMAIN conn' = Clients /\ \A x \in Clients : ConnOK(conn'[x]) /\ Notices(conn'[x])
  <1>1. DOMAIN conn' = Clients
    BY DEF OnlyConn
  <1>2. ASSUME NEW x \in Clients PROVE ConnOK(conn'[x]) /\ Notices(conn'[x])
    <2>1. CASE x = c
      BY <2>1
    <2>2. CASE x # c
      <3>1. conn'[x] = conn[x] /\ ConnOK(conn[x]) /\ Notices(conn[x])
        BY <2>2, Zenon DEF OnlyConn, ShapeInv
      <3> QED
        BY <3>1, Zenon
    <2> QED
      BY <2>1, <2>2
  <1> QED
    BY <1>1, <1>2

(***************************************************************************)
(* The connection whose transition it is stays in use.                     *)
(***************************************************************************)
LEMMA StartDesireShape ==
    ASSUME ShapeInv, NEW c \in Clients, NEW patch, PatchOK(patch), NEW attempt,
           NEW delivery, DeliveryOK(delivery), StartDesire(c, patch, attempt, delivery),
           UNCHANGED <<replica, durable>>, LeftOK'
    PROVE  ShapeInv'
  <1>1. /\ OnlyConn(c, {"st", "delivery", "tracked", "pending"})
        /\ conn'[c].st = "open" /\ conn'[c].delivery = delivery
        /\ conn'[c].tracked \subseteq conn[c].tracked /\ conn'[c].pending = NoPatches
    BY StartDesireEffect
  <1>2. ConnOK(conn[c]) /\ Notices(conn[c])
    BY DEF ShapeInv
  <1>3. ConnOK(conn'[c])
    BY <1>1, <1>2 DEF ConnOK, OnlyConn, ConnFields
  <1>4. Notices(conn'[c])
    <2>1. conn'[c]["notified"] = conn[c]["notified"]
      BY <1>1 DEF OnlyConn, ConnFields
    <2> QED
      BY <1>1, <1>2, <2>1, Zenon DEF Notices
  <1>5. DOMAIN conn' = Clients /\ \A x \in Clients : ConnOK(conn'[x]) /\ Notices(conn'[x])
    BY <1>1, <1>3, <1>4, ConnsStay
  <1>6. durable \in Cvrs
    BY DEF ShapeInv
  <1>7. /\ ApplyDesired(durable, c, patch) \in Cvrs
        /\ ConfigVersion(durable, c, patch) \in Nat /\ durable.version \in Nat
    BY <1>6, DesiredApplied DEF Cvrs
  <1>8. work'.st = "put" /\ StageOK(work') /\ work'.c = c
    BY <1>7 DEF StartDesire, StageOK, StageFields, PatchOK
  <1>9. work' # Idle /\ WorkOK(work')
    BY <1>8 DEF WorkOK, Idle
  <1>10. trust' \in [Clients -> [Rows -> Trusts]]
    <2>1. trust \in [Clients -> [Rows -> Trusts]] /\ trust' = Astray(c, Forgotten(c))
      BY DEF ShapeInv, StartDesire
    <2> QED
      BY <2>1, TrustingTyped
  <1>11. replica'.ver \in Nat /\ durable' \in Cvrs
    BY DEF ShapeInv
  <1> QED
    BY <1>1, <1>5, <1>8, <1>9, <1>10, <1>11 DEF ShapeInv

LEMMA StartRehydrateShape ==
    ASSUME ShapeInv, NEW c \in Clients, conn[c].st # "off", NEW attempt,
           NEW delivery, DeliveryOK(delivery), StartRehydrate(c, attempt, delivery),
           UNCHANGED <<replica, durable>>, LeftOK'
    PROVE  ShapeInv'
  <1> DEFINE d == conn[c].driver
             v == durable.version + 1
             a == Advance(d, TheHead, DOMAIN d.pipes)
             p == ChangePatches(durable, a.changes, v)
             b == BuildPoke(delivery, p, v, replica.lmids)
  <1>1. /\ OnlyConn(c, {"notified", "delivery", "tracked", "bodies", "driver", "pending"})
        /\ conn'[c].notified = FALSE /\ conn'[c].delivery = b.delivery
        /\ conn'[c].tracked \subseteq conn[c].tracked /\ conn'[c].pending = NoPatches
        /\ conn'[c].driver = a.driver /\ conn'[c].bodies = Bodies(conn[c].bodies, p.rows)
    BY StartRehydrateEffect, Zenon
  <1>2. ConnOK(conn[c]) /\ durable \in Cvrs
    BY DEF ShapeInv
  <1>3. v \in Nat
    BY <1>2 DEF Cvrs
  <1>4. DriverOK(a.driver) /\ ChangesOK(a.changes)
    <2>1. DriverOK(d)
      BY <1>2 DEF ConnOK
    <2> QED
      BY <2>1, AdvancedDriver
  <1>5. DOMAIN p.rows \subseteq Rows /\ Stamped(p, v)
    BY <1>3, <1>4, ChangePatchKeys
  <1>6. DeliveryOK(b.delivery)
    <2> HIDE DEF p, v
    <2> QED
      BY <1>3, <1>5, BuildsPoke
  <1>7. ConnOK(conn'[c])
    <2>1. DOMAIN Bodies(conn[c].bodies, p.rows) \subseteq Rows
      BY <1>2, <1>5, BodiesOfRows DEF ConnOK
    <2> HIDE DEF a, p, b
    <2> QED
      BY <1>1, <1>2, <1>4, <1>6, <2>1 DEF ConnOK, OnlyConn, ConnFields
  <1>8. Notices(conn'[c])
    BY <1>1, Zenon DEF Notices
  <1>9. DOMAIN conn' = Clients /\ \A x \in Clients : ConnOK(conn'[x]) /\ Notices(conn'[x])
    BY <1>1, <1>7, <1>8, ConnsStay
  <1>10. RefsAfter(durable, a.changes) \in [Rows -> SUBSET Queries]
    BY <1>2, <1>4, RefsTyped
  <1>11. [durable EXCEPT !.version = v, !.refs = RefsAfter(durable, a.changes)] \in Cvrs
    BY <1>2, <1>3, <1>10 DEF Cvrs
  <1>12. /\ work' = [st |-> "flush", kind |-> "rehydrate", c |-> c,
                     patch |-> [puts |-> {}, dels |-> {}],
                     attempt |-> attempt, before |-> durable.version,
                     cvr |-> [durable EXCEPT !.version = v, !.refs = RefsAfter(durable, a.changes)],
                     pokes |-> b.pokes, delivery |-> delivery, touched |-> DOMAIN p.rows]
         /\ trust' = Trusting(c, DOMAIN p.rows,
                              Forgotten(c) \cup HeldByOthers(durable, a.changes, d))
    BY DEF StartRehydrate
  <1>13. work'.st = "flush" /\ FlushOK(work') /\ work'.c = c
    <2>1. durable.version \in Nat
      BY <1>2 DEF Cvrs
    <2> HIDE DEF a, b, p, v
    <2> QED
      BY <1>11, <1>12, <2>1 DEF FlushOK, FlushFields, PatchOK
  <1>14. work' # Idle /\ WorkOK(work')
    BY <1>13 DEF WorkOK, Idle
  <1>15. trust' \in [Clients -> [Rows -> Trusts]]
    <2>1. trust \in [Clients -> [Rows -> Trusts]]
      BY DEF ShapeInv
    <2> HIDE DEF a, p
    <2> QED
      BY <1>12, <2>1, TrustingTyped
  <1>16. replica'.ver \in Nat /\ durable' \in Cvrs
    BY DEF ShapeInv
  <1>17. conn'[c].st # "off"
    BY <1>1 DEF OnlyConn, ConnFields
  <1> QED
    BY <1>9, <1>13, <1>14, <1>15, <1>16, <1>17, Zenon DEF ShapeInv

LEMMA WorkTyped ==
    ASSUME ShapeInv
    PROVE  /\ work # Idle => work.c \in Clients
           /\ work.st \in {"put", "hydrate"} => work # Idle /\ StageOK(work)
           /\ work.st \in {"flush", "retry"} => work # Idle /\ FlushOK(work)
  BY DEF ShapeInv, WorkOK, StageOK, FlushOK, Idle

LEMMA CommitShape ==
    ASSUME ShapeInv, NEW w, Commit(w)
    PROVE  ShapeInv'
  <1>1. /\ DOMAIN conn' = Clients
        /\ \A c \in Clients : /\ DOMAIN conn'[c] = ConnFields
                              /\ \A f \in ConnFields \ {"notified"} : conn'[c][f] = conn[c][f]
                              /\ Notices(conn'[c])
    BY CommitEffect
  <1>2. ASSUME NEW c \in Clients PROVE ConnOK(conn'[c]) /\ conn'[c].st = conn[c].st
    <2>1. ConnOK(conn[c])
      BY DEF ShapeInv
    <2> QED
      BY <1>1, <2>1 DEF ConnOK, ConnFields
  <1>3. replica'.ver \in Nat
    BY DEF Commit, ShapeInv
  <1>4. LeftOK'
    BY SpentLeft DEF Commit, ShapeInv
  <1>5. work # Idle => conn'[work.c].st # "off"
    BY <1>2, WorkTyped DEF ShapeInv
  <1> QED
    BY <1>1, <1>2, <1>3, <1>4, <1>5 DEF ShapeInv, Commit

LEMMA ConnectShape ==
    ASSUME ShapeInv, NEW c \in Clients, client[c].cookie \in Cookies, NEW header, Connect(c, header)
    PROVE  ShapeInv'
  <1>1. /\ DOMAIN conn' = Clients
        /\ \A x \in Clients \ {c} : conn'[x] = conn[x]
        /\ DOMAIN conn'[c] = ConnFields
        /\ \A f \in ConnFields \ {"st", "header", "delivery", "driver"} : conn'[c][f] = Offline[f]
        /\ conn'[c].st = "await" /\ conn'[c].delivery = NewDelivery(client[c].cookie)
        /\ conn'[c].driver = NewDriver(TheHead)
    BY ConnectEffect
  <1>2. ConnOK(Offline) /\ Notices(Offline)
    BY OfflineOK
  <1>3. DriverOK(NewDriver(TheHead))
    BY FreshDriver
  <1>4. DeliveryOK(NewDelivery(client[c].cookie))
    BY DEF DeliveryOK, NewDelivery, Cookies, NoCookie
  <1>5. ConnOK(conn'[c])
    BY <1>1, <1>2, <1>3, <1>4 DEF ConnOK, ConnFields
  <1>6. Notices(conn'[c])
    <2>1. conn'[c]["notified"] = Offline["notified"]
      BY <1>1 DEF ConnFields
    <2> QED
      BY <1>1, <1>2, <2>1, Zenon DEF Notices
  <1>7. \A x \in Clients : ConnOK(conn'[x]) /\ Notices(conn'[x])
    <2>1. \A x \in Clients \ {c} : ConnOK(conn[x]) /\ Notices(conn[x])
      BY DEF ShapeInv
    <2> QED
      BY <1>1, <1>5, <1>6, <2>1, Zenon
  <1>8. LeftOK'
    BY SpentLeft DEF Connect, ShapeInv
  <1>9. trust' \in [Clients -> [Rows -> Trusts]]
    BY DEF Connect, ShapeInv, Trusts
  <1>10. work # Idle => conn'[work.c].st # "off"
    BY <1>1, WorkTyped DEF ShapeInv
  <1> QED
    BY <1>1, <1>7, <1>8, <1>9, <1>10 DEF ShapeInv, Connect

LEMMA DisconnectShape ==
    ASSUME ShapeInv, NEW c \in Clients, Disconnect(c)
    PROVE  ShapeInv'
  <1>1. conn' = [conn EXCEPT ![c] = Offline] /\ DOMAIN conn = Clients
    BY DEF Disconnect, ShapeInv
  <1>2. \A x \in Clients : ConnOK(conn'[x]) /\ Notices(conn'[x])
    <2>1. \A x \in Clients : ConnOK(conn[x]) /\ Notices(conn[x])
      BY DEF ShapeInv
    <2> QED
      BY <1>1, <2>1, OfflineOK, Zenon
  <1>3. DOMAIN conn' = Clients
    BY <1>1
  <1>4. work # Idle => conn'[work.c].st # "off"
    BY <1>1, WorkTyped DEF ShapeInv, Disconnect, Free
  <1> QED
    BY <1>2, <1>3, <1>4 DEF ShapeInv, Disconnect, LeftOK

LEMMA AdvanceForPutShape ==
    ASSUME ShapeInv, NEW q \in Queries, AdvanceForPut(q)
    PROVE  ShapeInv'
  <1>1. PICK c \in Clients : c = work.c /\ work # Idle /\ StageOK(work)
    BY WorkTyped DEF AdvanceForPut
  <1> DEFINE a == Advance(conn[c].driver, TheHead, DOMAIN conn[c].driver.pipes)
  <1>2. /\ OnlyConn(c, {"driver"})
        /\ conn'[c].driver = PreparePut(a.driver, q, q \in conn[c].tracked)
    BY <1>1, AdvanceForPutEffect
  <1>3. ConnOK(conn[c]) /\ Notices(conn[c]) /\ conn[c].st # "off"
    BY <1>1 DEF ShapeInv
  <1>4. DriverOK(conn'[c].driver)
    <2>1. DriverOK(a.driver)
      BY <1>3, AdvancedDriver DEF ConnOK
    <2>2. PICK e, ex : e = a.driver /\ ex = (q \in conn[c].tracked)
      OBVIOUS
    <2>3. DriverOK(PreparePut(e, q, ex))
      BY <2>1, <2>2, PreparedDriver
    <2> HIDE DEF a
    <2> QED
      BY <1>2, <2>2, <2>3
  <1> HIDE DEF a
  <1>5. ConnOK(conn'[c]) /\ conn'[c].st # "off"
    BY <1>2, <1>3, <1>4 DEF ConnOK, OnlyConn, ConnFields
  <1>6. Notices(conn'[c])
    <2>1. conn'[c]["notified"] = conn[c]["notified"] /\ conn'[c]["st"] = conn[c]["st"]
      BY <1>2 DEF OnlyConn, ConnFields
    <2> QED
      BY <1>3, <2>1, Zenon DEF Notices
  <1>7. DOMAIN conn' = Clients /\ \A x \in Clients : ConnOK(conn'[x]) /\ Notices(conn'[x])
    BY <1>2, <1>5, <1>6, ConnsStay
  <1>8. work'.st = "hydrate" /\ StageOK(work') /\ work'.c = c
    BY <1>1 DEF AdvanceForPut, StageOK, StageFields
  <1>9. work' # Idle /\ WorkOK(work')
    BY <1>8 DEF WorkOK, Idle
  <1>10. trust' \in [Clients -> [Rows -> Trusts]]
    <2>1. trust \in [Clients -> [Rows -> Trusts]]
      BY DEF ShapeInv
    <2>2. PICK lost : trust' = Astray(c, lost)
      BY <1>1 DEF AdvanceForPut
    <2> QED
      BY <2>1, <2>2, TrustingTyped
  <1> QED
    BY <1>5, <1>7, <1>8, <1>9, <1>10 DEF ShapeInv, AdvanceForPut, LeftOK

LEMMA SkipPutShape ==
    ASSUME ShapeInv, NEW q, SkipPut(q)
    PROVE  ShapeInv'
  <1>1. work # Idle /\ StageOK(work) /\ work.st = "put"
    BY WorkTyped DEF SkipPut
  <1>2. work'.st = "put" /\ StageOK(work') /\ work'.c = work.c
    BY <1>1 DEF SkipPut, StageOK, StageFields
  <1>3. work' # Idle /\ WorkOK(work')
    BY <1>2 DEF WorkOK, Idle
  <1> QED
    BY <1>1, <1>2, <1>3 DEF ShapeInv, SkipPut, LeftOK

LEMMA RewireShape ==
    ASSUME ShapeInv, Rewire
    PROVE  ShapeInv'
  <1>1. work # Idle /\ StageOK(work)
    BY WorkTyped DEF Rewire
  <1>2. PICK h : work' = [work EXCEPT !.st = "put", !.q = None, !.hydration = h]
    BY DEF Rewire
  <1>3. work'.st = "put" /\ StageOK(work') /\ work'.c = work.c
    BY <1>1, <1>2 DEF StageOK, StageFields
  <1>4. work' # Idle /\ WorkOK(work')
    BY <1>3 DEF WorkOK, Idle
  <1> QED
    BY <1>1, <1>3, <1>4 DEF ShapeInv, Rewire, LeftOK

LEMMA HydrateShape ==
    ASSUME ShapeInv, Hydrate, StagedInv
    PROVE  ShapeInv'
  <1>1. PICK c \in Clients : c = work.c /\ work # Idle /\ StageOK(work)
    BY WorkTyped DEF Hydrate
  <1> DEFINE q == work.q
             fetched == Fetch(q, replica.rows)
             rows == HydratedRows(work.cvr, q, fetched)
             v == EnsureNewVersion(work.config, work.cvr.version)
  <1>2. /\ OnlyConn(c, {"tracked", "bodies", "driver"})
        /\ conn'[c].tracked = conn[c].tracked \cup {q}
        /\ conn'[c].bodies = Bodies(conn[c].bodies, rows)
        /\ conn'[c].driver = IF Direct(q) THEN RegisterQuery(conn[c].driver, q, fetched) ELSE conn[c].driver
    BY <1>1, HydrateEffect, Zenon
  <1>3. q \in Queries \ Untransformed /\ work.cvr \in Cvrs /\ work.config \in Nat
    BY <1>1 DEF Hydrate, StageOK
  <1>4. ConnOK(conn[c]) /\ Notices(conn[c]) /\ conn[c].st # "off"
    BY <1>1 DEF ShapeInv
  <1>5. PipeOK(q, fetched) /\ DOMAIN fetched \subseteq Rows
    BY <1>3, FetchedPipe DEF PipeOK
  <1>6. DriverOK(conn'[c].driver)
    <2>1. DriverOK(conn[c].driver)
      BY <1>4 DEF ConnOK
    <2>2. DriverOK(RegisterQuery(conn[c].driver, q, fetched))
      BY <1>3, <1>5, <2>1, RegisteredPipe
    <2> QED
      BY <1>2, <2>1, <2>2
  <1>7. DOMAIN conn'[c].bodies \subseteq Rows
    <2>1. DOMAIN rows \subseteq Rows
      BY <1>5, HydratedRowKeys
    <2>2. DOMAIN conn[c].bodies \subseteq Rows
      BY <1>4 DEF ConnOK
    <2> QED
      BY <1>2, <2>1, <2>2, BodiesOfRows
  <1> HIDE DEF q, rows, fetched
  <1>8. ConnOK(conn'[c]) /\ conn'[c].st # "off"
    BY <1>2, <1>3, <1>4, <1>6, <1>7 DEF ConnOK, OnlyConn, ConnFields
  <1>9. Notices(conn'[c])
    <2>1. conn'[c]["notified"] = conn[c]["notified"] /\ conn'[c]["st"] = conn[c]["st"]
      BY <1>2 DEF OnlyConn, ConnFields
    <2> QED
      BY <1>4, <2>1, Zenon DEF Notices
  <1>10. DOMAIN conn' = Clients /\ \A x \in Clients : ConnOK(conn'[x]) /\ Notices(conn'[x])
    BY <1>2, <1>8, <1>9, ConnsStay
  <1>11. PICK h : work' = [work EXCEPT !.st = "put", !.q = None,
                                       !.cvr = Hydrated(work.cvr, q, v, fetched), !.hydration = h]
    BY DEF Hydrate, q, fetched
  <1>12. v \in Nat
    <2>1. work.cvr.version \in Nat /\ work.config <= work.cvr.version
      BY <1>3 DEF Cvrs, StagedInv, Hydrate
    <2> QED
      BY <1>3, <2>1, NewVersion
  <1>13. Hydrated(work.cvr, q, v, fetched) \in Cvrs
    <2>1. PICK refs \in [Rows -> SUBSET Queries] : refs = HydratedRefs(work.cvr, q, fetched)
      BY <1>3, HydratedRefsTyped
    <2>2. PICK cvr \in Cvrs : cvr = work.cvr
      BY <1>3
    <2>3. [cvr EXCEPT !.version = v, !.got[q] = IF @ = 0 THEN v ELSE @, !.refs = refs] \in Cvrs
      <3> HIDE DEF v
      <3> QED
        BY <1>3, <1>12 DEF Cvrs
    <2> QED
      BY <2>1, <2>2, <2>3 DEF Hydrated
  <1>14. work'.st = "put" /\ StageOK(work') /\ work'.c = c
    <2> HIDE DEF v
    <2> QED
      BY <1>1, <1>11, <1>13 DEF StageOK, StageFields
  <1>15. work' # Idle /\ WorkOK(work')
    BY <1>14 DEF WorkOK, Idle
  <1>16. trust' \in [Clients -> [Rows -> Trusts]]
    <2>1. ASSUME NEW x \in Clients PROVE trust'[x] \in [Rows -> Trusts]
      <3>1. PICK sent, lost : trust'[x] = Learned(trust[x], sent, lost)
        BY DEF Hydrate
      <3>2. trust[x] \in [Rows -> Trusts]
        BY DEF ShapeInv
      <3> QED
        BY <3>1, <3>2, LearnedTyped
    <2>2. trust' = [x \in Clients |-> trust'[x]]
      BY DEF Hydrate
    <2> QED
      BY <2>1, <2>2
  <1> QED
    BY <1>8, <1>10, <1>14, <1>15, <1>16 DEF ShapeInv, Hydrate, LeftOK

LEMMA StagedFacts ==
    ASSUME ShapeInv, StagedInv, work.st = "put"
    PROVE  /\ StagedVersion \in Nat /\ work.before \in Nat /\ work.before <= StagedVersion
           /\ Stamped(ToldPatches, StagedVersion)
           /\ [work.cvr EXCEPT !.version = StagedVersion] \in Cvrs
           /\ GotBy([work.cvr EXCEPT !.version = StagedVersion], StagedVersion)
           /\ ~Together => Stamped(work.hydration, StagedVersion)
  <1>1. /\ StageOK(work) /\ work.before \in Nat /\ work.config \in Nat
        /\ work.cvr \in Cvrs /\ work.cvr.version \in Nat
    BY WorkTyped DEF StageOK, Cvrs
  <1>2. /\ work.before <= work.config
        /\ work.config <= work.cvr.version
        /\ Stamped(work.patches, work.config)
        /\ Stamped(work.hydration, work.cvr.version)
        /\ GotBy(work.cvr, work.cvr.version)
        /\ IsEmpty(work.hydration) => GotBy(work.cvr, work.before)
    BY DEF StagedInv
  <1>3. PICK v \in Nat : v = StagedVersion /\ work.before <= v /\ work.config <= v /\ v <= work.cvr.version
    BY <1>1, <1>2 DEF StagedVersion
  <1>4. Stamped(work.patches, v)
    BY <1>1, <1>2, <1>3, StampedLater
  <1>5. Stamped(work.hydration, v)
    <2>1. CASE IsEmpty(work.hydration)
      BY <1>1, <1>2, <2>1, StampedEmpty
    <2>2. CASE ~IsEmpty(work.hydration)
      BY <1>2, <1>3, <2>2 DEF StagedVersion
    <2> QED
      BY <2>1, <2>2
  <1>6. Stamped(ToldPatches, v)
    BY <1>4, <1>5, StampedExtend DEF ToldPatches
  <1>7. GotBy(work.cvr, v)
    <2>1. CASE IsEmpty(work.hydration)
      BY <1>1, <1>2, <1>3, <2>1, GotLater
    <2>2. CASE ~IsEmpty(work.hydration)
      BY <1>2, <1>3, <2>2 DEF StagedVersion
    <2> QED
      BY <2>1, <2>2
  <1>8. [work.cvr EXCEPT !.version = v] \in Cvrs /\ GotBy([work.cvr EXCEPT !.version = v], v)
    BY <1>1, <1>7 DEF GotBy, Cvrs
  <1> QED
    BY <1>1, <1>3, <1>5, <1>6, <1>8

LEMMA BuildShape ==
    ASSUME ShapeInv, StagedInv, Build
    PROVE  ShapeInv'
  <1>1. PICK c \in Clients : c = work.c /\ work # Idle /\ StageOK(work) /\ work.st = "put"
    BY WorkTyped DEF Build
  <1> DEFINE b == BuildPoke(conn[c].delivery, ToldPatches, StagedVersion, replica.lmids)
  <1>2. /\ OnlyConn(c, {"delivery", "driver", "version", "pending"})
        /\ conn'[c].delivery = b.delivery /\ conn'[c].version = StagedVersion
        /\ conn'[c].driver = [conn[c].driver EXCEPT !.pipes = Without(@, work.patch.dels)]
        /\ work' = [st |-> "flush", kind |-> "desire", c |-> c, patch |-> work.patch,
                    attempt |-> work.attempt, before |-> work.before,
                    cvr |-> [work.cvr EXCEPT !.version = StagedVersion],
                    pokes |-> b.pokes, delivery |-> conn[c].delivery,
                    touched |-> DOMAIN work.hydration.rows]
    BY <1>1, BuildEffect, Zenon
  <1>3. ConnOK(conn[c]) /\ Notices(conn[c]) /\ conn[c].st # "off"
    BY <1>1 DEF ShapeInv
  <1>4. /\ StagedVersion \in Nat /\ Stamped(ToldPatches, StagedVersion)
        /\ [work.cvr EXCEPT !.version = StagedVersion] \in Cvrs
    BY <1>1, StagedFacts
  <1>5. DeliveryOK(b.delivery) /\ DeliveryOK(conn[c].delivery)
    BY <1>3, <1>4, BuildsPoke DEF ConnOK
  <1>6. DriverOK(conn'[c].driver)
    <2>1. PICK d : d = conn[c].driver /\ DriverOK(d)
      BY <1>3 DEF ConnOK
    <2> QED
      BY <1>2, <2>1, FewerPipes
  <1> HIDE DEF b
  <1>7. ConnOK(conn'[c]) /\ conn'[c].st # "off"
    BY <1>2, <1>3, <1>4, <1>5, <1>6 DEF ConnOK, OnlyConn, ConnFields
  <1>8. Notices(conn'[c])
    <2>1. conn'[c]["notified"] = conn[c]["notified"] /\ conn'[c]["st"] = conn[c]["st"]
      BY <1>2 DEF OnlyConn, ConnFields
    <2> QED
      BY <1>3, <2>1, Zenon DEF Notices
  <1>9. DOMAIN conn' = Clients /\ \A x \in Clients : ConnOK(conn'[x]) /\ Notices(conn'[x])
    BY <1>2, <1>7, <1>8, ConnsStay
  <1>10. work'.st = "flush" /\ FlushOK(work') /\ work'.c = c
    BY <1>1, <1>2, <1>4, <1>5 DEF StageOK, FlushOK, FlushFields
  <1>11. work' # Idle /\ WorkOK(work')
    BY <1>10 DEF WorkOK, Idle
  <1>12. trust' \in [Clients -> [Rows -> Trusts]]
    <2>1. trust \in [Clients -> [Rows -> Trusts]]
      BY DEF ShapeInv
    <2>2. PICK lost : trust' = Astray(c, lost)
      BY <1>1 DEF Build
    <2> QED
      BY <2>1, <2>2, TrustingTyped
  <1> QED
    BY <1>7, <1>9, <1>10, <1>11, <1>12 DEF ShapeInv, Build, LeftOK

LEMMA PendingStamped ==
    ASSUME PendingInv, NEW c \in Clients, ~IsEmpty(conn[c].pending)
    PROVE  Stamped(conn[c].pending, conn[c].version)
  BY DEF PendingInv, Keeps

LEMMA FlushShape ==
    ASSUME ShapeInv, PendingInv, Flush
    PROVE  ShapeInv'
  <1>1. PICK c \in Clients : c = work.c /\ work # Idle /\ FlushOK(work) /\ work.st = "flush"
    BY WorkTyped DEF Flush
  <1> DEFINE b == BuildPoke(conn[c].delivery, conn[c].pending, work.cvr.version, replica.lmids)
  <1>2. /\ OnlyConn(c, {"st", "notified", "header", "delivery", "pending"})
        /\ conn'[c].st = IF Closes THEN "closing" ELSE conn[c].st
        /\ conn'[c].notified = (conn[c].notified /\ ~Closes)
        /\ conn'[c].delivery = IF Follows(c) THEN b.delivery ELSE conn[c].delivery
    BY <1>1, FlushEffect, Zenon
  <1>3. ConnOK(conn[c]) /\ Notices(conn[c])
    BY <1>1 DEF ShapeInv
  <1>4. DeliveryOK(conn[c].delivery) /\ work.cvr \in Cvrs /\ work.cvr.version \in Nat
    BY <1>1, <1>3 DEF ConnOK, FlushOK, Cvrs
  <1>5. Follows(c) => DeliveryOK(b.delivery)
    <2> SUFFICES ASSUME Follows(c) PROVE DeliveryOK(b.delivery)
      OBVIOUS
    <2>1. ~IsEmpty(conn[c].pending)
      BY DEF Follows
    <2>2. Stamped(conn[c].pending, conn[c].version) /\ conn[c].version = work.cvr.version
      BY <1>1, <2>1 DEF PendingInv, Keeps, Flushing
    <2>3. Stamped(conn[c].pending, work.cvr.version)
      BY <2>2
    <2> QED
      BY <1>4, <2>3, BuildsPoke
  <1> HIDE DEF b
  <1>6. DeliveryOK(conn'[c].delivery)
    BY <1>2, <1>4, <1>5
  <1>7. ConnOK(conn'[c])
    BY <1>2, <1>3, <1>6 DEF ConnOK, OnlyConn, ConnFields
  <1>8. Notices(conn'[c])
    BY <1>2, <1>3, Zenon DEF Notices
  <1>9. DOMAIN conn' = Clients /\ \A x \in Clients : ConnOK(conn'[x]) /\ Notices(conn'[x])
    BY <1>2, <1>7, <1>8, ConnsStay
  <1>10. work' = Idle /\ durable' = work.cvr
    BY DEF Flush
  <1> QED
    BY <1>4, <1>9, <1>10 DEF ShapeInv, Flush, LeftOK, WorkOK

LEMMA FailFlushShape ==
    ASSUME ShapeInv, NEW c \in Clients, FailFlush(c), LeftOK'
    PROVE  ShapeInv'
  <1>1. /\ OnlyConn(c, {"st", "notified"})
        /\ conn'[c].st = IF work.kind = "desire" THEN "closing" ELSE conn[c].st
        /\ conn'[c].notified = (conn[c].notified /\ work.kind # "desire")
    BY FailFlushEffect, Zenon
  <1>2. ConnOK(conn[c]) /\ Notices(conn[c])
    BY DEF ShapeInv
  <1>3. ConnOK(conn'[c])
    BY <1>1, <1>2 DEF ConnOK, OnlyConn, ConnFields
  <1>4. Notices(conn'[c])
    BY <1>1, <1>2, Zenon DEF Notices
  <1>5. DOMAIN conn' = Clients /\ \A x \in Clients : ConnOK(conn'[x]) /\ Notices(conn'[x])
    BY <1>1, <1>3, <1>4, ConnsStay
  <1>6. trust' \in [Clients -> [Rows -> Trusts]]
    BY TrustingTyped DEF FailFlush, ShapeInv
  <1> QED
    BY <1>5, <1>6 DEF ShapeInv, FailFlush, WorkOK

LEMMA RetryShape ==
    ASSUME ShapeInv, Retry
    PROVE  ShapeInv'
  <1>1. work # Idle /\ FlushOK(work) /\ work.c \in Clients
    BY WorkTyped DEF Retry
  <1>2. work'.st = "retry" /\ FlushOK(work') /\ work'.c = work.c
    BY <1>1 DEF Retry, FlushOK, FlushFields
  <1>3. work' # Idle /\ WorkOK(work')
    BY <1>2 DEF WorkOK, Idle
  <1>4. trust' \in [Clients -> [Rows -> Trusts]]
    BY <1>1, TrustingTyped DEF Retry, ShapeInv
  <1> QED
    BY <1>1, <1>2, <1>3, <1>4 DEF ShapeInv, Retry, LeftOK

LEMMA AdvanceFailsShape ==
    ASSUME ShapeInv, NEW done, AdvanceFails(done)
    PROVE  ShapeInv'
  <1>0. LeftOK' /\ replica'.ver \in Nat /\ durable' \in Cvrs /\ durable \in Cvrs
    BY SpentLeft DEF AdvanceFails, ShapeInv
  <1>1. PICK c \in Clients :
          LET a == Advance(conn[c].driver, TheHead, done \cap DOMAIN conn[c].driver.pipes)
          IN  /\ conn'[c].driver = a.driver /\ trust' = Astray(c, Rows)
              /\ \/ /\ work.st = "put" /\ c = work.c
                    /\ OnlyConn(c, {"driver"})
                    /\ work' = [st |-> "flush", kind |-> "desire", c |-> c, patch |-> work.patch,
                                attempt |-> work.attempt, before |-> work.before, cvr |-> work.cvr,
                                pokes |-> <<Error>>, delivery |-> conn[c].delivery, touched |-> Rows]
                 \/ /\ work = Idle /\ conn[c].notified
                    /\ OnlyConn(c, {"notified", "driver", "tracked", "pending"})
                    /\ conn'[c].notified = FALSE
                    /\ conn'[c].tracked \subseteq conn[c].tracked /\ conn'[c].pending = NoPatches
                    /\ work' = [st |-> "flush", kind |-> "rehydrate", c |-> c,
                                patch |-> [puts |-> {}, dels |-> {}], attempt |-> 1,
                                before |-> durable.version,
                                cvr |-> [durable EXCEPT !.version = @ + 1],
                                pokes |-> <<Error>>, delivery |-> conn[c].delivery, touched |-> Rows]
    BY AdvanceFailsEffect, Zenon
  <1>2. ConnOK(conn[c]) /\ Notices(conn[c])
    BY DEF ShapeInv
  <1>3. DriverOK(conn'[c].driver)
    <2>1. DriverOK(conn[c].driver) /\ done \cap DOMAIN conn[c].driver.pipes \subseteq DOMAIN conn[c].driver.pipes
      BY <1>2 DEF ConnOK
    <2> QED
      BY <1>1, <2>1, AdvancedDriver
  <1>4. trust' \in [Clients -> [Rows -> Trusts]]
    BY <1>1, TrustingTyped DEF ShapeInv
  <1>5. CASE work.st = "put"
    <2>1. work # Idle /\ StageOK(work)
      BY <1>5, WorkTyped
    <2>2. /\ c = work.c /\ OnlyConn(c, {"driver"})
          /\ work' = [st |-> "flush", kind |-> "desire", c |-> c, patch |-> work.patch,
                      attempt |-> work.attempt, before |-> work.before, cvr |-> work.cvr,
                      pokes |-> <<Error>>, delivery |-> conn[c].delivery, touched |-> Rows]
      BY <1>1, <2>1, Zenon
    <2>3. ConnOK(conn'[c]) /\ conn'[c].st = conn[c].st
      BY <1>2, <1>3, <2>2 DEF ConnOK, OnlyConn, ConnFields
    <2>4. Notices(conn'[c])
      <3>1. conn'[c]["notified"] = conn[c]["notified"] /\ conn'[c]["st"] = conn[c]["st"]
        BY <2>2 DEF OnlyConn, ConnFields
      <3> QED
        BY <1>2, <3>1, Zenon DEF Notices
    <2>5. DOMAIN conn' = Clients /\ \A x \in Clients : ConnOK(conn'[x]) /\ Notices(conn'[x])
      BY <2>2, <2>3, <2>4, ConnsStay
    <2>6. work'.st = "flush" /\ FlushOK(work') /\ work'.c = c
      BY <1>2, <2>1, <2>2 DEF FlushOK, FlushFields, StageOK, ConnOK
    <2>7. work' # Idle /\ WorkOK(work')
      BY <2>6 DEF WorkOK, Idle
    <2>8. conn[c].st # "off"
      BY <2>1, <2>2 DEF ShapeInv
    <2> QED
      BY <1>0, <1>4, <2>3, <2>5, <2>6, <2>7, <2>8 DEF ShapeInv
  <1>6. CASE work.st # "put"
    <2>2. /\ OnlyConn(c, {"notified", "driver", "tracked", "pending"})
          /\ conn[c].notified /\ conn'[c].notified = FALSE
          /\ conn'[c].tracked \subseteq conn[c].tracked
          /\ work' = [st |-> "flush", kind |-> "rehydrate", c |-> c,
                      patch |-> [puts |-> {}, dels |-> {}], attempt |-> 1,
                      before |-> durable.version,
                      cvr |-> [durable EXCEPT !.version = @ + 1],
                      pokes |-> <<Error>>, delivery |-> conn[c].delivery, touched |-> Rows]
      BY <1>1, <1>6, Zenon
    <2>3. ConnOK(conn'[c]) /\ conn'[c].st = conn[c].st
      BY <1>2, <1>3, <2>2 DEF ConnOK, OnlyConn, ConnFields
    <2>4. Notices(conn'[c])
      BY <2>2, Zenon DEF Notices
    <2>5. DOMAIN conn' = Clients /\ \A x \in Clients : ConnOK(conn'[x]) /\ Notices(conn'[x])
      BY <2>2, <2>3, <2>4, ConnsStay
    <2>6. work'.st = "flush" /\ FlushOK(work') /\ work'.c = c
      <3>1. [durable EXCEPT !.version = @ + 1] \in Cvrs /\ durable.version \in Nat
        BY <1>0 DEF Cvrs
      <3> QED
        BY <1>2, <2>2, <3>1 DEF FlushOK, FlushFields, ConnOK, PatchOK
    <2>7. work' # Idle /\ WorkOK(work')
      BY <2>6 DEF WorkOK, Idle
    <2>8. conn[c].st # "off"
      <3>1. conn[c].st \in {"await", "open"}
        BY <1>2, <2>2, Zenon DEF Notices
      <3> QED
        BY <3>1
    <2> QED
      BY <1>0, <1>4, <2>3, <2>5, <2>6, <2>7, <2>8 DEF ShapeInv
  <1> QED
    BY <1>5, <1>6

LEMMA OtherMessageShape ==
    ASSUME ShapeInv, PendingInv, NEW c \in Clients, OtherMessage(c)
    PROVE  ShapeInv'
  <1> DEFINE b == BuildPoke(conn[c].delivery, conn[c].pending, conn[c].version, replica.lmids)
  <1>1. OnlyConn(c, {"delivery", "pending"}) /\ conn'[c].delivery = b.delivery
    BY OtherMessageEffect, Zenon
  <1>2. ConnOK(conn[c]) /\ Notices(conn[c])
    BY DEF ShapeInv
  <1>3. DeliveryOK(b.delivery)
    <2>1. Stamped(conn[c].pending, conn[c].version)
      BY PendingStamped DEF OtherMessage
    <2>2. conn[c].version \in Nat /\ DeliveryOK(conn[c].delivery)
      BY <1>2 DEF ConnOK
    <2> QED
      BY <2>1, <2>2, BuildsPoke
  <1> HIDE DEF b
  <1>4. ConnOK(conn'[c]) /\ conn'[c].st = conn[c].st
    BY <1>1, <1>2, <1>3 DEF ConnOK, OnlyConn, ConnFields
  <1>5. Notices(conn'[c])
    <2>1. conn'[c]["notified"] = conn[c]["notified"] /\ conn'[c]["st"] = conn[c]["st"]
      BY <1>1 DEF OnlyConn, ConnFields
    <2> QED
      BY <1>2, <2>1, Zenon DEF Notices
  <1>6. DOMAIN conn' = Clients /\ \A x \in Clients : ConnOK(conn'[x]) /\ Notices(conn'[x])
    BY <1>1, <1>4, <1>5, ConnsStay
  <1>7. work # Idle => conn'[work.c].st # "off"
    <2>1. work # Idle => work.c \in Clients /\ conn[work.c].st # "off" /\ work.c # c
      BY WorkTyped DEF ShapeInv, OtherMessage, Free
    <2> QED
      BY <1>1, <2>1 DEF OnlyConn
  <1> QED
    BY <1>6, <1>7 DEF ShapeInv, OtherMessage, LeftOK

-----------------------------------------------------------------------------
(* Frames                                                                  *)

LEMMA FrameIndices ==
    ASSUME NEW s, IsSeq(s)
    PROVE  Len(s) \in Nat /\ DOMAIN s = 1..Len(s) /\ (s = <<>> <=> Len(s) = 0)
  BY DEF IsSeq

LEMMA EndOfFrames ==
    ASSUME NEW s, NEW k, NEW v \in Nat, Frames(s, k, v), AllPokes(s)
    PROVE  EndOf(s, k) \in Cookies /\ EndOf(s, k) <= v
  <1>1. Len(s) \in Nat /\ DOMAIN s = 1..Len(s) /\ (s = <<>> <=> Len(s) = 0)
    BY FrameIndices DEF Frames
  <1>2. CASE s = <<>>
    BY <1>2 DEF EndOf, Frames
  <1>3. CASE s # <<>>
    <2>1. Len(s) \in DOMAIN s /\ \A j \in 1..Len(s) : s[j] # Error
      BY <1>1, <1>3 DEF AllPokes
    <2> QED
      BY <1>3, <2>1 DEF EndOf, Frames
  <1> QED
    BY <1>2, <1>3

LEMMA LaterFrames ==
    ASSUME NEW s, NEW k, NEW v \in Nat, NEW u \in Nat, v <= u, Frames(s, k, v)
    PROVE  Frames(s, k, u)
  <1>1. Len(s) \in Nat /\ DOMAIN s = 1..Len(s)
    BY FrameIndices DEF Frames
  <1>2. k \in Cookies /\ k <= u
    BY DEF Frames, Cookies, NoCookie
  <1>3. ASSUME NEW i \in DOMAIN s, \A j \in 1..i : s[j] # Error
        PROVE  s[i].cookie <= u
    <2>1. s[i] # Error
      BY <1>1, <1>3
    <2>2. s[i].cookie \in Cookies /\ s[i].cookie <= v
      BY <1>3, <2>1 DEF Frames
    <2> QED
      BY <2>2 DEF Cookies, NoCookie
  <1> QED
    BY <1>2, <1>3 DEF Frames

LEMMA NoFrames ==
    ASSUME NEW k \in Cookies, NEW v \in Nat, k <= v
    PROVE  Frames(<<>>, k, v) /\ AllPokes(<<>>) /\ EndOf(<<>>, k) = k
  BY EmptyQueue DEF Frames, AllPokes, EndOf

(***************************************************************************)
(* A frame is added: a poke from where the frames end, or an error, after  *)
(* which the client applies nothing.                                       *)
(***************************************************************************)
LEMMA FrameAdded ==
    ASSUME NEW s, NEW k, NEW v \in Nat, Frames(s, k, v), NEW m,
           m # Error => m.base \in Cookies /\ m.cookie \in Cookies,
           AllPokes(s) /\ m # Error => m.base = EndOf(s, k) /\ m.base <= m.cookie /\ m.cookie <= v
    PROVE  LET t == s \o <<m>>
           IN  /\ Frames(t, k, v)
               /\ AllPokes(t) <=> AllPokes(s) /\ m # Error
               /\ EndOf(t, k) = m.cookie
  <1>1. PICK t : t = s \o <<m>>
    OBVIOUS
  <1>2. IsSeq(s)
    BY DEF Frames
  <1>3. PICK n \in Nat : n = Len(s)
    BY <1>2, FrameIndices
  <1>4. /\ IsSeq(t) /\ Len(t) = n + 1 /\ DOMAIN t = 1..(n + 1) /\ DOMAIN s = 1..n
        /\ \A i \in 1..n : t[i] = s[i]
        /\ t[n + 1] = m
    <2>1. t = Append(s, m) /\ DOMAIN s = 1..Len(s) /\ DOMAIN t = 1..(Len(s) + 1)
      BY <1>1, <1>2, ConcatOne
    <2>2. /\ IsSeq(t) /\ Len(t) = Len(s) + 1
          /\ \A i \in 1..Len(s) : t[i] = s[i]
          /\ t[Len(s) + 1] = m
      BY <1>2, <2>1, AppendFacts
    <2> QED
      BY <1>3, <2>1, <2>2
  <1>5. AllPokes(t) <=> AllPokes(s) /\ m # Error
    BY <1>4 DEF AllPokes
  <1>6. EndOf(t, k) = m.cookie
    <2>1. t # <<>>
      BY <1>4, FrameIndices
    <2> QED
      BY <1>4, <2>1 DEF EndOf
  <1>7. s = <<>> <=> n = 0
    BY <1>2, <1>3, FrameIndices
  <1>8. ASSUME NEW i \in DOMAIN t, t[i] # Error
        PROVE  t[i].base \in Cookies /\ t[i].cookie \in Cookies
    <2>1. CASE i \in 1..n
      BY <1>4, <1>8, <2>1 DEF Frames
    <2>2. CASE i = n + 1
      BY <1>4, <1>8, <2>2
    <2> QED
      BY <1>4, <2>1, <2>2
  <1>9. ASSUME NEW i \in DOMAIN t, \A j \in 1..i : t[j] # Error
        PROVE  /\ t[i].base = IF i = 1 THEN k ELSE t[i - 1].cookie
               /\ t[i].base <= t[i].cookie
               /\ t[i].cookie <= v
    <2>1. CASE i \in 1..n
      <3>1. \A j \in 1..i : s[j] # Error /\ t[j] = s[j]
        BY <1>4, <1>9, <2>1
      <3>2. /\ s[i].base = IF i = 1 THEN k ELSE s[i - 1].cookie
            /\ s[i].base <= s[i].cookie
            /\ s[i].cookie <= v
        BY <1>4, <2>1, <3>1 DEF Frames
      <3> QED
        BY <1>4, <2>1, <3>2
    <2>2. CASE i = n + 1
      <3>1. AllPokes(s) /\ m # Error
        BY <1>4, <1>9, <2>2 DEF AllPokes
      <3>2. m.base = EndOf(s, k) /\ m.base <= m.cookie /\ m.cookie <= v
        BY <3>1
      <3>3. EndOf(s, k) = IF i = 1 THEN k ELSE t[i - 1].cookie
        BY <1>3, <1>4, <1>7, <2>2 DEF EndOf
      <3> QED
        BY <1>4, <2>2, <3>2, <3>3
    <2> QED
      BY <1>4, <2>1, <2>2
  <1>10. k \in Cookies /\ k <= v
    BY DEF Frames
  <1>11. Frames(t, k, v)
    BY <1>4, <1>8, <1>9, <1>10 DEF Frames
  <1> QED
    BY <1>1, <1>5, <1>6, <1>11

LEMMA FrameApplied ==
    ASSUME NEW s, NEW k, NEW v \in Nat, Frames(s, k, v), s # <<>>, Head(s) # Error
    PROVE  /\ Frames(Tail(s), Head(s).cookie, v)
           /\ AllPokes(Tail(s)) <=> AllPokes(s)
           /\ EndOf(Tail(s), Head(s).cookie) = EndOf(s, k)
  <1>1. PICK t, m, n : t = Tail(s) /\ m = Head(s) /\ n = Len(s)
    OBVIOUS
  <1>2. IsSeq(s)
    BY DEF Frames
  <1>3. /\ n \in Nat /\ n >= 1 /\ m = s[1] /\ IsSeq(t) /\ Len(t) = n - 1
        /\ \A i \in 1..(n - 1) : t[i] = s[i + 1]
    BY <1>1, <1>2, TailFacts
  <1>4. DOMAIN s = 1..n /\ DOMAIN t = 1..(n - 1) /\ (t = <<>> <=> n = 1)
    <2>1. DOMAIN s = 1..n
      BY <1>1, <1>2, FrameIndices
    <2>2. DOMAIN t = 1..Len(t) /\ (t = <<>> <=> Len(t) = 0)
      BY <1>3, FrameIndices
    <2> QED
      BY <1>3, <2>1, <2>2
  <1>5. m # Error
    BY <1>1
  <1>6. AllPokes(t) <=> AllPokes(s)
    <2>1. ASSUME AllPokes(t), NEW i \in 1..n PROVE s[i] # Error
      <3>1. CASE i = 1
        BY <1>3, <1>5, <3>1
      <3>2. CASE i # 1
        <4>1. i - 1 \in 1..(n - 1) /\ (i - 1) + 1 = i
          BY <1>3, <3>2
        <4>2. t[i - 1] = s[i]
          BY <1>3, <4>1
        <4> QED
          BY <1>4, <2>1, <4>1, <4>2 DEF AllPokes
      <3> QED
        BY <3>1, <3>2
    <2>2. ASSUME AllPokes(s), NEW i \in 1..(n - 1) PROVE t[i] # Error
      BY <1>3, <1>4, <2>2 DEF AllPokes
    <2> QED
      BY <1>4, <2>1, <2>2 DEF AllPokes
  <1>7. EndOf(t, m.cookie) = EndOf(s, k)
    <2>1. EndOf(s, k) = s[n].cookie
      BY <1>1 DEF EndOf
    <2>2. CASE n = 1
      BY <1>3, <1>4, <2>1, <2>2 DEF EndOf
    <2>3. CASE n # 1
      <3>1. n - 1 \in 1..(n - 1) /\ (n - 1) + 1 = n
        BY <1>3, <2>3
      <3>2. t[n - 1] = s[n]
        BY <1>3, <3>1
      <3> QED
        BY <1>3, <1>4, <2>1, <2>3, <3>2 DEF EndOf
    <2> QED
      BY <2>2, <2>3
  <1>8. m.cookie \in Cookies /\ m.cookie <= v
    <2>1. 1 \in DOMAIN s /\ \A j \in 1..1 : s[j] # Error
      BY <1>3, <1>4, <1>5
    <2> QED
      BY <1>3, <2>1 DEF Frames
  <1>9. ASSUME NEW i \in DOMAIN t, t[i] # Error
        PROVE  t[i].base \in Cookies /\ t[i].cookie \in Cookies
    <2>1. i + 1 \in DOMAIN s /\ t[i] = s[i + 1]
      BY <1>3, <1>4
    <2> QED
      BY <1>9, <2>1 DEF Frames
  <1>10. ASSUME NEW i \in DOMAIN t, \A j \in 1..i : t[j] # Error
         PROVE  /\ t[i].base = IF i = 1 THEN m.cookie ELSE t[i - 1].cookie
                /\ t[i].base <= t[i].cookie
                /\ t[i].cookie <= v
    <2>0. i \in 1..(n - 1)
      BY <1>4
    <2>1. i + 1 \in DOMAIN s /\ t[i] = s[i + 1] /\ i + 1 # 1 /\ (i + 1) - 1 = i
      BY <1>3, <1>4, <2>0
    <2>2. ASSUME NEW j \in 1..(i + 1) PROVE s[j] # Error
      <3>1. CASE j = 1
        BY <1>3, <1>5, <3>1
      <3>2. CASE j # 1
        <4>1. j - 1 \in 1..i /\ j - 1 \in 1..(n - 1) /\ (j - 1) + 1 = j
          BY <2>0, <1>3, <3>2
        <4>2. t[j - 1] = s[j]
          BY <1>3, <4>1
        <4> QED
          BY <1>10, <4>1, <4>2
      <3> QED
        BY <3>1, <3>2
    <2>3. /\ s[i + 1].base = IF i + 1 = 1 THEN k ELSE s[(i + 1) - 1].cookie
          /\ s[i + 1].base <= s[i + 1].cookie
          /\ s[i + 1].cookie <= v
      BY <2>1, <2>2 DEF Frames
    <2>4. s[i] = IF i = 1 THEN m ELSE t[i - 1]
      <3>1. CASE i = 1
        BY <1>3, <3>1
      <3>2. CASE i # 1
        <4>1. i - 1 \in 1..(n - 1) /\ (i - 1) + 1 = i
          BY <1>3, <2>0, <3>2
        <4> QED
          BY <1>3, <3>2, <4>1
      <3> QED
        BY <3>1, <3>2
    <2> QED
      BY <2>1, <2>3, <2>4
  <1>11. Frames(t, m.cookie, v)
    BY <1>3, <1>8, <1>9, <1>10 DEF Frames
  <1> QED
    BY <1>1, <1>6, <1>7, <1>11

-----------------------------------------------------------------------------
(* Steps that send nothing                                                 *)

LEMMA SameFrames ==
    ASSUME FramesInv, UNCHANGED <<down, client, durable>>,
           \A c \in Clients : conn'[c].st = "off" => conn[c].st = "off"
    PROVE  /\ FramesInv'
           /\ \A c \in Clients : Sent(c)' = Sent(c) /\ (Clean(c)' <=> Clean(c))
  BY DEF FramesInv, Sent, Clean

LEMMA SentIsDurable ==
    ASSUME ShapeInv, FramesInv, NEW c \in Clients, Clean(c)
    PROVE  Sent(c) \in Cookies /\ Sent(c) <= durable.version
  <1>1. durable.version \in Nat
    BY DEF ShapeInv, Cvrs
  <1>2. Frames(down[c], client[c].cookie, durable.version)
    BY DEF FramesInv
  <1> QED
    BY <1>1, <1>2, EndOfFrames DEF Clean, Sent

SameConn(c) ==
    /\ conn'[c].st = conn[c].st /\ conn'[c].delivery = conn[c].delivery
    /\ conn'[c].version = conn[c].version /\ conn'[c].pending = conn[c].pending

LEMMA OneStays ==
    ASSUME NEW c \in Clients, UNCHANGED <<down, client, durable>>, SameConn(c),
           ~Flushing(c), ~Flushing(c)', Free(c), Delivers(c), Keeps(c)
    PROVE  Delivers(c)' /\ Keeps(c)'
  <1>1. Sent(c)' = Sent(c) /\ (Clean(c)' <=> Clean(c))
    BY DEF Sent, Clean
  <1>2. At(c)' = conn[c].delivery /\ At(c) = conn[c].delivery
    BY DEF At, SameConn
  <1>3. Delivers(c)'
    <2>1. BaseCookie(At(c))' = BaseCookie(At(c))
      BY <1>2 DEF BaseCookie
    <2> QED
      BY <1>1, <2>1 DEF Delivers, SameConn
  <1>4. Keeps(c)'
    <2> HIDE DEF Flushing
    <2> QED
      BY <1>1 DEF Keeps, SameConn
  <1> QED
    BY <1>3, <1>4

LEMMA OthersStay ==
    ASSUME DeliveriesInv, PendingInv, NEW c \in Clients, NEW F, OnlyConn(c, F),
           UNCHANGED <<down, client, durable>>,
           work = Idle \/ work.c = c, work' = Idle \/ work'.c = c
    PROVE  \A x \in Clients \ {c} : Delivers(x)' /\ Keeps(x)'
  <1> SUFFICES ASSUME NEW x \in Clients \ {c} PROVE Delivers(x)' /\ Keeps(x)'
    OBVIOUS
  <1>1. SameConn(x)
    BY DEF OnlyConn, SameConn
  <1>2. ~Flushing(x) /\ ~Flushing(x)' /\ Free(x)
    BY DEF Flushing, Free, Idle
  <1>3. Delivers(x) /\ Keeps(x)
    BY DEF DeliveriesInv, PendingInv
  <1> QED
    BY <1>1, <1>2, <1>3, OneStays

LEMMA StartDesireInv ==
    ASSUME ConnectionInv, NEW c \in Clients, NEW patch, PatchOK(patch), NEW attempt,
           NEW delivery, DeliveryOK(delivery), StartDesire(c, patch, attempt, delivery),
           UNCHANGED <<replica, durable, down, client>>, LeftOK',
           conn[c].st # "off", work = Idle \/ work.c = c,
           Clean(c) => BaseCookie(delivery) = Sent(c)
    PROVE  ConnectionInv'
  <1>0. /\ ShapeInv /\ GotBy(durable, durable.version) /\ FramesInv /\ DeliveriesInv /\ PendingInv
    BY DEF ConnectionInv
  <1>1. ShapeInv'
    BY <1>0, StartDesireShape
  <1>2. /\ OnlyConn(c, {"st", "delivery", "tracked", "pending"})
        /\ conn'[c].st = "open" /\ conn'[c].delivery = delivery
        /\ conn'[c].tracked \subseteq conn[c].tracked /\ conn'[c].pending = NoPatches
    BY <1>0, StartDesireEffect
  <1>3. /\ FramesInv'
        /\ \A x \in Clients : Sent(x)' = Sent(x) /\ (Clean(x)' <=> Clean(x))
    <2>1. \A x \in Clients : conn'[x].st = "off" => conn[x].st = "off"
      BY <1>2 DEF OnlyConn
    <2> QED
      BY <1>0, <2>1, SameFrames
  <1>4. PICK cvr, config, patches :
          /\ cvr = ApplyDesired(durable, c, patch) /\ config = ConfigVersion(durable, c, patch)
          /\ patches = IF ChangesConfig(durable, c, patch)
                       THEN [NoPatches EXCEPT !.config = {config}] ELSE NoPatches
    OBVIOUS
  <1>5. /\ work'.st = "put" /\ work'.c = c /\ work'.before = durable.version /\ work'.config = config
        /\ work'.cvr = cvr /\ work'.patches = patches /\ work'.hydration = NoPatches
    BY <1>4 DEF StartDesire
  <1>6. \A x \in Clients \ {c} : Delivers(x)' /\ Keeps(x)'
    BY <1>0, <1>2, <1>5, OthersStay
  <1>7. Delivers(c)'
    <2>1. At(c)' = delivery
      BY <1>2, <1>5 DEF At, Flushing
    <2> QED
      BY <1>3, <2>1 DEF Delivers, BaseCookie
  <1>8. Keeps(c)'
    BY <1>2, StampedNone DEF Keeps
  <1>9. /\ durable \in Cvrs /\ cvr \in Cvrs /\ cvr.got = durable.got /\ durable.version \in Nat
        /\ config \in Nat /\ durable.version <= config /\ config <= cvr.version /\ cvr.version \in Nat
    BY <1>0, <1>4, DesiredApplied DEF ShapeInv, Cvrs
  <1>10. StagedInv'
    <2>1. Stamped(patches, config) /\ Stamped(NoPatches, cvr.version)
      <3>1. Stamped([NoPatches EXCEPT !.config = {config}], config)
        BY <1>9 DEF Stamped, NoPatches, Empty
      <3> QED
        BY <1>4, <3>1, StampedNone
    <2>2. GotBy(cvr, durable.version) /\ GotBy(cvr, cvr.version)
      <3>1. GotBy(cvr, durable.version)
        BY <1>0, <1>9 DEF GotBy
      <3> QED
        BY <1>9, <3>1, GotLater
    <2> QED
      BY <1>2, <1>5, <1>9, <2>1, <2>2 DEF StagedInv
  <1>11. FlushInv'
    BY <1>5 DEF FlushInv
  <1>12. LockInv'
    <2>1. Clean(c) => Sent(c) <= durable.version
      BY <1>0, SentIsDurable
    <2> QED
      BY <1>3, <1>5, <1>9, <2>1 DEF LockInv
  <1>13. GotBy(durable, durable.version)'
    BY <1>0
  <1> QED
    BY <1>1, <1>3, <1>6, <1>7, <1>8, <1>10, <1>11, <1>12, <1>13
    DEF ConnectionInv, DeliveriesInv, PendingInv

LEMMA StartRehydrateInv ==
    ASSUME ConnectionInv, NEW c \in Clients, NEW attempt,
           NEW delivery, DeliveryOK(delivery), StartRehydrate(c, attempt, delivery),
           UNCHANGED <<replica, durable, down, client>>, LeftOK',
           conn[c].st # "off", work = Idle \/ work.c = c,
           Clean(c) => BaseCookie(delivery) = Sent(c)
    PROVE  ConnectionInv'
  <1> DEFINE d == conn[c].driver
             v == durable.version + 1
             a == Advance(d, TheHead, DOMAIN d.pipes)
             p == ChangePatches(durable, a.changes, v)
             b == BuildPoke(delivery, p, v, replica.lmids)
  <1>0. /\ ShapeInv /\ GotBy(durable, durable.version) /\ FramesInv /\ DeliveriesInv /\ PendingInv
    BY DEF ConnectionInv
  <1>1. ShapeInv'
    BY <1>0, StartRehydrateShape
  <1>2. /\ OnlyConn(c, {"notified", "delivery", "tracked", "bodies", "driver", "pending"})
        /\ conn'[c].delivery = b.delivery /\ conn'[c].pending = NoPatches
    BY <1>0, StartRehydrateEffect, Zenon
  <1>3. conn'[c].st = conn[c].st
    BY <1>2 DEF OnlyConn, ConnFields
  <1>4. /\ FramesInv'
        /\ \A x \in Clients : Sent(x)' = Sent(x) /\ (Clean(x)' <=> Clean(x))
    <2>1. \A x \in Clients : conn'[x].st = "off" => conn[x].st = "off"
      BY <1>2, <1>3 DEF OnlyConn
    <2> QED
      BY <1>0, <2>1, SameFrames
  <1>5. /\ durable \in Cvrs /\ durable.version \in Nat /\ v \in Nat /\ durable.version <= v
        /\ ConnOK(conn[c])
    BY <1>0 DEF ShapeInv, Cvrs
  <1>6. Stamped(p, v)
    <2>1. ChangesOK(a.changes)
      BY <1>5, AdvancedDriver DEF ConnOK
    <2> QED
      BY <1>5, <2>1, ChangePatchKeys
  <1>7. \/ b.pokes = <<>> /\ b.delivery = delivery
        \/ \E poke : b.pokes = <<poke>> /\ PokeOf(poke, delivery, b.delivery, v)
    <2> HIDE DEF p, v
    <2> QED
      BY <1>5, <1>6, BuildsPoke
  <1>8. PICK refs : refs = RefsAfter(durable, a.changes)
    OBVIOUS
  <1>9. /\ work'.st = "flush" /\ work'.c = c /\ work'.before = durable.version /\ work'.kind = "rehydrate"
        /\ work'.cvr = [durable EXCEPT !.version = v, !.refs = refs]
        /\ work'.pokes = b.pokes /\ work'.delivery = delivery
    BY <1>8 DEF StartRehydrate
  <1>10. work'.cvr.version = v /\ work'.cvr.got = durable.got
    BY <1>5, <1>9 DEF Cvrs
  <1> HIDE DEF a, b, p, v
  <1>11. \A x \in Clients \ {c} : Delivers(x)' /\ Keeps(x)'
    BY <1>0, <1>2, <1>9, OthersStay
  <1>12. Delivers(c)'
    <2>1. At(c)' = delivery
      BY <1>9 DEF At, Flushing
    <2> QED
      BY <1>4, <2>1 DEF Delivers, BaseCookie
  <1>13. Keeps(c)'
    BY <1>2, StampedNone DEF Keeps
  <1>14. StagedInv'
    BY <1>9 DEF StagedInv
  <1>15. FlushInv'
    <2>1. GotBy(durable, v)
      BY <1>0, <1>5, GotLater
    <2>2. GotBy(work.cvr, work.cvr.version)'
      BY <1>10, <2>1 DEF GotBy
    <2>3. \/ work'.pokes = <<>> /\ BaseCookie(conn[work.c].delivery)' = BaseCookie(work.delivery)'
          \/ \E poke : work'.pokes = <<poke>>
                        /\ PokeOf(poke, work.delivery, conn[work.c].delivery, work.cvr.version)'
      BY <1>2, <1>7, <1>9, <1>10 DEF PokeOf, BaseCookie
    <2> QED
      BY <1>5, <1>9, <1>10, <2>2, <2>3 DEF FlushInv
  <1>16. LockInv'
    <2>1. Clean(c) => Sent(c) <= durable.version
      BY <1>0, SentIsDurable
    <2> QED
      BY <1>4, <1>5, <1>9, <2>1 DEF LockInv
  <1>17. GotBy(durable, durable.version)'
    BY <1>0
  <1> QED
    BY <1>1, <1>4, <1>11, <1>12, <1>13, <1>14, <1>15, <1>16, <1>17
    DEF ConnectionInv, DeliveriesInv, PendingInv

LEMMA DesireInv ==
    ASSUME ConnectionInv, NEW c \in Clients, NEW patch \in left.patches, Desire(c, patch)
    PROVE  ConnectionInv'
  <1>1. ShapeInv /\ DeliveriesInv /\ work = Idle /\ conn[c].st # "off"
    BY DEF ConnectionInv, Desire
  <1>2. PatchOK(patch) /\ LeftOK'
    BY <1>1, SpentLeft DEF ShapeInv, LeftOK, Desire
  <1>3. PICK delivery : delivery = conn[c].delivery
    OBVIOUS
  <1>4. DeliveryOK(delivery) /\ (Clean(c) => BaseCookie(delivery) = Sent(c))
    <2>1. At(c) = delivery
      BY <1>1, <1>3 DEF At, Flushing, Idle
    <2> QED
      BY <1>1, <1>3, <2>1 DEF DeliveriesInv, Delivers, ShapeInv, ConnOK
  <1>5. StartDesire(c, patch, 1, delivery) /\ UNCHANGED <<replica, durable, down, client>>
    BY <1>3 DEF Desire
  <1> QED
    BY <1>1, <1>2, <1>4, <1>5, StartDesireInv

LEMMA RehydrateInv ==
    ASSUME ConnectionInv, NEW c \in Clients, Rehydrate(c)
    PROVE  ConnectionInv'
  <1>1. ShapeInv /\ DeliveriesInv /\ work = Idle
    BY DEF ConnectionInv, Rehydrate
  <1>2. conn[c].st # "off"
    <2>1. conn[c].st \in {"await", "open"}
      BY Zenon DEF ConnectionInv, ShapeInv, Notices, Rehydrate
    <2> QED
      BY <2>1
  <1>3. PICK delivery : delivery = conn[c].delivery
    OBVIOUS
  <1>4. DeliveryOK(delivery) /\ (Clean(c) => BaseCookie(delivery) = Sent(c))
    <2>1. At(c) = delivery
      BY <1>1, <1>3 DEF At, Flushing, Idle
    <2> QED
      BY <1>1, <1>2, <1>3, <2>1 DEF DeliveriesInv, Delivers, ShapeInv, ConnOK
  <1>5. StartRehydrate(c, 1, delivery) /\ UNCHANGED <<replica, durable, down, client>> /\ LeftOK'
    BY <1>1, <1>3 DEF Rehydrate, ShapeInv, LeftOK
  <1> QED
    BY <1>1, <1>2, <1>4, <1>5, StartRehydrateInv

LEMMA RestartInv ==
    ASSUME ConnectionInv, Restart
    PROVE  ConnectionInv'
  <1>1. ShapeInv /\ DeliveriesInv /\ work.st = "retry" /\ UNCHANGED <<replica, durable, down, client>> /\ LeftOK'
    BY DEF ConnectionInv, Restart, ShapeInv, LeftOK
  <1>2. PICK c \in Clients : c = work.c /\ work # Idle /\ FlushOK(work) /\ conn[c].st # "off"
    BY <1>1, WorkTyped DEF ShapeInv
  <1>3. PICK delivery, patch, attempt : delivery = work.delivery /\ patch = work.patch /\ attempt = work.attempt + 1
    OBVIOUS
  <1>4. DeliveryOK(delivery) /\ PatchOK(patch) /\ (Clean(c) => BaseCookie(delivery) = Sent(c))
    <2>1. At(c) = delivery
      BY <1>1, <1>2, <1>3 DEF At, Flushing
    <2> QED
      BY <1>1, <1>2, <1>3, <2>1 DEF DeliveriesInv, Delivers, FlushOK
  <1>5. CASE StartDesire(c, patch, attempt, delivery)
    BY <1>1, <1>2, <1>4, <1>5, StartDesireInv
  <1>6. CASE StartRehydrate(c, attempt, delivery)
    BY <1>1, <1>2, <1>4, <1>6, StartRehydrateInv
  <1> QED
    BY <1>2, <1>3, <1>5, <1>6 DEF Restart

(***************************************************************************)
(* A step that leaves the transition, the connections and what has been    *)
(* sent alone; the durable CVR may become another node's.                  *)
(***************************************************************************)
LEMMA SteadyStep ==
    ASSUME ConnectionInv, ShapeInv', FramesInv', UNCHANGED work,
           GotBy(durable, durable.version)', durable.version <= durable'.version,
           \A c \in Clients : SameConn(c) /\ Sent(c)' = Sent(c) /\ (Clean(c)' <=> Clean(c))
    PROVE  ConnectionInv'
  <1>0. /\ ShapeInv /\ DeliveriesInv /\ StagedInv /\ FlushInv /\ LockInv /\ PendingInv
        /\ durable.version \in Nat /\ durable'.version \in Nat
    BY DEF ConnectionInv, ShapeInv, Cvrs
  <1>1. \A c \in Clients : Sent(c)' = Sent(c) /\ (Clean(c)' <=> Clean(c))
    OBVIOUS
  <1>2. ASSUME NEW c \in Clients PROVE Delivers(c)' /\ Keeps(c)'
    <2>1. Delivers(c) /\ Keeps(c)
      BY <1>0 DEF DeliveriesInv, PendingInv
    <2>2. SameConn(c) /\ conn[c].version \in Nat
      BY <1>0 DEF ShapeInv, ConnOK
    <2>3. At(c)' = At(c) /\ (Flushing(c)' <=> Flushing(c)) /\ (Free(c)' <=> Free(c))
      BY <2>2 DEF At, Flushing, Free, SameConn
    <2>4. Delivers(c)'
      <3>1. BaseCookie(At(c))' = BaseCookie(At(c))
        BY <2>3 DEF BaseCookie
      <3> QED
        BY <1>1, <2>1, <2>2, <3>1 DEF Delivers, SameConn
    <2>5. Keeps(c)'
      BY <1>0, <1>1, <2>1, <2>2, <2>3 DEF Keeps, SameConn
    <2> QED
      BY <2>4, <2>5
  <1>3. work # Idle => work.c \in Clients /\ SameConn(work.c)
    BY <1>0, WorkTyped
  <1>4. StagedInv'
    <2>1. work.st \in {"put", "hydrate"} => conn'[work.c].pending = conn[work.c].pending
      BY <1>3 DEF SameConn, Idle
    <2> QED
      BY <1>0, <2>1 DEF StagedInv
  <1>5. FlushInv'
    <2>1. work.st \in {"flush", "retry"} => conn'[work.c].delivery = conn[work.c].delivery
      BY <1>3 DEF SameConn, Idle
    <2> QED
      BY <1>0, <2>1 DEF FlushInv, PokeOf, BaseCookie
  <1>6. LockInv'
    <2>1. work # Idle => work.before \in Nat
      BY <1>0 DEF ShapeInv, WorkOK, StageOK, FlushOK
    <2> QED
      BY <1>0, <1>1, <1>3, <2>1 DEF LockInv
  <1> QED
    BY <1>2, <1>4, <1>5, <1>6 DEF ConnectionInv, DeliveriesInv, PendingInv

LEMMA CommitInv ==
    ASSUME ConnectionInv, NEW w, Commit(w)
    PROVE  ConnectionInv'
  <1>1. ShapeInv
    BY DEF ConnectionInv
  <1>2. ShapeInv'
    BY <1>1, CommitShape
  <1>3. \A c \in Clients : SameConn(c)
    BY <1>1, CommitEffect DEF SameConn, ConnFields
  <1>4. /\ FramesInv'
        /\ \A c \in Clients : Sent(c)' = Sent(c) /\ (Clean(c)' <=> Clean(c))
    BY <1>3, SameFrames DEF ConnectionInv, Commit, SameConn
  <1>5. /\ UNCHANGED <<durable, work>> /\ durable.version \in Nat
        /\ GotBy(durable, durable.version)'
    BY <1>1 DEF Commit, ShapeInv, Cvrs, ConnectionInv
  <1> QED
    BY <1>2, <1>3, <1>4, <1>5, SteadyStep

LEMMA ConnectInv ==
    ASSUME ConnectionInv, NEW c \in Clients, NEW header, Connect(c, header)
    PROVE  ConnectionInv'
  <1>0. /\ ShapeInv /\ GotBy(durable, durable.version) /\ FramesInv /\ DeliveriesInv /\ StagedInv
        /\ FlushInv /\ LockInv /\ PendingInv
    BY DEF ConnectionInv
  <1>1. /\ conn[c].st = "off" /\ down[c] = <<>> /\ client[c].cookie \in Cookies
        /\ UNCHANGED <<durable, work, down, client>>
    BY <1>0 DEF Connect, FramesInv, Frames
  <1>2. ShapeInv'
    BY <1>0, <1>1, ConnectShape
  <1>3. /\ \A x \in Clients \ {c} : conn'[x] = conn[x]
        /\ \A f \in ConnFields \ {"st", "header", "delivery", "driver"} : conn'[c][f] = Offline[f]
        /\ conn'[c].st = "await" /\ conn'[c].delivery = NewDelivery(client[c].cookie)
    BY <1>0, ConnectEffect
  <1>4. /\ FramesInv'
        /\ \A x \in Clients : Sent(x)' = Sent(x) /\ (Clean(x)' <=> Clean(x))
    <2>1. \A x \in Clients : conn'[x].st = "off" => conn[x].st = "off"
      BY <1>3
    <2> QED
      BY <1>0, <1>1, <2>1, SameFrames
  <1>5. work # Idle => work.c \in Clients \ {c}
    BY <1>0, <1>1, WorkTyped DEF ShapeInv
  <1>6. ASSUME NEW x \in Clients \ {c} PROVE Delivers(x)' /\ Keeps(x)'
    <2>1. Delivers(x) /\ Keeps(x)
      BY <1>0 DEF DeliveriesInv, PendingInv
    <2>2. conn'[x] = conn[x]
      BY <1>3
    <2>3. At(x)' = At(x) /\ (Flushing(x)' <=> Flushing(x)) /\ (Free(x)' <=> Free(x))
      BY <1>1, <2>2 DEF At, Flushing, Free
    <2>4. Delivers(x)'
      <3>1. BaseCookie(At(x))' = BaseCookie(At(x))
        BY <2>3 DEF BaseCookie
      <3> QED
        BY <1>4, <2>1, <2>2, <3>1 DEF Delivers
    <2>5. Keeps(x)'
      BY <1>1, <1>4, <2>1, <2>2, <2>3 DEF Keeps
    <2> QED
      BY <2>4, <2>5
  <1>7. Delivers(c)'
    <2>1. ~Flushing(c)'
      BY <1>1, <1>5 DEF Flushing, Idle
    <2>2. At(c)' = NewDelivery(client[c].cookie)
      BY <1>3, <2>1 DEF At
    <2>3. BaseCookie(At(c))' = client[c].cookie
      BY <2>2 DEF BaseCookie, NewDelivery
    <2>4. Sent(c)' = client[c].cookie
      BY <1>1 DEF Sent, EndOf
    <2> QED
      BY <2>3, <2>4 DEF Delivers
  <1>8. Keeps(c)'
    <2>1. conn'[c].pending = NoPatches
      BY <1>3, OfflineOK DEF ConnFields
    <2> QED
      BY <2>1, StampedNone DEF Keeps
  <1>9. StagedInv'
    <2>1. work.st \in {"put", "hydrate"} => conn'[work.c] = conn[work.c]
      BY <1>3, <1>5 DEF Idle
    <2> QED
      BY <1>0, <1>1, <2>1 DEF StagedInv
  <1>10. FlushInv'
    <2>1. work.st \in {"flush", "retry"} => conn'[work.c] = conn[work.c]
      BY <1>3, <1>5 DEF Idle
    <2> QED
      BY <1>0, <1>1, <2>1 DEF FlushInv, PokeOf, BaseCookie
  <1>11. LockInv'
    BY <1>0, <1>1, <1>4, <1>5 DEF LockInv
  <1>12. GotBy(durable, durable.version)'
    BY <1>0, <1>1
  <1> QED
    BY <1>2, <1>4, <1>6, <1>7, <1>8, <1>9, <1>10, <1>11, <1>12 DEF ConnectionInv, DeliveriesInv, PendingInv

(***************************************************************************)
(* A step of the staging: the connection keeps its delivery state.         *)
(***************************************************************************)
LEMMA StagingStep ==
    ASSUME ConnectionInv, ShapeInv', UNCHANGED <<durable, down, client>>,
           \A c \in Clients : SameConn(c),
           work.st \in {"put", "hydrate"}, work'.st \in {"put", "hydrate"}, work'.c = work.c,
           work'.before = work.before, StagedInv'
    PROVE  ConnectionInv'
  <1>0. /\ ShapeInv /\ GotBy(durable, durable.version) /\ FramesInv /\ DeliveriesInv
        /\ LockInv /\ PendingInv
    BY DEF ConnectionInv
  <1>1. /\ FramesInv'
        /\ \A c \in Clients : Sent(c)' = Sent(c) /\ (Clean(c)' <=> Clean(c))
    BY <1>0, SameFrames DEF SameConn
  <1>2. work # Idle /\ work' # Idle /\ work.c \in Clients
    BY <1>0, WorkTyped DEF Idle
  <1>3. ASSUME NEW c \in Clients PROVE Delivers(c)' /\ Keeps(c)'
    <2>1. Delivers(c) /\ Keeps(c)
      BY <1>0 DEF DeliveriesInv, PendingInv
    <2>2. SameConn(c)
      OBVIOUS
    <2>3. ~Flushing(c) /\ ~Flushing(c)' /\ (Free(c)' <=> Free(c))
      BY <1>2 DEF Flushing, Free
    <2>4. At(c)' = At(c)
      BY <2>2, <2>3 DEF At, SameConn
    <2>5. Delivers(c)'
      <3>1. BaseCookie(At(c))' = BaseCookie(At(c))
        BY <2>4 DEF BaseCookie
      <3> QED
        BY <1>1, <2>1, <2>2, <3>1 DEF Delivers, SameConn
    <2>6. Keeps(c)'
      <3> HIDE DEF Flushing
      <3> QED
        BY <1>1, <2>1, <2>2, <2>3 DEF Keeps, SameConn
    <2> QED
      BY <2>5, <2>6
  <1>4. FlushInv'
    BY DEF FlushInv
  <1>5. LockInv'
    BY <1>0, <1>1, <1>2 DEF LockInv
  <1>6. GotBy(durable, durable.version)'
    BY <1>0
  <1> QED
    BY <1>1, <1>3, <1>4, <1>5, <1>6 DEF ConnectionInv, DeliveriesInv, PendingInv

LEMMA AdvanceForPutInv ==
    ASSUME ConnectionInv, NEW q \in Queries, AdvanceForPut(q)
    PROVE  ConnectionInv'
  <1>0. ShapeInv /\ StagedInv
    BY DEF ConnectionInv
  <1>1. ShapeInv'
    BY <1>0, AdvanceForPutShape
  <1>2. PICK c \in Clients : c = work.c /\ StageOK(work) /\ work.st = "put"
    BY <1>0, WorkTyped DEF AdvanceForPut
  <1>3. OnlyConn(c, {"driver"})
    BY <1>0, <1>2, AdvanceForPutEffect
  <1>4. \A x \in Clients : SameConn(x)
    BY <1>3 DEF OnlyConn, SameConn, ConnFields
  <1>5. work' = [work EXCEPT !.st = "hydrate", !.q = q, !.todo = @ \ {q}]
    BY DEF AdvanceForPut
  <1>6. /\ work'.st = "hydrate" /\ work'.c = work.c /\ work'.before = work.before
        /\ work'.config = work.config /\ work'.cvr = work.cvr
        /\ work'.patches = work.patches /\ work'.hydration = work.hydration
    BY <1>2, <1>5 DEF StageOK, StageFields
  <1>7. StagedInv'
    <2>1. conn'[c].pending = conn[c].pending
      BY <1>4 DEF SameConn
    <2> QED
      BY <1>0, <1>2, <1>6, <2>1 DEF StagedInv
  <1> QED
    BY <1>1, <1>2, <1>4, <1>6, <1>7, StagingStep DEF AdvanceForPut

LEMMA SkipPutInv ==
    ASSUME ConnectionInv, NEW q, SkipPut(q)
    PROVE  ConnectionInv'
  <1>0. ShapeInv /\ StagedInv
    BY DEF ConnectionInv
  <1>1. ShapeInv'
    BY <1>0, SkipPutShape
  <1>2. StageOK(work) /\ work.st = "put"
    BY <1>0, WorkTyped DEF SkipPut
  <1>3. \A x \in Clients : SameConn(x)
    BY DEF SkipPut, SameConn
  <1>4. /\ work'.st = "put" /\ work'.c = work.c /\ work'.before = work.before
        /\ work'.config = work.config /\ work'.cvr = work.cvr
        /\ work'.patches = work.patches /\ work'.hydration = work.hydration
    BY <1>2 DEF SkipPut, StageOK, StageFields
  <1>5. StagedInv'
    BY <1>0, <1>2, <1>4 DEF StagedInv, SkipPut
  <1> QED
    BY <1>1, <1>2, <1>3, <1>4, <1>5, StagingStep DEF SkipPut

LEMMA RewireInv ==
    ASSUME ConnectionInv, Rewire
    PROVE  ConnectionInv'
  <1>0. ShapeInv /\ StagedInv
    BY DEF ConnectionInv
  <1>1. ShapeInv'
    BY <1>0, RewireShape
  <1>2. /\ StageOK(work) /\ work.st = "hydrate" /\ work.q \in Queries /\ work.cvr \in Cvrs
        /\ work.cvr.version \in Nat /\ work.cvr.got \in [Queries -> Nat]
    BY <1>0, WorkTyped DEF Rewire, StageOK, Cvrs
  <1>3. \A x \in Clients : SameConn(x)
    BY DEF Rewire, SameConn
  <1>4. PICK v, rows, got, h : /\ v = work.cvr.version
                         /\ rows = Rewired(work.cvr, conn[work.c].bodies, work.q)
                         /\ got = GotPatch(work.cvr.got, work.q, v, work.q \in work.newly)
                         /\ h = Extend(work.hydration, RowPatches(rows, v, got))
    OBVIOUS
  <1>5. work' = [work EXCEPT !.st = "put", !.q = None, !.hydration = h]
    <2>1. work' = [work EXCEPT !.st = "put", !.q = None,
                     !.hydration = Extend(@, RowPatches(Rewired(work.cvr, conn[work.c].bodies, work.q),
                                                        work.cvr.version,
                           GotPatch(work.cvr.got, work.q, work.cvr.version, work.q \in work.newly)))]
      BY DEF Rewire
    <2> QED
      BY <1>2, <1>4, <2>1 DEF StageOK, StageFields
  <1>6. /\ work'.st = "put" /\ work'.c = work.c /\ work'.before = work.before
        /\ work'.config = work.config /\ work'.cvr = work.cvr
        /\ work'.patches = work.patches /\ work'.hydration = h
    BY <1>2, <1>5 DEF StageOK, StageFields
  <1>7. Stamped(h, v)
    <2>1. \A q \in DOMAIN got : got[q] \in Nat /\ got[q] <= v
      <3>1. work.cvr.got[work.q] <= v
        BY <1>0, <1>2, <1>4 DEF StagedInv, GotBy
      <3> QED
        BY <1>2, <1>4, <3>1, GotPatched
    <2>2. Stamped(RowPatches(rows, v, got), v)
      BY <1>2, <1>4, <2>1, StampedRows
    <2>3. Stamped(work.hydration, v) /\ v \in Nat
      BY <1>0, <1>2, <1>4 DEF StagedInv
    <2> QED
      BY <1>4, <2>2, <2>3, StampedExtend
  <1>8. IsEmpty(h) => IsEmpty(work.hydration)
    BY <1>4, ExtendIsEmpty
  <1>9. StagedInv'
    BY <1>0, <1>2, <1>4, <1>6, <1>7, <1>8 DEF StagedInv, Rewire
  <1> QED
    BY <1>1, <1>2, <1>3, <1>6, <1>9, StagingStep DEF Rewire

LEMMA HydrateInv ==
    ASSUME ConnectionInv, Hydrate
    PROVE  ConnectionInv'
  <1>0. ShapeInv /\ StagedInv
    BY DEF ConnectionInv
  <1>1. ShapeInv'
    BY <1>0, HydrateShape
  <1>2. PICK c \in Clients : c = work.c /\ StageOK(work) /\ work.st = "hydrate" /\ work.q \in Queries
    BY <1>0, WorkTyped DEF Hydrate, StageOK
  <1>3. OnlyConn(c, {"tracked", "bodies", "driver"})
    BY <1>0, <1>2, HydrateEffect, Zenon
  <1>4. \A x \in Clients : SameConn(x)
    BY <1>3 DEF OnlyConn, SameConn, ConnFields
  <1>5. /\ work.cvr \in Cvrs /\ work.cvr.version \in Nat /\ work.config \in Nat /\ work.before \in Nat
        /\ work.cvr.got \in [Queries -> Nat] /\ work.config <= work.cvr.version
        /\ work.before <= work.config
    BY <1>0, <1>2 DEF StageOK, Cvrs, StagedInv
  <1>6. PICK q, v, fetched, rows :
          /\ q = work.q /\ v = EnsureNewVersion(work.config, work.cvr.version)
          /\ fetched = Fetch(q, replica.rows) /\ rows = HydratedRows(work.cvr, q, fetched)
    OBVIOUS
  <1>7. v \in Nat /\ work.cvr.version <= v /\ 1 <= v
    BY <1>5, <1>6, NewVersion
  <1>8. PICK cvr, newly : /\ cvr = Hydrated(work.cvr, q, v, fetched)
                          /\ newly = (q \in work.newly \/ work.cvr.got[q] = 0)
    OBVIOUS
  <1>9. PICK got : got = GotPatch(cvr.got, q, v, newly)
    OBVIOUS
  <1>10. PICK h : h = Extend(work.hydration, RowPatches(rows, v, got))
    OBVIOUS
  <1>11. work' = [work EXCEPT !.st = "put", !.q = None, !.cvr = cvr, !.hydration = h]
    <2>1. work' = [work EXCEPT !.st = "put", !.q = None, !.cvr = cvr,
                               !.hydration = Extend(@, RowPatches(rows, v, got))]
      BY <1>6, <1>8, <1>9, Zenon DEF Hydrate
    <2> QED
      BY <1>2, <1>10, <2>1 DEF StageOK, StageFields
  <1>12. /\ work'.st = "put" /\ work'.c = work.c /\ work'.before = work.before
         /\ work'.config = work.config /\ work'.cvr = cvr
         /\ work'.patches = work.patches /\ work'.hydration = h
    BY <1>2, <1>11 DEF StageOK, StageFields
  <1>13. /\ cvr.version = v /\ cvr.got \in [Queries -> Nat] /\ cvr.got[q] # 0
         /\ \A x \in Queries : cvr.got[x] <= v
    <2>1. PICK n \in Nat : n = (IF work.cvr.got[q] = 0 THEN v ELSE work.cvr.got[q])
      BY <1>2, <1>5, <1>6, <1>7
    <2>2. PICK refs : refs = HydratedRefs(work.cvr, q, fetched)
      OBVIOUS
    <2>3. cvr = [work.cvr EXCEPT !.version = v, !.got[q] = n, !.refs = refs]
      BY <1>5, <1>8, <2>1, <2>2 DEF Hydrated, Cvrs
    <2>4. cvr.version = v /\ cvr.got = [work.cvr.got EXCEPT ![q] = n]
      BY <1>5, <2>3 DEF Cvrs
    <2>5. ASSUME NEW x \in Queries PROVE work.cvr.got[x] <= v
      BY <1>0, <1>2, <1>5, <1>7 DEF StagedInv, GotBy
    <2> QED
      BY <1>2, <1>5, <1>6, <1>7, <2>1, <2>4, <2>5
  <1>14. (\A x \in DOMAIN got : got[x] \in Nat /\ got[x] <= v) /\ DOMAIN got # {}
    <2>1. q \in Queries /\ cvr.got[q] <= v
      BY <1>2, <1>6, <1>13
    <2> QED
      BY <1>7, <1>9, <1>13, <2>1, GotPatched
  <1>15. Stamped(h, v)
    <2>1. Stamped(RowPatches(rows, v, got), v)
      BY <1>7, <1>14, StampedRows
    <2>2. Stamped(work.hydration, v)
      BY <1>0, <1>2, <1>5, <1>7, StampedLater DEF StagedInv
    <2> QED
      BY <1>7, <1>10, <2>1, <2>2, StampedExtend
  <1>16. ~IsEmpty(h)
    <2>1. ~IsEmpty(RowPatches(rows, v, got))
      BY <1>14 DEF IsEmpty, RowPatches
    <2> QED
      BY <1>10, <2>1, ExtendIsEmpty
  <1>17. StagedInv'
    <2>1. conn'[c].pending = conn[c].pending
      BY <1>4 DEF SameConn
    <2>2. GotBy(work.cvr, work.cvr.version)'
      BY <1>12, <1>13 DEF GotBy
    <2>3. work.config <= v
      BY <1>5, <1>7
    <2> QED
      BY <1>0, <1>2, <1>12, <1>13, <1>15, <1>16, <2>1, <2>2, <2>3 DEF StagedInv
  <1> QED
    BY <1>1, <1>2, <1>4, <1>12, <1>17, StagingStep DEF Hydrate

LEMMA BuildInv ==
    ASSUME ConnectionInv, Build
    PROVE  ConnectionInv'
  <1>0. /\ ShapeInv /\ GotBy(durable, durable.version) /\ FramesInv /\ DeliveriesInv /\ StagedInv
        /\ LockInv /\ PendingInv
    BY DEF ConnectionInv
  <1>1. ShapeInv'
    BY <1>0, BuildShape
  <1>2. PICK c \in Clients : c = work.c /\ work # Idle /\ StageOK(work) /\ work.st = "put"
    BY <1>0, WorkTyped DEF Build
  <1> DEFINE b == BuildPoke(conn[c].delivery, ToldPatches, StagedVersion, replica.lmids)
  <1>3. /\ OnlyConn(c, {"delivery", "driver", "version", "pending"})
        /\ conn'[c].delivery = b.delivery /\ conn'[c].version = StagedVersion
        /\ conn'[c].pending = (IF Together THEN NoPatches ELSE work.hydration)
        /\ work' = [st |-> "flush", kind |-> "desire", c |-> c, patch |-> work.patch,
                    attempt |-> work.attempt, before |-> work.before,
                    cvr |-> [work.cvr EXCEPT !.version = StagedVersion],
                    pokes |-> b.pokes, delivery |-> conn[c].delivery,
                    touched |-> DOMAIN work.hydration.rows]
    BY <1>0, <1>2, BuildEffect, Zenon
  <1>4. PICK v \in Nat : /\ v = StagedVersion /\ work.before \in Nat /\ work.before <= v
                         /\ Stamped(ToldPatches, v)
                         /\ GotBy([work.cvr EXCEPT !.version = v], v)
                         /\ ~Together => Stamped(work.hydration, v)
    BY <1>0, <1>2, StagedFacts
  <1>5. PICK delivery, told, lmids : delivery = conn[c].delivery /\ told = ToldPatches /\ lmids = replica.lmids
    OBVIOUS
  <1>6. DeliveryOK(delivery) /\ conn[c].st # "off" /\ work.cvr \in Cvrs
    BY <1>0, <1>2, <1>5 DEF ShapeInv, ConnOK, StageOK
  <1>7. PICK pokes, next : pokes = b.pokes /\ next = b.delivery
    OBVIOUS
  <1>8. \/ pokes = <<>> /\ next = delivery
        \/ \E poke : pokes = <<poke>> /\ PokeOf(poke, delivery, next, v)
    <2>1. Stamped(told, v)
      BY <1>4, <1>5
    <2>2. LET x == BuildPoke(delivery, told, v, lmids)
          IN  \/ x.pokes = <<>> /\ x.delivery = delivery
              \/ \E poke : x.pokes = <<poke>> /\ PokeOf(poke, delivery, x.delivery, v)
      BY <1>6, <2>1, BuildsPoke
    <2>3. b = BuildPoke(delivery, told, v, lmids)
      BY <1>4, <1>5
    <2> QED
      BY <1>7, <2>2, <2>3, Zenon
  <1> HIDE DEF b
  <1>9. /\ work'.st = "flush" /\ work'.kind = "desire" /\ work'.c = c /\ work'.before = work.before
        /\ work'.cvr = [work.cvr EXCEPT !.version = v] /\ work'.pokes = pokes
        /\ work'.delivery = delivery
    BY <1>3, <1>4, <1>5, <1>7
  <1>10. work'.cvr.version = v /\ work' # Idle
    BY <1>6, <1>9 DEF Cvrs, Idle
  <1>11. /\ conn'[c].st = conn[c].st /\ conn'[c].delivery = next /\ conn'[c].version = v
    BY <1>3, <1>4, <1>7 DEF OnlyConn, ConnFields
  <1>12. UNCHANGED <<down, client, durable>>
    BY DEF Build
  <1>13. /\ FramesInv'
         /\ \A x \in Clients : Sent(x)' = Sent(x) /\ (Clean(x)' <=> Clean(x))
    <2>1. \A x \in Clients : conn'[x].st = "off" => conn[x].st = "off"
      BY <1>3, <1>11 DEF OnlyConn
    <2> QED
      BY <1>0, <1>12, <2>1, SameFrames
  <1>14. \A x \in Clients \ {c} : Delivers(x)' /\ Keeps(x)'
    BY <1>0, <1>2, <1>3, <1>9, <1>12, OthersStay
  <1>15. Delivers(c)'
    <2>1. At(c)' = delivery
      BY <1>9 DEF At, Flushing
    <2>2. At(c) = delivery
      BY <1>2, <1>5 DEF At, Flushing
    <2>3. BaseCookie(At(c))' = BaseCookie(At(c))
      BY <2>1, <2>2 DEF BaseCookie
    <2> QED
      BY <1>0, <1>11, <1>13, <2>3 DEF Delivers, DeliveriesInv
  <1>16. Keeps(c)'
    <2>1. ~Free(c)'
      BY <1>9, <1>10 DEF Free
    <2>2. ~IsEmpty(conn'[c].pending) => Stamped(conn'[c].pending, v)
      BY <1>3, <1>4, StampedNone
    <2> QED
      BY <1>9, <1>10, <1>11, <2>1, <2>2 DEF Keeps
  <1>17. StagedInv'
    BY <1>9 DEF StagedInv
  <1>18. FlushInv'
    <2>1. GotBy(work.cvr, work.cvr.version)'
      BY <1>4, <1>9, <1>10 DEF GotBy
    <2>2. \/ work'.pokes = <<>> /\ BaseCookie(conn[work.c].delivery)' = BaseCookie(work.delivery)'
          \/ \E poke : work'.pokes = <<poke>>
                        /\ PokeOf(poke, work.delivery, conn[work.c].delivery, work.cvr.version)'
      BY <1>8, <1>9, <1>10, <1>11 DEF PokeOf, BaseCookie
    <2> QED
      BY <1>4, <1>9, <1>10, <2>1, <2>2 DEF FlushInv
  <1>19. LockInv'
    BY <1>0, <1>2, <1>9, <1>10, <1>12, <1>13 DEF LockInv
  <1>20. GotBy(durable, durable.version)'
    BY <1>0, <1>12
  <1> QED
    BY <1>1, <1>13, <1>14, <1>15, <1>16, <1>17, <1>18, <1>19, <1>20
    DEF ConnectionInv, DeliveriesInv, PendingInv

LEMMA RetryInv ==
    ASSUME ConnectionInv, Retry
    PROVE  ConnectionInv'
  <1>0. /\ ShapeInv /\ GotBy(durable, durable.version) /\ FramesInv /\ DeliveriesInv
        /\ FlushInv /\ LockInv /\ PendingInv
    BY DEF ConnectionInv
  <1>1. ShapeInv'
    BY <1>0, RetryShape
  <1>2. FlushOK(work) /\ work # Idle /\ work.st = "flush"
    BY <1>0, WorkTyped DEF Retry
  <1>3. /\ work'.st = "retry" /\ work'.c = work.c /\ work'.before = work.before
        /\ work'.kind = work.kind /\ work'.cvr = work.cvr
        /\ work'.pokes = work.pokes /\ work'.delivery = work.delivery
    BY <1>2 DEF Retry, FlushOK, FlushFields
  <1>4. UNCHANGED <<durable, conn, down, client>>
    BY DEF Retry
  <1>5. /\ FramesInv'
        /\ \A c \in Clients : Sent(c)' = Sent(c) /\ (Clean(c)' <=> Clean(c))
    BY <1>0, <1>4, SameFrames
  <1>6. work' # Idle
    BY <1>3 DEF Idle
  <1>7. ASSUME NEW c \in Clients PROVE Delivers(c)' /\ Keeps(c)'
    <2>1. Delivers(c) /\ Keeps(c)
      BY <1>0 DEF DeliveriesInv, PendingInv
    <2>2. At(c)' = At(c) /\ (Flushing(c)' <=> Flushing(c)) /\ (Free(c)' <=> Free(c))
      BY <1>2, <1>3, <1>4, <1>6 DEF At, Flushing, Free
    <2>3. BaseCookie(At(c))' = BaseCookie(At(c))
      BY <2>2 DEF BaseCookie
    <2>4. Delivers(c)'
      BY <1>4, <1>5, <2>1, <2>3 DEF Delivers
    <2>5. Keeps(c)'
      BY <1>3, <1>4, <1>5, <2>1, <2>2 DEF Keeps
    <2> QED
      BY <2>4, <2>5
  <1>8. StagedInv'
    BY <1>3 DEF StagedInv
  <1>9. FlushInv'
    BY <1>0, <1>2, <1>3, <1>4 DEF FlushInv, PokeOf, BaseCookie, GotBy
  <1>10. LockInv'
    <2>1. work.c \in Clients
      BY <1>2 DEF FlushOK
    <2> QED
      BY <1>0, <1>2, <1>3, <1>4, <1>5, <2>1 DEF LockInv
  <1>11. GotBy(durable, durable.version)'
    BY <1>0, <1>4
  <1> QED
    BY <1>1, <1>5, <1>7, <1>8, <1>9, <1>10, <1>11 DEF ConnectionInv, DeliveriesInv, PendingInv

(***************************************************************************)
(* An advance that fails leaves the delivery state where it is and a       *)
(* transition that only has an error to send.                              *)
(***************************************************************************)
LEMMA ErrorStaged ==
    ASSUME ConnectionInv, ShapeInv', UNCHANGED <<durable, down, client>>,
           NEW c \in Clients, NEW F, OnlyConn(c, F), "st" \notin F, "delivery" \notin F,
           work = Idle \/ work.c = c, work.st \in {"idle", "put"}, conn[c].st # "off",
           work'.st = "flush", work'.c = c, work'.pokes = <<Error>>,
           work'.delivery = conn[c].delivery, conn'[c].pending = NoPatches,
           work'.before \in Nat, work'.before <= durable.version,
           Clean(c) => Sent(c) <= work'.before,
           work'.before <= work'.cvr.version, GotBy(work.cvr, work.cvr.version)'
    PROVE  ConnectionInv'
  <1>0. /\ ShapeInv /\ GotBy(durable, durable.version) /\ FramesInv /\ DeliveriesInv /\ PendingInv
    BY DEF ConnectionInv
  <1>1. conn'[c].st = conn[c].st
    BY DEF OnlyConn, ConnFields
  <1>2. /\ FramesInv'
        /\ \A x \in Clients : Sent(x)' = Sent(x) /\ (Clean(x)' <=> Clean(x))
    <2>1. \A x \in Clients : conn'[x].st = "off" => conn[x].st = "off"
      BY <1>1 DEF OnlyConn
    <2> QED
      BY <1>0, <2>1, SameFrames
  <1>3. \A x \in Clients \ {c} : Delivers(x)' /\ Keeps(x)'
    BY <1>0, OthersStay
  <1>4. Delivers(c)'
    <2>1. At(c)' = conn[c].delivery /\ At(c) = conn[c].delivery
      BY DEF At, Flushing
    <2>2. BaseCookie(At(c))' = BaseCookie(At(c))
      BY <2>1 DEF BaseCookie
    <2> QED
      BY <1>0, <1>1, <1>2, <2>2 DEF Delivers, DeliveriesInv
  <1>5. Keeps(c)'
    BY StampedNone DEF Keeps
  <1>6. StagedInv'
    BY DEF StagedInv
  <1>7. FlushInv'
    BY DEF FlushInv
  <1>8. LockInv'
    BY <1>2 DEF LockInv
  <1>9. GotBy(durable, durable.version)'
    BY <1>0
  <1> QED
    BY <1>2, <1>3, <1>4, <1>5, <1>6, <1>7, <1>8, <1>9 DEF ConnectionInv, DeliveriesInv, PendingInv

LEMMA AdvanceFailsInv ==
    ASSUME ConnectionInv, NEW done, AdvanceFails(done)
    PROVE  ConnectionInv'
  <1>0. /\ ShapeInv /\ GotBy(durable, durable.version) /\ FramesInv /\ StagedInv /\ LockInv
        /\ UNCHANGED <<durable, down, client>> /\ durable \in Cvrs /\ durable.version \in Nat
    BY DEF ConnectionInv, AdvanceFails, ShapeInv, Cvrs
  <1>1. ShapeInv'
    BY <1>0, AdvanceFailsShape
  <1>2. PICK c \in Clients :
          \/ /\ work.st = "put" /\ c = work.c
             /\ OnlyConn(c, {"driver"})
             /\ work' = [st |-> "flush", kind |-> "desire", c |-> c, patch |-> work.patch,
                         attempt |-> work.attempt, before |-> work.before, cvr |-> work.cvr,
                         pokes |-> <<Error>>, delivery |-> conn[c].delivery, touched |-> Rows]
          \/ /\ work = Idle /\ conn[c].notified
             /\ OnlyConn(c, {"notified", "driver", "tracked", "pending"})
             /\ conn'[c].pending = NoPatches
             /\ work' = [st |-> "flush", kind |-> "rehydrate", c |-> c,
                         patch |-> [puts |-> {}, dels |-> {}], attempt |-> 1,
                         before |-> durable.version,
                         cvr |-> [durable EXCEPT !.version = @ + 1],
                         pokes |-> <<Error>>, delivery |-> conn[c].delivery, touched |-> Rows]
    BY <1>0, AdvanceFailsEffect, Zenon
  <1>3. CASE work.st = "put"
    <2>1. work # Idle /\ StageOK(work)
      BY <1>0, <1>3, WorkTyped
    <2>2. /\ c = work.c /\ OnlyConn(c, {"driver"})
          /\ work' = [st |-> "flush", kind |-> "desire", c |-> c, patch |-> work.patch,
                      attempt |-> work.attempt, before |-> work.before, cvr |-> work.cvr,
                      pokes |-> <<Error>>, delivery |-> conn[c].delivery, touched |-> Rows]
      BY <1>2, <2>1, Zenon
    <2>3. /\ work'.st = "flush" /\ work'.c = c /\ work'.pokes = <<Error>>
          /\ work'.delivery = conn[c].delivery /\ work'.before = work.before /\ work'.cvr = work.cvr
      BY <2>2
    <2>4. conn'[c].pending = NoPatches
      <3>1. conn'[c].pending = conn[c].pending
        BY <2>2 DEF OnlyConn, ConnFields
      <3> QED
        BY <1>0, <1>3, <2>2, <3>1 DEF StagedInv
    <2>5. /\ work'.before \in Nat /\ work'.before <= durable.version
          /\ Clean(c) => Sent(c) <= work'.before
          /\ work'.before <= work'.cvr.version
      <3>1. work.before \in Nat /\ work.config \in Nat /\ work.cvr.version \in Nat
        BY <2>1 DEF StageOK, Cvrs
      <3> QED
        BY <1>0, <1>3, <2>1, <2>2, <2>3, <3>1 DEF LockInv, StagedInv
    <2>6. GotBy(work.cvr, work.cvr.version)'
      BY <1>0, <1>3, <2>3 DEF StagedInv, GotBy
    <2>7. conn[c].st # "off"
      BY <1>0, <2>1, <2>2 DEF ShapeInv
    <2> QED
      BY <1>0, <1>1, <1>3, <2>2, <2>3, <2>4, <2>5, <2>6, <2>7, ErrorStaged
  <1>4. CASE work.st # "put"
    <2>1. /\ work = Idle /\ conn[c].notified
          /\ OnlyConn(c, {"notified", "driver", "tracked", "pending"})
          /\ conn'[c].pending = NoPatches
          /\ work' = [st |-> "flush", kind |-> "rehydrate", c |-> c,
                      patch |-> [puts |-> {}, dels |-> {}], attempt |-> 1,
                      before |-> durable.version,
                      cvr |-> [durable EXCEPT !.version = @ + 1],
                      pokes |-> <<Error>>, delivery |-> conn[c].delivery, touched |-> Rows]
      BY <1>2, <1>4, Zenon
    <2>2. PICK v \in Nat : v = durable.version + 1 /\ durable.version <= v
      BY <1>0
    <2>3. /\ work'.st = "flush" /\ work'.c = c /\ work'.pokes = <<Error>>
          /\ work'.delivery = conn[c].delivery /\ work'.before = durable.version
          /\ work'.cvr = [durable EXCEPT !.version = v]
      BY <1>0, <2>1, <2>2 DEF Cvrs
    <2>4. work'.cvr.version = v /\ work'.cvr.got = durable.got
      BY <1>0, <2>3 DEF Cvrs
    <2>5. GotBy(work.cvr, work.cvr.version)'
      <3>1. GotBy(durable, v)
        BY <1>0, <2>2, GotLater
      <3> QED
        BY <2>4, <3>1 DEF GotBy
    <2>6. Clean(c) => Sent(c) <= durable.version
      BY <1>0, SentIsDurable
    <2>7. conn[c].st # "off"
      <3>1. conn[c].st \in {"await", "open"}
        BY <1>0, <2>1, Zenon DEF ShapeInv, Notices
      <3> QED
        BY <3>1
    <2>8. work.st = "idle" /\ work'.before \in Nat /\ work'.before <= durable.version
      BY <1>0, <2>1, <2>3 DEF Idle
    <2>9. work'.before <= work'.cvr.version /\ (Clean(c) => Sent(c) <= work'.before)
      BY <2>2, <2>3, <2>4, <2>6
    <2> QED
      BY <1>0, <1>1, <2>1, <2>3, <2>5, <2>7, <2>8, <2>9, ErrorStaged
  <1> QED
    BY <1>3, <1>4

LEMMA OtherNodeInv ==
    ASSUME ConnectionInv, OtherNode
    PROVE  ConnectionInv'
  <1>0. ShapeInv /\ GotBy(durable, durable.version) /\ FramesInv
    BY DEF ConnectionInv
  <1>1. durable \in Cvrs /\ durable.version \in Nat
    BY <1>0 DEF ShapeInv, Cvrs
  <1>2. PICK v \in Nat : v = durable.version + 1 /\ durable.version <= v
    BY <1>1
  <1>3. durable' = [durable EXCEPT !.version = v]
    BY <1>1, <1>2 DEF OtherNode, Cvrs
  <1>4. durable' \in Cvrs /\ durable'.version = v /\ durable'.got = durable.got
    BY <1>1, <1>3 DEF Cvrs
  <1>5. UNCHANGED <<replica, conn, work, down, client, trust>> /\ LeftOK'
    BY <1>0, SpentLeft DEF OtherNode, ShapeInv
  <1>6. ShapeInv'
    BY <1>0, <1>4, <1>5 DEF ShapeInv
  <1>7. FramesInv'
    <2>1. ASSUME NEW c \in Clients PROVE Frames(down[c], client[c].cookie, v)
      <3>1. Frames(down[c], client[c].cookie, durable.version)
        BY <1>0 DEF FramesInv
      <3> QED
        BY <1>1, <1>2, <3>1, LaterFrames
    <2>2. ASSUME NEW c \in Clients PROVE Frames(down[c], client[c].cookie, durable.version)'
      BY <1>4, <1>5, <2>1
    <2> QED
      BY <1>0, <1>5, <2>2 DEF FramesInv
  <1>8. \A c \in Clients : SameConn(c) /\ Sent(c)' = Sent(c) /\ (Clean(c)' <=> Clean(c))
    BY <1>5 DEF SameConn, Sent, Clean
  <1>9. GotBy(durable, durable.version)'
    <2>1. GotBy(durable, v)
      BY <1>0, <1>1, <1>2, GotLater
    <2> QED
      BY <1>4, <2>1 DEF GotBy
  <1> QED
    BY <1>2, <1>4, <1>5, <1>6, <1>7, <1>8, <1>9, SteadyStep

LEMMA DeliverInv ==
    ASSUME ConnectionInv, NEW c \in Clients, Deliver(c)
    PROVE  ConnectionInv'
  <1>0. /\ ShapeInv /\ GotBy(durable, durable.version) /\ FramesInv /\ durable.version \in Nat
        /\ UNCHANGED <<replica, durable, conn, work, trust, left>>
    BY DEF ConnectionInv, Deliver, ShapeInv, Cvrs
  <1>1. ShapeInv'
    BY <1>0 DEF ShapeInv, LeftOK
  <1>2. PICK s, k, v : s = down[c] /\ k = client[c].cookie /\ v = durable.version
    OBVIOUS
  <1>3. v \in Nat /\ Frames(s, k, v) /\ s # <<>> /\ Head(s) # Error
    BY <1>0, <1>2 DEF FramesInv, Deliver
  <1>4. /\ Frames(Tail(s), Head(s).cookie, v)
        /\ AllPokes(Tail(s)) <=> AllPokes(s)
        /\ EndOf(Tail(s), Head(s).cookie) = EndOf(s, k)
    BY <1>3, FrameApplied
  <1>5. /\ DOMAIN down' = Clients /\ DOMAIN client' = Clients
        /\ down'[c] = Tail(s) /\ client'[c].cookie = Head(s).cookie
        /\ \A x \in Clients \ {c} : down'[x] = down[x] /\ client'[x] = client[x]
    BY <1>0, <1>2 DEF Deliver, FramesInv, Applied
  <1>6. FramesInv'
    <2>1. ASSUME NEW x \in Clients
          PROVE  Frames(down[x], client[x].cookie, durable.version)' /\ (conn'[x].st = "off" => down'[x] = <<>>)
      <3>1. CASE x = c
        <4>1. conn[c].st # "off"
          BY <1>0, <1>2, <1>3 DEF FramesInv
        <4> QED
          BY <1>0, <1>2, <1>4, <1>5, <3>1, <4>1
      <3>2. CASE x # c
        BY <1>0, <1>5, <3>2 DEF FramesInv
      <3> QED
        BY <3>1, <3>2
    <2> QED
      BY <1>5, <2>1 DEF FramesInv
  <1>7. ASSUME NEW x \in Clients PROVE SameConn(x) /\ Sent(x)' = Sent(x) /\ (Clean(x)' <=> Clean(x))
    <2>1. CASE x = c
      BY <1>0, <1>2, <1>4, <1>5, <2>1 DEF SameConn, Sent, Clean
    <2>2. CASE x # c
      BY <1>0, <1>5, <2>2 DEF SameConn, Sent, Clean
    <2> QED
      BY <2>1, <2>2
  <1> QED
    BY <1>0, <1>1, <1>6, <1>7, SteadyStep

-----------------------------------------------------------------------------
(* Steps that send                                                         *)

(***************************************************************************)
(* What a transition has to send after frames that end where its delivery  *)
(* state dl begins: nothing, an error, or a poke that leads to next.       *)
(***************************************************************************)
Leads(pokes, dl, next, u) ==
    \/ pokes = <<>> /\ BaseCookie(next) = BaseCookie(dl)
    \/ pokes = <<Error>>
    \/ \E poke : pokes = <<poke>> /\ PokeOf(poke, dl, next, u)

Ready(s, k, v, dl, u) ==
    /\ u \in Nat /\ v \in Nat /\ u <= v
    /\ Frames(s, k, v) /\ DeliveryOK(dl)
    /\ AllPokes(s) => BaseCookie(dl) = EndOf(s, k) /\ EndOf(s, k) <= u

Told(s, k, v, dl) ==
    Frames(s, k, v) /\ (AllPokes(s) => BaseCookie(dl) = EndOf(s, k))

LEMMA PokesSent ==
    ASSUME NEW s, NEW k, NEW v, NEW dl, NEW u, Ready(s, k, v, dl, u),
           NEW next, NEW pokes, Leads(pokes, dl, next, u)
    PROVE  Told(s \o pokes, k, v, next)
  <1>0. /\ u \in Nat /\ v \in Nat /\ u <= v /\ Frames(s, k, v) /\ DeliveryOK(dl)
        /\ AllPokes(s) => BaseCookie(dl) = EndOf(s, k) /\ EndOf(s, k) <= u
    BY DEF Ready
  <1>1. CASE pokes = <<>> /\ BaseCookie(next) = BaseCookie(dl)
    <2>1. s \o pokes = s
      <3>1. s \in Seq({s[i] : i \in DOMAIN s})
        BY <1>0 DEF Frames, IsSeq
      <3> QED
        BY <1>1, <3>1, ConcatEmptySeq
    <2> QED
      BY <1>0, <1>1, <2>1 DEF Told
  <1>2. CASE pokes = <<Error>>
    <2>1. Frames(s \o <<Error>>, k, v) /\ ~AllPokes(s \o <<Error>>)
      BY <1>0, FrameAdded
    <2> QED
      BY <1>2, <2>1 DEF Told
  <1>3. CASE \E poke : pokes = <<poke>> /\ PokeOf(poke, dl, next, u)
    <2>1. PICK poke : pokes = <<poke>> /\ PokeOf(poke, dl, next, u)
      BY <1>3
    <2>2. BaseCookie(dl) \in Cookies
      BY <1>0 DEF BaseCookie, DeliveryOK
    <2>3. /\ poke # Error /\ poke.base = BaseCookie(dl) /\ poke.cookie \in Cookies
          /\ poke.cookie = BaseCookie(next) /\ poke.cookie <= u
          /\ poke.base <= u => poke.base <= poke.cookie
      BY <2>1 DEF PokeOf
    <2>4. poke.cookie <= v
      BY <1>0, <2>3 DEF Cookies, NoCookie
    <2>5. LET r == s \o <<poke>>
          IN  /\ Frames(r, k, v)
              /\ AllPokes(r) <=> AllPokes(s) /\ poke # Error
              /\ EndOf(r, k) = poke.cookie
      BY <1>0, <2>2, <2>3, <2>4, FrameAdded
    <2> QED
      BY <2>1, <2>3, <2>5 DEF Told
  <1> QED
    BY <1>1, <1>2, <1>3 DEF Leads

LEMMA SentTogether ==
    ASSUME NEW s, IsSeq(s), NEW p, NEW q,
           p = <<>> \/ \E m : p = <<m>>, q = <<>> \/ \E m : q = <<m>>
    PROVE  s \o (p \o q) = (s \o p) \o q
  <1>1. PICK m : p = <<>> \/ p = <<m>>
    OBVIOUS
  <1>2. PICK n : q = <<>> \/ q = <<n>>
    OBVIOUS
  <1> DEFINE S == {s[i] : i \in DOMAIN s} \cup {m, n}
  <1>3. s \in Seq({s[i] : i \in DOMAIN s})
    BY DEF IsSeq
  <1>4. s \in Seq(S)
    BY <1>3
  <1>5. <<>> \in Seq(S) /\ <<m>> \in Seq(S) /\ <<n>> \in Seq(S)
    OBVIOUS
  <1> HIDE DEF S
  <1>6. p \in Seq(S) /\ q \in Seq(S)
    BY <1>1, <1>2, <1>5
  <1> QED
    BY <1>4, <1>6, ConcatAssociative

(***************************************************************************)
(* A client to whom the step sends nothing.                                *)
(***************************************************************************)
LEMMA Elsewhere ==
    ASSUME ShapeInv, ShapeInv', FramesInv, DeliveriesInv, PendingInv,
           durable.version <= durable'.version, NEW x \in Clients,
           conn'[x] = conn[x], down'[x] = down[x], client'[x] = client[x],
           work' = work \/ (work.c # x /\ work' = Idle)
    PROVE  /\ Delivers(x)' /\ Keeps(x)'
           /\ Frames(down'[x], client'[x].cookie, durable'.version)
           /\ conn'[x].st = "off" => down'[x] = <<>>
  <1>1. durable.version \in Nat /\ durable'.version \in Nat /\ conn[x].version \in Nat
    BY DEF ShapeInv, Cvrs, ConnOK
  <1>2. Delivers(x) /\ Keeps(x)
    BY DEF DeliveriesInv, PendingInv
  <1>3. Sent(x)' = Sent(x) /\ (Clean(x)' <=> Clean(x))
    BY DEF Sent, Clean
  <1>4. /\ Flushing(x)' <=> Flushing(x)
        /\ Free(x)' <=> Free(x)
        /\ Flushing(x) => work' = work
    BY DEF Flushing, Free, Idle
  <1>5. BaseCookie(At(x))' = BaseCookie(At(x))
    <2>1. At(x)' = At(x)
      BY <1>4 DEF At
    <2> QED
      BY <2>1 DEF BaseCookie
  <1>6. Delivers(x)'
    BY <1>2, <1>3, <1>5 DEF Delivers
  <1>7. Keeps(x)'
    <2> HIDE DEF Flushing
    <2> QED
      BY <1>1, <1>2, <1>3, <1>4 DEF Keeps
  <1>8. Frames(down[x], client[x].cookie, durable'.version)
    <2>1. Frames(down[x], client[x].cookie, durable.version)
      BY DEF FramesInv
    <2> QED
      BY <1>1, <2>1, LaterFrames
  <1> QED
    BY <1>6, <1>7, <1>8 DEF FramesInv

LEMMA DisconnectInv ==
    ASSUME ConnectionInv, NEW c \in Clients, Disconnect(c)
    PROVE  ConnectionInv'
  <1>0. /\ ShapeInv /\ GotBy(durable, durable.version) /\ FramesInv /\ DeliveriesInv /\ StagedInv
        /\ FlushInv /\ LockInv /\ PendingInv /\ durable.version \in Nat
    BY DEF ConnectionInv, ShapeInv, Cvrs
  <1>1. ShapeInv'
    BY <1>0, DisconnectShape
  <1>2. /\ UNCHANGED <<durable, work, client>> /\ (work # Idle => work.c # c)
        /\ DOMAIN down' = Clients /\ DOMAIN client' = Clients /\ down'[c] = <<>> /\ conn'[c] = Offline
        /\ \A x \in Clients \ {c} : down'[x] = down[x] /\ conn'[x] = conn[x]
    BY <1>0 DEF Disconnect, Free, FramesInv, ShapeInv
  <1>3. ASSUME NEW x \in Clients \ {c}
        PROVE  /\ Delivers(x)' /\ Keeps(x)'
               /\ Frames(down'[x], client'[x].cookie, durable'.version)
               /\ conn'[x].st = "off" => down'[x] = <<>>
    BY <1>0, <1>1, <1>2, Elsewhere
  <1>4. Delivers(c)' /\ Keeps(c)'
    BY <1>2, OfflineOK, StampedNone DEF Delivers, Keeps
  <1>5. Frames(down'[c], client'[c].cookie, durable'.version)
    <2>1. client[c].cookie \in Cookies /\ client[c].cookie <= durable.version
      BY <1>0 DEF FramesInv, Frames
    <2> QED
      BY <1>0, <1>2, <2>1, NoFrames
  <1>6. FramesInv'
    BY <1>2, <1>3, <1>5 DEF FramesInv
  <1>7. work # Idle => /\ work.c \in Clients \ {c} /\ conn'[work.c] = conn[work.c]
                       /\ Sent(work.c)' = Sent(work.c) /\ (Clean(work.c)' <=> Clean(work.c))
    BY <1>0, <1>2, WorkTyped DEF Sent, Clean
  <1>8. StagedInv'
    BY <1>0, <1>2, <1>7 DEF StagedInv, Idle
  <1>9. FlushInv'
    BY <1>0, <1>2, <1>7 DEF FlushInv, PokeOf, BaseCookie, Idle
  <1>10. LockInv'
    BY <1>0, <1>2, <1>7 DEF LockInv
  <1>11. GotBy(durable, durable.version)'
    BY <1>0, <1>2
  <1>12. DeliveriesInv' /\ PendingInv'
    BY <1>3, <1>4 DEF DeliveriesInv, PendingInv
  <1> QED
    BY <1>1, <1>6, <1>8, <1>9, <1>10, <1>11, <1>12 DEF ConnectionInv

LEMMA FailFlushInv ==
    ASSUME ConnectionInv, NEW c \in Clients, work.st = "flush", c = work.c, FailFlush(c), LeftOK'
    PROVE  ConnectionInv'
  <1>0. /\ ShapeInv /\ GotBy(durable, durable.version) /\ FramesInv /\ DeliveriesInv
        /\ PendingInv /\ durable.version \in Nat
    BY DEF ConnectionInv, ShapeInv, Cvrs
  <1>1. ShapeInv'
    BY <1>0, FailFlushShape
  <1>2. /\ OnlyConn(c, {"st", "notified"})
        /\ conn'[c].st = IF work.kind = "desire" THEN "closing" ELSE conn[c].st
    BY <1>0, FailFlushEffect, Zenon
  <1>3. /\ UNCHANGED <<durable, client>> /\ work' = Idle
        /\ down' = [down EXCEPT ![c] = @ \o <<Error>>] /\ DOMAIN down = Clients /\ DOMAIN client = Clients
    BY <1>0 DEF FailFlush, Send, FramesInv
  <1>4. /\ DOMAIN down' = Clients /\ DOMAIN client' = Clients /\ down'[c] = down[c] \o <<Error>>
        /\ \A x \in Clients \ {c} : down'[x] = down[x] /\ conn'[x] = conn[x]
    BY <1>2, <1>3 DEF OnlyConn
  <1>5. ASSUME NEW x \in Clients \ {c}
        PROVE  /\ Delivers(x)' /\ Keeps(x)'
               /\ Frames(down'[x], client'[x].cookie, durable'.version)
               /\ conn'[x].st = "off" => down'[x] = <<>>
    BY <1>0, <1>1, <1>3, <1>4, Elsewhere
  <1>6. Frames(down'[c], client'[c].cookie, durable'.version) /\ ~Clean(c)'
    <2>1. PICK s, k, v : /\ s = down[c] /\ k = client[c].cookie /\ v = durable.version
                         /\ v \in Nat /\ Frames(s, k, v)
      BY <1>0 DEF FramesInv
    <2>2. Frames(s \o <<Error>>, k, v) /\ ~AllPokes(s \o <<Error>>)
      BY <2>1, FrameAdded
    <2> QED
      BY <1>3, <1>4, <2>1, <2>2 DEF Clean
  <1>7. conn'[c].st # "off"
    <2>1. work # Idle
      BY DEF Idle
    <2> QED
      BY <1>0, <1>2, <2>1 DEF ShapeInv
  <1>8. Delivers(c)'
    BY <1>6 DEF Delivers
  <1>9. Keeps(c)'
    <2>1. Keeps(c) /\ Flushing(c)
      BY <1>0 DEF PendingInv, Flushing
    <2>2. conn'[c].pending = conn[c].pending /\ conn'[c].version = conn[c].version
      BY <1>2 DEF OnlyConn, ConnFields
    <2>3. ~Flushing(c)'
      BY <1>3 DEF Flushing, Idle
    <2> HIDE DEF Flushing
    <2> QED
      BY <1>2, <1>6, <2>1, <2>2, <2>3 DEF Keeps
  <1>10. FramesInv'
    BY <1>4, <1>5, <1>6, <1>7 DEF FramesInv
  <1>11. StagedInv' /\ FlushInv' /\ LockInv'
    BY <1>3 DEF StagedInv, FlushInv, LockInv, Idle
  <1>12. GotBy(durable, durable.version)'
    BY <1>0, <1>3
  <1>13. DeliveriesInv' /\ PendingInv'
    BY <1>5, <1>8, <1>9 DEF DeliveriesInv, PendingInv
  <1> QED
    BY <1>1, <1>10, <1>11, <1>12, <1>13 DEF ConnectionInv

LEMMA GiveUpInv ==
    ASSUME ConnectionInv, GiveUp \/ FlushFails
    PROVE  ConnectionInv'
  <1>1. ShapeInv /\ work.st = "flush" /\ FailFlush(work.c)
    BY DEF ConnectionInv, GiveUp, FlushFails
  <1>2. LeftOK'
    BY <1>1, SpentLeft DEF GiveUp, FlushFails, ShapeInv, LeftOK
  <1>3. PICK c \in Clients : c = work.c
    BY <1>1, WorkTyped DEF FlushOK
  <1> QED
    BY <1>1, <1>2, <1>3, FailFlushInv

LEMMA FlushStepInv ==
    ASSUME ConnectionInv, Flush
    PROVE  ConnectionInv'
  <1>0. /\ ShapeInv /\ FramesInv /\ DeliveriesInv /\ FlushInv /\ LockInv /\ PendingInv
        /\ durable.version \in Nat
    BY DEF ConnectionInv, ShapeInv, Cvrs
  <1>1. ShapeInv'
    BY <1>0, FlushShape
  <1>2. PICK c \in Clients : c = work.c /\ work # Idle /\ FlushOK(work) /\ work.st = "flush"
    BY <1>0, WorkTyped DEF Flush, FlushOK
  <1>3. PICK v \in Nat : v = work.cvr.version /\ durable.version <= v
    BY <1>0, <1>2 DEF FlushOK, Cvrs, Flush, Swapped, FlushInv
  <1>4. /\ durable' = work.cvr /\ durable'.version = v /\ work' = Idle /\ UNCHANGED client
        /\ DOMAIN down = Clients /\ DOMAIN client = Clients
    BY <1>0, <1>3 DEF Flush, FramesInv
  <1> DEFINE b == BuildPoke(conn[c].delivery, conn[c].pending, work.cvr.version, replica.lmids)
  <1>5. /\ OnlyConn(c, {"st", "notified", "header", "delivery", "pending"})
        /\ conn'[c].st = (IF Closes THEN "closing" ELSE conn[c].st)
        /\ conn'[c].delivery = (IF Follows(c) THEN b.delivery ELSE conn[c].delivery)
        /\ conn'[c].pending = (IF Follows(c) THEN NoPatches ELSE conn[c].pending)
        /\ down' = [down EXCEPT ![c] = @ \o IF Follows(c) THEN work.pokes \o b.pokes ELSE work.pokes]
    BY <1>0, <1>2, FlushEffect, Zenon
  <1>6. PICK s, k, dl, mid, pending, lmids, pokes :
          /\ s = down[c] /\ k = client[c].cookie /\ dl = work.delivery /\ mid = conn[c].delivery
          /\ pending = conn[c].pending /\ lmids = replica.lmids /\ pokes = work.pokes
    OBVIOUS
  <1>7. PICK more, next : /\ more = BuildPoke(mid, pending, v, lmids).pokes
                          /\ next = BuildPoke(mid, pending, v, lmids).delivery
    OBVIOUS
  <1>8. b.pokes = more /\ b.delivery = next
    BY <1>3, <1>6, <1>7
  <1> HIDE DEF b
  <1>9. /\ DOMAIN down' = Clients /\ DOMAIN client' = Clients
        /\ down'[c] = s \o IF Follows(c) THEN pokes \o more ELSE pokes
        /\ conn'[c].delivery = (IF Follows(c) THEN next ELSE mid)
        /\ conn'[c].pending = (IF Follows(c) THEN NoPatches ELSE pending)
        /\ conn'[c].version = conn[c].version
        /\ \A x \in Clients \ {c} : down'[x] = down[x] /\ conn'[x] = conn[x]
    BY <1>4, <1>5, <1>6, <1>8 DEF OnlyConn, ConnFields
  <1>10. ConnOK(conn[c]) /\ DeliveryOK(dl) /\ DeliveryOK(mid) /\ conn[c].st # "off"
    BY <1>0, <1>2, <1>6 DEF ShapeInv, ConnOK, FlushOK
  <1>11. Frames(s, k, durable.version) /\ Frames(s, k, v)
    <2>1. Frames(s, k, durable.version)
      BY <1>0, <1>6 DEF FramesInv
    <2> QED
      BY <1>0, <1>3, <2>1, LaterFrames
  <1>12. AllPokes(s) => BaseCookie(dl) = EndOf(s, k) /\ EndOf(s, k) <= v
    <2>1. Clean(c) => BaseCookie(dl) = Sent(c)
      BY <1>0, <1>2, <1>6, <1>10 DEF DeliveriesInv, Delivers, At, Flushing
    <2>2. AllPokes(s) => EndOf(s, k) <= v
      BY <1>11, EndOfFrames
    <2> QED
      BY <1>6, <2>1, <2>2 DEF Clean, Sent
  <1>13. Leads(pokes, dl, mid, v) /\ (pokes = <<>> \/ \E m : pokes = <<m>>)
    BY <1>0, <1>2, <1>3, <1>6 DEF FlushInv, Leads
  <1>14. PICK t : t = s \o pokes /\ Frames(t, k, v) /\ (AllPokes(t) => BaseCookie(mid) = EndOf(t, k))
    <2>1. Ready(s, k, v, dl, v)
      BY <1>3, <1>10, <1>11, <1>12 DEF Ready
    <2>2. Told(s \o pokes, k, v, mid)
      BY <1>13, <2>1, PokesSent
    <2> QED
      BY <2>2 DEF Told
  <1>15. /\ Frames(down'[c], k, v)
         /\ AllPokes(down'[c]) => BaseCookie(conn'[c].delivery) = EndOf(down'[c], k)
    <2>1. CASE ~Follows(c)
      BY <1>9, <1>14, <2>1
    <2>2. CASE Follows(c)
      <3>1. Stamped(pending, v)
        <4>1. ~IsEmpty(conn[c].pending) /\ Keeps(c) /\ Flushing(c)
          BY <1>0, <1>2, <2>2 DEF Follows, PendingInv, Flushing
        <4> QED
          BY <1>3, <1>6, <4>1 DEF Keeps
      <3>2. \/ more = <<>> /\ next = mid
            \/ \E poke : more = <<poke>> /\ PokeOf(poke, mid, next, v)
        <4>1. LET x == BuildPoke(mid, pending, v, lmids)
              IN  \/ x.pokes = <<>> /\ x.delivery = mid
                  \/ \E poke : x.pokes = <<poke>> /\ PokeOf(poke, mid, x.delivery, v)
          BY <1>10, <3>1, BuildsPoke
        <4> QED
          BY <1>7, <4>1, Zenon
      <3>3. Leads(more, mid, next, v) /\ (more = <<>> \/ \E m : more = <<m>>)
        BY <3>2 DEF Leads
      <3>4. AllPokes(t) => EndOf(t, k) <= v
        BY <1>14, EndOfFrames
      <3>5. PICK u : u = t \o more /\ Frames(u, k, v) /\ (AllPokes(u) => BaseCookie(next) = EndOf(u, k))
        <4>1. Ready(t, k, v, mid, v)
          BY <1>3, <1>10, <1>14, <3>4 DEF Ready
        <4>2. Told(t \o more, k, v, next)
          BY <3>3, <4>1, PokesSent
        <4> QED
          BY <4>2 DEF Told
      <3>6. s \o (pokes \o more) = u
        <4>1. IsSeq(s)
          BY <1>11 DEF Frames
        <4> QED
          BY <1>13, <1>14, <3>3, <3>5, <4>1, SentTogether
      <3> QED
        BY <1>9, <2>2, <3>5, <3>6
    <2> QED
      BY <2>1, <2>2
  <1>16. ASSUME NEW x \in Clients \ {c}
         PROVE  /\ Delivers(x)' /\ Keeps(x)'
                /\ Frames(down'[x], client'[x].cookie, durable'.version)
                /\ conn'[x].st = "off" => down'[x] = <<>>
    BY <1>0, <1>1, <1>2, <1>3, <1>4, <1>9, Elsewhere
  <1>17. conn'[c].st # "off"
    BY <1>5, <1>10
  <1>18. FramesInv'
    <2>1. Frames(down'[c], client'[c].cookie, durable'.version)
      BY <1>4, <1>6, <1>15
    <2> QED
      BY <1>9, <1>16, <1>17, <2>1 DEF FramesInv
  <1>19. Delivers(c)'
    <2>1. At(c)' = conn'[c].delivery
      BY <1>4 DEF At, Flushing, Idle
    <2>2. BaseCookie(At(c))' = BaseCookie(conn'[c].delivery)
      BY <2>1 DEF BaseCookie
    <2> QED
      BY <1>4, <1>6, <1>15, <2>2 DEF Delivers, Sent, Clean
  <1>20. Keeps(c)'
    <2>1. CASE Follows(c)
      BY <1>9, <2>1, StampedNone DEF Keeps
    <2>2. CASE ~Follows(c)
      <3>1. Keeps(c) /\ Flushing(c) /\ ~Flushing(c)'
        BY <1>0, <1>2, <1>4 DEF PendingInv, Flushing, Idle
      <3>2. Clean(c)' => Sent(c)' <= v
        <4>1. AllPokes(down'[c]) => EndOf(down'[c], k) <= v
          BY <1>15, EndOfFrames
        <4> QED
          BY <1>4, <1>6, <4>1 DEF Clean, Sent
      <3> HIDE DEF Flushing
      <3>3. ~IsEmpty(pending) => Stamped(pending, v) /\ conn[c].version = v
        BY <1>3, <1>6, <3>1 DEF Keeps
      <3> QED
        BY <1>4, <1>9, <2>2, <3>1, <3>2, <3>3 DEF Keeps
    <2> QED
      BY <2>1, <2>2
  <1>21. StagedInv' /\ FlushInv' /\ LockInv'
    BY <1>4 DEF StagedInv, FlushInv, LockInv, Idle
  <1>22. GotBy(durable, durable.version)'
    BY <1>0, <1>2, <1>4 DEF FlushInv, GotBy
  <1>23. DeliveriesInv' /\ PendingInv'
    BY <1>16, <1>19, <1>20 DEF DeliveriesInv, PendingInv
  <1> QED
    BY <1>1, <1>18, <1>21, <1>22, <1>23 DEF ConnectionInv

LEMMA OtherMessageInv ==
    ASSUME ConnectionInv, NEW c \in Clients, OtherMessage(c)
    PROVE  ConnectionInv'
  <1>0. /\ ShapeInv /\ GotBy(durable, durable.version) /\ FramesInv /\ DeliveriesInv /\ StagedInv
        /\ FlushInv /\ LockInv /\ PendingInv /\ durable.version \in Nat
    BY DEF ConnectionInv, ShapeInv, Cvrs
  <1>1. ShapeInv'
    BY <1>0, OtherMessageShape
  <1>2. /\ conn[c].st = "open" /\ Free(c) /\ ~IsEmpty(conn[c].pending)
        /\ UNCHANGED <<durable, work, client>> /\ DOMAIN down = Clients /\ DOMAIN client = Clients
    BY <1>0 DEF OtherMessage, FramesInv
  <1> DEFINE b == BuildPoke(conn[c].delivery, conn[c].pending, conn[c].version, replica.lmids)
  <1>3. /\ OnlyConn(c, {"delivery", "pending"})
        /\ conn'[c].delivery = b.delivery /\ conn'[c].pending = NoPatches
        /\ down' = [down EXCEPT ![c] = @ \o b.pokes]
    BY <1>0, OtherMessageEffect, Zenon
  <1>4. PICK s, k, dl, pending, lmids, u, v :
          /\ s = down[c] /\ k = client[c].cookie /\ dl = conn[c].delivery
          /\ pending = conn[c].pending /\ lmids = replica.lmids
          /\ u = conn[c].version /\ v = durable.version
    OBVIOUS
  <1>5. PICK pokes, next : /\ pokes = BuildPoke(dl, pending, u, lmids).pokes
                           /\ next = BuildPoke(dl, pending, u, lmids).delivery
    OBVIOUS
  <1>6. b.pokes = pokes /\ b.delivery = next
    BY <1>4, <1>5
  <1> HIDE DEF b
  <1>7. /\ DOMAIN down' = Clients /\ DOMAIN client' = Clients /\ down'[c] = s \o pokes
        /\ conn'[c].delivery = next /\ conn'[c].pending = NoPatches /\ conn'[c].st = conn[c].st
        /\ \A x \in Clients \ {c} : down'[x] = down[x] /\ conn'[x] = conn[x]
    BY <1>2, <1>3, <1>4, <1>6 DEF OnlyConn, ConnFields
  <1>8. u \in Nat /\ v \in Nat /\ DeliveryOK(dl) /\ Frames(s, k, v)
    BY <1>0, <1>4 DEF ShapeInv, ConnOK, FramesInv
  <1>9. /\ Stamped(pending, u) /\ u <= v
        /\ AllPokes(s) => BaseCookie(dl) = EndOf(s, k) /\ EndOf(s, k) <= u
    <2>1. Keeps(c) /\ Delivers(c)
      BY <1>0 DEF PendingInv, DeliveriesInv
    <2>2. Stamped(pending, u) /\ u <= v /\ (Clean(c) => Sent(c) <= u)
      BY <1>2, <1>4, <2>1 DEF Keeps
    <2>3. ~Flushing(c)
      BY <1>2 DEF Flushing, Free, Idle
    <2>4. Clean(c) => BaseCookie(dl) = Sent(c)
      BY <1>2, <1>4, <2>1, <2>3 DEF Delivers, At
    <2> QED
      BY <1>4, <2>2, <2>4 DEF Clean, Sent
  <1>10. Leads(pokes, dl, next, u)
    <2>1. LET x == BuildPoke(dl, pending, u, lmids)
          IN  \/ x.pokes = <<>> /\ x.delivery = dl
              \/ \E poke : x.pokes = <<poke>> /\ PokeOf(poke, dl, x.delivery, u)
      BY <1>8, <1>9, BuildsPoke
    <2>2. \/ pokes = <<>> /\ next = dl
          \/ \E poke : pokes = <<poke>> /\ PokeOf(poke, dl, next, u)
      BY <1>5, <2>1, Zenon
    <2> QED
      BY <2>2 DEF Leads
  <1>11. PICK t : t = s \o pokes /\ Frames(t, k, v) /\ (AllPokes(t) => BaseCookie(next) = EndOf(t, k))
    <2>1. Ready(s, k, v, dl, u)
      BY <1>8, <1>9 DEF Ready
    <2>2. Told(s \o pokes, k, v, next)
      BY <1>10, <2>1, PokesSent
    <2> QED
      BY <2>2 DEF Told
  <1>12. ASSUME NEW x \in Clients \ {c}
         PROVE  /\ Delivers(x)' /\ Keeps(x)'
                /\ Frames(down'[x], client'[x].cookie, durable'.version)
                /\ conn'[x].st = "off" => down'[x] = <<>>
    BY <1>0, <1>1, <1>2, <1>7, Elsewhere
  <1>13. FramesInv'
    <2>1. Frames(down'[c], client'[c].cookie, durable'.version)
      BY <1>2, <1>4, <1>7, <1>11
    <2> QED
      BY <1>2, <1>7, <1>12, <2>1 DEF FramesInv
  <1>14. Delivers(c)'
    <2>1. ~Flushing(c)'
      BY <1>2 DEF Flushing, Free, Idle
    <2>2. At(c)' = next
      BY <1>7, <2>1 DEF At
    <2>3. BaseCookie(At(c))' = BaseCookie(next)
      BY <2>2 DEF BaseCookie
    <2> QED
      BY <1>2, <1>4, <1>7, <1>11, <2>3 DEF Delivers, Sent, Clean
  <1>15. Keeps(c)'
    BY <1>7, StampedNone DEF Keeps
  <1>16. work # Idle => /\ work.c \in Clients \ {c} /\ conn'[work.c] = conn[work.c]
                        /\ Sent(work.c)' = Sent(work.c) /\ (Clean(work.c)' <=> Clean(work.c))
    BY <1>0, <1>2, <1>7, WorkTyped DEF Sent, Clean, Free
  <1>17. StagedInv'
    BY <1>0, <1>2, <1>16 DEF StagedInv, Idle
  <1>18. FlushInv'
    BY <1>0, <1>2, <1>16 DEF FlushInv, PokeOf, BaseCookie, Idle
  <1>19. LockInv'
    BY <1>0, <1>2, <1>16 DEF LockInv
  <1>20. GotBy(durable, durable.version)'
    BY <1>0, <1>2
  <1>21. DeliveriesInv' /\ PendingInv'
    BY <1>12, <1>14, <1>15 DEF DeliveriesInv, PendingInv
  <1> QED
    BY <1>1, <1>13, <1>17, <1>18, <1>19, <1>20, <1>21 DEF ConnectionInv

-----------------------------------------------------------------------------
(* The invariant                                                           *)

LEMMA InitiallyConnected == Init => ConnectionInv
  <1> SUFFICES ASSUME Init PROVE ConnectionInv
    OBVIOUS
  <1>1. /\ replica.ver = 0 /\ durable = EmptyCvr /\ conn = [c \in Clients |-> Offline] /\ work = Idle
        /\ down = [c \in Clients |-> <<>>] /\ client = [c \in Clients |-> NewClient]
        /\ trust = [c \in Clients |-> [r \in Rows |-> "unknown"]] /\ left \in Budgets
    BY DEF Init
  <1>2. LeftOK
    BY <1>1, LiveConnectionAssumption DEF LeftOK, Budget, PatchOK
  <1>3. durable \in Cvrs /\ durable.version = 0 /\ GotBy(durable, durable.version)
    BY <1>1, EmptyCvrTyped
  <1>4. \A c \in Clients : conn[c] = Offline /\ ConnOK(conn[c]) /\ Notices(conn[c])
    BY <1>1, OfflineOK, Zenon
  <1>5. trust \in [Clients -> [Rows -> Trusts]]
    BY <1>1 DEF Trusts
  <1>6. ShapeInv
    BY <1>1, <1>2, <1>3, <1>4, <1>5 DEF ShapeInv, WorkOK
  <1>7. FramesInv
    <2>1. ASSUME NEW c \in Clients
          PROVE  Frames(down[c], client[c].cookie, durable.version) /\ down[c] = <<>>
      <3>1. down[c] = <<>> /\ client[c].cookie = NoCookie
        BY <1>1 DEF NewClient
      <3>2. NoCookie \in Cookies /\ NoCookie <= 0
        BY DEF NoCookie, Cookies
      <3> QED
        BY <1>3, <3>1, <3>2, NoFrames
    <2> QED
      BY <1>1, <2>1 DEF FramesInv
  <1>8. DeliveriesInv /\ PendingInv
    BY <1>4, OfflineOK, StampedNone DEF DeliveriesInv, Delivers, PendingInv, Keeps
  <1>9. StagedInv /\ FlushInv /\ LockInv
    BY <1>1 DEF StagedInv, FlushInv, LockInv, Idle
  <1> QED
    BY <1>3, <1>6, <1>7, <1>8, <1>9 DEF ConnectionInv

LEMMA StutterConnected ==
    ASSUME ConnectionInv, UNCHANGED vars
    PROVE  ConnectionInv'
  <1>1. ShapeInv'
    BY DEF ConnectionInv, ShapeInv, LeftOK, vars
  <1>2. UNCHANGED <<durable, work, down, client, conn>> /\ durable.version \in Nat
    BY DEF vars, ConnectionInv, ShapeInv, Cvrs
  <1>3. \A c \in Clients : SameConn(c)
    BY <1>2 DEF SameConn
  <1>4. /\ FramesInv'
        /\ \A c \in Clients : Sent(c)' = Sent(c) /\ (Clean(c)' <=> Clean(c))
    BY <1>2, SameFrames DEF ConnectionInv
  <1>5. GotBy(durable, durable.version)'
    BY <1>2 DEF ConnectionInv
  <1> QED
    BY <1>1, <1>2, <1>3, <1>4, <1>5, SteadyStep

LEMMA StepConnected ==
    ASSUME ConnectionInv, [Next]_vars
    PROVE  ConnectionInv'
  <1>1. CASE UNCHANGED vars
    BY <1>1, StutterConnected
  <1>2. ASSUME NEW w, Commit(w) PROVE ConnectionInv'
    BY <1>2, CommitInv
  <1>3. ASSUME NEW c \in left.clients, NEW header, Connect(c, header) PROVE ConnectionInv'
    <2>1. c \in Clients
      BY DEF ConnectionInv, ShapeInv, LeftOK
    <2> QED
      BY <1>3, <2>1, ConnectInv
  <1>4. ASSUME NEW c \in Clients, Disconnect(c) \/ Deliver(c) \/ Rehydrate(c) \/ OtherMessage(c)
        PROVE  ConnectionInv'
    BY <1>4, DisconnectInv, DeliverInv, RehydrateInv, OtherMessageInv
  <1>5. ASSUME NEW c \in Clients, NEW patch \in left.patches, Desire(c, patch) PROVE ConnectionInv'
    BY <1>5, DesireInv
  <1>6. ASSUME NEW q \in Queries, AdvanceForPut(q) \/ SkipPut(q) PROVE ConnectionInv'
    BY <1>6, AdvanceForPutInv, SkipPutInv
  <1>7. ASSUME Rewire \/ Hydrate \/ Build \/ Flush \/ Retry \/ Restart PROVE ConnectionInv'
    BY <1>7, RewireInv, HydrateInv, BuildInv, FlushStepInv, RetryInv, RestartInv
  <1>8. ASSUME GiveUp \/ FlushFails PROVE ConnectionInv'
    BY <1>8, GiveUpInv
  <1>9. ASSUME NEW done, AdvanceFails(done) PROVE ConnectionInv'
    BY <1>9, AdvanceFailsInv
  <1>10. CASE OtherNode
    BY <1>10, OtherNodeInv
  <1> QED
    BY <1>1, <1>2, <1>3, <1>4, <1>5, <1>6, <1>7, <1>8, <1>9, <1>10 DEF Next, Transition

LEMMA AlwaysConnected == Spec => []ConnectionInv
  <1>1. Init => ConnectionInv
    BY InitiallyConnected
  <1>2. ConnectionInv /\ [Next]_vars => ConnectionInv'
    BY StepConnected
  <1> QED
    BY <1>1, <1>2, PTL DEF Spec

LEMMA FramesFollowOn ==
    ASSUME ShapeInv, FramesInv
    PROVE  PokesFollowOn
  <1> SUFFICES ASSUME NEW c \in Clients
               PROVE  /\ \A i \in Applicable(c) :
                           /\ down[c][i].base = IF i = 1 THEN client[c].cookie ELSE down[c][i - 1].cookie
                           /\ down[c][i].base <= down[c][i].cookie
                           /\ down[c][i].cookie <= durable.version
                      /\ client[c].cookie <= durable.version
    BY DEF PokesFollowOn
  <1>1. Frames(down[c], client[c].cookie, durable.version)
    BY DEF FramesInv
  <1> QED
    BY <1>1 DEF Frames, Applicable

(***************************************************************************)
(* The state of the connections of a group, of the transition that holds   *)
(* its lock and of the history keeps its type, whatever the clients ask,   *)
(* other nodes commit and fails.                                           *)
(***************************************************************************)
THEOREM ConnectionsTyped == Spec => []TypeOK
  <1>1. ConnectionInv => TypeOK
    BY ShapeMeansType DEF ConnectionInv
  <1> QED
    BY <1>1, AlwaysConnected, PTL

(***************************************************************************)
(* Every poke on its way to a client starts from the cookie that the       *)
(* client will have when it comes, and none has a cookie that the durable  *)
(* CVR has not reached: for every number of clients, queries and rows,     *)
(* however often a transition loses its compare-and-swap and is retried    *)
(* from the delivery state it began with, and whether or not a hydration   *)
(* is kept back for a poke of its own.                                     *)
(***************************************************************************)
THEOREM ConnectionPokesFollowOn == Spec => []PokesFollowOn
  <1>1. ConnectionInv => PokesFollowOn
    BY FramesFollowOn DEF ConnectionInv
  <1> QED
    BY <1>1, AlwaysConnected, PTL
=============================================================================
