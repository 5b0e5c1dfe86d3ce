------------------------ MODULE GroupProcessorProofs ------------------------
(* Proofs about GroupProcessor, for every value of its constants.          *)
EXTENDS GroupProcessor, GroupTransitionProofs, FiniteSetTheorems, TLAPS

(***************************************************************************)
(* Records and sequences by the fields and the elements that the control   *)
(* of the group depends on.                                                *)
(***************************************************************************)
LoopFields ==
    {"st", "queue", "notified", "cvr", "tracked", "bodies", "prints", "conns", "gen", "work"}

SessionFields == {"st", "c", "loop", "gen", "ready", "puts"}

ConnFields == {"s", "gen", "delivery"}

WorkFields ==
    {"st", "kind", "s", "c", "ast", "before", "todo", "q", "puts", "dels", "newly",
     "config", "patches", "hydration"}

SessionOK(s) ==
    /\ sess[s].st \in {"none", "setup", "attach", "open", "wait", "closing", "gone"}
    /\ sess[s].st # "none" =>
         /\ DOMAIN sess[s] = SessionFields
         /\ sess[s].c \in Clients /\ sess[s].gen \in Nat
         /\ sess[s].loop \in Loops \cup {0}
         /\ sess[s].st \notin {"setup", "gone"} => sess[s].loop \in Loops
         /\ sess[s].st = "setup" => sess[s].loop = 0

LoopOK(l) ==
    /\ DOMAIN loops[l] = LoopFields
    /\ loops[l].st \in {"none", "run", "over"}
    /\ loops[l].gen \in Nat
    /\ IsSeq(loops[l].queue)
    /\ \A c \in DOMAIN loops[l].conns : DOMAIN loops[l].conns[c] = ConnFields
    /\ loops[l].work.st \in {"idle", "put", "hydrate", "commit"}
    /\ loops[l].work.st \in {"put", "hydrate"} => DOMAIN loops[l].work = WorkFields
    /\ loops[l].work.st = "hydrate" => loops[l].work.q \in Queries
    /\ loops[l].st # "run" =>
         loops[l].queue = <<>> /\ DOMAIN loops[l].conns = {} /\ loops[l].work.st = "idle"

ShapeInv ==
    /\ DOMAIN sess = Sessions /\ \A s \in Sessions : SessionOK(s)
    /\ DOMAIN loops = Loops /\ \A l \in Loops : LoopOK(l)
    /\ cur \in [Clients -> Sessions \cup {0}]

(***************************************************************************)
(* Connections are made one after the other, and the one a client is on is *)
(* its last.                                                               *)
(***************************************************************************)
Joined(s, l) == sess[s].st # "none" /\ sess[s].loop = l

SessionsInv ==
    /\ \A s \in Sessions, t \in Sessions :
          s < t /\ sess[t].st # "none" => sess[s].st # "none"
    /\ \A c \in Clients :
          cur[c] # 0 =>
            /\ sess[cur[c]].st # "none" /\ sess[cur[c]].c = c
            /\ \A t \in Sessions : cur[c] < t /\ sess[t].st # "none" => sess[t].c # c
    /\ \A l \in Loops :
          /\ loops[l].st # "none" <=> \E s \in Sessions : Joined(s, l)
          /\ \A s \in Sessions : HoldsLoop(s, l) => loops[l].st = "run"

(***************************************************************************)
(* A command in the queue is the one its connection waits for, the last    *)
(* one when it is a Detach; a Desire that is under way is no more in the   *)
(* queue, and its client is attached.                                      *)
(***************************************************************************)
CommandOK(l, m) ==
    /\ m.s \in Sessions /\ Joined(m.s, l) /\ m.c = sess[m.s].c
    /\ \/ m.op = "attach" /\ sess[m.s].st = "attach"
       \/ m.op = "desire" /\ sess[m.s].st = "wait"
       \/ m.op = "detach" /\ sess[m.s].st \in {"closing", "gone"} /\ m.gen = sess[m.s].gen

Busy(l) == loops[l].work.st \in {"put", "hydrate"}

CommandsInv ==
    \A l \in Loops :
        LET q == loops[l].queue
            w == loops[l].work
        IN  /\ \A i \in 1..Len(q) : CommandOK(l, q[i])
            /\ \A i \in 1..Len(q), j \in 1..Len(q) : q[i].s = q[j].s => i = j
            /\ Busy(l) =>
                 /\ w.s \in Sessions /\ Joined(w.s, l) /\ sess[w.s].st = "wait"
                 /\ w.c = sess[w.s].c /\ w.c \in DOMAIN loops[l].conns
                 /\ \A i \in 1..Len(q) : q[i].s # w.s

(***************************************************************************)
(* Generations tell the connections that attached to a loop apart, and the *)
(* loop pokes the client's last one, until its Detach is done.             *)
(***************************************************************************)
HasAttached(s, l) == sess[s].st \in {"open", "wait", "closing", "gone"} /\ sess[s].loop = l

Detaching(s, l) ==
    \E i \in 1..Len(loops[l].queue) : loops[l].queue[i].op = "detach" /\ loops[l].queue[i].s = s

GenerationsInv ==
    \A l \in {x \in Loops : loops[x].st = "run"} :
        /\ \A s \in Sessions : HasAttached(s, l) => sess[s].gen < loops[l].gen
        /\ \A s \in Sessions, t \in Sessions :
              HasAttached(s, l) /\ HasAttached(t, l) /\ sess[s].gen = sess[t].gen => s = t

AttachedInv ==
    \A l \in Loops :
        LET conns == loops[l].conns
        IN  /\ \A c \in DOMAIN conns :
                 /\ conns[c].s \in Sessions /\ HasAttached(conns[c].s, l)
                 /\ sess[conns[c].s].c = c /\ sess[conns[c].s].gen = conns[c].gen
                 /\ sess[conns[c].s].st \in {"open", "wait"} \/ Detaching(conns[c].s, l)
            /\ \A s \in Sessions :
                 (sess[s].st \in {"open", "wait"} /\ sess[s].loop = l) =>
                    \/ sess[s].c \in DOMAIN conns /\ conns[sess[s].c].s = s
                    \/ \E t \in Sessions : /\ HasAttached(t, l) /\ sess[t].c = sess[s].c
                                           /\ sess[s].gen < sess[t].gen

ControlInv == ShapeInv /\ SessionsInv /\ CommandsInv /\ GenerationsInv /\ AttachedInv

(***************************************************************************)
(* The group service is there for whoever holds it, and its driver runs    *)
(* the queries that have a desirer, but for those it failed to build.      *)
(***************************************************************************)
ServiceOK(svc) ==
    /\ DOMAIN svc = {"live", "driver", "seed", "desirers", "unbuilt"}
    /\ DOMAIN svc.driver = {"at", "pipes"}
    /\ DOMAIN svc.desirers = Queries
    /\ svc.unbuilt \subseteq {q \in Queries : svc.desirers[q] # {}}
    /\ DOMAIN svc.driver.pipes = {q \in Queries : svc.desirers[q] # {}} \ svc.unbuilt

Attends(c) == \E l \in Loops : loops[l].st = "run" /\ c \in DOMAIN loops[l].conns

Held == (\E s \in Sessions : sess[s].st = "setup") \/ (\E l \in Loops : loops[l].st = "run")

ServiceInv ==
    /\ Held => service.live
    /\ service.live =>
         /\ ServiceOK(service)
         /\ \A q \in Queries : \A c \in service.desirers[q] : Attends(c)

GroupInv == ControlInv /\ ServiceInv

-----------------------------------------------------------------------------
(* What a step does to the sessions and the loops, field by field          *)

SameConns(l) ==
    /\ DOMAIN loops'[l].conns = DOMAIN loops[l].conns
    /\ \A c \in DOMAIN loops[l].conns :
          /\ DOMAIN loops'[l].conns[c] = ConnFields
          /\ loops'[l].conns[c].s = loops[l].conns[c].s
          /\ loops'[l].conns[c].gen = loops[l].conns[c].gen

SameDesire(l) ==
    /\ Busy(l) /\ loops'[l].work.st \in {"put", "hydrate"}
    /\ DOMAIN loops'[l].work = WorkFields
    /\ loops'[l].work.st = "hydrate" => loops'[l].work.q \in Queries
    /\ loops'[l].work.s = loops[l].work.s /\ loops'[l].work.c = loops[l].work.c

NoDesire(l) ==
    /\ loops'[l].work.st \in {"idle", "commit"}
    /\ loops[l].st # "run" => loops'[l].work.st = "idle"

SameControl(l) ==
    /\ DOMAIN loops'[l] = LoopFields
    /\ loops'[l].st = loops[l].st
    /\ loops'[l].queue = loops[l].queue
    /\ loops'[l].gen = loops[l].gen
    /\ SameConns(l)

OnlyLoop(l) == DOMAIN loops' = Loops /\ \A x \in Loops \ {l} : loops'[x] = loops[x]

OnlySession(s) == DOMAIN sess' = Sessions /\ \A t \in Sessions \ {s} : sess'[t] = sess[t]

Becomes(s, st) ==
    /\ DOMAIN sess'[s] = SessionFields
    /\ sess'[s].st = st /\ sess'[s].c = sess[s].c /\ sess'[s].loop = sess[s].loop
    /\ sess'[s].gen = sess[s].gen

MayLeave ==
    /\ cur' \in [Clients -> Sessions \cup {0}]
    /\ \A c \in Clients : cur'[c] \in {cur[c], 0}

(***************************************************************************)
(* Steps that change only what the control does not depend on, and go on   *)
(* with or end the work of the loops.                                      *)
(***************************************************************************)
Keeps(l) == SameControl(l) /\ (SameDesire(l) \/ NoDesire(l))

LEMMA UnchangedKeeps ==
    ASSUME ShapeInv, NEW l \in Loops, loops'[l] = loops[l]
    PROVE  Keeps(l)
  BY DEF Keeps, SameControl, SameConns, SameDesire, NoDesire, Busy, ShapeInv, LoopOK

(***************************************************************************)
(* What the commands and the attachments of a loop depend on.              *)
(***************************************************************************)
LEMMA CommandStays ==
    ASSUME NEW x, NEW m, CommandOK(x, m), sess'[m.s] = sess[m.s]
    PROVE  CommandOK(x, m)'
  BY DEF CommandOK, Joined

LEMMA CommandsStay ==
    ASSUME NEW x \in Loops, CommandsInv!(x), loops'[x].queue = loops[x].queue,
           DOMAIN loops'[x].conns = DOMAIN loops[x].conns,
           \A i \in 1..Len(loops[x].queue) : sess'[loops[x].queue[i].s] = sess[loops[x].queue[i].s],
           Busy(x)' => /\ Busy(x) /\ sess'[loops[x].work.s] = sess[loops[x].work.s]
                       /\ loops'[x].work.s = loops[x].work.s /\ loops'[x].work.c = loops[x].work.c
    PROVE  (CommandsInv!(x))'
  <1>1. ASSUME NEW i \in 1..Len(loops[x].queue) PROVE CommandOK(x, loops[x].queue[i])'
    <2>1. PICK m : m = loops[x].queue[i] /\ m = loops'[x].queue[i]
      OBVIOUS
    <2>2. CommandOK(x, m) /\ sess'[m.s] = sess[m.s]
      BY <2>1
    <2>3. CommandOK(x, m)'
      BY <2>2, CommandStays
    <2> QED
      BY <2>1, <2>3
  <1>2. \A i \in 1..Len(loops[x].queue), j \in 1..Len(loops[x].queue) :
           loops'[x].queue[i].s = loops'[x].queue[j].s => i = j
    OBVIOUS
  <1>3. ASSUME Busy(x)'
        PROVE  /\ loops'[x].work.s \in Sessions /\ Joined(loops[x].work.s, x)'
               /\ sess'[loops'[x].work.s].st = "wait"
               /\ loops'[x].work.c = sess'[loops'[x].work.s].c
               /\ loops'[x].work.c \in DOMAIN loops'[x].conns
               /\ \A i \in 1..Len(loops[x].queue) : loops'[x].queue[i].s # loops'[x].work.s
    <2>1. PICK s, c : s = loops[x].work.s /\ c = loops[x].work.c
                      /\ s = loops'[x].work.s /\ c = loops'[x].work.c /\ sess'[s] = sess[s]
      BY <1>3
    <2>2. /\ s \in Sessions /\ Joined(s, x) /\ sess[s].st = "wait" /\ c = sess[s].c
          /\ c \in DOMAIN loops[x].conns /\ \A i \in 1..Len(loops[x].queue) : loops[x].queue[i].s # s
      BY <1>3, <2>1
    <2> QED
      BY <2>1, <2>2 DEF Joined
  <1> QED
    BY <1>1, <1>2, <1>3

LEMMA AttachedStays ==
    ASSUME NEW x \in Loops, AttachedInv!(x),
           DOMAIN loops'[x].conns = DOMAIN loops[x].conns,
           \A c \in DOMAIN loops[x].conns : /\ loops'[x].conns[c].s = loops[x].conns[c].s
                                            /\ loops'[x].conns[c].gen = loops[x].conns[c].gen,
           \A t \in Sessions :
              HasAttached(t, x) =>
                 /\ HasAttached(t, x)' /\ sess'[t].c = sess[t].c /\ sess'[t].gen = sess[t].gen
                 /\ (sess[t].st \in {"open", "wait"} \/ Detaching(t, x))
                       => (sess'[t].st \in {"open", "wait"} \/ Detaching(t, x)'),
           \A t \in Sessions :
              (sess'[t].st \in {"open", "wait"} /\ sess'[t].loop = x)
                 => (sess[t].st \in {"open", "wait"} /\ sess[t].loop = x)
    PROVE  (AttachedInv!(x))'
  <1>1. ASSUME NEW c \in DOMAIN loops[x].conns
        PROVE  /\ loops'[x].conns[c].s \in Sessions /\ HasAttached(loops[x].conns[c].s, x)'
               /\ sess'[loops'[x].conns[c].s].c = c
               /\ sess'[loops'[x].conns[c].s].gen = loops'[x].conns[c].gen
               /\ sess'[loops'[x].conns[c].s].st \in {"open", "wait"} \/ Detaching(loops[x].conns[c].s, x)'
    <2>1. PICK h \in Sessions : h = loops[x].conns[c].s
      OBVIOUS
    <2>2. /\ HasAttached(h, x) /\ sess[h].c = c /\ sess[h].gen = loops[x].conns[c].gen
          /\ sess[h].st \in {"open", "wait"} \/ Detaching(h, x)
      BY <2>1
    <2>3. /\ HasAttached(h, x)' /\ sess'[h].c = c /\ sess'[h].gen = loops[x].conns[c].gen
          /\ sess'[h].st \in {"open", "wait"} \/ Detaching(h, x)'
      BY <2>2
    <2>4. loops'[x].conns[c].s = h /\ loops'[x].conns[c].gen = loops[x].conns[c].gen
      BY <2>1
    <2> QED
      BY <2>3, <2>4 DEF HasAttached, Detaching
  <1>2. ASSUME NEW t \in Sessions, sess'[t].st \in {"open", "wait"}, sess'[t].loop = x
        PROVE  \/ sess'[t].c \in DOMAIN loops'[x].conns /\ loops'[x].conns[sess'[t].c].s = t
               \/ \E u \in Sessions : /\ HasAttached(u, x)' /\ sess'[u].c = sess'[t].c
                                      /\ sess'[t].gen < sess'[u].gen
    <2>1. sess[t].st \in {"open", "wait"} /\ sess[t].loop = x
      BY <1>2
    <2>2. sess'[t].c = sess[t].c /\ sess'[t].gen = sess[t].gen
      BY <2>1 DEF HasAttached
    <2>3. CASE sess[t].c \in DOMAIN loops[x].conns /\ loops[x].conns[sess[t].c].s = t
      BY <2>2, <2>3
    <2>4. CASE \E u \in Sessions : /\ HasAttached(u, x) /\ sess[u].c = sess[t].c
                                   /\ sess[t].gen < sess[u].gen
      <3>1. PICK u \in Sessions : /\ HasAttached(u, x) /\ sess[u].c = sess[t].c
                                  /\ sess[t].gen < sess[u].gen
        BY <2>4
      <3>2. HasAttached(u, x)' /\ sess'[u].c = sess[u].c /\ sess'[u].gen = sess[u].gen
        BY <3>1
      <3> QED
        BY <2>2, <3>1, <3>2
    <2> QED
      BY <2>1, <2>3, <2>4
  <1> QED
    BY <1>1, <1>2

LEMMA StaysInControl ==
    ASSUME ControlInv, DOMAIN loops' = Loops, \A l \in Loops : Keeps(l), sess' = sess, MayLeave
    PROVE  ControlInv'
  <1> USE DEF ControlInv
  <1>1. ShapeInv'
    <2>1. ASSUME NEW l \in Loops PROVE LoopOK(l)'
      BY DEF ShapeInv, LoopOK, Keeps, SameControl, SameConns, SameDesire, NoDesire, Busy
    <2>2. ASSUME NEW s \in Sessions PROVE SessionOK(s)'
      BY DEF ShapeInv, SessionOK
    <2> QED
      BY <2>1, <2>2 DEF ShapeInv, MayLeave
  <1>2. SessionsInv'
    BY DEF SessionsInv, MayLeave, Joined, HoldsLoop, Keeps, SameControl, ShapeInv
  <1>3. CommandsInv'
    <2> SUFFICES ASSUME NEW l \in Loops
                 PROVE  (CommandsInv!(l))'
      BY DEF CommandsInv
    <2>2. /\ CommandsInv!(l) /\ loops'[l].queue = loops[l].queue
          /\ DOMAIN loops'[l].conns = DOMAIN loops[l].conns
      BY DEF CommandsInv, Keeps, SameControl, SameConns
    <2>3. Busy(l)' => /\ Busy(l) /\ loops'[l].work.s = loops[l].work.s
                      /\ loops'[l].work.c = loops[l].work.c
      BY DEF Busy, Keeps, SameDesire, NoDesire
    <2> QED
      BY <2>2, <2>3, CommandsStay
  <1>4. GenerationsInv'
    BY DEF GenerationsInv, HasAttached, Keeps, SameControl
  <1>5. AttachedInv'
    <2> SUFFICES ASSUME NEW l \in Loops
                 PROVE  (AttachedInv!(l))'
      BY DEF AttachedInv
    <2>1. /\ AttachedInv!(l) /\ loops'[l].queue = loops[l].queue
          /\ DOMAIN loops'[l].conns = DOMAIN loops[l].conns
          /\ \A c \in DOMAIN loops[l].conns : /\ loops'[l].conns[c].s = loops[l].conns[c].s
                                              /\ loops'[l].conns[c].gen = loops[l].conns[c].gen
      BY DEF AttachedInv, Keeps, SameControl, SameConns
    <2>2. \A t \in Sessions : /\ HasAttached(t, l)' <=> HasAttached(t, l)
                              /\ Detaching(t, l)' <=> Detaching(t, l)
      BY <2>1 DEF HasAttached, Detaching
    <2> QED
      BY <2>1, <2>2, AttachedStays
  <1> QED
    BY <1>1, <1>2, <1>3, <1>4, <1>5

(***************************************************************************)
(* The end of a Desire: its connection reads on.                           *)
(***************************************************************************)
LEMMA RepliesInControl ==
    ASSUME ControlInv, NEW l \in Loops, Busy(l), OnlyLoop(l), SameControl(l), NoDesire(l),
           OnlySession(loops[l].work.s), Becomes(loops[l].work.s, "open"), MayLeave
    PROVE  ControlInv'
  <1> DEFINE s == loops[l].work.s
  <1> USE DEF ControlInv
  <1>0. /\ s \in Sessions /\ sess[s].st = "wait" /\ sess[s].loop = l
        /\ \A i \in 1..Len(loops[l].queue) : loops[l].queue[i].s # s
        /\ \A t \in Sessions : /\ sess'[t].c = sess[t].c \/ sess[t].st = "none"
                               /\ sess'[t].st = "none" <=> sess[t].st = "none"
    BY DEF CommandsInv, Joined, OnlySession, Becomes
  <1> HIDE DEF s
  <1>1. ShapeInv'
    <2>1. ASSUME NEW x \in Loops PROVE LoopOK(x)'
      BY DEF ShapeInv, LoopOK, OnlyLoop, SameControl, SameConns, NoDesire
    <2>2. ASSUME NEW t \in Sessions PROVE SessionOK(t)'
      BY <1>0 DEF ShapeInv, SessionOK, OnlySession, Becomes, s
    <2> QED
      BY <2>1, <2>2 DEF ShapeInv, MayLeave, OnlyLoop, OnlySession
  <1>2. SessionsInv'
    <2>1. \A x \in Loops : loops'[x].st = loops[x].st
      BY DEF OnlyLoop, SameControl
    <2>2. \A x \in Loops, t \in Sessions : /\ Joined(t, x)' <=> Joined(t, x)
                                           /\ HoldsLoop(t, x)' <=> HoldsLoop(t, x)
      BY <1>0 DEF Joined, HoldsLoop, OnlySession, Becomes, s
    <2> QED
      BY <1>0, <2>1, <2>2 DEF SessionsInv, MayLeave, ShapeInv
  <1>3. CommandsInv'
    <2> SUFFICES ASSUME NEW x \in Loops
                 PROVE  (CommandsInv!(x))'
      BY DEF CommandsInv
    <2>1. CASE x = l
      <3>1. loops'[l].queue = loops[l].queue /\ ~Busy(l)'
        BY DEF SameControl, NoDesire, Busy
      <3>2. ASSUME NEW i \in 1..Len(loops[l].queue) PROVE CommandOK(l, loops[l].queue[i])'
        <4> DEFINE m == loops[l].queue[i]
        <4>1. CommandOK(l, m) /\ m.s # s
          BY <1>0 DEF CommandsInv
        <4>2. sess'[m.s] = sess[m.s]
          BY <4>1 DEF OnlySession, CommandOK, s
        <4> QED
          BY <3>1, <4>1, <4>2 DEF CommandOK, Joined
      <3> QED
        BY <2>1, <3>1, <3>2 DEF CommandsInv
    <2>2. CASE x # l
      <3>1. \A i \in 1..Len(loops[x].queue) : loops[x].queue[i].s # s
        BY <1>0, <2>2 DEF CommandsInv, CommandOK, Joined
      <3>2. Busy(x) => loops[x].work.s # s
        BY <1>0, <2>2 DEF CommandsInv, Joined
      <3>3. loops'[x] = loops[x] /\ CommandsInv!(x)
        BY <2>2 DEF OnlyLoop, CommandsInv
      <3>4. \A i \in 1..Len(loops[x].queue) : sess'[loops[x].queue[i].s] = sess[loops[x].queue[i].s]
        BY <3>1, <3>3 DEF OnlySession, CommandOK, s
      <3>5. Busy(x) => sess'[loops[x].work.s] = sess[loops[x].work.s]
        BY <3>2, <3>3 DEF OnlySession, s
      <3>6. Busy(x)' <=> Busy(x)
        BY <3>3 DEF Busy
      <3> QED
        BY <3>3, <3>4, <3>5, <3>6, CommandsStay
    <2> QED
      BY <2>1, <2>2
  <1>4. GenerationsInv'
    BY <1>0 DEF GenerationsInv, HasAttached, OnlyLoop, SameControl, OnlySession, Becomes, s
  <1>5. AttachedInv'
    <2> SUFFICES ASSUME NEW x \in Loops
                 PROVE  (AttachedInv!(x))'
      BY DEF AttachedInv
    <2>1. \A t \in Sessions : /\ HasAttached(t, x)' <=> HasAttached(t, x)
                              /\ Detaching(t, x)' <=> Detaching(t, x)
                              /\ HasAttached(t, x) => sess'[t].c = sess[t].c /\ sess'[t].gen = sess[t].gen
                              /\ sess'[t].st \in {"open", "wait"} <=> sess[t].st \in {"open", "wait"}
                              /\ sess[t].st \in {"open", "wait"} => sess'[t].loop = sess[t].loop
      BY <1>0 DEF HasAttached, Detaching, OnlyLoop, SameControl, OnlySession, Becomes, s
    <2>2. /\ DOMAIN loops'[x].conns = DOMAIN loops[x].conns
          /\ \A c \in DOMAIN loops[x].conns : /\ loops'[x].conns[c].s = loops[x].conns[c].s
                                              /\ loops'[x].conns[c].gen = loops[x].conns[c].gen
      BY DEF OnlyLoop, SameControl, SameConns
    <2>3. AttachedInv!(x)
      BY DEF AttachedInv
    <2>4. \A t \in Sessions :
             HasAttached(t, x) =>
                /\ HasAttached(t, x)' /\ sess'[t].c = sess[t].c /\ sess'[t].gen = sess[t].gen
                /\ (sess[t].st \in {"open", "wait"} \/ Detaching(t, x))
                      => (sess'[t].st \in {"open", "wait"} \/ Detaching(t, x)')
      BY <2>1
    <2>5. \A t \in Sessions :
             (sess'[t].st \in {"open", "wait"} /\ sess'[t].loop = x)
                => (sess[t].st \in {"open", "wait"} /\ sess[t].loop = x)
      BY <2>1
    <2> HIDE DEF ControlInv
    <2> QED
      BY <2>2, <2>3, <2>4, <2>5, AttachedStays
  <1> QED
    BY <1>1, <1>2, <1>3, <1>4, <1>5

(***************************************************************************)
(* A loop takes the first command of its queue.                            *)
(***************************************************************************)
Pops(l) ==
    /\ loops[l].st = "run" /\ loops[l].work.st = "idle" /\ loops[l].queue # <<>>
    /\ OnlyLoop(l) /\ DOMAIN loops'[l] = LoopFields
    /\ loops'[l].st = "run" /\ loops'[l].queue = Tail(loops[l].queue)

First(l) == Head(loops[l].queue)

OthersCommand(l, m, s) == CommandOK(l, m) /\ m.s # s

LEMMA Popped ==
    ASSUME ControlInv, NEW l \in Loops, Pops(l)
    PROVE  /\ CommandOK(l, First(l)) /\ IsSeq(loops'[l].queue)
           /\ \A i \in 1..Len(loops'[l].queue) : OthersCommand(l, loops'[l].queue[i], First(l).s)
           /\ \A i \in 1..Len(loops'[l].queue), j \in 1..Len(loops'[l].queue) :
                 loops'[l].queue[i].s = loops'[l].queue[j].s => i = j
           /\ \A s \in Sessions : Detaching(s, l) /\ s # First(l).s => Detaching(s, l)'
           /\ \A x \in Loops \ {l} :
                 /\ \A i \in 1..Len(loops[x].queue) : OthersCommand(x, loops[x].queue[i], First(l).s)
                 /\ Busy(x) => loops[x].work.s # First(l).s
  <1> DEFINE q == loops[l].queue
             r == loops'[l].queue
             m == First(l)
  <1>1. /\ Len(q) \in Nat /\ Len(q) >= 1 /\ m = q[1] /\ IsSeq(r) /\ Len(r) = Len(q) - 1
        /\ \A i \in 1..Len(r) : r[i] = q[i + 1]
    <2>1. IsSeq(q)
      BY DEF ControlInv, ShapeInv, LoopOK
    <2> QED
      BY <2>1, TailFacts DEF Pops, First
  <1>2. /\ \A i \in 1..Len(q) : CommandOK(l, q[i])
        /\ \A i \in 1..Len(q), j \in 1..Len(q) : q[i].s = q[j].s => i = j
    BY DEF ControlInv, CommandsInv
  <1>3. CommandOK(l, m) /\ sess[m.s].loop = l
    <2>1. 1 \in 1..Len(q)
      BY <1>1
    <2> QED
      BY <1>1, <1>2, <2>1 DEF CommandOK, Joined
  <1> HIDE DEF q, r, m
  <1>4. ASSUME NEW i \in 1..Len(r)
        PROVE  i + 1 \in 1..Len(q) /\ r[i] = q[i + 1] /\ OthersCommand(l, r[i], m.s)
    <2>1. i + 1 \in 1..Len(q) /\ 1 \in 1..Len(q) /\ i + 1 # 1
      BY <1>1
    <2> QED
      BY <1>1, <1>2, <2>1 DEF OthersCommand
  <1>5. ASSUME NEW i \in 1..Len(r), NEW j \in 1..Len(r), r[i].s = r[j].s
        PROVE  i = j
    <2>1. i + 1 = j + 1
      BY <1>2, <1>4, <1>5
    <2> QED
      BY <2>1
  <1>6. ASSUME NEW s \in Sessions, Detaching(s, l), s # m.s
        PROVE  Detaching(s, l)'
    <2>1. PICK i \in 1..Len(q) : q[i].op = "detach" /\ q[i].s = s
      BY <1>6 DEF Detaching, q
    <2>2. i # 1
      BY <1>1, <1>6, <2>1
    <2>3. i - 1 \in 1..Len(r) /\ r[i - 1] = q[i]
      BY <1>1, <2>1, <2>2
    <2> QED
      BY <2>1, <2>3 DEF Detaching, r
  <1>7. ASSUME NEW x \in Loops \ {l}
        PROVE  /\ \A i \in 1..Len(loops[x].queue) : OthersCommand(x, loops[x].queue[i], m.s)
               /\ Busy(x) => loops[x].work.s # m.s
    <2>1. CommandsInv!(x)
      BY DEF ControlInv, CommandsInv
    <2>2. sess[m.s].loop # x
      BY <1>3
    <2>3. ASSUME NEW i \in 1..Len(loops[x].queue)
          PROVE  OthersCommand(x, loops[x].queue[i], m.s)
      BY <2>1, <2>2 DEF OthersCommand, CommandOK, Joined
    <2>4. Busy(x) => loops[x].work.s # m.s
      BY <2>1, <2>2 DEF Joined
    <2> QED
      BY <2>3, <2>4
  <1> QED
    BY <1>1, <1>3, <1>4, <1>5, <1>6, <1>7 DEF q, r, m

StartsDesire(l) ==
    /\ First(l).op = "desire" /\ sess' = sess
    /\ loops'[l].work.s = First(l).s /\ loops'[l].work.c = First(l).c
    /\ First(l).c \in DOMAIN loops'[l].conns

LEMMA PoppedCommands ==
    ASSUME ControlInv, NEW l \in Loops, Pops(l), OnlySession(First(l).s),
           Busy(l)' => StartsDesire(l)
    PROVE  CommandsInv'
  <1> DEFINE m == First(l)
  <1>1. ASSUME NEW x \in Loops, NEW n, OthersCommand(x, n, m.s)
        PROVE  CommandOK(x, n)'
    BY <1>1 DEF OthersCommand, CommandOK, Joined, OnlySession
  <1>2. /\ CommandOK(l, m)
        /\ \A i \in 1..Len(loops'[l].queue) : OthersCommand(l, loops'[l].queue[i], m.s)
        /\ \A i \in 1..Len(loops'[l].queue), j \in 1..Len(loops'[l].queue) :
              loops'[l].queue[i].s = loops'[l].queue[j].s => i = j
        /\ \A x \in Loops \ {l} :
              /\ \A i \in 1..Len(loops[x].queue) : OthersCommand(x, loops[x].queue[i], m.s)
              /\ Busy(x) => loops[x].work.s # m.s
    BY Popped
  <1> HIDE DEF m
  <1> SUFFICES ASSUME NEW x \in Loops
               PROVE  (CommandsInv!(x))'
    BY DEF CommandsInv
  <1>3. CASE x # l
    <2>1. loops'[x] = loops[x]
      BY <1>3 DEF Pops, OnlyLoop
    <2>2. CommandsInv!(x)
      BY DEF ControlInv, CommandsInv
    <2>3. \A i \in 1..Len(loops'[x].queue) : CommandOK(x, loops[x].queue[i])'
      BY <1>1, <1>2, <1>3, <2>1 DEF CommandOK
    <2>4. Busy(x) => sess'[loops[x].work.s] = sess[loops[x].work.s]
      BY <1>2, <1>3, <2>2 DEF OnlySession, m
    <2> QED
      BY <2>1, <2>2, <2>3, <2>4 DEF Busy, Joined
  <1>4. CASE x = l
    <2>1. \A i \in 1..Len(loops'[l].queue) : CommandOK(l, loops[l].queue[i])' /\ loops'[l].queue[i].s # m.s
      <3> SUFFICES ASSUME NEW i \in 1..Len(loops'[l].queue)
                   PROVE  CommandOK(l, loops[l].queue[i])' /\ loops'[l].queue[i].s # m.s
        OBVIOUS
      <3>1. OthersCommand(l, loops'[l].queue[i], m.s)
        BY <1>2
      <3> QED
        BY <1>1, <3>1 DEF OthersCommand, CommandOK
    <2>2. Busy(l)' => /\ m.s \in Sessions /\ sess'[m.s].st = "wait" /\ sess'[m.s].loop = l
                      /\ m.c = sess'[m.s].c
      BY <1>2 DEF StartsDesire, CommandOK, Joined, m
    <2> QED
      BY <1>2, <1>4, <2>1, <2>2 DEF StartsDesire, Joined, m
  <1> QED
    BY <1>3, <1>4

(***************************************************************************)
(* A connection goes on with the loop it has joined.                       *)
(***************************************************************************)
Holding == {"attach", "open", "wait", "closing"}

GoesOn(s) ==
    /\ s \in Sessions /\ sess[s].st \in Holding \cup {"gone"} /\ sess'[s].st \in Holding \cup {"gone"}
    /\ sess[s].st = "gone" => sess'[s].st = "gone"
    /\ DOMAIN sess'[s] = SessionFields
    /\ sess'[s].c = sess[s].c /\ sess'[s].loop = sess[s].loop /\ sess'[s].gen \in Nat
    /\ OnlySession(s)

LEMMA GoesOnSessions ==
    ASSUME ControlInv, NEW s, GoesOn(s), \A l \in Loops : loops'[l].st = loops[l].st, cur' = cur
    PROVE  SessionsInv' /\ \A t \in Sessions : SessionOK(t)'
  <1>1. \A l \in Loops, t \in Sessions : /\ Joined(t, l)' <=> Joined(t, l)
                                         /\ HoldsLoop(t, l)' => HoldsLoop(t, l)
    BY DEF Joined, HoldsLoop, GoesOn, OnlySession, Holding
  <1>2. \A t \in Sessions : /\ sess'[t].st = "none" <=> sess[t].st = "none"
                            /\ sess[t].st # "none" => sess'[t].c = sess[t].c
    BY DEF GoesOn, OnlySession, Holding
  <1>3. SessionsInv'
    BY <1>1, <1>2 DEF ControlInv, SessionsInv, ShapeInv
  <1>4. ASSUME NEW t \in Sessions PROVE SessionOK(t)'
    BY DEF ControlInv, ShapeInv, SessionOK, GoesOn, OnlySession, Holding
  <1> QED
    BY <1>3, <1>4

LEMMA SkippedDesire ==
    ASSUME ControlInv, NEW l \in Loops, Pops(l), First(l).op = "desire", SameConns(l),
           loops'[l].gen = loops[l].gen, loops'[l].work.st = "idle",
           OnlySession(First(l).s), Becomes(First(l).s, "open"), cur' = cur
    PROVE  ControlInv'
  <1> DEFINE s == First(l).s
  <1>0. s \in Sessions /\ sess[s].st = "wait" /\ sess[s].loop = l
    BY Popped DEF CommandOK, Joined
  <1>1. GoesOn(s) /\ \A x \in Loops : loops'[x].st = loops[x].st
    BY <1>0 DEF GoesOn, Holding, Becomes, Pops, OnlyLoop, ControlInv, ShapeInv, SessionOK
  <1>2. CommandsInv'
    BY PoppedCommands DEF Busy
  <1> HIDE DEF s
  <1>3. ShapeInv'
    <2>1. ASSUME NEW x \in Loops PROVE LoopOK(x)'
      BY Popped DEF ControlInv, ShapeInv, LoopOK, Pops, OnlyLoop, SameConns
    <2> QED
      BY <1>1, <2>1, GoesOnSessions DEF ControlInv, ShapeInv, Pops, OnlyLoop, OnlySession, s
  <1>4. GenerationsInv'
    BY <1>0, <1>1 DEF ControlInv, GenerationsInv, HasAttached, Pops, OnlyLoop, OnlySession, Becomes, s
  <1>5. AttachedInv'
    <2> SUFFICES ASSUME NEW x \in Loops
                 PROVE  (AttachedInv!(x))'
      BY DEF AttachedInv
    <2>1. \A t \in Sessions : /\ HasAttached(t, x)' <=> HasAttached(t, x)
                              /\ HasAttached(t, x) => sess'[t].c = sess[t].c /\ sess'[t].gen = sess[t].gen
                              /\ sess'[t].st \in {"open", "wait"} <=> sess[t].st \in {"open", "wait"}
                              /\ sess[t].st \in {"open", "wait"} => sess'[t].loop = sess[t].loop
      BY <1>0 DEF HasAttached, OnlySession, Becomes, s
    <2>2. /\ DOMAIN loops'[x].conns = DOMAIN loops[x].conns
          /\ \A c \in DOMAIN loops[x].conns : /\ loops'[x].conns[c].s = loops[x].conns[c].s
                                              /\ loops'[x].conns[c].gen = loops[x].conns[c].gen
      BY DEF Pops, OnlyLoop, SameConns
    <2>3. \A t \in Sessions : Detaching(t, x) => Detaching(t, x)' \/ sess[t].st = "wait"
      <3>1. CASE x = l
        BY <1>0, <3>1, Popped DEF s
      <3>2. CASE x # l
        BY <3>2 DEF Detaching, Pops, OnlyLoop
      <3> QED
        BY <3>1, <3>2
    <2>4. AttachedInv!(x)
      BY DEF ControlInv, AttachedInv
    <2>5. \A t \in Sessions : (sess[t].st \in {"open", "wait"} \/ Detaching(t, x))
                               => (sess'[t].st \in {"open", "wait"} \/ Detaching(t, x)')
      BY <2>1, <2>3
    <2>6. \A t \in Sessions : (sess'[t].st \in {"open", "wait"} /\ sess'[t].loop = x)
                               => (sess[t].st \in {"open", "wait"} /\ sess[t].loop = x)
      BY <2>1
    <2> QED
      BY <2>1, <2>2, <2>4, <2>5, <2>6, AttachedStays
  <1> QED
    BY <1>1, <1>2, <1>3, <1>4, <1>5, GoesOnSessions DEF ControlInv

LEMMA StartedDesire ==
    ASSUME ControlInv, NEW l \in Loops, Pops(l), SameConns(l), StartsDesire(l),
           loops'[l].gen = loops[l].gen, loops'[l].work.st = "put",
           DOMAIN loops'[l].work = WorkFields, cur' = cur
    PROVE  ControlInv'
  <1>0. sess[First(l).s].st = "wait" /\ OnlySession(First(l).s) /\ sess' = sess
    BY Popped DEF CommandOK, StartsDesire, OnlySession, ControlInv, ShapeInv
  <1>2. CommandsInv'
    BY <1>0, PoppedCommands
  <1>3. ShapeInv'
    <2>1. ASSUME NEW x \in Loops PROVE LoopOK(x)'
      BY Popped DEF ControlInv, ShapeInv, LoopOK, Pops, OnlyLoop, SameConns
    <2> QED
      BY <1>0, <2>1 DEF ControlInv, ShapeInv, SessionOK, Pops, OnlyLoop
  <1>4. GenerationsInv'
    BY <1>0 DEF ControlInv, GenerationsInv, HasAttached, Pops, OnlyLoop
  <1>5. AttachedInv'
    <2> SUFFICES ASSUME NEW x \in Loops
                 PROVE  (AttachedInv!(x))'
      BY DEF AttachedInv
    <2>2. /\ DOMAIN loops'[x].conns = DOMAIN loops[x].conns
          /\ \A c \in DOMAIN loops[x].conns : /\ loops'[x].conns[c].s = loops[x].conns[c].s
                                              /\ loops'[x].conns[c].gen = loops[x].conns[c].gen
      BY DEF Pops, OnlyLoop, SameConns
    <2>3. \A t \in Sessions : Detaching(t, x) => Detaching(t, x)' \/ sess[t].st = "wait"
      <3>1. CASE x = l
        BY <1>0, <3>1, Popped
      <3>2. CASE x # l
        BY <3>2 DEF Detaching, Pops, OnlyLoop
      <3> QED
        BY <3>1, <3>2
    <2>4. AttachedInv!(x)
      BY DEF ControlInv, AttachedInv
    <2>5. \A t \in Sessions : /\ HasAttached(t, x)' <=> HasAttached(t, x)
                              /\ HasAttached(t, x) => sess'[t].c = sess[t].c /\ sess'[t].gen = sess[t].gen
      BY <1>0 DEF HasAttached
    <2>6. \A t \in Sessions : /\ (sess[t].st \in {"open", "wait"} \/ Detaching(t, x))
                                  => (sess'[t].st \in {"open", "wait"} \/ Detaching(t, x)')
                              /\ (sess'[t].st \in {"open", "wait"} /\ sess'[t].loop = x)
                                  => (sess[t].st \in {"open", "wait"} /\ sess[t].loop = x)
      BY <1>0, <2>3
    <2> QED
      BY <2>2, <2>4, <2>5, <2>6, AttachedStays
  <1>6. SessionsInv'
    BY <1>0 DEF ControlInv, SessionsInv, Joined, HoldsLoop, Pops, OnlyLoop
  <1> QED
    BY <1>2, <1>3, <1>4, <1>5, <1>6 DEF ControlInv

LEMMA DoneAttach ==
    ASSUME ControlInv, NEW l \in Loops, Pops(l), NEW s, NEW c, s = First(l).s, c = First(l).c,
           First(l).op = "attach",
           DOMAIN loops'[l].conns = DOMAIN loops[l].conns \cup {c},
           \A d \in DOMAIN loops[l].conns \ {c} : loops'[l].conns[d] = loops[l].conns[d],
           DOMAIN loops'[l].conns[c] = ConnFields,
           loops'[l].conns[c].s = s,
           loops'[l].conns[c].gen = loops[l].gen,
           loops'[l].gen = loops[l].gen + 1, loops'[l].work.st = "idle",
           OnlySession(s), DOMAIN sess'[s] = SessionFields,
           sess'[s].st = "open", sess'[s].gen = loops[l].gen,
           sess'[s].c = sess[s].c,
           sess'[s].loop = sess[s].loop, cur' = cur
    PROVE  ControlInv'
  <1>0. s \in Sessions /\ sess[s].st = "attach" /\ sess[s].loop = l /\ c = sess[s].c
    BY Popped DEF CommandOK, Joined
  <1>1. GoesOn(s) /\ \A x \in Loops : loops'[x].st = loops[x].st
    BY <1>0 DEF GoesOn, Holding, Pops, OnlyLoop, ControlInv, ShapeInv, LoopOK
  <1>2. CommandsInv'
    BY PoppedCommands DEF Busy
  <1>3. ShapeInv'
    <2>1. ASSUME NEW x \in Loops PROVE LoopOK(x)'
      <3>1. CASE x # l
        BY <3>1 DEF ControlInv, ShapeInv, LoopOK, Pops, OnlyLoop
      <3>2. CASE x = l
        <4>1. \A d \in DOMAIN loops'[l].conns : DOMAIN loops'[l].conns[d] = ConnFields
          BY DEF ControlInv, ShapeInv, LoopOK
        <4> QED
          BY <3>2, <4>1, Popped DEF ControlInv, ShapeInv, LoopOK, Pops
      <3> QED
        BY <3>1, <3>2
    <2> QED
      BY <1>1, <2>1, GoesOnSessions DEF ControlInv, ShapeInv, Pops, OnlyLoop, OnlySession
  <1>4. \A t \in Sessions \ {s} : /\ sess'[t] = sess[t]
                                  /\ \A x \in Loops : HasAttached(t, x)' <=> HasAttached(t, x)
    BY DEF OnlySession, HasAttached
  <1>5. GenerationsInv'
    <2> SUFFICES ASSUME NEW x \in Loops, loops'[x].st = "run"
                 PROVE  /\ \A t \in Sessions : HasAttached(t, x)' => sess'[t].gen < loops'[x].gen
                        /\ \A t \in Sessions, u \in Sessions :
                              HasAttached(t, x)' /\ HasAttached(u, x)' /\ sess'[t].gen = sess'[u].gen => t = u
      BY DEF GenerationsInv
    <2>1. CASE x # l
      <3>1. loops'[x] = loops[x] /\ ~HasAttached(s, x)'
        BY <1>0, <2>1 DEF Pops, OnlyLoop, HasAttached
      <3> QED
        BY <1>4, <3>1 DEF ControlInv, GenerationsInv
    <2>2. CASE x = l
      <3>1. loops[l].gen \in Nat /\ loops[l].st = "run" /\ \A t \in Sessions : HasAttached(t, l) => sess[t].gen \in Nat
        BY DEF ControlInv, ShapeInv, LoopOK, SessionOK, HasAttached, Pops
      <3>2. /\ \A t \in Sessions \ {s} : HasAttached(t, l)' => sess'[t].gen < loops[l].gen
            /\ sess'[s].gen = loops[l].gen
        BY <1>4, <3>1 DEF ControlInv, GenerationsInv
      <3>3. ASSUME NEW t \in Sessions, NEW u \in Sessions, HasAttached(t, l)', HasAttached(u, l)',
                   sess'[t].gen = sess'[u].gen
            PROVE  t = u
        <4>1. CASE t # s /\ u # s
          BY <1>4, <3>1, <3>3, <4>1 DEF ControlInv, GenerationsInv
        <4>2. CASE t = s \/ u = s
          BY <1>4, <3>1, <3>2, <3>3, <4>2
        <4> QED
          BY <4>1, <4>2
      <3>4. ASSUME NEW t \in Sessions, HasAttached(t, l)' PROVE sess'[t].gen < loops'[l].gen
        BY <1>4, <3>1, <3>2, <3>4
      <3> QED
        BY <2>2, <3>3, <3>4
    <2> QED
      BY <2>1, <2>2
  <1>6. AttachedInv'
    <2> SUFFICES ASSUME NEW x \in Loops
                 PROVE  (AttachedInv!(x))'
      BY DEF AttachedInv
    <2>0. AttachedInv!(x)
      BY DEF ControlInv, AttachedInv
    <2>1. CASE x # l
      <3>1. loops'[x] = loops[x] /\ \A t \in Sessions : Detaching(t, x)' <=> Detaching(t, x)
        BY <2>1 DEF Pops, OnlyLoop, Detaching
      <3>2. sess[s].loop # x /\ sess'[s].loop # x /\ ~HasAttached(s, x)
        BY <1>0, <2>1 DEF HasAttached
      <3>3. ASSUME NEW d \in DOMAIN loops[x].conns
            PROVE  LET h == loops[x].conns[d].s
                   IN  /\ h \in Sessions \ {s} /\ HasAttached(h, x)
                       /\ sess[h].c = d /\ sess[h].gen = loops[x].conns[d].gen
                       /\ sess[h].st \in {"open", "wait"} \/ Detaching(h, x)
        BY <2>0, <3>2
      <3>4. ASSUME NEW t \in Sessions, sess'[t].st \in {"open", "wait"}, sess'[t].loop = x
            PROVE  \/ sess'[t].c \in DOMAIN loops'[x].conns /\ loops'[x].conns[sess'[t].c].s = t
                   \/ \E u \in Sessions : /\ HasAttached(u, x)' /\ sess'[u].c = sess'[t].c
                                           /\ sess'[t].gen < sess'[u].gen
        <4>1. t # s /\ sess'[t] = sess[t]
          BY <1>4, <3>2, <3>4
        <4>2. CASE sess[t].c \in DOMAIN loops[x].conns /\ loops[x].conns[sess[t].c].s = t
          BY <3>1, <4>1, <4>2
        <4>3. CASE \E u \in Sessions : /\ HasAttached(u, x) /\ sess[u].c = sess[t].c
                                       /\ sess[t].gen < sess[u].gen
          <5>1. PICK u \in Sessions : /\ HasAttached(u, x) /\ sess[u].c = sess[t].c
                                      /\ sess[t].gen < sess[u].gen
            BY <4>3
          <5>2. u # s /\ sess'[u] = sess[u] /\ HasAttached(u, x)'
            BY <1>4, <3>2, <5>1
          <5> QED
            BY <4>1, <5>1, <5>2
        <4> QED
          BY <2>0, <3>4, <4>1, <4>2, <4>3
      <3>5. ASSUME NEW d \in DOMAIN loops'[x].conns
            PROVE  /\ loops'[x].conns[d].s \in Sessions /\ HasAttached(loops[x].conns[d].s, x)'
                   /\ sess'[loops'[x].conns[d].s].c = d
                   /\ sess'[loops'[x].conns[d].s].gen = loops'[x].conns[d].gen
                   /\ sess'[loops'[x].conns[d].s].st \in {"open", "wait"} \/ Detaching(loops[x].conns[d].s, x)'
        <4>1. d \in DOMAIN loops[x].conns /\ loops'[x].conns[d] = loops[x].conns[d]
          BY <3>1
        <4>2. PICK h : h = loops[x].conns[d].s
          OBVIOUS
        <4>3. /\ h \in Sessions \ {s} /\ HasAttached(h, x)
              /\ sess[h].c = d /\ sess[h].gen = loops[x].conns[d].gen
              /\ sess[h].st \in {"open", "wait"} \/ Detaching(h, x)
          BY <3>3, <4>1, <4>2
        <4>4. sess'[h] = sess[h] /\ HasAttached(h, x)' /\ (Detaching(h, x) => Detaching(h, x)')
          BY <1>4, <3>1, <4>3
        <4> QED
          BY <4>1, <4>2, <4>3, <4>4
      <3> QED
        BY <3>4, <3>5
    <2>2. CASE x = l
      <3>1. ~HasAttached(s, l) /\ HasAttached(s, l)' /\ sess'[s].c = c /\ sess'[s].gen = loops[l].gen
            /\ sess'[s].st = "open"
        BY <1>0 DEF HasAttached
      <3>2. \A t \in Sessions \ {s} : Detaching(t, l) => Detaching(t, l)'
        BY Popped
      <3>3. ASSUME NEW d \in DOMAIN loops'[l].conns
            PROVE  /\ loops'[l].conns[d].s \in Sessions /\ HasAttached(loops[l].conns[d].s, l)'
                   /\ sess'[loops'[l].conns[d].s].c = d
                   /\ sess'[loops'[l].conns[d].s].gen = loops'[l].conns[d].gen
                   /\ sess'[loops'[l].conns[d].s].st \in {"open", "wait"} \/ Detaching(loops[l].conns[d].s, l)'
        <4>1. CASE d = c
          BY <1>0, <3>1, <4>1 DEF HasAttached
        <4>2. CASE d # c
          <5>1. d \in DOMAIN loops[l].conns /\ loops'[l].conns[d] = loops[l].conns[d]
            BY <4>2
          <5>2. PICK u \in Sessions : u = loops[l].conns[d].s /\ u # s
            BY <2>0, <2>2, <3>1, <5>1
          <5>3. /\ HasAttached(u, l)' /\ sess'[u].c = d /\ sess'[u].gen = loops'[l].conns[d].gen
                /\ sess'[u].st \in {"open", "wait"} \/ Detaching(u, l)'
            <6>1. /\ HasAttached(u, l) /\ sess[u].c = d /\ sess[u].gen = loops[l].conns[d].gen
                  /\ sess[u].st \in {"open", "wait"} \/ Detaching(u, l)
              BY <2>0, <2>2, <5>1, <5>2
            <6>2. sess'[u] = sess[u] /\ (HasAttached(u, l) => HasAttached(u, l)')
              BY <1>4, <5>2
            <6> QED
              BY <3>2, <5>1, <5>2, <6>1, <6>2
          <5> QED
            BY <5>1, <5>2, <5>3 DEF HasAttached, Detaching
        <4> QED
          BY <4>1, <4>2
      <3>4. ASSUME NEW t \in Sessions, sess'[t].st \in {"open", "wait"}, sess'[t].loop = l
            PROVE  \/ sess'[t].c \in DOMAIN loops'[l].conns /\ loops'[l].conns[sess'[t].c].s = t
                   \/ \E u \in Sessions : /\ HasAttached(u, l)' /\ sess'[u].c = sess'[t].c
                                          /\ sess'[t].gen < sess'[u].gen
        <4>1. CASE t = s
          BY <3>1, <4>1
        <4>2. CASE t # s
          <5>1. sess'[t] = sess[t] /\ HasAttached(t, l)
            BY <1>4, <3>4, <4>2 DEF HasAttached
          <5>2. CASE sess[t].c = c
            <6>1. sess[t].gen < loops[l].gen
              BY <5>1 DEF ControlInv, GenerationsInv, Pops
            <6> QED
              BY <1>0, <3>1, <5>1, <5>2, <6>1
          <5>3. CASE sess[t].c # c
            <6>1. CASE sess[t].c \in DOMAIN loops[l].conns /\ loops[l].conns[sess[t].c].s = t
              BY <5>1, <5>3, <6>1
            <6>2. CASE \E u \in Sessions : /\ HasAttached(u, l) /\ sess[u].c = sess[t].c
                                           /\ sess[t].gen < sess[u].gen
              BY <1>4, <3>1, <5>1, <6>2
            <6> QED
              BY <2>0, <2>2, <3>4, <5>1, <6>1, <6>2
          <5> QED
            BY <5>2, <5>3
        <4> QED
          BY <4>1, <4>2
      <3> QED
        BY <2>2, <3>3, <3>4
    <2> QED
      BY <2>1, <2>2
  <1> QED
    BY <1>1, <1>2, <1>3, <1>5, <1>6, GoesOnSessions DEF ControlInv

LEMMA DoneDetach ==
    ASSUME ControlInv, NEW l \in Loops, Pops(l), NEW s, NEW c, s = First(l).s, c = First(l).c,
           First(l).op = "detach",
           DOMAIN loops'[l].conns \subseteq DOMAIN loops[l].conns,
           DOMAIN loops[l].conns \ DOMAIN loops'[l].conns \subseteq {c},
           \A d \in DOMAIN loops'[l].conns : loops'[l].conns[d] = loops[l].conns[d],
           c \in DOMAIN loops[l].conns =>
              (c \in DOMAIN loops'[l].conns <=> loops[l].conns[c].gen # First(l).gen),
           loops'[l].gen = loops[l].gen, loops'[l].work.st = "idle",
           OnlySession(s), Becomes(s, "gone"), cur' = cur
    PROVE  ControlInv'
  <1>0. /\ s \in Sessions /\ sess[s].st \in {"closing", "gone"} /\ sess[s].loop = l
        /\ c = sess[s].c /\ First(l).gen = sess[s].gen
    BY Popped DEF CommandOK, Joined
  <1>1. GoesOn(s) /\ \A x \in Loops : loops'[x].st = loops[x].st
    BY <1>0 DEF GoesOn, Becomes, Holding, Pops, OnlyLoop, ControlInv, ShapeInv, SessionOK
  <1>2. CommandsInv'
    BY PoppedCommands DEF Busy
  <1>3. ShapeInv'
    <2>1. ASSUME NEW x \in Loops PROVE LoopOK(x)'
      BY Popped DEF ControlInv, ShapeInv, LoopOK, Pops, OnlyLoop
    <2> QED
      BY <1>1, <2>1, GoesOnSessions DEF ControlInv, ShapeInv, Pops, OnlyLoop, OnlySession
  <1>4. \A t \in Sessions : /\ \A x \in Loops : HasAttached(t, x)' <=> HasAttached(t, x)
                            /\ \A x \in Loops : HasAttached(t, x) => sess'[t].c = sess[t].c /\ sess'[t].gen = sess[t].gen
                            /\ t # s => sess'[t] = sess[t]
    BY <1>0 DEF OnlySession, Becomes, HasAttached
  <1>5. GenerationsInv'
    BY <1>1, <1>4 DEF ControlInv, GenerationsInv, Pops, OnlyLoop
  <1>6. AttachedInv'
    <2> SUFFICES ASSUME NEW x \in Loops
                 PROVE  (AttachedInv!(x))'
      BY DEF AttachedInv
    <2>0. AttachedInv!(x)
      BY DEF ControlInv, AttachedInv
    <2>1. CASE x # l
      <3>1. loops'[x] = loops[x] /\ \A t \in Sessions : Detaching(t, x)' <=> Detaching(t, x)
        BY <2>1 DEF Pops, OnlyLoop, Detaching
      <3>2. sess[s].loop # x /\ sess'[s].loop # x /\ ~HasAttached(s, x)
        BY <1>0, <2>1 DEF HasAttached, Becomes
      <3> QED
        BY <1>4, <2>0, <3>1, <3>2
    <2>2. CASE x = l
      <3>1. \A t \in Sessions \ {s} : Detaching(t, l) => Detaching(t, l)'
        BY Popped
      <3>2. ASSUME NEW d \in DOMAIN loops'[l].conns
            PROVE  /\ loops'[l].conns[d].s \in Sessions /\ HasAttached(loops[l].conns[d].s, l)'
                   /\ sess'[loops'[l].conns[d].s].c = d
                   /\ sess'[loops'[l].conns[d].s].gen = loops'[l].conns[d].gen
                   /\ sess'[loops'[l].conns[d].s].st \in {"open", "wait"} \/ Detaching(loops[l].conns[d].s, l)'
        <4>1. d \in DOMAIN loops[l].conns /\ loops'[l].conns[d] = loops[l].conns[d]
          OBVIOUS
        <4>2. PICK u \in Sessions : u = loops[l].conns[d].s
          BY <2>0, <2>2, <4>1
        <4>3. u # s
          BY <1>0, <2>0, <2>2, <4>1, <4>2
        <4>4. /\ HasAttached(u, l)' /\ sess'[u].c = d /\ sess'[u].gen = loops'[l].conns[d].gen
              /\ sess'[u].st \in {"open", "wait"} \/ Detaching(u, l)'
          BY <1>4, <2>0, <2>2, <3>1, <4>1, <4>2, <4>3
        <4> QED
          BY <4>1, <4>2, <4>4 DEF HasAttached, Detaching
      <3>3. ASSUME NEW t \in Sessions, sess'[t].st \in {"open", "wait"}, sess'[t].loop = l
            PROVE  \/ sess'[t].c \in DOMAIN loops'[l].conns /\ loops'[l].conns[sess'[t].c].s = t
                   \/ \E u \in Sessions : /\ HasAttached(u, l)' /\ sess'[u].c = sess'[t].c
                                          /\ sess'[t].gen < sess'[u].gen
        <4>1. t # s /\ sess'[t] = sess[t] /\ HasAttached(t, l)
          BY <1>4, <3>3 DEF Becomes, HasAttached
        <4>2. CASE sess[t].c \in DOMAIN loops[l].conns /\ loops[l].conns[sess[t].c].s = t
          <5>1. sess[t].c \in DOMAIN loops'[l].conns
            <6> SUFFICES ASSUME sess[t].c = c, loops[l].conns[c].gen = First(l).gen
                         PROVE  FALSE
              BY <4>2
            <6>1. sess[t].gen = loops[l].conns[c].gen
              BY <2>0, <2>2, <4>2
            <6>2. HasAttached(s, l) /\ sess[t].gen = sess[s].gen /\ loops[l].st = "run"
              BY <1>0, <6>1 DEF HasAttached, Pops
            <6> QED
              BY <1>0, <4>1, <6>2 DEF ControlInv, GenerationsInv
          <5> QED
            BY <4>1, <4>2, <5>1
        <4>3. CASE \E u \in Sessions : /\ HasAttached(u, l) /\ sess[u].c = sess[t].c
                                       /\ sess[t].gen < sess[u].gen
          BY <1>4, <4>1, <4>3
        <4> QED
          BY <2>0, <2>2, <3>3, <4>1, <4>2, <4>3
      <3> QED
        BY <2>2, <3>2, <3>3
    <2> QED
      BY <2>1, <2>2
  <1> QED
    BY <1>1, <1>2, <1>3, <1>5, <1>6, GoesOnSessions DEF ControlInv

(***************************************************************************)
(* A connection puts a command into the queue of a loop.                   *)
(***************************************************************************)
PushesTo(l, m) ==
    /\ OnlyLoop(l) /\ DOMAIN loops'[l] = LoopFields
    /\ loops'[l].st = loops[l].st /\ loops'[l].gen = loops[l].gen
    /\ loops'[l].conns = loops[l].conns /\ loops'[l].work = loops[l].work
    /\ loops'[l].queue = Append(loops[l].queue, m)

LEMMA Pushed ==
    ASSUME ControlInv, NEW l \in Loops, NEW m, NEW s \in Sessions, PushesTo(l, m), OnlySession(s),
           loops[l].st = "run", m.s = s, sess[s].st \in {"open", "setup"}, CommandOK(l, m)'
    PROVE  /\ CommandsInv' /\ IsSeq(loops'[l].queue)
           /\ \A x \in Loops, t \in Sessions : Detaching(t, x) => Detaching(t, x)'
           /\ m.op = "detach" => Detaching(s, l)'
  <1> DEFINE q == loops[l].queue
             r == loops'[l].queue
  <1>1. /\ IsSeq(r) /\ Len(q) \in Nat /\ Len(r) = Len(q) + 1
        /\ \A i \in 1..Len(q) : r[i] = q[i]
        /\ r[Len(q) + 1] = m
    <2>1. IsSeq(q)
      BY DEF ControlInv, ShapeInv, LoopOK
    <2> QED
      BY <2>1, AppendFacts DEF PushesTo
  <1>2. \A x \in Loops : /\ \A i \in 1..Len(loops[x].queue) : OthersCommand(x, loops[x].queue[i], s)
                         /\ Busy(x) => loops[x].work.s \in Sessions \ {s}
    BY ZenonT(40) DEF ControlInv, CommandsInv, CommandOK, OthersCommand
  <1>3. ASSUME NEW x \in Loops, NEW n, OthersCommand(x, n, s)
        PROVE  CommandOK(x, n)'
    BY <1>3 DEF OthersCommand, CommandOK, Joined, OnlySession
  <1>4. ASSUME NEW x \in Loops \ {l}
        PROVE  (CommandsInv!(x))'
    <2>1. loops'[x] = loops[x]
      BY DEF PushesTo, OnlyLoop
    <2>2. CommandsInv!(x)
      BY DEF ControlInv, CommandsInv
    <2>3. \A i \in 1..Len(loops'[x].queue) : CommandOK(x, loops[x].queue[i])'
      BY <1>2, <1>3, <2>1 DEF CommandOK
    <2>4. Busy(x) => sess'[loops[x].work.s] = sess[loops[x].work.s]
      BY <1>2 DEF OnlySession
    <2> QED
      BY <2>1, <2>2, <2>3, <2>4 DEF Busy, Joined
  <1>5. (CommandsInv!(l))'
    <2>1. CommandsInv!(l)
      BY DEF ControlInv, CommandsInv
    <2>2. ASSUME NEW i \in 1..Len(r)
          PROVE  (i \in 1..Len(q) /\ r[i] = q[i]) \/ (i = Len(q) + 1 /\ r[i] = m)
      BY <1>1
    <2>3. \A i \in 1..Len(q) : CommandOK(l, q[i]) /\ q[i].s # s
      BY <1>2 DEF OthersCommand
    <2>4. ASSUME NEW i \in 1..Len(r) PROVE CommandOK(l, loops[l].queue[i])'
      BY <1>2, <1>3, <2>2 DEF CommandOK
    <2>5. ASSUME NEW i \in 1..Len(r), NEW j \in 1..Len(r), r[i].s = r[j].s PROVE i = j
      BY <2>1, <2>2, <2>3, <2>5
    <2>6. Busy(l) => /\ sess'[loops[l].work.s] = sess[loops[l].work.s] /\ loops[l].work.s # s
                     /\ \A i \in 1..Len(r) : r[i].s # loops[l].work.s
      BY <1>2, <2>1, <2>2 DEF OnlySession
    <2>7. loops'[l].work = loops[l].work /\ loops'[l].conns = loops[l].conns
      BY DEF PushesTo
    <2> QED
      BY <2>1, <2>4, <2>5, <2>6, <2>7 DEF Busy, Joined
  <1>6. ASSUME NEW x \in Loops, NEW t \in Sessions, Detaching(t, x) PROVE Detaching(t, x)'
    <2>1. CASE x = l
      <3>1. PICK i \in 1..Len(q) : q[i].op = "detach" /\ q[i].s = t
        BY <1>6, <2>1 DEF Detaching
      <3>2. i \in 1..Len(r) /\ r[i] = q[i]
        BY <1>1
      <3> QED
        BY <2>1, <3>1, <3>2 DEF Detaching
    <2>2. CASE x # l
      BY <1>6, <2>2 DEF Detaching, PushesTo, OnlyLoop
    <2> QED
      BY <2>1, <2>2
  <1>7. m.op = "detach" => Detaching(s, l)'
    <2>1. Len(q) + 1 \in 1..Len(r) /\ r[Len(q) + 1] = m
      BY <1>1
    <2> QED
      BY <2>1 DEF Detaching
  <1>8. CommandsInv'
    <2> SUFFICES ASSUME NEW x \in Loops PROVE (CommandsInv!(x))'
      BY DEF CommandsInv
    <2> QED
      BY <1>4, <1>5
  <1> QED
    BY <1>1, <1>6, <1>7, <1>8

LEMMA PushedInControl ==
    ASSUME ControlInv, NEW s \in Sessions, NEW l \in Loops, NEW m, NEW to,
           sess[s].st = "open", sess[s].loop = l, PushesTo(l, m), OnlySession(s), Becomes(s, to),
           m.s = s, m.c = sess[s].c,
           \/ m.op = "desire" /\ to = "wait"
           \/ m.op = "detach" /\ to \in {"closing", "gone"} /\ m.gen = sess[s].gen,
           cur' = cur
    PROVE  ControlInv'
  <1>0. loops[l].st = "run" /\ CommandOK(l, m)'
    BY DEF ControlInv, SessionsInv, HoldsLoop, CommandOK, Joined, Becomes
  <1>1. GoesOn(s) /\ \A x \in Loops : loops'[x].st = loops[x].st
    BY DEF GoesOn, Becomes, Holding, PushesTo, OnlyLoop, ControlInv, ShapeInv, SessionOK
  <1>2. ShapeInv'
    <2>1. ASSUME NEW x \in Loops PROVE LoopOK(x)'
      BY <1>0, Pushed DEF ControlInv, ShapeInv, LoopOK, PushesTo, OnlyLoop
    <2> QED
      BY <1>1, <2>1, GoesOnSessions DEF ControlInv, ShapeInv, PushesTo, OnlyLoop, OnlySession
  <1>3. \A t \in Sessions : /\ \A x \in Loops : HasAttached(t, x)' <=> HasAttached(t, x)
                            /\ \A x \in Loops : HasAttached(t, x) => sess'[t].c = sess[t].c /\ sess'[t].gen = sess[t].gen
                            /\ t # s => sess'[t] = sess[t]
    BY DEF OnlySession, Becomes, HasAttached
  <1>4. GenerationsInv'
    BY <1>1, <1>3 DEF ControlInv, GenerationsInv, PushesTo, OnlyLoop
  <1>5. AttachedInv'
    <2> SUFFICES ASSUME NEW x \in Loops
                 PROVE  (AttachedInv!(x))'
      BY DEF AttachedInv
    <2>0. AttachedInv!(x) /\ loops'[x].conns = loops[x].conns
      BY DEF ControlInv, AttachedInv, PushesTo, OnlyLoop
    <2>1. \A t \in Sessions : /\ Detaching(t, x) => Detaching(t, x)'
                              /\ sess'[t].st \in {"open", "wait"} =>
                                   sess[t].st \in {"open", "wait"} /\ sess'[t].loop = sess[t].loop
                              /\ sess[t].st \in {"open", "wait"} /\ sess[t].loop = x
                                   => sess'[t].st \in {"open", "wait"} \/ Detaching(t, x)'
      BY <1>0, <1>3, Pushed DEF Becomes
    <2>2. \A t \in Sessions : /\ HasAttached(t, x) /\ sess[t].st \in {"open", "wait"}
                                  => sess[t].loop = x
                              /\ sess'[t].st \in {"open", "wait"} /\ sess'[t].loop = x
                                  => sess[t].st \in {"open", "wait"} /\ sess[t].loop = x
      BY <2>1 DEF HasAttached
    <2>3. \A t \in Sessions :
             HasAttached(t, x) =>
                /\ HasAttached(t, x)' /\ sess'[t].c = sess[t].c /\ sess'[t].gen = sess[t].gen
                /\ (sess[t].st \in {"open", "wait"} \/ Detaching(t, x))
                      => (sess'[t].st \in {"open", "wait"} \/ Detaching(t, x)')
      BY <1>3, <2>1, <2>2
    <2>4. \A t \in Sessions :
             (sess'[t].st \in {"open", "wait"} /\ sess'[t].loop = x)
                => (sess[t].st \in {"open", "wait"} /\ sess[t].loop = x)
      BY <2>2
    <2> QED
      BY <2>0, <2>3, <2>4, AttachedStays
  <1> QED
    BY <1>0, <1>1, <1>2, <1>4, <1>5, GoesOnSessions, Pushed DEF ControlInv

(***************************************************************************)
(* A connection joins a loop that others hold, or the one it spawns.       *)
(***************************************************************************)
JoinsAt(s, l) ==
    /\ s \in Sessions /\ sess[s].st = "setup" /\ OnlySession(s)
    /\ DOMAIN sess'[s] = SessionFields
    /\ sess'[s].st = "attach" /\ sess'[s].loop = l
    /\ sess'[s].c = sess[s].c /\ sess'[s].gen = sess[s].gen

LEMMA NotYetAttached ==
    ASSUME NEW s, NEW l \in Loops, JoinsAt(s, l), NEW t \in Sessions, NEW x \in Loops
    PROVE  /\ HasAttached(t, x)' <=> HasAttached(t, x)
           /\ HasAttached(t, x) => sess'[t] = sess[t]
           /\ sess'[t].st \in {"open", "wait"} => sess'[t] = sess[t]
  BY DEF JoinsAt, OnlySession, HasAttached

LEMMA JoinedSessions ==
    ASSUME ControlInv, NEW s, NEW l \in Loops, JoinsAt(s, l), loops'[l].st = "run",
           \A x \in Loops \ {l} : loops'[x].st = loops[x].st, cur' = cur
    PROVE  SessionsInv' /\ \A t \in Sessions : SessionOK(t)'
  <1>0. sess[s].loop = 0 /\ 0 \notin Loops
    BY DEF JoinsAt, ControlInv, ShapeInv, SessionOK, Loops
  <1>1. \A t \in Sessions : /\ sess'[t].st = "none" <=> sess[t].st = "none"
                            /\ sess[t].st # "none" => sess'[t].c = sess[t].c
                            /\ t # s => sess'[t] = sess[t]
    BY DEF JoinsAt, OnlySession
  <1>2. \A t \in Sessions : SessionOK(t)'
    BY <1>1 DEF JoinsAt, ControlInv, ShapeInv, SessionOK
  <1>3. ASSUME NEW x \in Loops \ {l}, NEW t \in Sessions
        PROVE  (Joined(t, x)' <=> Joined(t, x)) /\ (HoldsLoop(t, x)' => HoldsLoop(t, x))
    BY <1>0, <1>1 DEF Joined, HoldsLoop, JoinsAt
  <1>4. Joined(s, l)' /\ s \in Sessions
    BY DEF Joined, JoinsAt
  <1>5. \A x \in Loops : /\ loops'[x].st # "none" <=> \E t \in Sessions : Joined(t, x)'
                         /\ \A t \in Sessions : HoldsLoop(t, x)' => loops'[x].st = "run"
    BY <1>3, <1>4 DEF ControlInv, SessionsInv
  <1>6. \A t \in Sessions, u \in Sessions : t < u /\ sess'[u].st # "none" => sess'[t].st # "none"
    BY <1>1 DEF ControlInv, SessionsInv
  <1>7. \A c \in Clients :
          cur'[c] # 0 =>
            /\ sess'[cur'[c]].st # "none" /\ sess'[cur'[c]].c = c
            /\ \A t \in Sessions : cur'[c] < t /\ sess'[t].st # "none" => sess'[t].c # c
    BY <1>1 DEF ControlInv, SessionsInv, ShapeInv
  <1> QED
    BY <1>2, <1>5, <1>6, <1>7 DEF SessionsInv

LEMMA JoinsHeldLoop ==
    ASSUME ControlInv, NEW s, NEW l \in Loops, NEW m, JoinsAt(s, l), PushesTo(l, m),
           loops[l].st = "run", m.op = "attach", m.s = s, m.c = sess[s].c, cur' = cur
    PROVE  ControlInv'
  <1>0. CommandOK(l, m)' /\ s \in Sessions /\ OnlySession(s) /\ sess[s].st \in {"open", "setup"}
    BY DEF CommandOK, Joined, JoinsAt
  <1>1. CommandsInv' /\ IsSeq(loops'[l].queue)
        /\ \A x \in Loops, t \in Sessions : Detaching(t, x) => Detaching(t, x)'
    BY <1>0, Pushed
  <1>2. SessionsInv' /\ \A t \in Sessions : SessionOK(t)'
    BY JoinedSessions DEF PushesTo, OnlyLoop
  <1>3. ShapeInv'
    <2>1. ASSUME NEW x \in Loops PROVE LoopOK(x)'
      <3>1. IsSeq(loops'[l].queue)
        BY <1>1
      <3>2. CASE x = l
        BY <3>1, <3>2 DEF ControlInv, ShapeInv, LoopOK, PushesTo
      <3>3. CASE x # l
        BY <3>3 DEF ControlInv, ShapeInv, LoopOK, PushesTo, OnlyLoop
      <3> QED
        BY <3>2, <3>3
    <2> QED
      BY <1>0, <1>2, <2>1 DEF ControlInv, ShapeInv, PushesTo, OnlyLoop, OnlySession
  <1>4. GenerationsInv'
    <2>1. \A x \in Loops : loops'[x].st = loops[x].st /\ loops'[x].gen = loops[x].gen
      BY DEF PushesTo, OnlyLoop
    <2>2. ASSUME NEW x \in Loops, loops'[x].st = "run"
          PROVE  /\ \A t \in Sessions : HasAttached(t, x)' => sess'[t].gen < loops'[x].gen
                 /\ \A t \in Sessions, u \in Sessions :
                       HasAttached(t, x)' /\ HasAttached(u, x)' /\ sess'[t].gen = sess'[u].gen => t = u
      BY <2>1, <2>2, NotYetAttached DEF ControlInv, GenerationsInv
    <2> QED
      BY <2>2 DEF GenerationsInv
  <1>5. AttachedInv'
    <2> SUFFICES ASSUME NEW x \in Loops
                 PROVE  (AttachedInv!(x))'
      BY DEF AttachedInv
    <2>0. AttachedInv!(x) /\ loops'[x].conns = loops[x].conns
      BY DEF ControlInv, AttachedInv, PushesTo, OnlyLoop
    <2>2. ASSUME NEW d \in DOMAIN loops[x].conns
          PROVE  /\ loops[x].conns[d].s \in Sessions /\ HasAttached(loops[x].conns[d].s, x)'
                 /\ sess'[loops[x].conns[d].s].c = d
                 /\ sess'[loops[x].conns[d].s].gen = loops[x].conns[d].gen
                 /\ sess'[loops[x].conns[d].s].st \in {"open", "wait"} \/ Detaching(loops[x].conns[d].s, x)'
      <3>1. PICK u \in Sessions : u = loops[x].conns[d].s /\ u = loops'[x].conns[d].s
        BY <2>0
      <3>2. HasAttached(u, x)' /\ sess'[u] = sess[u]
        BY <2>0, <3>1, NotYetAttached
      <3>3. /\ sess'[u].c = d /\ sess'[u].gen = loops[x].conns[d].gen
            /\ sess'[u].st \in {"open", "wait"} \/ Detaching(u, x)'
        BY <1>1, <2>0, <3>1, <3>2
      <3> QED
        BY <3>1, <3>2, <3>3 DEF HasAttached, Detaching
    <2>3. ASSUME NEW t \in Sessions, sess'[t].st \in {"open", "wait"}, sess'[t].loop = x
          PROVE  \/ sess'[t].c \in DOMAIN loops[x].conns /\ loops[x].conns[sess'[t].c].s = t
                 \/ \E u \in Sessions : /\ HasAttached(u, x)' /\ sess'[u].c = sess'[t].c
                                        /\ sess'[t].gen < sess'[u].gen
      BY <2>0, <2>3, NotYetAttached
    <2> QED
      BY <2>0, <2>2, <2>3
  <1> QED
    BY <1>1, <1>2, <1>3, <1>4, <1>5 DEF ControlInv

LEMMA JoinsNewLoop ==
    ASSUME ControlInv, NEW s, NEW l \in Loops, NEW m, JoinsAt(s, l), loops[l].st = "none",
           OnlyLoop(l), DOMAIN loops'[l] = LoopFields, loops'[l].st = "run", loops'[l].gen = 0,
           DOMAIN loops'[l].conns = {}, loops'[l].work.st = "idle", loops'[l].queue = <<m>>,
           m.op = "attach", m.s = s, m.c = sess[s].c, cur' = cur
    PROVE  ControlInv'
  <1>0. CommandOK(l, m)' /\ s \in Sessions /\ OnlySession(s) /\ sess[s].st = "setup"
    BY DEF CommandOK, Joined, JoinsAt
  <1>1. SessionsInv' /\ \A t \in Sessions : SessionOK(t)'
    BY JoinedSessions DEF OnlyLoop
  <1>2. IsSeq(loops'[l].queue) /\ Len(loops'[l].queue) = 1 /\ loops'[l].queue[1] = m
    BY OneQueue
  <1>3. \A t \in Sessions : ~Joined(t, l)
    BY DEF ControlInv, SessionsInv
  <1>4. ShapeInv'
    <2>1. ASSUME NEW x \in Loops PROVE LoopOK(x)'
      BY <1>2 DEF ControlInv, ShapeInv, LoopOK, OnlyLoop
    <2> QED
      BY <1>0, <1>1, <2>1 DEF ControlInv, ShapeInv, OnlyLoop, OnlySession
  <1>5. CommandsInv'
    <2> SUFFICES ASSUME NEW x \in Loops
                 PROVE  (CommandsInv!(x))'
      BY DEF CommandsInv
    <2>1. CASE x = l
      <3>1. ~Busy(l)'
        BY DEF Busy
      <3>2. \A i \in 1..Len(loops'[l].queue) : i = 1 /\ loops'[l].queue[i] = m
        BY <1>2
      <3>3. \A i \in 1..Len(loops'[l].queue) : CommandOK(l, loops[l].queue[i])'
        BY <1>0, <3>2 DEF CommandOK
      <3> QED
        BY <2>1, <3>1, <3>2, <3>3
    <2>2. CASE x # l
      <3>1. loops'[x] = loops[x]
        BY <2>2 DEF OnlyLoop
      <3>2. CommandsInv!(x)
        BY DEF ControlInv, CommandsInv
      <3>3. \A i \in 1..Len(loops[x].queue) : sess'[loops[x].queue[i].s] = sess[loops[x].queue[i].s]
        BY <1>0, <3>2 DEF CommandOK, OnlySession
      <3>4. Busy(x) => sess'[loops[x].work.s] = sess[loops[x].work.s]
        BY <1>0, <3>2 DEF OnlySession
      <3>5. Busy(x)' <=> Busy(x)
        BY <3>1 DEF Busy
      <3> QED
        BY <3>1, <3>2, <3>3, <3>4, <3>5, CommandsStay
    <2> QED
      BY <2>1, <2>2
  <1>6. \A t \in Sessions : ~HasAttached(t, l)' /\ (sess'[t].st \in {"open", "wait"} => sess'[t].loop # l)
    <2> SUFFICES ASSUME NEW t \in Sessions
                 PROVE  ~HasAttached(t, l)' /\ (sess'[t].st \in {"open", "wait"} => sess'[t].loop # l)
      OBVIOUS
    <2>1. ~HasAttached(t, l)
      BY <1>3 DEF HasAttached, Joined
    <2>2. ~HasAttached(t, l)'
      BY <2>1, NotYetAttached
    <2> QED
      BY <2>2 DEF HasAttached
  <1>7. GenerationsInv'
    <2> SUFFICES ASSUME NEW x \in Loops, loops'[x].st = "run"
                 PROVE  /\ \A t \in Sessions : HasAttached(t, x)' => sess'[t].gen < loops'[x].gen
                        /\ \A t \in Sessions, u \in Sessions :
                              HasAttached(t, x)' /\ HasAttached(u, x)' /\ sess'[t].gen = sess'[u].gen => t = u
      BY DEF GenerationsInv
    <2>1. CASE x = l
      BY <1>6, <2>1
    <2>2. CASE x # l
      <3>1. loops'[x] = loops[x]
        BY <2>2 DEF OnlyLoop
      <3> QED
        BY <3>1, NotYetAttached DEF ControlInv, GenerationsInv
    <2> QED
      BY <2>1, <2>2
  <1>8. AttachedInv'
    <2> SUFFICES ASSUME NEW x \in Loops
                 PROVE  (AttachedInv!(x))'
      BY DEF AttachedInv
    <2>1. CASE x = l
      BY <1>6, <2>1
    <2>2. CASE x # l
      <3>0. AttachedInv!(x) /\ loops'[x] = loops[x]
        BY <2>2 DEF ControlInv, AttachedInv, OnlyLoop
      <3>1. \A u \in Sessions : /\ Detaching(u, x)' <=> Detaching(u, x)
                                /\ HasAttached(u, x) => HasAttached(u, x)' /\ sess'[u] = sess[u]
                                /\ sess'[u].st \in {"open", "wait"} => sess'[u] = sess[u]
        BY <3>0, NotYetAttached DEF Detaching
      <3> QED
        BY <3>0, <3>1, AttachedStays
    <2> QED
      BY <2>1, <2>2
  <1> QED
    BY <1>1, <1>4, <1>5, <1>7, <1>8 DEF ControlInv

(***************************************************************************)
(* A connection comes, or ends before it has joined a loop.                *)
(***************************************************************************)
Aside(s) ==
    /\ s \in Sessions /\ OnlySession(s) /\ DOMAIN sess'[s] = SessionFields
    /\ sess[s].st \in {"none", "setup"} /\ sess'[s].st \in {"setup", "gone"}
    /\ sess'[s].loop = 0 /\ sess'[s].c \in Clients /\ sess'[s].gen \in Nat
    /\ sess[s].st = "setup" => sess'[s].c = sess[s].c

LEMMA AsideInControl ==
    ASSUME ControlInv, NEW s, Aside(s), loops' = loops, cur' \in [Clients -> Sessions \cup {0}],
           \A t \in Sessions, u \in Sessions : t < u /\ sess'[u].st # "none" => sess'[t].st # "none",
           \A c \in Clients :
              cur'[c] # 0 =>
                /\ sess'[cur'[c]].st # "none" /\ sess'[cur'[c]].c = c
                /\ \A t \in Sessions : cur'[c] < t /\ sess'[t].st # "none" => sess'[t].c # c
    PROVE  ControlInv'
  <1>0. 0 \notin Loops /\ (sess[s].st # "none" => sess[s].loop = 0) /\ s \in Sessions
    BY DEF Loops, ControlInv, ShapeInv, SessionOK, Aside
  <1>1. \A t \in Sessions : /\ t # s => sess'[t] = sess[t]
                            /\ \A x \in Loops : /\ HasAttached(t, x)' <=> HasAttached(t, x)
                                                /\ HasAttached(t, x) => sess'[t] = sess[t]
                                                /\ Joined(t, x)' <=> Joined(t, x)
                                                /\ HoldsLoop(t, x)' <=> HoldsLoop(t, x)
                            /\ sess'[t].st \in {"open", "wait"} => sess'[t] = sess[t]
    BY <1>0 DEF Aside, OnlySession, HasAttached, Joined, HoldsLoop
  <1>2. ShapeInv'
    <2>1. ASSUME NEW x \in Loops PROVE LoopOK(x)'
      BY DEF ControlInv, ShapeInv, LoopOK
    <2>2. ASSUME NEW t \in Sessions PROVE SessionOK(t)'
      BY <1>1 DEF ControlInv, ShapeInv, SessionOK, Aside
    <2> QED
      BY <2>1, <2>2 DEF ControlInv, ShapeInv, Aside, OnlySession
  <1>3. SessionsInv'
    BY <1>1 DEF ControlInv, SessionsInv
  <1>4. CommandsInv'
    <2> SUFFICES ASSUME NEW x \in Loops
                 PROVE  (CommandsInv!(x))'
      BY DEF CommandsInv
    <2>1. CommandsInv!(x)
      BY DEF ControlInv, CommandsInv
    <2>2. \A i \in 1..Len(loops[x].queue) : sess'[loops[x].queue[i].s] = sess[loops[x].queue[i].s]
      BY <1>1, <2>1 DEF CommandOK, Aside
    <2>3. Busy(x) => sess'[loops[x].work.s] = sess[loops[x].work.s]
      BY <1>1, <2>1 DEF Aside
    <2>4. Busy(x)' <=> Busy(x)
      BY DEF Busy
    <2> QED
      BY <2>1, <2>2, <2>3, <2>4, CommandsStay
  <1>5. GenerationsInv'
    <2>1. ASSUME NEW x \in Loops, loops'[x].st = "run"
          PROVE  /\ \A t \in Sessions : HasAttached(t, x)' => sess'[t].gen < loops'[x].gen
                 /\ \A t \in Sessions, u \in Sessions :
                       HasAttached(t, x)' /\ HasAttached(u, x)' /\ sess'[t].gen = sess'[u].gen => t = u
      BY <1>1, <2>1 DEF ControlInv, GenerationsInv
    <2> QED
      BY <2>1 DEF GenerationsInv
  <1>6. AttachedInv'
    <2> SUFFICES ASSUME NEW x \in Loops
                 PROVE  (AttachedInv!(x))'
      BY DEF AttachedInv
    <2>0. AttachedInv!(x) /\ loops'[x] = loops[x]
      BY DEF ControlInv, AttachedInv
    <2>1. \A u \in Sessions : /\ Detaching(u, x)' <=> Detaching(u, x)
                              /\ HasAttached(u, x) => HasAttached(u, x)' /\ sess'[u] = sess[u]
                              /\ sess'[u].st \in {"open", "wait"} => sess'[u] = sess[u]
      BY <1>1, <2>0 DEF Detaching
    <2> QED
      BY <2>0, <2>1, AttachedStays
  <1> QED
    BY <1>2, <1>3, <1>4, <1>5, <1>6 DEF ControlInv

(***************************************************************************)
(* A loop ends.                                                            *)
(***************************************************************************)
LEMMA EndsInControl ==
    ASSUME ControlInv, NEW l \in Loops, loops[l].st = "run", ~\E s \in Sessions : HoldsLoop(s, l),
           OnlyLoop(l), DOMAIN loops'[l] = LoopFields, loops'[l].st = "over", loops'[l].gen = 0,
           DOMAIN loops'[l].conns = {}, loops'[l].work.st = "idle", loops'[l].queue = <<>>,
           sess' = sess, cur' = cur
    PROVE  ControlInv'
  <1>1. ShapeInv'
    <2>1. ASSUME NEW x \in Loops PROVE LoopOK(x)'
      BY EmptyQueue DEF ControlInv, ShapeInv, LoopOK, OnlyLoop
    <2> QED
      BY <2>1 DEF ControlInv, ShapeInv, SessionOK, OnlyLoop
  <1>2. SessionsInv'
    <2>1. \A x \in Loops : /\ loops'[x].st = "none" <=> loops[x].st = "none"
                           /\ x # l => loops'[x].st = loops[x].st
      BY DEF OnlyLoop
    <2> QED
      BY <2>1 DEF ControlInv, SessionsInv, Joined, HoldsLoop
  <1>3. CommandsInv'
    <2> SUFFICES ASSUME NEW x \in Loops
                 PROVE  (CommandsInv!(x))'
      BY DEF CommandsInv
    <2>1. CASE x = l
      BY <2>1, EmptyQueue DEF Busy
    <2>2. CASE x # l
      <3>1. CommandsInv!(x) /\ loops'[x] = loops[x]
        BY <2>2 DEF ControlInv, CommandsInv, OnlyLoop
      <3>2. Busy(x)' <=> Busy(x)
        BY <3>1 DEF Busy
      <3> QED
        BY <3>1, <3>2, CommandsStay
    <2> QED
      BY <2>1, <2>2
  <1>4. GenerationsInv'
    BY DEF ControlInv, GenerationsInv, HasAttached, OnlyLoop
  <1>5. AttachedInv'
    <2> SUFFICES ASSUME NEW x \in Loops
                 PROVE  (AttachedInv!(x))'
      BY DEF AttachedInv
    <2>1. CASE x = l
      BY <2>1 DEF HoldsLoop
    <2>2. CASE x # l
      <3>1. AttachedInv!(x) /\ loops'[x] = loops[x]
        BY <2>2 DEF ControlInv, AttachedInv, OnlyLoop
      <3>2. \A t \in Sessions : /\ HasAttached(t, x)' <=> HasAttached(t, x)
                                /\ Detaching(t, x)' <=> Detaching(t, x)
        BY <3>1 DEF HasAttached, Detaching
      <3> QED
        BY <3>1, <3>2, AttachedStays
    <2> QED
      BY <2>1, <2>2
  <1> QED
    BY <1>1, <1>2, <1>3, <1>4, <1>5 DEF ControlInv

-----------------------------------------------------------------------------
(* The steps of the loops                                                  *)

LEMMA WorkStepsKeep ==
    ASSUME ControlInv, NEW l \in Loops,
           \/ \E q \in Queries : AdvanceForPut(l, q) \/ SkipPut(l, q)
           \/ Rewire(l) \/ Hydrate(l) \/ SkipCommit(l) \/ ProcessCommit(l)
    PROVE  OnlyLoop(l) /\ Keeps(l) /\ sess' = sess /\ cur' = cur
  <1>0. DOMAIN loops = Loops /\ LoopOK(l)
    BY DEF ControlInv, ShapeInv
  <1>a. sess' = sess /\ cur' = cur
    BY DEF AdvanceForPut, SkipPut, Rewire, Hydrate, SkipCommit, ProcessCommit
  <1> SUFFICES OnlyLoop(l) /\ Keeps(l)
    BY <1>a
  <1> USE DEF LoopOK, OnlyLoop, Keeps, SameControl, SameConns, SameDesire, NoDesire, Busy, LoopFields, WorkFields
  <1>1. ASSUME NEW q \in Queries, AdvanceForPut(l, q) PROVE OnlyLoop(l) /\ Keeps(l)
    BY <1>0, <1>1 DEF AdvanceForPut
  <1>2. ASSUME NEW q \in Queries, SkipPut(l, q) PROVE OnlyLoop(l) /\ Keeps(l)
    BY <1>0, <1>2 DEF SkipPut
  <1>3. CASE Rewire(l)
    BY <1>0, <1>3 DEF Rewire
  <1>4. CASE Hydrate(l)
    <2>1. \E h, v, t, b :
            loops' = [loops EXCEPT ![l].work.st = "put", ![l].work.hydration = h,
                                   ![l].cvr = v, ![l].tracked = t, ![l].bodies = b]
      BY <1>4, Zenon DEF Hydrate
    <2>2. loops[l].work.st = "hydrate"
      BY <1>4 DEF Hydrate
    <2>3. PICK h, v, t, b :
            loops' = [loops EXCEPT ![l].work.st = "put", ![l].work.hydration = h,
                                   ![l].cvr = v, ![l].tracked = t, ![l].bodies = b]
      BY <2>1, Zenon
    <2>4. OnlyLoop(l) /\ DOMAIN loops'[l] = LoopFields
      BY <1>0, <2>3
    <2>5. /\ loops'[l].st = loops[l].st /\ loops'[l].queue = loops[l].queue
          /\ loops'[l].gen = loops[l].gen /\ loops'[l].conns = loops[l].conns
      BY <1>0, <2>3
    <2>6. loops'[l].work = [loops[l].work EXCEPT !.st = "put", !.hydration = h]
      BY <1>0, <2>3
    <2>7. SameDesire(l)
      BY <1>0, <2>2, <2>6
    <2> QED
      BY <1>0, <2>4, <2>5, <2>7
  <1>5. CASE SkipCommit(l)
    BY <1>0, <1>5 DEF SkipCommit, Notified, Idle
  <1>6. CASE ProcessCommit(l)
    BY <1>0, <1>6 DEF ProcessCommit, Notified, Idle
  <1> QED
    BY <1>1, <1>2, <1>3, <1>4, <1>5, <1>6

LEMMA WorkStepsControl ==
    ASSUME ControlInv, NEW l \in Loops,
           \/ \E q \in Queries : AdvanceForPut(l, q) \/ SkipPut(l, q)
           \/ Rewire(l) \/ Hydrate(l) \/ SkipCommit(l) \/ ProcessCommit(l)
    PROVE  ControlInv'
  <1>1. OnlyLoop(l) /\ Keeps(l) /\ sess' = sess /\ cur' = cur
    BY WorkStepsKeep
  <1>2. \A x \in Loops : Keeps(x)
    BY <1>1, UnchangedKeeps DEF ControlInv, OnlyLoop
  <1>3. DOMAIN loops' = Loops /\ MayLeave
    BY <1>1 DEF OnlyLoop, ControlInv, ShapeInv, MayLeave
  <1> QED
    BY <1>1, <1>2, <1>3, StaysInControl

LEMMA FannedOut ==
    ASSUME ControlInv, NEW l \in Loops, NEW cvr, NEW told, FanOut(l, cvr, told),
           DOMAIN told = DOMAIN loops[l].conns
    PROVE  OnlyLoop(l) /\ SameControl(l) /\ NoDesire(l)
  <1> DEFINE conns == loops[l].conns
             Poked(b) == Over([c \in DOMAIN told |-> [conns[c] EXCEPT !.delivery = b[c].delivery]], conns)
             built == [c \in DOMAIN told |-> BuildPokes(conns[c].delivery, told[c], cvr.version)]
  <1>0. loops' = [loops EXCEPT ![l].cvr = cvr, ![l].work = Idle, ![l].conns = Poked(built)]
    BY DEF FanOut
  <1>1. PICK b : loops' = [loops EXCEPT ![l].cvr = cvr, ![l].work = Idle, ![l].conns = Poked(b)]
    <2> HIDE DEF built
    <2> QED
      BY <1>0
  <1>2. DOMAIN loops = Loops /\ LoopOK(l)
    BY DEF ControlInv, ShapeInv
  <1>3. OnlyLoop(l) /\ DOMAIN loops'[l] = LoopFields
    BY <1>1, <1>2 DEF OnlyLoop, LoopOK
  <1>4. /\ loops'[l].st = loops[l].st /\ loops'[l].queue = loops[l].queue
        /\ loops'[l].gen = loops[l].gen /\ loops'[l].conns = Poked(b) /\ loops'[l].work = Idle
    BY <1>1, <1>2 DEF LoopOK, LoopFields
  <1>5. /\ DOMAIN Poked(b) = DOMAIN conns
        /\ \A c \in DOMAIN conns : Poked(b)[c] = [conns[c] EXCEPT !.delivery = b[c].delivery]
    BY DEF Over
  <1>6. \A c \in DOMAIN conns : /\ DOMAIN Poked(b)[c] = ConnFields
                                /\ Poked(b)[c].s = conns[c].s /\ Poked(b)[c].gen = conns[c].gen
    BY <1>2, <1>5 DEF LoopOK, ConnFields
  <1>7. SameConns(l)
    BY <1>4, <1>5, <1>6 DEF SameConns
  <1> QED
    BY <1>3, <1>4, <1>7 DEF SameControl, NoDesire, Idle

LEMMA CommitFlushControl ==
    ASSUME ControlInv, NEW l \in Loops, FlushCommit(l)
    PROVE  ControlInv'
  <1>1. /\ FanOut(l, loops[l].cvr, Told(l, "none", <<>>, <<loops[l].work.patches>>))
        /\ sess' = sess /\ cur' = cur
    BY DEF FlushCommit
  <1>2. DOMAIN Told(l, "none", <<>>, <<loops[l].work.patches>>) = DOMAIN loops[l].conns
    BY DEF Told
  <1>3. OnlyLoop(l) /\ SameControl(l) /\ NoDesire(l)
    BY <1>1, <1>2, FannedOut
  <1>4. \A x \in Loops : Keeps(x)
    BY <1>3, UnchangedKeeps DEF ControlInv, OnlyLoop, Keeps
  <1>5. DOMAIN loops' = Loops /\ MayLeave
    BY <1>1, <1>3 DEF ControlInv, ShapeInv, OnlyLoop, MayLeave
  <1> QED
    BY <1>1, <1>4, <1>5, StaysInControl

LEMMA Answered ==
    ASSUME ControlInv, NEW l \in Loops, Busy(l), sess' = Replied(loops[l].work.s)
    PROVE  OnlySession(loops[l].work.s) /\ Becomes(loops[l].work.s, "open")
  <1>1. loops[l].work.s \in Sessions /\ sess[loops[l].work.s].st = "wait"
    BY DEF ControlInv, CommandsInv
  <1>2. DOMAIN sess = Sessions /\ DOMAIN sess[loops[l].work.s] = SessionFields
    BY <1>1 DEF ControlInv, ShapeInv, SessionOK
  <1> QED
    BY <1>1, <1>2 DEF Replied, OnlySession, Becomes, SessionFields

LEMMA DesireFlushControl ==
    ASSUME ControlInv, NEW l \in Loops, FlushDesire(l)
    PROVE  ControlInv'
  <1> DEFINE w == loops[l].work
  <1>1. Busy(l) /\ cur' = cur
    BY DEF FlushDesire, Busy
  <1>2. PICK p : sess' = [Replied(w.s) EXCEPT ![w.s].puts = p]
    BY Zenon DEF FlushDesire
  <1>3. PICK cvr, mine, others : FanOut(l, cvr, Told(l, w.c, mine, others))
    BY Zenon DEF FlushDesire
  <1>4. OnlyLoop(l) /\ SameControl(l) /\ NoDesire(l)
    <2>1. DOMAIN Told(l, w.c, mine, others) = DOMAIN loops[l].conns
      BY DEF Told
    <2> QED
      BY <1>3, <2>1, FannedOut
  <1>5. w.s \in Sessions /\ DOMAIN sess = Sessions /\ DOMAIN sess[w.s] = SessionFields
    <2>1. w.s \in Sessions /\ sess[w.s].st = "wait"
      BY <1>1 DEF ControlInv, CommandsInv
    <2> QED
      BY <2>1 DEF ControlInv, ShapeInv, SessionOK
  <1>6. OnlySession(w.s) /\ Becomes(w.s, "open")
    BY <1>2, <1>5 DEF Replied, OnlySession, Becomes, SessionFields
  <1>7. MayLeave
    BY <1>1 DEF ControlInv, ShapeInv, MayLeave
  <1> QED
    BY <1>1, <1>4, <1>6, <1>7, RepliesInControl

LEMMA FailsControl ==
    ASSUME ControlInv, NEW l \in Loops, NEW cvr, Fails(l, cvr)
    PROVE  OnlyLoop(l) /\ SameControl(l) /\ NoDesire(l)
  <1>1. DOMAIN loops = Loops /\ LoopOK(l)
    BY DEF ControlInv, ShapeInv
  <1> QED
    BY <1>1 DEF Fails, OnlyLoop, SameControl, SameConns, NoDesire, LoopOK, LoopFields, Idle

LEMMA FlushFailsControl ==
    ASSUME ControlInv, NEW l \in Loops, FlushFails(l)
    PROVE  ControlInv'
  <1>1. MayLeave
    BY DEF FlushFails, ControlInv, ShapeInv, MayLeave
  <1>2. PICK cvr : Fails(l, cvr)
    BY Zenon DEF FlushFails
  <1>3. OnlyLoop(l) /\ SameControl(l) /\ NoDesire(l)
    BY <1>2, FailsControl
  <1>4. CASE sess' = sess
    <2>1. \A x \in Loops : Keeps(x)
      BY <1>3, UnchangedKeeps DEF ControlInv, OnlyLoop, Keeps
    <2>2. DOMAIN loops' = Loops
      BY <1>3 DEF OnlyLoop
    <2> QED
      BY <1>1, <1>4, <2>1, <2>2, StaysInControl
  <1>5. CASE Busy(l) /\ sess' = Replied(loops[l].work.s)
    BY <1>1, <1>3, <1>5, Answered, RepliesInControl
  <1> QED
    BY <1>4, <1>5 DEF FlushFails, Busy

LEMMA AdvanceFailsControl ==
    ASSUME ControlInv, NEW l \in Loops, NEW done, AdvanceFails(l, done)
    PROVE  ControlInv'
  <1> DEFINE w == loops[l].work
  <1>1. CASE /\ w.st = "put" /\ Fails(l, loops[l].cvr) /\ sess' = Replied(w.s)
             /\ \E b : cur' = [cur EXCEPT ![w.c] = IF b THEN 0 ELSE @]
    <2>1. Busy(l)
      BY <1>1 DEF Busy
    <2>2. OnlyLoop(l) /\ SameControl(l) /\ NoDesire(l)
      BY <1>1, FailsControl
    <2>3. MayLeave
      BY <1>1 DEF ControlInv, ShapeInv, MayLeave
    <2> QED
      BY <1>1, <2>1, <2>2, <2>3, Answered, RepliesInControl
  <1>2. CASE loops' = [loops EXCEPT ![l].notified = FALSE] /\ sess' = sess /\ cur' = cur
    <2>1. DOMAIN loops = Loops /\ LoopOK(l)
      BY DEF ControlInv, ShapeInv
    <2>2. OnlyLoop(l) /\ Keeps(l)
      BY <1>2, <2>1 DEF LoopOK, OnlyLoop, Keeps, SameControl, SameConns, SameDesire, NoDesire, Busy, LoopFields
    <2>3. \A x \in Loops : Keeps(x)
      BY <2>2, UnchangedKeeps DEF ControlInv, OnlyLoop, Keeps
    <2>4. DOMAIN loops' = Loops /\ MayLeave
      BY <1>2, <2>2 DEF OnlyLoop, ControlInv, ShapeInv, MayLeave
    <2> QED
      BY <1>2, <2>3, <2>4, StaysInControl
  <1> QED
    BY <1>1, <1>2, Zenon DEF AdvanceFails

FailsToHydrate(l) == (\E q \in Queries : AddQueryFails(l, q)) \/ FetchFails(l) \/ FetchedFails(l)

LEMMA FailingHydration ==
    ASSUME NEW l \in Loops, FailsToHydrate(l)
    PROVE  Busy(l) /\ \E cvr, tracked : HydrationFails(l, cvr, tracked)
  <1>1. Busy(l)
    BY DEF FailsToHydrate, AddQueryFails, FetchFails, FetchedFails, Busy
  <1>2. \E cvr, tracked : HydrationFails(l, cvr, tracked)
    BY Zenon DEF FailsToHydrate, AddQueryFails, FetchFails, FetchedFails
  <1> QED
    BY <1>1, <1>2

LEMMA HydrationFailsKeeps ==
    ASSUME ControlInv, NEW l \in Loops, NEW cvr, NEW tracked, HydrationFails(l, cvr, tracked)
    PROVE  /\ OnlyLoop(l) /\ SameControl(l) /\ NoDesire(l) /\ MayLeave
           /\ sess' = Replied(loops[l].work.s)
  <1>1. DOMAIN loops = Loops /\ LoopOK(l)
    BY DEF ControlInv, ShapeInv
  <1>2. /\ loops' = [loops EXCEPT ![l].cvr = cvr, ![l].tracked = tracked, ![l].work = Idle]
        /\ sess' = Replied(loops[l].work.s)
        /\ \E b : cur' = [cur EXCEPT ![loops[l].work.c] = IF b THEN 0 ELSE @]
    BY Zenon DEF HydrationFails
  <1>3. OnlyLoop(l) /\ SameControl(l) /\ NoDesire(l)
    BY <1>1, <1>2 DEF OnlyLoop, SameControl, SameConns, NoDesire, LoopOK, LoopFields, Idle
  <1>4. MayLeave
    BY <1>2 DEF ControlInv, ShapeInv, MayLeave
  <1> QED
    BY <1>2, <1>3, <1>4

LEMMA HydrationFailsControl ==
    ASSUME ControlInv, NEW l \in Loops, FailsToHydrate(l)
    PROVE  ControlInv'
  BY FailingHydration, HydrationFailsKeeps, Answered, RepliesInControl

LEMMA TakesFirst ==
    ASSUME ControlInv, NEW l \in Loops, NEW op, Takes(l, op)
    PROVE  /\ loops[l].st = "run" /\ loops[l].work.st = "idle" /\ loops[l].queue # <<>>
           /\ First(l).op = op /\ DOMAIN loops = Loops /\ DOMAIN loops[l] = LoopFields
           /\ First(l).s \in Sessions /\ DOMAIN sess = Sessions
           /\ DOMAIN sess[First(l).s] = SessionFields
  <1>1. /\ loops[l].st = "run" /\ loops[l].work.st = "idle" /\ loops[l].queue # <<>>
        /\ First(l).op = op /\ DOMAIN loops = Loops /\ DOMAIN loops[l] = LoopFields
        /\ IsSeq(loops[l].queue) /\ DOMAIN sess = Sessions
    BY DEF Takes, First, Idle, ControlInv, ShapeInv, LoopOK
  <1>2. First(l) = loops[l].queue[1] /\ 1 \in 1..Len(loops[l].queue)
    BY <1>1, TailFacts DEF First
  <1>3. First(l).s \in Sessions /\ sess[First(l).s].st # "none"
    BY <1>2 DEF ControlInv, CommandsInv, CommandOK, Joined
  <1> QED
    BY <1>1, <1>3 DEF ControlInv, ShapeInv, SessionOK

LEMMA AttachControl ==
    ASSUME ControlInv, NEW l \in Loops, Attach(l)
    PROVE  ControlInv'
  <1> DEFINE conns == loops[l].conns
  <1>1. PICK s, c : s = First(l).s /\ c = First(l).c
    OBVIOUS
  <1>2. /\ loops[l].st = "run" /\ loops[l].work.st = "idle" /\ loops[l].queue # <<>>
        /\ First(l).op = "attach" /\ DOMAIN loops = Loops /\ DOMAIN loops[l] = LoopFields
        /\ s \in Sessions /\ DOMAIN sess = Sessions /\ DOMAIN sess[s] = SessionFields
    BY <1>1, TakesFirst DEF Attach
  <1>3. PICK dl :
          /\ loops' = [loops EXCEPT ![l].queue = Tail(@), ![l].gen = @ + 1,
                                    ![l].conns = Over(One(c, [s |-> s, gen |-> loops[l].gen, delivery |-> dl]), @)]
          /\ sess' = [sess EXCEPT ![s].st = "open", ![s].gen = loops[l].gen]
          /\ cur' = cur
    BY <1>1, Zenon DEF Attach, First
  <1>4. OnlyLoop(l) /\ DOMAIN loops'[l] = LoopFields
    BY <1>2, <1>3 DEF OnlyLoop
  <1>5. /\ loops'[l].st = "run" /\ loops'[l].queue = Tail(loops[l].queue)
        /\ loops'[l].gen = loops[l].gen + 1 /\ loops'[l].work.st = "idle"
        /\ loops'[l].conns = Over(One(c, [s |-> s, gen |-> loops[l].gen, delivery |-> dl]), conns)
    BY <1>2, <1>3 DEF LoopFields
  <1>6. /\ DOMAIN loops'[l].conns = DOMAIN conns \cup {c}
        /\ \A d \in DOMAIN conns \ {c} : loops'[l].conns[d] = conns[d]
        /\ loops'[l].conns[c] = [s |-> s, gen |-> loops[l].gen, delivery |-> dl]
    BY <1>5 DEF Over, One
  <1>7. /\ DOMAIN loops'[l].conns[c] = ConnFields
        /\ loops'[l].conns[c].s = s /\ loops'[l].conns[c].gen = loops[l].gen
    BY <1>6 DEF ConnFields
  <1>8. /\ OnlySession(s) /\ DOMAIN sess'[s] = SessionFields
        /\ sess'[s].st = "open" /\ sess'[s].gen = loops[l].gen
        /\ sess'[s].c = sess[s].c /\ sess'[s].loop = sess[s].loop
    BY <1>2, <1>3 DEF OnlySession, SessionFields
  <1>9. Pops(l)
    BY <1>2, <1>4, <1>5 DEF Pops
  <1>10. cur' = cur /\ s = First(l).s /\ c = First(l).c /\ First(l).op = "attach"
         /\ loops'[l].gen = loops[l].gen + 1 /\ loops'[l].work.st = "idle"
    BY <1>1, <1>2, <1>3, <1>5
  <1> HIDE DEF conns
  <1>11. /\ DOMAIN loops'[l].conns = DOMAIN loops[l].conns \cup {c}
         /\ \A d \in DOMAIN loops[l].conns \ {c} : loops'[l].conns[d] = loops[l].conns[d]
    BY <1>6 DEF conns
  <1> QED
    BY <1>7, <1>8, <1>9, <1>10, <1>11, DoneAttach

LEMMA DetachControl ==
    ASSUME ControlInv, NEW l \in Loops, Detach(l)
    PROVE  ControlInv'
  <1> DEFINE conns == loops[l].conns
  <1>1. PICK s, c : s = First(l).s /\ c = First(l).c
    OBVIOUS
  <1>2. /\ loops[l].st = "run" /\ loops[l].work.st = "idle" /\ loops[l].queue # <<>>
        /\ First(l).op = "detach" /\ DOMAIN loops = Loops /\ DOMAIN loops[l] = LoopFields
        /\ s \in Sessions /\ DOMAIN sess = Sessions /\ DOMAIN sess[s] = SessionFields
    BY <1>1, TakesFirst DEF Detach
  <1>3. /\ loops' = IF c \in DOMAIN conns /\ conns[c].gen = First(l).gen
                    THEN [loops EXCEPT ![l].queue = Tail(@), ![l].conns = Without(@, {c})]
                    ELSE [loops EXCEPT ![l].queue = Tail(@)]
        /\ sess' = [sess EXCEPT ![s] = Ended(s)]
        /\ cur' = cur
    BY <1>1 DEF Detach, IsAttached, First
  <1>4. OnlyLoop(l) /\ DOMAIN loops'[l] = LoopFields
    BY <1>2, <1>3 DEF OnlyLoop
  <1>5. /\ loops'[l].st = "run" /\ loops'[l].queue = Tail(loops[l].queue)
        /\ loops'[l].gen = loops[l].gen /\ loops'[l].work.st = "idle"
        /\ loops'[l].conns = IF c \in DOMAIN conns /\ conns[c].gen = First(l).gen
                             THEN Without(conns, {c}) ELSE conns
    BY <1>2, <1>3 DEF LoopFields
  <1>6. /\ DOMAIN loops'[l].conns \subseteq DOMAIN conns
        /\ DOMAIN conns \ DOMAIN loops'[l].conns \subseteq {c}
        /\ \A d \in DOMAIN loops'[l].conns : loops'[l].conns[d] = conns[d]
        /\ c \in DOMAIN conns => (c \in DOMAIN loops'[l].conns <=> conns[c].gen # First(l).gen)
    BY <1>5 DEF Without
  <1>7. OnlySession(s) /\ Becomes(s, "gone")
    BY <1>2, <1>3 DEF OnlySession, Becomes, Ended, SessionFields
  <1>8. Pops(l)
    BY <1>2, <1>4, <1>5 DEF Pops
  <1> QED
    BY <1>1, <1>2, <1>3, <1>5, <1>6, <1>7, <1>8, DoneDetach

LEMMA DesireControl ==
    ASSUME ControlInv, NEW l \in Loops, Desire(l) \/ DesireUnattached(l)
    PROVE  ControlInv'
  <1>1. /\ loops[l].st = "run" /\ loops[l].work.st = "idle" /\ loops[l].queue # <<>>
        /\ First(l).op = "desire" /\ DOMAIN loops = Loops /\ DOMAIN loops[l] = LoopFields
        /\ First(l).s \in Sessions /\ DOMAIN sess = Sessions /\ DOMAIN sess[First(l).s] = SessionFields
        /\ LoopOK(l)
    BY TakesFirst DEF Desire, DesireUnattached, ControlInv, ShapeInv
  <1>2. CASE DesireUnattached(l)
    <2>1. /\ loops' = [loops EXCEPT ![l].queue = Tail(@)]
          /\ sess' = Replied(First(l).s) /\ cur' = cur
      BY <1>2 DEF DesireUnattached, First
    <2>2. OnlyLoop(l) /\ DOMAIN loops'[l] = LoopFields
      BY <1>1, <2>1 DEF OnlyLoop
    <2>3. /\ loops'[l].st = "run" /\ loops'[l].queue = Tail(loops[l].queue)
          /\ loops'[l].gen = loops[l].gen /\ loops'[l].work.st = "idle"
          /\ loops'[l].conns = loops[l].conns
      BY <1>1, <2>1 DEF LoopFields
    <2>4. SameConns(l) /\ Pops(l)
      BY <1>1, <2>2, <2>3 DEF SameConns, LoopOK, Pops
    <2>5. OnlySession(First(l).s) /\ Becomes(First(l).s, "open")
      BY <1>1, <2>1 DEF OnlySession, Becomes, Replied, SessionFields
    <2> QED
      BY <1>1, <2>1, <2>3, <2>4, <2>5, SkippedDesire
  <1>3. CASE Desire(l)
    <2> DEFINE m == First(l)
               cvr == loops[l].cvr
               prints == [q \in Queries |-> IF q \in m.patch.puts THEN m.patch.ast ELSE loops[l].prints[q]]
               desired == ApplyDesired(cvr, m.c, m.patch)
               work == [st |-> "put", kind |-> "desire", s |-> m.s, c |-> m.c, ast |-> m.patch.ast,
                        before |-> cvr, todo |-> m.patch.puts, q |-> "none",
                        puts |-> m.patch.puts, dels |-> m.patch.dels,
                        newly |-> Needed(cvr, m.c, m.patch),
                        config |-> ConfigVersion(cvr, m.c, m.patch),
                        patches |-> IF ChangesConfig(cvr, m.c, m.patch)
                                    THEN [NoPatches EXCEPT !.config = {ConfigVersion(cvr, m.c, m.patch)}]
                                    ELSE NoPatches,
                        hydration |-> NoPatches]
    <2>0. loops' = [loops EXCEPT ![l].queue = Tail(@), ![l].prints = prints,
                                 ![l].cvr = desired, ![l].work = work]
      BY <1>3 DEF Desire, First
    <2>1. work.st = "put" /\ DOMAIN work = WorkFields /\ work.s = First(l).s /\ work.c = First(l).c
      BY DEF WorkFields
    <2> HIDE DEF prints, desired, work
    <2>2. sess' = sess /\ cur' = cur /\ First(l).c \in DOMAIN loops[l].conns
      BY <1>3 DEF Desire, First
    <2>3. OnlyLoop(l) /\ DOMAIN loops'[l] = LoopFields
      BY <1>1, <2>0 DEF OnlyLoop
    <2>4. /\ loops'[l].st = "run" /\ loops'[l].queue = Tail(loops[l].queue)
          /\ loops'[l].gen = loops[l].gen /\ loops'[l].conns = loops[l].conns
          /\ loops'[l].work = work
      BY <1>1, <2>0 DEF LoopFields
    <2>5. /\ loops'[l].work.st = "put" /\ DOMAIN loops'[l].work = WorkFields
          /\ loops'[l].work.s = First(l).s /\ loops'[l].work.c = First(l).c
      BY <2>1, <2>4
    <2>6. SameConns(l) /\ Pops(l) /\ StartsDesire(l)
      BY <1>1, <2>2, <2>3, <2>4, <2>5 DEF SameConns, LoopOK, Pops, StartsDesire
    <2> QED
      BY <2>2, <2>4, <2>5, <2>6, StartedDesire
  <1> QED
    BY <1>2, <1>3

-----------------------------------------------------------------------------
(* The steps of the connections                                            *)

LEMMA LeastElement ==
    ASSUME NEW T \in SUBSET Nat, T # {}
    PROVE  \E x \in T : \A y \in T : x <= y
  <1>1. PICK x \in T : \A y \in T : ~(<<y, x>> \in OpToRel(<, Nat))
    BY WFMin, NatLessThanWellFounded, Zenon
  <1>2. ASSUME NEW y \in T
        PROVE  x <= y
    <2>1. ~(<<y, x>> \in OpToRel(<, Nat))
      BY <1>1
    <2>2. x \in Nat /\ y \in Nat
      OBVIOUS
    <2>3. <<y, x>> \in Nat \X Nat
      BY <2>2
    <2>4. ~(y < x)
      BY <2>1, <2>3 DEF OpToRel
    <2> QED
      BY <2>2, <2>4
  <1> QED
    BY <1>2

LEMMA HighestExists ==
    ASSUME NEW S \in SUBSET Loops, S # {}
    PROVE  Highest(S) \in S
  <1> DEFINE T == {MaxSessions - n : n \in S}
  <1>0. MaxSessions \in Nat /\ \A n \in S : n \in 1..MaxSessions
    BY GroupProcessorAssumption DEF Loops
  <1>1. T \in SUBSET Nat /\ T # {}
    BY <1>0
  <1>2. PICK x \in T : \A y \in T : x <= y
    BY <1>1, LeastElement
  <1>3. PICK n \in S : x = MaxSessions - n
    OBVIOUS
  <1>4. ASSUME NEW k \in S PROVE k <= n
    <2>1. MaxSessions - k \in T
      OBVIOUS
    <2>2. MaxSessions - n <= MaxSessions - k
      BY <1>2, <1>3, <2>1
    <2> QED
      BY <1>0, <2>2
  <1> QED
    BY <1>4 DEF Highest

(***************************************************************************)
(* There is a loop left to spawn for every connection: each loop was       *)
(* spawned by a connection of its own, and there are as many.              *)
(***************************************************************************)
LEMMA LoopIsLeft ==
    ASSUME ControlInv, NEW s \in Sessions, sess[s].st = "setup"
    PROVE  \E n \in Loops : loops[n].st = "none" /\ \A k \in 1..(n - 1) : loops[k].st # "none"
  <1>1. \E n \in Loops : loops[n].st = "none"
    <2> SUFFICES ASSUME \A n \in Loops : loops[n].st # "none"
                 PROVE  FALSE
      OBVIOUS
    <2> DEFINE S == {t \in Sessions \ {s} : sess[t].st # "none" /\ sess[t].loop \in Loops}
               f == [t \in S |-> sess[t].loop]
    <2>1. f \in Surjection(S, Loops)
      <3>1. f \in [S -> Loops]
        OBVIOUS
      <3>2. ASSUME NEW n \in Loops PROVE \E t \in S : f[t] = n
        <4>1. PICK t \in Sessions : Joined(t, n)
          BY DEF ControlInv, SessionsInv
        <4>2. sess[s].loop = 0 /\ 0 \notin Loops
          BY DEF ControlInv, ShapeInv, SessionOK, Loops
        <4> QED
          BY <4>1, <4>2 DEF Joined
      <3> QED
        BY <3>1, <3>2 DEF Surjection
    <2>2. IsFiniteSet(Sessions) /\ Cardinality(Sessions) = MaxSessions /\ Cardinality(Loops) = MaxSessions
      BY FS_Interval, GroupProcessorAssumption DEF Sessions, Loops
    <2>3. IsFiniteSet(Sessions \ {s}) /\ Cardinality(Sessions \ {s}) = MaxSessions - 1
      BY <2>2, FS_RemoveElement
    <2>4. S \in SUBSET (Sessions \ {s})
      OBVIOUS
    <2>5. IsFiniteSet(S) /\ Cardinality(S) <= MaxSessions - 1
      BY <2>3, <2>4, FS_Subset
    <2> HIDE DEF S, f
    <2>6. Cardinality(Loops) <= Cardinality(S)
      BY <2>1, <2>5, FS_Surjection
    <2>7. Cardinality(S) \in Nat
      BY <2>5, FS_CardinalityType
    <2> QED
      BY <2>2, <2>5, <2>6, <2>7, GroupProcessorAssumption
  <1> DEFINE T == {n \in Loops : loops[n].st = "none"}
  <1>2. T \in SUBSET Nat /\ T # {}
    BY <1>1 DEF Loops
  <1>3. PICK n \in T : \A k \in T : n <= k
    BY <1>2, LeastElement
  <1>4. ASSUME NEW k \in 1..(n - 1) PROVE loops[k].st # "none"
    <2>1. n \in 1..MaxSessions /\ MaxSessions \in Nat
      BY GroupProcessorAssumption DEF Loops
    <2>2. k \in 1..MaxSessions /\ ~(n <= k)
      BY <2>1
    <2> QED
      BY <1>3, <2>2 DEF Loops
  <1> QED
    BY <1>4

LEMMA JoinControl ==
    ASSUME ControlInv, NEW s \in Sessions, Join(s)
    PROVE  ControlInv'
  <1> DEFINE seed == IF service.seed = NoSeed THEN durable ELSE service.seed
             held == {l \in Loops : \E t \in Sessions : HoldsLoop(t, l)}
             new  == CHOOSE n \in Loops : loops[n].st = "none" /\ \A k \in 1..(n - 1) : loops[k].st # "none"
             mine == IF held # {} THEN Highest(held) ELSE new
             attach == [op |-> "attach", s |-> s, c |-> sess[s].c, base |-> client[sess[s].c].cookie]
  <1>1. /\ sess[s].st = "setup"
        /\ loops' = IF held # {} THEN Enqueue(mine, attach)
                    ELSE [loops EXCEPT ![mine] = [NewLoop(seed) EXCEPT !.queue = <<attach>>]]
        /\ sess' = [sess EXCEPT ![s].st = "attach", ![s].loop = mine]
        /\ cur' = cur
    BY DEF Join
  <1>2. attach.op = "attach" /\ attach.s = s /\ attach.c = sess[s].c
    OBVIOUS
  <1> HIDE DEF seed, attach
  <1>3. new \in Loops /\ loops[new].st = "none"
    BY <1>1, LoopIsLeft
  <1>4. held # {} => mine \in Loops /\ loops[mine].st = "run"
    <2>1. held # {} => Highest(held) \in held
      BY HighestExists
    <2> QED
      BY <2>1 DEF ControlInv, SessionsInv
  <1>5. PICK l, m : l = mine /\ m = attach
    OBVIOUS
  <1> HIDE DEF new
  <1>6. l \in Loops /\ DOMAIN loops = Loops /\ DOMAIN loops[l] = LoopFields
    BY <1>3, <1>4, <1>5 DEF ControlInv, ShapeInv, LoopOK
  <1>7. JoinsAt(s, l)
    <2>1. DOMAIN sess = Sessions /\ DOMAIN sess[s] = SessionFields
      BY <1>1 DEF ControlInv, ShapeInv, SessionOK
    <2> HIDE DEF mine
    <2> QED
      BY <1>1, <1>5, <2>1 DEF JoinsAt, OnlySession, SessionFields
  <1>8. m.op = "attach" /\ m.s = s /\ m.c = sess[s].c /\ cur' = cur
    BY <1>1, <1>2, <1>5
  <1>9. CASE held # {}
    <2>1. loops' = [loops EXCEPT ![l].queue = Append(@, m)] /\ loops[l].st = "run"
      BY <1>1, <1>4, <1>5, <1>9 DEF Enqueue
    <2>2. PushesTo(l, m)
      BY <1>6, <2>1 DEF PushesTo, OnlyLoop, LoopFields
    <2> QED
      BY <1>6, <1>7, <1>8, <2>1, <2>2, JoinsHeldLoop
  <1>10. CASE held = {}
    <2>1. loops' = [loops EXCEPT ![l] = [NewLoop(seed) EXCEPT !.queue = <<m>>]] /\ loops[l].st = "none"
      BY <1>1, <1>3, <1>5, <1>10
    <2>2. OnlyLoop(l) /\ loops'[l] = [NewLoop(seed) EXCEPT !.queue = <<m>>]
      BY <1>6, <2>1 DEF OnlyLoop
    <2>3. /\ DOMAIN loops'[l] = LoopFields /\ loops'[l].st = "run" /\ loops'[l].gen = 0
          /\ loops'[l].conns = <<>> /\ loops'[l].work.st = "idle" /\ loops'[l].queue = <<m>>
      BY <2>2 DEF NewLoop, LoopFields, Idle, Empty
    <2>4. DOMAIN loops'[l].conns = {}
      BY <2>3
    <2> QED
      BY <1>6, <1>7, <1>8, <2>1, <2>2, <2>3, <2>4, JoinsNewLoop
  <1> QED
    BY <1>9, <1>10

LEMMA ConnectionControl ==
    ASSUME ControlInv, NEW s \in Sessions,
           (\E patch \in Patches : Message(s, patch)) \/ (\E broken \in BOOLEAN : Notice(s, broken))
    PROVE  ControlInv'
  <1>1. sess[s].st = "open" /\ cur' = cur
    BY DEF Message, Notice
  <1>2. /\ DOMAIN sess = Sessions /\ DOMAIN sess[s] = SessionFields
        /\ sess[s].loop \in Loops /\ DOMAIN loops = Loops
    BY <1>1 DEF ControlInv, ShapeInv, SessionOK
  <1>3. PICK l \in Loops : l = sess[s].loop
    BY <1>2
  <1>4. DOMAIN loops[l] = LoopFields
    BY DEF ControlInv, ShapeInv, LoopOK
  <1>5. PICK m, to : /\ loops' = [loops EXCEPT ![l].queue = Append(@, m)]
                     /\ m.s = s /\ m.c = sess[s].c
                     /\ \/ m.op = "desire" /\ to = "wait"
                        \/ m.op = "detach" /\ to \in {"closing", "gone"} /\ m.gen = sess[s].gen
                     /\ DOMAIN sess' = Sessions /\ \A t \in Sessions \ {s} : sess'[t] = sess[t]
                     /\ DOMAIN sess'[s] = SessionFields /\ sess'[s].st = to
                     /\ sess'[s].c = sess[s].c /\ sess'[s].loop = sess[s].loop
                     /\ sess'[s].gen = sess[s].gen
    <2>1. ASSUME NEW patch \in Patches, Message(s, patch)
          PROVE  \E m : /\ loops' = [loops EXCEPT ![l].queue = Append(@, m)]
                        /\ m.s = s /\ m.c = sess[s].c /\ m.op = "desire"
      <3> DEFINE m == [op |-> "desire", s |-> s, c |-> sess[s].c, patch |-> patch]
      <3>1. loops' = [loops EXCEPT ![l].queue = Append(@, m)]
        BY <1>3, <2>1 DEF Message, Enqueue
      <3>2. m.s = s /\ m.c = sess[s].c /\ m.op = "desire"
        OBVIOUS
      <3> HIDE DEF m
      <3> QED
        BY <3>1, <3>2
    <2>2. ASSUME NEW patch \in Patches, Message(s, patch)
          PROVE  /\ DOMAIN sess' = Sessions /\ \A t \in Sessions \ {s} : sess'[t] = sess[t]
                 /\ DOMAIN sess'[s] = SessionFields /\ sess'[s].st = "wait"
                 /\ sess'[s].c = sess[s].c /\ sess'[s].loop = sess[s].loop
                 /\ sess'[s].gen = sess[s].gen
      BY <1>2, <2>2 DEF Message, SessionFields
    <2>3. ASSUME NEW broken \in BOOLEAN, Notice(s, broken)
          PROVE  \E m : /\ loops' = [loops EXCEPT ![l].queue = Append(@, m)]
                        /\ m.s = s /\ m.c = sess[s].c /\ m.op = "detach" /\ m.gen = sess[s].gen
      <3> DEFINE m == [op |-> "detach", s |-> s, c |-> sess[s].c, gen |-> sess[s].gen]
      <3>1. loops' = [loops EXCEPT ![l].queue = Append(@, m)]
        BY <1>3, <2>3 DEF Notice, Enqueue
      <3>2. m.s = s /\ m.c = sess[s].c /\ m.op = "detach" /\ m.gen = sess[s].gen
        OBVIOUS
      <3> HIDE DEF m
      <3> QED
        BY <3>1, <3>2
    <2>4. ASSUME NEW broken \in BOOLEAN, Notice(s, broken)
          PROVE  /\ DOMAIN sess' = Sessions /\ \A t \in Sessions \ {s} : sess'[t] = sess[t]
                 /\ DOMAIN sess'[s] = SessionFields /\ sess'[s].st \in {"closing", "gone"}
                 /\ sess'[s].c = sess[s].c /\ sess'[s].loop = sess[s].loop
                 /\ sess'[s].gen = sess[s].gen
      <3>1. CASE broken = TRUE
        BY <1>2, <2>4, <3>1 DEF Notice, Ended, SessionFields
      <3>2. CASE broken = FALSE
        BY <1>2, <2>4, <3>2 DEF Notice, SessionFields
      <3> QED
        BY <3>1, <3>2
    <2> QED
      BY <2>1, <2>2, <2>3, <2>4
  <1>6. PushesTo(l, m)
    BY <1>2, <1>4, <1>5 DEF PushesTo, OnlyLoop, LoopFields
  <1>7. OnlySession(s) /\ Becomes(s, to)
    BY <1>5 DEF OnlySession, Becomes
  <1> QED
    BY <1>1, <1>3, <1>5, <1>6, <1>7, PushedInControl

LEMMA ResolveControl ==
    ASSUME ControlInv, NEW c \in Clients, Resolve(c)
    PROVE  ControlInv'
  <1>1. PICK s \in Sessions :
          /\ sess[s].st = "none"
          /\ \A t \in 1..(s - 1) : sess[t].st # "none"
          /\ sess' = [sess EXCEPT ![s] = [st |-> "setup", c |-> c, loop |-> 0, gen |-> 0,
                                          ready |-> FALSE, puts |-> {}]]
          /\ cur' = [cur EXCEPT ![c] = s]
    BY DEF Resolve
  <1>2. loops' = loops /\ DOMAIN sess = Sessions /\ cur \in [Clients -> Sessions \cup {0}]
    BY DEF Resolve, ControlInv, ShapeInv
  <1>3. OnlySession(s) /\ sess'[s] = [st |-> "setup", c |-> c, loop |-> 0, gen |-> 0,
                                      ready |-> FALSE, puts |-> {}]
    BY <1>1, <1>2 DEF OnlySession
  <1>4. Aside(s)
    BY <1>1, <1>3 DEF Aside, SessionFields
  <1>5. \A t \in Sessions \ {s} : sess'[t] = sess[t]
    BY <1>3 DEF OnlySession
  <1>6. ASSUME NEW t \in Sessions, NEW u \in Sessions, t < u, sess'[u].st # "none"
        PROVE  sess'[t].st # "none"
    <2>1. CASE u = s
      <3>1. t \in 1..(s - 1) /\ t # s
        BY <1>6, <2>1, GroupProcessorAssumption DEF Sessions
      <3> QED
        BY <1>1, <1>5, <3>1
    <2>2. CASE u # s
      <3>1. sess[t].st # "none"
        BY <1>5, <1>6, <2>2 DEF ControlInv, SessionsInv
      <3> QED
        BY <1>3, <1>5, <3>1
    <2> QED
      BY <2>1, <2>2
  <1>7. \A t \in Sessions : s < t => sess'[t].st = "none"
    <2> SUFFICES ASSUME NEW t \in Sessions, s < t, sess'[t].st # "none"
                 PROVE  FALSE
      OBVIOUS
    <2>1. t # s
      BY GroupProcessorAssumption DEF Sessions
    <2> QED
      BY <1>1, <1>5, <2>1 DEF ControlInv, SessionsInv
  <1>8. ASSUME NEW d \in Clients, cur'[d] # 0
        PROVE  /\ sess'[cur'[d]].st # "none" /\ sess'[cur'[d]].c = d
               /\ \A t \in Sessions : cur'[d] < t /\ sess'[t].st # "none" => sess'[t].c # d
    <2>1. CASE d = c
      <3>1. cur'[d] = s
        BY <1>1, <1>2, <2>1
      <3> QED
        BY <1>3, <1>7, <2>1, <3>1
    <2>2. CASE d # c
      <3>1. cur'[d] = cur[d] /\ cur[d] \in Sessions
        BY <1>1, <1>2, <1>8, <2>2
      <3>2. /\ sess[cur[d]].st # "none" /\ sess[cur[d]].c = d
            /\ \A t \in Sessions : cur[d] < t /\ sess[t].st # "none" => sess[t].c # d
        BY <1>8, <3>1 DEF ControlInv, SessionsInv
      <3>3. cur[d] # s
        BY <1>1, <3>2
      <3> QED
        BY <1>3, <1>5, <2>2, <3>1, <3>2, <3>3
    <2> QED
      BY <2>1, <2>2
  <1>9. cur' \in [Clients -> Sessions \cup {0}]
    BY <1>1, <1>2
  <1> QED
    BY <1>2, <1>4, <1>6, <1>8, <1>9, AsideInControl

LEMMA GiveUpControl ==
    ASSUME ControlInv, NEW s \in Sessions, GiveUp(s)
    PROVE  ControlInv'
  <1>1. /\ sess[s].st = "setup" /\ sess' = [sess EXCEPT ![s] = Ended(s)]
        /\ loops' = loops /\ cur' = cur
    BY DEF GiveUp
  <1>2. /\ DOMAIN sess = Sessions /\ DOMAIN sess[s] = SessionFields /\ sess[s].loop = 0
        /\ sess[s].c \in Clients /\ sess[s].gen \in Nat /\ cur \in [Clients -> Sessions \cup {0}]
    BY <1>1 DEF ControlInv, ShapeInv, SessionOK
  <1>3. OnlySession(s) /\ sess'[s] = Ended(s)
    BY <1>1, <1>2 DEF OnlySession
  <1>4. Aside(s) /\ sess'[s].c = sess[s].c /\ sess'[s].st = "gone"
    BY <1>1, <1>2, <1>3 DEF Aside, Ended, SessionFields
  <1>5. \A t \in Sessions : /\ sess'[t].st = "none" <=> sess[t].st = "none"
                            /\ sess[t].st # "none" => sess'[t].c = sess[t].c
    BY <1>1, <1>3, <1>4 DEF OnlySession
  <1>6. \A t \in Sessions, u \in Sessions : t < u /\ sess'[u].st # "none" => sess'[t].st # "none"
    BY <1>5 DEF ControlInv, SessionsInv
  <1>7. \A c \in Clients :
          cur'[c] # 0 =>
            /\ sess'[cur'[c]].st # "none" /\ sess'[cur'[c]].c = c
            /\ \A t \in Sessions : cur'[c] < t /\ sess'[t].st # "none" => sess'[t].c # c
    BY <1>1, <1>2, <1>5 DEF ControlInv, SessionsInv
  <1> QED
    BY <1>1, <1>2, <1>4, <1>6, <1>7, AsideInControl

LEMMA LoopEndsControl ==
    ASSUME ControlInv, NEW l \in Loops, LoopEnds(l)
    PROVE  ControlInv'
  <1>1. /\ loops[l].st = "run" /\ ~\E s \in Sessions : HoldsLoop(s, l)
        /\ loops' = [loops EXCEPT ![l] = NoLoop("over")] /\ sess' = sess /\ cur' = cur
    BY DEF LoopEnds
  <1>2. OnlyLoop(l) /\ loops'[l] = NoLoop("over")
    BY <1>1 DEF OnlyLoop, ControlInv, ShapeInv
  <1>3. /\ DOMAIN loops'[l] = LoopFields /\ loops'[l].st = "over" /\ loops'[l].gen = 0
        /\ loops'[l].conns = <<>> /\ loops'[l].work.st = "idle" /\ loops'[l].queue = <<>>
    BY <1>2 DEF NoLoop, NewLoop, LoopFields, Idle, Empty
  <1>4. DOMAIN loops'[l].conns = {}
    BY <1>3
  <1> QED
    BY <1>1, <1>2, <1>3, <1>4, EndsInControl

LEMMA AsideStepsControl ==
    ASSUME ControlInv,
           (\E w \in Writes : Commit(w)) \/ (\E c \in Clients : Leave(c)) \/ UNCHANGED vars
    PROVE  ControlInv'
  <1>1. sess' = sess
    BY DEF Commit, Leave, vars
  <1>2. MayLeave
    <2>1. cur' = cur \/ \E c \in Clients : cur' = [cur EXCEPT ![c] = 0]
      BY DEF Commit, Leave, vars
    <2> QED
      BY <2>1 DEF MayLeave, ControlInv, ShapeInv
  <1>3. loops' = loops \/ loops' = [l \in Loops |-> IF loops[l].st = "run"
                                     THEN [loops[l] EXCEPT !.notified = TRUE] ELSE loops[l]]
    BY DEF Commit, Leave, vars
  <1>4. DOMAIN loops' = Loops
    BY <1>3 DEF ControlInv, ShapeInv
  <1>5. ASSUME NEW l \in Loops PROVE Keeps(l)
    <2>1. CASE loops'[l] = loops[l]
      BY <2>1, UnchangedKeeps DEF ControlInv
    <2>2. CASE loops'[l] = [loops[l] EXCEPT !.notified = TRUE]
      <3>1. LoopOK(l)
        BY DEF ControlInv, ShapeInv
      <3> QED
        BY <2>2, <3>1 DEF Keeps, SameControl, SameConns, SameDesire, NoDesire, Busy, LoopOK, LoopFields
    <2> QED
      BY <1>3, <2>1, <2>2
  <1> QED
    BY <1>1, <1>2, <1>4, <1>5, StaysInControl

LEMMA ControlNext == ControlInv /\ [Next]_vars => ControlInv'
  <1> SUFFICES ASSUME ControlInv, [Next]_vars PROVE ControlInv'
    OBVIOUS
  <1>1. ASSUME NEW l \in Loops, LoopStep(l) \/ FlushFails(l) PROVE ControlInv'
    BY <1>1, AttachControl, DetachControl, DesireControl, WorkStepsControl, DesireFlushControl,
       CommitFlushControl, LoopEndsControl, FlushFailsControl
       DEF LoopStep
  <1>2. ASSUME NEW l \in Loops, FailsToHydrate(l) PROVE ControlInv'
    BY <1>2, HydrationFailsControl
  <1> QED
    BY <1>1, <1>2, AdvanceFailsControl, AsideStepsControl, ResolveControl, JoinControl, GiveUpControl,
       ConnectionControl
       DEF Next, FailsToHydrate

LEMMA ControlInit == Init => ControlInv
  <1> SUFFICES ASSUME Init PROVE ControlInv
    OBVIOUS
  <1>1. /\ DOMAIN loops = Loops /\ \A l \in Loops : loops[l] = NoLoop("none")
        /\ DOMAIN sess = Sessions /\ \A s \in Sessions : sess[s].st = "none"
        /\ cur = [c \in Clients |-> 0]
    BY DEF Init
  <1>2. \A l \in Loops :
          /\ DOMAIN loops[l] = LoopFields /\ loops[l].st = "none" /\ loops[l].gen = 0
          /\ loops[l].conns = <<>> /\ loops[l].work.st = "idle" /\ loops[l].queue = <<>>
    BY <1>1 DEF NoLoop, NewLoop, LoopFields, Idle, Empty
  <1>3. DOMAIN <<>> = {}
    OBVIOUS
  <1>4. \A l \in Loops : DOMAIN loops[l].conns = {} /\ Len(loops[l].queue) = 0
    BY <1>2, <1>3, EmptyQueue
  <1>5. ShapeInv
    <2>1. ASSUME NEW l \in Loops PROVE LoopOK(l)
      BY <1>2, <1>4, EmptyQueue DEF LoopOK
    <2>2. \A s \in Sessions : SessionOK(s)
      BY <1>1 DEF SessionOK
    <2> QED
      BY <1>1, <2>1, <2>2 DEF ShapeInv
  <1>6. SessionsInv
    BY <1>1, <1>2 DEF SessionsInv, Joined, HoldsLoop
  <1>7. CommandsInv
    BY <1>2, <1>4 DEF CommandsInv, Busy
  <1>8. GenerationsInv /\ AttachedInv
    BY <1>1, <1>2, <1>4 DEF GenerationsInv, AttachedInv
  <1> QED
    BY <1>5, <1>6, <1>7, <1>8 DEF ControlInv

(***************************************************************************)
(* The connection a client is on is the last it made, so that no           *)
(* connection of it that the loop attached can have a higher generation    *)
(* once the earlier ones have all attached before it.                      *)
(***************************************************************************)
LEMMA ControlMeansAttached == ControlInv => StaysAttached
  <1> SUFFICES ASSUME ControlInv, NEW c \in Clients, cur[c] # 0,
                      sess[cur[c]].st \in {"open", "wait"}, Latest(c, cur[c])
               PROVE  LET conns == loops[sess[cur[c]].loop].conns
                      IN  c \in DOMAIN conns /\ conns[c].s = cur[c]
    BY DEF StaysAttached
  <1>1. PICK s \in Sessions : s = cur[c]
    BY DEF ControlInv, ShapeInv
  <1>2. sess[s].c = c /\ sess[s].loop \in Loops /\ sess[s].gen \in Nat
    BY <1>1 DEF ControlInv, ShapeInv, SessionOK, SessionsInv
  <1>3. PICK l \in Loops : l = sess[s].loop
    BY <1>2
  <1>4. ASSUME NEW t \in Sessions, HasAttached(t, l), sess[t].c = c
        PROVE  ~(sess[s].gen < sess[t].gen)
    <2>1. sess[t].st # "none" /\ sess[t].loop = l /\ sess[t].gen \in Nat
      BY <1>4 DEF HasAttached, ControlInv, ShapeInv, SessionOK
    <2>2. ~(s < t)
      BY <1>1, <1>4, <2>1 DEF ControlInv, SessionsInv
    <2>3. s \in Nat /\ t \in Nat
      BY DEF Sessions
    <2>4. CASE t = s
      BY <1>2, <2>4
    <2>5. CASE t < s
      BY <1>1, <1>2, <1>3, <1>4, <2>1, <2>5 DEF Latest
    <2> QED
      BY <2>2, <2>3, <2>4, <2>5
  <1> QED
    BY <1>1, <1>2, <1>3, <1>4 DEF ControlInv, AttachedInv

(***************************************************************************)
(* However the sockets of a client overlap and in whatever order their     *)
(* ends are noticed, the connection it is on, once attached after all the  *)
(* earlier ones, is the one the loop pokes: handle_command takes a Detach  *)
(* of an older generation for what it is.                                  *)
(***************************************************************************)
THEOREM StaysAttachedAlways == Spec => []StaysAttached
  <1>1. Init => ControlInv
    BY ControlInit
  <1>2. ControlInv /\ [Next]_vars => ControlInv'
    BY ControlNext
  <1>3. ControlInv => StaysAttached
    BY ControlMeansAttached
  <1> QED
    BY <1>1, <1>2, <1>3, PTL DEF Spec

-----------------------------------------------------------------------------
(* The group service, operation by operation                               *)

LEMMA DesiredService ==
    ASSUME NEW svc, ServiceOK(svc), NEW c, NEW q \in Queries, NEW d,
           DOMAIN d = {"at", "pipes"},
           DOMAIN d.pipes = DOMAIN svc.driver.pipes \cup IF IsFirst(svc, q) THEN {q} ELSE {}
    PROVE  LET new == [Desired(svc, c, q) EXCEPT !.driver = d]
           IN  /\ ServiceOK(new) /\ new.live = svc.live
               /\ \A p \in Queries : new.desirers[p] \subseteq svc.desirers[p] \cup {c}
  <1> DEFINE new == [Desired(svc, c, q) EXCEPT !.driver = d]
  <1>1. /\ DOMAIN new = {"live", "driver", "seed", "desirers", "unbuilt"} /\ new.driver = d
        /\ new.live = svc.live /\ new.desirers = [svc.desirers EXCEPT ![q] = @ \cup {c}]
        /\ new.unbuilt = svc.unbuilt
    BY DEF Desired, ServiceOK
  <1> HIDE DEF new
  <1>2. /\ DOMAIN new.desirers = Queries /\ new.desirers[q] = svc.desirers[q] \cup {c}
        /\ \A p \in Queries \ {q} : new.desirers[p] = svc.desirers[p]
    BY <1>1 DEF ServiceOK
  <1>3. DOMAIN d.pipes = {p \in Queries : new.desirers[p] # {}} \ svc.unbuilt
    BY <1>2 DEF ServiceOK, IsFirst
  <1>4. ServiceOK(new) /\ new.live = svc.live
        /\ \A p \in Queries : new.desirers[p] \subseteq svc.desirers[p] \cup {c}
    BY <1>1, <1>2, <1>3 DEF ServiceOK
  <1> QED
    BY <1>4 DEF new

LEMMA AddedQuery ==
    ASSUME NEW svc, ServiceOK(svc), NEW c, NEW q \in Queries
    PROVE  /\ ServiceOK(DesireQuery(svc, c, q)) /\ DesireQuery(svc, c, q).live = svc.live
           /\ \A p \in Queries : DesireQuery(svc, c, q).desirers[p] \subseteq svc.desirers[p] \cup {c}
  <1> DEFINE d == IF IsFirst(svc, q) THEN AddQuery(svc.driver, q) ELSE svc.driver
  <1>1. DesireQuery(svc, c, q) = [Desired(svc, c, q) EXCEPT !.driver = d]
    BY DEF DesireQuery, Desired, ServiceOK
  <1>2. /\ DOMAIN d = {"at", "pipes"}
        /\ DOMAIN d.pipes = DOMAIN svc.driver.pipes \cup IF IsFirst(svc, q) THEN {q} ELSE {}
    BY DEF ServiceOK, AddQuery, Over, One
  <1> HIDE DEF d
  <1> QED
    BY <1>1, <1>2, DesiredService

LEMMA RegisteredQuery ==
    ASSUME NEW svc, ServiceOK(svc), NEW c, NEW q \in Queries, NEW rows
    PROVE  /\ ServiceOK(RegisterDesire(svc, c, q, rows)) /\ RegisterDesire(svc, c, q, rows).live = svc.live
           /\ \A p \in Queries :
                 RegisterDesire(svc, c, q, rows).desirers[p] \subseteq svc.desirers[p] \cup {c}
  <1> DEFINE d == IF IsFirst(svc, q) THEN RegisterQuery(svc.driver, q, rows) ELSE svc.driver
  <1>1. RegisterDesire(svc, c, q, rows) = [Desired(svc, c, q) EXCEPT !.driver = d]
    BY DEF RegisterDesire, Desired, ServiceOK
  <1>2. /\ DOMAIN d = {"at", "pipes"}
        /\ DOMAIN d.pipes = DOMAIN svc.driver.pipes \cup IF IsFirst(svc, q) THEN {q} ELSE {}
    BY DEF ServiceOK, RegisterQuery, Over, One
  <1> HIDE DEF d
  <1> QED
    BY <1>1, <1>2, DesiredService

(***************************************************************************)
(* A registration that fails leaves its query desired and not built.       *)
(***************************************************************************)
LEMMA FailedService ==
    ASSUME NEW svc, ServiceOK(svc), NEW c, NEW q \in Queries, svc.desirers[q] = {},
           NEW new, new = FailedDesire(svc, c, q)
    PROVE  /\ ServiceOK(new) /\ new.live = svc.live
           /\ \A p \in Queries : new.desirers[p] \subseteq svc.desirers[p] \cup {c}
  <1>1. /\ DOMAIN new = {"live", "driver", "seed", "desirers", "unbuilt"} /\ new.driver = svc.driver
        /\ new.live = svc.live /\ new.desirers = [svc.desirers EXCEPT ![q] = @ \cup {c}]
        /\ new.unbuilt = svc.unbuilt \cup {q}
    BY DEF FailedDesire, Desired, ServiceOK
  <1>2. /\ DOMAIN new.desirers = Queries /\ new.desirers[q] = {c} /\ svc.desirers[q] = {}
        /\ \A p \in Queries \ {q} : new.desirers[p] = svc.desirers[p]
    BY <1>1 DEF ServiceOK
  <1>3. /\ DOMAIN svc.driver.pipes = {p \in Queries : new.desirers[p] # {}} \ new.unbuilt
        /\ new.unbuilt \subseteq {p \in Queries : new.desirers[p] # {}}
    BY <1>1, <1>2 DEF ServiceOK
  <1> QED
    BY <1>1, <1>2, <1>3 DEF ServiceOK

(***************************************************************************)
(* What takes desirers away takes the pipelines that are left without one. *)
(***************************************************************************)
LEMMA UndesiredQueries ==
    ASSUME NEW svc, ServiceOK(svc), NEW c, NEW qs
    PROVE  /\ ServiceOK(Undesire(svc, c, qs)) /\ Undesire(svc, c, qs).live = svc.live
           /\ \A p \in Queries :
                 /\ Undesire(svc, c, qs).desirers[p] \subseteq svc.desirers[p]
                 /\ p \in qs => c \notin Undesire(svc, c, qs).desirers[p]
  <1> DEFINE D == [q \in Queries |-> IF q \in qs THEN svc.desirers[q] \ {c} ELSE svc.desirers[q]]
             os == Orphans(svc, c, qs)
  <1> DEFINE new == Undesire(svc, c, qs)
  <1>1. /\ DOMAIN new = {"live", "driver", "seed", "desirers", "unbuilt"} /\ new.desirers = D
        /\ new.live = svc.live
        /\ new.driver = [svc.driver EXCEPT !.pipes = Without(svc.driver.pipes, os)]
        /\ new.unbuilt = svc.unbuilt \ os
    BY DEF Undesire, ServiceOK
  <1>2. ASSUME NEW p \in Queries
        PROVE  /\ D[p] \subseteq svc.desirers[p] /\ (p \in qs => c \notin D[p])
               /\ p \in os /\ svc.desirers[p] # {} <=> D[p] = {} /\ svc.desirers[p] # {}
    BY DEF Orphans
  <1>3. DOMAIN D = Queries
    OBVIOUS
  <1> HIDE DEF D, os, new
  <1>4. DOMAIN new.driver = {"at", "pipes"} /\ DOMAIN new.driver.pipes = DOMAIN svc.driver.pipes \ os
    BY <1>1 DEF ServiceOK, Without
  <1>5. ASSUME NEW p
        PROVE  /\ p \in DOMAIN svc.driver.pipes \ os <=> p \in Queries /\ D[p] # {} /\ p \notin svc.unbuilt \ os
               /\ p \in svc.unbuilt \ os => p \in Queries /\ D[p] # {}
    BY <1>2 DEF ServiceOK
  <1>6. ServiceOK(new)
    BY <1>1, <1>3, <1>4, <1>5 DEF ServiceOK
  <1>7. /\ ServiceOK(new) /\ new.live = svc.live
        /\ \A p \in Queries : new.desirers[p] = D[p]
    BY <1>1, <1>6
  <1> QED
    BY <1>2, <1>7 DEF new

LEMMA ResetService ==
    ASSUME NEW svc, ServiceOK(svc), NEW qs
    PROVE  /\ ServiceOK(ResetQueries(svc, qs)) /\ ResetQueries(svc, qs).live = svc.live
           /\ \A p \in Queries : ResetQueries(svc, qs).desirers[p] \subseteq svc.desirers[p]
  <1> DEFINE D == [q \in Queries |-> IF q \in qs THEN {} ELSE svc.desirers[q]]
  <1> DEFINE new == ResetQueries(svc, qs)
  <1>1. /\ DOMAIN new = {"live", "driver", "seed", "desirers", "unbuilt"} /\ new.desirers = D
        /\ new.live = svc.live
        /\ new.driver = [svc.driver EXCEPT !.pipes = Without(svc.driver.pipes, qs)]
        /\ new.unbuilt = svc.unbuilt \ qs
    BY DEF ResetQueries, ServiceOK
  <1>2. ASSUME NEW p \in Queries
        PROVE  /\ D[p] \subseteq svc.desirers[p]
               /\ p \in qs /\ svc.desirers[p] # {} <=> D[p] = {} /\ svc.desirers[p] # {}
    OBVIOUS
  <1>3. DOMAIN D = Queries
    OBVIOUS
  <1> HIDE DEF D, new
  <1>4. DOMAIN new.driver = {"at", "pipes"} /\ DOMAIN new.driver.pipes = DOMAIN svc.driver.pipes \ qs
    BY <1>1 DEF ServiceOK, Without
  <1>5. ASSUME NEW p
        PROVE  /\ p \in DOMAIN svc.driver.pipes \ qs <=> p \in Queries /\ D[p] # {} /\ p \notin svc.unbuilt \ qs
               /\ p \in svc.unbuilt \ qs => p \in Queries /\ D[p] # {}
    BY <1>2 DEF ServiceOK
  <1>6. ServiceOK(new)
    BY <1>1, <1>3, <1>4, <1>5 DEF ServiceOK
  <1>7. /\ ServiceOK(new) /\ new.live = svc.live
        /\ \A p \in Queries : new.desirers[p] = D[p]
    BY <1>1, <1>6
  <1> QED
    BY <1>2, <1>7 DEF new

(***************************************************************************)
(* An advance keeps the set of pipelines, whichever of them it reaches.    *)
(***************************************************************************)
LEMMA AdvancedService ==
    ASSUME NEW svc, ServiceOK(svc), NEW head, NEW done, done \subseteq DOMAIN svc.driver.pipes
    PROVE  LET new == [svc EXCEPT !.driver = Advance(svc.driver, head, done).driver]
           IN  ServiceOK(new) /\ new.live = svc.live /\ new.desirers = svc.desirers
  <1> DEFINE d == Advance(svc.driver, head, done).driver
             new == [svc EXCEPT !.driver = d]
  <1>1. DOMAIN d = {"at", "pipes"} /\ DOMAIN d.pipes = DOMAIN svc.driver.pipes
    <2> DEFINE rows == [q \in done |-> PipeNext(q, svc.driver, head).rows]
    <2>1. d = [at |-> head, pipes |-> Over(rows, svc.driver.pipes)]
      BY DEF Advance
    <2>2. DOMAIN rows = done
      OBVIOUS
    <2> HIDE DEF rows, d
    <2> QED
      BY <2>1, <2>2 DEF Over
  <1> HIDE DEF d
  <1>2. ServiceOK(new) /\ new.live = svc.live /\ new.desirers = svc.desirers
    BY <1>1 DEF ServiceOK
  <1> QED
    BY <1>2 DEF d

-----------------------------------------------------------------------------
(* The steps that keep the loops and their clients                         *)

RunsOn ==
    \A l \in Loops : /\ loops'[l].st = loops[l].st
                     /\ DOMAIN loops[l].conns \subseteq DOMAIN loops'[l].conns

NoneSetUp == \A s \in Sessions : sess'[s].st = "setup" => sess[s].st = "setup"

LEMMA ServesOn ==
    ASSUME ServiceInv, RunsOn, NoneSetUp, service' = service
    PROVE  ServiceInv'
  <1>1. Held' => Held
    BY DEF Held, RunsOn, NoneSetUp
  <1>2. ASSUME NEW c, Attends(c) PROVE Attends(c)'
    BY <1>2 DEF Attends, RunsOn
  <1>3. (service.live => ServiceOK(service))'
    BY DEF ServiceInv, ServiceOK
  <1>4. ASSUME service'.live, NEW q \in Queries, NEW c \in service'.desirers[q] PROVE Attends(c)'
    BY <1>2, <1>4 DEF ServiceInv
  <1> QED
    BY <1>1, <1>3, <1>4 DEF ServiceInv

LEMMA ServesOneMore ==
    ASSUME ServiceInv, RunsOn, NoneSetUp, service.live, NEW c, Attends(c),
           ServiceOK(service'), service'.live = service.live,
           \A q \in Queries : service'.desirers[q] \subseteq service.desirers[q] \cup {c}
    PROVE  ServiceInv'
  <1>1. ASSUME NEW x, Attends(x) PROVE Attends(x)'
    BY <1>1 DEF Attends, RunsOn
  <1>2. ASSUME NEW q \in Queries, NEW x \in service'.desirers[q] PROVE Attends(x)'
    BY <1>1, <1>2 DEF ServiceInv
  <1>3. service'.live
    OBVIOUS
  <1> QED
    BY <1>2, <1>3 DEF ServiceInv, ServiceOK

LEMMA OneRunsOn ==
    ASSUME NEW l \in Loops, OnlyLoop(l), SameControl(l)
    PROVE  RunsOn
  BY DEF RunsOn, OnlyLoop, SameControl, SameConns

LEMMA AnsweredNoneSetUp ==
    ASSUME NEW s, OnlySession(s), Becomes(s, "open")
    PROVE  NoneSetUp
  BY DEF NoneSetUp, OnlySession, Becomes

LEMMA AsideStepsService ==
    ASSUME ControlInv, ServiceInv,
           (\E w \in Writes : Commit(w)) \/ (\E c \in Clients : Leave(c)) \/ UNCHANGED vars
    PROVE  ServiceInv'
  <1>1. sess' = sess /\ service' = service
    BY DEF Commit, Leave, vars
  <1>2. loops' = loops \/ loops' = [l \in Loops |-> IF loops[l].st = "run"
                                     THEN [loops[l] EXCEPT !.notified = TRUE] ELSE loops[l]]
    BY DEF Commit, Leave, vars
  <1>3. RunsOn
    BY <1>2 DEF RunsOn, ControlInv, ShapeInv, LoopOK, LoopFields
  <1> QED
    BY <1>1, <1>3, ServesOn DEF NoneSetUp

LEMMA ConnectionService ==
    ASSUME ControlInv, ServiceInv, NEW s \in Sessions,
           (\E patch \in Patches : Message(s, patch)) \/ (\E broken \in BOOLEAN : Notice(s, broken))
    PROVE  ServiceInv'
  <1>1. sess[s].st = "open" /\ service' = service
    BY DEF Message, Notice
  <1>2. sess[s].loop \in Loops /\ DOMAIN sess = Sessions /\ DOMAIN sess[s] = SessionFields
    BY <1>1 DEF ControlInv, ShapeInv, SessionOK
  <1>3. PICK m : loops' = Enqueue(sess[s].loop, m)
    BY Zenon DEF Message, Notice
  <1>4. PICK l \in Loops : l = sess[s].loop
    BY <1>2
  <1>5. RunsOn
    <2>1. loops' = [loops EXCEPT ![l].queue = Append(@, m)]
      BY <1>3, <1>4 DEF Enqueue
    <2> QED
      BY <2>1 DEF RunsOn, ControlInv, ShapeInv, LoopOK, LoopFields
  <1>6. NoneSetUp
    <2>1. CASE \E patch \in Patches : Message(s, patch)
      BY <1>2, <2>1 DEF Message, NoneSetUp, SessionFields
    <2>2. CASE \E broken \in BOOLEAN : Notice(s, broken)
      <3>1. sess' = [sess EXCEPT ![s] = Ended(s)] \/ sess' = [sess EXCEPT ![s].st = "closing"]
        BY <2>2, Zenon DEF Notice
      <3> QED
        BY <1>2, <3>1 DEF Ended, NoneSetUp, SessionFields
    <2> QED
      BY <2>1, <2>2
  <1> QED
    BY <1>1, <1>5, <1>6, ServesOn

LEMMA WorkRunsOn ==
    ASSUME ControlInv, NEW l \in Loops,
           \/ \E q \in Queries : AdvanceForPut(l, q) \/ SkipPut(l, q)
           \/ Rewire(l) \/ Hydrate(l) \/ SkipCommit(l) \/ ProcessCommit(l)
    PROVE  RunsOn /\ NoneSetUp
  <1>1. OnlyLoop(l) /\ Keeps(l) /\ sess' = sess
    BY WorkStepsKeep
  <1> QED
    BY <1>1, OneRunsOn DEF Keeps, NoneSetUp

LEMMA QuietWorkService ==
    ASSUME ControlInv, ServiceInv, NEW l \in Loops,
           (\E q \in Queries : SkipPut(l, q)) \/ Rewire(l) \/ SkipCommit(l)
    PROVE  ServiceInv'
  <1>1. RunsOn /\ NoneSetUp
    BY WorkRunsOn
  <1>2. service' = service
    BY DEF SkipPut, Rewire, SkipCommit
  <1> QED
    BY <1>1, <1>2, ServesOn

LEMMA FlushesService ==
    ASSUME ControlInv, ServiceInv, NEW l \in Loops, FlushDesire(l) \/ FlushCommit(l) \/ FlushFails(l)
    PROVE  ServiceInv'
  <1>1. service' = service
    BY DEF FlushDesire, FlushCommit, FlushFails
  <1>2. RunsOn
    <2>1. CASE FlushFails(l)
      <3>1. PICK cvr : Fails(l, cvr)
        BY <2>1, Zenon DEF FlushFails
      <3> QED
        BY <3>1, FailsControl, OneRunsOn
    <2>2. CASE FlushDesire(l) \/ FlushCommit(l)
      <3>1. PICK cvr, c, mine, others : FanOut(l, cvr, Told(l, c, mine, others))
        BY <2>2, Zenon DEF FlushDesire, FlushCommit
      <3>2. DOMAIN Told(l, c, mine, others) = DOMAIN loops[l].conns
        BY DEF Told
      <3> QED
        BY <3>1, <3>2, FannedOut, OneRunsOn
    <2> QED
      BY <2>1, <2>2
  <1>3. NoneSetUp
    <2>1. CASE sess' = sess
      BY <2>1 DEF NoneSetUp
    <2>2. CASE Busy(l) /\ sess' = Replied(loops[l].work.s)
      BY <2>2, Answered, AnsweredNoneSetUp
    <2>3. CASE FlushDesire(l)
      <3>1. Busy(l)
        BY <2>3 DEF FlushDesire, Busy
      <3>2. PICK p : sess' = [Replied(loops[l].work.s) EXCEPT ![loops[l].work.s].puts = p]
        BY <2>3, Zenon DEF FlushDesire
      <3>3. loops[l].work.s \in Sessions /\ sess[loops[l].work.s].st = "wait"
        BY <3>1 DEF ControlInv, CommandsInv
      <3>4. DOMAIN sess = Sessions /\ DOMAIN sess[loops[l].work.s] = SessionFields
        BY <3>3 DEF ControlInv, ShapeInv, SessionOK
      <3> QED
        BY <3>2, <3>3, <3>4 DEF Replied, NoneSetUp, SessionFields
    <2> QED
      BY <2>1, <2>2, <2>3 DEF FlushCommit, FlushFails, Busy
  <1> QED
    BY <1>1, <1>2, <1>3, ServesOn

LEMMA UnattachedService ==
    ASSUME ControlInv, ServiceInv, NEW l \in Loops, Attach(l) \/ DesireUnattached(l)
    PROVE  ServiceInv'
  <1>1. service' = service
    BY DEF Attach, DesireUnattached
  <1>2. /\ DOMAIN loops = Loops /\ DOMAIN loops[l] = LoopFields /\ DOMAIN sess = Sessions
        /\ First(l).s \in Sessions /\ DOMAIN sess[First(l).s] = SessionFields
    BY TakesFirst DEF Attach, DesireUnattached
  <1>3. RunsOn
    <2>1. CASE Attach(l)
      <3>1. PICK c, h : loops' = [loops EXCEPT ![l].queue = Tail(@), ![l].gen = @ + 1,
                                               ![l].conns = Over(One(c, h), @)]
        BY <2>1, Zenon DEF Attach
      <3>2. /\ \A x \in Loops \ {l} : loops'[x] = loops[x]
            /\ loops'[l].st = loops[l].st /\ loops'[l].conns = Over(One(c, h), loops[l].conns)
        BY <1>2, <3>1 DEF LoopFields
      <3>3. DOMAIN loops[l].conns \subseteq DOMAIN Over(One(c, h), loops[l].conns)
        BY DEF Over
      <3> QED
        BY <3>2, <3>3 DEF RunsOn
    <2>2. CASE DesireUnattached(l)
      BY <1>2, <2>2 DEF DesireUnattached, RunsOn, LoopFields
    <2> QED
      BY <2>1, <2>2
  <1>4. NoneSetUp
    BY <1>2 DEF Attach, DesireUnattached, Replied, NoneSetUp, First, SessionFields
  <1> QED
    BY <1>1, <1>3, <1>4, ServesOn

-----------------------------------------------------------------------------
(* The steps that change the service                                       *)

LEMMA RunningServes ==
    ASSUME ServiceInv, NEW l \in Loops, loops[l].st = "run"
    PROVE  service.live /\ ServiceOK(service)
  BY DEF ServiceInv, Held

LEMMA WorkRuns ==
    ASSUME ControlInv, NEW l \in Loops, loops[l].work.st # "idle"
    PROVE  loops[l].st = "run"
  BY DEF ControlInv, ShapeInv, LoopOK

LEMMA DesirerAttends ==
    ASSUME ControlInv, NEW l \in Loops, Busy(l)
    PROVE  loops[l].st = "run" /\ Attends(loops[l].work.c)
  <1>1. loops[l].st = "run"
    BY WorkRuns DEF Busy
  <1>2. loops[l].work.c \in DOMAIN loops[l].conns
    BY DEF ControlInv, CommandsInv
  <1> QED
    BY <1>1, <1>2 DEF Attends

LEMMA SharedPutService ==
    ASSUME NEW svc, ServiceOK(svc), NEW c, NEW q \in Queries, NEW new,
           \/ new = RegisterDesire(svc, c, q, Empty)
           \/ new = Undesire(svc, c, {q})
           \/ new = DesireQuery(Undesire(svc, c, {q}), c, q)
    PROVE  /\ ServiceOK(new) /\ new.live = svc.live
           /\ \A p \in Queries : new.desirers[p] \subseteq svc.desirers[p] \cup {c}
  <1>1. CASE new = RegisterDesire(svc, c, q, Empty)
    BY <1>1, RegisteredQuery
  <1>2. PICK u : u = Undesire(svc, c, {q})
    OBVIOUS
  <1>3. ServiceOK(u) /\ u.live = svc.live /\ \A p \in Queries : u.desirers[p] \subseteq svc.desirers[p]
    BY <1>2, UndesiredQueries
  <1>4. CASE new = u
    BY <1>3, <1>4
  <1>5. CASE new = DesireQuery(u, c, q)
    <2>1. /\ ServiceOK(new) /\ new.live = u.live
          /\ \A p \in Queries : new.desirers[p] \subseteq u.desirers[p] \cup {c}
      BY <1>3, <1>5, AddedQuery
    <2> QED
      BY <1>3, <2>1
  <1> QED
    BY <1>1, <1>2, <1>4, <1>5

LEMMA PutService ==
    ASSUME ControlInv, ServiceInv, NEW l \in Loops, NEW q \in Queries, AdvanceForPut(l, q)
    PROVE  ServiceInv'
  <1>1. PICK c : c = loops[l].work.c
    OBVIOUS
  <1>2. Busy(l)
    BY DEF AdvanceForPut, Busy
  <1>3. loops[l].st = "run" /\ Attends(c)
    BY <1>1, <1>2, DesirerAttends
  <1>4. service.live /\ ServiceOK(service)
    BY <1>3, RunningServes
  <1>5. PICK u : u = [service EXCEPT !.driver =
                        Advance(service.driver, TheHead, DOMAIN service.driver.pipes).driver]
    OBVIOUS
  <1>6. ServiceOK(u) /\ u.live = service.live /\ u.desirers = service.desirers
    <2>1. PICK svc, head, done : svc = service /\ head = TheHead /\ done = DOMAIN service.driver.pipes
      OBVIOUS
    <2>2. u = [svc EXCEPT !.driver = Advance(svc.driver, head, done).driver]
      BY <1>5, <2>1, Zenon
    <2>4. ServiceOK(svc) /\ done \subseteq DOMAIN svc.driver.pipes
      BY <1>4, <2>1
    <2>3. ServiceOK(u) /\ u.live = svc.live /\ u.desirers = svc.desirers
      BY <2>2, <2>4, AdvancedService
    <2> QED
      BY <2>1, <2>3
  <1>7. \/ service' = RegisterDesire(u, c, q, Empty)
        \/ service' = Undesire(u, c, {q})
        \/ service' = DesireQuery(Undesire(u, c, {q}), c, q)
    <2> DEFINE a == [service EXCEPT !.driver =
                       Advance(service.driver, TheHead, DOMAIN service.driver.pipes).driver]
    <2>1. service' = IF q \in loops[l].tracked THEN RegisterDesire(a, loops[l].work.c, q, Empty)
                     ELSE IF Direct(q) THEN Undesire(a, loops[l].work.c, {q})
                     ELSE DesireQuery(Undesire(a, loops[l].work.c, {q}), loops[l].work.c, q)
      BY Zenon DEF AdvanceForPut, SharedPut
    <2>2. a = u
      BY <1>5
    <2> HIDE DEF a
    <2> QED
      BY <1>1, <2>1, <2>2
  <1>8. PICK v : v = service'
    OBVIOUS
  <1>9. ServiceOK(v) /\ v.live = u.live /\ \A p \in Queries : v.desirers[p] \subseteq u.desirers[p] \cup {c}
    <2>1. \/ v = RegisterDesire(u, c, q, Empty)
          \/ v = Undesire(u, c, {q})
          \/ v = DesireQuery(Undesire(u, c, {q}), c, q)
      BY <1>7, <1>8
    <2> QED
      BY <1>6, <2>1, SharedPutService
  <1>11. /\ ServiceOK(service') /\ service'.live = service.live
         /\ \A p \in Queries : service'.desirers[p] \subseteq service.desirers[p] \cup {c}
    BY <1>6, <1>8, <1>9
  <1>10. RunsOn /\ NoneSetUp
    BY WorkRunsOn
  <1> QED
    BY <1>3, <1>4, <1>11, <1>10, ServesOneMore

LEMMA HydrateService ==
    ASSUME ControlInv, ServiceInv, NEW l \in Loops, Hydrate(l)
    PROVE  ServiceInv'
  <1>1. PICK c : c = loops[l].work.c
    OBVIOUS
  <1>2. Busy(l) /\ loops[l].work.st = "hydrate"
    BY DEF Hydrate, Busy
  <1>3. loops[l].st = "run" /\ Attends(c)
    BY <1>1, <1>2, DesirerAttends
  <1>4. service.live /\ ServiceOK(service)
    BY <1>3, RunningServes
  <1>5. PICK q \in Queries : q = loops[l].work.q
    BY <1>2 DEF ControlInv, ShapeInv, LoopOK
  <1>6. PICK fetched : service' = IF Direct(q) THEN RegisterDesire(service, c, q, fetched) ELSE service
    BY <1>1, <1>5, Zenon DEF Hydrate
  <1>7. /\ ServiceOK(service') /\ service'.live = service.live
        /\ \A p \in Queries : service'.desirers[p] \subseteq service.desirers[p] \cup {c}
    <2>1. CASE Direct(q)
      BY <1>4, <1>6, <2>1, RegisteredQuery
    <2>2. CASE ~Direct(q)
      BY <1>4, <1>6, <2>2
    <2> QED
      BY <2>1, <2>2
  <1>8. RunsOn /\ NoneSetUp
    BY WorkRunsOn
  <1> QED
    BY <1>3, <1>4, <1>7, <1>8, ServesOneMore

KeepsClients ==
    \A l \in Loops : loops[l].st = "run" => /\ loops'[l].st = "run"
                                            /\ DOMAIN loops[l].conns \subseteq DOMAIN loops'[l].conns

LEMMA ServesFewer ==
    ASSUME ServiceInv, KeepsClients, service.live,
           ServiceOK(service'), service'.live = service.live,
           \A q \in Queries : service'.desirers[q] \subseteq service.desirers[q]
    PROVE  ServiceInv'
  <1>1. ASSUME NEW x, Attends(x) PROVE Attends(x)'
    BY <1>1 DEF Attends, KeepsClients
  <1>2. ASSUME NEW q \in Queries, NEW x \in service'.desirers[q] PROVE Attends(x)'
    BY <1>1, <1>2 DEF ServiceInv
  <1>3. service'.live
    OBVIOUS
  <1> QED
    BY <1>2, <1>3 DEF ServiceInv, ServiceOK

LEMMA AdvancesService ==
    ASSUME ControlInv, ServiceInv, NEW l \in Loops,
           ProcessCommit(l) \/ \E done \in SUBSET Queries : AdvanceFails(l, done)
    PROVE  ServiceInv'
  <1>1. loops[l].st = "run"
    BY WorkRuns DEF ProcessCommit, AdvanceFails, Notified
  <1>2. service.live /\ ServiceOK(service)
    BY <1>1, RunningServes
  <1>3. PICK done : /\ done \subseteq DOMAIN service.driver.pipes
                    /\ service' = [service EXCEPT !.driver = Advance(service.driver, TheHead, done).driver]
    BY DEF ProcessCommit, AdvanceFails
  <1>4. /\ ServiceOK(service') /\ service'.live = service.live
        /\ \A q \in Queries : service'.desirers[q] \subseteq service.desirers[q]
    <2>1. PICK svc, head : svc = service /\ head = TheHead
      OBVIOUS
    <2>2. PICK new : new = [svc EXCEPT !.driver = Advance(svc.driver, head, done).driver]
      OBVIOUS
    <2>3. ServiceOK(new) /\ new.live = svc.live /\ new.desirers = svc.desirers
      BY <1>2, <1>3, <2>1, <2>2, AdvancedService
    <2>4. service' = new
      BY <1>3, <2>1, <2>2
    <2> QED
      BY <2>1, <2>3, <2>4
  <1>5. CASE ProcessCommit(l)
    BY <1>2, <1>4, <1>5, WorkRunsOn, ServesFewer DEF RunsOn, KeepsClients
  <1>6. CASE Fails(l, loops[l].cvr) /\ Busy(l) /\ sess' = Replied(loops[l].work.s)
    BY <1>2, <1>4, <1>6, FailsControl, OneRunsOn, ServesFewer DEF RunsOn, KeepsClients
  <1>7. CASE loops' = [loops EXCEPT ![l].notified = FALSE] /\ sess' = sess
    <2>1. KeepsClients
      BY <1>7 DEF KeepsClients, ControlInv, ShapeInv, LoopOK, LoopFields
    <2> QED
      BY <1>2, <1>4, <2>1, ServesFewer
  <1> QED
    BY <1>5, <1>6, <1>7, Zenon DEF AdvanceFails, Busy

(***************************************************************************)
(* What a hydration that fails leaves of the service.                      *)
(***************************************************************************)
LEMMA AddQueryFailsService ==
    ASSUME ServiceOK(service), NEW l \in Loops, NEW q \in Queries, AddQueryFails(l, q)
    PROVE  /\ ServiceOK(service') /\ service'.live = service.live
           /\ \A p \in Queries : service'.desirers[p] \subseteq service.desirers[p] \cup {loops[l].work.c}
  <1>1. PICK c : c = loops[l].work.c
    OBVIOUS
  <1>2. PICK u : u = [service EXCEPT !.driver =
                        Advance(service.driver, TheHead, DOMAIN service.driver.pipes).driver]
    OBVIOUS
  <1>3. ServiceOK(u) /\ u.live = service.live /\ u.desirers = service.desirers
    <2>1. PICK svc, head, done : svc = service /\ head = TheHead /\ done = DOMAIN service.driver.pipes
      OBVIOUS
    <2>2. u = [svc EXCEPT !.driver = Advance(svc.driver, head, done).driver]
      BY <1>2, <2>1, Zenon
    <2>3. ServiceOK(svc) /\ done \subseteq DOMAIN svc.driver.pipes
      BY <2>1
    <2>4. ServiceOK(u) /\ u.live = svc.live /\ u.desirers = svc.desirers
      BY <2>2, <2>3, AdvancedService
    <2> QED
      BY <2>1, <2>4
  <1>4. IsFirst(Undesire(u, c, {q}), q) /\ service' = FailedDesire(Undesire(u, c, {q}), c, q)
    <2> DEFINE a == [service EXCEPT !.driver =
                       Advance(service.driver, TheHead, DOMAIN service.driver.pipes).driver]
    <2>1. /\ IsFirst(Undesire(a, loops[l].work.c, {q}), q)
          /\ service' = FailedDesire(Undesire(a, loops[l].work.c, {q}), loops[l].work.c, q)
      BY Zenon DEF AddQueryFails
    <2>2. a = u
      BY <1>2
    <2> HIDE DEF a
    <2> QED
      BY <1>1, <2>1, <2>2
  <1>5. PICK v : v = service'
    OBVIOUS
  <1>6. /\ ServiceOK(v) /\ v.live = u.live
        /\ \A p \in Queries : v.desirers[p] \subseteq u.desirers[p] \cup {c}
    <2>1. PICK und : und = Undesire(u, c, {q})
      OBVIOUS
    <2>2. IsFirst(und, q) /\ v = FailedDesire(und, c, q)
      BY <1>4, <1>5, <2>1, Zenon
    <2>3. ServiceOK(und) /\ und.live = u.live /\ \A p \in Queries : und.desirers[p] \subseteq u.desirers[p]
      BY <1>3, <2>1, UndesiredQueries
    <2>4. und.desirers[q] = {}
      BY <2>2 DEF IsFirst
    <2>5. /\ ServiceOK(v) /\ v.live = und.live
          /\ \A p \in Queries : v.desirers[p] \subseteq und.desirers[p] \cup {c}
      BY <2>2, <2>3, <2>4, FailedService
    <2> QED
      BY <2>3, <2>5
  <1> QED
    BY <1>1, <1>3, <1>5, <1>6

LEMMA HydrationFailsService ==
    ASSUME ControlInv, ServiceInv, NEW l \in Loops, FailsToHydrate(l)
    PROVE  ServiceInv'
  <1>1. PICK c : c = loops[l].work.c
    OBVIOUS
  <1>2. Busy(l)
    BY FailingHydration
  <1>3. loops[l].st = "run" /\ Attends(c)
    BY <1>1, <1>2, DesirerAttends
  <1>4. service.live /\ ServiceOK(service)
    BY <1>3, RunningServes
  <1>5. /\ ServiceOK(service') /\ service'.live = service.live
        /\ \A p \in Queries : service'.desirers[p] \subseteq service.desirers[p] \cup {c}
    <2>1. CASE \E q \in Queries : AddQueryFails(l, q)
      BY <1>1, <1>4, <2>1, AddQueryFailsService
    <2>2. CASE service' = service
      BY <1>4, <2>2
    <2>3. CASE /\ loops[l].work.st = "hydrate" /\ IsFirst(service, loops[l].work.q)
               /\ service' = FailedDesire(service, c, loops[l].work.q)
      <3>1. PICK q \in Queries : q = loops[l].work.q
        BY <2>3 DEF ControlInv, ShapeInv, LoopOK
      <3>2. PICK svc, new : svc = service /\ new = service'
        OBVIOUS
      <3>3. ServiceOK(svc) /\ svc.desirers[q] = {} /\ new = FailedDesire(svc, c, q)
        BY <1>4, <2>3, <3>1, <3>2 DEF IsFirst
      <3>4. /\ ServiceOK(new) /\ new.live = svc.live
            /\ \A p \in Queries : new.desirers[p] \subseteq svc.desirers[p] \cup {c}
        BY <3>3, FailedService
      <3> QED
        BY <3>2, <3>4
    <2> QED
      BY <1>1, <2>1, <2>2, <2>3, Zenon DEF FailsToHydrate, FetchFails, FetchedFails
  <1>6. RunsOn /\ NoneSetUp
    BY <1>2, FailingHydration, HydrationFailsKeeps, OneRunsOn, Answered, AnsweredNoneSetUp
  <1> QED
    BY <1>3, <1>4, <1>5, <1>6, ServesOneMore

LEMMA DesireService ==
    ASSUME ControlInv, ServiceInv, NEW l \in Loops, Desire(l)
    PROVE  ServiceInv'
  <1>1. loops[l].st = "run" /\ DOMAIN loops = Loops /\ DOMAIN loops[l] = LoopFields
    BY DEF Desire, Takes, ControlInv, ShapeInv, LoopOK
  <1>2. service.live /\ ServiceOK(service)
    BY <1>1, RunningServes
  <1>3. PICK c, reset, dels : service' = Undesire(ResetQueries(service, reset), c, dels)
    BY Zenon DEF Desire
  <1>4. /\ ServiceOK(service') /\ service'.live = service.live
        /\ \A q \in Queries : service'.desirers[q] \subseteq service.desirers[q]
    <2>1. PICK svc : svc = service
      OBVIOUS
    <2>2. PICK mid : mid = ResetQueries(svc, reset)
      OBVIOUS
    <2>3. ServiceOK(mid) /\ mid.live = svc.live /\ \A q \in Queries : mid.desirers[q] \subseteq svc.desirers[q]
      BY <1>2, <2>1, <2>2, ResetService
    <2>4. PICK new : new = Undesire(mid, c, dels)
      OBVIOUS
    <2>5. ServiceOK(new) /\ new.live = mid.live /\ \A q \in Queries : new.desirers[q] \subseteq mid.desirers[q]
      BY <2>3, <2>4, UndesiredQueries
    <2>6. service' = new
      BY <1>3, <2>1, <2>2, <2>4
    <2> QED
      BY <2>1, <2>3, <2>5, <2>6
  <1>5. KeepsClients
    <2>1. PICK p, v, w : loops' = [loops EXCEPT ![l].queue = Tail(@), ![l].prints = p,
                                                ![l].cvr = v, ![l].work = w]
      BY Zenon DEF Desire
    <2>2. loops'[l].st = loops[l].st /\ loops'[l].conns = loops[l].conns
      BY <1>1, <2>1 DEF LoopFields
    <2>3. \A x \in Loops \ {l} : loops'[x] = loops[x]
      BY <1>1, <2>1
    <2> QED
      BY <2>2, <2>3 DEF KeepsClients
  <1> QED
    BY <1>2, <1>4, <1>5, ServesFewer

LEMMA DetachService ==
    ASSUME ControlInv, ServiceInv, NEW l \in Loops, Detach(l)
    PROVE  ServiceInv'
  <1>1. PICK s, c : s = First(l).s /\ c = First(l).c
    OBVIOUS
  <1>2. /\ loops[l].st = "run" /\ DOMAIN loops = Loops /\ DOMAIN loops[l] = LoopFields
        /\ s \in Sessions /\ DOMAIN sess = Sessions /\ DOMAIN sess[s] = SessionFields
    BY <1>1, TakesFirst DEF Detach
  <1>3. service.live /\ ServiceOK(service)
    BY <1>2, RunningServes
  <1>4. \/ /\ loops' = [loops EXCEPT ![l].queue = Tail(@), ![l].conns = Without(@, {c})]
           /\ service' = Undesire(service, c, Queries)
        \/ loops' = [loops EXCEPT ![l].queue = Tail(@)] /\ service' = service
    BY <1>1, Zenon DEF Detach, First
  <1>5. CASE loops' = [loops EXCEPT ![l].queue = Tail(@)] /\ service' = service
    <2>1. RunsOn
      BY <1>2, <1>5 DEF RunsOn, LoopFields
    <2>2. NoneSetUp
      BY <1>1, <1>2 DEF Detach, First, Ended, NoneSetUp, SessionFields
    <2> QED
      BY <1>5, <2>1, <2>2, ServesOn
  <1>6. CASE /\ loops' = [loops EXCEPT ![l].queue = Tail(@), ![l].conns = Without(@, {c})]
             /\ service' = Undesire(service, c, Queries)
    <2>1. PICK svc, new : svc = service /\ new = Undesire(svc, c, Queries)
      OBVIOUS
    <2>2. ServiceOK(new) /\ new.live = svc.live
          /\ \A q \in Queries : new.desirers[q] \subseteq svc.desirers[q] /\ c \notin new.desirers[q]
      BY <1>3, <2>1, UndesiredQueries
    <2>3. service' = new
      BY <1>6, <2>1
    <2>4. /\ \A x \in Loops \ {l} : loops'[x] = loops[x]
          /\ loops'[l].st = "run" /\ loops'[l].conns = Without(loops[l].conns, {c})
      BY <1>2, <1>6 DEF LoopFields
    <2>5. DOMAIN loops'[l].conns = DOMAIN loops[l].conns \ {c}
      BY <2>4 DEF Without
    <2>6. ASSUME NEW q \in Queries, NEW x \in service'.desirers[q] PROVE Attends(x)'
      <3>1. x # c /\ Attends(x)
        BY <1>3, <2>1, <2>2, <2>3, <2>6 DEF ServiceInv
      <3> QED
        BY <1>2, <2>4, <2>5, <3>1 DEF Attends
    <2>7. service'.live /\ ServiceOK(service')
      BY <1>3, <2>1, <2>2, <2>3
    <2> QED
      BY <2>6, <2>7 DEF ServiceInv, ServiceOK
  <1> QED
    BY <1>4, <1>5, <1>6

LEMMA JoinService ==
    ASSUME ControlInv, ServiceInv, NEW s \in Sessions, Join(s)
    PROVE  ServiceInv'
  <1>1. sess[s].st = "setup"
    BY DEF Join
  <1>2. service.live /\ ServiceOK(service)
    BY <1>1 DEF ServiceInv, Held
  <1>3. PICK seed : service' = [service EXCEPT !.seed = seed]
    BY Zenon DEF Join
  <1>4. ServiceOK(service') /\ service'.live = service.live /\ service'.desirers = service.desirers
    BY <1>2, <1>3 DEF ServiceOK
  <1>5. KeepsClients
    <2> DEFINE new == CHOOSE n \in Loops : loops[n].st = "none" /\ \A k \in 1..(n - 1) : loops[k].st # "none"
    <2>1. new \in Loops /\ loops[new].st = "none"
      BY <1>1, LoopIsLeft
    <2>2. (\E k, m : loops' = Enqueue(k, m)) \/ (\E r : loops' = [loops EXCEPT ![new] = r])
      <3> DEFINE held == {l \in Loops : \E t \in Sessions : HoldsLoop(t, l)}
      <3>1. CASE held # {}
        BY <3>1, Zenon DEF Join
      <3>2. CASE held = {}
        <4>1. \E r : loops' = [loops EXCEPT ![new] = r]
          BY <3>2, Zenon DEF Join
        <4> QED
          BY <4>1
      <3> QED
        BY <3>1, <3>2
    <2> HIDE DEF new
    <2>3. CASE \E k, m : loops' = Enqueue(k, m)
      BY <2>3 DEF Enqueue, KeepsClients, ControlInv, ShapeInv, LoopOK, LoopFields
    <2>4. CASE \E r : loops' = [loops EXCEPT ![new] = r]
      BY <2>1, <2>4 DEF KeepsClients, ControlInv, ShapeInv
    <2> QED
      BY <2>2, <2>3, <2>4
  <1> QED
    BY <1>2, <1>4, <1>5, ServesFewer

LEMMA ResolveService ==
    ASSUME ServiceInv, NEW c \in Clients, Resolve(c)
    PROVE  ServiceInv'
  <1>1. loops' = loops
    BY DEF Resolve
  <1>2. ASSUME NEW x, Attends(x) PROVE Attends(x)'
    BY <1>1, <1>2 DEF Attends
  <1>3. CASE service.live
    <2>1. service' = service
      BY <1>3 DEF Resolve
    <2> QED
      BY <1>2, <1>3, <2>1 DEF ServiceInv, ServiceOK
  <1>4. CASE ~service.live
    <2>1. service' = NewService
      BY <1>4 DEF Resolve
    <2>2. service'.live /\ \A q \in Queries : service'.desirers[q] = {}
      BY <2>1 DEF NewService
    <2>3. /\ DOMAIN service' = {"live", "driver", "seed", "desirers", "unbuilt"}
          /\ DOMAIN service'.driver = {"at", "pipes"} /\ DOMAIN service'.desirers = Queries
          /\ service'.driver.pipes = <<>> /\ service'.unbuilt = {}
      BY <2>1 DEF NewService, NewDriver, Empty
    <2>4. DOMAIN service'.driver.pipes = {}
      BY <2>3
    <2> QED
      BY <2>2, <2>3, <2>4 DEF ServiceInv, ServiceOK
  <1> QED
    BY <1>3, <1>4

LEMMA GiveUpService ==
    ASSUME ControlInv, ServiceInv, NEW s \in Sessions, GiveUp(s)
    PROVE  ServiceInv'
  <1>1. /\ sess[s].st = "setup" /\ sess' = [sess EXCEPT ![s] = Ended(s)] /\ loops' = loops
        /\ service' = ServiceWithout({s}, {})
    BY DEF GiveUp
  <1>2. DOMAIN sess = Sessions /\ DOMAIN sess[s] = SessionFields
    BY <1>1 DEF ControlInv, ShapeInv, SessionOK
  <1>3. sess'[s].st = "gone" /\ \A t \in Sessions \ {s} : sess'[t] = sess[t]
    BY <1>1, <1>2 DEF Ended, SessionFields
  <1>4. RunsOn /\ NoneSetUp
    BY <1>1, <1>3 DEF RunsOn, NoneSetUp
  <1>5. CASE service' = service
    BY <1>4, <1>5, ServesOn
  <1>6. CASE /\ \A t \in Sessions \ {s} : sess[t].st # "setup"
             /\ \A l \in Loops : loops[l].st # "run"
             /\ service' = NoService
    <2>1. ~Held'
      BY <1>1, <1>3, <1>6 DEF Held
    <2>2. ~service'.live
      BY <1>6 DEF NoService
    <2> QED
      BY <2>1, <2>2 DEF ServiceInv
  <1> QED
    BY <1>1, <1>5, <1>6 DEF ServiceWithout

(***************************************************************************)
(* A loop that nobody holds and whose queue is empty has no client: one    *)
(* that is attached has an open connection, or its Detach is in the queue. *)
(***************************************************************************)
LEMMA LoopEndsService ==
    ASSUME ControlInv, ServiceInv, NEW l \in Loops, LoopEnds(l)
    PROVE  ServiceInv'
  <1>1. /\ loops[l].st = "run" /\ loops[l].queue = <<>> /\ ~\E s \in Sessions : HoldsLoop(s, l)
        /\ loops' = [loops EXCEPT ![l] = NoLoop("over")] /\ sess' = sess
        /\ service' = ServiceWithout({}, {l})
    BY DEF LoopEnds
  <1>2. DOMAIN loops = Loops /\ loops'[l].st = "over" /\ \A x \in Loops \ {l} : loops'[x] = loops[x]
    <2>1. loops'[l] = NoLoop("over") /\ DOMAIN loops = Loops /\ \A x \in Loops \ {l} : loops'[x] = loops[x]
      BY <1>1 DEF ControlInv, ShapeInv
    <2> QED
      BY <2>1 DEF NoLoop, NewLoop
  <1>3. DOMAIN loops[l].conns = {}
    <2> SUFFICES ASSUME NEW c \in DOMAIN loops[l].conns PROVE FALSE
      OBVIOUS
    <2>1. PICK s \in Sessions : /\ HasAttached(s, l)
                                /\ sess[s].st \in {"open", "wait"} \/ Detaching(s, l)
      BY DEF ControlInv, AttachedInv
    <2>2. ~Detaching(s, l)
      BY <1>1, EmptyQueue DEF Detaching
    <2> QED
      BY <1>1, <2>1, <2>2 DEF HasAttached, HoldsLoop
  <1>4. ASSUME NEW x, Attends(x) PROVE Attends(x)'
    BY <1>2, <1>3, <1>4 DEF Attends
  <1>5. Held' => Held
    BY <1>1, <1>2 DEF Held
  <1>6. CASE service' = service
    BY <1>4, <1>5, <1>6 DEF ServiceInv, ServiceOK
  <1>7. CASE /\ \A t \in Sessions : sess[t].st # "setup"
             /\ \A x \in Loops \ {l} : loops[x].st # "run"
             /\ service' = NoService
    <2>1. ~Held'
      BY <1>1, <1>2, <1>7 DEF Held
    <2>2. ~service'.live
      BY <1>7 DEF NoService
    <2> QED
      BY <2>1, <2>2 DEF ServiceInv
  <1> QED
    BY <1>1, <1>6, <1>7 DEF ServiceWithout

LEMMA ServiceNext == GroupInv /\ [Next]_vars => ServiceInv'
  <1> SUFFICES ASSUME ControlInv, ServiceInv, [Next]_vars PROVE ServiceInv'
    BY DEF GroupInv
  <1>1. ASSUME NEW l \in Loops, LoopStep(l) \/ FlushFails(l) PROVE ServiceInv'
    BY <1>1, UnattachedService, DetachService, DesireService, PutService, QuietWorkService,
       HydrateService, FlushesService, AdvancesService, LoopEndsService
       DEF LoopStep
  <1>2. ASSUME NEW l \in Loops, FailsToHydrate(l) PROVE ServiceInv'
    BY <1>2, HydrationFailsService
  <1> QED
    BY <1>1, <1>2, AdvancesService, AsideStepsService, ResolveService, JoinService, GiveUpService,
       ConnectionService
       DEF Next, FailsToHydrate

LEMMA ServiceInit == Init => ServiceInv
  <1> SUFFICES ASSUME Init PROVE ServiceInv
    OBVIOUS
  <1>1. service = NoService /\ (\A l \in Loops : loops[l] = NoLoop("none"))
        /\ \A s \in Sessions : sess[s].st = "none"
    BY DEF Init
  <1>2. \A l \in Loops : loops[l].st = "none"
    BY <1>1 DEF NoLoop, NewLoop
  <1>3. ~service.live
    BY <1>1 DEF NoService
  <1> QED
    BY <1>1, <1>2, <1>3 DEF ServiceInv, Held

(***************************************************************************)
(* The shared driver of the group service runs exactly the queries that    *)
(* have a desirer and that it did not fail to build, and every desirer is  *)
(* a client attached to a running loop, whatever connections do to each    *)
(* other: desire, register_desire and undesire keep the counts and the     *)
(* pipelines in step, also when an advance or a hydration fails, a         *)
(* divergent transform resets a query, a late Detach is taken or a loop    *)
(* ends.                                                                   *)
(***************************************************************************)
THEOREM PipelinesStayDesired == Spec => []PipelinesAreDesired
  <1>1. Init => GroupInv
    BY ControlInit, ServiceInit DEF GroupInv
  <1>2. GroupInv /\ [Next]_vars => GroupInv'
    BY ControlNext, ServiceNext DEF GroupInv
  <1>3. GroupInv => PipelinesAreDesired
    BY DEF GroupInv, ServiceInv, ServiceOK, Attends, PipelinesAreDesired
  <1> QED
    BY <1>1, <1>2, <1>3, PTL DEF Spec

-----------------------------------------------------------------------------
(***************************************************************************)
(* The pokes.  A CVR that the group holds, in Postgres, in the service or  *)
(* in a loop, has got no query at a version beyond its own.                *)
(***************************************************************************)
CvrOK(cvr) ==
    /\ DOMAIN cvr = {"version", "desired", "got", "refs"}
    /\ cvr.version \in Nat /\ cvr.got \in [Queries -> Nat]
    /\ GotBy(cvr, cvr.version)

(***************************************************************************)
(* The versions of a transition under way: patches are stamped no later    *)
(* than the configuration, the hydration no later than the CVR, and        *)
(* without a hydration nothing was got since the transition began.         *)
(***************************************************************************)
DesireOK(w, cvr) ==
    /\ CvrOK(w.before) /\ w.config \in Nat
    /\ w.before.version <= w.config /\ w.config <= cvr.version
    /\ Stamped(w.patches, w.config) /\ Stamped(w.hydration, cvr.version)
    /\ IsEmpty(w.hydration) => GotBy(cvr, w.before.version)

CommitOK(w, cvr) ==
    CvrOK(w.before) /\ w.before.version <= cvr.version /\ Stamped(w.patches, cvr.version)

VersionsOK(lp) ==
    /\ CvrOK(lp.cvr)
    /\ lp.work.st \in {"put", "hydrate"} => DesireOK(lp.work, lp.cvr)
    /\ lp.work.st = "commit" => CommitOK(lp.work, lp.cvr)

SeedOK(svc) == "seed" \in DOMAIN svc => svc.seed = NoSeed \/ CvrOK(svc.seed)

VersionsInv ==
    /\ CvrOK(durable) /\ SeedOK(service)
    /\ \A l \in Loops : VersionsOK(loops[l])

(***************************************************************************)
(* A client holds a cookie no later than the durable CVR, and the          *)
(* connection it is on, attached or waiting to be, starts from it.         *)
(***************************************************************************)
HoldsOK(held, v) == held.cookie \in Cookies /\ held.cookie <= v /\ held.broken = FALSE

ClientsInv ==
    DOMAIN client = Clients /\ \A c \in Clients : HoldsOK(client[c], durable.version)

ConnDelivers(l, c) ==
    /\ DeliveryOK(loops[l].conns[c].delivery)
    /\ loops[l].conns[c].s = cur[c] => BaseCookie(loops[l].conns[c].delivery) = client[c].cookie

AttachDelivers(m) ==
    m.op = "attach" =>
        m.base \in Cookies /\ (m.s = cur[m.c] => m.base = client[m.c].cookie)

LoopDelivers(l) ==
    /\ \A c \in DOMAIN loops[l].conns : ConnDelivers(l, c)
    /\ \A i \in 1..Len(loops[l].queue) : AttachDelivers(loops[l].queue[i])

DeliveriesInv == \A l \in Loops : LoopDelivers(l)

SentInv == VersionsInv /\ ClientsInv /\ DeliveriesInv

PokesInv == GroupInv /\ SentInv

-----------------------------------------------------------------------------
(* Versions and pokes                                                      *)

LEMMA GotByLater ==
    ASSUME NEW cvr, cvr.got \in [Queries -> Nat], NEW v \in Nat, NEW u \in Nat, v <= u, GotBy(cvr, v)
    PROVE  GotBy(cvr, u)
  BY DEF GotBy

LEMMA EmptyCvrOK == CvrOK(EmptyCvr)
  BY DEF EmptyCvr, CvrOK, GotBy

LEMMA VersionMoved ==
    ASSUME NEW cvr, CvrOK(cvr), NEW v \in Nat, GotBy(cvr, v)
    PROVE  LET new == [cvr EXCEPT !.version = v]
           IN  CvrOK(new) /\ new.version = v /\ new.got = cvr.got
  BY DEF CvrOK, GotBy

LEMMA MovedCvr ==
    ASSUME NEW cvr, CvrOK(cvr), NEW v \in Nat, cvr.version <= v, NEW new,
           DOMAIN new = DOMAIN cvr, new.version = v, new.got = cvr.got
    PROVE  CvrOK(new)
  <1>1. GotBy(cvr, v)
    BY GotByLater DEF CvrOK
  <1> QED
    BY <1>1 DEF CvrOK, GotBy

LEMMA RolledBackOK ==
    ASSUME NEW cvr, NEW before, CvrOK(before)
    PROVE  CvrOK(RolledBack(cvr, before))
  BY DEF CvrOK, RolledBack, GotBy

LEMMA DesireApplied ==
    ASSUME NEW cvr, CvrOK(cvr), NEW c, NEW patch
    PROVE  LET new == ApplyDesired(cvr, c, patch)
               config == ConfigVersion(cvr, c, patch)
           IN  /\ CvrOK(new) /\ new.got = cvr.got
               /\ config \in Nat /\ cvr.version <= config /\ config <= new.version
  <1> DEFINE config == ConfigVersion(cvr, c, patch)
             n == IF ChangesConfig(cvr, c, patch) /\ patch.puts # {} THEN cvr.version + 2 ELSE config
             new == ApplyDesired(cvr, c, patch)
  <1>1. cvr.version \in Nat
    BY DEF CvrOK
  <1>2. config \in Nat /\ cvr.version <= config /\ n \in Nat /\ config <= n
    BY <1>1 DEF ConfigVersion
  <1>3. PICK d : new = [cvr EXCEPT !.desired = d, !.version = n]
    <2>1. new = [cvr EXCEPT !.desired = [cvr.desired EXCEPT
                                           ![c] = (@ \cup Needed(cvr, c, patch)) \ patch.dels], !.version = n]
      BY DEF ApplyDesired, CvrOK
    <2> QED
      BY <2>1
  <1>4. GotBy(cvr, n)
    BY <1>1, <1>2, GotByLater DEF CvrOK
  <1>5. CvrOK(new) /\ new.got = cvr.got /\ new.version = n
    <2> HIDE DEF n, new, config
    <2> QED
      BY <1>2, <1>3, <1>4 DEF CvrOK, GotBy
  <1> QED
    BY <1>2, <1>5

(***************************************************************************)
(* The patches that one client is told: those of no, one or two pokes.     *)
(***************************************************************************)
PatchesOf(told, v) ==
    \/ told = <<>>
    \/ \E p : told = <<p>> /\ Stamped(p, v)
    \/ \E p, q : told = <<p, q>> /\ Stamped(p, v) /\ Stamped(q, v)

(***************************************************************************)
(* Pokes after which a client that held the cookie of the delivery state   *)
(* dl holds that of next.                                                  *)
(***************************************************************************)
Follow(pokes, dl, next, v) ==
    \A held : HoldsOK(held, v) /\ held.cookie = BaseCookie(dl) =>
        HoldsOK(ReceivesAll(held, pokes), v) /\ ReceivesAll(held, pokes).cookie = BaseCookie(next)

LEMMA ReceivedOne ==
    ASSUME NEW v \in Nat, NEW held, HoldsOK(held, v), NEW dl, NEW next, NEW p,
           held.cookie = BaseCookie(dl), PokeOf(p, dl, next, v)
    PROVE  HoldsOK(Receives(held, p), v) /\ Receives(held, p).cookie = BaseCookie(next)
  <1> DEFINE flag == [broken |-> held.broken \/ p.base # held.cookie \/ p.cookie < p.base]
             new == Receives(held, p)
  <1>1. /\ held.cookie \in Cookies /\ held.cookie <= v /\ p.base = held.cookie
        /\ p.cookie \in Cookies /\ p.cookie <= v /\ p.base <= p.cookie /\ p.cookie = BaseCookie(next)
    BY DEF HoldsOK, PokeOf
  <1>2. ~(p.cookie < p.base)
    BY <1>1 DEF Cookies, NoCookie
  <1>3. new.broken = (held.broken \/ p.base # held.cookie \/ p.cookie < p.base)
    <2>1. "broken" \notin DOMAIN Applied(held, p) /\ "broken" \in DOMAIN flag
      BY DEF Applied
    <2>2. new = Over(Applied(held, p), flag)
      BY DEF Receives
    <2>3. new.broken = flag.broken
      <3> HIDE DEF flag, new
      <3> QED
        BY <2>1, <2>2 DEF Over
    <2> QED
      BY <2>3, Zenon
  <1>4. new.cookie = p.cookie
    <2>1. "cookie" \in DOMAIN Applied(held, p) /\ Applied(held, p).cookie = p.cookie
      BY DEF Applied
    <2> QED
      BY <2>1 DEF Receives, Over
  <1>5. new.broken = FALSE
    BY <1>1, <1>2, <1>3, Zenon DEF HoldsOK
  <1> HIDE DEF new
  <1> QED
    BY <1>1, <1>4, <1>5 DEF HoldsOK, new

LEMMA OnePoke ==
    ASSUME NEW v \in Nat, NEW p, Stamped(p, v), NEW dl, DeliveryOK(dl), NEW lmids
    PROVE  LET b == BuildPoke(dl, p, v, lmids)
           IN  /\ DeliveryOK(b.delivery)
               /\ Follow(b.pokes, dl, b.delivery, v)
               /\ b.pokes = <<>> \/ \E poke : b.pokes = <<poke>>
  <1>1. PICK b : b = BuildPoke(dl, p, v, lmids)
    OBVIOUS
  <1>2. /\ DeliveryOK(b.delivery)
        /\ \/ b.pokes = <<>> /\ b.delivery = dl
           \/ \E poke : b.pokes = <<poke>> /\ PokeOf(poke, dl, b.delivery, v)
    BY <1>1, BuildsPoke
  <1>3. CASE b.pokes = <<>> /\ b.delivery = dl
    <2>1. \A held : ReceivesAll(held, <<>>) = held
      BY DEF ReceivesAll
    <2> QED
      BY <1>1, <1>2, <1>3, <2>1 DEF Follow
  <1>4. CASE \E poke : b.pokes = <<poke>> /\ PokeOf(poke, dl, b.delivery, v)
    <2>1. PICK poke : b.pokes = <<poke>> /\ PokeOf(poke, dl, b.delivery, v)
      BY <1>4
    <2>2. \A held : ReceivesAll(held, <<poke>>) = Receives(held, poke)
      BY DEF ReceivesAll
    <2>3. Follow(b.pokes, dl, b.delivery, v)
      BY <2>1, <2>2, ReceivedOne DEF Follow
    <2> QED
      BY <1>1, <1>2, <2>1, <2>3
  <1> QED
    BY <1>2, <1>3, <1>4


LEMMA ReceivedBoth ==
    ASSUME NEW a, NEW b, a = <<>> \/ \E p : a = <<p>>, b = <<>> \/ \E p : b = <<p>>
    PROVE  \A held : ReceivesAll(held, a \o b) = ReceivesAll(ReceivesAll(held, a), b)
  <1>0. /\ \A held : ReceivesAll(held, <<>>) = held
        /\ \A held, p : ReceivesAll(held, <<p>>) = Receives(held, p)
    BY DEF ReceivesAll
  <1>1. CASE a = <<>> /\ b = <<>>
    BY <1>0, <1>1
  <1>2. CASE a = <<>> /\ \E q : b = <<q>>
    <2>1. PICK q : b = <<q>>
      BY <1>2
    <2>2. a \o b = <<q>>
      BY <1>2, <2>1
    <2> QED
      BY <1>0, <1>2, <2>1, <2>2
  <1>3. CASE b = <<>> /\ \E p : a = <<p>>
    <2>1. PICK p : a = <<p>>
      BY <1>3
    <2>2. a \o b = <<p>>
      BY <1>3, <2>1
    <2> QED
      BY <1>0, <1>3, <2>1, <2>2
  <1>4. CASE (\E p : a = <<p>>) /\ \E q : b = <<q>>
    <2>1. PICK p, q : a = <<p>> /\ b = <<q>>
      BY <1>4
    <2>2. Len(a \o b) = 2 /\ (a \o b)[1] = p /\ (a \o b)[2] = q
      BY <2>1
    <2>3. \A held : ReceivesAll(held, a \o b) = Receives(Receives(held, p), q)
      BY <2>2 DEF ReceivesAll
    <2>4. \A held : /\ ReceivesAll(held, a) = Receives(held, p)
                    /\ ReceivesAll(held, b) = Receives(held, q)
      BY <1>0, <2>1
    <2> HIDE DEF ReceivesAll, Receives
    <2> QED
      BY <2>3, <2>4
  <1> QED
    BY <1>1, <1>2, <1>3, <1>4

LEMMA PokesBuilt ==
    ASSUME NEW v \in Nat, NEW told, PatchesOf(told, v), NEW dl, DeliveryOK(dl)
    PROVE  LET b == BuildPokes(dl, told, v)
           IN  DeliveryOK(b.delivery) /\ Follow(b.pokes, dl, b.delivery, v)
  <1> DEFINE first == BuildPoke(dl, told[1], v, replica.lmids)
             second == BuildPoke(first.delivery, told[2], v, replica.lmids)
  <1>0. \A held : ReceivesAll(held, <<>>) = held
    BY DEF ReceivesAll
  <1>1. CASE told = <<>>
    <2>1. BuildPokes(dl, told, v) = [pokes |-> <<>>, delivery |-> dl]
      BY <1>1 DEF BuildPokes
    <2> QED
      BY <1>0, <2>1 DEF Follow
  <1>2. CASE \E p : told = <<p>> /\ Stamped(p, v)
    <2>1. PICK p : told = <<p>> /\ Stamped(p, v)
      BY <1>2
    <2>2. PICK lmids : lmids = replica.lmids
      OBVIOUS
    <2>3. BuildPokes(dl, told, v) = BuildPoke(dl, p, v, lmids)
      BY <2>1, <2>2 DEF BuildPokes
    <2>4. LET b == BuildPoke(dl, p, v, lmids)
          IN  DeliveryOK(b.delivery) /\ Follow(b.pokes, dl, b.delivery, v)
      BY <2>1, OnePoke
    <2> QED
      BY <2>3, <2>4
  <1>3. CASE \E p, q : told = <<p, q>> /\ Stamped(p, v) /\ Stamped(q, v)
    <2>1. PICK p, q : told = <<p, q>> /\ Stamped(p, v) /\ Stamped(q, v)
      BY <1>3
    <2>2. PICK lmids : lmids = replica.lmids
      OBVIOUS
    <2>3. PICK f : f = BuildPoke(dl, p, v, lmids)
      OBVIOUS
    <2>4. DeliveryOK(f.delivery) /\ Follow(f.pokes, dl, f.delivery, v)
          /\ (f.pokes = <<>> \/ \E poke : f.pokes = <<poke>>)
      BY <2>1, <2>3, OnePoke
    <2>5. PICK mid : mid = f.delivery /\ DeliveryOK(mid)
      BY <2>4
    <2>6. PICK g : g = BuildPoke(mid, q, v, lmids)
      OBVIOUS
    <2>7. DeliveryOK(g.delivery) /\ Follow(g.pokes, mid, g.delivery, v)
          /\ (g.pokes = <<>> \/ \E poke : g.pokes = <<poke>>)
      BY <2>1, <2>5, <2>6, OnePoke
    <2>8. told[1] = p /\ told[2] = q /\ Len(told) = 2
      BY <2>1
    <2>9. first = f /\ second = g
      BY <2>2, <2>3, <2>5, <2>6, <2>8
    <2>10. BuildPokes(dl, told, v) = [pokes |-> f.pokes \o g.pokes, delivery |-> g.delivery]
      BY <2>8, <2>9 DEF BuildPokes
    <2>11. \A held : ReceivesAll(held, f.pokes \o g.pokes) = ReceivesAll(ReceivesAll(held, f.pokes), g.pokes)
      BY <2>4, <2>7, ReceivedBoth
    <2>12. Follow(f.pokes \o g.pokes, dl, g.delivery, v)
      BY <2>4, <2>5, <2>7, <2>11 DEF Follow
    <2> QED
      BY <2>7, <2>10, <2>12
  <1> QED
    BY <1>1, <1>2, <1>3 DEF PatchesOf

-----------------------------------------------------------------------------
(* Steps that send nothing                                                 *)

(***************************************************************************)
(* A connection that is there already is the one its client is on only if  *)
(* it was before.                                                          *)
(***************************************************************************)
NoneRejoins ==
    \A c \in Clients, s \in Sessions : sess[s].st # "none" /\ cur'[c] = s => cur[c] = s

NoneAttaches(l) ==
    /\ DOMAIN loops'[l].conns \subseteq DOMAIN loops[l].conns
    /\ \A c \in DOMAIN loops'[l].conns : loops'[l].conns[c] = loops[l].conns[c]

NoneAsks(l) ==
    \A i \in 1..Len(loops'[l].queue) :
        \/ loops'[l].queue[i].op # "attach"
        \/ \E j \in 1..Len(loops[l].queue) : loops'[l].queue[i] = loops[l].queue[j]

LEMMA ClientOfSession ==
    ASSUME ControlInv, NEW l \in Loops
    PROVE  /\ \A c \in DOMAIN loops[l].conns :
                 /\ c \in Clients /\ loops[l].conns[c].s \in Sessions
                 /\ sess[loops[l].conns[c].s].st # "none"
           /\ \A i \in 1..Len(loops[l].queue) :
                 LET m == loops[l].queue[i]
                 IN  m.c \in Clients /\ m.s \in Sessions /\ sess[m.s].st # "none"
  <1>1. ASSUME NEW c \in DOMAIN loops[l].conns
        PROVE  /\ c \in Clients /\ loops[l].conns[c].s \in Sessions
               /\ sess[loops[l].conns[c].s].st # "none"
    <2>1. /\ loops[l].conns[c].s \in Sessions /\ HasAttached(loops[l].conns[c].s, l)
          /\ sess[loops[l].conns[c].s].c = c
      BY DEF ControlInv, AttachedInv
    <2> QED
      BY <2>1 DEF HasAttached, ControlInv, ShapeInv, SessionOK
  <1>2. ASSUME NEW i \in 1..Len(loops[l].queue)
        PROVE  LET m == loops[l].queue[i]
               IN  m.c \in Clients /\ m.s \in Sessions /\ sess[m.s].st # "none"
    <2>1. CommandOK(l, loops[l].queue[i])
      BY DEF ControlInv, CommandsInv
    <2> QED
      BY <2>1 DEF CommandOK, Joined, ControlInv, ShapeInv, SessionOK
  <1> QED
    BY <1>1, <1>2

LEMMA ConnsDeliver ==
    ASSUME ControlInv, NEW l \in Loops, LoopDelivers(l), NoneRejoins, client' = client, NoneAttaches(l)
    PROVE  \A c \in DOMAIN loops'[l].conns : ConnDelivers(l, c)'
  <1> SUFFICES ASSUME NEW c \in DOMAIN loops'[l].conns PROVE ConnDelivers(l, c)'
    OBVIOUS
  <1>1. c \in DOMAIN loops[l].conns /\ loops'[l].conns[c] = loops[l].conns[c]
    BY DEF NoneAttaches
  <1>2. /\ c \in Clients /\ loops[l].conns[c].s \in Sessions
        /\ sess[loops[l].conns[c].s].st # "none" /\ ConnDelivers(l, c)
    BY <1>1, ClientOfSession DEF LoopDelivers
  <1> QED
    BY <1>1, <1>2 DEF ConnDelivers, NoneRejoins, BaseCookie

LEMMA CommandsDeliver ==
    ASSUME ControlInv, NEW l \in Loops, LoopDelivers(l), NoneRejoins, client' = client, NoneAsks(l)
    PROVE  \A i \in 1..Len(loops'[l].queue) : AttachDelivers(loops[l].queue[i])'
  <1> SUFFICES ASSUME NEW i \in 1..Len(loops'[l].queue), loops'[l].queue[i].op = "attach"
               PROVE  AttachDelivers(loops[l].queue[i])'
    BY DEF AttachDelivers
  <1>1. PICK j \in 1..Len(loops[l].queue) : loops'[l].queue[i] = loops[l].queue[j]
    BY DEF NoneAsks
  <1>2. PICK m : m = loops[l].queue[j]
    OBVIOUS
  <1>3. m.c \in Clients /\ m.s \in Sessions /\ sess[m.s].st # "none" /\ AttachDelivers(m)
    BY <1>2, ClientOfSession DEF LoopDelivers
  <1>4. loops'[l].queue[i] = m
    BY <1>1, <1>2
  <1>5. m.base \in Cookies /\ (m.s = cur'[m.c] => m.base = client'[m.c].cookie)
    BY <1>1, <1>2, <1>3 DEF AttachDelivers, NoneRejoins
  <1> QED
    BY <1>4, <1>5 DEF AttachDelivers

LEMMA DeliversOn ==
    ASSUME ControlInv, NEW l \in Loops, LoopDelivers(l), NoneRejoins, client' = client,
           NoneAttaches(l), NoneAsks(l)
    PROVE  LoopDelivers(l)'
  BY ConnsDeliver, CommandsDeliver DEF LoopDelivers

LEMMA SameDelivers ==
    ASSUME ControlInv, NEW l \in Loops, LoopDelivers(l), NoneRejoins, client' = client,
           loops'[l].conns = loops[l].conns, loops'[l].queue = loops[l].queue
    PROVE  LoopDelivers(l)'
  BY DeliversOn DEF NoneAttaches, NoneAsks

LEMMA LeavingRejoins ==
    ASSUME ControlInv, MayLeave
    PROVE  NoneRejoins
  BY DEF MayLeave, NoneRejoins, Sessions

LEMMA SendsNothing ==
    ASSUME PokesInv, durable' = durable, client' = client, SeedOK(service)',
           \A x \in Loops : VersionsOK(loops'[x]) /\ LoopDelivers(x)'
    PROVE  SentInv'
  <1>1. VersionsInv'
    BY DEF PokesInv, SentInv, VersionsInv
  <1>2. ClientsInv'
    BY DEF PokesInv, SentInv, ClientsInv
  <1> QED
    BY <1>1, <1>2 DEF SentInv, DeliveriesInv

(***************************************************************************)
(* The other loops, when a step is one of loop l.                          *)
(***************************************************************************)
LEMMA OneLoopSteps ==
    ASSUME PokesInv, NEW l \in Loops, OnlyLoop(l), durable' = durable, client' = client,
           SeedOK(service)', MayLeave, VersionsOK(loops'[l]), LoopDelivers(l)'
    PROVE  SentInv'
  <1>1. NoneRejoins
    BY LeavingRejoins DEF PokesInv, GroupInv
  <1>2. ASSUME NEW x \in Loops \ {l}
        PROVE  VersionsOK(loops'[x]) /\ LoopDelivers(x)'
    <2>1. loops'[x] = loops[x] /\ LoopDelivers(x) /\ VersionsOK(loops[x])
      BY DEF OnlyLoop, PokesInv, SentInv, DeliveriesInv, VersionsInv
    <2> QED
      BY <1>1, <2>1, SameDelivers DEF PokesInv, GroupInv
  <1>3. \A x \in Loops : VersionsOK(loops'[x]) /\ LoopDelivers(x)'
    BY <1>2
  <1> QED
    BY <1>3, SendsNothing

LEMMA SameVersions ==
    ASSUME NEW old, NEW new, VersionsOK(old), new.cvr = old.cvr, new.work = old.work
    PROVE  VersionsOK(new)
  BY DEF VersionsOK

LEMMA NewLoopVersions ==
    ASSUME NEW lp, CvrOK(lp.cvr), lp.work = Idle
    PROVE  VersionsOK(lp)
  BY DEF VersionsOK, Idle

LEMMA SameWorkVersions ==
    ASSUME NEW w, NEW new, NEW cvr, DesireOK(w, cvr), new.before = w.before, new.config = w.config,
           new.patches = w.patches, new.hydration = w.hydration
    PROVE  DesireOK(new, cvr)
  BY DEF DesireOK


LEMMA HereStays ==
    ASSUME ControlInv, cur' = cur PROVE MayLeave
  BY DEF ControlInv, ShapeInv, MayLeave

-----------------------------------------------------------------------------
(* The service's connect-time CVR                                          *)

SameSeed(new, svc) == DOMAIN new = DOMAIN svc /\ new.seed = svc.seed

LEMMA SeedStays ==
    ASSUME NEW new, NEW svc, SeedOK(svc), SameSeed(new, svc)
    PROVE  SeedOK(new)
  BY DEF SeedOK, SameSeed

LEMMA DriverSeed ==
    ASSUME NEW svc, NEW d
    PROVE  SameSeed([svc EXCEPT !.driver = d], svc)
  BY DEF SameSeed

LEMMA BothSeed ==
    ASSUME NEW svc, NEW d, NEW e
    PROVE  SameSeed([svc EXCEPT !.desirers = e, !.driver = d], svc)
  BY DEF SameSeed

LEMMA UndesireSeed ==
    ASSUME NEW svc, NEW c, NEW qs
    PROVE  SameSeed(Undesire(svc, c, qs), svc)
  BY DEF SameSeed, Undesire

LEMMA ResetSeed ==
    ASSUME NEW svc, NEW qs
    PROVE  SameSeed(ResetQueries(svc, qs), svc)
  BY DEF SameSeed, ResetQueries

LEMMA RegisterSeed ==
    ASSUME NEW svc, NEW c, NEW q, NEW rows
    PROVE  SameSeed(RegisterDesire(svc, c, q, rows), svc)
  BY DEF SameSeed, RegisterDesire, Desired

LEMMA DesireSeed ==
    ASSUME NEW svc, NEW c, NEW q
    PROVE  SameSeed(DesireQuery(svc, c, q), svc)
  BY DEF SameSeed, DesireQuery, Desired

LEMMA FailedSeed ==
    ASSUME NEW svc, NEW c, NEW q
    PROVE  SameSeed(FailedDesire(svc, c, q), svc)
  BY DEF SameSeed, FailedDesire, Desired

LEMMA SharedSeed ==
    ASSUME NEW svc, NEW c, NEW q, NEW executed
    PROVE  SameSeed(SharedPut(svc, c, q, executed), svc)
  <1>1. PICK u : u = Undesire(svc, c, {q})
    OBVIOUS
  <1>2. SameSeed(u, svc) /\ SameSeed(DesireQuery(u, c, q), u)
    BY <1>1, UndesireSeed, DesireSeed
  <1>3. SameSeed(RegisterDesire(svc, c, q, Empty), svc)
    BY RegisterSeed
  <1> QED
    BY <1>1, <1>2, <1>3 DEF SharedPut, SameSeed

-----------------------------------------------------------------------------
(* The steps of the connections                                            *)

LEMMA SentParts ==
    ASSUME PokesInv
    PROVE  /\ ControlInv /\ ServiceInv /\ CvrOK(durable) /\ SeedOK(service)
           /\ \A x \in Loops : VersionsOK(loops[x]) /\ LoopDelivers(x) /\ LoopOK(x)
           /\ DOMAIN loops = Loops
  BY DEF PokesInv, GroupInv, SentInv, VersionsInv, DeliveriesInv, ControlInv, ShapeInv

LEMMA AsideStepsSent ==
    ASSUME PokesInv,
           (\E w \in Writes : Commit(w)) \/ (\E c \in Clients : Leave(c)) \/ UNCHANGED vars
    PROVE  SentInv'
  <1>1. durable' = durable /\ client' = client /\ service' = service
    BY DEF Commit, Leave, vars
  <1>2. MayLeave
    <2>1. cur' = cur \/ \E c \in Clients : cur' = [cur EXCEPT ![c] = 0]
      BY DEF Commit, Leave, vars
    <2> QED
      BY <2>1, SentParts DEF MayLeave, ControlInv, ShapeInv
  <1>3. loops' = loops \/ loops' = [l \in Loops |-> IF loops[l].st = "run"
                                     THEN [loops[l] EXCEPT !.notified = TRUE] ELSE loops[l]]
    BY DEF Commit, Leave, vars
  <1>4. NoneRejoins
    BY <1>2, LeavingRejoins, SentParts
  <1>5. ASSUME NEW x \in Loops PROVE VersionsOK(loops'[x]) /\ LoopDelivers(x)'
    <2>1. VersionsOK(loops[x]) /\ LoopDelivers(x) /\ DOMAIN loops[x] = LoopFields /\ ControlInv
      BY SentParts DEF LoopOK
    <2>2. /\ loops'[x].conns = loops[x].conns /\ loops'[x].queue = loops[x].queue
          /\ loops'[x].cvr = loops[x].cvr /\ loops'[x].work = loops[x].work
      <3>1. loops'[x] = loops[x] \/ loops'[x] = [loops[x] EXCEPT !.notified = TRUE]
        BY <1>3
      <3> QED
        BY <2>1, <3>1 DEF LoopFields
    <2>3. VersionsOK(loops'[x])
      BY <2>1, <2>2, SameVersions
    <2>4. LoopDelivers(x)'
      BY <1>1, <1>4, <2>1, <2>2, SameDelivers
    <2> QED
      BY <2>3, <2>4
  <1>6. SeedOK(service)'
    BY <1>1, SentParts
  <1> QED
    BY <1>1, <1>5, <1>6, SendsNothing

LEMMA SetUpSent ==
    ASSUME PokesInv, (\E c \in Clients : Resolve(c)) \/ (\E s \in Sessions : GiveUp(s))
    PROVE  SentInv'
  <1>0. ControlInv /\ cur \in [Clients -> Sessions \cup {0}]
    BY SentParts DEF ControlInv, ShapeInv
  <1>1. durable' = durable /\ client' = client /\ loops' = loops
    BY DEF Resolve, GiveUp
  <1>2. service' \in {service, NewService, NoService}
    BY DEF Resolve, GiveUp, ServiceWithout
  <1>3. SeedOK(service)'
    <2>1. SeedOK(service)
      BY SentParts
    <2>2. SeedOK(NewService)
      BY DEF SeedOK, NewService
    <2>3. SeedOK(NoService)
      BY DEF SeedOK, NoService
    <2> QED
      BY <1>2, <2>1, <2>2, <2>3
  <1>4. NoneRejoins
    <2>1. cur' = cur \/ \E c \in Clients, s \in Sessions : sess[s].st = "none" /\ cur' = [cur EXCEPT ![c] = s]
      BY DEF Resolve, GiveUp
    <2> QED
      BY <1>0, <2>1 DEF NoneRejoins
  <1>5. ASSUME NEW x \in Loops PROVE VersionsOK(loops'[x]) /\ LoopDelivers(x)'
    <2>1. VersionsOK(loops[x]) /\ LoopDelivers(x) /\ loops'[x] = loops[x]
      BY <1>1, SentParts
    <2> QED
      BY <1>0, <1>1, <1>4, <2>1, SameDelivers
  <1> QED
    BY <1>1, <1>3, <1>5, SendsNothing

LEMMA EndSent ==
    ASSUME PokesInv, NEW l \in Loops, LoopEnds(l)
    PROVE  SentInv'
  <1>1. /\ durable' = durable /\ client' = client /\ cur' = cur
        /\ loops' = [loops EXCEPT ![l] = NoLoop("over")]
    BY DEF LoopEnds
  <1>2. service' \in {service, NoService}
    BY DEF LoopEnds, ServiceWithout
  <1>3. SeedOK(service)'
    <2>1. SeedOK(service)
      BY SentParts
    <2>2. SeedOK(NoService)
      BY DEF SeedOK, NoService
    <2> QED
      BY <1>2, <2>1, <2>2
  <1>4. OnlyLoop(l) /\ loops'[l] = NoLoop("over")
    BY <1>1, SentParts DEF OnlyLoop
  <1>5. /\ loops'[l].conns = <<>> /\ loops'[l].queue = <<>>
        /\ loops'[l].cvr = EmptyCvr /\ loops'[l].work = Idle
    BY <1>4 DEF NoLoop, NewLoop, Empty
  <1>6. VersionsOK(loops'[l])
    BY <1>5, EmptyCvrOK, NewLoopVersions
  <1>7. LoopDelivers(l)'
    <2>1. DOMAIN loops'[l].conns = {} /\ Len(loops'[l].queue) = 0
      BY <1>5
    <2> QED
      BY <2>1 DEF LoopDelivers
  <1>8. MayLeave
    BY <1>1, HereStays, SentParts
  <1> QED
    BY <1>1, <1>3, <1>4, <1>6, <1>7, <1>8, OneLoopSteps

(***************************************************************************)
(* A command at the end of the queue.                                      *)
(***************************************************************************)
LEMMA PushDelivers ==
    ASSUME ControlInv, NEW l \in Loops, LoopDelivers(l), NoneRejoins, client' = client,
           loops'[l].conns = loops[l].conns, NEW m, loops'[l].queue = Append(loops[l].queue, m),
           AttachDelivers(m)'
    PROVE  LoopDelivers(l)'
  <1>1. \A c \in DOMAIN loops'[l].conns : ConnDelivers(l, c)'
    <2>1. NoneAttaches(l)
      BY DEF NoneAttaches
    <2> QED
      BY <2>1, ConnsDeliver
  <1>2. PICK q, r : q = loops[l].queue /\ r = loops'[l].queue
    OBVIOUS
  <1>3. IsSeq(q)
    BY <1>2 DEF ControlInv, ShapeInv, LoopOK
  <1>4. /\ Len(q) \in Nat /\ Len(r) = Len(q) + 1
        /\ \A i \in 1..Len(q) : r[i] = q[i]
        /\ r[Len(q) + 1] = m
    BY <1>2, <1>3, AppendFacts
  <1>5. ASSUME NEW i \in 1..Len(q)
        PROVE  AttachDelivers(q[i])'
    <2>1. q[i].c \in Clients /\ q[i].s \in Sessions /\ sess[q[i].s].st # "none" /\ AttachDelivers(q[i])
      BY <1>2, ClientOfSession DEF LoopDelivers
    <2> QED
      BY <2>1 DEF AttachDelivers, NoneRejoins
  <1>6. ASSUME NEW i \in 1..Len(r)
        PROVE  AttachDelivers(r[i])'
    <2>1. CASE i \in 1..Len(q)
      BY <1>4, <1>5, <2>1
    <2>2. CASE i = Len(q) + 1
      BY <1>4, <2>2
    <2> QED
      BY <1>4, <2>1, <2>2
  <1>7. \A i \in 1..Len(loops'[l].queue) : AttachDelivers(loops[l].queue[i])'
    BY <1>2, <1>6 DEF AttachDelivers
  <1> QED
    BY <1>1, <1>7 DEF LoopDelivers

LEMMA ConnectionSent ==
    ASSUME PokesInv, NEW s \in Sessions,
           (\E patch \in Patches : Message(s, patch)) \/ (\E broken \in BOOLEAN : Notice(s, broken))
    PROVE  SentInv'
  <1>0. ControlInv /\ SeedOK(service) /\ DOMAIN loops = Loops
    BY SentParts
  <1>1. /\ sess[s].st = "open" /\ cur' = cur /\ durable' = durable /\ client' = client /\ service' = service
    BY DEF Message, Notice
  <1>2. PICK l \in Loops : l = sess[s].loop
    BY <1>0, <1>1 DEF ControlInv, ShapeInv, SessionOK
  <1>3. PICK m : m.op # "attach" /\ loops' = [loops EXCEPT ![l].queue = Append(@, m)]
    <2>1. ASSUME NEW patch \in Patches, Message(s, patch)
          PROVE  \E m : m.op # "attach" /\ loops' = [loops EXCEPT ![l].queue = Append(@, m)]
      <3> DEFINE m == [op |-> "desire", s |-> s, c |-> sess[s].c, patch |-> patch]
      <3>1. loops' = [loops EXCEPT ![l].queue = Append(@, m)]
        BY <1>2, <2>1 DEF Message, Enqueue
      <3>2. m.op # "attach"
        OBVIOUS
      <3> HIDE DEF m
      <3> QED
        BY <3>1, <3>2
    <2>2. ASSUME NEW broken \in BOOLEAN, Notice(s, broken)
          PROVE  \E m : m.op # "attach" /\ loops' = [loops EXCEPT ![l].queue = Append(@, m)]
      <3> DEFINE m == [op |-> "detach", s |-> s, c |-> sess[s].c, gen |-> sess[s].gen]
      <3>1. loops' = [loops EXCEPT ![l].queue = Append(@, m)]
        BY <1>2, <2>2 DEF Notice, Enqueue
      <3>2. m.op # "attach"
        OBVIOUS
      <3> HIDE DEF m
      <3> QED
        BY <3>1, <3>2
    <2> QED
      BY <2>1, <2>2
  <1>4. DOMAIN loops[l] = LoopFields /\ VersionsOK(loops[l]) /\ LoopDelivers(l)
    BY SentParts DEF LoopOK
  <1>5. /\ OnlyLoop(l) /\ loops'[l].queue = Append(loops[l].queue, m)
        /\ loops'[l].conns = loops[l].conns /\ loops'[l].cvr = loops[l].cvr
        /\ loops'[l].work = loops[l].work
    BY <1>0, <1>3, <1>4 DEF OnlyLoop, LoopFields
  <1>6. MayLeave /\ NoneRejoins
    BY <1>0, <1>1, HereStays, LeavingRejoins
  <1>7. LoopDelivers(l)'
    <2>1. AttachDelivers(m)'
      BY <1>3 DEF AttachDelivers
    <2> QED
      BY <1>0, <1>1, <1>4, <1>5, <1>6, <2>1, PushDelivers
  <1>8. VersionsOK(loops'[l])
    BY <1>4, <1>5, SameVersions
  <1>9. SeedOK(service)'
    BY <1>0, <1>1
  <1> QED
    BY <1>1, <1>5, <1>6, <1>7, <1>8, <1>9, OneLoopSteps

LEMMA JoinSent ==
    ASSUME PokesInv, NEW s \in Sessions, Join(s)
    PROVE  SentInv'
  <1> DEFINE seed == IF service.seed = NoSeed THEN durable ELSE service.seed
             held == {l \in Loops : \E t \in Sessions : HoldsLoop(t, l)}
             new  == CHOOSE n \in Loops : loops[n].st = "none" /\ \A k \in 1..(n - 1) : loops[k].st # "none"
             mine == IF held # {} THEN Highest(held) ELSE new
             attach == [op |-> "attach", s |-> s, c |-> sess[s].c, base |-> client[sess[s].c].cookie]
  <1>0. ControlInv /\ ServiceInv /\ CvrOK(durable) /\ SeedOK(service) /\ DOMAIN loops = Loops
    BY SentParts
  <1>1. /\ sess[s].st = "setup"
        /\ loops' = IF held # {} THEN Enqueue(mine, attach)
                    ELSE [loops EXCEPT ![mine] = [NewLoop(seed) EXCEPT !.queue = <<attach>>]]
        /\ service' = [service EXCEPT !.seed = seed]
        /\ cur' = cur /\ durable' = durable /\ client' = client
    BY DEF Join
  <1>2. sess[s].c \in Clients
    BY <1>0, <1>1 DEF ControlInv, ShapeInv, SessionOK
  <1>3. client[sess[s].c].cookie \in Cookies
    BY <1>2 DEF PokesInv, SentInv, ClientsInv, HoldsOK
  <1>4. CvrOK(seed)
    <2>1. "seed" \in DOMAIN service
      BY <1>0, <1>1 DEF ServiceInv, Held, ServiceOK
    <2> QED
      BY <1>0, <2>1 DEF SeedOK
  <1>5. attach.op = "attach" /\ attach.c = sess[s].c /\ attach.base = client[sess[s].c].cookie
    OBVIOUS
  <1>a. PICK l : l = mine
    OBVIOUS
  <1>b. PICK m : m = attach
    OBVIOUS
  <1>c. PICK cvr : cvr = seed
    OBVIOUS
  <1>6. l = mine /\ m = attach /\ cvr = seed
    BY <1>a, <1>b, <1>c
  <1>7. l \in Loops
    <2>1. new \in Loops
      BY <1>0, <1>1, LoopIsLeft
    <2>2. held # {} => Highest(held) \in held
      BY HighestExists
    <2> QED
      BY <1>6, <2>1, <2>2
  <1>8. AttachDelivers(m)'
    BY <1>1, <1>3, <1>5, <1>6 DEF AttachDelivers
  <1>9. CvrOK(cvr) /\ service' = [service EXCEPT !.seed = cvr]
    BY <1>1, <1>4, <1>6
  <1>10. /\ held # {} => loops' = [loops EXCEPT ![l].queue = Append(@, m)]
         /\ held = {} => loops' = [loops EXCEPT ![l] = [NewLoop(cvr) EXCEPT !.queue = <<m>>]]
    BY <1>1, <1>6 DEF Enqueue
  <1> HIDE DEF seed, held, new, mine, attach
  <1>11. SeedOK(service)'
    BY <1>9 DEF SeedOK
  <1>12. MayLeave /\ NoneRejoins
    BY <1>0, <1>1, HereStays, LeavingRejoins
  <1>13. DOMAIN loops[l] = LoopFields /\ VersionsOK(loops[l]) /\ LoopDelivers(l)
    BY <1>7, SentParts DEF LoopOK
  <1>14. CASE held # {}
    <2>1. /\ OnlyLoop(l) /\ loops'[l].queue = Append(loops[l].queue, m)
          /\ loops'[l].conns = loops[l].conns /\ loops'[l].cvr = loops[l].cvr
          /\ loops'[l].work = loops[l].work
      BY <1>0, <1>7, <1>10, <1>13, <1>14 DEF OnlyLoop, LoopFields
    <2>2. LoopDelivers(l)'
      BY <1>0, <1>1, <1>7, <1>8, <1>12, <1>13, <2>1, PushDelivers
    <2>3. VersionsOK(loops'[l])
      BY <1>13, <2>1, SameVersions
    <2> QED
      BY <1>1, <1>7, <1>11, <1>12, <2>1, <2>2, <2>3, OneLoopSteps
  <1>15. CASE held = {}
    <2>1. OnlyLoop(l) /\ loops'[l] = [NewLoop(cvr) EXCEPT !.queue = <<m>>]
      BY <1>0, <1>7, <1>10, <1>15 DEF OnlyLoop
    <2>2. /\ loops'[l].conns = <<>> /\ loops'[l].queue = <<m>>
          /\ loops'[l].cvr = cvr /\ loops'[l].work = Idle
      BY <2>1 DEF NewLoop, Empty
    <2>3. VersionsOK(loops'[l])
      BY <1>9, <2>2, NewLoopVersions
    <2>4. DOMAIN loops'[l].conns = {} /\ Len(loops'[l].queue) = 1 /\ loops'[l].queue[1] = m
      BY <2>2, OneQueue
    <2>5. LoopDelivers(l)'
      <3>1. \A i \in 1..Len(loops'[l].queue) : AttachDelivers(loops[l].queue[i])'
        <4>1. 1..Len(loops'[l].queue) = {1}
          BY <2>4
        <4> QED
          BY <1>8, <2>4, <4>1 DEF AttachDelivers
      <3> QED
        BY <2>4, <3>1 DEF LoopDelivers
    <2> QED
      BY <1>1, <1>7, <1>11, <1>12, <2>1, <2>3, <2>5, OneLoopSteps
  <1> QED
    BY <1>14, <1>15

-----------------------------------------------------------------------------
(* The commands                                                            *)

LEMMA TailAsks ==
    ASSUME ControlInv, NEW l \in Loops, loops[l].queue # <<>>, loops'[l].queue = Tail(loops[l].queue)
    PROVE  NoneAsks(l)
  <1>1. PICK q : q = loops[l].queue /\ IsSeq(q)
    BY DEF ControlInv, ShapeInv, LoopOK
  <1>2. /\ Len(q) \in Nat /\ Len(Tail(q)) = Len(q) - 1
        /\ \A i \in 1..Len(Tail(q)) : Tail(q)[i] = q[i + 1]
    BY <1>1, TailFacts
  <1>3. ASSUME NEW i \in 1..Len(Tail(q))
        PROVE  \E j \in 1..Len(q) : Tail(q)[i] = q[j]
    <2>1. i + 1 \in 1..Len(q)
      BY <1>2
    <2> QED
      BY <1>2, <2>1
  <1> QED
    BY <1>1, <1>3 DEF NoneAsks

LEMMA AttachSent ==
    ASSUME PokesInv, NEW l \in Loops, Attach(l)
    PROVE  SentInv'
  <1>0. /\ ControlInv /\ SeedOK(service) /\ VersionsOK(loops[l]) /\ LoopDelivers(l) /\ LoopOK(l)
    BY SentParts
  <1>1. PICK m : m = First(l)
    OBVIOUS
  <1>2. /\ loops[l].queue # <<>> /\ m.op = "attach" /\ DOMAIN loops = Loops
        /\ DOMAIN loops[l] = LoopFields
    BY <1>0, <1>1, TakesFirst DEF Attach
  <1>3. PICK gen, dl :
          /\ loops' = [loops EXCEPT ![l].queue = Tail(@), ![l].gen = @ + 1,
                                    ![l].conns = Over(One(m.c, [s |-> m.s, gen |-> gen, delivery |-> dl]), @)]
          /\ dl = NewDelivery(m.base)
          /\ cur' = cur /\ durable' = durable /\ client' = client /\ service' = service
    BY <1>1, Zenon DEF Attach, First
  <1>4. /\ OnlyLoop(l) /\ loops'[l].queue = Tail(loops[l].queue)
        /\ loops'[l].cvr = loops[l].cvr /\ loops'[l].work = loops[l].work
        /\ loops'[l].conns = Over(One(m.c, [s |-> m.s, gen |-> gen, delivery |-> dl]), loops[l].conns)
    BY <1>2, <1>3 DEF OnlyLoop, LoopFields
  <1>5. /\ DOMAIN loops'[l].conns = DOMAIN loops[l].conns \cup {m.c}
        /\ \A c \in DOMAIN loops[l].conns \ {m.c} : loops'[l].conns[c] = loops[l].conns[c]
        /\ loops'[l].conns[m.c] = [s |-> m.s, gen |-> gen, delivery |-> dl]
    BY <1>4 DEF Over, One
  <1>6. AttachDelivers(m)
    <2>1. m = loops[l].queue[1] /\ 1 \in 1..Len(loops[l].queue)
      BY <1>0, <1>1, <1>2, TailFacts DEF First, LoopOK
    <2> QED
      BY <1>0, <2>1 DEF LoopDelivers
  <1>7. m.base \in Cookies /\ (m.s = cur[m.c] => m.base = client[m.c].cookie)
    BY <1>2, <1>6 DEF AttachDelivers
  <1>8. DeliveryOK(dl) /\ BaseCookie(dl) = m.base
    <2>1. DeliveryOK(dl)
      BY <1>3, <1>7 DEF NewDelivery, DeliveryOK, Cookies
    <2>2. BaseCookie(dl) = m.base
      BY <1>3 DEF NewDelivery, BaseCookie
    <2> QED
      BY <2>1, <2>2
  <1>9. MayLeave /\ NoneRejoins
    BY <1>0, <1>3, HereStays, LeavingRejoins
  <1>10. ASSUME NEW c \in DOMAIN loops'[l].conns
         PROVE  ConnDelivers(l, c)'
    <2>1. CASE c = m.c
      <3>1. loops'[l].conns[c].s = m.s /\ loops'[l].conns[c].delivery = dl
        BY <1>5, <2>1
      <3> QED
        BY <1>3, <1>7, <1>8, <2>1, <3>1 DEF ConnDelivers
    <2>2. CASE c # m.c
      <3>1. ConnDelivers(l, c) /\ loops'[l].conns[c] = loops[l].conns[c]
        BY <1>0, <1>5, <2>2 DEF LoopDelivers
      <3> QED
        BY <1>3, <3>1 DEF ConnDelivers, BaseCookie
    <2> QED
      BY <2>1, <2>2
  <1>11. \A i \in 1..Len(loops'[l].queue) : AttachDelivers(loops[l].queue[i])'
    <2>1. NoneAsks(l)
      BY <1>0, <1>2, <1>4, TailAsks
    <2> QED
      BY <1>0, <1>3, <1>9, <2>1, CommandsDeliver
  <1>12. LoopDelivers(l)'
    BY <1>10, <1>11 DEF LoopDelivers
  <1>13. VersionsOK(loops'[l]) /\ SeedOK(service)'
    BY <1>0, <1>3, <1>4, SameVersions
  <1> QED
    BY <1>3, <1>4, <1>9, <1>12, <1>13, OneLoopSteps

LEMMA DetachSent ==
    ASSUME PokesInv, NEW l \in Loops, Detach(l)
    PROVE  SentInv'
  <1>0. /\ ControlInv /\ SeedOK(service) /\ VersionsOK(loops[l]) /\ LoopDelivers(l)
    BY SentParts
  <1>1. PICK c : c = First(l).c
    OBVIOUS
  <1>2. loops[l].queue # <<>> /\ DOMAIN loops = Loops /\ DOMAIN loops[l] = LoopFields
    BY <1>0, TakesFirst DEF Detach
  <1>3. /\ \/ loops' = [loops EXCEPT ![l].queue = Tail(@), ![l].conns = Without(@, {c})]
           \/ loops' = [loops EXCEPT ![l].queue = Tail(@)]
        /\ cur' = cur /\ durable' = durable /\ client' = client
    BY <1>1 DEF Detach, First
  <1>4. service' = service \/ \E qs : service' = Undesire(service, c, qs)
    BY <1>1, Zenon DEF Detach, First
  <1>5. /\ OnlyLoop(l) /\ loops'[l].queue = Tail(loops[l].queue)
        /\ loops'[l].cvr = loops[l].cvr /\ loops'[l].work = loops[l].work
        /\ loops'[l].conns = Without(loops[l].conns, {c}) \/ loops'[l].conns = loops[l].conns
    BY <1>2, <1>3 DEF OnlyLoop, LoopFields
  <1>6. NoneAttaches(l) /\ NoneAsks(l)
    BY <1>0, <1>2, <1>5, TailAsks DEF NoneAttaches, Without
  <1>7. MayLeave /\ NoneRejoins
    BY <1>0, <1>3, HereStays, LeavingRejoins
  <1>8. LoopDelivers(l)'
    BY <1>0, <1>3, <1>6, <1>7, DeliversOn
  <1>9. SeedOK(service)'
    BY <1>0, <1>4, UndesireSeed, SeedStays
  <1>10. VersionsOK(loops'[l])
    BY <1>0, <1>5, SameVersions
  <1> QED
    BY <1>3, <1>5, <1>7, <1>8, <1>9, <1>10, OneLoopSteps

LEMMA UnattachedSent ==
    ASSUME PokesInv, NEW l \in Loops, DesireUnattached(l)
    PROVE  SentInv'
  <1>0. /\ ControlInv /\ SeedOK(service) /\ VersionsOK(loops[l]) /\ LoopDelivers(l)
    BY SentParts
  <1>1. loops[l].queue # <<>> /\ DOMAIN loops = Loops /\ DOMAIN loops[l] = LoopFields
    BY <1>0, TakesFirst DEF DesireUnattached
  <1>2. /\ loops' = [loops EXCEPT ![l].queue = Tail(@)]
        /\ cur' = cur /\ durable' = durable /\ client' = client /\ service' = service
    BY DEF DesireUnattached
  <1>3. /\ OnlyLoop(l) /\ loops'[l].queue = Tail(loops[l].queue) /\ loops'[l].conns = loops[l].conns
        /\ loops'[l].cvr = loops[l].cvr /\ loops'[l].work = loops[l].work
    BY <1>1, <1>2 DEF OnlyLoop, LoopFields
  <1>4. NoneAttaches(l) /\ NoneAsks(l)
    BY <1>0, <1>1, <1>3, TailAsks DEF NoneAttaches
  <1>5. MayLeave /\ NoneRejoins
    BY <1>0, <1>2, HereStays, LeavingRejoins
  <1>6. LoopDelivers(l)'
    BY <1>0, <1>2, <1>4, <1>5, DeliversOn
  <1>7. VersionsOK(loops'[l]) /\ SeedOK(service)'
    BY <1>0, <1>2, <1>3, SameVersions
  <1> QED
    BY <1>2, <1>3, <1>5, <1>6, <1>7, OneLoopSteps

LEMMA DesireSent ==
    ASSUME PokesInv, NEW l \in Loops, Desire(l)
    PROVE  SentInv'
  <1> DEFINE m == First(l)
             cvr == loops[l].cvr
             prints == [q \in Queries |-> IF q \in m.patch.puts THEN m.patch.ast ELSE loops[l].prints[q]]
             desired == ApplyDesired(cvr, m.c, m.patch)
             config == ConfigVersion(cvr, m.c, m.patch)
             work == [st |-> "put", kind |-> "desire", s |-> m.s, c |-> m.c, ast |-> m.patch.ast,
                      before |-> cvr, todo |-> m.patch.puts, q |-> "none",
                      puts |-> m.patch.puts, dels |-> m.patch.dels,
                      newly |-> Needed(cvr, m.c, m.patch),
                      config |-> config,
                      patches |-> IF ChangesConfig(cvr, m.c, m.patch)
                                  THEN [NoPatches EXCEPT !.config = {config}]
                                  ELSE NoPatches,
                      hydration |-> NoPatches]
             svc == ResetQueries(service, Divergent(l, m.patch))
  <1>0. ControlInv /\ SeedOK(service) /\ VersionsOK(loops[l]) /\ LoopDelivers(l)
    BY SentParts
  <1>1. loops[l].queue # <<>> /\ DOMAIN loops = Loops /\ DOMAIN loops[l] = LoopFields
    BY <1>0, TakesFirst DEF Desire
  <1>2. /\ loops' = [loops EXCEPT ![l].queue = Tail(@), ![l].prints = prints,
                                  ![l].cvr = desired, ![l].work = work]
        /\ service' = Undesire(svc, m.c, m.patch.dels)
        /\ cur' = cur /\ durable' = durable /\ client' = client
    BY DEF Desire, First
  <1>3. /\ CvrOK(desired) /\ desired.got = cvr.got
        /\ config \in Nat /\ cvr.version <= config /\ config <= desired.version
        /\ CvrOK(cvr)
    <2>1. CvrOK(cvr)
      BY <1>0 DEF VersionsOK
    <2> QED
      BY <2>1, DesireApplied
  <1>4. /\ work.before = cvr /\ work.config = config /\ work.hydration = NoPatches /\ work.st = "put"
        /\ work.patches \in {NoPatches, [NoPatches EXCEPT !.config = {config}]}
    OBVIOUS
  <1>5. PICK w : w = work
    OBVIOUS
  <1>6. PICK k, d, p : k = config /\ d = desired /\ p = prints
    OBVIOUS
  <1>7. /\ w.before = cvr /\ w.config = k /\ w.hydration = NoPatches /\ w.st = "put"
        /\ w.patches \in {NoPatches, [NoPatches EXCEPT !.config = {k}]}
    BY <1>4, <1>5, <1>6
  <1>8. loops' = [loops EXCEPT ![l].queue = Tail(@), ![l].prints = p, ![l].cvr = d, ![l].work = w]
    BY <1>2, <1>5, <1>6
  <1>9. /\ CvrOK(d) /\ d.got = cvr.got /\ k \in Nat /\ cvr.version <= k /\ k <= d.version
    BY <1>3, <1>6
  <1>10. SeedOK(service)'
    <2>1. PICK new : new = svc
      OBVIOUS
    <2>2. SeedOK(new)
      BY <1>0, <2>1, ResetSeed, SeedStays
    <2>3. service' = Undesire(new, m.c, m.patch.dels)
      BY <1>2, <2>1
    <2> QED
      BY <2>2, <2>3, UndesireSeed, SeedStays
  <1> HIDE DEF m, prints, desired, config, work, svc
  <1>11. /\ OnlyLoop(l) /\ loops'[l].queue = Tail(loops[l].queue) /\ loops'[l].conns = loops[l].conns
         /\ loops'[l].cvr = d /\ loops'[l].work = w
    BY <1>1, <1>8 DEF OnlyLoop, LoopFields
  <1>12. NoneAttaches(l) /\ NoneAsks(l)
    BY <1>0, <1>1, <1>11, TailAsks DEF NoneAttaches
  <1>13. MayLeave /\ NoneRejoins
    BY <1>0, <1>2, HereStays, LeavingRejoins
  <1>14. LoopDelivers(l)'
    BY <1>0, <1>2, <1>12, <1>13, DeliversOn
  <1>15. DesireOK(w, d)
    <2>1. Stamped(w.patches, k)
      <3>1. Stamped([NoPatches EXCEPT !.config = {k}], k)
        BY <1>9 DEF Stamped, NoPatches, Empty
      <3> QED
        BY <1>7, <3>1, StampedNone
    <2>2. Stamped(w.hydration, d.version)
      BY <1>7, StampedNone
    <2>3. GotBy(d, cvr.version)
      BY <1>3, <1>9 DEF GotBy, CvrOK
    <2> QED
      BY <1>3, <1>7, <1>9, <2>1, <2>2, <2>3 DEF DesireOK
  <1>16. VersionsOK(loops'[l])
    BY <1>7, <1>9, <1>11, <1>15 DEF VersionsOK
  <1> QED
    BY <1>2, <1>10, <1>11, <1>13, <1>14, <1>16, OneLoopSteps

-----------------------------------------------------------------------------
(* The steps of a transition                                               *)

LEMMA WorkSent ==
    ASSUME PokesInv, NEW l \in Loops, OnlyLoop(l), MayLeave, SeedOK(service)',
           loops'[l].conns = loops[l].conns, loops'[l].queue = loops[l].queue,
           durable' = durable, client' = client, VersionsOK(loops'[l])
    PROVE  SentInv'
  <1>1. ControlInv /\ LoopDelivers(l)
    BY SentParts
  <1>2. NoneRejoins
    BY <1>1, LeavingRejoins
  <1>3. LoopDelivers(l)'
    BY <1>1, <1>2, SameDelivers
  <1> QED
    BY <1>3, OneLoopSteps

LEMMA PutSent ==
    ASSUME PokesInv, NEW l \in Loops, NEW q \in Queries, AdvanceForPut(l, q) \/ SkipPut(l, q)
    PROVE  SentInv'
  <1>0. /\ ControlInv /\ SeedOK(service) /\ VersionsOK(loops[l]) /\ LoopOK(l) /\ DOMAIN loops = Loops
    BY SentParts
  <1>1. loops[l].work.st = "put" /\ cur' = cur /\ durable' = durable /\ client' = client
    BY DEF AdvanceForPut, SkipPut
  <1>2. DOMAIN loops[l].work = WorkFields /\ DOMAIN loops[l] = LoopFields
    BY <1>0, <1>1 DEF LoopOK
  <1>3. PICK st, x, todo :
          /\ loops' = [loops EXCEPT ![l].work.st = st, ![l].work.q = x, ![l].work.todo = todo]
          /\ st \in {"put", "hydrate"}
    <2>1. CASE AdvanceForPut(l, q)
      BY <2>1 DEF AdvanceForPut
    <2>2. CASE SkipPut(l, q)
      <3>1. loops' = [loops EXCEPT ![l].work.todo = loops[l].work.todo \ {q}]
        BY <2>2 DEF SkipPut
      <3>2. loops' = [loops EXCEPT ![l].work.st = "put", ![l].work.q = loops[l].work.q,
                                   ![l].work.todo = loops[l].work.todo \ {q}]
        BY <1>0, <1>1, <1>2, <3>1 DEF WorkFields, LoopFields
      <3> QED
        BY <3>2
    <2> QED
      BY <2>1, <2>2
  <1>4. /\ OnlyLoop(l) /\ loops'[l].queue = loops[l].queue /\ loops'[l].conns = loops[l].conns
        /\ loops'[l].cvr = loops[l].cvr
        /\ loops'[l].work = [loops[l].work EXCEPT !.st = st, !.q = x, !.todo = todo]
    BY <1>0, <1>2, <1>3 DEF OnlyLoop, LoopFields
  <1>5. PICK w, new : w = loops[l].work /\ new = loops'[l].work
    OBVIOUS
  <1>6. /\ new.before = w.before /\ new.config = w.config /\ new.patches = w.patches
        /\ new.hydration = w.hydration /\ new.st \in {"put", "hydrate"}
    BY <1>2, <1>3, <1>4, <1>5 DEF WorkFields
  <1>7. DesireOK(w, loops[l].cvr) /\ CvrOK(loops[l].cvr)
    BY <1>0, <1>1, <1>5 DEF VersionsOK
  <1>8. DesireOK(new, loops[l].cvr)
    BY <1>6, <1>7, SameWorkVersions
  <1>9. VersionsOK(loops'[l])
    BY <1>4, <1>5, <1>6, <1>7, <1>8 DEF VersionsOK
  <1>10. SeedOK(service)'
    <2>1. CASE AdvanceForPut(l, q)
      <3>1. \E d, c, e : service' = SharedPut([service EXCEPT !.driver = d], c, q, e)
        BY <2>1, Zenon DEF AdvanceForPut
      <3>2. PICK d, c, e : service' = SharedPut([service EXCEPT !.driver = d], c, q, e)
        BY <3>1
      <3>3. PICK svc : svc = [service EXCEPT !.driver = d]
        OBVIOUS
      <3>4. SeedOK(svc)
        BY <1>0, <3>3, DriverSeed, SeedStays
      <3>5. SameSeed(service', svc)
        BY <3>2, <3>3, SharedSeed
      <3> QED
        BY <3>4, <3>5, SeedStays
    <2>2. CASE SkipPut(l, q)
      BY <1>0, <2>2 DEF SkipPut
    <2> QED
      BY <2>1, <2>2
  <1>11. MayLeave
    BY <1>0, <1>1, HereStays
  <1> QED
    BY <1>1, <1>4, <1>9, <1>10, <1>11, WorkSent

LEMMA HydrationOK ==
    ASSUME NEW w, NEW cvr, CvrOK(cvr), DesireOK(w, cvr), NEW p, Stamped(p, cvr.version),
           NEW new, new.before = w.before, new.config = w.config, new.patches = w.patches,
           new.hydration = Extend(w.hydration, p)
    PROVE  DesireOK(new, cvr)
  <1>1. cvr.version \in Nat /\ Stamped(w.hydration, cvr.version)
    BY DEF CvrOK, DesireOK
  <1>2. Stamped(new.hydration, cvr.version)
    BY <1>1, StampedExtend
  <1>3. IsEmpty(new.hydration) => IsEmpty(w.hydration)
    BY ExtendIsEmpty
  <1> QED
    BY <1>2, <1>3 DEF DesireOK

LEMMA RewireSent ==
    ASSUME PokesInv, NEW l \in Loops, Rewire(l)
    PROVE  SentInv'
  <1>0. /\ ControlInv /\ SeedOK(service) /\ VersionsOK(loops[l]) /\ LoopOK(l) /\ DOMAIN loops = Loops
    BY SentParts
  <1>1. PICK w, cvr : w = loops[l].work /\ cvr = loops[l].cvr
    OBVIOUS
  <1>2. /\ w.st = "hydrate" /\ cur' = cur /\ durable' = durable /\ client' = client /\ service' = service
    BY <1>1 DEF Rewire
  <1>3. DOMAIN w = WorkFields /\ DOMAIN loops[l] = LoopFields /\ w.q \in Queries
        /\ CvrOK(cvr) /\ DesireOK(w, cvr)
    BY <1>0, <1>1, <1>2 DEF LoopOK, VersionsOK
  <1>4. PICK rows, newly :
          loops' = [loops EXCEPT ![l].work.st = "put",
                                 ![l].work.hydration =
                                    Extend(@, RowPatches(rows, cvr.version, GotPatch(cvr.got, w.q, cvr.version, newly)))]
    BY <1>1, Zenon DEF Rewire
  <1>5. PICK p : p = RowPatches(rows, cvr.version, GotPatch(cvr.got, w.q, cvr.version, newly))
    OBVIOUS
  <1>6. Stamped(p, cvr.version)
    <2>1. cvr.version \in Nat /\ cvr.got \in [Queries -> Nat] /\ cvr.got[w.q] <= cvr.version
      BY <1>3 DEF CvrOK, GotBy
    <2>2. PICK v, got, q : v = cvr.version /\ got = cvr.got /\ q = w.q
      OBVIOUS
    <2>3. PICK g : g = GotPatch(got, q, v, newly)
      OBVIOUS
    <2>4. \A x \in DOMAIN g : g[x] \in Nat /\ g[x] <= v
      BY <1>3, <2>1, <2>2, <2>3, GotPatched
    <2>5. Stamped(RowPatches(rows, v, g), v)
      BY <2>1, <2>2, <2>4, StampedRows
    <2> QED
      BY <1>5, <2>2, <2>3, <2>5
  <1>7. loops' = [loops EXCEPT ![l].work.st = "put", ![l].work.hydration = Extend(@, p)]
    BY <1>4, <1>5
  <1>8. /\ OnlyLoop(l) /\ loops'[l].queue = loops[l].queue /\ loops'[l].conns = loops[l].conns
        /\ loops'[l].cvr = cvr
        /\ loops'[l].work = [w EXCEPT !.st = "put", !.hydration = Extend(@, p)]
    BY <1>0, <1>1, <1>3, <1>7 DEF OnlyLoop, LoopFields
  <1>9. PICK new : new = loops'[l].work
    OBVIOUS
  <1>10. /\ new.before = w.before /\ new.config = w.config /\ new.patches = w.patches
         /\ new.hydration = Extend(w.hydration, p) /\ new.st = "put"
    BY <1>3, <1>8, <1>9 DEF WorkFields
  <1>11. DesireOK(new, cvr)
    BY <1>3, <1>6, <1>10, HydrationOK
  <1>12. VersionsOK(loops'[l])
    BY <1>3, <1>8, <1>9, <1>10, <1>11 DEF VersionsOK
  <1>13. MayLeave /\ SeedOK(service)'
    BY <1>0, <1>2, HereStays
  <1> QED
    BY <1>2, <1>8, <1>12, <1>13, WorkSent

LEMMA HydrateSent ==
    ASSUME PokesInv, NEW l \in Loops, Hydrate(l)
    PROVE  SentInv'
  <1>0. /\ ControlInv /\ SeedOK(service) /\ VersionsOK(loops[l]) /\ LoopOK(l) /\ DOMAIN loops = Loops
    BY SentParts
  <1>1. PICK w, cvr : w = loops[l].work /\ cvr = loops[l].cvr
    OBVIOUS
  <1>2. w.st = "hydrate" /\ cur' = cur /\ durable' = durable /\ client' = client
    BY <1>1 DEF Hydrate
  <1>3. DOMAIN w = WorkFields /\ DOMAIN loops[l] = LoopFields /\ w.q \in Queries
        /\ CvrOK(cvr) /\ DesireOK(w, cvr)
    BY <1>0, <1>1, <1>2 DEF LoopOK, VersionsOK
  <1>4. PICK q, v, got :
          /\ q = w.q /\ v = EnsureNewVersion(w.config, cvr.version)
          /\ got = [cvr.got EXCEPT ![q] = IF @ = 0 THEN v ELSE @]
    OBVIOUS
  <1>5. PICK rows, newly, refs, tracked, bodies :
          loops' = [loops EXCEPT ![l].work.st = "put",
                                 ![l].work.hydration = Extend(@, RowPatches(rows, v, GotPatch(got, q, v, newly))),
                                 ![l].cvr = [@ EXCEPT !.version = v, !.got = got, !.refs = refs],
                                 ![l].tracked = tracked, ![l].bodies = bodies]
    BY <1>1, <1>4, Zenon DEF Hydrate
  <1>6. PICK p : p = RowPatches(rows, v, GotPatch(got, q, v, newly))
    OBVIOUS
  <1>7. PICK next : next = [cvr EXCEPT !.version = v, !.got = got, !.refs = refs]
    OBVIOUS
  <1>8. /\ v \in Nat /\ cvr.version <= v /\ got \in [Queries -> Nat] /\ got[q] <= v /\ got[q] # 0
        /\ CvrOK(next) /\ next.version = v
    <2>1. w.config \in Nat /\ w.config <= cvr.version
      BY <1>3 DEF DesireOK
    <2>2. cvr.version \in Nat /\ cvr.got \in [Queries -> Nat] /\ GotBy(cvr, cvr.version)
      BY <1>3 DEF CvrOK
    <2>a. v \in Nat /\ cvr.version <= v /\ 1 <= v
      BY <1>4, <2>1, <2>2, NewVersion
    <2>b. got \in [Queries -> Nat] /\ got[q] # 0
      BY <1>3, <1>4, <2>2, <2>a
    <2>c. \A x \in Queries : got[x] <= v
      BY <1>4, <2>2, <2>a DEF GotBy
    <2>3. /\ v \in Nat /\ cvr.version <= v /\ got \in [Queries -> Nat] /\ got[q] # 0
          /\ \A x \in Queries : got[x] <= v
      BY <2>a, <2>b, <2>c
    <2>4. DOMAIN next = DOMAIN cvr /\ next.version = v /\ next.got = got
      BY <1>3, <1>7 DEF CvrOK
    <2> QED
      BY <1>3, <1>4, <2>3, <2>4 DEF CvrOK, GotBy
  <1>9. Stamped(p, v) /\ ~IsEmpty(p)
    <2>1. PICK g : g = GotPatch(got, q, v, newly)
      OBVIOUS
    <2>2. (\A x \in DOMAIN g : g[x] \in Nat /\ g[x] <= v) /\ DOMAIN g # {}
      BY <1>3, <1>4, <1>8, <2>1, GotPatched
    <2>3. Stamped(RowPatches(rows, v, g), v)
      BY <1>8, <2>2, StampedRows
    <2>4. ~IsEmpty(RowPatches(rows, v, g))
      BY <2>2 DEF IsEmpty, RowPatches
    <2> QED
      BY <1>6, <2>1, <2>3, <2>4
  <1>10. loops' = [loops EXCEPT ![l].work.st = "put", ![l].work.hydration = Extend(@, p),
                                ![l].cvr = next, ![l].tracked = tracked, ![l].bodies = bodies]
    <2>1. loops' = [loops EXCEPT ![l].work.st = "put", ![l].work.hydration = Extend(@, p),
                                 ![l].cvr = [@ EXCEPT !.version = v, !.got = got, !.refs = refs],
                                 ![l].tracked = tracked, ![l].bodies = bodies]
      BY <1>5, <1>6
    <2> QED
      BY <1>0, <1>1, <1>3, <1>7, <2>1 DEF LoopFields
  <1>11. /\ OnlyLoop(l) /\ loops'[l].queue = loops[l].queue /\ loops'[l].conns = loops[l].conns
         /\ loops'[l].cvr = next
         /\ loops'[l].work = [w EXCEPT !.st = "put", !.hydration = Extend(@, p)]
    BY <1>0, <1>1, <1>3, <1>10 DEF OnlyLoop, LoopFields
  <1>12. PICK new : new = loops'[l].work
    OBVIOUS
  <1>13. /\ new.before = w.before /\ new.config = w.config /\ new.patches = w.patches
         /\ new.hydration = Extend(w.hydration, p) /\ new.st = "put"
    BY <1>3, <1>11, <1>12 DEF WorkFields
  <1>14. DesireOK(new, next)
    <2>1. /\ CvrOK(w.before) /\ w.config \in Nat /\ w.before.version <= w.config
          /\ w.config <= cvr.version /\ Stamped(w.patches, w.config)
          /\ Stamped(w.hydration, cvr.version) /\ cvr.version \in Nat
      BY <1>3 DEF DesireOK, CvrOK
    <2>2. Stamped(w.hydration, v)
      BY <1>8, <2>1, StampedLater
    <2>3. Stamped(new.hydration, v)
      BY <1>8, <1>9, <1>13, <2>2, StampedExtend
    <2>4. ~IsEmpty(new.hydration)
      BY <1>9, <1>13, ExtendIsEmpty
    <2>5. w.config <= v
      BY <1>8, <2>1
    <2> QED
      BY <1>8, <1>13, <2>1, <2>3, <2>4, <2>5 DEF DesireOK
  <1>15. VersionsOK(loops'[l])
    BY <1>8, <1>11, <1>12, <1>13, <1>14 DEF VersionsOK
  <1>16. SeedOK(service)'
    <2>1. service' = service \/ \E c, rows2 : service' = RegisterDesire(service, c, q, rows2)
      BY <1>1, <1>4, Zenon DEF Hydrate
    <2> QED
      BY <1>0, <2>1, RegisterSeed, SeedStays
  <1>17. MayLeave
    BY <1>0, <1>2, HereStays
  <1> QED
    BY <1>2, <1>11, <1>15, <1>16, <1>17, WorkSent

LEMMA CommitStepsSent ==
    ASSUME PokesInv, NEW l \in Loops, SkipCommit(l) \/ ProcessCommit(l)
    PROVE  SentInv'
  <1>0. /\ ControlInv /\ SeedOK(service) /\ VersionsOK(loops[l]) /\ LoopOK(l) /\ DOMAIN loops = Loops
        /\ DOMAIN loops[l] = LoopFields
    BY SentParts DEF LoopOK
  <1>1. cur' = cur /\ durable' = durable /\ client' = client
    BY DEF SkipCommit, ProcessCommit
  <1>2. MayLeave
    BY <1>0, <1>1, HereStays
  <1>3. CASE SkipCommit(l)
    <2>1. loops' = [loops EXCEPT ![l].notified = FALSE] /\ service' = service
      BY <1>3 DEF SkipCommit
    <2>2. /\ OnlyLoop(l) /\ loops'[l].queue = loops[l].queue /\ loops'[l].conns = loops[l].conns
          /\ loops'[l].cvr = loops[l].cvr /\ loops'[l].work = loops[l].work
      BY <1>0, <2>1 DEF OnlyLoop, LoopFields
    <2>3. VersionsOK(loops'[l]) /\ SeedOK(service)'
      BY <1>0, <2>1, <2>2, SameVersions
    <2> QED
      BY <1>1, <1>2, <2>2, <2>3, WorkSent
  <1>4. CASE ProcessCommit(l)
    <2>1. PICK cvr, v : cvr = loops[l].cvr /\ v = cvr.version + 1
      OBVIOUS
    <2>2. PICK changes, refs, bodies :
            loops' = [loops EXCEPT ![l].notified = FALSE,
                                   ![l].cvr = [@ EXCEPT !.version = v, !.refs = refs],
                                   ![l].bodies = bodies,
                                   ![l].work = [st |-> "commit", before |-> cvr,
                                                patches |-> ChangePatches(cvr, changes, v)]]
      BY <1>4, <2>1, Zenon DEF ProcessCommit
    <2>3. CvrOK(cvr) /\ cvr.version \in Nat /\ v \in Nat /\ cvr.version <= v
      BY <1>0, <2>1 DEF VersionsOK, CvrOK
    <2>4. PICK p : p = ChangePatches(cvr, changes, v)
      OBVIOUS
    <2>5. Stamped(p, v)
      <3>1. PICK rows : p = RowPatches(rows, v, Empty)
        BY <2>4, Zenon DEF ChangePatches
      <3>2. \A q \in DOMAIN Empty : Empty[q] \in Nat /\ Empty[q] <= v
        BY DEF Empty
      <3> QED
        BY <2>3, <3>1, <3>2, StampedRows
    <2>6. PICK next : next = [cvr EXCEPT !.version = v, !.refs = refs]
      OBVIOUS
    <2>7. CvrOK(next) /\ next.version = v
      <3>1. DOMAIN next = DOMAIN cvr /\ next.version = v /\ next.got = cvr.got
        BY <2>3, <2>6 DEF CvrOK
      <3> QED
        BY <2>3, <3>1, MovedCvr
    <2>8. PICK w : w = [st |-> "commit", before |-> cvr, patches |-> p]
      OBVIOUS
    <2>9. w.st = "commit" /\ w.before = cvr /\ w.patches = p
      BY <2>8
    <2>10. loops' = [loops EXCEPT ![l].notified = FALSE, ![l].cvr = next, ![l].bodies = bodies, ![l].work = w]
      BY <1>0, <2>1, <2>2, <2>4, <2>6, <2>8 DEF LoopFields
    <2>11. /\ OnlyLoop(l) /\ loops'[l].queue = loops[l].queue /\ loops'[l].conns = loops[l].conns
           /\ loops'[l].cvr = next /\ loops'[l].work = w
      BY <1>0, <2>10 DEF OnlyLoop, LoopFields
    <2>12. VersionsOK(loops'[l])
      BY <2>3, <2>5, <2>7, <2>9, <2>11 DEF VersionsOK, CommitOK
    <2>13. SeedOK(service)'
      <3>1. \E d : service' = [service EXCEPT !.driver = d]
        BY <1>4, Zenon DEF ProcessCommit
      <3> QED
        BY <1>0, <3>1, DriverSeed, SeedStays
    <2> QED
      BY <1>1, <1>2, <2>11, <2>12, <2>13, WorkSent
  <1> QED
    BY <1>3, <1>4

(***************************************************************************)
(* Transitions that fail.                                                  *)
(***************************************************************************)
LEMMA FailsSent ==
    ASSUME PokesInv, NEW l \in Loops, NEW cvr, Fails(l, cvr), CvrOK(cvr), MayLeave,
           SeedOK(service)', durable' = durable, client' = client
    PROVE  SentInv'
  <1>0. DOMAIN loops = Loops /\ DOMAIN loops[l] = LoopFields
    BY SentParts DEF LoopOK
  <1>1. /\ OnlyLoop(l) /\ loops'[l].queue = loops[l].queue /\ loops'[l].conns = loops[l].conns
        /\ loops'[l].cvr = cvr /\ loops'[l].work = Idle
    BY <1>0 DEF Fails, OnlyLoop, LoopFields
  <1>2. VersionsOK(loops'[l])
    BY <1>1, NewLoopVersions
  <1> QED
    BY <1>1, <1>2, WorkSent

LEMMA FlushFailsSent ==
    ASSUME PokesInv, NEW l \in Loops, FlushFails(l)
    PROVE  SentInv'
  <1>0. ControlInv /\ SeedOK(service) /\ VersionsOK(loops[l])
    BY SentParts
  <1>1. cur' = cur /\ durable' = durable /\ client' = client /\ service' = service
    BY DEF FlushFails
  <1>2. MayLeave /\ SeedOK(service)'
    BY <1>0, <1>1, HereStays
  <1>3. CASE loops[l].work.st = "commit" /\ Fails(l, RolledBack(loops[l].cvr, loops[l].work.before))
    <2>1. CvrOK(loops[l].work.before)
      BY <1>0, <1>3 DEF VersionsOK, CommitOK
    <2>2. CvrOK(RolledBack(loops[l].cvr, loops[l].work.before))
      BY <2>1, RolledBackOK
    <2>3. PICK cvr : cvr = RolledBack(loops[l].cvr, loops[l].work.before)
      OBVIOUS
    <2>4. CvrOK(cvr) /\ Fails(l, cvr)
      BY <1>3, <2>2, <2>3
    <2> QED
      BY <1>1, <1>2, <2>4, FailsSent
  <1>4. CASE Fails(l, loops[l].cvr)
    <2>1. PICK cvr : cvr = loops[l].cvr
      OBVIOUS
    <2>2. CvrOK(cvr) /\ Fails(l, cvr)
      BY <1>0, <1>4, <2>1 DEF VersionsOK
    <2> QED
      BY <1>1, <1>2, <2>2, FailsSent
  <1> QED
    BY <1>3, <1>4 DEF FlushFails

LEMMA AdvanceFailsSent ==
    ASSUME PokesInv, NEW l \in Loops, NEW done, AdvanceFails(l, done)
    PROVE  SentInv'
  <1> DEFINE w == loops[l].work
  <1>0. /\ ControlInv /\ SeedOK(service) /\ VersionsOK(loops[l]) /\ DOMAIN loops = Loops
        /\ DOMAIN loops[l] = LoopFields
    BY SentParts DEF LoopOK
  <1>1. durable' = durable /\ client' = client /\ \E d : service' = [service EXCEPT !.driver = d]
    BY Zenon DEF AdvanceFails
  <1>2. SeedOK(service)'
    BY <1>0, <1>1, DriverSeed, SeedStays
  <1>3. CASE /\ Fails(l, loops[l].cvr)
             /\ \E b : cur' = [cur EXCEPT ![w.c] = IF b THEN 0 ELSE @]
    <2>1. MayLeave
      BY <1>0, <1>3 DEF ControlInv, ShapeInv, MayLeave
    <2>2. PICK cvr : cvr = loops[l].cvr
      OBVIOUS
    <2>3. CvrOK(cvr) /\ Fails(l, cvr)
      BY <1>0, <1>3, <2>2 DEF VersionsOK
    <2> QED
      BY <1>1, <1>2, <2>1, <2>3, FailsSent
  <1>4. CASE loops' = [loops EXCEPT ![l].notified = FALSE] /\ cur' = cur
    <2>1. /\ OnlyLoop(l) /\ loops'[l].queue = loops[l].queue /\ loops'[l].conns = loops[l].conns
          /\ loops'[l].cvr = loops[l].cvr /\ loops'[l].work = loops[l].work
      BY <1>0, <1>4 DEF OnlyLoop, LoopFields
    <2>2. VersionsOK(loops'[l]) /\ MayLeave
      BY <1>0, <1>4, <2>1, SameVersions, HereStays
    <2> QED
      BY <1>1, <1>2, <2>1, <2>2, WorkSent
  <1> QED
    BY <1>3, <1>4, Zenon DEF AdvanceFails

LEMMA MovedOn ==
    ASSUME NEW w, NEW cvr, CvrOK(cvr), DesireOK(w, cvr), NEW next, NEW v,
           v = EnsureNewVersion(w.config, cvr.version),
           DOMAIN next = DOMAIN cvr, next.version = v, DOMAIN next.got = Queries,
           next.got = [x \in Queries |-> next.got[x]],
           \A x \in Queries : next.got[x] = cvr.got[x] \/ next.got[x] = v
    PROVE  CvrOK(next)
  <1>1. w.config \in Nat /\ w.config <= cvr.version
    BY DEF DesireOK
  <1>2. cvr.version \in Nat /\ cvr.got \in [Queries -> Nat] /\ GotBy(cvr, cvr.version)
    BY DEF CvrOK
  <1>3. v \in Nat /\ cvr.version <= v
    BY <1>1, <1>2, NewVersion
  <1>4. \A x \in Queries : next.got[x] \in Nat /\ next.got[x] <= v
    BY <1>2, <1>3 DEF GotBy
  <1>5. next.got \in [Queries -> Nat]
    BY <1>4
  <1> QED
    BY <1>3, <1>4, <1>5 DEF CvrOK, GotBy

LEMMA FailedHydrationCvr ==
    ASSUME NEW l \in Loops, VersionsOK(loops[l]), FailsToHydrate(l)
    PROVE  \E cvr, tracked : CvrOK(cvr) /\ HydrationFails(l, cvr, tracked)
  <1>1. PICK w, cvr, v : /\ w = loops[l].work /\ cvr = loops[l].cvr
                         /\ v = EnsureNewVersion(w.config, cvr.version)
    OBVIOUS
  <1>2. CvrOK(cvr) /\ DesireOK(w, cvr)
    BY <1>1, FailingHydration DEF VersionsOK, Busy
  <1>3. \E next, tracked :
           /\ HydrationFails(l, next, tracked)
           /\ \/ next = cvr
              \/ next = [cvr EXCEPT !.version = v]
              \/ next = [cvr EXCEPT !.version = v, !.got[w.q] = IF @ = 0 THEN v ELSE @]
    <2>1. CASE \E q \in Queries : AddQueryFails(l, q)
      BY <1>1, <2>1, Zenon DEF AddQueryFails
    <2>2. CASE FetchFails(l)
      BY <1>1, <2>2, Zenon DEF FetchFails
    <2>3. CASE FetchedFails(l)
      BY <1>1, <2>3, Zenon DEF FetchedFails
    <2> QED
      BY <2>1, <2>2, <2>3 DEF FailsToHydrate
  <1>4. PICK next, tracked :
           /\ HydrationFails(l, next, tracked)
           /\ \/ next = cvr
              \/ next = [cvr EXCEPT !.version = v]
              \/ next = [cvr EXCEPT !.version = v, !.got[w.q] = IF @ = 0 THEN v ELSE @]
    BY <1>3
  <1>5. CvrOK(next)
    <2>1. PICK q : q = w.q
      OBVIOUS
    <2>2. CASE next = cvr
      BY <1>2, <2>2
    <2>3. CASE \/ next = [cvr EXCEPT !.version = v]
               \/ next = [cvr EXCEPT !.version = v, !.got[q] = IF @ = 0 THEN v ELSE @]
      <3>1. DOMAIN cvr = {"version", "desired", "got", "refs"} /\ cvr.got \in [Queries -> Nat]
        BY <1>2 DEF CvrOK
      <3>2. /\ DOMAIN next = DOMAIN cvr /\ next.version = v
            /\ \/ next.got = cvr.got
               \/ next.got = [cvr.got EXCEPT ![q] = IF @ = 0 THEN v ELSE @]
        BY <2>3, <3>1
      <3>3. /\ DOMAIN next.got = Queries /\ next.got = [x \in Queries |-> next.got[x]]
            /\ \A x \in Queries : next.got[x] = cvr.got[x] \/ next.got[x] = v
        BY <3>1, <3>2
      <3> QED
        BY <1>1, <1>2, <3>2, <3>3, MovedOn
    <2> QED
      BY <1>4, <2>1, <2>2, <2>3
  <1> QED
    BY <1>4, <1>5

LEMMA HydrationFailsSent ==
    ASSUME PokesInv, NEW l \in Loops, FailsToHydrate(l)
    PROVE  SentInv'
  <1>0. /\ ControlInv /\ SeedOK(service) /\ VersionsOK(loops[l]) /\ DOMAIN loops = Loops
        /\ DOMAIN loops[l] = LoopFields
    BY SentParts DEF LoopOK
  <1>1. PICK cvr, tracked : CvrOK(cvr) /\ HydrationFails(l, cvr, tracked)
    BY <1>0, FailedHydrationCvr
  <1>2. /\ loops' = [loops EXCEPT ![l].cvr = cvr, ![l].tracked = tracked, ![l].work = Idle]
        /\ durable' = durable /\ client' = client
    BY <1>1, Zenon DEF HydrationFails
  <1>3. /\ OnlyLoop(l) /\ loops'[l].queue = loops[l].queue /\ loops'[l].conns = loops[l].conns
        /\ loops'[l].cvr = cvr /\ loops'[l].work = Idle
    BY <1>0, <1>2 DEF OnlyLoop, LoopFields
  <1>4. VersionsOK(loops'[l])
    BY <1>1, <1>3, NewLoopVersions
  <1>5. MayLeave
    BY <1>0, <1>1, HydrationFailsKeeps
  <1>6. SeedOK(service)'
    <2>1. CASE \E q \in Queries : AddQueryFails(l, q)
      <3>1. \E q, d, c : service' = FailedDesire(Undesire([service EXCEPT !.driver = d], c, {q}), c, q)
        BY <2>1, Zenon DEF AddQueryFails
      <3>2. PICK q, d, c : service' = FailedDesire(Undesire([service EXCEPT !.driver = d], c, {q}), c, q)
        BY <3>1
      <3>3. PICK svc : svc = [service EXCEPT !.driver = d]
        OBVIOUS
      <3>4. PICK und : und = Undesire(svc, c, {q})
        OBVIOUS
      <3>5. SeedOK(svc)
        BY <1>0, <3>3, DriverSeed, SeedStays
      <3>6. SeedOK(und)
        BY <3>4, <3>5, UndesireSeed, SeedStays
      <3>7. SameSeed(service', und)
        BY <3>2, <3>3, <3>4, FailedSeed
      <3> QED
        BY <3>6, <3>7, SeedStays
    <2>2. CASE service' = service
      BY <1>0, <2>2
    <2>3. CASE \E c, q : service' = FailedDesire(service, c, q)
      BY <1>0, <2>3, FailedSeed, SeedStays
    <2> QED
      BY <2>1, <2>2, <2>3, Zenon DEF FailsToHydrate, FetchFails, FetchedFails
  <1> QED
    BY <1>2, <1>3, <1>4, <1>5, <1>6, WorkSent

-----------------------------------------------------------------------------
(* Steps that send                                                         *)

LEMMA HoldsLater ==
    ASSUME NEW v \in Nat, NEW u \in Nat, v <= u, NEW held, HoldsOK(held, v)
    PROVE  HoldsOK(held, u)
  <1>1. held.cookie \in Cookies /\ held.cookie <= v
    BY DEF HoldsOK
  <1>2. held.cookie <= u
    BY <1>1 DEF Cookies, NoCookie
  <1> QED
    BY <1>1, <1>2, Zenon DEF HoldsOK

(***************************************************************************)
(* A client is on one connection, of one loop, and that is attached or     *)
(* waits to be.                                                            *)
(***************************************************************************)
LEMMA ServedOnce ==
    ASSUME ControlInv, NEW l \in Loops, NEW c \in Served(l), NEW x \in Loops
    PROVE  /\ c \in DOMAIN loops[x].conns /\ loops[x].conns[c].s = cur[c] => x = l
           /\ \A i \in 1..Len(loops[x].queue) :
                LET m == loops[x].queue[i]
                IN  m.op = "attach" /\ m.c = c => m.s # cur[c]
  <1>1. c \in DOMAIN loops[l].conns /\ loops[l].conns[c].s = cur[c]
    BY DEF Served
  <1>2. HasAttached(cur[c], l)
    BY <1>1 DEF ControlInv, AttachedInv
  <1>3. ASSUME c \in DOMAIN loops[x].conns, loops[x].conns[c].s = cur[c]
        PROVE  x = l
    <2>1. HasAttached(cur[c], x)
      BY <1>3 DEF ControlInv, AttachedInv
    <2> QED
      BY <1>2, <2>1 DEF HasAttached
  <1>4. ASSUME NEW i \in 1..Len(loops[x].queue), loops[x].queue[i].op = "attach", loops[x].queue[i].c = c
        PROVE  loops[x].queue[i].s # cur[c]
    <2>1. CommandOK(x, loops[x].queue[i])
      BY DEF ControlInv, CommandsInv
    <2>2. sess[loops[x].queue[i].s].st = "attach"
      BY <1>4, <2>1 DEF CommandOK
    <2> QED
      BY <1>2, <2>2 DEF HasAttached
  <1> QED
    BY <1>3, <1>4

LEMMA FanOutEffect ==
    ASSUME PokesInv, NEW l \in Loops, NEW cvr, NEW told, FanOut(l, cvr, told),
           DOMAIN told = DOMAIN loops[l].conns
    PROVE  LET Built(c) == BuildPokes(loops[l].conns[c].delivery, told[c], cvr.version)
           IN  /\ OnlyLoop(l) /\ loops'[l].queue = loops[l].queue
               /\ loops'[l].cvr = cvr /\ loops'[l].work = Idle
               /\ DOMAIN loops'[l].conns = DOMAIN loops[l].conns
               /\ \A c \in DOMAIN loops[l].conns :
                     /\ loops'[l].conns[c].s = loops[l].conns[c].s
                     /\ loops'[l].conns[c].delivery = Built(c).delivery
               /\ DOMAIN client' = Clients
               /\ \A c \in Clients \ Served(l) : client'[c] = client[c]
               /\ \A c \in Served(l) : client'[c] = ReceivesAll(client[c], Built(c).pokes)
  <1> DEFINE conns == loops[l].conns
             Built(c) == BuildPokes(conns[c].delivery, told[c], cvr.version)
             built == [c \in DOMAIN told |-> Built(c)]
             to == Served(l) \cap DOMAIN told
             next == [c \in DOMAIN told |-> [conns[c] EXCEPT !.delivery = built[c].delivery]]
             hears == [c \in to |-> ReceivesAll(client[c], built[c].pokes)]
  <1>0. /\ ControlInv /\ DOMAIN loops = Loops /\ LoopOK(l) /\ DOMAIN loops[l] = LoopFields
        /\ DOMAIN client = Clients
    BY SentParts DEF LoopOK, PokesInv, SentInv, ClientsInv
  <1>1. /\ loops' = [loops EXCEPT ![l].cvr = cvr, ![l].work = Idle, ![l].conns = Over(next, conns)]
        /\ client' = Over(hears, client)
    BY DEF FanOut
  <1>2. to = Served(l) /\ Served(l) \subseteq DOMAIN conns /\ DOMAIN conns \subseteq Clients
    BY <1>0, ClientOfSession DEF Served
  <1>3. \A c \in DOMAIN conns : built[c] = Built(c)
    OBVIOUS
  <1> HIDE DEF built, Built
  <1>4. /\ DOMAIN Over(next, conns) = DOMAIN conns
        /\ \A c \in DOMAIN conns : Over(next, conns)[c] = [conns[c] EXCEPT !.delivery = built[c].delivery]
    BY DEF Over
  <1>5. PICK new : new = Over(next, conns)
    OBVIOUS
  <1>6. /\ OnlyLoop(l) /\ loops'[l].queue = loops[l].queue
        /\ loops'[l].cvr = cvr /\ loops'[l].work = Idle /\ loops'[l].conns = new
    <2>1. loops' = [loops EXCEPT ![l].cvr = cvr, ![l].work = Idle, ![l].conns = new]
      BY <1>1, <1>5
    <2> QED
      BY <1>0, <2>1 DEF OnlyLoop, LoopFields
  <1>7. \A c \in DOMAIN conns : new[c].s = conns[c].s /\ new[c].delivery = built[c].delivery
    BY <1>0, <1>4, <1>5 DEF LoopOK, ConnFields
  <1>8. /\ DOMAIN client' = Clients
        /\ \A c \in Clients \ Served(l) : client'[c] = client[c]
        /\ \A c \in Served(l) : client'[c] = ReceivesAll(client[c], built[c].pokes)
    BY <1>0, <1>1, <1>2 DEF Over
  <1>9. /\ DOMAIN loops'[l].conns = DOMAIN conns
        /\ \A c \in DOMAIN conns :
              loops'[l].conns[c].s = conns[c].s /\ loops'[l].conns[c].delivery = Built(c).delivery
    BY <1>3, <1>4, <1>5, <1>6, <1>7
  <1>10. \A c \in Served(l) : client'[c] = ReceivesAll(client[c], Built(c).pokes)
    BY <1>2, <1>3, <1>8
  <1> QED
    BY <1>6, <1>8, <1>9, <1>10 DEF Built

LEMMA FanOutSent ==
    ASSUME PokesInv, NEW l \in Loops, NEW cvr, CvrOK(cvr), NEW told, FanOut(l, cvr, told),
           DOMAIN told = DOMAIN loops[l].conns,
           \A c \in DOMAIN told : PatchesOf(told[c], cvr.version),
           CvrOK(durable'), durable.version <= cvr.version, cvr.version <= durable'.version,
           cur' = cur, service' = service
    PROVE  SentInv'
  <1> DEFINE Built(c) == BuildPokes(loops[l].conns[c].delivery, told[c], cvr.version)
  <1>0. /\ ControlInv /\ SeedOK(service) /\ \A x \in Loops : VersionsOK(loops[x]) /\ LoopDelivers(x)
    BY SentParts
  <1>1. /\ durable.version \in Nat /\ cvr.version \in Nat /\ durable'.version \in Nat
        /\ \A c \in Clients : HoldsOK(client[c], durable.version)
    BY SentParts DEF CvrOK, PokesInv, SentInv, ClientsInv
  <1>2. /\ OnlyLoop(l) /\ loops'[l].queue = loops[l].queue
        /\ loops'[l].cvr = cvr /\ loops'[l].work = Idle
        /\ DOMAIN loops'[l].conns = DOMAIN loops[l].conns
        /\ \A c \in DOMAIN loops[l].conns :
              /\ loops'[l].conns[c].s = loops[l].conns[c].s
              /\ loops'[l].conns[c].delivery = Built(c).delivery
        /\ DOMAIN client' = Clients
        /\ \A c \in Clients \ Served(l) : client'[c] = client[c]
        /\ \A c \in Served(l) : client'[c] = ReceivesAll(client[c], Built(c).pokes)
    BY FanOutEffect
  <1>3. ASSUME NEW c \in DOMAIN loops[l].conns
        PROVE  /\ DeliveryOK(Built(c).delivery)
               /\ Follow(Built(c).pokes, loops[l].conns[c].delivery, Built(c).delivery, cvr.version)
    <2>1. PICK dl, t, v : dl = loops[l].conns[c].delivery /\ t = told[c] /\ v = cvr.version
      OBVIOUS
    <2>2. DeliveryOK(dl) /\ PatchesOf(t, v) /\ v \in Nat
      BY <1>0, <1>1, <2>1 DEF LoopDelivers, ConnDelivers
    <2>3. LET b == BuildPokes(dl, t, v)
          IN  DeliveryOK(b.delivery) /\ Follow(b.pokes, dl, b.delivery, v)
      BY <2>2, PokesBuilt
    <2> QED
      BY <2>1, <2>3
  <1> HIDE DEF Built
  <1>4. ASSUME NEW c \in Served(l)
        PROVE  HoldsOK(client'[c], cvr.version) /\ client'[c].cookie = BaseCookie(Built(c).delivery)
    <2>1. /\ c \in DOMAIN loops[l].conns /\ c \in Clients
          /\ client[c].cookie = BaseCookie(loops[l].conns[c].delivery)
      BY <1>0, ClientOfSession DEF Served, LoopDelivers, ConnDelivers
    <2>2. HoldsOK(client[c], cvr.version)
      <3>1. HoldsOK(client[c], durable.version)
        BY <1>1, <2>1
      <3>2. PICK held, v, u : held = client[c] /\ v = durable.version /\ u = cvr.version
        OBVIOUS
      <3>3. HoldsOK(held, u)
        BY <1>1, <3>1, <3>2, HoldsLater
      <3> QED
        BY <3>2, <3>3
    <2>3. Follow(Built(c).pokes, loops[l].conns[c].delivery, Built(c).delivery, cvr.version)
      BY <1>3, <2>1
    <2>4. /\ HoldsOK(ReceivesAll(client[c], Built(c).pokes), cvr.version)
          /\ ReceivesAll(client[c], Built(c).pokes).cookie = BaseCookie(Built(c).delivery)
      BY <2>1, <2>2, <2>3 DEF Follow
    <2> QED
      BY <1>2, <2>4
  <1>5. ClientsInv'
    <2>1. ASSUME NEW c \in Clients PROVE HoldsOK(client'[c], durable'.version)
      <3>1. PICK held, n : held = client'[c] /\ n \in Nat /\ n <= durable'.version /\ HoldsOK(held, n)
        <4>1. CASE c \in Served(l)
          BY <1>1, <1>4, <4>1
        <4>2. CASE c \notin Served(l)
          <5>1. client'[c] = client[c] /\ HoldsOK(client[c], durable.version)
            BY <1>1, <1>2, <4>2
          <5>2. durable.version <= durable'.version
            BY <1>1
          <5> QED
            BY <1>1, <5>1, <5>2
        <4> QED
          BY <4>1, <4>2
      <3>2. PICK u : u = durable'.version /\ u \in Nat
        BY <1>1
      <3>3. HoldsOK(held, u)
        BY <3>1, <3>2, HoldsLater
      <3> QED
        BY <3>1, <3>2, <3>3
    <2>2. ASSUME NEW c \in Clients PROVE HoldsOK(client[c], durable.version)'
      BY <2>1 DEF HoldsOK
    <2> QED
      BY <1>2, <2>2 DEF ClientsInv
  <1>6. ASSUME NEW x \in Loops, NEW i \in 1..Len(loops[x].queue)
        PROVE  AttachDelivers(loops[x].queue[i])' \/ loops'[x].queue # loops[x].queue
    <2>1. PICK m : m = loops[x].queue[i]
      OBVIOUS
    <2>2. AttachDelivers(m) /\ m.c \in Clients
      BY <1>0, <2>1, ClientOfSession DEF LoopDelivers
    <2>3. m.op = "attach" /\ m.s = cur[m.c] => client'[m.c] = client[m.c]
      <3>1. m.op = "attach" /\ m.s = cur[m.c] => m.c \notin Served(l)
        BY <1>0, <2>1, ServedOnce
      <3> QED
        BY <1>2, <2>2, <3>1
    <2>4. m.op = "attach" => m.base \in Cookies /\ (m.s = cur'[m.c] => m.base = client'[m.c].cookie)
      BY <2>2, <2>3 DEF AttachDelivers
    <2> QED
      BY <2>1, <2>4 DEF AttachDelivers
  <1>7. \A x \in Loops : loops'[x].queue = loops[x].queue
    BY <1>2 DEF OnlyLoop
  <1>8. ASSUME NEW x \in Loops PROVE LoopDelivers(x)'
    <2>1. \A i \in 1..Len(loops'[x].queue) : AttachDelivers(loops[x].queue[i])'
      BY <1>6, <1>7
    <2>2. ASSUME NEW c \in DOMAIN loops'[x].conns PROVE ConnDelivers(x, c)'
      <3>1. CASE x = l
        <4>1. c \in DOMAIN loops[l].conns
          BY <1>2, <2>2, <3>1
        <4>2. /\ DeliveryOK(loops'[l].conns[c].delivery)
              /\ loops'[l].conns[c].delivery = Built(c).delivery
              /\ loops'[l].conns[c].s = loops[l].conns[c].s
          BY <1>2, <1>3, <4>1
        <4>3. loops[l].conns[c].s = cur[c] => client'[c].cookie = BaseCookie(Built(c).delivery)
          BY <1>4, <4>1 DEF Served
        <4> QED
          BY <3>1, <4>2, <4>3 DEF ConnDelivers
      <3>2. CASE x # l
        <4>1. loops'[x] = loops[x] /\ c \in DOMAIN loops[x].conns
          BY <1>2, <2>2, <3>2 DEF OnlyLoop
        <4>2. ConnDelivers(x, c) /\ c \in Clients
          BY <1>0, <4>1, ClientOfSession DEF LoopDelivers
        <4>3. loops[x].conns[c].s = cur[c] => client'[c] = client[c]
          <5>1. loops[x].conns[c].s = cur[c] => c \notin Served(l)
            BY <1>0, <3>2, <4>1, ServedOnce
          <5> QED
            BY <1>2, <4>2, <5>1
        <4> QED
          BY <4>1, <4>2, <4>3 DEF ConnDelivers, BaseCookie
      <3> QED
        BY <3>1, <3>2
    <2> QED
      BY <2>1, <2>2 DEF LoopDelivers
  <1>9. VersionsInv'
    <2>1. ASSUME NEW x \in Loops PROVE VersionsOK(loops'[x])
      <3>1. CASE x = l
        BY <1>2, <3>1, NewLoopVersions
      <3>2. CASE x # l
        BY <1>0, <1>2, <3>2 DEF OnlyLoop
      <3> QED
        BY <3>1, <3>2
    <2>2. SeedOK(service)' /\ CvrOK(durable)'
      BY <1>0
    <2> QED
      BY <2>1, <2>2 DEF VersionsInv
  <1> QED
    BY <1>5, <1>8, <1>9 DEF SentInv, DeliveriesInv

LEMMA ToldPatches ==
    ASSUME NEW l \in Loops, NEW c, NEW v, NEW mine, NEW others, PatchesOf(mine, v), PatchesOf(others, v),
           NEW told, told = Told(l, c, mine, others)
    PROVE  DOMAIN told = DOMAIN loops[l].conns /\ \A x \in DOMAIN told : PatchesOf(told[x], v)
  <1>1. DOMAIN told = DOMAIN loops[l].conns /\ \A x \in DOMAIN told : told[x] = mine \/ told[x] = others
    BY DEF Told
  <1> QED
    BY <1>1

LEMMA FlushCommitSent ==
    ASSUME PokesInv, NEW l \in Loops, FlushCommit(l)
    PROVE  SentInv'
  <1>1. PICK w, cvr : w = loops[l].work /\ cvr = loops[l].cvr
    OBVIOUS
  <1>2. PICK others, told : others = <<w.patches>> /\ told = Told(l, "none", <<>>, others)
    OBVIOUS
  <1>3. /\ w.st = "commit" /\ durable.version = w.before.version /\ durable' = cvr
        /\ cur' = cur /\ service' = service /\ FanOut(l, cvr, told)
    BY <1>1, <1>2 DEF FlushCommit
  <1>4. CvrOK(cvr) /\ w.before.version <= cvr.version /\ Stamped(w.patches, cvr.version)
    BY <1>1, <1>3, SentParts DEF VersionsOK, CommitOK
  <1>5. PICK v : v = cvr.version
    OBVIOUS
  <1>6. PatchesOf(<<>>, v) /\ PatchesOf(others, v)
    BY <1>2, <1>4, <1>5 DEF PatchesOf
  <1>7. DOMAIN told = DOMAIN loops[l].conns /\ \A x \in DOMAIN told : PatchesOf(told[x], v)
    BY <1>2, <1>6, ToldPatches
  <1>8. \A x \in DOMAIN told : PatchesOf(told[x], cvr.version)
    BY <1>5, <1>7
  <1>9. cvr.version <= durable'.version /\ durable.version <= cvr.version /\ CvrOK(durable')
    BY <1>3, <1>4 DEF CvrOK
  <1> QED
    BY <1>3, <1>4, <1>7, <1>8, <1>9, FanOutSent

(***************************************************************************)
(* A transition without a hydration takes the version back to that of the  *)
(* configuration, where none of its patches and no got query lies beyond   *)
(* it.                                                                     *)
(***************************************************************************)
LEMMA FlushedVersions ==
    ASSUME NEW w, NEW full, CvrOK(full), DesireOK(w, full),
           NEW cvr, NEW mine, NEW others,
           cvr = IF IsEmpty(w.hydration) /\ ~IsEmpty(w.patches)
                 THEN [full EXCEPT !.version = w.config] ELSE full,
           mine = IF IsEmpty(w.hydration) \/ IsEmpty(w.patches) THEN <<Extend(w.patches, w.hydration)>>
                  ELSE <<w.patches, w.hydration>>,
           others = IF IsEmpty(w.hydration) THEN <<>> ELSE <<w.hydration>>
    PROVE  /\ CvrOK(cvr) /\ w.before.version <= cvr.version /\ cvr.version <= full.version
           /\ PatchesOf(mine, cvr.version) /\ PatchesOf(others, cvr.version)
  <1>1. /\ w.before.version \in Nat /\ w.config \in Nat /\ full.version \in Nat
        /\ full.got \in [Queries -> Nat]
        /\ w.before.version <= w.config /\ w.config <= full.version
        /\ Stamped(w.patches, w.config) /\ Stamped(w.hydration, full.version)
        /\ IsEmpty(w.hydration) => GotBy(full, w.before.version)
    BY DEF DesireOK, CvrOK
  <1>2. PICK p, h, k, n : p = w.patches /\ h = w.hydration /\ k = w.config /\ n = full.version
    OBVIOUS
  <1>3. k \in Nat /\ n \in Nat /\ k <= n /\ Stamped(p, k) /\ Stamped(h, n) /\ Stamped(p, n)
    BY <1>1, <1>2, StampedLater
  <1>4. CASE IsEmpty(h) /\ ~IsEmpty(p)
    <2>1. DOMAIN cvr = DOMAIN full /\ cvr.version = k /\ cvr.got = full.got
      BY <1>2, <1>4 DEF CvrOK
    <2>2. GotBy(full, k)
      <3>1. PICK b : b = w.before.version /\ b \in Nat /\ b <= k /\ GotBy(full, b)
        BY <1>1, <1>2, <1>4
      <3> QED
        BY <1>1, <1>3, <3>1, GotByLater
    <2>3. CvrOK(cvr)
      BY <1>1, <1>3, <2>1, <2>2 DEF CvrOK, GotBy
    <2>4. Stamped(h, k)
      BY <1>3, <1>4, StampedEmpty
    <2>5. Stamped(Extend(p, h), k)
      BY <1>3, <2>4, StampedExtend
    <2>6. mine = <<Extend(p, h)>> /\ others = <<>>
      BY <1>2, <1>4
    <2>7. PatchesOf(mine, k) /\ PatchesOf(others, k)
      BY <2>5, <2>6 DEF PatchesOf
    <2>8. w.before.version <= cvr.version /\ cvr.version <= full.version
      BY <1>1, <1>2, <2>1
    <2> QED
      BY <2>1, <2>3, <2>7, <2>8
  <1>5. CASE ~(IsEmpty(h) /\ ~IsEmpty(p))
    <2>1. cvr = full
      BY <1>2, <1>5
    <2>2. Stamped(Extend(p, h), n)
      BY <1>3, StampedExtend
    <2>3. mine = <<Extend(p, h)>> \/ mine = <<p, h>>
      BY <1>2
    <2>4. others = <<>> \/ others = <<h>>
      BY <1>2
    <2>5. PatchesOf(mine, n) /\ PatchesOf(others, n)
      BY <1>3, <2>2, <2>3, <2>4 DEF PatchesOf
    <2>6. w.before.version <= full.version /\ full.version <= full.version
      BY <1>1
    <2>7. cvr.version = n /\ cvr.version <= full.version /\ w.before.version <= cvr.version
      BY <1>2, <2>1, <2>6, Zenon
    <2>8. CvrOK(cvr)
      BY <2>1, Zenon
    <2> QED
      BY <2>5, <2>7, <2>8, Zenon
  <1> QED
    BY <1>4, <1>5

LEMMA FlushDesireSent ==
    ASSUME PokesInv, NEW l \in Loops, FlushDesire(l)
    PROVE  SentInv'
  <1>1. PICK w, full : w = loops[l].work /\ full = loops[l].cvr
    OBVIOUS
  <1>2. PICK cvr, mine, others :
          /\ cvr = IF IsEmpty(w.hydration) /\ ~IsEmpty(w.patches)
                   THEN [full EXCEPT !.version = w.config] ELSE full
          /\ mine = IF IsEmpty(w.hydration) \/ IsEmpty(w.patches) THEN <<Extend(w.patches, w.hydration)>>
                    ELSE <<w.patches, w.hydration>>
          /\ others = IF IsEmpty(w.hydration) THEN <<>> ELSE <<w.hydration>>
    OBVIOUS
  <1>3. PICK told : told = Told(l, w.c, mine, others)
    OBVIOUS
  <1>4. /\ w.st = "put" /\ durable.version = w.before.version /\ durable' = full
        /\ cur' = cur /\ service' = service /\ FanOut(l, cvr, told)
    BY <1>1, <1>2, <1>3, Zenon DEF FlushDesire
  <1>5. CvrOK(full) /\ DesireOK(w, full)
    BY <1>1, <1>4, SentParts DEF VersionsOK
  <1>6. /\ CvrOK(cvr) /\ w.before.version <= cvr.version /\ cvr.version <= full.version
        /\ PatchesOf(mine, cvr.version) /\ PatchesOf(others, cvr.version)
    BY <1>2, <1>5, FlushedVersions, Zenon
  <1>7. PICK v : v = cvr.version
    OBVIOUS
  <1>8. PICK c : c = w.c
    OBVIOUS
  <1>9. DOMAIN told = DOMAIN loops[l].conns /\ \A x \in DOMAIN told : PatchesOf(told[x], v)
    <2>1. PatchesOf(mine, v) /\ PatchesOf(others, v) /\ told = Told(l, c, mine, others)
      BY <1>3, <1>6, <1>7, <1>8
    <2> QED
      BY <2>1, ToldPatches
  <1>10. \A x \in DOMAIN told : PatchesOf(told[x], cvr.version)
    BY <1>7, <1>9
  <1>11. cvr.version <= durable'.version /\ durable.version <= cvr.version /\ CvrOK(durable')
    BY <1>4, <1>5, <1>6
  <1> QED
    BY <1>4, <1>6, <1>9, <1>10, <1>11, FanOutSent

-----------------------------------------------------------------------------
LEMMA SentInit == Init => SentInv
  <1> SUFFICES ASSUME Init PROVE SentInv
    OBVIOUS
  <1>1. /\ durable = EmptyCvr /\ service = NoService /\ \A l \in Loops : loops[l] = NoLoop("none")
        /\ DOMAIN client = Clients
        /\ \A c \in Clients : client[c] = Over(NewClient, [broken |-> FALSE])
    BY DEF Init
  <1>2. VersionsInv
    <2>1. SeedOK(service)
      BY <1>1 DEF SeedOK, NoService
    <2>2. ASSUME NEW l \in Loops PROVE VersionsOK(loops[l])
      <3>1. loops[l].cvr = EmptyCvr /\ loops[l].work = Idle
        BY <1>1 DEF NoLoop, NewLoop
      <3> QED
        BY <3>1, EmptyCvrOK, NewLoopVersions
    <2> QED
      BY <1>1, <2>1, <2>2, EmptyCvrOK DEF VersionsInv
  <1>3. ClientsInv
    <2>1. PICK held : held = Over(NewClient, [broken |-> FALSE])
      OBVIOUS
    <2>2. held.cookie = NoCookie
      BY <2>1 DEF Over, NewClient
    <2>3. held.broken = FALSE
      <3> DEFINE flag == [broken |-> FALSE]
      <3>1. "broken" \notin DOMAIN NewClient /\ "broken" \in DOMAIN flag /\ held = Over(NewClient, flag)
        BY <2>1 DEF NewClient
      <3>2. held.broken = flag.broken
        <4> HIDE DEF flag
        <4> QED
          BY <3>1 DEF Over
      <3> QED
        BY <3>2, Zenon
    <2>4. durable.version = 0
      BY <1>1 DEF EmptyCvr
    <2>5. held.cookie \in Cookies /\ held.cookie <= durable.version
      BY <2>2, <2>4 DEF Cookies, NoCookie
    <2>6. HoldsOK(held, durable.version)
      BY <2>3, <2>5 DEF HoldsOK
    <2> QED
      BY <1>1, <2>1, <2>6 DEF ClientsInv
  <1>4. DeliveriesInv
    <2>1. ASSUME NEW l \in Loops PROVE LoopDelivers(l)
      <3>1. loops[l].conns = <<>> /\ loops[l].queue = <<>>
        BY <1>1 DEF NoLoop, NewLoop, Empty
      <3>2. DOMAIN loops[l].conns = {} /\ Len(loops[l].queue) = 0
        BY <3>1
      <3> QED
        BY <3>2 DEF LoopDelivers
    <2> QED
      BY <2>1 DEF DeliveriesInv
  <1> QED
    BY <1>2, <1>3, <1>4 DEF SentInv

LEMMA SentNext == PokesInv /\ [Next]_vars => SentInv'
  <1> SUFFICES ASSUME PokesInv, [Next]_vars PROVE SentInv'
    OBVIOUS
  <1>1. ASSUME NEW l \in Loops, LoopStep(l) \/ FlushFails(l) PROVE SentInv'
    BY <1>1, AttachSent, DetachSent, UnattachedSent, DesireSent, PutSent, RewireSent, HydrateSent,
       FlushDesireSent, CommitStepsSent, FlushCommitSent, EndSent, FlushFailsSent
       DEF LoopStep
  <1>2. ASSUME NEW l \in Loops, FailsToHydrate(l) PROVE SentInv'
    BY <1>2, HydrationFailsSent
  <1> QED
    BY <1>1, <1>2, AdvanceFailsSent, AsideStepsSent, SetUpSent, JoinSent, ConnectionSent
       DEF Next, FailsToHydrate

(***************************************************************************)
(* Whatever sockets a client has left behind, and however commands,        *)
(* commits and failed flushes interleave, the pokes that fan_to_all and    *)
(* process_desired_queries send on the connection a client is on follow on *)
(* from the cookie it holds, and none takes it beyond the durable CVR.     *)
(***************************************************************************)
THEOREM GroupPokesFollowOn == Spec => []PokesFollowOn
  <1>1. Init => PokesInv
    BY ControlInit, ServiceInit, SentInit DEF PokesInv, GroupInv
  <1>2. PokesInv /\ [Next]_vars => PokesInv'
    BY ControlNext, ServiceNext, SentNext DEF PokesInv, GroupInv
  <1>3. PokesInv => PokesFollowOn
    BY DEF PokesInv, SentInv, ClientsInv, HoldsOK, PokesFollowOn
  <1> QED
    BY <1>1, <1>2, <1>3, PTL DEF Spec
=============================================================================
