--------------------------- MODULE CvrStoreProofs ---------------------------
(* Proofs about CvrStore, for every value of its constants.                *)
EXTENDS CvrStore, FiniteSetTheorems, TLAPS

-----------------------------------------------------------------------------
(* Type correctness                                                        *)

\* TypeOK before it is known how far the versions go.
View == [version : Nat, config : SUBSET Stamps, rows : [Keys -> Stamps]]

ChainedFlush == [slot : Stamps, version : Nat, keys : SUBSET Keys,
                 rows : [Keys -> Stamps]]

DbShape ==
    /\ instance \in [present : BOOLEAN, version : Nat,
                     owner : Nodes \cup {NoOne}, grantedAt : Times,
                     lastActive : Times, deleted : BOOLEAN]
    /\ config \subseteq Stamps
    /\ rowsVersion \in Nat
    /\ rows \in [Keys -> Stamps]
    /\ intended \in [Keys -> Stamps]

SessionsShape ==
    /\ st \in [Sessions -> States]
    /\ transition \in [Sessions -> BOOLEAN]
    /\ connectTime \in [Sessions -> Times]
    /\ cvr \in [Sessions -> View]
    /\ mine \in [Sessions -> Stamps]
    /\ before \in [Sessions -> View]
    /\ pending \in [Sessions -> SUBSET Keys]
    /\ seen \in [Sessions -> Stamps]
    /\ handle \in [Sessions -> BOOLEAN]
    /\ seed \in [Nodes -> View \cup {NoSeed}]

RestShape ==
    /\ flags \in Flags
    /\ lock \in Sessions \cup {NoOne}
    /\ queue \in [Nodes -> Seq(ChainedFlush)]
    /\ clock \in Times
    /\ stamp \in Stamps
    /\ flushErrors \in 0..MaxFlushErrors
    /\ rowErrors \in 0..MaxRowErrors
    /\ crashes \in 0..MaxCrashes
    /\ lost \subseteq RowFlush
    /\ stray \in BOOLEAN
    /\ kept \in BOOLEAN

Shapes == DbShape /\ SessionsShape /\ RestShape

\* A session has a stamp exactly while it is in a transition.
Stamped(s) ==
    /\ transition[s] <=> mine[s] # 0
    /\ st[s] \in {"off", "idle", "spawn"} => mine[s] = 0
    /\ st[s] \in {"flush", "write"} => mine[s] # 0

StampedTransitions == \A s \in Sessions : Stamped(s)

\* The transitions that may still make a version.
Ahead == {s \in Sessions : mine[s] # 0 /\ st[s] # "write"}

Made == stamp - Cardinality(Ahead)

\* Every version was made by a transition of its own.
VersionsCounted ==
    /\ instance.version <= Made
    /\ rowsVersion <= Made
    /\ \A s \in Sessions : cvr[s].version <= Made /\ before[s].version <= Made
    /\ \A n \in Nodes : seed[n].version <= Made
    /\ \A n \in Nodes : \A i \in 1..Len(queue[n]) : queue[n][i].version <= Made

CountInv == Shapes /\ StampedTransitions /\ VersionsCounted

USE CvrStoreAssumption

\* Counting the transitions under way.
LEMMA AheadCount ==
    /\ IsFiniteSet(Ahead)
    /\ Cardinality(Ahead) \in Nat
  <1>1. Ahead \subseteq Sessions
    BY DEF Ahead
  <1> QED
    BY <1>1, FS_Subset, FS_CardinalityType DEF CvrStoreAssumption

LEMMA AheadCountNext ==
    /\ IsFiniteSet(Ahead')
    /\ Cardinality(Ahead') \in Nat
  <1>1. Ahead' \subseteq Sessions
    BY DEF Ahead
  <1> QED
    BY <1>1, FS_Subset, FS_CardinalityType DEF CvrStoreAssumption

LEMMA MadeKept ==
    ASSUME Shapes, stamp' = stamp, Ahead' \subseteq Ahead
    PROVE  Made' \in Int /\ Made \in Int /\ Made' >= Made /\ Made' <= stamp'
  <1>1. Cardinality(Ahead') <= Cardinality(Ahead)
    BY AheadCount, FS_Subset
  <1>2. stamp \in Int
    BY DEF Shapes, RestShape, Stamps
  <1> QED
    BY <1>1, <1>2, AheadCount, AheadCountNext DEF Made

\* A transition that starts may make a version later.
LEMMA MadeLater ==
    ASSUME Shapes, NEW s, stamp' = stamp + 1, s \notin Ahead,
           Ahead' = Ahead \cup {s}
    PROVE  Made' \in Int /\ Made \in Int /\ Made' >= Made /\ Made' <= stamp'
  <1>1. Cardinality(Ahead') = Cardinality(Ahead) + 1
    BY AheadCount, FS_AddElement
  <1>2. stamp \in Int
    BY DEF Shapes, RestShape, Stamps
  <1> QED
    BY <1>1, <1>2, AheadCount, AheadCountNext DEF Made

\* A flush makes the version of its transition.
LEMMA MadeNow ==
    ASSUME Shapes, NEW s, stamp' = stamp, s \in Ahead, Ahead' = Ahead \ {s}
    PROVE  Made' \in Int /\ Made \in Int /\ Made' = Made + 1 /\ Made' <= stamp'
  <1>1. Cardinality(Ahead') = Cardinality(Ahead) - 1
    BY AheadCount, FS_RemoveElement
  <1>2. stamp \in Int
    BY DEF Shapes, RestShape, Stamps
  <1> QED
    BY <1>1, <1>2, AheadCount, AheadCountNext DEF Made

\* The counts bound the versions as TypeOK says.
LEMMA CountedTypes ==
    ASSUME CountInv
    PROVE  TypeOK
  <1>1. stamp \in 0..MaxStamp /\ Made \in Int /\ Made <= stamp
    BY AheadCount DEF CountInv, Shapes, RestShape, Stamps, Made
  <1>2. \A v \in Nat : v <= Made => v \in Versions
    BY <1>1 DEF Versions
  <1>3. \A c \in View : c.version <= Made => c \in Cvr
    BY <1>2 DEF View, Cvr
  <1>4. \A f \in ChainedFlush : f.version <= Made => f \in RowFlush
    BY <1>2 DEF ChainedFlush, RowFlush
  <1>5. instance.version \in Versions /\ rowsVersion \in Versions
    BY <1>2 DEF CountInv, Shapes, DbShape, VersionsCounted
  <1>6. cvr \in [Sessions -> Cvr] /\ before \in [Sessions -> Cvr]
    BY <1>3 DEF CountInv, Shapes, SessionsShape, VersionsCounted
  <1>7. seed \in [Nodes -> Cvr \cup {NoSeed}]
    BY <1>3 DEF CountInv, Shapes, SessionsShape, VersionsCounted
  <1>8. queue \in [Nodes -> Seq(RowFlush)]
    <2>1. ASSUME NEW n \in Nodes
          PROVE  queue[n] \in Seq(RowFlush)
      <3>1. queue[n] \in Seq(ChainedFlush)
        BY DEF CountInv, Shapes, RestShape
      <3>2. \A i \in 1..Len(queue[n]) : queue[n][i] \in RowFlush
        BY <1>4, <3>1 DEF CountInv, VersionsCounted
      <3> QED
        BY <3>1, <3>2
    <2> QED
      BY <2>1 DEF CountInv, Shapes, RestShape
  <1> QED
    BY <1>5, <1>6, <1>7, <1>8
    DEF CountInv, Shapes, DbShape, SessionsShape, RestShape, TypeOK, Versions

\* What a chain is made of.
LEMMA ChainTypes ==
    ASSUME NEW q \in Seq(ChainedFlush)
    PROVE  /\ Len(q) \in Nat
           /\ \A i \in 1..Len(q) : /\ q[i] \in ChainedFlush
                                   /\ q[i].version \in Nat
                                   /\ q[i].keys \subseteq Keys
                                   /\ q[i].rows \in [Keys -> Stamps]
  <1>1. Len(q) \in Nat /\ \A i \in 1..Len(q) : q[i] \in ChainedFlush
    OBVIOUS
  <1>2. \A f \in ChainedFlush : /\ f.version \in Nat
                                /\ f.keys \subseteq Keys
                                /\ f.rows \in [Keys -> Stamps]
    BY DEF ChainedFlush
  <1> QED
    BY <1>1, <1>2

LEMMA ChainTail ==
    ASSUME NEW q \in Seq(ChainedFlush), q # <<>>
    PROVE  /\ Len(q) \in Nat /\ Len(q) >= 1
           /\ Head(q) = q[1]
           /\ Len(Tail(q)) = Len(q) - 1
           /\ \A i \in 1..Len(Tail(q)) : Tail(q)[i] = q[i + 1] /\ i + 1 \in 1..Len(q)
  OBVIOUS

LEMMA ChainAppend ==
    ASSUME NEW q \in Seq(ChainedFlush), NEW f \in ChainedFlush
    PROVE  /\ Len(q) \in Nat
           /\ Len(Append(q, f)) = Len(q) + 1
           /\ \A i \in 1..Len(q) : Append(q, f)[i] = q[i]
           /\ Append(q, f)[Len(q) + 1] = f
  OBVIOUS

LEMMA EmptyView == EmptyCvr \in View /\ EmptyCvr.version = 0 /\ NoRows \in [Keys -> Stamps]
  BY DEF EmptyCvr, View, NoRows, Stamps

LEMMA InitCounted ==
    ASSUME Init
    PROVE  CountInv
  <1>1. /\ stamp \in Stamps /\ stamp \in Nat
        /\ instance \in [present : BOOLEAN, version : Nat,
                         owner : Nodes \cup {NoOne}, grantedAt : Times,
                         lastActive : Times, deleted : BOOLEAN]
        /\ instance.version = stamp
    <2>1. PICK owner \in Nodes :
            instance = IF NewGroup THEN NoInstance
                       ELSE [NoInstance EXCEPT !.present = TRUE, !.version = 1,
                                               !.owner = owner]
      BY DEF Init
    <2>2. CASE NewGroup
      BY <2>1, <2>2 DEF Init, NoInstance, Stamps, Times
    <2>3. CASE ~NewGroup
      <3>1. instance = [present |-> TRUE, version |-> 1, owner |-> owner,
                        grantedAt |-> 0, lastActive |-> 0, deleted |-> FALSE]
        BY <2>1, <2>3 DEF NoInstance
      <3>2. stamp = 1 /\ 1 \in Stamps /\ 0 \in Times
        BY <3>1 DEF Init, Stamps, Times
      <3> QED
        BY <3>1, <3>2
    <2> QED
      BY <2>2, <2>3
  <1>2. DbShape
    BY <1>1 DEF Init, DbShape, Stamps
  <1>3. SessionsShape
    <2>1. /\ transition \in [Sessions -> BOOLEAN]
          /\ handle \in [Sessions -> BOOLEAN]
      BY Zenon DEF Init
    <2>2. seed \in [Nodes -> View \cup {NoSeed}]
      BY Zenon DEF Init
    <2>3. cvr \in [Sessions -> View] /\ before \in [Sessions -> View]
      BY EmptyView DEF Init
    <2> QED
      BY <2>1, <2>2, <2>3 DEF Init, SessionsShape, States, Times, Stamps
  <1>4. RestShape
    <2>1. stray \in BOOLEAN /\ kept \in BOOLEAN
      BY Zenon DEF Init
    <2>2. queue \in [Nodes -> Seq(ChainedFlush)]
      BY DEF Init
    <2> QED
      BY <1>1, <2>1, <2>2 DEF Init, RestShape, Times
  <1>5. StampedTransitions
    BY DEF Init, StampedTransitions, Stamped
  <1>6. Made = stamp
    <2>1. Ahead = {}
      BY DEF Init, Ahead
    <2> QED
      BY <1>1, <2>1, FS_EmptySet DEF Made
  <1>7. VersionsCounted
    <2>1. \A s \in Sessions : cvr[s].version <= Made /\ before[s].version <= Made
      BY <1>1, <1>6, EmptyView DEF Init
    <2>2. \A n \in Nodes : seed[n].version <= Made
      BY <1>1, <1>6 DEF Init, NoSeed, EmptyCvr
    <2> QED
      BY <1>1, <1>6, <2>1, <2>2 DEF Init, VersionsCounted
  <1> QED
    BY <1>2, <1>3, <1>4, <1>5, <1>7 DEF CountInv, Shapes

-----------------------------------------------------------------------------
(* Shapes are kept                                                         *)

LEMMA EndShape ==
    ASSUME SessionsShape, NEW ended, End(ended)
    PROVE  SessionsShape'
  <1>1. /\ transition' \in [Sessions -> BOOLEAN]
        /\ handle' \in [Sessions -> BOOLEAN]
    BY Zenon DEF SessionsShape, End
  <1>2. /\ st' \in [Sessions -> States]
        /\ connectTime' \in [Sessions -> Times]
        /\ mine' \in [Sessions -> Stamps]
        /\ pending' \in [Sessions -> SUBSET Keys]
        /\ seen' \in [Sessions -> Stamps]
    BY DEF SessionsShape, End, States, Times, Stamps
  <1>3. cvr' \in [Sessions -> View] /\ before' \in [Sessions -> View]
    BY EmptyView DEF SessionsShape, End
  <1>4. seed' \in [Nodes -> View \cup {NoSeed}]
    BY Zenon DEF SessionsShape, End
  <1> QED
    BY <1>1, <1>2, <1>3, <1>4 DEF SessionsShape

LEMMA SlotShape ==
    ASSUME RestShape, NEW n \in Nodes
    PROVE  LatestSlot(n) \in Stamps
  <1>1. queue[n] \in Seq(ChainedFlush)
    BY DEF RestShape
  <1>2. CASE queue[n] = <<>>
    BY <1>2 DEF LatestSlot, Stamps
  <1>3. CASE queue[n] # <<>>
    <2>1. queue[n][Len(queue[n])] \in ChainedFlush
      BY <1>1, <1>3
    <2> QED
      BY <1>3, <2>1 DEF LatestSlot, ChainedFlush
  <1> QED
    BY <1>2, <1>3

LEMMA AfterShape ==
    ASSUME SessionsShape, NEW s \in Sessions, NEW u \in Updates
    PROVE  /\ After(s, u.keys, u.bump) \in View
           /\ After(s, u.keys, u.bump).version = cvr[s].version + u.bump
           /\ u.bump \in 0..1
  <1>1. cvr[s] \in View /\ mine[s] \in Stamps
    BY DEF SessionsShape
  <1>2. u.bump \in 0..1 /\ u.keys \subseteq Keys
    BY DEF Updates
  <1> QED
    BY <1>1, <1>2 DEF After, View

LEMMA FlushShape ==
    ASSUME SessionsShape, NEW s \in Sessions
    PROVE  Flush(s) \in ChainedFlush /\ Flush(s).version = cvr[s].version
  <1>1. cvr[s] \in View /\ mine[s] \in Stamps /\ pending[s] \in SUBSET Keys
    BY DEF SessionsShape
  <1> QED
    BY <1>1 DEF Flush, View, ChainedFlush

LEMMA WrittenShape ==
    ASSUME DbShape, NEW f \in ChainedFlush
    PROVE  Written(f) \in [Keys -> Stamps]
  BY DEF DbShape, Written, ChainedFlush

\* What leaves the database alone keeps its shape, and likewise the rest.
LEMMA SessionOnly ==
    ASSUME Shapes, UNCHANGED <<flags, db, lock, queue, clock, stamp, budgets, history>>
    PROVE  DbShape' /\ RestShape'
  <1>1. DbShape'
    BY DEF Shapes, DbShape, db
  <1>2. RestShape'
    BY DEF Shapes, RestShape, budgets, history
  <1> QED
    BY <1>1, <1>2

LEMMA ConnectShape ==
    ASSUME Shapes, NEW s \in Sessions, Connect(s)
    PROVE  Shapes'
  <1>1. DbShape' /\ RestShape'
    BY SessionOnly DEF Connect
  <1>2. NodeOf[s] \in Nodes /\ LatestSlot(NodeOf[s]) \in Stamps
    BY SlotShape DEF Shapes
  <1>3. SessionsShape'
    <2>0. connectTime' \in [Sessions -> Times]
      BY DEF Connect, Shapes, SessionsShape, RestShape
    <2>1. CASE flags.owned /\ seed[NodeOf[s]] # NoSeed
      <3>1. seed[NodeOf[s]] \in View
        BY <1>2, <2>1 DEF Shapes, SessionsShape
      <3>2. cvr' \in [Sessions -> View]
        BY <2>1, <3>1 DEF Connect, Shapes, SessionsShape
      <3>3. st' \in [Sessions -> States]
        BY <2>1 DEF Connect, Goto, Shapes, SessionsShape, States
      <3> QED
        BY <2>0, <2>1, <3>2, <3>3 DEF Connect, Shapes, SessionsShape, loops
    <2>2. CASE ~(flags.owned /\ seed[NodeOf[s]] # NoSeed)
      <3>1. st' \in [Sessions -> States]
        BY <2>2 DEF Connect, StartLoad, Goto, Shapes, SessionsShape, States
      <3>2. transition' \in [Sessions -> BOOLEAN]
        BY <2>2, Zenon DEF Connect, StartLoad, Shapes, SessionsShape
      <3>3. seen' \in [Sessions -> Stamps]
        BY <1>2, <2>2 DEF Connect, StartLoad, Shapes, SessionsShape
      <3> QED
        BY <2>0, <2>2, <3>1, <3>2, <3>3 DEF Connect, Shapes, SessionsShape, loops
    <2> QED
      BY <2>1, <2>2
  <1> QED
    BY <1>1, <1>3 DEF Shapes

\* A session that moves on and leaves the rest of its state alone.
LEMMA GotoShape ==
    ASSUME SessionsShape, NEW s \in Sessions, NEW state \in States, Goto(s, state)
    PROVE  st' \in [Sessions -> States]
  BY DEF SessionsShape, Goto

LEMMA LoadShape ==
    ASSUME Shapes, NEW s \in Sessions,
           LoadInstance(s) \/ ReadConfig(s) \/ ReadRows(s)
    PROVE  Shapes'
  <1>1. DbShape' /\ RestShape'
    BY SessionOnly DEF LoadInstance, ReadConfig, ReadRows
  <1>2. cvr[s] \in View /\ instance.version \in Nat /\ config \subseteq Stamps
        /\ rows \in [Keys -> Stamps]
    BY DEF Shapes, SessionsShape, DbShape
  <1>3. CASE LoadInstance(s)
    <2>1. st' \in [Sessions -> States]
      BY <1>3 DEF LoadInstance, Goto, Shapes, SessionsShape, States
    <2>2. cvr' = [cvr EXCEPT ![s] = [cvr[s] EXCEPT !.version = instance.version]]
      BY <1>3 DEF LoadInstance
    <2>3. [cvr[s] EXCEPT !.version = instance.version] \in View
      BY <1>2 DEF View
    <2>4. cvr' \in [Sessions -> View]
      BY <2>2, <2>3 DEF Shapes, SessionsShape
    <2>5. seen' \in [Sessions -> Stamps]
      BY <1>3 DEF LoadInstance, Shapes, SessionsShape, Stamps
    <2>6. SessionsShape'
      BY <1>3, <2>1, <2>4, <2>5 DEF LoadInstance, Shapes, SessionsShape, loops
    <2> QED
      BY <1>1, <2>6 DEF Shapes
  <1>4. CASE ReadConfig(s)
    <2>1. st' \in [Sessions -> States]
      BY <1>4 DEF ReadConfig, Goto, Shapes, SessionsShape, States
    <2>2. cvr' = [cvr EXCEPT ![s] = [cvr[s] EXCEPT !.config = config]]
      BY <1>4 DEF ReadConfig
    <2>3. [cvr[s] EXCEPT !.config = config] \in View
      BY <1>2 DEF View
    <2>4. cvr' \in [Sessions -> View]
      BY <2>2, <2>3 DEF Shapes, SessionsShape
    <2>6. SessionsShape'
      BY <1>4, <2>1, <2>4 DEF ReadConfig, Shapes, SessionsShape, loops
    <2> QED
      BY <1>1, <2>6 DEF Shapes
  <1>5. CASE ReadRows(s)
    <2> DEFINE loaded == [cvr[s] EXCEPT !.rows = rows]
    <2>1. st' \in [Sessions -> States]
      BY <1>5 DEF ReadRows, Goto, Shapes, SessionsShape, States
    <2>3. loaded \in View
      BY <1>2 DEF View
    <2>2. /\ cvr' = [cvr EXCEPT ![s] = IF transition[s] \/ flags.owned
                                       THEN loaded ELSE EmptyCvr]
          /\ seed' = IF flags.owned THEN [seed EXCEPT ![NodeOf[s]] = loaded] ELSE seed
      BY <1>5 DEF ReadRows
    <2> HIDE DEF loaded
    <2>4. cvr' \in [Sessions -> View]
      BY <2>2, <2>3, EmptyView DEF Shapes, SessionsShape
    <2>5. seed' \in [Nodes -> View \cup {NoSeed}]
      BY <2>2, <2>3 DEF Shapes, SessionsShape
    <2>6. SessionsShape'
      BY <1>5, <2>1, <2>4, <2>5 DEF ReadRows, Shapes, SessionsShape
    <2> QED
      BY <1>1, <2>6 DEF Shapes
  <1> QED
    BY <1>3, <1>4, <1>5

LEMMA ClaimShape ==
    ASSUME Shapes, NEW s \in Sessions, ClaimOwnership(s)
    PROVE  Shapes'
  <1>1. NodeOf[s] \in Nodes /\ connectTime[s] \in Times
    BY DEF Shapes, SessionsShape
  <1>2. instance' \in [present : BOOLEAN, version : Nat,
                       owner : Nodes \cup {NoOne}, grantedAt : Times,
                       lastActive : Times, deleted : BOOLEAN]
    BY <1>1 DEF ClaimOwnership, Shapes, DbShape
  <1>3. st' \in [Sessions -> States]
    BY DEF ClaimOwnership, Goto, Shapes, SessionsShape, States
  <1>4. DbShape'
    BY <1>2 DEF ClaimOwnership, Shapes, DbShape
  <1>5. SessionsShape'
    BY <1>3 DEF ClaimOwnership, Shapes, SessionsShape, loops
  <1>6. RestShape'
    BY DEF ClaimOwnership, Shapes, RestShape, budgets, history
  <1> QED
    BY <1>4, <1>5, <1>6 DEF Shapes

LEMMA LoopShape ==
    ASSUME Shapes, NEW s \in Sessions,
           SpawnLoop(s) \/ ReleaseLoop(s) \/ LoadFails(s) \/ Disconnect(s)
    PROVE  Shapes'
  <1>1. DbShape' /\ RestShape'
    BY SessionOnly DEF SpawnLoop, ReleaseLoop, LoadFails, Disconnect
  <1>2. CASE End({s})
    BY <1>1, <1>2, EndShape DEF Shapes
  <1>3. CASE SpawnLoop(s) /\ ~End({s})
    <2>1. st' \in [Sessions -> States]
      BY <1>3 DEF SpawnLoop, Goto, Shapes, SessionsShape, States
    <2>2. handle' \in [Sessions -> BOOLEAN]
      BY <1>3, Zenon DEF SpawnLoop, Shapes, SessionsShape
    <2>3. SessionsShape'
      BY <1>3, <2>1, <2>2 DEF SpawnLoop, Shapes, SessionsShape
    <2> QED
      BY <1>1, <2>3 DEF Shapes
  <1>4. CASE ReleaseLoop(s)
    <2>2. handle' \in [Sessions -> BOOLEAN]
      BY <1>4, Zenon DEF ReleaseLoop, Shapes, SessionsShape
    <2>3. SessionsShape'
      BY <1>4, <2>2 DEF ReleaseLoop, Shapes, SessionsShape
    <2> QED
      BY <1>1, <2>3 DEF Shapes
  <1> QED
    BY <1>2, <1>3, <1>4 DEF SpawnLoop, LoadFails, Disconnect

LEMMA BeginShape ==
    ASSUME Shapes, NEW s \in Sessions, BeginTransition(s)
    PROVE  Shapes'
  <1>1. stamp + 1 \in Stamps
    BY DEF BeginTransition, Shapes, RestShape, Stamps
  <1>2. DbShape'
    BY DEF BeginTransition, Shapes, DbShape, db
  <1>3. RestShape'
    BY <1>1 DEF BeginTransition, Shapes, RestShape, budgets, history
  <1>4. NodeOf[s] \in Nodes /\ LatestSlot(NodeOf[s]) \in Stamps
    BY SlotShape DEF Shapes
  <1>5. st' \in [Sessions -> States]
    BY DEF BeginTransition, StartLoad, Goto, Shapes, SessionsShape, States
  <1>6. transition' \in [Sessions -> BOOLEAN]
    BY Zenon DEF BeginTransition, StartLoad, Shapes, SessionsShape
  <1>7. seen' \in [Sessions -> Stamps]
    BY <1>4 DEF BeginTransition, StartLoad, Shapes, SessionsShape
  <1>8. mine' \in [Sessions -> Stamps]
    BY <1>1 DEF BeginTransition, Shapes, SessionsShape
  <1>9. SessionsShape'
    BY <1>5, <1>6, <1>7, <1>8 DEF BeginTransition, Shapes, SessionsShape, loops
  <1> QED
    BY <1>2, <1>3, <1>9 DEF Shapes

LEMMA FlushBeginShape ==
    ASSUME Shapes, NEW s \in Sessions, FlushBegin(s)
    PROVE  Shapes'
  <1>1. PICK u \in Updates : Prepare(s, u.keys, u.bump)
    BY DEF FlushBegin
  <1>2. After(s, u.keys, u.bump) \in View /\ u.keys \subseteq Keys
    BY AfterShape DEF Shapes, Updates
  <1>3. cvr' \in [Sessions -> View] /\ before' \in [Sessions -> View]
    BY <1>1, <1>2 DEF Prepare, Shapes, SessionsShape
  <1>4. pending' \in [Sessions -> SUBSET Keys]
    BY <1>1, <1>2 DEF Prepare, Shapes, SessionsShape
  <1>5. st' \in [Sessions -> States]
    BY DEF FlushBegin, Goto, Shapes, SessionsShape, States
  <1>6. SessionsShape'
    BY <1>3, <1>4, <1>5 DEF FlushBegin, Shapes, SessionsShape, loops
  <1>7. DbShape'
    BY DEF FlushBegin, Shapes, DbShape, db
  <1>8. lock' \in Sessions \cup {NoOne}
    BY DEF FlushBegin, Shapes, RestShape, RowLock
  <1>9. RestShape'
    BY <1>8 DEF FlushBegin, Shapes, RestShape, budgets, history
  <1> QED
    BY <1>6, <1>7, <1>9 DEF Shapes
LEMMA FlushFailsShape ==
    ASSUME Shapes, NEW s \in Sessions, FlushLosesCas(s) \/ FlushRefused(s)
    PROVE  Shapes'
  <1>1. DbShape'
    BY DEF FlushLosesCas, FlushRefused, Shapes, DbShape, db
  <1>2. RestShape'
    <2>0. \/ flushErrors' = flushErrors
          \/ flushErrors < MaxFlushErrors /\ flushErrors' = flushErrors + 1
      BY Zenon DEF FlushLosesCas, FlushRefused, budgets
    <2>1. flushErrors' \in 0..MaxFlushErrors
      BY <2>0 DEF Shapes, RestShape
    <2> QED
      BY <2>1 DEF FlushLosesCas, FlushRefused, Shapes, RestShape, budgets, history
  <1>3. CASE End({s})
    BY <1>1, <1>2, <1>3, EndShape DEF Shapes
  <1>4. CASE ~End({s})
    <2>0. /\ StartLoad(s, TRUE)
          /\ cvr' = [cvr EXCEPT ![s] = EmptyCvr]
          /\ UNCHANGED <<connectTime, mine, before, pending, loops>>
      BY <1>4, Zenon DEF FlushLosesCas, FlushRefused
    <2>1. NodeOf[s] \in Nodes /\ LatestSlot(NodeOf[s]) \in Stamps
      BY SlotShape DEF Shapes
    <2>2. st' \in [Sessions -> States]
      BY <2>0 DEF StartLoad, Goto, Shapes, SessionsShape, States
    <2>3. transition' \in [Sessions -> BOOLEAN]
      BY <2>0, Zenon DEF StartLoad, Shapes, SessionsShape
    <2>4. seen' \in [Sessions -> Stamps]
      BY <2>0, <2>1 DEF StartLoad, Shapes, SessionsShape
    <2>5. cvr' \in [Sessions -> View]
      BY <2>0, EmptyView DEF Shapes, SessionsShape
    <2>6. SessionsShape'
      BY <2>0, <2>2, <2>3, <2>4, <2>5 DEF Shapes, SessionsShape, loops
    <2> QED
      BY <1>1, <1>2, <2>6 DEF Shapes
  <1> QED
    BY <1>3, <1>4

LEMMA FinishShape ==
    ASSUME SessionsShape, NEW s \in Sessions, Finish(s)
    PROVE  /\ st' \in [Sessions -> States]
           /\ transition' \in [Sessions -> BOOLEAN]
           /\ mine' \in [Sessions -> Stamps]
  <1>1. st' \in [Sessions -> States]
    BY DEF SessionsShape, Finish, Goto, States
  <1>2. transition' \in [Sessions -> BOOLEAN]
    BY Zenon DEF SessionsShape, Finish
  <1>3. mine' \in [Sessions -> Stamps]
    BY DEF SessionsShape, Finish, Stamps
  <1> QED
    BY <1>1, <1>2, <1>3

LEMMA RolledBackShape ==
    ASSUME SessionsShape, NEW s \in Sessions, NEW c \in View, NEW desired
    PROVE  /\ RolledBack(s, c, desired) \in View
           /\ RolledBack(s, c, desired).version \in {c.version, cvr[s].version}
  <1>1. cvr[s] \in View
    BY DEF SessionsShape
  <1>2. CASE desired
    BY <1>2 DEF RolledBack
  <1>3. CASE ~desired
    BY <1>1, <1>3 DEF RolledBack, View
  <1> QED
    BY <1>2, <1>3

LEMMA LoopFlushFailsShape ==
    ASSUME Shapes, NEW s \in Sessions, LoopFlushFails(s)
    PROVE  Shapes'
  <1>1. PICK u \in Updates, desired \in {FALSE, handle[s]} :
           /\ cvr' = [cvr EXCEPT ![s] = RolledBack(s, After(s, u.keys, u.bump), desired)]
           /\ pending' = [pending EXCEPT ![s] = @ \cup u.keys]
           /\ kept' = (kept \/ u.keys # {} \/ cvr'[s] # cvr[s])
    BY Zenon DEF LoopFlushFails
  <1>2. RolledBack(s, After(s, u.keys, u.bump), desired) \in View
    BY AfterShape, RolledBackShape DEF Shapes
  <1>3. cvr' \in [Sessions -> View]
    BY <1>1, <1>2 DEF Shapes, SessionsShape
  <1>4. pending' \in [Sessions -> SUBSET Keys]
    BY <1>1 DEF Shapes, SessionsShape, Updates
  <1>5. SessionsShape'
    BY <1>3, <1>4, FinishShape DEF LoopFlushFails, Shapes, SessionsShape, loops
  <1>6. DbShape'
    BY DEF LoopFlushFails, Shapes, DbShape, db
  <1>7. kept' \in BOOLEAN
    BY <1>1, Zenon
  <1>8. flushErrors' \in 0..MaxFlushErrors
    BY DEF LoopFlushFails, Shapes, RestShape
  <1>9. RestShape'
    BY <1>7, <1>8 DEF LoopFlushFails, Shapes, RestShape, budgets, history
  <1> QED
    BY <1>5, <1>6, <1>9 DEF Shapes

\* The fields of the instance's row after a flush.
LEMMA UpsertShape ==
    ASSUME Shapes, NEW s \in Sessions, UpsertInstance(s)
    PROVE  /\ instance' \in [present : BOOLEAN, version : Nat,
                             owner : Nodes \cup {NoOne}, grantedAt : Times,
                             lastActive : Times, deleted : BOOLEAN]
           /\ instance'.version = cvr[s].version
           /\ instance'.deleted = instance.deleted
           /\ instance'.present
  <1>1. NodeOf[s] \in Nodes /\ connectTime[s] \in Times /\ cvr[s] \in View
    BY DEF Shapes, SessionsShape
  <1>2. instance' = [present |-> TRUE, version |-> cvr[s].version,
                     owner |-> NodeOf[s], grantedAt |-> connectTime[s],
                     lastActive |-> connectTime[s], deleted |-> instance.deleted]
    BY DEF UpsertInstance, Shapes, DbShape
  <1>3. instance.deleted \in BOOLEAN
    BY DEF Shapes, DbShape
  <1> QED
    BY <1>1, <1>2, <1>3 DEF View

LEMMA FlushCommitShape ==
    ASSUME Shapes, NEW s \in Sessions, FlushCommit(s)
    PROVE  Shapes'
  <1>1. cvr[s] \in View /\ Flush(s) \in ChainedFlush /\ NodeOf[s] \in Nodes
    BY FlushShape DEF Shapes, SessionsShape
  <1>2. DbShape'
    <2>1. rows' \in [Keys -> Stamps]
      BY <1>1, WrittenShape DEF FlushCommit, Shapes, DbShape
    <2>2. rowsVersion' \in Nat
      BY <1>1 DEF FlushCommit, Shapes, DbShape, View
    <2>3. config' \subseteq Stamps /\ intended' \in [Keys -> Stamps]
      BY <1>1 DEF FlushCommit, Shapes, DbShape, View
    <2> QED
      BY <2>1, <2>2, <2>3, UpsertShape DEF FlushCommit, DbShape
  <1>3. SessionsShape'
    <2>1. cvr' \in [Sessions -> View] /\ before' \in [Sessions -> View]
      BY <1>1, EmptyView DEF FlushCommit, Kept, Shapes, SessionsShape
    <2>2. pending' \in [Sessions -> SUBSET Keys]
      BY DEF FlushCommit, Shapes, SessionsShape
    <2> QED
      BY <2>1, <2>2, FinishShape DEF FlushCommit, Shapes, SessionsShape, loops
  <1>4. RestShape'
    <2>1. queue' \in [Nodes -> Seq(ChainedFlush)]
      <3>1. Append(queue[NodeOf[s]], Flush(s)) \in Seq(ChainedFlush)
        BY <1>1 DEF Shapes, RestShape
      <3>2. \/ queue' = [queue EXCEPT ![NodeOf[s]] = Append(queue[NodeOf[s]], Flush(s))]
            \/ queue' = queue
        BY DEF FlushCommit, Chained
      <3> QED
        BY <3>1, <3>2 DEF Shapes, RestShape
    <2>2. lock' \in Sessions \cup {NoOne}
      BY DEF FlushCommit, Unlock, Shapes, RestShape
    <2> QED
      BY <2>1, <2>2 DEF FlushCommit, Shapes, RestShape, budgets, history
  <1> QED
    BY <1>2, <1>3, <1>4 DEF Shapes

LEMMA DeferredShape ==
    ASSUME CountInv, NEW n \in Nodes, DeferredFlush(n) \/ DeferredFlushFails(n)
    PROVE  Shapes'
  <1>1. /\ queue[n] # <<>> /\ queue[n] \in Seq(ChainedFlush)
        /\ Head(queue[n]) \in ChainedFlush
        /\ Head(queue[n]) \in RowFlush
    <2>1. queue[n] # <<>>
      BY DEF DeferredFlush, DeferredFlushFails
    <2> QED
      BY <2>1, CountedTypes DEF CountInv, Shapes, RestShape, TypeOK
  <1>2. queue' \in [Nodes -> Seq(ChainedFlush)]
    <2>1. Tail(queue[n]) \in Seq(ChainedFlush)
      BY <1>1
    <2> QED
      BY <2>1 DEF DeferredFlush, DeferredFlushFails, CountInv, Shapes, RestShape
  <1>3. SessionsShape'
    BY DEF DeferredFlush, DeferredFlushFails, CountInv, Shapes, SessionsShape, session
  <1>4. CASE DeferredFlush(n)
    <2>1. rows' \in [Keys -> Stamps]
      BY <1>1, <1>4, WrittenShape DEF DeferredFlush, CountInv, Shapes
    <2>2. DbShape'
      BY <1>1, <1>4, <2>1 DEF DeferredFlush, CountInv, Shapes, DbShape, ChainedFlush
    <2>3. stray' \in BOOLEAN
      BY <1>4, Zenon DEF DeferredFlush
    <2>4. RestShape'
      BY <1>2, <1>4, <2>3 DEF DeferredFlush, CountInv, Shapes, RestShape, budgets
    <2> QED
      BY <1>3, <2>2, <2>4 DEF Shapes
  <1>5. CASE DeferredFlushFails(n)
    <2>1. DbShape'
      BY <1>5 DEF DeferredFlushFails, CountInv, Shapes, DbShape, db
    <2>2. lost' \subseteq RowFlush
      BY <1>1, <1>5 DEF DeferredFlushFails, CountInv, Shapes, RestShape
    <2>3. rowErrors' \in 0..MaxRowErrors
      BY <1>5 DEF DeferredFlushFails, CountInv, Shapes, RestShape
    <2>4. RestShape'
      BY <1>2, <1>5, <2>2, <2>3 DEF DeferredFlushFails, CountInv, Shapes, RestShape
    <2> QED
      BY <1>3, <2>1, <2>4 DEF Shapes
  <1> QED
    BY <1>4, <1>5

LEMMA CrashShape ==
    ASSUME CountInv, NEW n \in Nodes, Crash(n)
    PROVE  Shapes'
  <1>1. DbShape'
    BY DEF Crash, CountInv, Shapes, DbShape, db
  <1>2. SessionsShape'
    BY EndShape DEF Crash, CountInv, Shapes
  <1>3. lost' \subseteq RowFlush
    <2>1. queue[n] \in Seq(RowFlush) /\ lost \subseteq RowFlush
      BY CountedTypes DEF TypeOK
    <2>2. \A i \in 1..Len(queue[n]) : queue[n][i] \in RowFlush
      BY <2>1
    <2> QED
      BY <2>1, <2>2, Zenon DEF Crash
  <1>4. queue' \in [Nodes -> Seq(ChainedFlush)]
    BY DEF Crash, CountInv, Shapes, RestShape
  <1>5. lock' \in Sessions \cup {NoOne} /\ crashes' \in 0..MaxCrashes
    BY DEF Crash, CountInv, Shapes, RestShape
  <1>6. RestShape'
    BY <1>3, <1>4, <1>5 DEF Crash, CountInv, Shapes, RestShape
  <1> QED
    BY <1>1, <1>2, <1>6 DEF Shapes

LEMMA PurgeShape ==
    ASSUME Shapes, Purge
    PROVE  Shapes'
  <1>1. SessionsShape' /\ RestShape'
    <2>1. SessionsShape'
      BY DEF Purge, Shapes, SessionsShape, session
    <2>2. RestShape'
      BY DEF Purge, Shapes, RestShape, budgets, history
    <2> QED
      BY <2>1, <2>2
  <1>2. instance' \in {NoInstance, Tombstone, instance}
    BY Zenon DEF Purge
  <1>3. instance' \in [present : BOOLEAN, version : Nat,
                       owner : Nodes \cup {NoOne}, grantedAt : Times,
                       lastActive : Times, deleted : BOOLEAN]
    <2>1. NoInstance \in [present : BOOLEAN, version : Nat,
                          owner : Nodes \cup {NoOne}, grantedAt : Times,
                          lastActive : Times, deleted : BOOLEAN]
      BY DEF NoInstance, Times
    <2>2. Tombstone \in [present : BOOLEAN, version : Nat,
                         owner : Nodes \cup {NoOne}, grantedAt : Times,
                         lastActive : Times, deleted : BOOLEAN]
      <3> DEFINE r == [instance EXCEPT !.deleted = TRUE]
      <3>1. r \in [present : BOOLEAN, version : Nat,
                   owner : Nodes \cup {NoOne}, grantedAt : Times,
                   lastActive : Times, deleted : BOOLEAN]
        BY DEF Shapes, DbShape
      <3>2. Tombstone = [r EXCEPT !.version = 0, !.owner = NoOne, !.grantedAt = 0]
        BY Zenon DEF Tombstone
      <3>3. 0 \in Times
        BY DEF Times
      <3> HIDE DEF r
      <3>4. Tombstone = [present |-> r.present, version |-> 0, owner |-> NoOne,
                         grantedAt |-> 0, lastActive |-> r.lastActive,
                         deleted |-> r.deleted]
        BY <3>1, <3>2
      <3> QED
        BY <3>1, <3>3, <3>4
    <2> QED
      BY <1>2, <2>1, <2>2 DEF Shapes, DbShape
  <1>4. DbShape'
    BY <1>3, EmptyView DEF Purge, Shapes, DbShape
  <1> QED
    BY <1>1, <1>4 DEF Shapes

LEMMA TickShape ==
    ASSUME Shapes, Tick
    PROVE  Shapes'
  <1>1. DbShape'
    BY DEF Tick, Shapes, DbShape, db
  <1>2. SessionsShape'
    BY DEF Tick, Shapes, SessionsShape, session
  <1>3. RestShape'
    BY DEF Tick, Shapes, RestShape, budgets, history, Times
  <1> QED
    BY <1>1, <1>2, <1>3 DEF Shapes

LEMMA StutterShape ==
    ASSUME Shapes, UNCHANGED vars
    PROVE  Shapes'
  <1>1. DbShape'
    BY DEF vars, Shapes, DbShape, db
  <1>2. SessionsShape'
    BY DEF vars, Shapes, SessionsShape, session
  <1>3. RestShape'
    BY DEF vars, Shapes, RestShape, budgets, history
  <1> QED
    BY <1>1, <1>2, <1>3 DEF Shapes

\* Every step keeps the shapes.
LEMMA NextShape ==
    ASSUME CountInv, [Next]_vars
    PROVE  Shapes'
  <1> USE DEF CountInv
  <1>1. ASSUME NEW s \in Sessions, Step(s)
        PROVE  Shapes'
    BY <1>1, ConnectShape, LoadShape, LoopShape, ClaimShape, BeginShape,
       FlushBeginShape, FlushFailsShape, LoopFlushFailsShape, FlushCommitShape
    DEF Step
  <1>2. ASSUME NEW n \in Nodes, DeferredFlush(n) \/ DeferredFlushFails(n) \/ Crash(n)
        PROVE  Shapes'
    BY <1>2, DeferredShape, CrashShape
  <1> QED
    BY <1>1, <1>2, TickShape, PurgeShape, StutterShape DEF Next

-----------------------------------------------------------------------------
(* Transitions are counted                                                 *)

LEMMA EndStamped ==
    ASSUME SessionsShape, StampedTransitions, NEW ended, End(ended)
    PROVE  StampedTransitions' /\ Ahead' \subseteq Ahead
  <1>1. ASSUME NEW r \in Sessions, r \in ended
        PROVE  ~transition'[r] /\ mine'[r] = 0 /\ st'[r] = "off"
    BY <1>1 DEF End
  <1>2. ASSUME NEW r \in Sessions, r \notin ended
        PROVE  /\ transition'[r] <=> transition[r]
               /\ mine'[r] = mine[r]
               /\ st'[r] = st[r]
    BY <1>2 DEF End
  <1>3. ASSUME NEW r \in Sessions
        PROVE  Stamped(r)'
    BY <1>1, <1>2 DEF StampedTransitions, Stamped
  <1> QED
    BY <1>1, <1>2, <1>3 DEF StampedTransitions, Ahead

\* A step of one session leaves the others as they are.
LEMMA MoveStamped ==
    ASSUME SessionsShape, StampedTransitions, NEW s \in Sessions,
           \A r \in Sessions : r # s => /\ transition'[r] <=> transition[r]
                                        /\ mine'[r] = mine[r]
                                        /\ st'[r] = st[r],
           Stamped(s)'
    PROVE  StampedTransitions'
  BY DEF StampedTransitions, Stamped

\* Steps that neither start nor end a transition.
LEMMA QuietStamped ==
    ASSUME Shapes, StampedTransitions, NEW s \in Sessions,
           \/ Connect(s) \/ LoadInstance(s) \/ ClaimOwnership(s) \/ ReadConfig(s)
           \/ ReadRows(s) \/ SpawnLoop(s) \/ ReleaseLoop(s) \/ LoadFails(s)
           \/ Disconnect(s) \/ FlushLosesCas(s) \/ FlushRefused(s)
    PROVE  StampedTransitions' /\ Ahead' \subseteq Ahead /\ stamp' = stamp
  <1>0. stamp' = stamp /\ Stamped(s)
    BY DEF Connect, LoadInstance, ClaimOwnership, ReadConfig, ReadRows, SpawnLoop,
           ReleaseLoop, LoadFails, Disconnect, FlushLosesCas, FlushRefused,
           StampedTransitions
  <1>1. CASE End({s})
    BY <1>0, <1>1, EndStamped DEF Shapes
  <1>2. CASE ~End({s})
    <2>1. mine' = mine
      BY <1>2 DEF Connect, LoadInstance, ClaimOwnership, ReadConfig, ReadRows, SpawnLoop,
           ReleaseLoop, LoadFails, Disconnect, FlushLosesCas, FlushRefused
    <2>2. \A r \in Sessions : r # s => transition'[r] = transition[r]
      BY <1>2, Zenon
      DEF Connect, LoadInstance, ClaimOwnership, ReadConfig, ReadRows, SpawnLoop,
          ReleaseLoop, LoadFails, Disconnect, FlushLosesCas, FlushRefused, StartLoad,
          Shapes, SessionsShape
    <2>3. \A r \in Sessions : r # s => st'[r] = st[r]
      BY <1>2
      DEF Connect, LoadInstance, ClaimOwnership, ReadConfig, ReadRows, SpawnLoop,
          ReleaseLoop, LoadFails, Disconnect, FlushLosesCas, FlushRefused, StartLoad,
          Goto, Shapes, SessionsShape
    <2>4. Stamped(s)' /\ (st'[s] = "write" <=> st[s] = "write")
      <3>1. CASE Connect(s)
        BY <1>0, <1>2, <2>1, <3>1 DEF Connect, StartLoad, Goto, Stamped, Shapes, SessionsShape
      <3>2. CASE LoadInstance(s) \/ ClaimOwnership(s) \/ ReadConfig(s) \/ ReleaseLoop(s)
        BY <1>0, <1>2, <2>1, <3>2
        DEF LoadInstance, ClaimOwnership, ReadConfig, ReleaseLoop, Goto, Stamped,
            Shapes, SessionsShape
      <3>3. CASE ReadRows(s)
        BY <1>0, <1>2, <2>1, <3>3 DEF ReadRows, Goto, Stamped, Shapes, SessionsShape
      <3>4. CASE SpawnLoop(s)
        BY <1>0, <1>2, <2>1, <3>4 DEF SpawnLoop, Goto, Stamped, Shapes, SessionsShape
      <3>5. CASE FlushLosesCas(s)
        BY <1>0, <1>2, <2>1, <3>5
        DEF FlushLosesCas, StartLoad, Goto, Stamped, Shapes, SessionsShape
      <3> QED
        BY <1>2, <3>1, <3>2, <3>3, <3>4, <3>5 DEF LoadFails, Disconnect, FlushRefused
    <2>5. StampedTransitions'
      BY <2>1, <2>2, <2>3, <2>4, MoveStamped DEF Shapes
    <2>6. Ahead' \subseteq Ahead
      BY <2>1, <2>3, <2>4 DEF Ahead
    <2> QED
      BY <1>0, <2>5, <2>6
  <1> QED
    BY <1>1, <1>2

LEMMA BeginStamped ==
    ASSUME Shapes, StampedTransitions, NEW s \in Sessions, BeginTransition(s)
    PROVE  /\ StampedTransitions'
           /\ stamp' = stamp + 1 /\ s \notin Ahead /\ Ahead' = Ahead \cup {s}
  <1>1. /\ mine'[s] = stamp + 1 /\ mine'[s] # 0
        /\ \A r \in Sessions : r # s => mine'[r] = mine[r] /\ st'[r] = st[r]
        /\ st'[s] \in {"flush", "load"}
        /\ stamp' = stamp + 1
    BY DEF BeginTransition, StartLoad, Goto, Shapes, SessionsShape, RestShape, Stamps
  <1>2. /\ transition'[s]
        /\ \A r \in Sessions : r # s => transition'[r] = transition[r]
    BY Zenon DEF BeginTransition, StartLoad, Shapes, SessionsShape
  <1>3. mine[s] = 0
    BY DEF BeginTransition, StampedTransitions, Stamped
  <1>4. Stamped(s)'
    BY <1>1, <1>2 DEF Stamped
  <1>5. StampedTransitions'
    BY <1>1, <1>2, <1>4, MoveStamped DEF Shapes
  <1> QED
    BY <1>1, <1>3, <1>5 DEF Ahead

LEMMA FlushBeginStamped ==
    ASSUME Shapes, StampedTransitions, NEW s \in Sessions, FlushBegin(s)
    PROVE  /\ StampedTransitions'
           /\ stamp' = stamp /\ s \in Ahead /\ Ahead' = Ahead \ {s}
  <1>1. /\ mine' = mine /\ transition' = transition /\ stamp' = stamp
        /\ \A r \in Sessions : r # s => st'[r] = st[r]
        /\ st'[s] = "write" /\ st[s] = "flush"
    BY DEF FlushBegin, Goto, Shapes, SessionsShape
  <1>2. mine[s] # 0 /\ Stamped(s)'
    BY <1>1 DEF StampedTransitions, Stamped
  <1>3. StampedTransitions'
    BY <1>1, <1>2, MoveStamped DEF Shapes
  <1> QED
    BY <1>1, <1>2, <1>3 DEF Ahead

\* A session that finishes its transition has no stamp any more.
LEMMA FinishStamped ==
    ASSUME Shapes, StampedTransitions, NEW s \in Sessions, Finish(s)
    PROVE  StampedTransitions' /\ Ahead' = Ahead \ {s}
  <1>1. /\ mine'[s] = 0 /\ st'[s] = "idle"
        /\ \A r \in Sessions : r # s => mine'[r] = mine[r] /\ st'[r] = st[r]
    BY DEF Finish, Goto, Shapes, SessionsShape, Stamps
  <1>2. /\ ~transition'[s]
        /\ \A r \in Sessions : r # s => transition'[r] = transition[r]
    BY Zenon DEF Finish, Shapes, SessionsShape
  <1>3. Stamped(s)'
    BY <1>1, <1>2 DEF Stamped
  <1>4. StampedTransitions'
    BY <1>1, <1>2, <1>3, MoveStamped DEF Shapes
  <1> QED
    BY <1>1, <1>4 DEF Ahead

LEMMA IdleStamped ==
    ASSUME StampedTransitions, UNCHANGED session, stamp' = stamp
    PROVE  StampedTransitions' /\ Ahead' = Ahead
  BY DEF StampedTransitions, Stamped, Ahead, session

-----------------------------------------------------------------------------
(* Versions are counted                                                    *)

LEMMA NoSeedVersion == NoSeed.version = -1
  BY DEF NoSeed, EmptyCvr

\* A step that makes copies only of what was counted, and moves the count up.
LEMMA CountedCopies ==
    ASSUME Shapes, VersionsCounted, Made \in Int, Made' \in Int, Made' >= Made,
           instance'.version = instance.version \/ instance'.version = 0,
           rowsVersion' = rowsVersion \/ rowsVersion' = 0,
           \A s \in Sessions : \/ cvr'[s].version = cvr[s].version
                               \/ cvr'[s].version = instance.version
                               \/ cvr'[s].version = seed[NodeOf[s]].version
                               \/ cvr'[s].version = 0,
           \A s \in Sessions : before'[s].version = before[s].version
                               \/ before'[s].version = 0,
           \A n \in Nodes : \/ seed'[n].version = seed[n].version
                            \/ seed'[n] = NoSeed
                            \/ \E s \in Sessions : seed'[n].version = cvr[s].version,
           queue' = queue
    PROVE  VersionsCounted'
  <1>1. 0 <= Made /\ instance.version \in Nat /\ rowsVersion \in Nat
    BY DEF Shapes, DbShape, VersionsCounted
  <1>2. /\ \A s \in Sessions : cvr[s].version \in Nat /\ before[s].version \in Nat
        /\ \A n \in Nodes : seed[n].version \in Int
    BY NoSeedVersion DEF Shapes, SessionsShape, View
  <1>3. instance'.version <= Made' /\ rowsVersion' <= Made'
    BY <1>1 DEF VersionsCounted
  <1>4. \A s \in Sessions : cvr'[s].version <= Made' /\ before'[s].version <= Made'
    <2> TAKE s \in Sessions
    <2>1. NodeOf[s] \in Nodes
      OBVIOUS
    <2> QED
      BY <1>1, <1>2, <2>1 DEF VersionsCounted
  <1>5. \A n \in Nodes : seed'[n].version <= Made'
    BY <1>1, <1>2, NoSeedVersion DEF VersionsCounted
  <1>6. \A n \in Nodes : \A i \in 1..Len(queue'[n]) : queue'[n][i].version <= Made'
    <2> TAKE n \in Nodes
    <2>1. queue[n] \in Seq(ChainedFlush)
      BY DEF Shapes, RestShape
    <2>2. \A i \in 1..Len(queue[n]) : queue[n][i].version \in Nat
      BY <2>1, ChainTypes
    <2> QED
      BY <2>2 DEF VersionsCounted
  <1> QED
    BY <1>3, <1>4, <1>5, <1>6 DEF VersionsCounted

LEMMA EndCopies ==
    ASSUME Shapes, NEW ended, End(ended)
    PROVE  /\ \A s \in Sessions : cvr'[s] = cvr[s] \/ cvr'[s] = EmptyCvr
           /\ \A s \in Sessions : before'[s] = before[s] \/ before'[s] = EmptyCvr
           /\ \A n \in Nodes : seed'[n] = seed[n] \/ seed'[n] = NoSeed
  BY DEF End

LEMMA QuietCounted ==
    ASSUME CountInv, NEW s \in Sessions,
           \/ Connect(s) \/ LoadInstance(s) \/ ClaimOwnership(s) \/ ReadConfig(s)
           \/ ReadRows(s) \/ SpawnLoop(s) \/ ReleaseLoop(s) \/ LoadFails(s)
           \/ Disconnect(s) \/ FlushLosesCas(s) \/ FlushRefused(s)
    PROVE  StampedTransitions' /\ VersionsCounted'
  <1>1. StampedTransitions' /\ Ahead' \subseteq Ahead /\ stamp' = stamp
    BY QuietStamped DEF CountInv
  <1>2. Made' \in Int /\ Made \in Int /\ Made' >= Made
    BY <1>1, MadeKept DEF CountInv
  <1>3. Shapes /\ VersionsCounted /\ SessionsShape
    BY DEF CountInv, Shapes
  <1>4. rowsVersion' = rowsVersion /\ queue' = queue /\ instance'.version = instance.version
    <2>1. CASE ClaimOwnership(s)
      BY <2>1 DEF ClaimOwnership, CountInv, Shapes, DbShape
    <2>2. CASE ~ClaimOwnership(s)
      BY <2>2 DEF Connect, LoadInstance, ReadConfig, ReadRows, SpawnLoop,
           ReleaseLoop, LoadFails, Disconnect, FlushLosesCas, FlushRefused, db
    <2> QED
      BY <2>1, <2>2
  <1>5. CASE End({s})
    <2>1. /\ \A r \in Sessions : cvr'[r] = cvr[r] \/ cvr'[r] = EmptyCvr
          /\ \A r \in Sessions : before'[r] = before[r] \/ before'[r] = EmptyCvr
          /\ \A n \in Nodes : seed'[n] = seed[n] \/ seed'[n] = NoSeed
      BY <1>3, <1>5, EndCopies
    <2>2. VersionsCounted'
      BY <1>2, <1>3, <1>4, <2>1, EmptyView, CountedCopies
    <2> QED
      BY <1>1, <2>2
  <1>6. CASE ~End({s})
    <2>1. before' = before
      BY <1>6 DEF Connect, LoadInstance, ClaimOwnership, ReadConfig, ReadRows, SpawnLoop,
           ReleaseLoop, LoadFails, Disconnect, FlushLosesCas, FlushRefused
    <2>2. \A r \in Sessions : \/ cvr'[r].version = cvr[r].version
                              \/ cvr'[r].version = instance.version
                              \/ cvr'[r].version = seed[NodeOf[r]].version
                              \/ cvr'[r].version = 0
      <3>0. cvr[s] \in View /\ instance.version \in Nat
        BY DEF CountInv, Shapes, SessionsShape, DbShape
      <3>1. CASE cvr' = cvr
        BY <3>1
      <3>2. CASE Connect(s)
        <4>1. cvr' = [cvr EXCEPT ![s] = seed[NodeOf[s]]] \/ cvr' = cvr
          BY <3>2, Zenon DEF Connect
        <4> QED
          BY <1>3, <4>1 DEF SessionsShape
      <3>3. CASE LoadInstance(s)
        BY <1>3, <3>0, <3>3 DEF LoadInstance, SessionsShape, View
      <3>4. CASE ReadConfig(s)
        BY <1>3, <3>0, <3>4 DEF ReadConfig, SessionsShape, View
      <3>5. CASE ReadRows(s)
        BY <1>3, <3>0, <3>5, EmptyView DEF ReadRows, SessionsShape, View
      <3>6. CASE FlushLosesCas(s)
        BY <1>3, <1>6, <3>6, EmptyView DEF FlushLosesCas, SessionsShape
      <3> QED
        BY <1>6, <3>1, <3>2, <3>3, <3>4, <3>5, <3>6
        DEF ClaimOwnership, SpawnLoop, ReleaseLoop, LoadFails, Disconnect, FlushRefused
    <2>3. \A n \in Nodes : \/ seed'[n].version = seed[n].version
                           \/ \E r \in Sessions : seed'[n].version = cvr[r].version
      <3>1. CASE seed' = seed
        BY <3>1
      <3>2. CASE ReadRows(s)
        <4>1. cvr[s] \in View
          BY DEF CountInv, Shapes, SessionsShape
        <4>2. [cvr[s] EXCEPT !.rows = rows].version = cvr[s].version
          BY <4>1 DEF View
        <4> QED
          BY <1>3, <3>2, <4>2 DEF ReadRows, SessionsShape
      <3> QED
        BY <1>6, <3>1, <3>2 DEF Connect, LoadInstance, ClaimOwnership, ReadConfig,
           SpawnLoop, ReleaseLoop, LoadFails, Disconnect, FlushLosesCas, FlushRefused, loops
    <2>4. VersionsCounted'
      BY <1>2, <1>3, <1>4, <2>1, <2>2, <2>3, CountedCopies
    <2> QED
      BY <1>1, <2>4
  <1> QED
    BY <1>5, <1>6

LEMMA BeginCounted ==
    ASSUME CountInv, NEW s \in Sessions, BeginTransition(s)
    PROVE  StampedTransitions' /\ VersionsCounted'
  <1>1. /\ StampedTransitions'
        /\ stamp' = stamp + 1 /\ s \notin Ahead /\ Ahead' = Ahead \cup {s}
    BY BeginStamped DEF CountInv
  <1>2. Made' \in Int /\ Made \in Int /\ Made' >= Made
    BY <1>1, MadeLater DEF CountInv
  <1>3. /\ instance' = instance /\ rowsVersion' = rowsVersion /\ queue' = queue
        /\ cvr' = cvr /\ before' = before /\ seed' = seed
    BY DEF BeginTransition, db, loops
  <1>4. VersionsCounted'
    BY <1>2, <1>3, CountedCopies DEF CountInv
  <1> QED
    BY <1>1, <1>4

\* What makes a version makes the next one.
LEMMA CountedMakes ==
    ASSUME Shapes, VersionsCounted, NEW s \in Sessions,
           Made \in Int, Made' \in Int, Made' = Made + 1,
           instance' = instance, rowsVersion' = rowsVersion, queue' = queue,
           seed' = seed,
           cvr'[s].version \in {cvr[s].version, cvr[s].version + 1},
           \A r \in Sessions : r # s => cvr'[r] = cvr[r],
           \A r \in Sessions : before'[r] = before[r] \/ before'[r] = cvr[r]
    PROVE  VersionsCounted'
  <1>1. instance.version \in Nat /\ rowsVersion \in Nat
    BY DEF Shapes, DbShape
  <1>2. /\ \A r \in Sessions : cvr[r].version \in Nat /\ before[r].version \in Nat
        /\ \A n \in Nodes : seed[n].version \in Int
    BY NoSeedVersion DEF Shapes, SessionsShape, View
  <1>3. \A r \in Sessions : cvr'[r].version <= Made' /\ before'[r].version <= Made'
    BY <1>2 DEF VersionsCounted
  <1>4. \A n \in Nodes : \A i \in 1..Len(queue'[n]) : queue'[n][i].version <= Made'
    <2> TAKE n \in Nodes
    <2>1. queue[n] \in Seq(ChainedFlush)
      BY DEF Shapes, RestShape
    <2>2. \A i \in 1..Len(queue[n]) : queue[n][i].version \in Nat
      BY <2>1, ChainTypes
    <2> QED
      BY <2>2 DEF VersionsCounted
  <1> QED
    BY <1>1, <1>2, <1>3, <1>4 DEF VersionsCounted

LEMMA FlushBeginCounted ==
    ASSUME CountInv, NEW s \in Sessions, FlushBegin(s)
    PROVE  StampedTransitions' /\ VersionsCounted'
  <1>1. /\ StampedTransitions'
        /\ stamp' = stamp /\ s \in Ahead /\ Ahead' = Ahead \ {s}
    BY FlushBeginStamped DEF CountInv
  <1>2. Made' \in Int /\ Made \in Int /\ Made' = Made + 1
    BY <1>1, MadeNow DEF CountInv
  <1>3. PICK u \in Updates : Prepare(s, u.keys, u.bump)
    BY DEF FlushBegin
  <1>4. /\ After(s, u.keys, u.bump).version = cvr[s].version + u.bump
        /\ u.bump \in 0..1 /\ cvr[s].version \in Nat
    BY AfterShape DEF CountInv, Shapes, SessionsShape, View
  <1>5. /\ cvr'[s].version \in {cvr[s].version, cvr[s].version + 1}
        /\ \A r \in Sessions : r # s => cvr'[r] = cvr[r]
        /\ \A r \in Sessions : before'[r] = before[r] \/ before'[r] = cvr[r]
    BY <1>3, <1>4 DEF Prepare, CountInv, Shapes, SessionsShape
  <1>6. instance' = instance /\ rowsVersion' = rowsVersion /\ queue' = queue
        /\ seed' = seed
    BY DEF FlushBegin, db, loops
  <1>7. VersionsCounted'
    BY <1>2, <1>5, <1>6, CountedMakes DEF CountInv
  <1> QED
    BY <1>1, <1>7

LEMMA LoopFlushFailsCounted ==
    ASSUME CountInv, NEW s \in Sessions, LoopFlushFails(s)
    PROVE  StampedTransitions' /\ VersionsCounted'
  <1>1. /\ StampedTransitions'
        /\ stamp' = stamp /\ s \in Ahead /\ Ahead' = Ahead \ {s}
    <2>1. s \in Ahead
      BY DEF LoopFlushFails, CountInv, StampedTransitions, Stamped, Ahead
    <2> QED
      BY <2>1, FinishStamped DEF LoopFlushFails, CountInv
  <1>2. Made' \in Int /\ Made \in Int /\ Made' = Made + 1
    BY <1>1, MadeNow DEF CountInv
  <1>3. PICK u \in Updates, desired \in {FALSE, handle[s]} :
           cvr' = [cvr EXCEPT ![s] = RolledBack(s, After(s, u.keys, u.bump), desired)]
    BY Zenon DEF LoopFlushFails
  <1>4. /\ After(s, u.keys, u.bump).version = cvr[s].version + u.bump
        /\ After(s, u.keys, u.bump) \in View
        /\ u.bump \in 0..1 /\ cvr[s].version \in Nat
    BY AfterShape DEF CountInv, Shapes, SessionsShape, View
  <1>5. RolledBack(s, After(s, u.keys, u.bump), desired).version
           \in {cvr[s].version, cvr[s].version + 1}
    BY <1>4, RolledBackShape DEF CountInv, Shapes
  <1>6. /\ cvr'[s].version \in {cvr[s].version, cvr[s].version + 1}
        /\ \A r \in Sessions : r # s => cvr'[r] = cvr[r]
    BY <1>3, <1>5 DEF CountInv, Shapes, SessionsShape
  <1>7. instance' = instance /\ rowsVersion' = rowsVersion /\ queue' = queue
        /\ seed' = seed /\ before' = before
    BY DEF LoopFlushFails, db, loops
  <1>8. VersionsCounted'
    BY <1>2, <1>6, <1>7, CountedMakes DEF CountInv
  <1> QED
    BY <1>1, <1>8

LEMMA FlushCommitCounted ==
    ASSUME CountInv, NEW s \in Sessions, FlushCommit(s)
    PROVE  StampedTransitions' /\ VersionsCounted'
  <1>1. /\ StampedTransitions'
        /\ stamp' = stamp /\ Ahead' \subseteq Ahead
    BY FinishStamped DEF FlushCommit, CountInv
  <1>2. Made' \in Int /\ Made \in Int /\ Made' >= Made
    BY <1>1, MadeKept DEF CountInv
  <1>3. Shapes /\ VersionsCounted /\ SessionsShape /\ NodeOf[s] \in Nodes
    BY DEF CountInv, Shapes
  <1>4. /\ instance.version \in Nat /\ rowsVersion \in Nat
        /\ \A r \in Sessions : cvr[r].version \in Nat /\ before[r].version \in Nat
        /\ \A n \in Nodes : seed[n].version \in Int
    BY NoSeedVersion DEF CountInv, Shapes, SessionsShape, DbShape, View
  <1>5. instance'.version = cvr[s].version
    BY <1>3, UpsertShape DEF FlushCommit
  <1>6. instance'.version <= Made' /\ rowsVersion' <= Made'
    <2>1. rowsVersion' = rowsVersion \/ rowsVersion' = cvr[s].version
      BY DEF FlushCommit
    <2> QED
      BY <1>2, <1>4, <1>5, <2>1 DEF CountInv, VersionsCounted
  <1>7. \A r \in Sessions : cvr'[r].version <= Made' /\ before'[r].version <= Made'
    <2>1. /\ \A r \in Sessions : cvr'[r] = cvr[r] \/ cvr'[r] = EmptyCvr
          /\ \A r \in Sessions : before'[r] = before[r] \/ before'[r] = EmptyCvr
      BY <1>3 DEF FlushCommit, Kept, SessionsShape
    <2>2. 0 <= Made'
      BY <1>2, <1>4 DEF CountInv, VersionsCounted
    <2> QED
      BY <1>2, <1>4, <2>1, <2>2, EmptyView DEF CountInv, VersionsCounted
  <1>8. \A n \in Nodes : seed'[n].version <= Made'
    BY <1>2, <1>4 DEF FlushCommit, loops, CountInv, VersionsCounted
  <1>9. ASSUME NEW n \in Nodes, NEW i \in 1..Len(queue'[n])
        PROVE  queue'[n][i].version <= Made'
    <2>1. queue[n] \in Seq(ChainedFlush) /\ Flush(s) \in ChainedFlush
          /\ Flush(s).version = cvr[s].version
      BY <1>3, FlushShape DEF Shapes, RestShape
    <2>2. \A j \in 1..Len(queue[n]) : queue[n][j].version \in Nat
      BY <2>1, ChainTypes
    <2>3. CASE queue'[n] = queue[n]
      BY <1>2, <1>9, <2>2, <2>3 DEF CountInv, VersionsCounted
    <2>4. CASE queue'[n] = Append(queue[n], Flush(s))
      <3>1. /\ Len(queue'[n]) = Len(queue[n]) + 1 /\ Len(queue[n]) \in Nat
            /\ \A j \in 1..Len(queue[n]) : queue'[n][j] = queue[n][j]
            /\ queue'[n][Len(queue[n]) + 1] = Flush(s)
        BY <2>1, <2>4
      <3>2. CASE i \in 1..Len(queue[n])
        BY <1>2, <2>2, <3>1, <3>2 DEF CountInv, VersionsCounted
      <3>3. CASE i = Len(queue[n]) + 1
        BY <1>2, <1>4, <2>1, <3>1, <3>3 DEF CountInv, VersionsCounted
      <3> QED
        BY <3>1, <3>2, <3>3, <1>9
    <2> QED
      BY <1>3, <2>3, <2>4 DEF FlushCommit, Chained, Shapes, RestShape
  <1> QED
    BY <1>1, <1>6, <1>7, <1>8, <1>9 DEF VersionsCounted

LEMMA DeferredCounted ==
    ASSUME CountInv, NEW n \in Nodes, DeferredFlush(n) \/ DeferredFlushFails(n)
    PROVE  StampedTransitions' /\ VersionsCounted'
  <1>1. StampedTransitions' /\ Ahead' \subseteq Ahead /\ stamp' = stamp
    BY IdleStamped DEF DeferredFlush, DeferredFlushFails, CountInv
  <1>2. Made' \in Int /\ Made \in Int /\ Made' >= Made
    BY <1>1, MadeKept DEF CountInv
  <1>3. /\ instance.version \in Nat /\ rowsVersion \in Nat
        /\ \A r \in Sessions : cvr[r].version \in Nat /\ before[r].version \in Nat
        /\ \A m \in Nodes : seed[m].version \in Int
    BY NoSeedVersion DEF CountInv, Shapes, SessionsShape, DbShape, View
  <1>4. /\ cvr' = cvr /\ before' = before /\ seed' = seed /\ instance' = instance
        /\ queue' = [queue EXCEPT ![n] = Tail(@)] /\ queue[n] # <<>>
    BY DEF DeferredFlush, DeferredFlushFails, session, db
  <1>5. queue[n] \in Seq(ChainedFlush) /\ Head(queue[n]) = queue[n][1]
        /\ 1 \in 1..Len(queue[n]) /\ queue[n][1] \in ChainedFlush
    BY <1>4 DEF CountInv, Shapes, RestShape
  <1>6. rowsVersion' <= Made'
    BY SMTT(40), <1>2, <1>3, <1>5 DEF DeferredFlush, DeferredFlushFails, db, CountInv,
       VersionsCounted, ChainedFlush
  <1>7. ASSUME NEW m \in Nodes, NEW i \in 1..Len(queue'[m])
        PROVE  queue'[m][i].version <= Made'
    <2>1. queue[m] \in Seq(ChainedFlush)
      BY DEF CountInv, Shapes, RestShape
    <2>2. \A j \in 1..Len(queue[m]) : queue[m][j].version \in Nat
      BY <2>1, ChainTypes
    <2>3. CASE m # n
      BY <1>2, <1>4, <1>7, <2>2, <2>3 DEF CountInv, VersionsCounted, Shapes, RestShape
    <2>4. CASE m = n
      <3>1. queue'[m] = Tail(queue[m])
        BY <1>4, <2>4 DEF CountInv, Shapes, RestShape
      <3>2. queue'[m][i] = queue[m][i + 1] /\ i + 1 \in 1..Len(queue[m])
        BY <1>4, <1>7, <2>1, <2>4, <3>1, ChainTail
      <3> QED
        BY <1>2, <2>2, <3>2 DEF CountInv, VersionsCounted
    <2> QED
      BY <2>3, <2>4
  <1> QED
    BY <1>1, <1>2, <1>3, <1>4, <1>6, <1>7 DEF CountInv, VersionsCounted

LEMMA CrashCounted ==
    ASSUME CountInv, NEW n \in Nodes, Crash(n)
    PROVE  StampedTransitions' /\ VersionsCounted'
  <1> DEFINE ended == {s \in Sessions : NodeOf[s] = n}
  <1>0. End(ended)
    BY DEF Crash
  <1>1. StampedTransitions' /\ Ahead' \subseteq Ahead /\ stamp' = stamp
    BY <1>0, EndStamped DEF Crash, CountInv, Shapes
  <1>2. Made' \in Int /\ Made \in Int /\ Made' >= Made
    BY <1>1, MadeKept DEF CountInv
  <1>3. /\ instance.version \in Nat /\ rowsVersion \in Nat
        /\ \A r \in Sessions : cvr[r].version \in Nat /\ before[r].version \in Nat
        /\ \A m \in Nodes : seed[m].version \in Int
    BY NoSeedVersion DEF CountInv, Shapes, SessionsShape, DbShape, View
  <1>4. /\ \A r \in Sessions : cvr'[r] = cvr[r] \/ cvr'[r] = EmptyCvr
        /\ \A r \in Sessions : before'[r] = before[r] \/ before'[r] = EmptyCvr
        /\ \A m \in Nodes : seed'[m] = seed[m] \/ seed'[m] = NoSeed
    BY <1>0, EndCopies DEF CountInv
  <1>5. instance' = instance /\ rowsVersion' = rowsVersion
    BY DEF Crash, db
  <1>6. 0 <= Made'
    BY <1>2, <1>3 DEF CountInv, VersionsCounted
  <1>7. \A r \in Sessions : cvr'[r].version <= Made' /\ before'[r].version <= Made'
    BY <1>2, <1>3, <1>4, <1>6, EmptyView DEF CountInv, VersionsCounted
  <1>8. \A m \in Nodes : seed'[m].version <= Made'
    BY <1>2, <1>3, <1>4, <1>6, NoSeedVersion DEF CountInv, VersionsCounted
  <1>9. ASSUME NEW m \in Nodes, NEW i \in 1..Len(queue'[m])
        PROVE  queue'[m][i].version <= Made'
    <2>1. queue[m] \in Seq(ChainedFlush)
      BY DEF CountInv, Shapes, RestShape
    <2>2. \A j \in 1..Len(queue[m]) : queue[m][j].version \in Nat
      BY <2>1, ChainTypes
    <2>3. m # n /\ queue'[m] = queue[m]
      <3>1. queue' = [queue EXCEPT ![n] = <<>>]
        BY DEF Crash
      <3>2. CASE m = n
        BY <1>9, <3>1, <3>2 DEF CountInv, Shapes, RestShape
      <3> QED
        BY <3>1, <3>2 DEF CountInv, Shapes, RestShape
    <2> QED
      BY <1>2, <1>9, <2>2, <2>3 DEF CountInv, VersionsCounted
  <1> QED
    BY <1>1, <1>2, <1>3, <1>5, <1>7, <1>8, <1>9 DEF CountInv, VersionsCounted

LEMMA ClockCounted ==
    ASSUME CountInv, Tick \/ Purge \/ UNCHANGED vars
    PROVE  StampedTransitions' /\ VersionsCounted'
  <1>1. StampedTransitions' /\ Ahead' \subseteq Ahead /\ stamp' = stamp
    BY IdleStamped DEF Tick, Purge, vars, CountInv
  <1>2. Made' \in Int /\ Made \in Int /\ Made' >= Made
    BY <1>1, MadeKept DEF CountInv
  <1>3. cvr' = cvr /\ before' = before /\ seed' = seed /\ queue' = queue
    BY DEF Tick, Purge, vars, session
  <1>4. rowsVersion' = rowsVersion \/ rowsVersion' = 0
    BY DEF Tick, Purge, vars, db
  <1>5. instance'.version = instance.version \/ instance'.version = 0
    <2>1. instance' \in {NoInstance, Tombstone, instance}
      BY Zenon DEF Tick, Purge, vars, db
    <2>2. NoInstance.version = 0 /\ Tombstone.version = 0
      BY DEF NoInstance, Tombstone, CountInv, Shapes, DbShape
    <2> QED
      BY <2>1, <2>2
  <1> QED
    BY <1>1, <1>2, <1>3, <1>4, <1>5, CountedCopies DEF CountInv

LEMMA NextCounted ==
    ASSUME CountInv, [Next]_vars
    PROVE  CountInv'
  <1>1. ASSUME NEW s \in Sessions, Step(s)
        PROVE  StampedTransitions' /\ VersionsCounted'
    BY <1>1, QuietCounted, BeginCounted, FlushBeginCounted, LoopFlushFailsCounted,
       FlushCommitCounted DEF Step
  <1>2. ASSUME NEW n \in Nodes, DeferredFlush(n) \/ DeferredFlushFails(n) \/ Crash(n)
        PROVE  StampedTransitions' /\ VersionsCounted'
    BY <1>2, DeferredCounted, CrashCounted
  <1>3. StampedTransitions' /\ VersionsCounted'
    BY <1>1, <1>2, ClockCounted DEF Next
  <1> QED
    BY <1>3, NextShape DEF CountInv

LEMMA AlwaysCounted == Spec => []CountInv
  BY InitCounted, NextCounted, PTL DEF Spec

(***************************************************************************)
(* Every variable keeps its type, the versions and stamps that a           *)
(* transition of a node, a retry or the purger makes included: none of     *)
(* them passes MaxStamp, though it is only the start of a transition that  *)
(* is bounded, since a version is counted once for each transition that    *)
(* can still make one (flush_cvr, flush_loop and the row flusher).         *)
(***************************************************************************)
THEOREM TypeCorrect == Spec => []TypeOK
  BY AlwaysCounted, CountedTypes, PTL

-----------------------------------------------------------------------------
(* Versions, the row lock and the chains, while the group has its row in   *)
(* the instances table                                                     *)

Loading == {"claim", "config", "rows"}

\* A purged CVR is at version 0, which no session loads.
Purged == IF instance.deleted THEN instance.version = 0 ELSE instance.version >= 1

\* A session has a version from its load on; a connection only until the end
\* of its transition.
Loaded(s) ==
    /\ st[s] \in {"off", "load"} => cvr[s].version = 0
    /\ st[s] = "idle" /\ ~flags.owned => cvr[s].version = 0
    /\ st[s] = "idle" /\ flags.owned => cvr[s].version >= 1
    /\ st[s] \in Loading \cup {"spawn", "flush", "write"} => cvr[s].version >= 1
    /\ st[s] = "spawn" => flags.owned

SeedLoaded(n) == seed[n] # NoSeed => seed[n].version >= 1

\* The transaction of a flush holds the row lock from its version check on,
\* and moves the version by at most one.
Writing(s) ==
    st[s] = "write" =>
        /\ lock = s
        /\ ~instance.deleted
        /\ before[s].version = instance.version
        /\ cvr[s].version \in {instance.version, instance.version + 1}

\* The chain of a node is in the order of the versions.
Ordered(q) ==
    \A i, j \in 1..Len(q) : i < j => q[i].version <= q[j].version

ChainsOrdered ==
    ~instance.deleted =>
        /\ rowsVersion <= instance.version
        /\ \A n \in Nodes : \A i \in 1..Len(queue[n]) :
              queue[n][i].version <= instance.version
        /\ \A n \in Nodes : Ordered(queue[n])

NotDeferred == ~flags.defer => \A n \in Nodes : queue[n] = <<>>

BaseInv ==
    /\ Purged
    /\ \A s \in Sessions : Loaded(s) /\ Writing(s)
    /\ \A n \in Nodes : SeedLoaded(n)
    /\ ChainsOrdered
    /\ NotDeferred

\* What a step of a session that neither begins nor ends a flush leaves alone.
SameDb ==
    /\ instance'.version = instance.version
    /\ instance'.deleted = instance.deleted
    /\ UNCHANGED <<flags, config, rowsVersion, rows, intended, lock, queue>>

SameSession(r) ==
    /\ st'[r] = st[r] /\ cvr'[r] = cvr[r]
    /\ before'[r] = before[r] /\ pending'[r] = pending[r]

\* The steps of a session between its flushes.
Quiet(s) ==
    \/ Connect(s) \/ LoadInstance(s) \/ LoadFails(s) \/ ClaimOwnership(s)
    \/ ReadConfig(s) \/ ReadRows(s) \/ SpawnLoop(s) \/ ReleaseLoop(s)
    \/ BeginTransition(s) \/ FlushLosesCas(s) \/ FlushRefused(s) \/ Disconnect(s)

LEMMA EndSame ==
    ASSUME Shapes, NEW ended, End(ended)
    PROVE  /\ \A r \in Sessions : r \notin ended => SameSession(r)
           /\ \A r \in Sessions : r \in ended =>
                 st'[r] = "off" /\ cvr'[r] = EmptyCvr /\ pending'[r] = {}
           /\ \A n \in Nodes : seed'[n] = seed[n] \/ seed'[n] = NoSeed
  BY DEF End, SameSession

LEMMA QuietSame ==
    ASSUME Shapes, NEW s \in Sessions, Quiet(s) \/ LoopFlushFails(s)
    PROVE  /\ SameDb
           /\ \A r \in Sessions : r # s => SameSession(r)
           /\ Quiet(s) => kept' = kept /\ lost' = lost
  <1>1. SameDb
    <2>1. CASE ClaimOwnership(s)
      BY <2>1 DEF ClaimOwnership, SameDb, Shapes, DbShape
    <2>2. CASE ~ClaimOwnership(s)
      BY <2>2 DEF Quiet, Connect, LoadInstance, LoadFails, ReadConfig, ReadRows,
         SpawnLoop, ReleaseLoop, BeginTransition, FlushLosesCas, FlushRefused,
         Disconnect, LoopFlushFails, SameDb, db
    <2> QED
      BY <2>1, <2>2
  <1>2. \A r \in Sessions : r # s => SameSession(r)
    <2>1. CASE End({s})
      BY <2>1, EndSame
    <2>2. CASE ~End({s})
      <3> SUFFICES ASSUME NEW r \in Sessions, r # s
                   PROVE  SameSession(r)
        OBVIOUS
      <3>1. st'[r] = st[r]
        BY <2>2 DEF Quiet, Connect, LoadInstance, LoadFails, ClaimOwnership, ReadConfig,
           ReadRows, SpawnLoop, ReleaseLoop, BeginTransition, FlushLosesCas,
           FlushRefused, Disconnect, LoopFlushFails, StartLoad, Finish, Goto,
           Shapes, SessionsShape
      <3>2. cvr'[r] = cvr[r]
        BY <2>2, Zenon
        DEF Quiet, Connect, LoadInstance, LoadFails, ClaimOwnership, ReadConfig,
           ReadRows, SpawnLoop, ReleaseLoop, BeginTransition, FlushLosesCas,
           FlushRefused, Disconnect, LoopFlushFails, Shapes, SessionsShape
      <3>3. before'[r] = before[r] /\ pending'[r] = pending[r]
        BY <2>2, Zenon
        DEF Quiet, Connect, LoadInstance, LoadFails, ClaimOwnership, ReadConfig,
           ReadRows, SpawnLoop, ReleaseLoop, BeginTransition, FlushLosesCas,
           FlushRefused, Disconnect, LoopFlushFails, Shapes, SessionsShape
      <3> QED
        BY <3>1, <3>2, <3>3 DEF SameSession
    <2> QED
      BY <2>1, <2>2
  <1>3. Quiet(s) => kept' = kept /\ lost' = lost
    BY DEF Quiet, Connect, LoadInstance, LoadFails, ClaimOwnership, ReadConfig, ReadRows,
       SpawnLoop, ReleaseLoop, BeginTransition, FlushLosesCas, FlushRefused,
       Disconnect, history
  <1> QED
    BY <1>1, <1>2, <1>3

\* What a session's own step makes of its copy.
OwnMove(s) ==
    \/ SameSession(s)
    \/ st'[s] = "off" /\ cvr'[s] = EmptyCvr /\ pending'[s] = {}
    \/ /\ st[s] = "off" /\ st'[s] = "spawn" /\ flags.owned
       /\ seed[NodeOf[s]] # NoSeed /\ cvr'[s] = seed[NodeOf[s]]
       /\ pending'[s] = pending[s]
    \/ /\ st[s] = "off" /\ st'[s] = "load"
       /\ cvr'[s] = cvr[s] /\ pending'[s] = pending[s]
    \/ /\ st[s] = "load" /\ st'[s] \in {"claim", "config"}
       /\ ~instance.deleted /\ rowsVersion = instance.version
       /\ cvr'[s] = [cvr[s] EXCEPT !.version = instance.version]
       /\ pending'[s] = pending[s]
    \/ /\ st[s] = "claim" /\ st'[s] = "config"
       /\ cvr'[s] = cvr[s] /\ pending'[s] = pending[s]
    \/ /\ st[s] = "config" /\ st'[s] = "rows"
       /\ cvr'[s] = [cvr[s] EXCEPT !.config = config]
       /\ pending'[s] = pending[s]
    \/ /\ st[s] = "rows" /\ pending'[s] = pending[s]
       /\ \/ /\ st'[s] = "flush" \/ (st'[s] = "spawn" /\ flags.owned)
             /\ cvr'[s] = [cvr[s] EXCEPT !.rows = rows]
          \/ st'[s] = "idle" /\ ~flags.owned /\ cvr'[s] = EmptyCvr
    \/ /\ st[s] = "spawn" /\ st'[s] = "idle"
       /\ cvr'[s] = cvr[s] /\ pending'[s] = pending[s]
    \/ /\ st[s] = "idle" /\ cvr'[s] = cvr[s] /\ pending'[s] = pending[s]
       /\ st'[s] = IF flags.owned THEN "flush" ELSE "load"
    \/ /\ st[s] = "flush" /\ st'[s] = "load" /\ cvr'[s] = EmptyCvr
       /\ pending'[s] = pending[s]

LEMMA QuietOwn ==
    ASSUME CountInv, BaseInv, instance.present, NEW s \in Sessions, Quiet(s)
    PROVE  OwnMove(s)
  <1> USE DEF OwnMove
  <1>0. Shapes /\ SessionsShape
    BY DEF CountInv, Shapes
  <1>1. CASE End({s})
    BY <1>0, <1>1, EndSame
  <1>2. CASE Connect(s)
    <2>1. CASE flags.owned /\ seed[NodeOf[s]] # NoSeed
      BY <1>0, <1>2, <2>1 DEF Connect, Goto, SessionsShape
    <2>2. CASE ~(flags.owned /\ seed[NodeOf[s]] # NoSeed)
      BY <1>0, <1>2, <2>2 DEF Connect, StartLoad, Goto, SessionsShape
    <2> QED
      BY <2>1, <2>2
  <1>3. CASE LoadInstance(s)
    <2>1. ~instance.deleted /\ rowsVersion = instance.version
      BY <1>3 DEF LoadInstance, Refused, RowsBehind
    <2>2. cvr'[s] = [cvr[s] EXCEPT !.version = instance.version]
      BY <1>0, <1>3 DEF LoadInstance, SessionsShape
    <2>3. st[s] = "load" /\ st'[s] \in {"claim", "config"} /\ pending' = pending
      BY <1>0, <1>3 DEF LoadInstance, Goto, SessionsShape
    <2> QED
      BY <2>1, <2>2, <2>3
  <1>4. CASE ClaimOwnership(s)
    BY <1>0, <1>4 DEF ClaimOwnership, Goto, SessionsShape
  <1>5. CASE ReadConfig(s)
    <2>1. cvr'[s] = [cvr[s] EXCEPT !.config = config]
      BY <1>0, <1>5 DEF ReadConfig, SessionsShape
    <2>2. st[s] = "config" /\ st'[s] = "rows" /\ pending' = pending
      BY <1>0, <1>5 DEF ReadConfig, Goto, SessionsShape
    <2> QED
      BY <2>1, <2>2
  <1>6. CASE ReadRows(s)
    <2>1. st[s] = "rows" /\ pending' = pending
      BY <1>6 DEF ReadRows
    <2>2. cvr'[s] = IF transition[s] \/ flags.owned
                    THEN [cvr[s] EXCEPT !.rows = rows] ELSE EmptyCvr
      BY <1>0, <1>6 DEF ReadRows, SessionsShape
    <2>3. st'[s] = IF transition[s] THEN "flush"
                   ELSE IF flags.owned THEN "spawn" ELSE "idle"
      BY <1>0, <1>6 DEF ReadRows, Goto, SessionsShape
    <2> QED
      BY <2>1, <2>2, <2>3
  <1>7. CASE SpawnLoop(s) /\ ~End({s})
    BY <1>0, <1>7 DEF SpawnLoop, Goto, SessionsShape
  <1>8. CASE ReleaseLoop(s)
    BY <1>8 DEF ReleaseLoop, SameSession
  <1>9. CASE BeginTransition(s)
    BY <1>0, <1>9 DEF BeginTransition, StartLoad, Goto, SessionsShape
  <1>10. CASE FlushLosesCas(s) /\ ~End({s})
    BY <1>0, <1>10 DEF FlushLosesCas, StartLoad, Goto, SessionsShape
  <1> QED
    BY <1>1, <1>2, <1>3, <1>4, <1>5, <1>6, <1>7, <1>8, <1>9, <1>10
    DEF Quiet, LoadFails, Disconnect, FlushRefused

LEMMA QuietSeed ==
    ASSUME CountInv, NEW s \in Sessions, Quiet(s)
    PROVE  \A n \in Nodes :
              \/ seed'[n] = seed[n] \/ seed'[n] = NoSeed
              \/ /\ n = NodeOf[s] /\ st[s] = "rows" /\ flags.owned
                 /\ seed'[n] = [cvr[s] EXCEPT !.rows = rows]
  <1>0. Shapes /\ SessionsShape
    BY DEF CountInv, Shapes
  <1>1. CASE End({s})
    BY <1>0, <1>1, EndSame
  <1>2. CASE ReadRows(s)
    BY <1>0, <1>2 DEF ReadRows, SessionsShape
  <1>3. CASE ~End({s}) /\ ~ReadRows(s)
    <2>1. seed' = seed
      BY <1>3 DEF Quiet, Connect, LoadInstance, LoadFails, ClaimOwnership, ReadConfig,
       SpawnLoop, ReleaseLoop, BeginTransition, FlushLosesCas, FlushRefused,
       Disconnect, loops
    <2> QED
      BY <2>1
  <1> QED
    BY <1>1, <1>2, <1>3

\* The database parts are kept by a step that leaves the database alone.
LEMMA SameDbBase ==
    ASSUME BaseInv, SameDb
    PROVE  Purged' /\ ChainsOrdered' /\ NotDeferred'
  <1>1. Purged'
    BY DEF BaseInv, Purged, SameDb
  <1>2. ChainsOrdered'
    BY DEF BaseInv, ChainsOrdered, Ordered, SameDb
  <1>3. NotDeferred'
    BY DEF BaseInv, NotDeferred, SameDb
  <1> QED
    BY <1>1, <1>2, <1>3

LEMMA SameSessionBase ==
    ASSUME SameDb, NEW s \in Sessions, Loaded(s), Writing(s), SameSession(s)
    PROVE  Loaded(s)' /\ Writing(s)'
  <1>1. Loaded(s)'
    BY DEF Loaded, SameDb, SameSession
  <1>2. Writing(s)'
    BY DEF Writing, SameDb, SameSession
  <1> QED
    BY <1>1, <1>2

LEMMA QuietBase ==
    ASSUME CountInv, BaseInv, instance.present, NEW s \in Sessions, Quiet(s)
    PROVE  BaseInv'
  <1>1. SameDb /\ \A r \in Sessions : r # s => SameSession(r)
    BY QuietSame DEF CountInv
  <1>2. Purged' /\ ChainsOrdered' /\ NotDeferred'
    BY <1>1, SameDbBase
  <1>3. ASSUME NEW r \in Sessions, r # s
        PROVE  Loaded(r)' /\ Writing(r)'
    BY <1>1, <1>3, SameSessionBase DEF BaseInv
  <1>4. cvr[s] \in View /\ instance.version \in Nat /\ NodeOf[s] \in Nodes
    BY DEF CountInv, Shapes, SessionsShape, DbShape
  <1>5. Loaded(s) /\ Writing(s) /\ SeedLoaded(NodeOf[s]) /\ Purged
    BY <1>4 DEF BaseInv
  <1>6. /\ [cvr[s] EXCEPT !.version = instance.version].version = instance.version
        /\ [cvr[s] EXCEPT !.config = config].version = cvr[s].version
        /\ [cvr[s] EXCEPT !.rows = rows].version = cvr[s].version
        /\ EmptyCvr.version = 0
    BY <1>4, EmptyView DEF View
  <1>7. Loaded(s)' /\ Writing(s)'
    <2>1. CASE SameSession(s)
      BY <1>1, <1>5, <2>1, SameSessionBase
    <2>2. CASE ~SameSession(s)
      <3>1. st'[s] # "write" /\ flags' = flags
        BY <1>1, <2>2, QuietOwn DEF OwnMove, SameDb
      <3>2. Loaded(s)'
        BY <1>5, <1>6, <2>2, <3>1, QuietOwn DEF OwnMove, Loaded, Loading, SeedLoaded, Purged
      <3> QED
        BY <3>1, <3>2 DEF Writing
    <2> QED
      BY <2>1, <2>2
  <1>8. ASSUME NEW n \in Nodes
        PROVE  SeedLoaded(n)'
    <2>1. CASE seed'[n] = seed[n] \/ seed'[n] = NoSeed
      BY <2>1 DEF BaseInv, SeedLoaded
    <2>2. CASE st[s] = "rows" /\ seed'[n] = [cvr[s] EXCEPT !.rows = rows]
      BY <1>5, <1>6, <2>2 DEF SeedLoaded, Loaded, Loading
    <2> QED
      BY <2>1, <2>2, QuietSeed
  <1> QED
    BY <1>2, <1>3, <1>7, <1>8 DEF BaseInv

\* What a loop that could not commit goes on with.
LEMMA LoopFlushFailsOwn ==
    ASSUME CountInv, NEW s \in Sessions, LoopFlushFails(s)
    PROVE  /\ st[s] = "flush" /\ flags.owned
           /\ st'[s] = "idle" /\ cvr'[s].version >= cvr[s].version
           /\ ~kept' => ~kept /\ cvr'[s] = cvr[s] /\ pending'[s] = pending[s]
           /\ lost' = lost /\ seed' = seed /\ before' = before
  <1>0. Shapes /\ SessionsShape
    BY DEF CountInv, Shapes
  <1>1. PICK u \in Updates, desired \in {FALSE, handle[s]} :
           /\ cvr' = [cvr EXCEPT ![s] = RolledBack(s, After(s, u.keys, u.bump), desired)]
           /\ pending' = [pending EXCEPT ![s] = @ \cup u.keys]
           /\ kept' = (kept \/ u.keys # {} \/ cvr'[s] # cvr[s])
    BY Zenon DEF LoopFlushFails
  <1>2. /\ After(s, u.keys, u.bump).version = cvr[s].version + u.bump
        /\ After(s, u.keys, u.bump) \in View
        /\ u.bump \in 0..1 /\ cvr[s].version \in Nat
    BY <1>0, AfterShape DEF SessionsShape, View
  <1>3. cvr'[s] = RolledBack(s, After(s, u.keys, u.bump), desired)
    BY <1>0, <1>1, Zenon DEF SessionsShape
  <1>4. cvr'[s].version >= cvr[s].version
    BY <1>0, <1>2, <1>3, RolledBackShape
  <1>5. ~kept' => ~kept /\ cvr'[s] = cvr[s] /\ u.keys = {}
    BY <1>1, Zenon
  <1>6. u.keys = {} => pending'[s] = pending[s]
    BY <1>0, <1>1 DEF SessionsShape
  <1>7. st[s] = "flush" /\ flags.owned /\ st'[s] = "idle"
    BY <1>0 DEF LoopFlushFails, Finish, Goto, SessionsShape
  <1>8. lost' = lost /\ seed' = seed /\ before' = before
    BY DEF LoopFlushFails, loops
  <1> QED
    BY <1>4, <1>5, <1>6, <1>7, <1>8

LEMMA LoopFlushFailsBase ==
    ASSUME CountInv, BaseInv, NEW s \in Sessions, LoopFlushFails(s)
    PROVE  BaseInv'
  <1>1. SameDb /\ \A r \in Sessions : r # s => SameSession(r)
    BY QuietSame DEF CountInv
  <1>2. Purged' /\ ChainsOrdered' /\ NotDeferred'
    BY <1>1, SameDbBase
  <1>3. ASSUME NEW r \in Sessions, r # s
        PROVE  Loaded(r)' /\ Writing(r)'
    BY <1>1, <1>3, SameSessionBase DEF BaseInv
  <1>4. cvr[s].version \in Nat /\ cvr[s].version >= 1
    BY LoopFlushFailsOwn DEF CountInv, Shapes, SessionsShape, View, BaseInv, Loaded
  <1>5. cvr'[s].version >= 1
    <2>1. cvr'[s].version \in Nat
      BY NextShape DEF CountInv, Shapes, SessionsShape, View, Next, Step
    <2> QED
      BY <1>4, <2>1, LoopFlushFailsOwn
  <1>6. Loaded(s)' /\ Writing(s)'
    BY <1>1, <1>5, LoopFlushFailsOwn DEF Loaded, Loading, Writing, SameDb
  <1>7. \A n \in Nodes : SeedLoaded(n)'
    BY LoopFlushFailsOwn DEF BaseInv, SeedLoaded
  <1> QED
    BY <1>2, <1>3, <1>6, <1>7 DEF BaseInv

\* What a flush is when its version check has passed.
LEMMA FlushBeginOwn ==
    ASSUME CountInv, BaseInv, instance.present, NEW s \in Sessions, FlushBegin(s)
    PROVE  /\ lock = NoOne /\ lock' = s
           /\ ~instance.deleted
           /\ st[s] = "flush" /\ st'[s] = "write"
           /\ cvr[s].version = instance.version /\ before'[s] = cvr[s]
           /\ \A r \in Sessions : r # s => SameSession(r)
           /\ UNCHANGED <<db, queue, flags, kept, lost, seed>>
           /\ \E u \in Updates : /\ cvr'[s] = After(s, u.keys, u.bump)
                                 /\ pending'[s] = pending[s] \cup u.keys
  <1>0. Shapes /\ SessionsShape
    BY DEF CountInv, Shapes
  <1>1. lock = NoOne /\ lock' = s /\ st[s] = "flush" /\ st'[s] = "write"
        /\ cvr[s].version = instance.version
    BY <1>0 DEF FlushBegin, RowLock, ExpectedVersion, Goto, SessionsShape
  <1>2. ~instance.deleted
    BY <1>1 DEF BaseInv, Purged, Loaded
  <1>3. PICK u \in Updates : Prepare(s, u.keys, u.bump)
    BY DEF FlushBegin
  <1>4. /\ before'[s] = cvr[s] /\ cvr'[s] = After(s, u.keys, u.bump)
        /\ pending'[s] = pending[s] \cup u.keys
    BY <1>0, <1>3, Zenon DEF Prepare, SessionsShape
  <1>5. ASSUME NEW r \in Sessions, r # s
        PROVE  SameSession(r)
    BY <1>0, <1>3, <1>5 DEF FlushBegin, Prepare, Goto, SessionsShape, SameSession
  <1>6. UNCHANGED <<db, queue, flags, kept, lost, seed>>
    BY DEF FlushBegin, loops, history
  <1> QED
    BY <1>1, <1>2, <1>4, <1>5, <1>6

LEMMA FlushBeginBase ==
    ASSUME CountInv, BaseInv, instance.present, NEW s \in Sessions, FlushBegin(s)
    PROVE  BaseInv'
  <1>1. PICK u \in Updates : /\ cvr'[s] = After(s, u.keys, u.bump)
                             /\ pending'[s] = pending[s] \cup u.keys
    BY FlushBeginOwn
  <1>2. /\ cvr'[s].version = cvr[s].version + u.bump /\ u.bump \in 0..1
        /\ cvr[s].version \in Nat
    BY <1>1, AfterShape DEF CountInv, Shapes, SessionsShape, View
  <1>3. Purged' /\ ChainsOrdered' /\ NotDeferred' /\ \A n \in Nodes : SeedLoaded(n)'
    BY FlushBeginOwn DEF BaseInv, Purged, ChainsOrdered, Ordered, NotDeferred,
       SeedLoaded, db
  <1>4. ASSUME NEW r \in Sessions
        PROVE  Loaded(r)' /\ Writing(r)'
    <2>1. CASE r = s
      <3>1. cvr[s].version >= 1
        BY FlushBeginOwn DEF BaseInv, Loaded
      <3> QED
        BY <1>2, <2>1, <3>1, FlushBeginOwn DEF Loaded, Loading, Writing, db
    <2>2. CASE r # s
      <3>1. st[r] # "write"
        BY FlushBeginOwn, NoOneAssumption DEF BaseInv, Writing
      <3> QED
        BY <2>2, <3>1, FlushBeginOwn DEF SameSession, BaseInv, Loaded, Writing
    <2> QED
      BY <2>1, <2>2
  <1> QED
    BY <1>3, <1>4 DEF BaseInv

\* What the commit of a flush does.
LEMMA FlushCommitOwn ==
    ASSUME CountInv, BaseInv, instance.present, NEW s \in Sessions, FlushCommit(s)
    PROVE  /\ lock = s /\ lock' = NoOne
           /\ ~instance.deleted /\ ~instance'.deleted
           /\ st[s] = "write" /\ st'[s] = "idle"
           /\ instance'.version = cvr[s].version
           /\ cvr'[s] = Kept(s) /\ pending'[s] = {}
           /\ \A r \in Sessions : r # s => SameSession(r) /\ st[r] # "write"
           /\ config' = config \cup cvr[s].config
           /\ intended' = cvr[s].rows
           /\ UNCHANGED <<flags, kept, lost, seed>>
  <1>0. Shapes /\ SessionsShape
    BY DEF CountInv, Shapes
  <1>1. st[s] = "write" /\ Writing(s)
    BY DEF FlushCommit, BaseInv
  <1>2. instance'.version = cvr[s].version /\ instance'.deleted = instance.deleted
    BY <1>0, UpsertShape DEF FlushCommit
  <1>3. lock = s /\ lock' = NoOne /\ ~instance.deleted
    BY <1>1 DEF Writing, FlushCommit, Unlock
  <1>4. st'[s] = "idle" /\ cvr'[s] = Kept(s) /\ pending'[s] = {}
    BY <1>0 DEF FlushCommit, Finish, Goto, SessionsShape
  <1>5. ASSUME NEW r \in Sessions, r # s
        PROVE  SameSession(r) /\ st[r] # "write"
    <2>1. st[r] # "write"
      BY <1>3, <1>5 DEF BaseInv, Writing
    <2> QED
      BY <1>0, <1>5, <2>1 DEF FlushCommit, Finish, Goto, SessionsShape, SameSession
  <1>6. /\ config' = config \cup cvr[s].config /\ intended' = cvr[s].rows
        /\ UNCHANGED <<flags, kept, lost, seed>>
    BY DEF FlushCommit, loops, history
  <1> QED
    BY <1>1, <1>2, <1>3, <1>4, <1>5, <1>6

\* The chains after the commit of a flush.
LEMMA FlushCommitChains ==
    ASSUME CountInv, NEW s \in Sessions, FlushCommit(s)
    PROVE  /\ \A n \in Nodes : n # NodeOf[s] => queue'[n] = queue[n]
           /\ flags.defer => /\ queue'[NodeOf[s]] = Append(queue[NodeOf[s]], Flush(s))
                             /\ rows' = rows /\ rowsVersion' = rowsVersion
           /\ ~flags.defer => /\ queue' = queue
                              /\ rows' = Written(Flush(s))
                              /\ rowsVersion' = cvr[s].version
           /\ Flush(s) \in ChainedFlush /\ Flush(s).version = cvr[s].version
           /\ Flush(s).keys = pending[s] /\ Flush(s).rows = cvr[s].rows
           /\ NodeOf[s] \in Nodes
           /\ \A n \in Nodes : queue[n] \in Seq(ChainedFlush)
  <1>1. queue \in [Nodes -> Seq(ChainedFlush)] /\ NodeOf[s] \in Nodes
    BY DEF CountInv, Shapes, RestShape
  <1>2. /\ Flush(s) \in ChainedFlush /\ Flush(s).version = cvr[s].version
        /\ Flush(s).keys = pending[s] /\ Flush(s).rows = cvr[s].rows
    BY FlushShape DEF CountInv, Shapes, Flush
  <1> HIDE DEF Flush
  <1> QED
    BY <1>1, <1>2 DEF FlushCommit, Chained

LEMMA FlushCommitBase ==
    ASSUME CountInv, BaseInv, instance.present, NEW s \in Sessions, FlushCommit(s)
    PROVE  BaseInv'
  <1>1. /\ cvr[s].version \in Nat /\ instance.version \in Nat /\ rowsVersion \in Nat
        /\ instance.version >= 1
        /\ cvr[s].version \in {instance.version, instance.version + 1}
    BY FlushCommitOwn DEF CountInv, Shapes, SessionsShape, DbShape, View, BaseInv,
       Purged, Writing
  <1>2. Purged'
    BY <1>1, FlushCommitOwn DEF Purged
  <1>3. ASSUME NEW r \in Sessions
        PROVE  Loaded(r)' /\ Writing(r)'
    <2>1. CASE r = s
      BY <1>1, <2>1, FlushCommitOwn, EmptyView DEF Loaded, Loading, Writing, Kept
    <2>2. CASE r # s
      BY <2>2, FlushCommitOwn DEF SameSession, Loaded, Writing, BaseInv
    <2> QED
      BY <2>1, <2>2
  <1>4. \A n \in Nodes : SeedLoaded(n)'
    BY FlushCommitOwn DEF SeedLoaded, BaseInv
  <1>5. NotDeferred'
    BY FlushCommitOwn, FlushCommitChains DEF NotDeferred, BaseInv
  <1>6. rowsVersion' <= instance'.version
    BY <1>1, FlushCommitOwn, FlushCommitChains DEF BaseInv, ChainsOrdered
  <1>7. ASSUME NEW n \in Nodes
        PROVE  /\ \A i \in 1..Len(queue'[n]) : queue'[n][i].version <= instance'.version
               /\ Ordered(queue'[n])
    <2>1. /\ queue[n] \in Seq(ChainedFlush) /\ Len(queue[n]) \in Nat
          /\ \A i \in 1..Len(queue[n]) : queue[n][i].version \in Nat
      BY FlushCommitChains, ChainTypes
    <2>2. /\ \A i \in 1..Len(queue[n]) : queue[n][i].version <= instance.version
          /\ Ordered(queue[n])
      BY FlushCommitOwn DEF BaseInv, ChainsOrdered
    <2>3. CASE queue'[n] = queue[n]
      BY <1>1, <2>1, <2>2, <2>3, FlushCommitOwn
    <2>4. CASE queue'[n] = Append(queue[n], Flush(s))
      <3>1. /\ Len(queue'[n]) = Len(queue[n]) + 1
            /\ \A j \in 1..Len(queue[n]) : queue'[n][j] = queue[n][j]
            /\ queue'[n][Len(queue[n]) + 1] = Flush(s)
        BY <2>1, <2>4, ChainAppend, FlushCommitChains
      <3>2. \A i \in 1..Len(queue'[n]) : i \in 1..Len(queue[n]) \/ i = Len(queue[n]) + 1
        BY <2>1, <3>1
      <3>3. Flush(s).version = instance'.version /\ instance'.version \in Nat
            /\ instance'.version >= instance.version
        BY <1>1, FlushCommitOwn, FlushCommitChains
      <3>4. ASSUME NEW i \in 1..Len(queue'[n])
            PROVE  queue'[n][i].version <= instance'.version
        <4>1. CASE i \in 1..Len(queue[n])
          <5>1. queue'[n][i] = queue[n][i]
            BY <3>1, <4>1
          <5>2. queue[n][i].version \in Nat /\ queue[n][i].version <= instance.version
            BY <2>1, <2>2, <4>1
          <5> QED
            BY <1>1, <3>3, <5>1, <5>2
        <4>2. CASE i = Len(queue[n]) + 1
          BY <3>1, <3>3, <4>2
        <4> QED
          BY <3>2, <4>1, <4>2
      <3>5. ASSUME NEW i \in 1..Len(queue'[n]), NEW j \in 1..Len(queue'[n]), i < j
            PROVE  queue'[n][i].version <= queue'[n][j].version
        <4>1. CASE j \in 1..Len(queue[n])
          <5>1. i \in 1..Len(queue[n])
            BY <2>1, <3>2, <3>5, <4>1
          <5> QED
            BY <2>2, <3>1, <3>5, <4>1, <5>1 DEF Ordered
        <4>2. CASE j = Len(queue[n]) + 1
          BY <3>1, <3>3, <3>4, <4>2
        <4> QED
          BY <3>2, <4>1, <4>2
      <3> QED
        BY <3>4, <3>5 DEF Ordered
    <2> QED
      BY <2>3, <2>4, FlushCommitChains
  <1>8. ChainsOrdered'
    BY <1>6, <1>7 DEF ChainsOrdered
  <1> QED
    BY <1>2, <1>3, <1>4, <1>5, <1>8 DEF BaseInv

LEMMA TailOrdered ==
    ASSUME NEW q \in Seq(ChainedFlush), q # <<>>, Ordered(q)
    PROVE  Ordered(Tail(q))
  <1> SUFFICES ASSUME NEW i \in 1..Len(Tail(q)), NEW j \in 1..Len(Tail(q)), i < j
               PROVE  Tail(q)[i].version <= Tail(q)[j].version
    BY DEF Ordered
  <1>1. /\ Tail(q)[i] = q[i + 1] /\ i + 1 \in 1..Len(q)
        /\ Tail(q)[j] = q[j + 1] /\ j + 1 \in 1..Len(q)
        /\ i + 1 < j + 1
    BY ChainTail
  <1> QED
    BY <1>1 DEF Ordered

\* The chains after a deferred flush has run.
LEMMA DeferredOwn ==
    ASSUME CountInv, NEW n \in Nodes, DeferredFlush(n) \/ DeferredFlushFails(n)
    PROVE  /\ queue[n] \in Seq(ChainedFlush) /\ queue[n] # <<>>
           /\ queue'[n] = Tail(queue[n])
           /\ \A m \in Nodes : m # n => queue'[m] = queue[m]
           /\ UNCHANGED <<flags, instance, config, intended, lock, session, kept>>
           /\ Head(queue[n]) = queue[n][1] /\ 1 \in 1..Len(queue[n])
           /\ DeferredFlush(n) => /\ rows' = Written(queue[n][1])
                                  /\ rowsVersion' = queue[n][1].version
                                  /\ lost' = lost
           /\ DeferredFlushFails(n) => /\ rows' = rows /\ rowsVersion' = rowsVersion
                                       /\ lost' # {}
  <1>1. queue[n] \in Seq(ChainedFlush) /\ queue[n] # <<>>
    BY DEF DeferredFlush, DeferredFlushFails, CountInv, Shapes, RestShape
  <1>2. Head(queue[n]) = queue[n][1] /\ 1 \in 1..Len(queue[n])
    BY <1>1, ChainTail
  <1>3. /\ queue'[n] = Tail(queue[n])
        /\ \A m \in Nodes : m # n => queue'[m] = queue[m]
    BY DEF DeferredFlush, DeferredFlushFails, CountInv, Shapes, RestShape
  <1>4. UNCHANGED <<flags, instance, config, intended, lock, session, kept>>
    BY DEF DeferredFlush, DeferredFlushFails, db
  <1>5. DeferredFlush(n) => /\ rows' = Written(queue[n][1])
                            /\ rowsVersion' = queue[n][1].version
                            /\ lost' = lost
    BY <1>2 DEF DeferredFlush
  <1>6. DeferredFlushFails(n) => /\ rows' = rows /\ rowsVersion' = rowsVersion
                                 /\ lost' # {}
    BY DEF DeferredFlushFails, db
  <1> QED
    BY <1>1, <1>2, <1>3, <1>4, <1>5, <1>6

LEMMA DeferredBase ==
    ASSUME CountInv, BaseInv, NEW n \in Nodes, DeferredFlush(n) \/ DeferredFlushFails(n)
    PROVE  BaseInv'
  <1>1. /\ Purged' /\ \A s \in Sessions : Loaded(s)' /\ Writing(s)'
        /\ \A m \in Nodes : SeedLoaded(m)'
    BY DeferredOwn DEF BaseInv, Purged, Loaded, Writing, SeedLoaded, session
  <1>2. NotDeferred'
    BY DeferredOwn DEF BaseInv, NotDeferred
  <1>3. ASSUME ~instance.deleted
        PROVE  rowsVersion' <= instance.version
    BY <1>3, DeferredOwn DEF BaseInv, ChainsOrdered
  <1>4. ASSUME ~instance.deleted, NEW m \in Nodes
        PROVE  /\ \A i \in 1..Len(queue'[m]) : queue'[m][i].version <= instance.version
               /\ Ordered(queue'[m])
    <2>1. CASE m # n
      BY <1>4, <2>1, DeferredOwn DEF BaseInv, ChainsOrdered
    <2>2. CASE m = n
      <3>1. Ordered(queue[n]) /\ queue'[m] = Tail(queue[n])
        BY <1>4, <2>2, DeferredOwn DEF BaseInv, ChainsOrdered
      <3>2. \A i \in 1..Len(queue'[m]) : queue'[m][i] = queue[n][i + 1]
                                         /\ i + 1 \in 1..Len(queue[n])
        BY <3>1, DeferredOwn, ChainTail
      <3>3. \A i \in 1..Len(queue[n]) : queue[n][i].version <= instance.version
        BY <1>4 DEF BaseInv, ChainsOrdered
      <3>4. Ordered(queue'[m])
        BY <3>1, DeferredOwn, TailOrdered
      <3> QED
        BY <3>2, <3>3, <3>4
    <2> QED
      BY <2>1, <2>2
  <1>5. ChainsOrdered'
    BY <1>3, <1>4, DeferredOwn DEF ChainsOrdered
  <1> QED
    BY <1>1, <1>2, <1>5 DEF BaseInv

\* What a crash of a node leaves.
LEMMA CrashOwn ==
    ASSUME CountInv, NEW n \in Nodes, Crash(n)
    PROVE  /\ \A r \in Sessions : NodeOf[r] # n => SameSession(r)
           /\ \A r \in Sessions : NodeOf[r] = n =>
                 st'[r] = "off" /\ cvr'[r] = EmptyCvr /\ pending'[r] = {}
           /\ \A m \in Nodes : seed'[m] = seed[m] \/ seed'[m] = NoSeed
           /\ queue'[n] = <<>>
           /\ \A m \in Nodes : m # n => queue'[m] = queue[m]
           /\ UNCHANGED <<flags, db, kept>>
           /\ \A r \in Sessions : lock = r /\ NodeOf[r] # n => lock' = r
           /\ queue[n] # <<>> => lost' # {}
  <1>1. End({s \in Sessions : NodeOf[s] = n})
    BY DEF Crash
  <1>2. /\ \A r \in Sessions : NodeOf[r] # n => SameSession(r)
        /\ \A r \in Sessions : NodeOf[r] = n =>
              st'[r] = "off" /\ cvr'[r] = EmptyCvr /\ pending'[r] = {}
        /\ \A m \in Nodes : seed'[m] = seed[m] \/ seed'[m] = NoSeed
    BY <1>1, EndSame DEF CountInv
  <1>3. /\ queue'[n] = <<>>
        /\ \A m \in Nodes : m # n => queue'[m] = queue[m]
    BY DEF Crash, CountInv, Shapes, RestShape
  <1>4. UNCHANGED <<flags, db, kept>>
    BY DEF Crash
  <1>5. \A r \in Sessions : lock = r /\ NodeOf[r] # n => lock' = r
    BY DEF Crash
  <1>6. ASSUME queue[n] # <<>>
        PROVE  lost' # {}
    <2>0. queue[n] \in Seq(ChainedFlush)
      BY DEF CountInv, Shapes, RestShape
    <2>1. 1 \in 1..Len(queue[n])
      BY <1>6, <2>0, ChainTail
    <2>2. lost' = lost \cup {queue[n][i] : i \in 1..Len(queue[n])}
      BY DEF Crash
    <2>3. queue[n][1] \in lost'
      BY <2>1, <2>2
    <2> QED
      BY <2>3
  <1> QED
    BY <1>2, <1>3, <1>4, <1>5, <1>6

LEMMA CrashBase ==
    ASSUME CountInv, BaseInv, NEW n \in Nodes, Crash(n)
    PROVE  BaseInv'
  <1>1. Purged'
    BY CrashOwn DEF BaseInv, Purged, db
  <1>2. \A m \in Nodes : SeedLoaded(m)'
    BY CrashOwn DEF BaseInv, SeedLoaded
  <1>3. NotDeferred'
    BY CrashOwn DEF BaseInv, NotDeferred
  <1>4. ASSUME NEW r \in Sessions
        PROVE  Loaded(r)' /\ Writing(r)'
    <2>1. CASE NodeOf[r] = n
      BY <2>1, CrashOwn, EmptyView DEF Loaded, Loading, Writing
    <2>2. CASE NodeOf[r] # n
      BY <2>2, CrashOwn DEF BaseInv, SameSession, Loaded, Writing, db
    <2> QED
      BY <2>1, <2>2
  <1>5. ASSUME ~instance.deleted, NEW m \in Nodes
        PROVE  /\ \A i \in 1..Len(queue'[m]) : queue'[m][i].version <= instance.version
               /\ Ordered(queue'[m])
    <2>1. CASE m # n
      BY <1>5, <2>1, CrashOwn DEF BaseInv, ChainsOrdered
    <2>2. CASE m = n
      BY <2>2, CrashOwn DEF Ordered
    <2> QED
      BY <2>1, <2>2
  <1>6. ChainsOrdered'
    BY <1>5, CrashOwn DEF BaseInv, ChainsOrdered, db
  <1> QED
    BY <1>1, <1>2, <1>3, <1>4, <1>6 DEF BaseInv

\* While the row stays, a purge leaves a tombstone.
LEMMA PurgeOwn ==
    ASSUME CountInv, Purge, instance'.present
    PROVE  /\ instance'.deleted /\ instance'.version = 0
           /\ lock = NoOne /\ UNCHANGED <<flags, lock, session, queue, kept, lost>>
  <1>1. instance' = Tombstone
    <2>1. instance' # NoInstance
      BY DEF NoInstance
    <2>2. CASE instance.deleted
      BY <2>1, <2>2, Zenon DEF Purge
    <2>3. CASE ~instance.deleted
      BY <2>1, <2>3, Zenon DEF Purge
    <2> QED
      BY <2>2, <2>3
  <1>2. Tombstone.deleted /\ Tombstone.version = 0
    BY DEF Tombstone, CountInv, Shapes, DbShape
  <1>3. lock = NoOne /\ UNCHANGED <<flags, lock, session, queue, kept, lost>>
    BY DEF Purge, history
  <1> QED
    BY <1>1, <1>2, <1>3

LEMMA PurgeBase ==
    ASSUME CountInv, BaseInv, Purge, instance'.present
    PROVE  BaseInv'
  <1>1. Purged' /\ ChainsOrdered' /\ NotDeferred'
    BY PurgeOwn DEF BaseInv, Purged, ChainsOrdered, NotDeferred
  <1>2. \A n \in Nodes : SeedLoaded(n)'
    BY PurgeOwn DEF BaseInv, SeedLoaded, session
  <1>3. ASSUME NEW r \in Sessions
        PROVE  Loaded(r)' /\ Writing(r)'
    <2>1. st[r] # "write"
      BY PurgeOwn, NoOneAssumption DEF BaseInv, Writing
    <2> QED
      BY <2>1, PurgeOwn DEF BaseInv, Loaded, Writing, session
  <1> QED
    BY <1>1, <1>2, <1>3 DEF BaseInv

LEMMA IdleBase ==
    ASSUME CountInv, BaseInv, Tick \/ UNCHANGED vars
    PROVE  BaseInv'
  <1>1. SameDb /\ UNCHANGED session
    BY DEF SameDb, Tick, vars, db
  <1>2. Purged' /\ ChainsOrdered' /\ NotDeferred'
    BY <1>1, SameDbBase
  <1>3. ASSUME NEW r \in Sessions
        PROVE  Loaded(r)' /\ Writing(r)'
    BY <1>1, SameSessionBase DEF BaseInv, SameSession, session
  <1>4. \A n \in Nodes : SeedLoaded(n)'
    BY <1>1 DEF BaseInv, SeedLoaded, session
  <1> QED
    BY <1>2, <1>3, <1>4 DEF BaseInv

LEMMA NextBase ==
    ASSUME CountInv, BaseInv, instance.present, instance'.present, [Next]_vars
    PROVE  BaseInv'
  <1>1. ASSUME NEW s \in Sessions, Step(s)
        PROVE  BaseInv'
    BY <1>1, QuietBase, FlushBeginBase, LoopFlushFailsBase, FlushCommitBase
    DEF Step, Quiet
  <1>2. ASSUME NEW n \in Nodes, DeferredFlush(n) \/ DeferredFlushFails(n) \/ Crash(n)
        PROVE  BaseInv'
    BY <1>2, DeferredBase, CrashBase
  <1> QED
    BY <1>1, <1>2, IdleBase, PurgeBase DEF Next

LEMMA InitBase ==
    ASSUME Init, instance.present
    PROVE  BaseInv
  <1>1. instance.version = 1 /\ ~instance.deleted /\ rowsVersion = 1
    <2>1. PICK owner \in Nodes :
            instance = IF NewGroup THEN NoInstance
                       ELSE [NoInstance EXCEPT !.present = TRUE, !.version = 1,
                                               !.owner = owner]
      BY DEF Init
    <2>2. ~NewGroup
      BY <2>1 DEF NoInstance
    <2>3. instance = [present |-> TRUE, version |-> 1, owner |-> owner,
                      grantedAt |-> 0, lastActive |-> 0, deleted |-> FALSE]
      BY <2>1, <2>2 DEF NoInstance
    <2> QED
      BY <2>3 DEF Init
  <1>2. Purged
    BY <1>1 DEF Purged
  <1>3. \A s \in Sessions : Loaded(s) /\ Writing(s)
    BY EmptyView DEF Init, Loaded, Loading, Writing
  <1>4. \A n \in Nodes : SeedLoaded(n)
    BY DEF Init, SeedLoaded
  <1>5. ChainsOrdered /\ NotDeferred
    BY <1>1 DEF Init, ChainsOrdered, Ordered, NotDeferred
  <1> QED
    BY <1>2, <1>3, <1>4, <1>5 DEF BaseInv

\* The group's row is in the instances table, be it a tombstone.
HasRow == instance.present

LEMMA AlwaysBase == Spec /\ []HasRow => []BaseInv
  <1>1. Init /\ HasRow => BaseInv
    BY InitBase DEF HasRow
  <1>2. CountInv /\ BaseInv /\ HasRow /\ HasRow' /\ [Next]_vars => BaseInv'
    BY NextBase DEF HasRow
  <1> QED
    BY <1>1, <1>2, AlwaysCounted, PTL DEF Spec

-----------------------------------------------------------------------------
(* rowsVersion on one node                                                 *)

RowsNotAhead ==
    ~instance.deleted =>
        \A n \in Nodes : \A i \in 1..Len(queue[n]) : rowsVersion <= queue[n][i].version

LEMMA InitRowsNotAhead == Init => RowsNotAhead
  BY DEF Init, RowsNotAhead

LEMMA SameDbRows ==
    ASSUME SameDb, RowsNotAhead
    PROVE  RowsNotAhead' /\ rowsVersion' = rowsVersion
  BY DEF SameDb, RowsNotAhead

LEMMA FlushCommitRows ==
    ASSUME CountInv, BaseInv, RowsNotAhead, instance.present,
           NEW s \in Sessions, FlushCommit(s)
    PROVE  RowsNotAhead' /\ rowsVersion' >= rowsVersion
  <1>1. /\ cvr[s].version \in Nat /\ instance.version \in Nat /\ rowsVersion \in Nat
        /\ cvr[s].version >= instance.version /\ instance.version >= rowsVersion
    <2>1. cvr[s].version \in Nat /\ instance.version \in Nat /\ rowsVersion \in Nat
      BY DEF CountInv, Shapes, SessionsShape, DbShape, View
    <2>2. cvr[s].version \in {instance.version, instance.version + 1}
      BY FlushCommitOwn DEF BaseInv, Writing
    <2>3. rowsVersion <= instance.version
      BY FlushCommitOwn DEF BaseInv, ChainsOrdered
    <2> QED
      BY <2>1, <2>2, <2>3
  <1>2. CASE ~flags.defer
    BY <1>1, <1>2, FlushCommitChains DEF RowsNotAhead, BaseInv, NotDeferred
  <1>3. CASE flags.defer
    <2>1. ASSUME NEW n \in Nodes, NEW i \in 1..Len(queue'[n])
          PROVE  rowsVersion' <= queue'[n][i].version
      <3>1. CASE n # NodeOf[s]
        BY <1>3, <2>1, <3>1, FlushCommitChains, FlushCommitOwn DEF RowsNotAhead
      <3>2. CASE n = NodeOf[s]
        <4>1. /\ Len(queue'[n]) = Len(queue[n]) + 1 /\ Len(queue[n]) \in Nat
              /\ \A j \in 1..Len(queue[n]) : queue'[n][j] = queue[n][j]
              /\ queue'[n][Len(queue[n]) + 1] = Flush(s)
          BY <1>3, <3>2, ChainAppend, FlushCommitChains
        <4>2. CASE i \in 1..Len(queue[n])
          BY <1>3, <4>1, <4>2, FlushCommitChains, FlushCommitOwn DEF RowsNotAhead
        <4>3. CASE i = Len(queue[n]) + 1
          BY <1>1, <1>3, <4>1, <4>3, FlushCommitChains
        <4> QED
          BY <2>1, <4>1, <4>2, <4>3
      <3> QED
        BY <3>1, <3>2
    <2> QED
      BY <1>1, <1>3, <2>1, FlushCommitChains DEF RowsNotAhead
  <1> QED
    BY <1>2, <1>3

LEMMA DeferredRows ==
    ASSUME CountInv, BaseInv, RowsNotAhead, \A m, n \in Nodes : m = n,
           NEW n \in Nodes, DeferredFlush(n) \/ DeferredFlushFails(n)
    PROVE  RowsNotAhead' /\ (~instance.deleted => rowsVersion' >= rowsVersion)
  <1>0. queue[n] \in Seq(ChainedFlush) /\ queue[n] # <<>> /\ instance' = instance
        /\ queue'[n] = Tail(queue[n])
    BY DeferredOwn
  <1>1. /\ instance' = instance /\ queue'[n] = Tail(queue[n])
        /\ \A i \in 1..Len(queue'[n]) : /\ queue'[n][i] = queue[n][i + 1]
                                        /\ i + 1 \in 1..Len(queue[n])
                                        /\ 1 < i + 1 /\ 1 \in 1..Len(queue[n])
    BY <1>0, ChainTail
  <1>2. CASE instance.deleted
    BY <1>1, <1>2 DEF RowsNotAhead
  <1>3. CASE ~instance.deleted
    <2>1. Ordered(queue[n])
      BY <1>3 DEF BaseInv, ChainsOrdered
    <2>2. rowsVersion' = rowsVersion \/ rowsVersion' = queue[n][1].version
      BY DeferredOwn
    <2>3. \A i \in 1..Len(queue[n]) : rowsVersion <= queue[n][i].version
      BY <1>3 DEF RowsNotAhead
    <2>4. rowsVersion' >= rowsVersion
      <3>1. rowsVersion \in Nat /\ 1 \in 1..Len(queue[n]) /\ queue[n][1].version \in Nat
        BY DeferredOwn, ChainTypes DEF CountInv, Shapes, DbShape
      <3> QED
        BY <2>2, <2>3, <3>1
    <2>5. ASSUME NEW i \in 1..Len(queue'[n])
          PROVE  rowsVersion' <= queue'[n][i].version
      BY <1>1, <2>1, <2>2, <2>3, <2>5 DEF Ordered
    <2>6. RowsNotAhead'
      BY <2>5 DEF RowsNotAhead
    <2> QED
      BY <2>4, <2>6
  <1> QED
    BY <1>2, <1>3

LEMMA NextRows ==
    ASSUME CountInv, BaseInv, RowsNotAhead, \A m, n \in Nodes : m = n,
           instance.present, instance'.present, [Next]_vars
    PROVE  /\ RowsNotAhead'
           /\ rowsVersion' >= rowsVersion \/ instance'.deleted
  <1>0. rowsVersion \in Nat
    BY DEF CountInv, Shapes, DbShape
  <1>1. CASE SameDb
    BY <1>0, <1>1, SameDbRows
  <1>2. ASSUME NEW s \in Sessions, Step(s), ~SameDb
        PROVE  RowsNotAhead' /\ rowsVersion' >= rowsVersion
    <2>1. CASE FlushBegin(s)
      BY <1>0, <2>1, FlushBeginOwn DEF RowsNotAhead, db
    <2>2. CASE FlushCommit(s)
      BY <2>2, FlushCommitRows
    <2> QED
      BY <1>2, <2>1, <2>2, QuietSame DEF Step, Quiet, CountInv
  <1>3. ASSUME NEW n \in Nodes, DeferredFlush(n) \/ DeferredFlushFails(n)
        PROVE  /\ RowsNotAhead'
               /\ rowsVersion' >= rowsVersion \/ instance'.deleted
    <2>1. RowsNotAhead' /\ (~instance.deleted => rowsVersion' >= rowsVersion)
      BY <1>3, DeferredRows
    <2>2. instance' = instance
      BY <1>3, DeferredOwn
    <2> QED
      BY <2>1, <2>2
  <1>4. ASSUME NEW n \in Nodes, Crash(n)
        PROVE  /\ RowsNotAhead'
               /\ rowsVersion' >= rowsVersion \/ instance'.deleted
    <2>1. \A m \in Nodes : queue'[m] = <<>>
      BY <1>4, CrashOwn
    <2> QED
      BY <1>0, <1>4, <2>1, CrashOwn DEF RowsNotAhead, db
  <1>5. CASE Purge
    BY <1>5, PurgeOwn DEF RowsNotAhead
  <1>6. CASE Tick \/ UNCHANGED vars
    <2>1. SameDb
      BY <1>6 DEF SameDb, Tick, vars, db
    <2> QED
      BY <1>1, <2>1
  <1> QED
    BY <1>1, <1>2, <1>3, <1>4, <1>5, <1>6 DEF Next

(***************************************************************************)
(* On one node, and as long as the purger has not removed the group's      *)
(* tombstone, no deferred flush sets rowsVersion back: the node's chain is *)
(* in the order of the versions, and rowsVersion is never ahead of it.     *)
(***************************************************************************)
THEOREM RowsStayInOrder ==
    ASSUME \A m, n \in Nodes : m = n
    PROVE  Spec /\ []HasRow => RowsNeverRollBack
  <1>1. CountInv /\ BaseInv /\ RowsNotAhead /\ HasRow /\ HasRow' /\ [Next]_vars
           => RowsNotAhead'
    BY NextRows DEF HasRow
  <1>2. CountInv /\ BaseInv /\ RowsNotAhead /\ HasRow /\ HasRow' /\ [Next]_vars
           => [rowsVersion' < rowsVersion /\ ~stray'
                 => instance'.deleted \/ ~instance'.present]_vars
    <2> SUFFICES ASSUME CountInv, BaseInv, RowsNotAhead, HasRow, HasRow', [Next]_vars,
                        rowsVersion' < rowsVersion
                 PROVE  instance'.deleted
      OBVIOUS
    <2>1. rowsVersion \in Nat /\ rowsVersion' \in Nat
      BY NextShape DEF CountInv, Shapes, DbShape
    <2> QED
      BY <2>1, NextRows DEF HasRow
  <1> QED
    BY <1>1, <1>2, InitRowsNotAhead, AlwaysCounted, AlwaysBase, PTL
    DEF Spec, RowsNeverRollBack

-----------------------------------------------------------------------------
(* Copies of the committed version                                         *)

\* The behaviours the next theorems are about.  A connection may lose any of
\* its deferred flushes, since it reloads; a processor loop, which goes on from
\* its own copy, none.
Settled == instance.present /\ (flags.owned => lost = {})

\* No loop has gone on with changes it could not commit.
Clean == ~kept /\ ~instance.deleted

\* No deferred flush of n has a row to write.
NoKeyed(n) == \A i \in 1..Len(queue[n]) : queue[n][i].keys = {}

\* c is what was last committed, and only the chain of its own loop's node may
\* have rows of it to write.
Copied(c, n) ==
    /\ c.config = config
    /\ c.rows = intended
    /\ \A m \in Nodes : m # n \/ ~flags.owned => NoKeyed(m)

\* A copy of the committed version is what was committed; one that is being
\* flushed was computed from it.
CopyCurrent(s) ==
    /\ st[s] # "write" =>
         /\ cvr[s].version <= instance.version
         /\ pending[s] = {}
         /\ cvr[s].version = instance.version =>
              /\ st[s] \notin Loading => Copied(cvr[s], NodeOf[s])
              /\ st[s] \in Loading => \A m \in Nodes : NoKeyed(m)
              /\ st[s] = "rows" => cvr[s].config = config
    /\ st[s] = "write" =>
         /\ Copied(before[s], NodeOf[s])
         /\ config \subseteq cvr[s].config
         /\ \A k \in Keys \ pending[s] : cvr[s].rows[k] = intended[k]
         /\ cvr[s].version = instance.version =>
              pending[s] = {} /\ cvr[s] = before[s]

SeedCurrent(n) ==
    /\ seed[n].version <= instance.version
    /\ seed[n].version = instance.version => Copied(seed[n], n)

\* A flush with rows has a version that no flush before it has.
KeyedLater(q) ==
    \A i, j \in 1..Len(q) : i < j /\ q[j].keys # {} => q[i].version < q[j].version

\* Rows under way are of one node, and rowsVersion is not the version until
\* they have landed.
RowsUnderWay ==
    \A n \in Nodes : ~NoKeyed(n) =>
        /\ rowsVersion # instance.version
        /\ \A m \in Nodes : m # n => NoKeyed(m)
        /\ \A m \in Nodes : \A i \in 1..Len(queue[m]) :
              m # n => queue[m][i].version < instance.version

\* A session that neither has the committed version nor is writing the next.
NotAt(s) == st[s] # "write" /\ cvr[s].version # instance.version

\* Rows of connections under way are those of the committed version, and
\* nobody gets that version before they have landed.
OneKeyed ==
    ~flags.owned => \A n \in Nodes : \A i \in 1..Len(queue[n]) :
        queue[n][i].keys # {} => /\ queue[n][i].version = instance.version
                                 /\ i = Len(queue[n])
                                 /\ \A s \in Sessions : NotAt(s)

\* Once the chains have run dry the row of k will be the one committed last.
Final(k) ==
    \/ \E n \in Nodes : \E i \in 1..Len(queue[n]) :
          /\ k \in queue[n][i].keys
          /\ queue[n][i].rows[k] = intended[k]
          /\ \A j \in 1..Len(queue[n]) : j > i => k \notin queue[n][j].keys
    \/ /\ rows[k] = intended[k]
       /\ \A n \in Nodes : \A i \in 1..Len(queue[n]) : k \notin queue[n][i].keys

\* The flush of the committed version was lost: no connection will load it.
Abandoned ==
    /\ ~flags.owned
    /\ rowsVersion # instance.version
    /\ \A n \in Nodes : \A i \in 1..Len(queue[n]) :
          queue[n][i].version # instance.version
    /\ \A s \in Sessions : NotAt(s)

RowsWillCome == Abandoned \/ \A k \in Keys : Final(k)

ChainsInv ==
    /\ \A n \in Nodes : KeyedLater(queue[n])
    /\ RowsUnderWay /\ OneKeyed /\ RowsWillCome

CopyInv ==
    Clean => /\ \A s \in Sessions : CopyCurrent(s)
             /\ \A n \in Nodes : SeedCurrent(n)
             /\ ChainsInv

LEMMA RowsAreIntended ==
    ASSUME Shapes, \A m \in Nodes : NoKeyed(m), \A k \in Keys : Final(k)
    PROVE  rows = intended
  <1>1. ASSUME NEW k \in Keys
        PROVE  rows[k] = intended[k]
    BY Zenon DEF NoKeyed, Final
  <1> QED
    BY <1>1 DEF Shapes, DbShape

\* A connection gets the committed version only by a load, which wants its rows.
LEMMA QuietNotAt ==
    ASSUME CountInv, BaseInv, instance.present, NEW s \in Sessions, Quiet(s),
           ~flags.owned, ~instance.deleted, rowsVersion # instance.version, NotAt(s)
    PROVE  NotAt(s)'
  <1>1. /\ cvr[s] \in View /\ instance.version \in Nat /\ instance.version # 0
        /\ instance'.version = instance.version
    BY QuietSame DEF CountInv, Shapes, SessionsShape, DbShape, BaseInv, Purged, SameDb
  <1>2. /\ [cvr[s] EXCEPT !.config = config].version = cvr[s].version
        /\ [cvr[s] EXCEPT !.rows = rows].version = cvr[s].version
        /\ EmptyCvr.version = 0
    BY <1>1, EmptyView DEF View
  <1>3. CASE SameSession(s)
    BY <1>1, <1>3 DEF SameSession, NotAt
  <1>4. CASE ~SameSession(s)
    BY <1>1, <1>2, <1>4, QuietOwn DEF OwnMove, NotAt
  <1> QED
    BY <1>3, <1>4

LEMMA StoreChains ==
    ASSUME UNCHANGED <<flags, config, rowsVersion, rows, intended, queue>>,
           instance'.version = instance.version
    PROVE  /\ \A n \in Nodes : NoKeyed(n)' <=> NoKeyed(n)
           /\ \A n \in Nodes : KeyedLater(queue[n]) => KeyedLater(queue[n])'
           /\ \A k \in Keys : Final(k) => Final(k)'
           /\ RowsUnderWay => RowsUnderWay'
  <1>1. \A n \in Nodes : NoKeyed(n)' <=> NoKeyed(n)
    BY DEF NoKeyed
  <1>2. \A n \in Nodes : KeyedLater(queue[n]) => KeyedLater(queue[n])'
    BY DEF KeyedLater
  <1>3. \A k \in Keys : Final(k) => Final(k)'
    BY Zenon DEF Final
  <1>4. RowsUnderWay => RowsUnderWay'
    BY <1>1 DEF RowsUnderWay
  <1> QED
    BY <1>1, <1>2, <1>3, <1>4

LEMMA SameDbChains ==
    ASSUME SameDb
    PROVE  /\ \A n \in Nodes : NoKeyed(n)' <=> NoKeyed(n)
           /\ \A n \in Nodes : KeyedLater(queue[n]) => KeyedLater(queue[n])'
           /\ \A k \in Keys : Final(k) => Final(k)'
           /\ RowsUnderWay => RowsUnderWay'
  BY StoreChains DEF SameDb

LEMMA QuietChains ==
    ASSUME CountInv, BaseInv, instance.present, NEW s \in Sessions, Quiet(s),
           ~instance.deleted, ChainsInv
    PROVE  ChainsInv'
  <1>1. SameDb /\ \A r \in Sessions : r # s => SameSession(r)
    BY QuietSame DEF CountInv
  <1>2. (\A n \in Nodes : KeyedLater(queue[n])') /\ RowsUnderWay'
    BY <1>1, SameDbChains DEF ChainsInv
  <1>3. ASSUME ~flags.owned, rowsVersion # instance.version,
               \A r \in Sessions : NotAt(r)
        PROVE  \A r \in Sessions : NotAt(r)'
    <2> TAKE r \in Sessions
    <2>1. CASE r = s
      BY <1>3, <2>1, QuietNotAt
    <2>2. CASE r # s
      BY <1>1, <1>3, <2>2 DEF NotAt, SameSession, SameDb
    <2> QED
      BY <2>1, <2>2
  <1>4. OneKeyed'
    <2> SUFFICES ASSUME ~flags.owned, NEW n \in Nodes, NEW i \in 1..Len(queue[n]),
                        queue[n][i].keys # {}
                 PROVE  /\ queue[n][i].version = instance.version
                        /\ i = Len(queue[n])
                        /\ \A r \in Sessions : NotAt(r)'
      BY <1>1 DEF OneKeyed, SameDb
    <2>1. /\ queue[n][i].version = instance.version
          /\ i = Len(queue[n])
          /\ \A r \in Sessions : NotAt(r)
      BY DEF ChainsInv, OneKeyed
    <2>2. rowsVersion # instance.version
      BY DEF ChainsInv, RowsUnderWay, NoKeyed
    <2> QED
      BY <1>3, <2>1, <2>2
  <1>5. RowsWillCome'
    <2>1. CASE Abandoned
      <3>1. \A r \in Sessions : NotAt(r)'
        BY <1>3, <2>1 DEF Abandoned
      <3> QED
        BY <1>1, <2>1, <3>1 DEF Abandoned, SameDb, RowsWillCome
    <2>2. CASE \A k \in Keys : Final(k)
      BY <1>1, <2>2, SameDbChains DEF RowsWillCome
    <2> QED
      BY <2>1, <2>2 DEF ChainsInv, RowsWillCome
  <1> QED
    BY <1>2, <1>4, <1>5 DEF ChainsInv

LEMMA SameCopy ==
    ASSUME SameDb, NEW s \in Sessions, SameSession(s), CopyCurrent(s)
    PROVE  CopyCurrent(s)'
  <1>1. /\ UNCHANGED <<flags, config, intended>>
        /\ instance'.version = instance.version
        /\ st'[s] = st[s] /\ cvr'[s] = cvr[s]
        /\ before'[s] = before[s] /\ pending'[s] = pending[s]
        /\ \A n \in Nodes : NoKeyed(n)' <=> NoKeyed(n)
    BY SameDbChains DEF SameDb, SameSession
  <1> QED
    BY <1>1 DEF CopyCurrent, Copied

LEMMA QuietCopy ==
    ASSUME CountInv, BaseInv, instance.present, NEW s \in Sessions, Quiet(s),
           ~instance.deleted, ChainsInv,
           \A r \in Sessions : CopyCurrent(r),
           \A n \in Nodes : SeedCurrent(n)
    PROVE  /\ \A r \in Sessions : CopyCurrent(r)'
           /\ \A n \in Nodes : SeedCurrent(n)'
  <1>1. SameDb /\ \A r \in Sessions : r # s => SameSession(r)
    BY QuietSame DEF CountInv
  <1>2. /\ UNCHANGED <<flags, config, intended>>
        /\ instance'.version = instance.version
        /\ \A n \in Nodes : NoKeyed(n)' <=> NoKeyed(n)
    BY <1>1, SameDbChains DEF SameDb
  <1>3. /\ cvr[s] \in View /\ instance.version \in Nat /\ instance.version # 0
        /\ 0 <= instance.version /\ rows \in [Keys -> Stamps] /\ NodeOf[s] \in Nodes
    BY DEF CountInv, Shapes, SessionsShape, DbShape, BaseInv, Purged
  <1>4. /\ [cvr[s] EXCEPT !.version = instance.version].version = instance.version
        /\ [cvr[s] EXCEPT !.config = config].version = cvr[s].version
        /\ [cvr[s] EXCEPT !.config = config].config = config
        /\ [cvr[s] EXCEPT !.rows = rows].version = cvr[s].version
        /\ [cvr[s] EXCEPT !.rows = rows].config = cvr[s].config
        /\ [cvr[s] EXCEPT !.rows = rows].rows = rows
        /\ EmptyCvr.version = 0
    BY <1>3, EmptyView DEF View
  <1>5. ASSUME st[s] = "rows", cvr[s].version = instance.version
        PROVE  Copied([cvr[s] EXCEPT !.rows = rows], NodeOf[s])
    <2>1. (\A m \in Nodes : NoKeyed(m)) /\ cvr[s].config = config
      BY <1>5 DEF CopyCurrent, Loading
    <2>2. \A k \in Keys : Final(k)
      BY <1>5 DEF ChainsInv, RowsWillCome, Abandoned, NotAt
    <2>3. rows = intended
      BY <2>1, <2>2, RowsAreIntended DEF CountInv
    <2> QED
      BY <1>4, <2>1, <2>3 DEF Copied
  <1>6. CopyCurrent(s)'
    <2>1. CASE SameSession(s)
      BY <1>1, <2>1, SameCopy
    <2>2. st[s] \in {"off", "load", "idle", "rows", "flush"} => pending[s] = {}
      BY DEF CopyCurrent
    <2>3. /\ st[s] = "off" => cvr[s].version = 0
          /\ st[s] = "idle" /\ ~flags.owned => cvr[s].version = 0
      BY DEF BaseInv, Loaded
    <2>4. st'[s] \in {"off", "load", "idle"} /\ pending'[s] = {} /\ cvr'[s].version = 0
             => CopyCurrent(s)'
      BY <1>2, <1>3 DEF CopyCurrent
    <2>5. CASE st'[s] = "off" /\ cvr'[s] = EmptyCvr /\ pending'[s] = {}
      <3>1. cvr'[s].version = 0
        BY <1>4, <2>5
      <3> QED
        BY <2>4, <2>5, <3>1
    <2>6. CASE /\ st[s] = "off" /\ st'[s] = "spawn" /\ flags.owned
               /\ seed[NodeOf[s]] # NoSeed /\ cvr'[s] = seed[NodeOf[s]]
               /\ pending'[s] = pending[s]
      BY <1>2, <1>3, <2>6 DEF CopyCurrent, SeedCurrent, Copied, Loading
    <2>7. CASE /\ st[s] = "off" /\ st'[s] = "load"
               /\ cvr'[s] = cvr[s] /\ pending'[s] = pending[s]
      <3>1. cvr'[s].version = 0 /\ pending'[s] = {}
        BY <2>2, <2>3, <2>7
      <3> QED
        BY <2>4, <2>7, <3>1
    <2>8. CASE /\ st[s] = "load" /\ st'[s] \in {"claim", "config"}
               /\ ~instance.deleted /\ rowsVersion = instance.version
               /\ cvr'[s] = [cvr[s] EXCEPT !.version = instance.version]
               /\ pending'[s] = pending[s]
      <3>1. \A m \in Nodes : NoKeyed(m)
        BY <2>8 DEF ChainsInv, RowsUnderWay
      <3>2. cvr'[s].version = instance.version
        BY <1>4, <2>8
      <3> QED
        BY <1>2, <1>3, <2>8, <3>1, <3>2 DEF CopyCurrent, Loading
    <2>9. CASE /\ st[s] = "claim" /\ st'[s] = "config"
               /\ cvr'[s] = cvr[s] /\ pending'[s] = pending[s]
      BY <1>2, <2>9 DEF CopyCurrent, Loading
    <2>10. CASE /\ st[s] = "config" /\ st'[s] = "rows"
                /\ cvr'[s] = [cvr[s] EXCEPT !.config = config]
                /\ pending'[s] = pending[s]
      BY <1>2, <1>4, <2>10 DEF CopyCurrent, Loading
    <2>11. CASE /\ st[s] = "rows" /\ pending'[s] = pending[s]
                /\ \/ /\ st'[s] = "flush" \/ (st'[s] = "spawn" /\ flags.owned)
                      /\ cvr'[s] = [cvr[s] EXCEPT !.rows = rows]
                   \/ st'[s] = "idle" /\ ~flags.owned /\ cvr'[s] = EmptyCvr
      <3>1. CASE st'[s] \in {"flush", "spawn"} /\ cvr'[s] = [cvr[s] EXCEPT !.rows = rows]
        BY <1>2, <1>4, <1>5, <2>11, <3>1 DEF CopyCurrent, Copied, Loading
      <3>2. CASE st'[s] = "idle" /\ cvr'[s] = EmptyCvr
        <4>1. cvr'[s].version = 0 /\ pending'[s] = {}
          BY <1>4, <2>2, <2>11, <3>2
        <4> QED
          BY <2>4, <3>2, <4>1
      <3> QED
        BY <2>11, <3>1, <3>2
    <2>12. CASE /\ st[s] = "spawn" /\ st'[s] = "idle"
                /\ cvr'[s] = cvr[s] /\ pending'[s] = pending[s]
      BY <1>2, <2>12 DEF CopyCurrent, Copied, Loading
    <2>13. CASE /\ st[s] = "idle" /\ cvr'[s] = cvr[s] /\ pending'[s] = pending[s]
                /\ st'[s] = IF flags.owned THEN "flush" ELSE "load"
      <3>1. CASE flags.owned
        BY <1>2, <2>13, <3>1 DEF CopyCurrent, Copied, Loading
      <3>2. CASE ~flags.owned
        <4>1. cvr'[s].version = 0 /\ pending'[s] = {} /\ st'[s] = "load"
          BY <2>2, <2>3, <2>13, <3>2
        <4> QED
          BY <2>4, <4>1
      <3> QED
        BY <3>1, <3>2
    <2>14. CASE /\ st[s] = "flush" /\ st'[s] = "load" /\ cvr'[s] = EmptyCvr
                /\ pending'[s] = pending[s]
      <3>1. cvr'[s].version = 0 /\ pending'[s] = {}
        BY <1>4, <2>2, <2>14
      <3> QED
        BY <2>4, <2>14, <3>1
    <2>15. OwnMove(s)
      BY QuietOwn
    <2> QED
      BY <2>1, <2>5, <2>6, <2>7, <2>8, <2>9, <2>10, <2>11, <2>12, <2>13, <2>14, <2>15 DEF OwnMove
  <1>7. ASSUME NEW r \in Sessions
        PROVE  CopyCurrent(r)'
    BY <1>1, <1>6, SameCopy
  <1>8. ASSUME NEW n \in Nodes
        PROVE  SeedCurrent(n)'
    <2>1. CASE seed'[n] = seed[n]
      BY <1>2, <2>1 DEF SeedCurrent, Copied
    <2>2. CASE seed'[n] = NoSeed
      BY <1>2, <1>3, <2>2, NoSeedVersion DEF SeedCurrent
    <2>3. CASE /\ n = NodeOf[s] /\ st[s] = "rows"
               /\ seed'[n] = [cvr[s] EXCEPT !.rows = rows]
      BY <1>2, <1>4, <1>5, <2>3 DEF SeedCurrent, Copied, CopyCurrent
    <2> QED
      BY <2>1, <2>2, <2>3, QuietSeed
  <1> QED
    BY <1>7, <1>8

LEMMA LoopFlushFailsCopy ==
    ASSUME CountInv, BaseInv, NEW s \in Sessions, LoopFlushFails(s),
           CopyInv, Clean'
    PROVE  CopyInv'
  <1>1. SameDb /\ \A r \in Sessions : r # s => SameSession(r)
    BY QuietSame DEF CountInv
  <1>2. ~kept /\ cvr'[s] = cvr[s] /\ pending'[s] = pending[s] /\ ~instance.deleted
    BY <1>1, LoopFlushFailsOwn DEF Clean, SameDb
  <1>3. /\ \A r \in Sessions : CopyCurrent(r)
        /\ \A n \in Nodes : SeedCurrent(n)
        /\ ChainsInv
    BY <1>2 DEF CopyInv, Clean
  <1>4. /\ UNCHANGED <<flags, config, intended>>
        /\ instance'.version = instance.version
        /\ \A n \in Nodes : NoKeyed(n)' <=> NoKeyed(n)
    BY <1>1, SameDbChains DEF SameDb
  <1>5. CopyCurrent(s)'
    BY <1>2, <1>3, <1>4, LoopFlushFailsOwn DEF CopyCurrent, Copied, Loading
  <1>6. \A r \in Sessions : CopyCurrent(r)'
    BY <1>1, <1>3, <1>5, SameCopy
  <1>7. \A n \in Nodes : SeedCurrent(n)'
    BY <1>3, <1>4, LoopFlushFailsOwn DEF SeedCurrent, Copied
  <1>8. (\A n \in Nodes : KeyedLater(queue[n])') /\ RowsUnderWay'
    BY <1>1, <1>3, SameDbChains DEF ChainsInv
  <1>9. OneKeyed'
    BY <1>4, LoopFlushFailsOwn DEF OneKeyed
  <1>10. RowsWillCome'
    BY <1>1, <1>3, SameDbChains, LoopFlushFailsOwn DEF ChainsInv, RowsWillCome, Abandoned
  <1> QED
    BY <1>6, <1>7, <1>8, <1>9, <1>10 DEF CopyInv, ChainsInv

LEMMA FlushBeginCopy ==
    ASSUME CountInv, BaseInv, instance.present, NEW s \in Sessions, FlushBegin(s),
           CopyInv, Clean'
    PROVE  CopyInv'
  <1>1. /\ UNCHANGED <<flags, config, rowsVersion, rows, intended, queue, instance, kept,
                       seed>>
        /\ ~instance.deleted /\ Clean
        /\ st[s] = "flush" /\ st'[s] = "write"
        /\ cvr[s].version = instance.version /\ before'[s] = cvr[s]
        /\ \A r \in Sessions : r # s => SameSession(r)
    BY FlushBeginOwn DEF db, Clean
  <1>2. /\ \A r \in Sessions : CopyCurrent(r)
        /\ \A n \in Nodes : SeedCurrent(n)
        /\ ChainsInv
    BY <1>1 DEF CopyInv
  <1>3. \A n \in Nodes : NoKeyed(n)' <=> NoKeyed(n)
    BY <1>1, StoreChains
  <1>4. PICK u \in Updates : /\ cvr'[s] = After(s, u.keys, u.bump)
                             /\ pending'[s] = pending[s] \cup u.keys
    BY FlushBeginOwn
  <1>5. Copied(cvr[s], NodeOf[s]) /\ pending[s] = {}
    BY <1>1, <1>2 DEF CopyCurrent, Loading
  <1>6. cvr[s] \in View /\ mine[s] \in Stamps /\ u.keys \subseteq Keys
    BY DEF CountInv, Shapes, SessionsShape, Updates
  <1>7. config \subseteq cvr'[s].config
    BY <1>4, <1>5, <1>6 DEF After, Copied
  <1>8. \A k \in Keys \ pending'[s] : cvr'[s].rows[k] = intended[k]
    BY <1>4, <1>5, <1>6 DEF After, Copied, View
  <1>9. ASSUME cvr'[s].version = instance.version
        PROVE  pending'[s] = {} /\ cvr'[s] = cvr[s]
    <2>1. u.bump = 0
      <3>1. cvr'[s].version = cvr[s].version + u.bump /\ u.bump \in 0..1
            /\ cvr[s].version \in Nat
        BY <1>4, <1>6, AfterShape DEF CountInv, Shapes, View
      <3> QED
        BY <1>1, <1>9, <3>1
    <2>2. u.keys = {}
      BY <2>1 DEF Updates
    <2>3. After(s, u.keys, u.bump) = [version |-> cvr[s].version + 0,
                                      config |-> cvr[s].config,
                                      rows |-> [k \in Keys |-> cvr[s].rows[k]]]
      BY <2>1, <2>2 DEF After
    <2>4. cvr[s].version + 0 = cvr[s].version
      BY <1>6 DEF View
    <2>5. [k \in Keys |-> cvr[s].rows[k]] = cvr[s].rows
      BY <1>6 DEF View
    <2>6. cvr[s] = [version |-> cvr[s].version, config |-> cvr[s].config,
                    rows |-> cvr[s].rows]
      BY <1>6 DEF View
    <2> QED
      BY <1>4, <1>5, <2>2, <2>3, <2>4, <2>5, <2>6
  <1>10. CopyCurrent(s)'
    BY <1>1, <1>3, <1>5, <1>7, <1>8, <1>9 DEF CopyCurrent, Copied
  <1>11. ASSUME NEW r \in Sessions, r # s
         PROVE  CopyCurrent(r)'
    BY <1>1, <1>2, <1>3, <1>11 DEF CopyCurrent, Copied, SameSession
  <1>12. \A n \in Nodes : SeedCurrent(n)'
    BY <1>1, <1>2, <1>3 DEF SeedCurrent, Copied
  <1>13. (\A n \in Nodes : KeyedLater(queue[n])') /\ RowsUnderWay'
    BY <1>1, <1>2, StoreChains DEF ChainsInv
  <1>14. OneKeyed'
    <2> SUFFICES ASSUME ~flags.owned, NEW n \in Nodes, NEW i \in 1..Len(queue[n]),
                        queue[n][i].keys # {}
                 PROVE  FALSE
      BY <1>1 DEF OneKeyed
    <2>1. NotAt(s)
      BY <1>2 DEF ChainsInv, OneKeyed
    <2> QED
      BY <1>1, <2>1 DEF NotAt
  <1>15. RowsWillCome'
    <2>1. ~Abandoned
      BY <1>1 DEF Abandoned, NotAt
    <2> QED
      BY <1>1, <1>2, <2>1, StoreChains DEF ChainsInv, RowsWillCome
  <1> QED
    BY <1>10, <1>11, <1>12, <1>13, <1>14, <1>15 DEF CopyInv, ChainsInv

\* What a flush that commits builds on, and how far it moves the version.
LEMMA CommitBuilds ==
    ASSUME CountInv, BaseInv, instance.present, NEW s \in Sessions, FlushCommit(s),
           CopyCurrent(s)
    PROVE  /\ instance.version \in Nat /\ instance.version >= 1
           /\ instance'.version \in {instance.version, instance.version + 1}
           /\ instance'.version = cvr[s].version
           /\ Copied(before[s], NodeOf[s])
           /\ config' = cvr[s].config /\ intended' = cvr[s].rows
           /\ \A k \in Keys \ pending[s] : intended'[k] = intended[k]
           /\ instance'.version = instance.version =>
                 pending[s] = {} /\ config' = config /\ intended' = intended
           /\ UNCHANGED <<flags, seed, kept>>
  <1>1. /\ st[s] = "write" /\ instance'.version = cvr[s].version
        /\ config' = config \cup cvr[s].config /\ intended' = cvr[s].rows
        /\ UNCHANGED <<flags, seed, kept>> /\ ~instance.deleted
    BY FlushCommitOwn
  <1>2. /\ instance.version \in Nat /\ instance.version >= 1
        /\ cvr[s].version \in {instance.version, instance.version + 1}
    BY <1>1 DEF CountInv, Shapes, DbShape, BaseInv, Purged, Writing
  <1>3. /\ Copied(before[s], NodeOf[s])
        /\ config \subseteq cvr[s].config
        /\ \A k \in Keys \ pending[s] : cvr[s].rows[k] = intended[k]
        /\ cvr[s].version = instance.version =>
             pending[s] = {} /\ cvr[s] = before[s]
    BY <1>1 DEF CopyCurrent
  <1>4. config' = cvr[s].config
    BY <1>1, <1>3
  <1> QED
    BY <1>1, <1>2, <1>3, <1>4 DEF Copied

\* The rows that are under way after the commit.
LEMMA CommitKeyed ==
    ASSUME CountInv, BaseInv, instance.present, NEW s \in Sessions, FlushCommit(s),
           CopyCurrent(s)
    PROVE  /\ \A m \in Nodes : m # NodeOf[s] => NoKeyed(m) /\ NoKeyed(m)'
           /\ ~flags.owned => NoKeyed(NodeOf[s])
           /\ pending[s] = {} => (NoKeyed(NodeOf[s])' <=> NoKeyed(NodeOf[s]))
           /\ ~flags.defer => \A m \in Nodes : queue'[m] = <<>> /\ NoKeyed(m)'
           /\ flags.defer =>
                 LET q == queue[NodeOf[s]]
                 IN  /\ Len(queue'[NodeOf[s]]) = Len(q) + 1 /\ Len(q) \in Nat
                     /\ \A j \in 1..Len(q) : queue'[NodeOf[s]][j] = q[j]
                     /\ queue'[NodeOf[s]][Len(q) + 1] = Flush(s)
                     /\ \A j \in 1..(Len(q) + 1) : j \in 1..Len(q) \/ j = Len(q) + 1
  <1>1. /\ \A m \in Nodes : m # NodeOf[s] => NoKeyed(m)
        /\ ~flags.owned => NoKeyed(NodeOf[s])
    BY CommitBuilds, FlushCommitChains DEF Copied
  <1>2. \A m \in Nodes : m # NodeOf[s] => NoKeyed(m)'
    BY <1>1, FlushCommitChains DEF NoKeyed
  <1>3. ~flags.defer => \A m \in Nodes : queue'[m] = <<>> /\ NoKeyed(m)'
    <2>1. ~flags.defer => \A m \in Nodes : queue'[m] = <<>>
      BY FlushCommitChains DEF BaseInv, NotDeferred
    <2> QED
      BY <2>1 DEF NoKeyed
  <1>4. ASSUME flags.defer
        PROVE  LET q == queue[NodeOf[s]]
               IN  /\ Len(queue'[NodeOf[s]]) = Len(q) + 1 /\ Len(q) \in Nat
                   /\ \A j \in 1..Len(q) : queue'[NodeOf[s]][j] = q[j]
                   /\ queue'[NodeOf[s]][Len(q) + 1] = Flush(s)
                   /\ \A j \in 1..(Len(q) + 1) : j \in 1..Len(q) \/ j = Len(q) + 1
    <2>1. /\ queue'[NodeOf[s]] = Append(queue[NodeOf[s]], Flush(s))
          /\ queue[NodeOf[s]] \in Seq(ChainedFlush) /\ Flush(s) \in ChainedFlush
      BY <1>4, FlushCommitChains
    <2>2. Len(queue[NodeOf[s]]) \in Nat
      BY <2>1
    <2> QED
      BY <2>1, <2>2, ChainAppend
  <1>5. ASSUME pending[s] = {}
        PROVE  NoKeyed(NodeOf[s])' <=> NoKeyed(NodeOf[s])
    <2>1. Flush(s).keys = {}
      BY <1>5, FlushCommitChains
    <2>2. CASE flags.defer
      <3> DEFINE q == queue[NodeOf[s]]
                 p == queue'[NodeOf[s]]
      <3>1. /\ Len(p) = Len(q) + 1 /\ Len(q) \in Nat
            /\ \A j \in 1..Len(q) : p[j] = q[j]
            /\ p[Len(q) + 1].keys = {}
            /\ \A j \in 1..(Len(q) + 1) : j \in 1..Len(q) \/ j = Len(q) + 1
            /\ \A j \in 1..Len(q) : j \in 1..(Len(q) + 1)
        BY <1>4, <2>1, <2>2
      <3> HIDE DEF q, p
      <3>2. (\A j \in 1..Len(p) : p[j].keys = {}) <=> (\A j \in 1..Len(q) : q[j].keys = {})
        BY <3>1
      <3> QED
        BY <3>2 DEF NoKeyed, p, q
    <2>3. CASE ~flags.defer
      BY <2>3, FlushCommitChains DEF NoKeyed
    <2> QED
      BY <2>2, <2>3
  <1> QED
    BY <1>1, <1>2, <1>3, <1>4, <1>5

LEMMA CommitCopies ==
    ASSUME CountInv, BaseInv, instance.present, NEW s \in Sessions, FlushCommit(s),
           \A r \in Sessions : CopyCurrent(r),
           \A n \in Nodes : SeedCurrent(n)
    PROVE  /\ \A r \in Sessions : CopyCurrent(r)'
           /\ \A n \in Nodes : SeedCurrent(n)'
  <1>1. /\ instance.version \in Nat /\ instance.version >= 1
        /\ instance'.version \in {instance.version, instance.version + 1}
        /\ config' = cvr[s].config /\ intended' = cvr[s].rows
        /\ UNCHANGED <<flags, seed>>
        /\ instance'.version = cvr[s].version
    BY CommitBuilds
  <1>2. ASSUME instance'.version = instance.version
        PROVE  /\ UNCHANGED <<config, intended, flags>>
               /\ \A m \in Nodes : NoKeyed(m)' <=> NoKeyed(m)
    BY <1>2, CommitBuilds, CommitKeyed
  <1>3. ASSUME NEW c, NEW n, c.version \in Int, c.version <= instance.version,
               c.version = instance.version => Copied(c, n)
        PROVE  /\ c.version <= instance'.version
               /\ c.version = instance'.version =>
                     /\ c.config = config'
                     /\ c.rows = intended'
                     /\ \A m \in Nodes : m # n \/ ~flags'.owned => NoKeyed(m)'
    <2>1. c.version <= instance'.version
      BY <1>1, <1>3
    <2>2. ASSUME c.version = instance'.version
          PROVE  /\ c.config = config'
                 /\ c.rows = intended'
                 /\ \A m \in Nodes : m # n \/ ~flags'.owned => NoKeyed(m)'
      <3>1. instance'.version = instance.version /\ c.version = instance.version
        BY <1>1, <1>3, <2>2
      <3> QED
        BY <1>2, <1>3, <3>1 DEF Copied
    <2> QED
      BY <2>1, <2>2
  <1>4. CopyCurrent(s)'
    <2>1. st'[s] = "idle" /\ pending'[s] = {} /\ cvr'[s] = Kept(s)
      BY FlushCommitOwn
    <2>2. CASE flags.owned
      <3>1. cvr'[s] = cvr[s]
        BY <2>1, <2>2 DEF Kept
      <3> QED
        BY <1>1, <2>1, <2>2, <3>1, CommitKeyed DEF CopyCurrent, Copied, Loading
    <2>3. CASE ~flags.owned
      <3>1. cvr'[s].version = 0
        BY <2>1, <2>3, EmptyView DEF Kept
      <3> QED
        BY <1>1, <2>1, <3>1 DEF CopyCurrent
    <2> QED
      BY <2>2, <2>3
  <1>5. ASSUME NEW r \in Sessions, r # s
        PROVE  CopyCurrent(r)'
    <2>1. /\ st'[r] = st[r] /\ cvr'[r] = cvr[r] /\ pending'[r] = pending[r]
          /\ st[r] # "write"
      BY <1>5, FlushCommitOwn DEF SameSession
    <2>2. /\ cvr[r].version <= instance.version
          /\ pending[r] = {}
          /\ cvr[r].version = instance.version =>
               /\ st[r] \notin Loading => Copied(cvr[r], NodeOf[r])
               /\ st[r] \in Loading => \A m \in Nodes : NoKeyed(m)
               /\ st[r] = "rows" => cvr[r].config = config
      BY <2>1 DEF CopyCurrent
    <2>3. cvr[r].version \in Nat
      BY DEF CountInv, Shapes, SessionsShape, View
    <2>4. CASE cvr[r].version = instance'.version
      <3>1. instance'.version = instance.version /\ cvr[r].version = instance.version
        BY <1>1, <2>2, <2>3, <2>4
      <3> QED
        BY <1>2, <2>1, <2>2, <2>3, <3>1 DEF CopyCurrent, Copied
    <2>5. CASE cvr[r].version # instance'.version
      <3>1. cvr[r].version <= instance'.version
        BY <1>1, <2>2, <2>3
      <3> QED
        BY <2>1, <2>2, <2>5, <3>1 DEF CopyCurrent
    <2> QED
      BY <2>4, <2>5
  <1>6. ASSUME NEW n \in Nodes
        PROVE  SeedCurrent(n)'
    <2>1. seed[n].version \in Int
      BY NoSeedVersion DEF CountInv, Shapes, SessionsShape, View
    <2> QED
      BY <1>1, <1>3, <2>1 DEF SeedCurrent, Copied
  <1> QED
    BY <1>4, <1>5, <1>6

LEMMA CommitFinal ==
    ASSUME CountInv, BaseInv, instance.present, NEW s \in Sessions, FlushCommit(s),
           CopyCurrent(s), NEW k \in Keys, Final(k)
    PROVE  Final(k)'
  <1>1. /\ intended' = cvr[s].rows
        /\ \A j \in Keys \ pending[s] : intended'[j] = intended[j]
    BY CommitBuilds
  <1>2. CASE ~flags.defer
    <2>1. rows' = Written(Flush(s)) /\ \A n \in Nodes : queue[n] = <<>> /\ queue'[n] = <<>>
      BY <1>2, FlushCommitChains DEF BaseInv, NotDeferred
    <2>2. rows[k] = intended[k]
      BY <2>1 DEF Final
    <2>3. rows'[k] = intended'[k]
      <3>1. rows'[k] = IF k \in pending[s] THEN cvr[s].rows[k] ELSE rows[k]
        BY <2>1, FlushCommitChains DEF Written
      <3> QED
        BY <1>1, <2>2, <3>1
    <2> QED
      BY <2>1, <2>3 DEF Final
  <1>3. CASE flags.defer
    <2> DEFINE n0 == NodeOf[s]
               q == queue[n0]
    <2>1. /\ Len(queue'[n0]) = Len(q) + 1 /\ Len(q) \in Nat
          /\ \A j \in 1..Len(q) : queue'[n0][j] = q[j]
          /\ queue'[n0][Len(q) + 1] = Flush(s)
          /\ \A j \in 1..Len(queue'[n0]) : j \in 1..Len(q) \/ j = Len(q) + 1
      BY <1>3, CommitKeyed
    <2>2. /\ Flush(s).keys = pending[s] /\ Flush(s).rows = cvr[s].rows
          /\ rows' = rows /\ n0 \in Nodes
          /\ \A n \in Nodes : n # n0 => queue'[n] = queue[n]
      BY <1>3, FlushCommitChains
    <2> HIDE DEF q, n0
    <2>3. CASE k \in pending[s]
      <3>1. Len(q) + 1 \in 1..Len(queue'[n0])
        BY <2>1
      <3>2. \A j \in 1..Len(queue'[n0]) : ~(j > Len(q) + 1)
        BY <2>1
      <3>3. /\ k \in queue'[n0][Len(q) + 1].keys
            /\ queue'[n0][Len(q) + 1].rows[k] = intended'[k]
        BY <1>1, <2>1, <2>2, <2>3
      <3> QED
        BY <2>2, <3>1, <3>2, <3>3, Zenon DEF Final
    <2>4. CASE k \notin pending[s]
      <3>0. intended'[k] = intended[k]
        BY <1>1, <2>4
      <3>1. CASE \E n \in Nodes : \E i \in 1..Len(queue[n]) :
                    /\ k \in queue[n][i].keys
                    /\ queue[n][i].rows[k] = intended[k]
                    /\ \A j \in 1..Len(queue[n]) : j > i => k \notin queue[n][j].keys
        <4>1. PICK n \in Nodes : \E i \in 1..Len(queue[n]) :
                    /\ k \in queue[n][i].keys
                    /\ queue[n][i].rows[k] = intended[k]
                    /\ \A j \in 1..Len(queue[n]) : j > i => k \notin queue[n][j].keys
          BY <3>1
        <4>2. PICK i \in 1..Len(queue[n]) :
                    /\ k \in queue[n][i].keys
                    /\ queue[n][i].rows[k] = intended[k]
                    /\ \A j \in 1..Len(queue[n]) : j > i => k \notin queue[n][j].keys
          BY <4>1
        <4>3. i \in 1..Len(queue'[n]) /\ queue'[n][i] = queue[n][i]
          BY <2>1, <2>2, <4>2 DEF q
        <4>4. \A j \in 1..Len(queue'[n]) : j > i => k \notin queue'[n][j].keys
          <5>1. CASE n # n0
            BY <2>2, <4>2, <5>1
          <5>2. CASE n = n0
            BY <2>1, <2>2, <2>4, <4>2, <5>2 DEF q
          <5> QED
            BY <5>1, <5>2
        <4> QED
          BY <3>0, <4>2, <4>3, <4>4 DEF Final
      <3>2. CASE /\ rows[k] = intended[k]
                 /\ \A n \in Nodes : \A i \in 1..Len(queue[n]) : k \notin queue[n][i].keys
        <4>1. \A n \in Nodes : \A i \in 1..Len(queue'[n]) : k \notin queue'[n][i].keys
          BY <2>1, <2>2, <2>4, <3>2 DEF q
        <4> QED
          BY <2>2, <3>0, <3>2, <4>1 DEF Final
      <3> QED
        BY <3>1, <3>2 DEF Final
    <2> QED
      BY <2>3, <2>4
  <1> QED
    BY <1>2, <1>3

LEMMA CommitChains ==
    ASSUME CountInv, BaseInv, instance.present, NEW s \in Sessions, FlushCommit(s),
           \A r \in Sessions : CopyCurrent(r), ChainsInv
    PROVE  ChainsInv'
  <1> DEFINE n0 == NodeOf[s]
             q == queue[n0]
  <1>1. /\ instance.version \in Nat /\ rowsVersion \in Nat
        /\ instance'.version \in {instance.version, instance.version + 1}
        /\ instance'.version = cvr[s].version /\ instance'.version >= 1
        /\ instance'.version = instance.version => pending[s] = {}
        /\ flags' = flags /\ ~instance.deleted
    BY CommitBuilds, FlushCommitOwn DEF CountInv, Shapes, DbShape
  <1>2. /\ rowsVersion <= instance.version
        /\ \A n \in Nodes : \A i \in 1..Len(queue[n]) :
              queue[n][i].version \in Nat /\ queue[n][i].version <= instance.version
    <2>1. \A n \in Nodes : queue[n] \in Seq(ChainedFlush)
      BY DEF CountInv, Shapes, RestShape
    <2> QED
      BY <1>1, <2>1, ChainTypes DEF BaseInv, ChainsOrdered
  <1>3. /\ \A m \in Nodes : m # n0 => queue'[m] = queue[m]
        /\ Flush(s).keys = pending[s] /\ Flush(s).version = cvr[s].version
        /\ n0 \in Nodes
        /\ flags.defer => rowsVersion' = rowsVersion
    BY FlushCommitChains
  <1>4. ASSUME NEW n \in Nodes
        PROVE  KeyedLater(queue'[n])
    <2>1. CASE queue'[n] = queue[n]
      BY <2>1 DEF ChainsInv
    <2>2. CASE queue'[n] # queue[n]
      <3>1. n = n0 /\ flags.defer
        BY <1>3, <2>2, FlushCommitChains
      <3>2. /\ Len(queue'[n]) = Len(q) + 1 /\ Len(q) \in Nat
            /\ \A j \in 1..Len(q) : queue'[n][j] = q[j]
            /\ queue'[n][Len(q) + 1] = Flush(s)
            /\ \A j \in 1..Len(queue'[n]) : j \in 1..Len(q) \/ j = Len(q) + 1
        BY <3>1, CommitKeyed
      <3>3. ASSUME NEW i \in 1..Len(queue'[n]), NEW j \in 1..Len(queue'[n]),
                   i < j, queue'[n][j].keys # {}
            PROVE  queue'[n][i].version < queue'[n][j].version
        <4>1. i \in 1..Len(q)
          BY <3>2, <3>3
        <4>2. CASE j \in 1..Len(q)
          BY <3>1, <3>2, <3>3, <4>1, <4>2 DEF ChainsInv, KeyedLater
        <4>3. CASE j = Len(q) + 1
          <5>1. pending[s] # {} /\ queue'[n][j].version = instance.version + 1
            BY <1>1, <1>3, <3>2, <3>3, <4>3
          <5>2. queue'[n][i] = queue[n][i] /\ i \in 1..Len(queue[n])
            BY <3>1, <3>2, <4>1
          <5>3. queue[n][i].version \in Nat /\ queue[n][i].version <= instance.version
            BY <1>2, <5>2
          <5> QED
            BY <1>1, <5>1, <5>2, <5>3
        <4> QED
          BY <3>2, <4>2, <4>3
      <3> QED
        BY <3>3 DEF KeyedLater
    <2> QED
      BY <2>1, <2>2
  <1>5. RowsUnderWay'
    <2> SUFFICES ASSUME NEW n \in Nodes, ~NoKeyed(n)'
                 PROVE  /\ rowsVersion' # instance'.version
                        /\ \A m \in Nodes : m # n => NoKeyed(m)'
                        /\ \A m \in Nodes : \A i \in 1..Len(queue'[m]) :
                              m # n => queue'[m][i].version < instance'.version
      BY DEF RowsUnderWay
    <2>1. n = n0 /\ flags.defer /\ \A m \in Nodes : m # n => NoKeyed(m)'
      BY CommitKeyed
    <2>2. rowsVersion' = rowsVersion /\ \A m \in Nodes : m # n => queue'[m] = queue[m]
      BY <1>3, <2>1
    <2>3. CASE instance'.version = instance.version
      <3>1. ~NoKeyed(n)
        BY <1>1, <2>1, <2>3, CommitKeyed
      <3> QED
        BY <2>1, <2>2, <2>3, <3>1 DEF ChainsInv, RowsUnderWay
    <2>4. CASE instance'.version = instance.version + 1
      <3>1. rowsVersion' # instance'.version
        BY <1>1, <1>2, <2>2, <2>4
      <3>2. ASSUME NEW m \in Nodes, NEW i \in 1..Len(queue'[m]), m # n
            PROVE  queue'[m][i].version < instance'.version
        <4>1. queue'[m] = queue[m]
          BY <2>2, <3>2
        <4>2. queue[m][i].version \in Nat /\ queue[m][i].version <= instance.version
          BY <1>2, <3>2, <4>1
        <4> QED
          BY <1>1, <2>4, <4>1, <4>2
      <3> QED
        BY <2>1, <3>1, <3>2
    <2> QED
      BY <1>1, <2>3, <2>4
  <1>6. OneKeyed'
    <2> SUFFICES ASSUME ~flags.owned, NEW n \in Nodes, NEW i \in 1..Len(queue'[n]),
                        queue'[n][i].keys # {}
                 PROVE  /\ queue'[n][i].version = instance'.version
                        /\ i = Len(queue'[n])
                        /\ \A r \in Sessions : NotAt(r)'
      BY <1>1 DEF OneKeyed
    <2>1. n = n0 /\ flags.defer /\ NoKeyed(n0)
      BY CommitKeyed DEF NoKeyed
    <2>2. /\ Len(queue'[n]) = Len(q) + 1 /\ Len(q) \in Nat
          /\ \A j \in 1..Len(q) : queue'[n][j] = q[j]
          /\ queue'[n][Len(q) + 1] = Flush(s)
          /\ \A j \in 1..Len(queue'[n]) : j \in 1..Len(q) \/ j = Len(q) + 1
      BY <2>1, CommitKeyed
    <2>3. i = Len(q) + 1
      BY <2>1, <2>2 DEF NoKeyed
    <2>4. pending[s] # {} /\ instance'.version = instance.version + 1
          /\ queue'[n][i].version = instance'.version
      BY <1>1, <1>3, <2>2, <2>3
    <2>5. ASSUME NEW r \in Sessions
          PROVE  NotAt(r)'
      <3>1. CASE r = s
        BY <1>1, <3>1, FlushCommitOwn, EmptyView DEF NotAt, Kept
      <3>2. CASE r # s
        <4>1. st[r] # "write" /\ st'[r] = st[r] /\ cvr'[r] = cvr[r]
          BY <3>2, FlushCommitOwn DEF SameSession
        <4>2. cvr[r].version <= instance.version /\ cvr[r].version \in Nat
          BY <4>1 DEF CopyCurrent, CountInv, Shapes, SessionsShape, View
        <4> QED
          BY <1>1, <2>4, <4>1, <4>2 DEF NotAt
      <3> QED
        BY <3>1, <3>2
    <2> QED
      BY <2>2, <2>3, <2>4, <2>5
  <1>7. RowsWillCome'
    <2>1. ~Abandoned
      BY FlushCommitOwn DEF Abandoned, NotAt
    <2>2. \A k \in Keys : Final(k)
      BY <2>1 DEF ChainsInv, RowsWillCome
    <2>3. \A k \in Keys : Final(k)'
      BY <2>2, CommitFinal
    <2> QED
      BY <2>3 DEF RowsWillCome
  <1> QED
    BY <1>4, <1>5, <1>6, <1>7 DEF ChainsInv

\* Copies stay what they are when a chain gets shorter.
LEMMA ShorterCopies ==
    ASSUME UNCHANGED <<flags, config, intended>>,
           instance'.version = instance.version,
           \A m \in Nodes : NoKeyed(m) => NoKeyed(m)',
           NEW s \in Sessions, SameSession(s), CopyCurrent(s)
    PROVE  CopyCurrent(s)'
  BY DEF CopyCurrent, Copied, SameSession

LEMMA ShorterSeeds ==
    ASSUME UNCHANGED <<flags, config, intended>>,
           instance'.version = instance.version,
           \A m \in Nodes : NoKeyed(m) => NoKeyed(m)',
           NEW n \in Nodes, seed'[n] = seed[n], SeedCurrent(n)
    PROVE  SeedCurrent(n)'
  BY DEF SeedCurrent, Copied

LEMMA TailKeyedLater ==
    ASSUME NEW q \in Seq(ChainedFlush), q # <<>>, KeyedLater(q)
    PROVE  KeyedLater(Tail(q))
  <1> SUFFICES ASSUME NEW i \in 1..Len(Tail(q)), NEW j \in 1..Len(Tail(q)), i < j,
                      Tail(q)[j].keys # {}
               PROVE  Tail(q)[i].version < Tail(q)[j].version
    BY DEF KeyedLater
  <1>1. /\ Tail(q)[i] = q[i + 1] /\ i + 1 \in 1..Len(q)
        /\ Tail(q)[j] = q[j + 1] /\ j + 1 \in 1..Len(q)
        /\ i + 1 < j + 1
    BY ChainTail
  <1> QED
    BY <1>1 DEF KeyedLater

\* What is left of the chains after a deferred flush has run.
LEMMA DeferredLeft ==
    ASSUME CountInv, NEW n \in Nodes, DeferredFlush(n) \/ DeferredFlushFails(n)
    PROVE  /\ \A m \in Nodes : NoKeyed(m) => NoKeyed(m)'
           /\ \A i \in 1..Len(queue'[n]) : /\ queue'[n][i] = queue[n][i + 1]
                                           /\ i + 1 \in 1..Len(queue[n])
                                           /\ 1 < i + 1
           /\ \A i \in 1..Len(queue[n]) :
                 i # 1 => i - 1 \in 1..Len(queue'[n]) /\ queue'[n][i - 1] = queue[n][i]
           /\ Len(queue[n]) \in Nat /\ Len(queue'[n]) = Len(queue[n]) - 1
           /\ 1 \in 1..Len(queue[n])
  <1>1. /\ queue[n] \in Seq(ChainedFlush) /\ queue[n] # <<>>
        /\ queue'[n] = Tail(queue[n])
        /\ \A m \in Nodes : m # n => queue'[m] = queue[m]
    BY DeferredOwn
  <1>2. /\ Len(queue[n]) \in Nat /\ Len(queue[n]) >= 1
        /\ Len(queue'[n]) = Len(queue[n]) - 1
        /\ \A i \in 1..Len(queue'[n]) : /\ queue'[n][i] = queue[n][i + 1]
                                        /\ i + 1 \in 1..Len(queue[n])
                                        /\ 1 < i + 1
    BY <1>1, ChainTail
  <1>3. \A i \in 1..Len(queue[n]) :
           i # 1 => i - 1 \in 1..Len(queue'[n]) /\ queue'[n][i - 1] = queue[n][i]
    <2> TAKE i \in 1..Len(queue[n])
    <2> HAVE i # 1
    <2>1. i - 1 \in 1..Len(queue'[n]) /\ (i - 1) + 1 = i
      BY <1>2
    <2> QED
      BY <1>2, <2>1
  <1>4. ASSUME NEW m \in Nodes, NoKeyed(m)
        PROVE  NoKeyed(m)'
    <2>1. CASE m = n
      BY <1>2, <1>4, <2>1 DEF NoKeyed
    <2>2. CASE m # n
      BY <1>1, <1>4, <2>2 DEF NoKeyed
    <2> QED
      BY <2>1, <2>2
  <1> QED
    BY <1>2, <1>3, <1>4

LEMMA DeferredFinal ==
    ASSUME CountInv, NEW n0 \in Nodes, DeferredFlush(n0), RowsUnderWay,
           NEW k \in Keys, Final(k)
    PROVE  Final(k)'
  <1>1. /\ intended' = intended
        /\ rows'[k] = IF k \in queue[n0][1].keys THEN queue[n0][1].rows[k] ELSE rows[k]
        /\ \A m \in Nodes : m # n0 => queue'[m] = queue[m]
    BY DeferredOwn DEF Written
  <1>2. /\ \A i \in 1..Len(queue'[n0]) : /\ queue'[n0][i] = queue[n0][i + 1]
                                         /\ i + 1 \in 1..Len(queue[n0])
                                         /\ 1 < i + 1
        /\ \A i \in 1..Len(queue[n0]) :
              i # 1 => i - 1 \in 1..Len(queue'[n0]) /\ queue'[n0][i - 1] = queue[n0][i]
        /\ 1 \in 1..Len(queue[n0])
    BY DeferredLeft
  <1>3. CASE /\ rows[k] = intended[k]
             /\ \A n \in Nodes : \A i \in 1..Len(queue[n]) : k \notin queue[n][i].keys
    <2>1. rows'[k] = intended'[k]
      BY <1>1, <1>2, <1>3
    <2>2. ASSUME NEW n \in Nodes, NEW i \in 1..Len(queue'[n])
          PROVE  k \notin queue'[n][i].keys
      <3>1. CASE n = n0
        BY <1>2, <1>3, <2>2, <3>1
      <3>2. CASE n # n0
        BY <1>1, <1>3, <2>2, <3>2
      <3> QED
        BY <3>1, <3>2
    <2> QED
      BY <2>1, <2>2 DEF Final
  <1>4. ASSUME NEW n \in Nodes, NEW i \in 1..Len(queue[n]),
               k \in queue[n][i].keys,
               queue[n][i].rows[k] = intended[k],
               \A j \in 1..Len(queue[n]) : j > i => k \notin queue[n][j].keys
        PROVE  Final(k)'
    <2>1. CASE n # n0
      <3>1. queue'[n] = queue[n]
        BY <1>1, <2>1
      <3> QED
        BY SMTT(40), <1>1, <1>4, <3>1 DEF Final
    <2>2. CASE n = n0 /\ i # 1
      <3>1. i - 1 \in 1..Len(queue'[n]) /\ queue'[n][i - 1] = queue[n][i]
        BY <1>2, <2>2
      <3>2. \A j \in 1..Len(queue'[n]) : j > i - 1 => k \notin queue'[n][j].keys
        <4> TAKE j \in 1..Len(queue'[n])
        <4> HAVE j > i - 1
        <4>1. queue'[n][j] = queue[n][j + 1] /\ j + 1 \in 1..Len(queue[n]) /\ j + 1 > i
          BY <1>2, <2>2
        <4> QED
          BY <1>4, <4>1
      <3> QED
        BY SMTT(40), <1>1, <1>4, <3>1, <3>2 DEF Final
    <2>3. CASE n = n0 /\ i = 1
      <3>1. rows'[k] = intended'[k]
        BY <1>1, <1>4, <2>3
      <3>2. ~NoKeyed(n)
        BY <1>4 DEF NoKeyed
      <3>3. ASSUME NEW m \in Nodes, NEW j \in 1..Len(queue'[m])
            PROVE  k \notin queue'[m][j].keys
        <4>1. CASE m = n
          <5>1. queue'[m][j] = queue[m][j + 1] /\ j + 1 \in 1..Len(queue[m]) /\ j + 1 > 1
            BY <1>2, <2>3, <3>3, <4>1
          <5> QED
            BY <1>4, <2>3, <4>1, <5>1
        <4>2. CASE m # n
          <5>1. NoKeyed(m) /\ queue'[m] = queue[m]
            BY <1>1, <2>3, <3>2, <4>2 DEF RowsUnderWay
          <5> QED
            BY <3>3, <5>1 DEF NoKeyed
        <4> QED
          BY <4>1, <4>2
      <3> QED
        BY <3>1, <3>3 DEF Final
    <2> QED
      BY <2>1, <2>2, <2>3
  <1> QED
    BY <1>3, <1>4 DEF Final

\* A deferred flush that is lost leaves the rows it was to write behind.
LEMMA LostAbandons ==
    ASSUME CountInv, BaseInv, ~instance.deleted, ~flags.owned, ChainsInv,
           NEW n \in Nodes, ~NoKeyed(n)
    PROVE  /\ rowsVersion # instance.version
           /\ \A m \in Nodes : \A i \in 1..Len(queue[m]) :
                 queue[m][i].version = instance.version => m = n /\ i = Len(queue[n])
           /\ \A i \in 1..Len(queue[n]) :
                 queue[n][i].keys # {} => i = Len(queue[n])
           /\ \A s \in Sessions : NotAt(s)
  <1>1. PICK i \in 1..Len(queue[n]) : queue[n][i].keys # {}
    BY DEF NoKeyed
  <1>2. /\ i = Len(queue[n]) /\ queue[n][i].version = instance.version
        /\ \A s \in Sessions : NotAt(s)
    BY <1>1 DEF ChainsInv, OneKeyed
  <1>3. /\ rowsVersion # instance.version
        /\ \A m \in Nodes : \A j \in 1..Len(queue[m]) :
              m # n => queue[m][j].version < instance.version
    BY DEF ChainsInv, RowsUnderWay
  <1>4. instance.version \in Nat
    BY DEF CountInv, Shapes, DbShape
  <1>5. \A j \in 1..Len(queue[n]) : queue[n][j].keys # {} => j = Len(queue[n])
    BY DEF ChainsInv, OneKeyed
  <1>6. queue[n] \in Seq(ChainedFlush) /\ Len(queue[n]) \in Nat
    BY ChainTypes DEF CountInv, Shapes, RestShape
  <1>7. ASSUME NEW j \in 1..Len(queue[n]), queue[n][j].version = instance.version
        PROVE  j = Len(queue[n])
    <2>1. CASE j < i
      <3>1. queue[n][j].version < queue[n][i].version
        BY <1>1, <2>1 DEF ChainsInv, KeyedLater
      <3> QED
        BY <1>2, <1>4, <1>7, <3>1
    <2>2. CASE j >= i
      BY <1>2, <1>6, <2>2
    <2> QED
      BY <2>1, <2>2
  <1> QED
    BY <1>2, <1>3, <1>4, <1>5, <1>7

\* A deferred flush without rows may be lost.
LEMMA LostNothing ==
    ASSUME CountInv, NEW n0 \in Nodes, DeferredFlushFails(n0),
           queue[n0][1].keys = {}, NEW k \in Keys, Final(k)
    PROVE  Final(k)'
  <1>1. /\ intended' = intended /\ rows' = rows
        /\ \A m \in Nodes : m # n0 => queue'[m] = queue[m]
    BY DeferredOwn
  <1>2. /\ \A i \in 1..Len(queue'[n0]) : /\ queue'[n0][i] = queue[n0][i + 1]
                                         /\ i + 1 \in 1..Len(queue[n0])
        /\ \A i \in 1..Len(queue[n0]) :
              i # 1 => i - 1 \in 1..Len(queue'[n0]) /\ queue'[n0][i - 1] = queue[n0][i]
    BY DeferredLeft
  <1>3. ASSUME NEW n \in Nodes, NEW i \in 1..Len(queue[n]),
               k \in queue[n][i].keys,
               queue[n][i].rows[k] = intended[k],
               \A j \in 1..Len(queue[n]) : j > i => k \notin queue[n][j].keys
        PROVE  Final(k)'
    <2>1. CASE n # n0
      <3>1. queue'[n] = queue[n]
        BY <1>1, <2>1
      <3> QED
        BY <1>1, <1>3, <3>1 DEF Final
    <2>2. CASE n = n0
      <3>1. i # 1
        BY <1>3, <2>2
      <3>2. i - 1 \in 1..Len(queue'[n]) /\ queue'[n][i - 1] = queue[n][i]
        BY <1>2, <2>2, <3>1
      <3>3. \A j \in 1..Len(queue'[n]) : j > i - 1 => k \notin queue'[n][j].keys
        <4> TAKE j \in 1..Len(queue'[n])
        <4> HAVE j > i - 1
        <4>1. queue'[n][j] = queue[n][j + 1] /\ j + 1 \in 1..Len(queue[n]) /\ j + 1 > i
          BY <1>2, <2>2
        <4> QED
          BY <1>3, <4>1
      <3> QED
        BY <1>1, <1>3, <3>2, <3>3 DEF Final
    <2> QED
      BY <2>1, <2>2
  <1>4. CASE /\ rows[k] = intended[k]
             /\ \A n \in Nodes : \A i \in 1..Len(queue[n]) : k \notin queue[n][i].keys
    <2>1. ASSUME NEW n \in Nodes, NEW i \in 1..Len(queue'[n])
          PROVE  k \notin queue'[n][i].keys
      <3>1. CASE n = n0
        BY <1>2, <1>4, <2>1, <3>1
      <3>2. CASE n # n0
        BY <1>1, <1>4, <2>1, <3>2
      <3> QED
        BY <3>1, <3>2
    <2> QED
      BY <1>1, <1>4, <2>1 DEF Final
  <1> QED
    BY <1>3, <1>4 DEF Final

LEMMA DeferredCopy ==
    ASSUME CountInv, BaseInv, NEW n0 \in Nodes,
           DeferredFlush(n0) \/ DeferredFlushFails(n0), CopyInv, Clean', Settled'
    PROVE  CopyInv'
  <1>1. /\ UNCHANGED <<flags, instance, config, intended, session, kept>>
        /\ queue[n0] \in Seq(ChainedFlush) /\ queue[n0] # <<>>
        /\ queue'[n0] = Tail(queue[n0])
        /\ \A m \in Nodes : m # n0 => queue'[m] = queue[m]
    BY DeferredOwn
  <1>2. /\ \A m \in Nodes : NoKeyed(m) => NoKeyed(m)'
        /\ \A i \in 1..Len(queue'[n0]) : /\ queue'[n0][i] = queue[n0][i + 1]
                                         /\ i + 1 \in 1..Len(queue[n0])
                                         /\ 1 < i + 1
        /\ \A i \in 1..Len(queue[n0]) :
              i # 1 => i - 1 \in 1..Len(queue'[n0]) /\ queue'[n0][i - 1] = queue[n0][i]
        /\ Len(queue[n0]) \in Nat /\ Len(queue'[n0]) = Len(queue[n0]) - 1
        /\ 1 \in 1..Len(queue[n0])
    BY DeferredLeft
  <1>3. /\ \A r \in Sessions : CopyCurrent(r)
        /\ \A n \in Nodes : SeedCurrent(n)
        /\ ChainsInv /\ ~instance.deleted
    BY <1>1 DEF CopyInv, Clean
  <1>4. \A r \in Sessions : SameSession(r) /\ (NotAt(r) => NotAt(r)')
    BY <1>1 DEF session, SameSession, NotAt
  <1>5. \A r \in Sessions : CopyCurrent(r)'
    BY <1>1, <1>2, <1>3, <1>4, ShorterCopies
  <1>6. \A n \in Nodes : SeedCurrent(n)'
    BY <1>1, <1>2, <1>3, ShorterSeeds DEF session
  <1>7. ASSUME NEW n \in Nodes
        PROVE  KeyedLater(queue'[n])
    <2>1. KeyedLater(queue[n])
      BY <1>3 DEF ChainsInv
    <2> QED
      BY <1>1, <2>1, TailKeyedLater
  <1>8. /\ instance.version \in Nat
        /\ \A n \in Nodes : \A i \in 1..Len(queue[n]) :
              queue[n][i].version \in Nat /\ queue[n][i].version <= instance.version
    <2>1. \A n \in Nodes : queue[n] \in Seq(ChainedFlush)
      BY DEF CountInv, Shapes, RestShape
    <2>2. instance.version \in Nat
      BY DEF CountInv, Shapes, DbShape
    <2> QED
      BY <1>3, <2>1, <2>2, ChainTypes DEF BaseInv, ChainsOrdered
  <1>9. RowsUnderWay'
    <2> SUFFICES ASSUME NEW n \in Nodes, ~NoKeyed(n)'
                 PROVE  /\ rowsVersion' # instance'.version
                        /\ \A m \in Nodes : m # n => NoKeyed(m)'
                        /\ \A m \in Nodes : \A i \in 1..Len(queue'[m]) :
                              m # n => queue'[m][i].version < instance'.version
      BY DEF RowsUnderWay
    <2>1. ~NoKeyed(n)
      BY <1>2
    <2>2. /\ rowsVersion # instance.version
          /\ \A m \in Nodes : m # n => NoKeyed(m)
          /\ \A m \in Nodes : \A i \in 1..Len(queue[m]) :
                m # n => queue[m][i].version < instance.version
      BY <1>3, <2>1 DEF ChainsInv, RowsUnderWay
    <2>3. \A m \in Nodes : m # n => NoKeyed(m)'
      BY <1>2, <2>2
    <2>4. ASSUME NEW m \in Nodes, NEW i \in 1..Len(queue'[m]), m # n
          PROVE  queue'[m][i].version < instance'.version
      <3>1. CASE m = n0
        BY <1>1, <1>2, <2>2, <2>4, <3>1
      <3>2. CASE m # n0
        BY <1>1, <2>2, <2>4, <3>2
      <3> QED
        BY <3>1, <3>2
    <2>5. rowsVersion' # instance'.version
      <3>1. CASE rowsVersion' = rowsVersion
        BY <1>1, <2>2, <3>1
      <3>2. CASE rowsVersion' = queue[n0][1].version
        <4>1. CASE n # n0
          BY <1>1, <1>2, <1>8, <2>2, <3>2, <4>1
        <4>2. CASE n = n0
          <5>1. PICK i \in 1..Len(queue'[n]) : queue'[n][i].keys # {}
            BY DEF NoKeyed
          <5>2. /\ queue[n][i + 1].keys # {} /\ i + 1 \in 1..Len(queue[n]) /\ 1 < i + 1
                /\ 1 \in 1..Len(queue[n])
            BY <1>2, <4>2, <5>1
          <5>3. queue[n][1].version < queue[n][i + 1].version
            BY <1>3, <5>2 DEF ChainsInv, KeyedLater
          <5>4. /\ queue[n][1].version \in Nat /\ queue[n][i + 1].version \in Nat
                /\ queue[n][i + 1].version <= instance.version
            BY <1>8, <5>2
          <5> QED
            BY <1>1, <1>8, <3>2, <4>2, <5>3, <5>4
        <4> QED
          BY <4>1, <4>2
      <3> QED
        BY <3>1, <3>2, DeferredOwn
    <2> QED
      BY <2>3, <2>4, <2>5
  <1>10. OneKeyed'
    <2> SUFFICES ASSUME ~flags.owned, NEW n \in Nodes, NEW i \in 1..Len(queue'[n]),
                        queue'[n][i].keys # {}
                 PROVE  /\ queue'[n][i].version = instance.version
                        /\ i = Len(queue'[n])
                        /\ \A r \in Sessions : NotAt(r)'
      BY <1>1 DEF OneKeyed
    <2>1. CASE n # n0
      <3>1. queue'[n] = queue[n]
        BY <1>1, <2>1
      <3> QED
        BY <1>3, <1>4, <3>1 DEF ChainsInv, OneKeyed
    <2>2. CASE n = n0
      <3>1. queue[n][i + 1] = queue'[n][i] /\ i + 1 \in 1..Len(queue[n])
        BY <1>2, <2>2
      <3>2. /\ queue[n][i + 1].version = instance.version
            /\ i + 1 = Len(queue[n])
            /\ \A r \in Sessions : NotAt(r)
        BY <1>3, <3>1 DEF ChainsInv, OneKeyed
      <3> QED
        BY <1>2, <1>4, <2>2, <3>1, <3>2
    <2> QED
      BY <2>1, <2>2
  <1>11. RowsWillCome'
    <2>1. CASE Abandoned
      <3>1. /\ ~flags.owned /\ rowsVersion # instance.version
            /\ \A n \in Nodes : \A i \in 1..Len(queue[n]) :
                  queue[n][i].version # instance.version
            /\ \A s \in Sessions : NotAt(s)
        BY <2>1 DEF Abandoned
      <3>2. rowsVersion' # instance'.version
        BY <1>1, <1>2, <3>1, DeferredOwn
      <3>3. ASSUME NEW n \in Nodes, NEW i \in 1..Len(queue'[n])
            PROVE  queue'[n][i].version # instance'.version
        <4>1. CASE n = n0
          BY <1>1, <1>2, <3>1, <3>3, <4>1
        <4>2. CASE n # n0
          BY <1>1, <3>1, <3>3, <4>2
        <4> QED
          BY <4>1, <4>2
      <3>4. Abandoned'
        BY <1>1, <1>4, <3>1, <3>2, <3>3 DEF Abandoned
      <3> QED
        BY <3>4 DEF RowsWillCome
    <2>2. CASE DeferredFlush(n0) /\ \A k \in Keys : Final(k)
      BY <1>3, <2>2, DeferredFinal DEF ChainsInv, RowsWillCome
    <2>3. CASE DeferredFlushFails(n0) /\ \A k \in Keys : Final(k)
      <3>1. ~flags.owned
        BY <1>1, <2>3, DeferredOwn DEF Settled
      <3>2. rows' = rows /\ rowsVersion' = rowsVersion
        BY <2>3, DeferredOwn
      <3>3. CASE queue[n0][1].keys = {}
        BY <2>3, <3>3, LostNothing DEF RowsWillCome
      <3>4. CASE queue[n0][1].keys # {}
        <4>0. ~NoKeyed(n0)
          BY <1>2, <3>4 DEF NoKeyed
        <4>1. /\ rowsVersion # instance.version
              /\ \A m \in Nodes : \A i \in 1..Len(queue[m]) :
                    queue[m][i].version = instance.version => m = n0
              /\ 1 = Len(queue[n0])
              /\ \A s \in Sessions : NotAt(s)
          BY <1>2, <1>3, <3>1, <3>4, <4>0, LostAbandons
        <4>2. ASSUME NEW m \in Nodes, NEW i \in 1..Len(queue'[m])
              PROVE  queue'[m][i].version # instance'.version
          <5>1. m # n0
            BY <1>2, <4>1, <4>2
          <5> QED
            BY <1>1, <4>1, <4>2, <5>1
        <4>3. Abandoned'
          BY <1>1, <1>4, <3>1, <3>2, <4>1, <4>2 DEF Abandoned
        <4> QED
          BY <4>3 DEF RowsWillCome
      <3> QED
        BY <3>3, <3>4
    <2> QED
      BY <1>3, <2>1, <2>2, <2>3 DEF ChainsInv, RowsWillCome
  <1> QED
    BY <1>5, <1>6, <1>7, <1>9, <1>10, <1>11 DEF CopyInv, ChainsInv

LEMMA CrashCopy ==
    ASSUME CountInv, BaseInv, NEW n0 \in Nodes, Crash(n0), CopyInv, Clean', Settled'
    PROVE  CopyInv'
  <1>1. /\ UNCHANGED <<flags, instance, config, rows, rowsVersion, intended, kept>>
        /\ \A r \in Sessions : NodeOf[r] # n0 => SameSession(r)
        /\ \A r \in Sessions : NodeOf[r] = n0 =>
              st'[r] = "off" /\ cvr'[r] = EmptyCvr /\ pending'[r] = {}
        /\ \A m \in Nodes : seed'[m] = seed[m] \/ seed'[m] = NoSeed
        /\ queue'[n0] = <<>>
        /\ \A m \in Nodes : m # n0 => queue'[m] = queue[m]
    BY CrashOwn DEF db
  <1>2. \A m \in Nodes : NoKeyed(m) => NoKeyed(m)'
    BY <1>1 DEF NoKeyed
  <1>3. /\ \A r \in Sessions : CopyCurrent(r)
        /\ \A n \in Nodes : SeedCurrent(n)
        /\ ChainsInv /\ ~instance.deleted
    BY <1>1 DEF CopyInv, Clean
  <1>4. instance.version \in Nat /\ instance.version >= 1
    BY <1>3 DEF CountInv, Shapes, DbShape, BaseInv, Purged
  <1>5. ASSUME NEW r \in Sessions
        PROVE  CopyCurrent(r)' /\ (NotAt(r) => NotAt(r)')
    <2>1. CASE NodeOf[r] = n0
      BY <1>1, <1>4, <2>1, EmptyView DEF CopyCurrent, NotAt
    <2>2. CASE NodeOf[r] # n0
      <3>1. CopyCurrent(r)'
        BY <1>1, <1>2, <1>3, <2>2, ShorterCopies
      <3> QED
        BY <1>1, <2>2, <3>1 DEF NotAt, SameSession
    <2> QED
      BY <2>1, <2>2
  <1>6. ASSUME NEW n \in Nodes
        PROVE  SeedCurrent(n)'
    <2>1. CASE seed'[n] = seed[n]
      BY <1>1, <1>2, <1>3, <2>1, ShorterSeeds
    <2>2. CASE seed'[n] = NoSeed
      BY <1>1, <1>4, <2>2, NoSeedVersion DEF SeedCurrent
    <2> QED
      BY <1>1, <2>1, <2>2
  <1>7. ASSUME NEW n \in Nodes
        PROVE  KeyedLater(queue'[n])
    <2>1. CASE n = n0
      BY <1>1, <2>1 DEF KeyedLater
    <2>2. CASE n # n0
      BY <1>1, <1>3, <2>2 DEF ChainsInv
    <2> QED
      BY <2>1, <2>2
  <1>8. RowsUnderWay'
    <2> SUFFICES ASSUME NEW n \in Nodes, ~NoKeyed(n)'
                 PROVE  /\ rowsVersion' # instance'.version
                        /\ \A m \in Nodes : m # n => NoKeyed(m)'
                        /\ \A m \in Nodes : \A i \in 1..Len(queue'[m]) :
                              m # n => queue'[m][i].version < instance'.version
      BY DEF RowsUnderWay
    <2>1. /\ rowsVersion # instance.version
          /\ \A m \in Nodes : m # n => NoKeyed(m)
          /\ \A m \in Nodes : \A i \in 1..Len(queue[m]) :
                m # n => queue[m][i].version < instance.version
      BY <1>2, <1>3 DEF ChainsInv, RowsUnderWay
    <2>2. ASSUME NEW m \in Nodes, NEW i \in 1..Len(queue'[m]), m # n
          PROVE  queue'[m][i].version < instance'.version
      <3>1. m # n0
        BY <1>1, <2>2
      <3> QED
        BY <1>1, <2>1, <2>2, <3>1
    <2> QED
      BY <1>1, <1>2, <2>1, <2>2
  <1>9. OneKeyed'
    <2> SUFFICES ASSUME ~flags.owned, NEW n \in Nodes, NEW i \in 1..Len(queue'[n]),
                        queue'[n][i].keys # {}
                 PROVE  /\ queue'[n][i].version = instance.version
                        /\ i = Len(queue'[n])
                        /\ \A r \in Sessions : NotAt(r)'
      BY <1>1 DEF OneKeyed
    <2>1. n # n0
      BY <1>1
    <2>2. queue'[n] = queue[n]
      BY <1>1, <2>1
    <2> QED
      BY <1>3, <1>5, <2>2 DEF ChainsInv, OneKeyed
  <1>10. RowsWillCome'
    <2>1. CASE Abandoned
      <3>1. ASSUME NEW n \in Nodes, NEW i \in 1..Len(queue'[n])
            PROVE  queue'[n][i].version # instance'.version
        <4>1. n # n0
          BY <1>1, <3>1
        <4> QED
          BY <1>1, <2>1, <3>1, <4>1 DEF Abandoned
      <3>2. Abandoned'
        BY <1>1, <1>5, <2>1, <3>1 DEF Abandoned
      <3> QED
        BY <3>2 DEF RowsWillCome
    <2>2. CASE NoKeyed(n0) /\ \A k \in Keys : Final(k)
      <3>1. ASSUME NEW k \in Keys
            PROVE  Final(k)'
        <4>1. CASE \E n \in Nodes : \E i \in 1..Len(queue[n]) :
                      /\ k \in queue[n][i].keys
                      /\ queue[n][i].rows[k] = intended[k]
                      /\ \A j \in 1..Len(queue[n]) : j > i => k \notin queue[n][j].keys
          <5>1. PICK n \in Nodes : \E i \in 1..Len(queue[n]) :
                      /\ k \in queue[n][i].keys
                      /\ queue[n][i].rows[k] = intended[k]
                      /\ \A j \in 1..Len(queue[n]) : j > i => k \notin queue[n][j].keys
            BY <4>1
          <5>2. n # n0
            BY <2>2, <5>1 DEF NoKeyed
          <5>3. queue'[n] = queue[n]
            BY <1>1, <5>2
          <5> QED
            BY <1>1, <5>1, <5>3 DEF Final
        <4>2. CASE /\ rows[k] = intended[k]
                   /\ \A n \in Nodes : \A i \in 1..Len(queue[n]) :
                         k \notin queue[n][i].keys
          <5>1. ASSUME NEW n \in Nodes, NEW i \in 1..Len(queue'[n])
                PROVE  k \notin queue'[n][i].keys
            <6>1. n # n0
              BY <1>1, <5>1
            <6> QED
              BY <1>1, <4>2, <5>1, <6>1
          <5> QED
            BY <1>1, <4>2, <5>1 DEF Final
        <4> QED
          BY <2>2, <4>1, <4>2 DEF Final
      <3> QED
        BY <3>1 DEF RowsWillCome
    <2>3. CASE ~NoKeyed(n0)
      <3>1. ~flags.owned
        <4>1. queue[n0] # <<>>
          BY <2>3 DEF NoKeyed
        <4> QED
          BY <1>1, <4>1, CrashOwn DEF Settled
      <3>2. /\ rowsVersion # instance.version
            /\ \A m \in Nodes : \A i \in 1..Len(queue[m]) :
                  queue[m][i].version = instance.version => m = n0
            /\ \A s \in Sessions : NotAt(s)
        BY <1>3, <2>3, <3>1, LostAbandons
      <3>3. ASSUME NEW n \in Nodes, NEW i \in 1..Len(queue'[n])
            PROVE  queue'[n][i].version # instance'.version
        <4>1. n # n0
          BY <1>1, <3>3
        <4> QED
          BY <1>1, <3>2, <3>3, <4>1
      <3>4. Abandoned'
        BY <1>1, <1>5, <3>1, <3>2, <3>3 DEF Abandoned
      <3> QED
        BY <3>4 DEF RowsWillCome
    <2> QED
      BY <1>3, <2>1, <2>2, <2>3 DEF ChainsInv, RowsWillCome
  <1> QED
    BY <1>5, <1>6, <1>7, <1>8, <1>9, <1>10 DEF CopyInv, ChainsInv

LEMMA IdleCopy ==
    ASSUME Tick \/ UNCHANGED vars, CopyInv, Clean'
    PROVE  CopyInv'
  <1>1. SameDb /\ UNCHANGED session /\ kept' = kept
    BY DEF SameDb, Tick, vars, db, history
  <1>2. /\ \A r \in Sessions : CopyCurrent(r)
        /\ \A n \in Nodes : SeedCurrent(n)
        /\ ChainsInv
    BY <1>1 DEF CopyInv, Clean, SameDb
  <1>3. \A r \in Sessions : SameSession(r) /\ (NotAt(r) => NotAt(r)')
    BY <1>1 DEF session, SameSession, NotAt, SameDb
  <1>4. \A r \in Sessions : CopyCurrent(r)'
    BY <1>1, <1>2, <1>3, SameCopy
  <1>5. \A n \in Nodes : SeedCurrent(n)'
    BY <1>1, <1>2, ShorterSeeds, SameDbChains DEF SameDb, session
  <1>6. (\A n \in Nodes : KeyedLater(queue[n])') /\ RowsUnderWay'
    BY <1>1, <1>2, SameDbChains DEF ChainsInv
  <1>7. OneKeyed'
    BY <1>1, <1>2, <1>3 DEF ChainsInv, OneKeyed, SameDb
  <1>8. RowsWillCome'
    <2>1. CASE Abandoned
      BY <1>1, <1>3, <2>1 DEF Abandoned, RowsWillCome, SameDb
    <2>2. CASE ~Abandoned
      BY <1>1, <1>2, <2>2, SameDbChains DEF ChainsInv, RowsWillCome
    <2> QED
      BY <2>1, <2>2
  <1> QED
    BY <1>4, <1>5, <1>6, <1>7, <1>8 DEF CopyInv, ChainsInv

LEMMA NextCopy ==
    ASSUME CountInv, BaseInv, CopyInv, Settled, Settled', [Next]_vars
    PROVE  CopyInv'
  <1> SUFFICES ASSUME Clean'
               PROVE  CopyInv'
    BY DEF CopyInv
  <1>0. instance.present /\ instance'.present
    BY DEF Settled
  <1>1. ASSUME NEW s \in Sessions, Step(s)
        PROVE  CopyInv'
    <2>1. CASE Quiet(s)
      <3>1. Clean
        BY <2>1, QuietSame DEF Clean, SameDb, CountInv
      <3> QED
        BY <1>0, <2>1, <3>1, QuietCopy, QuietChains DEF CopyInv, Clean
    <2>2. CASE FlushCommit(s)
      <3>1. Clean
        BY <1>0, <2>2, FlushCommitOwn DEF Clean
      <3> QED
        BY <1>0, <2>2, <3>1, CommitCopies, CommitChains DEF CopyInv
    <2> QED
      BY <1>0, <1>1, <2>1, <2>2, FlushBeginCopy, LoopFlushFailsCopy DEF Step, Quiet
  <1>2. ASSUME NEW n \in Nodes, DeferredFlush(n) \/ DeferredFlushFails(n) \/ Crash(n)
        PROVE  CopyInv'
    BY <1>2, DeferredCopy, CrashCopy
  <1>3. CASE Purge
    BY <1>0, <1>3, PurgeOwn DEF Clean
  <1> QED
    BY <1>1, <1>2, <1>3, IdleCopy DEF Next

LEMMA InitCopy ==
    ASSUME Init, Settled
    PROVE  CopyInv
  <1>1. CountInv /\ BaseInv
    BY InitCounted, InitBase DEF Settled
  <1>2. instance.version >= 1 /\ instance.version \in Nat
    <2>1. ~instance.deleted
      BY DEF Init, NoInstance
    <2> QED
      BY <1>1, <2>1 DEF CountInv, Shapes, DbShape, BaseInv, Purged
  <1>3. \A s \in Sessions : CopyCurrent(s)
    BY <1>2, EmptyView DEF Init, CopyCurrent
  <1>4. \A n \in Nodes : SeedCurrent(n)
    BY <1>2, NoSeedVersion DEF Init, SeedCurrent
  <1>5. \A n \in Nodes : queue[n] = <<>>
    BY DEF Init
  <1>6. (\A n \in Nodes : KeyedLater(queue[n])) /\ RowsUnderWay /\ OneKeyed
    BY <1>5 DEF KeyedLater, RowsUnderWay, NoKeyed, OneKeyed
  <1>7. \A k \in Keys : Final(k)
    BY <1>5 DEF Init, Final
  <1> QED
    BY <1>3, <1>4, <1>6, <1>7 DEF CopyInv, ChainsInv, RowsWillCome

LEMMA AlwaysCopied == Spec /\ []Settled => [](CountInv /\ BaseInv /\ CopyInv)
  <1>1. Settled => HasRow
    BY DEF Settled, HasRow
  <1> QED
    BY <1>1, InitCopy, NextCopy, AlwaysCounted, AlwaysBase, PTL DEF Spec

(***************************************************************************)
(* A flush replaces only what it was computed from, for any number of      *)
(* nodes, sessions, rows, failures and crashes.  The row must stay in the  *)
(* instances table, for versions start again when the purger has removed a *)
(* tombstone and there is nothing to lock before the first flush; and a    *)
(* processor loop must not lose a deferred flush.                          *)
(***************************************************************************)
THEOREM UpdatesAreNotLost == Spec /\ []Settled => NoLostUpdate
  <1>1. CountInv /\ BaseInv /\ CopyInv
           => [\A s \in Sessions :
                 st[s] = "write" /\ st'[s] = "idle" /\ ~stray /\ ~kept => Builds(s)]_vars
    <2> SUFFICES ASSUME BaseInv, CopyInv, NEW s \in Sessions, st[s] = "write", ~kept
                 PROVE  Builds(s)
      OBVIOUS
    <2>1. Clean
      BY DEF BaseInv, Writing, Clean
    <2>2. CopyCurrent(s)
      BY <2>1 DEF CopyInv
    <2> QED
      BY <2>2 DEF CopyCurrent, Copied, Builds
  <1> QED
    BY <1>1, AlwaysCopied, PTL DEF NoLostUpdate

(***************************************************************************)
(* A CVR that a load accepts has its rows, under the same conditions.      *)
(***************************************************************************)
THEOREM CookiesHaveRows == Spec /\ []Settled => []CookieHasRows
  <1>1. CountInv /\ BaseInv /\ CopyInv => CookieHasRows
    <2> SUFFICES ASSUME CountInv, CopyInv, ~kept, LoadAccepts
                 PROVE  rows = intended
      BY DEF CookieHasRows
    <2>1. ChainsInv /\ rowsVersion = instance.version
      BY DEF LoadAccepts, RowsBehind, CopyInv, Clean
    <2>2. \A n \in Nodes : NoKeyed(n)
      BY <2>1 DEF ChainsInv, RowsUnderWay
    <2>3. \A k \in Keys : Final(k)
      BY <2>1 DEF ChainsInv, RowsWillCome, Abandoned
    <2> QED
      BY <2>2, <2>3, RowsAreIntended DEF CountInv
  <1> QED
    BY <1>1, AlwaysCopied, PTL
=============================================================================
