-------------------------- MODULE ReplicatorProofs --------------------------
(* Proofs about Replicator, for every value of its constants.              *)
EXTENDS Replicator, TLAPS

\* The log after one more commit.
LEMMA AppendFacts ==
    ASSUME NEW S, NEW s \in Seq(S), NEW e \in S
    PROVE  /\ Append(s, e) \in Seq(S)
           /\ Len(Append(s, e)) = Len(s) + 1
           /\ \A i \in 1..Len(s) : Append(s, e)[i] = s[i]
           /\ Append(s, e)[Len(s) + 1] = e
  OBVIOUS

\* Schema versions are natural numbers.
LEMMA SchemaAtType ==
    ASSUME PositionsOK, NEW n \in 0..Len(wal)
    PROVE  SchemaAt(n) \in Nat
  <1>1. CASE n = 0
    BY <1>1 DEF SchemaAt
  <1>2. CASE n # 0
    <2>1. n \in 1..Len(wal)
      BY <1>2
    <2>2. wal[n] \in Txn
      BY <2>1 DEF PositionsOK
    <2>3. QED
      BY <1>2, <2>2 DEF SchemaAt, Txn
  <1>3. QED
    BY <1>1, <1>2

\* One more commit leaves the log so far as it was.
LEMMA CommitAppends ==
    ASSUME PositionsOK, UpstreamCommit
    PROVE  /\ wal' \in Seq(Txn)
           /\ Len(wal') = Len(wal) + 1
           /\ \A i \in 1..Len(wal) : wal'[i] = wal[i]
  <1>1. PICK ks \in SUBSET Keys, d \in DdlKinds \cup {"none"} :
           wal' = Append(wal, [keys   |-> ks, ddl |-> d,
                               schema |-> CurrentSchema
                                          + (IF d = "none" THEN 0 ELSE 1)])
    BY DEF UpstreamCommit
  <1>2. CurrentSchema \in Nat
    <2>1. Len(wal) \in 0..Len(wal)
      BY DEF PositionsOK
    <2>2. QED
      BY <2>1, SchemaAtType DEF CurrentSchema
  <1>3. [keys |-> ks, ddl |-> d,
         schema |-> CurrentSchema + (IF d = "none" THEN 0 ELSE 1)] \in Txn
    BY <1>2 DEF Txn
  <1>4. wal \in Seq(Txn)
    BY DEF PositionsOK
  <1>5. QED
    BY <1>1, <1>3, <1>4, AppendFacts

\* The copied rows are exactly the writes of the snapshot.
LEMMA CopyIsPrefix ==
    ASSUME PositionsOK, CopySnapshot
    PROVE  /\ rows' \in [Keys -> 0..Len(wal)]
           /\ IsPrefixState(rows', snapshot)
  <1>1. PICK f \in [Keys -> 0..MaxLsn] : rows' = f /\ IsPrefixState(f,
     snapshot)
    BY DEF CopySnapshot
  <1>2. snapshot \in 0..Len(wal) /\ Len(wal) \in Nat
    BY DEF PositionsOK
  <1>3. \A k \in Keys : f[k] \in 0..Len(wal)
    BY <1>1, <1>2 DEF IsPrefixState, IsLastWriter
  <1>4. QED
    BY <1>1, <1>3

\* Each step keeps the flags Boolean.
LEMMA FlagsNext == FlagsOK /\ [Next]_vars => FlagsOK'
  <1> SUFFICES ASSUME FlagsOK, [Next]_vars PROVE FlagsOK'
    OBVIOUS
  <1> USE DEF FlagsOK, upstreamVars, replicaVars, syncVars, txnVars,
    sessionVars, specVars, pollVars
  <1>1. CASE PrepareInitialSync
    BY Zenon, <1>1 DEF PrepareInitialSync, ResetReplica
  <1>2. CASE PrepareFails
    BY Zenon, <1>2 DEF PrepareFails, ResetReplica, Retry, Fault
  <1>3. CASE CreateSlot
    BY Zenon, <1>3 DEF CreateSlot
  <1>4. CASE CreateSlotFails
    BY Zenon, <1>4 DEF CreateSlotFails, Retry, Fault
  <1>5. CASE CopySnapshot
    BY Zenon, <1>5 DEF CopySnapshot
  <1>6. CASE CopyFails
    BY Zenon, <1>6 DEF CopyFails, Retry, Fault
  <1>7. CASE IntrospectSpecs
    BY Zenon, <1>7 DEF IntrospectSpecs, ClearSchemaChange, CurrentSchema
  <1>8. CASE IntrospectFails
    BY Zenon, <1>8 DEF IntrospectFails, Retry, Fault
  <1>9. CASE LoopExits
    BY Zenon, <1>9 DEF LoopExits
  <1>10. CASE Connect
    BY Zenon, <1>10 DEF Connect, LaterOf
  <1>11. CASE ConnectFails
    BY Zenon, <1>11 DEF ConnectFails, Fault
  <1>12. CASE DeliverBegin
    BY Zenon, <1>12 DEF DeliverBegin, NextMessage, FirstMessage
  <1>13. CASE DeliverDdl
    BY Zenon, <1>13 DEF DeliverDdl, NextMessage
  <1>14. CASE DeliverRelation
    BY Zenon, <1>14 DEF DeliverRelation, NextMessage
  <1>15. CASE DeliverRows
    BY Zenon, <1>15 DEF DeliverRows, NextMessage
  <1>16. CASE DeliverCommit
    BY Zenon, <1>16 DEF DeliverCommit, NextMessage, LaterOf
  <1>17. CASE SendAck
    BY Zenon, <1>17 DEF SendAck, AckLsn
  <1>18. CASE PublishCommit
    BY Zenon, <1>18 DEF PublishCommit, PublishedUpTo, DropStream, LaterOf
  <1>19. CASE StreamEnds
    BY Zenon, <1>19 DEF StreamEnds, LeaveStream, DropStream, Rollback,
      ConfirmedLsn, Fault
  <1>20. CASE ApplyFails
    BY Zenon, <1>20 DEF ApplyFails, LeaveStream, DropStream, Rollback,
      ConfirmedLsn
  <1>21. CASE PollTripped
    BY Zenon, <1>21 DEF PollTripped, Drift, DropStream
  <1>22. CASE RelationDrift
    BY Zenon, <1>22 DEF RelationDrift, Drift, DropStream
  <1>23. CASE DdlNeedsResync
    BY Zenon, <1>23 DEF DdlNeedsResync, Drift, DropStream
  <1>24. CASE ResyncReset
    BY Zenon, <1>24 DEF ResyncReset, ResetReplica, Rollback
  <1>25. CASE ResyncResetFails
    BY Zenon, <1>25 DEF ResyncResetFails, Fault
  <1>26. CASE DropSlot
    BY Zenon, <1>26 DEF DropSlot
  <1>27. CASE DropSlotFails
    BY Zenon, <1>27 DEF DropSlotFails, Fault
  <1>28. CASE UpstreamCommit
    BY Zenon, <1>28 DEF UpstreamCommit
  <1>29. CASE ReceiveAck
    BY Zenon, <1>29 DEF ReceiveAck
  <1>30. CASE WalsenderExit
    BY Zenon, <1>30 DEF WalsenderExit
  <1>31. CASE SkipUnstreamed
    BY Zenon, <1>31 DEF SkipUnstreamed
  <1>32. CASE PollIntrospect
    BY Zenon, <1>32 DEF PollIntrospect, CurrentSchema
  <1>33. CASE PollCompare
    BY Zenon, <1>33 DEF PollCompare
  <1>34. CASE QueryConnDies
    BY Zenon, <1>34 DEF QueryConnDies, Fault
  <1>35. CASE RequestShutdown
    BY Zenon, <1>35 DEF RequestShutdown
  <1>36. CASE Crash
    BY Zenon, <1>36 DEF Crash, DropStream, Fault
  <1>37. CASE Restart
    BY Zenon, <1>37 DEF Restart
  <1>38. CASE UNCHANGED vars
    BY Zenon, <1>38 DEF vars
  <1>39. QED
    BY <1>1, <1>2, <1>3, <1>4, <1>5, <1>6, <1>7, <1>8, <1>9, <1>10, <1>11,
       <1>12, <1>13, <1>14, <1>15, <1>16, <1>17, <1>18, <1>19, <1>20,
       <1>21, <1>22, <1>23, <1>24, <1>25, <1>26, <1>27, <1>28, <1>29,
       <1>30, <1>31, <1>32, <1>33, <1>34, <1>35, <1>36, <1>37, <1>38
    DEF Next, RunReplicator, InitialSyncStep, StreamStep, ResyncStep, Upstream,
        Poll, Process

\* Each step keeps the control state in its enumeration.
LEMMA ControlNext == ControlOK /\ [Next]_vars => ControlOK'
  <1> SUFFICES ASSUME ControlOK, [Next]_vars PROVE ControlOK'
    OBVIOUS
  <1> USE DEF ControlOK, upstreamVars, replicaVars, syncVars, txnVars,
    sessionVars, specVars, pollVars
  <1>1. CASE PrepareInitialSync
    BY Zenon, <1>1 DEF PrepareInitialSync, ResetReplica
  <1>2. CASE PrepareFails
    BY Zenon, <1>2 DEF PrepareFails, ResetReplica, Retry, Fault
  <1>3. CASE CreateSlot
    BY Zenon, <1>3 DEF CreateSlot
  <1>4. CASE CreateSlotFails
    BY Zenon, <1>4 DEF CreateSlotFails, Retry, Fault
  <1>5. CASE CopySnapshot
    BY Zenon, <1>5 DEF CopySnapshot
  <1>6. CASE CopyFails
    BY Zenon, <1>6 DEF CopyFails, Retry, Fault
  <1>7. CASE IntrospectSpecs
    BY Zenon, <1>7 DEF IntrospectSpecs, ClearSchemaChange, CurrentSchema
  <1>8. CASE IntrospectFails
    BY Zenon, <1>8 DEF IntrospectFails, Retry, Fault
  <1>9. CASE LoopExits
    BY Zenon, <1>9 DEF LoopExits
  <1>10. CASE Connect
    BY Zenon, <1>10 DEF Connect, LaterOf
  <1>11. CASE ConnectFails
    BY Zenon, <1>11 DEF ConnectFails, Fault
  <1>12. CASE DeliverBegin
    BY Zenon, <1>12 DEF DeliverBegin, NextMessage, FirstMessage
  <1>13. CASE DeliverDdl
    BY Zenon, <1>13 DEF DeliverDdl, NextMessage
  <1>14. CASE DeliverRelation
    BY Zenon, <1>14 DEF DeliverRelation, NextMessage
  <1>15. CASE DeliverRows
    BY Zenon, <1>15 DEF DeliverRows, NextMessage
  <1>16. CASE DeliverCommit
    BY Zenon, <1>16 DEF DeliverCommit, NextMessage, LaterOf
  <1>17. CASE SendAck
    BY Zenon, <1>17 DEF SendAck, AckLsn
  <1>18. CASE PublishCommit
    BY Zenon, <1>18 DEF PublishCommit, PublishedUpTo, DropStream, LaterOf
  <1>19. CASE StreamEnds
    BY Zenon, <1>19 DEF StreamEnds, LeaveStream, DropStream, Rollback,
      ConfirmedLsn, Fault
  <1>20. CASE ApplyFails
    BY Zenon, <1>20 DEF ApplyFails, LeaveStream, DropStream, Rollback,
      ConfirmedLsn
  <1>21. CASE PollTripped
    BY Zenon, <1>21 DEF PollTripped, Drift, DropStream
  <1>22. CASE RelationDrift
    BY Zenon, <1>22 DEF RelationDrift, Drift, DropStream
  <1>23. CASE DdlNeedsResync
    BY Zenon, <1>23 DEF DdlNeedsResync, Drift, DropStream
  <1>24. CASE ResyncReset
    BY Zenon, <1>24 DEF ResyncReset, ResetReplica, Rollback
  <1>25. CASE ResyncResetFails
    BY Zenon, <1>25 DEF ResyncResetFails, Fault
  <1>26. CASE DropSlot
    BY Zenon, <1>26 DEF DropSlot
  <1>27. CASE DropSlotFails
    BY Zenon, <1>27 DEF DropSlotFails, Fault
  <1>28. CASE UpstreamCommit
    BY Zenon, <1>28 DEF UpstreamCommit
  <1>29. CASE ReceiveAck
    BY Zenon, <1>29 DEF ReceiveAck
  <1>30. CASE WalsenderExit
    BY Zenon, <1>30 DEF WalsenderExit
  <1>31. CASE SkipUnstreamed
    BY Zenon, <1>31 DEF SkipUnstreamed
  <1>32. CASE PollIntrospect
    BY Zenon, <1>32 DEF PollIntrospect, CurrentSchema
  <1>33. CASE PollCompare
    BY Zenon, <1>33 DEF PollCompare
  <1>34. CASE QueryConnDies
    BY Zenon, <1>34 DEF QueryConnDies, Fault
  <1>35. CASE RequestShutdown
    BY Zenon, <1>35 DEF RequestShutdown
  <1>36. CASE Crash
    BY Zenon, <1>36 DEF Crash, DropStream, Fault
  <1>37. CASE Restart
    BY Zenon, <1>37 DEF Restart
  <1>38. CASE UNCHANGED vars
    BY Zenon, <1>38 DEF vars
  <1>39. QED
    BY <1>1, <1>2, <1>3, <1>4, <1>5, <1>6, <1>7, <1>8, <1>9, <1>10, <1>11,
       <1>12, <1>13, <1>14, <1>15, <1>16, <1>17, <1>18, <1>19, <1>20,
       <1>21, <1>22, <1>23, <1>24, <1>25, <1>26, <1>27, <1>28, <1>29,
       <1>30, <1>31, <1>32, <1>33, <1>34, <1>35, <1>36, <1>37, <1>38
    DEF Next, RunReplicator, InitialSyncStep, StreamStep, ResyncStep, Upstream,
        Poll, Process

\* Each step keeps every position within the log, and every row too.
LEMMA PositionsNext == PositionsOK /\ [Next]_vars => PositionsOK'
  <1> SUFFICES ASSUME PositionsOK, [Next]_vars PROVE PositionsOK'
    OBVIOUS
  <1> USE DEF PositionsOK, upstreamVars, replicaVars, syncVars, txnVars,
    sessionVars, specVars, pollVars
  <1>1. CASE PrepareInitialSync
    BY <1>1 DEF PrepareInitialSync, ResetReplica
  <1>2. CASE PrepareFails
    BY <1>2 DEF PrepareFails, ResetReplica, Retry, Fault
  <1>3. CASE CreateSlot
    BY <1>3 DEF CreateSlot
  <1>4. CASE CreateSlotFails
    BY <1>4 DEF CreateSlotFails, Retry, Fault
  <1>5. CASE CopySnapshot
    BY <1>5, CopyIsPrefix DEF CopySnapshot
  <1>6. CASE CopyFails
    BY <1>6 DEF CopyFails, Retry, Fault
  <1>7. CASE IntrospectSpecs
    BY <1>7 DEF IntrospectSpecs, ClearSchemaChange, CurrentSchema
  <1>8. CASE IntrospectFails
    BY <1>8 DEF IntrospectFails, Retry, Fault
  <1>9. CASE LoopExits
    BY <1>9 DEF LoopExits
  <1>10. CASE Connect
    BY <1>10 DEF Connect, LaterOf
  <1>11. CASE ConnectFails
    BY <1>11 DEF ConnectFails, Fault
  <1>12. CASE DeliverBegin
    BY <1>12 DEF DeliverBegin, NextMessage, FirstMessage
  <1>13. CASE DeliverDdl
    BY <1>13 DEF DeliverDdl, NextMessage
  <1>14. CASE DeliverRelation
    BY <1>14 DEF DeliverRelation, NextMessage
  <1>15. CASE DeliverRows
    BY <1>15 DEF DeliverRows, NextMessage
  <1>16. CASE DeliverCommit
    BY <1>16 DEF DeliverCommit, NextMessage, LaterOf
  <1>17. CASE SendAck
    BY <1>17 DEF SendAck, AckLsn
  <1>18. CASE PublishCommit
    BY <1>18 DEF PublishCommit, PublishedUpTo, DropStream, LaterOf
  <1>19. CASE StreamEnds
    BY <1>19 DEF StreamEnds, LeaveStream, DropStream, Rollback,
      ConfirmedLsn, Fault
  <1>20. CASE ApplyFails
    BY <1>20 DEF ApplyFails, LeaveStream, DropStream, Rollback, ConfirmedLsn
  <1>21. CASE PollTripped
    BY <1>21 DEF PollTripped, Drift, DropStream
  <1>22. CASE RelationDrift
    BY <1>22 DEF RelationDrift, Drift, DropStream
  <1>23. CASE DdlNeedsResync
    BY <1>23 DEF DdlNeedsResync, Drift, DropStream
  <1>24. CASE ResyncReset
    BY <1>24 DEF ResyncReset, ResetReplica, Rollback
  <1>25. CASE ResyncResetFails
    BY <1>25 DEF ResyncResetFails, Fault
  <1>26. CASE DropSlot
    BY <1>26 DEF DropSlot
  <1>27. CASE DropSlotFails
    BY <1>27 DEF DropSlotFails, Fault
  <1>28. CASE UpstreamCommit
    <2>1. /\ wal' \in Seq(Txn)
          /\ Len(wal) \in Nat /\ Len(wal') = Len(wal) + 1
      BY <1>28, CommitAppends
    <2>2. UNCHANGED <<rows, txRows, confirmed, acking, stateVersion, applied,
                      snapshot, resume, pos, flushLsn, published>>
      BY <1>28 DEF UpstreamCommit
    <2>3. /\ rows' \in [Keys -> 0..Len(wal')]
          /\ txRows' \in [Keys -> 0..Len(wal')]
      BY <2>1, <2>2
    <2>4. QED
      BY <2>1, <2>2, <2>3
  <1>29. CASE ReceiveAck
    BY <1>29 DEF ReceiveAck
  <1>30. CASE WalsenderExit
    BY <1>30 DEF WalsenderExit
  <1>31. CASE SkipUnstreamed
    BY <1>31 DEF SkipUnstreamed
  <1>32. CASE PollIntrospect
    BY <1>32 DEF PollIntrospect, CurrentSchema
  <1>33. CASE PollCompare
    BY <1>33 DEF PollCompare
  <1>34. CASE QueryConnDies
    BY <1>34 DEF QueryConnDies, Fault
  <1>35. CASE RequestShutdown
    BY <1>35 DEF RequestShutdown
  <1>36. CASE Crash
    BY <1>36 DEF Crash, DropStream, Fault
  <1>37. CASE Restart
    BY <1>37 DEF Restart
  <1>38. CASE UNCHANGED vars
    BY <1>38 DEF vars
  <1>39. QED
    BY <1>1, <1>2, <1>3, <1>4, <1>5, <1>6, <1>7, <1>8, <1>9, <1>10, <1>11,
       <1>12, <1>13, <1>14, <1>15, <1>16, <1>17, <1>18, <1>19, <1>20,
       <1>21, <1>22, <1>23, <1>24, <1>25, <1>26, <1>27, <1>28, <1>29,
       <1>30, <1>31, <1>32, <1>33, <1>34, <1>35, <1>36, <1>37, <1>38
    DEF Next, RunReplicator, InitialSyncStep, StreamStep, ResyncStep, Upstream,
        Poll, Process

\* Each step keeps schema versions natural and faults within the bound.
LEMMA CountersNext == CountersOK /\ PositionsOK /\ [Next]_vars => CountersOK'
  <1> SUFFICES ASSUME CountersOK /\ PositionsOK, [Next]_vars PROVE CountersOK'
    OBVIOUS
  <1> USE BoundsAssumption DEF CountersOK, upstreamVars, replicaVars,
    syncVars, txnVars, sessionVars, specVars, pollVars
  <1>1. CASE PrepareInitialSync
    BY SchemaAtType, <1>1 DEF PrepareInitialSync, ResetReplica
  <1>2. CASE PrepareFails
    BY SchemaAtType, <1>2 DEF PrepareFails, ResetReplica, Retry, Fault
  <1>3. CASE CreateSlot
    BY SchemaAtType, <1>3 DEF CreateSlot
  <1>4. CASE CreateSlotFails
    BY SchemaAtType, <1>4 DEF CreateSlotFails, Retry, Fault
  <1>5. CASE CopySnapshot
    <2>1. snapshot \in 0..Len(wal)
      BY DEF PositionsOK
    <2>2. SchemaAt(snapshot) \in Nat
      BY <2>1, SchemaAtType
    <2>3. QED
      BY <1>5, <2>2 DEF CopySnapshot
  <1>6. CASE CopyFails
    BY SchemaAtType, <1>6 DEF CopyFails, Retry, Fault
  <1>7. CASE IntrospectSpecs
    BY SchemaAtType, <1>7 DEF IntrospectSpecs, ClearSchemaChange, CurrentSchema
  <1>8. CASE IntrospectFails
    BY SchemaAtType, <1>8 DEF IntrospectFails, Retry, Fault
  <1>9. CASE LoopExits
    BY SchemaAtType, <1>9 DEF LoopExits
  <1>10. CASE Connect
    BY SchemaAtType, <1>10 DEF Connect, LaterOf
  <1>11. CASE ConnectFails
    BY SchemaAtType, <1>11 DEF ConnectFails, Fault
  <1>12. CASE DeliverBegin
    BY SchemaAtType, <1>12 DEF DeliverBegin, NextMessage, FirstMessage
  <1>13. CASE DeliverDdl
    BY SchemaAtType, <1>13 DEF DeliverDdl, NextMessage
  <1>14. CASE DeliverRelation
    BY SchemaAtType, <1>14 DEF DeliverRelation, NextMessage
  <1>15. CASE DeliverRows
    BY SchemaAtType, <1>15 DEF DeliverRows, NextMessage
  <1>16. CASE DeliverCommit
    BY SchemaAtType, <1>16 DEF DeliverCommit, NextMessage, LaterOf
  <1>17. CASE SendAck
    BY SchemaAtType, <1>17 DEF SendAck, AckLsn
  <1>18. CASE PublishCommit
    BY SchemaAtType, <1>18 DEF PublishCommit, PublishedUpTo, DropStream, LaterOf
  <1>19. CASE StreamEnds
    BY SchemaAtType, <1>19 DEF StreamEnds, LeaveStream, DropStream,
      Rollback, ConfirmedLsn, Fault
  <1>20. CASE ApplyFails
    BY SchemaAtType, <1>20 DEF ApplyFails, LeaveStream, DropStream,
      Rollback, ConfirmedLsn
  <1>21. CASE PollTripped
    BY SchemaAtType, <1>21 DEF PollTripped, Drift, DropStream
  <1>22. CASE RelationDrift
    BY SchemaAtType, <1>22 DEF RelationDrift, Drift, DropStream
  <1>23. CASE DdlNeedsResync
    BY SchemaAtType, <1>23 DEF DdlNeedsResync, Drift, DropStream
  <1>24. CASE ResyncReset
    BY SchemaAtType, <1>24 DEF ResyncReset, ResetReplica, Rollback
  <1>25. CASE ResyncResetFails
    BY SchemaAtType, <1>25 DEF ResyncResetFails, Fault
  <1>26. CASE DropSlot
    BY SchemaAtType, <1>26 DEF DropSlot
  <1>27. CASE DropSlotFails
    BY SchemaAtType, <1>27 DEF DropSlotFails, Fault
  <1>28. CASE UpstreamCommit
    BY SchemaAtType, <1>28 DEF UpstreamCommit
  <1>29. CASE ReceiveAck
    BY SchemaAtType, <1>29 DEF ReceiveAck
  <1>30. CASE WalsenderExit
    BY SchemaAtType, <1>30 DEF WalsenderExit
  <1>31. CASE SkipUnstreamed
    BY SchemaAtType, <1>31 DEF SkipUnstreamed
  <1>32. CASE PollIntrospect
    BY SchemaAtType, <1>32 DEF PollIntrospect, CurrentSchema
  <1>33. CASE PollCompare
    BY SchemaAtType, <1>33 DEF PollCompare
  <1>34. CASE QueryConnDies
    BY SchemaAtType, <1>34 DEF QueryConnDies, Fault
  <1>35. CASE RequestShutdown
    BY SchemaAtType, <1>35 DEF RequestShutdown
  <1>36. CASE Crash
    BY SchemaAtType, <1>36 DEF Crash, DropStream, Fault
  <1>37. CASE Restart
    BY SchemaAtType, <1>37 DEF Restart
  <1>38. CASE UNCHANGED vars
    BY SchemaAtType, <1>38 DEF vars
  <1>39. QED
    BY <1>1, <1>2, <1>3, <1>4, <1>5, <1>6, <1>7, <1>8, <1>9, <1>10, <1>11,
       <1>12, <1>13, <1>14, <1>15, <1>16, <1>17, <1>18, <1>19, <1>20,
       <1>21, <1>22, <1>23, <1>24, <1>25, <1>26, <1>27, <1>28, <1>29,
       <1>30, <1>31, <1>32, <1>33, <1>34, <1>35, <1>36, <1>37, <1>38
    DEF Next, RunReplicator, InitialSyncStep, StreamStep, ResyncStep, Upstream,
        Poll, Process

\* Each step keeps the slot's bookkeeping: held in a session, fresh in a sync.
LEMMA SlotNext == SlotInv /\ [Next]_vars => SlotInv'
  <1> SUFFICES ASSUME SlotInv, [Next]_vars PROVE SlotInv'
    OBVIOUS
  <1> USE DEF Session, SlotInv, upstreamVars, replicaVars, syncVars, txnVars,
    sessionVars, specVars, pollVars
  <1>1. CASE PrepareInitialSync
    BY <1>1 DEF PrepareInitialSync, ResetReplica
  <1>2. CASE PrepareFails
    BY <1>2 DEF PrepareFails, ResetReplica, Retry, Fault
  <1>3. CASE CreateSlot
    BY <1>3 DEF CreateSlot
  <1>4. CASE CreateSlotFails
    BY <1>4 DEF CreateSlotFails, Retry, Fault
  <1>5. CASE CopySnapshot
    BY <1>5 DEF CopySnapshot
  <1>6. CASE CopyFails
    BY <1>6 DEF CopyFails, Retry, Fault
  <1>7. CASE IntrospectSpecs
    BY <1>7 DEF IntrospectSpecs, ClearSchemaChange, CurrentSchema
  <1>8. CASE IntrospectFails
    BY <1>8 DEF IntrospectFails, Retry, Fault
  <1>9. CASE LoopExits
    BY <1>9 DEF LoopExits
  <1>10. CASE Connect
    BY <1>10 DEF Connect, LaterOf
  <1>11. CASE ConnectFails
    BY <1>11 DEF ConnectFails, Fault
  <1>12. CASE DeliverBegin
    BY <1>12 DEF DeliverBegin, NextMessage, FirstMessage
  <1>13. CASE DeliverDdl
    BY <1>13 DEF DeliverDdl, NextMessage
  <1>14. CASE DeliverRelation
    BY <1>14 DEF DeliverRelation, NextMessage
  <1>15. CASE DeliverRows
    BY <1>15 DEF DeliverRows, NextMessage
  <1>16. CASE DeliverCommit
    BY <1>16 DEF DeliverCommit, NextMessage, LaterOf
  <1>17. CASE SendAck
    BY <1>17 DEF SendAck, AckLsn
  <1>18. CASE PublishCommit
    BY <1>18 DEF PublishCommit, PublishedUpTo, DropStream, LaterOf
  <1>19. CASE StreamEnds
    BY <1>19 DEF StreamEnds, LeaveStream, DropStream, Rollback,
      ConfirmedLsn, Fault
  <1>20. CASE ApplyFails
    BY <1>20 DEF ApplyFails, LeaveStream, DropStream, Rollback, ConfirmedLsn
  <1>21. CASE PollTripped
    BY <1>21 DEF PollTripped, Drift, DropStream
  <1>22. CASE RelationDrift
    BY <1>22 DEF RelationDrift, Drift, DropStream
  <1>23. CASE DdlNeedsResync
    BY <1>23 DEF DdlNeedsResync, Drift, DropStream
  <1>24. CASE ResyncReset
    BY <1>24 DEF ResyncReset, ResetReplica, Rollback
  <1>25. CASE ResyncResetFails
    BY <1>25 DEF ResyncResetFails, Fault
  <1>26. CASE DropSlot
    BY <1>26 DEF DropSlot
  <1>27. CASE DropSlotFails
    BY <1>27 DEF DropSlotFails, Fault
  <1>28. CASE UpstreamCommit
    BY <1>28 DEF UpstreamCommit
  <1>29. CASE ReceiveAck
    BY <1>29 DEF ReceiveAck
  <1>30. CASE WalsenderExit
    BY <1>30 DEF WalsenderExit
  <1>31. CASE SkipUnstreamed
    BY <1>31 DEF SkipUnstreamed
  <1>32. CASE PollIntrospect
    BY <1>32 DEF PollIntrospect, CurrentSchema
  <1>33. CASE PollCompare
    BY <1>33 DEF PollCompare
  <1>34. CASE QueryConnDies
    BY <1>34 DEF QueryConnDies, Fault
  <1>35. CASE RequestShutdown
    BY <1>35 DEF RequestShutdown
  <1>36. CASE Crash
    BY <1>36 DEF Crash, DropStream, Fault
  <1>37. CASE Restart
    BY <1>37 DEF Restart
  <1>38. CASE UNCHANGED vars
    BY <1>38 DEF vars
  <1>39. QED
    BY <1>1, <1>2, <1>3, <1>4, <1>5, <1>6, <1>7, <1>8, <1>9, <1>10, <1>11,
       <1>12, <1>13, <1>14, <1>15, <1>16, <1>17, <1>18, <1>19, <1>20,
       <1>21, <1>22, <1>23, <1>24, <1>25, <1>26, <1>27, <1>28, <1>29,
       <1>30, <1>31, <1>32, <1>33, <1>34, <1>35, <1>36, <1>37, <1>38
    DEF Next, RunReplicator, InitialSyncStep, StreamStep, ResyncStep, Upstream,
        Poll, Process

\* Each step keeps a finished copy equal to its snapshot.
LEMMA CopiedNext == CopiedInv /\ PositionsOK /\ [Next]_vars => CopiedInv'
  <1> SUFFICES ASSUME CopiedInv /\ PositionsOK, [Next]_vars PROVE CopiedInv'
    OBVIOUS
  <1> USE DEF IsPrefixState, IsLastWriter, CopiedInv, upstreamVars,
    replicaVars, syncVars, txnVars, sessionVars, specVars, pollVars
  <1>1. CASE PrepareInitialSync
    BY <1>1 DEF PrepareInitialSync, ResetReplica
  <1>2. CASE PrepareFails
    BY <1>2 DEF PrepareFails, ResetReplica, Retry, Fault
  <1>3. CASE CreateSlot
    BY <1>3 DEF CreateSlot
  <1>4. CASE CreateSlotFails
    BY <1>4 DEF CreateSlotFails, Retry, Fault
  <1>5. CASE CopySnapshot
    BY <1>5, CopyIsPrefix DEF CopySnapshot
  <1>6. CASE CopyFails
    BY <1>6 DEF CopyFails, Retry, Fault
  <1>7. CASE IntrospectSpecs
    BY <1>7 DEF IntrospectSpecs, ClearSchemaChange, CurrentSchema
  <1>8. CASE IntrospectFails
    BY <1>8 DEF IntrospectFails, Retry, Fault
  <1>9. CASE LoopExits
    BY <1>9 DEF LoopExits
  <1>10. CASE Connect
    BY <1>10 DEF Connect, LaterOf
  <1>11. CASE ConnectFails
    BY <1>11 DEF ConnectFails, Fault
  <1>12. CASE DeliverBegin
    BY <1>12 DEF DeliverBegin, NextMessage, FirstMessage
  <1>13. CASE DeliverDdl
    BY <1>13 DEF DeliverDdl, NextMessage
  <1>14. CASE DeliverRelation
    BY <1>14 DEF DeliverRelation, NextMessage
  <1>15. CASE DeliverRows
    BY <1>15 DEF DeliverRows, NextMessage
  <1>16. CASE DeliverCommit
    BY <1>16 DEF DeliverCommit, NextMessage, LaterOf
  <1>17. CASE SendAck
    BY <1>17 DEF SendAck, AckLsn
  <1>18. CASE PublishCommit
    BY <1>18 DEF PublishCommit, PublishedUpTo, DropStream, LaterOf
  <1>19. CASE StreamEnds
    BY <1>19 DEF StreamEnds, LeaveStream, DropStream, Rollback,
      ConfirmedLsn, Fault
  <1>20. CASE ApplyFails
    BY <1>20 DEF ApplyFails, LeaveStream, DropStream, Rollback, ConfirmedLsn
  <1>21. CASE PollTripped
    BY <1>21 DEF PollTripped, Drift, DropStream
  <1>22. CASE RelationDrift
    BY <1>22 DEF RelationDrift, Drift, DropStream
  <1>23. CASE DdlNeedsResync
    BY <1>23 DEF DdlNeedsResync, Drift, DropStream
  <1>24. CASE ResyncReset
    BY <1>24 DEF ResyncReset, ResetReplica, Rollback
  <1>25. CASE ResyncResetFails
    BY <1>25 DEF ResyncResetFails, Fault
  <1>26. CASE DropSlot
    BY <1>26 DEF DropSlot
  <1>27. CASE DropSlotFails
    BY <1>27 DEF DropSlotFails, Fault
  <1>28. CASE UpstreamCommit
    BY <1>28, CommitAppends DEF UpstreamCommit, PositionsOK
  <1>29. CASE ReceiveAck
    BY <1>29 DEF ReceiveAck
  <1>30. CASE WalsenderExit
    BY <1>30 DEF WalsenderExit
  <1>31. CASE SkipUnstreamed
    BY <1>31 DEF SkipUnstreamed
  <1>32. CASE PollIntrospect
    BY <1>32 DEF PollIntrospect, CurrentSchema
  <1>33. CASE PollCompare
    BY <1>33 DEF PollCompare
  <1>34. CASE QueryConnDies
    BY <1>34 DEF QueryConnDies, Fault
  <1>35. CASE RequestShutdown
    BY <1>35 DEF RequestShutdown
  <1>36. CASE Crash
    BY <1>36 DEF Crash, DropStream, Fault
  <1>37. CASE Restart
    BY <1>37 DEF Restart
  <1>38. CASE UNCHANGED vars
    BY <1>38 DEF vars
  <1>39. QED
    BY <1>1, <1>2, <1>3, <1>4, <1>5, <1>6, <1>7, <1>8, <1>9, <1>10, <1>11,
       <1>12, <1>13, <1>14, <1>15, <1>16, <1>17, <1>18, <1>19, <1>20,
       <1>21, <1>22, <1>23, <1>24, <1>25, <1>26, <1>27, <1>28, <1>29,
       <1>30, <1>31, <1>32, <1>33, <1>34, <1>35, <1>36, <1>37, <1>38
    DEF Next, RunReplicator, InitialSyncStep, StreamStep, ResyncStep, Upstream,
        Poll, Process

\* The keys a logged transaction writes are row keys.
LEMMA LogKeys ==
    ASSUME PositionsOK
    PROVE  /\ Len(wal) \in Nat
           /\ \A i \in 1..Len(wal) : wal[i].keys \subseteq Keys
  <1>1. \A i \in 1..Len(wal) : wal[i] \in Txn
    BY DEF PositionsOK
  <1>2. QED
    BY <1>1 DEF PositionsOK, Txn

\* A commit covers the transaction just received and keeps what was covered.
LEMMA CommitCovers ==
    ASSUME PositionsOK, SlotInv, SessionInv, TxnInv, DeliverCommit
    PROVE  SessionInv'
  <1>1. /\ pc = "stream" /\ pc' = "ack" /\ phase' = "begin"
        /\ pos \in Nat /\ pos' = pos + 1 /\ pos + 1 \in 1..Len(wal)
        /\ applied \in Nat /\ applied' = LaterOf(applied, pos + 1)
        /\ flushLsn \in Nat /\ flushLsn' = LaterOf(flushLsn, pos + 1)
        /\ confirmed \in Nat /\ acking \in Nat /\ resume \in Nat
        /\ rows \in [Keys -> Nat]
        /\ rows' = [k \in Keys |-> IF k \in wal[pos + 1].keys THEN pos + 1
                                   ELSE rows[k]]
        /\ UNCHANGED <<wal, confirmed, acking, resume, snapshot, published>>
    BY DEF DeliverCommit, NextMessage, PositionsOK, TxnInv, upstreamVars,
           syncVars
  <1>2. /\ confirmed <= pos /\ acking <= pos /\ resume <= pos
        /\ flushLsn <= pos
        /\ RowsSound
        /\ NothingMissingBelow(pos)
        /\ PublishedThrough(pos)
    BY <1>1 DEF SessionInv, Session
  <1>3. RowsSound'
    BY <1>1, <1>2 DEF RowsSound, LaterOf
  <1>4. NothingMissingBelow(pos)'
    BY <1>1, <1>2, LogKeys DEF NothingMissingBelow
  <1>5. PublishedThrough(pos - 1)'
    BY <1>1, <1>2 DEF PublishedThrough, Streamed
  <1>6. QED
    BY <1>1, <1>2, <1>3, <1>4, <1>5 DEF SessionInv, LaterOf

\* Publishing completes what the commit began.
LEMMA PublishCovers ==
    ASSUME PositionsOK, SlotInv, SessionInv, PublishCommit
    PROVE  SessionInv'
  <1>1. CASE pc' = "stopped"
    BY <1>1 DEF SessionInv, Session
  <1>2. CASE pc' = "stream"
    <2>1. /\ pc = "publish"
          /\ pos \in Nat /\ published \in Nat /\ snapshot \in Nat
          /\ published' = LaterOf(published, pos)
          /\ UNCHANGED <<wal, confirmed, acking, resume, snapshot, flushLsn,
                         rows, applied, pos>>
      BY <1>2 DEF PublishCommit, PublishedUpTo, PositionsOK, replicaVars, syncVars,
                  sessionVars
    <2>2. /\ confirmed <= pos /\ acking <= pos /\ resume <= pos
          /\ flushLsn <= pos /\ RowsSound /\ NothingMissingBelow(pos)
          /\ PublishedThrough(pos - 1)
      BY <2>1 DEF SessionInv, Session
    <2>3. RowsSound' /\ NothingMissingBelow(pos)'
      BY <2>1, <2>2 DEF RowsSound, NothingMissingBelow
    <2>4. PublishedThrough(pos)'
      BY <2>1, <2>2 DEF PublishedThrough, Streamed, LaterOf
    <2>5. QED
      BY <1>2, <2>1, <2>2, <2>3, <2>4 DEF SessionInv
  <1>3. QED
    BY <1>1, <1>2 DEF PublishCommit

\* A transaction with nothing to stream has nothing to miss.
LEMMA SkipCovers ==
    ASSUME PositionsOK, SessionInv, SkipUnstreamed
    PROVE  SessionInv'
  <1>1. /\ pc = "stream" /\ pc' = "stream"
        /\ pos \in Nat /\ pos' = pos + 1 /\ snapshot \in Nat
        /\ confirmed \in Nat /\ acking \in Nat /\ resume \in Nat
        /\ flushLsn \in Nat
        /\ ~Streamed(wal[pos + 1])
        /\ UNCHANGED <<wal, confirmed, acking, resume, snapshot, flushLsn,
                       rows, applied, published>>
    BY DEF SkipUnstreamed, PositionsOK, upstreamVars, replicaVars, syncVars
  <1>2. /\ confirmed <= pos /\ acking <= pos /\ resume <= pos
        /\ flushLsn <= pos
        /\ RowsSound /\ NothingMissingBelow(pos) /\ PublishedThrough(pos)
    BY <1>1 DEF SessionInv, Session
  <1>3. RowsSound' /\ NothingMissingBelow(pos)'
    BY <1>1, <1>2 DEF RowsSound, NothingMissingBelow, Streamed
  <1>4. PublishedThrough(pos)'
    BY <1>1, <1>2 DEF PublishedThrough, Streamed
  <1>5. QED
    BY <1>1, <1>2, <1>3, <1>4 DEF SessionInv

\* A longer log changes nothing that was said about its beginning.
LEMMA LongerLog ==
    ASSUME PositionsOK, UpstreamCommit
    PROVE  /\ RowsSound => RowsSound'
           /\ \A n \in 0..Len(wal) :
                 /\ NothingMissingBelow(n) => NothingMissingBelow(n)'
                 /\ PublishedThrough(n) => PublishedThrough(n)'
  <1>1. /\ Len(wal) \in Nat
        /\ \A i \in 1..Len(wal) : wal'[i] = wal[i]
        /\ snapshot \in Nat
        /\ rows \in [Keys -> 0..Len(wal)]
        /\ UNCHANGED <<rows, applied, snapshot, published>>
    BY CommitAppends DEF UpstreamCommit, PositionsOK, replicaVars, syncVars
  <1>2. RowsSound => RowsSound'
    BY <1>1 DEF RowsSound
  <1>3. ASSUME NEW n \in 0..Len(wal)
        PROVE  /\ NothingMissingBelow(n) => NothingMissingBelow(n)'
               /\ PublishedThrough(n) => PublishedThrough(n)'
    <2>1. n \in Nat /\ n <= Len(wal)
      BY <1>1
    <2>2. NothingMissingBelow(n) => NothingMissingBelow(n)'
      BY <1>1, <2>1 DEF NothingMissingBelow
    <2>3. PublishedThrough(n) => PublishedThrough(n)'
      BY <1>1, <2>1 DEF PublishedThrough, Streamed
    <2>4. QED
      BY <2>2, <2>3
  <1>4. QED
    BY <1>2, <1>3

\* A fresh copy is followed from its own snapshot.
LEMMA FreshCopyReconnects ==
    ASSUME PositionsOK, SlotInv, CopiedInv, IntrospectSpecs
    PROVE  ReconnectInv'
  <1>1. /\ snapshot \in 0..Len(wal) /\ Len(wal) \in Nat
        /\ confirmed = snapshot /\ acking = 0 /\ applied = snapshot
        /\ IsPrefixState(rows, snapshot)
        /\ resume' = snapshot
        /\ rows \in [Keys -> Nat]
        /\ UNCHANGED <<wal, confirmed, acking, rows, applied, snapshot,
                       published>>
    BY DEF IntrospectSpecs, PositionsOK, SlotInv, CopiedInv, upstreamVars,
           replicaVars, syncVars
  <1>2. RowsSound'
    BY <1>1 DEF RowsSound, IsPrefixState, IsLastWriter
  <1>3. ASSUME NEW n \in 0..snapshot
        PROVE  NothingMissingBelow(n)' /\ PublishedThrough(n)'
    <2>1. ASSUME NEW i \in 1..n, NEW k \in wal[i].keys
          PROVE  rows[k] >= i
      <3>1. k \in Keys
        BY <1>1, LogKeys
      <3>2. IsLastWriter(k, snapshot, rows[k])
        BY <1>1, <3>1 DEF IsPrefixState
      <3>3. QED
        BY <1>1, <3>1, <3>2 DEF IsLastWriter
    <2>2. QED
      BY <1>1, <2>1 DEF NothingMissingBelow, PublishedThrough
  <1>4. QED
    BY <1>1, <1>2, <1>3 DEF ReconnectInv

\* Wherever the next session resumes, nothing below is missing: an error
\* before the acknowledgement leaves the slot behind the last commit.
LEMMA LeavingReconnects ==
    ASSUME PositionsOK, SessionInv, pc \in {"stream", "ack"}, LeaveStream
    PROVE  ReconnectInv'
  <1>1. CASE pc' = "stopped"
    BY <1>1 DEF ReconnectInv
  <1>2. CASE pc' = "connect"
    <2>1. /\ pos \in Nat /\ confirmed \in Nat /\ acking \in Nat
          /\ resume \in Nat /\ snapshot \in Nat
          /\ confirmed' = confirmed
          /\ acking' \in {0, acking}
          /\ resume' \in {confirmed, resume}
          /\ UNCHANGED <<wal, rows, applied, snapshot, published>>
      BY <1>2 DEF LeaveStream, DropStream, ConfirmedLsn, PositionsOK,
                  replicaVars, syncVars
    <2>2. RowsSound /\ NothingMissingBelow(pos)
      BY DEF SessionInv, Session
    <2>3. ASSUME NEW n \in {confirmed, acking, resume, 0}
          PROVE  NothingMissingBelow(n) /\ PublishedThrough(n)
      <3>1. CASE pc = "stream"
        <4>1. n \in Nat /\ n <= pos /\ PublishedThrough(pos)
          BY <2>1, <3>1 DEF SessionInv, Session
        <4>2. QED
          BY <2>1, <2>2, <4>1 DEF NothingMissingBelow, PublishedThrough
      <3>2. CASE pc = "ack"
        <4>1. n \in Nat /\ n <= pos - 1 /\ PublishedThrough(pos - 1)
          BY <2>1, <3>2 DEF SessionInv, Session
        <4>2. QED
          BY <2>1, <2>2, <4>1 DEF NothingMissingBelow, PublishedThrough
      <3>3. QED
        BY <3>1, <3>2
    <2>4. RowsSound'
      BY <2>1, <2>2 DEF RowsSound
    <2>5. ASSUME NEW n \in {confirmed, acking, resume, 0}
          PROVE  NothingMissingBelow(n)' /\ PublishedThrough(n)'
      BY <2>1, <2>3 DEF NothingMissingBelow, PublishedThrough, Streamed
    <2>6. QED
      BY <1>2, <2>1, <2>4, <2>5 DEF ReconnectInv
  <1>3. QED
    BY <1>1, <1>2 DEF LeaveStream

\* Each step keeps a session's position covered by rows and publications.
LEMMA SessionNext == PositionsOK /\ SlotInv /\ CopiedInv /\ SessionInv /\
    ReconnectInv /\ TxnInv /\ [Next]_vars => SessionInv'
  <1> SUFFICES ASSUME PositionsOK, SlotInv, CopiedInv, SessionInv,
     ReconnectInv, TxnInv, [Next]_vars PROVE SessionInv'
    OBVIOUS
  <1> USE DEF PositionsOK, ControlOK, Session, SlotInv, RowsSound,
    NothingMissingBelow, PublishedThrough, IsPrefixState, IsLastWriter,
    CopiedInv, SessionInv, ReconnectInv, TxnInv, BeginNeverNested,
    upstreamVars, replicaVars, syncVars, txnVars, sessionVars, specVars,
    pollVars
  <1>1. CASE PrepareInitialSync
    BY <1>1 DEF PrepareInitialSync, ResetReplica
  <1>2. CASE PrepareFails
    BY <1>2 DEF PrepareFails, ResetReplica, Retry, Fault
  <1>3. CASE CreateSlot
    BY <1>3 DEF CreateSlot
  <1>4. CASE CreateSlotFails
    BY <1>4 DEF CreateSlotFails, Retry, Fault
  <1>5. CASE CopySnapshot
    BY <1>5 DEF CopySnapshot
  <1>6. CASE CopyFails
    BY <1>6 DEF CopyFails, Retry, Fault
  <1>7. CASE IntrospectSpecs
    BY <1>7 DEF IntrospectSpecs, ClearSchemaChange, CurrentSchema
  <1>8. CASE IntrospectFails
    BY <1>8 DEF IntrospectFails, Retry, Fault
  <1>9. CASE LoopExits
    BY <1>9 DEF LoopExits
  <1>10. CASE Connect
    BY <1>10 DEF Connect, LaterOf
  <1>11. CASE ConnectFails
    BY <1>11 DEF ConnectFails, Fault
  <1>12. CASE DeliverBegin
    BY <1>12 DEF DeliverBegin, NextMessage, FirstMessage
  <1>13. CASE DeliverDdl
    BY <1>13 DEF DeliverDdl, NextMessage
  <1>14. CASE DeliverRelation
    BY <1>14 DEF DeliverRelation, NextMessage
  <1>15. CASE DeliverRows
    BY <1>15 DEF DeliverRows, NextMessage
  <1>16. CASE DeliverCommit
    BY <1>16, CommitCovers
  <1>17. CASE SendAck
    BY <1>17 DEF SendAck, AckLsn
  <1>18. CASE PublishCommit
    BY <1>18, PublishCovers
  <1>19. CASE StreamEnds
    BY <1>19 DEF StreamEnds, LeaveStream, DropStream, Rollback,
      ConfirmedLsn, Fault
  <1>20. CASE ApplyFails
    BY <1>20 DEF ApplyFails, LeaveStream, DropStream, Rollback, ConfirmedLsn
  <1>21. CASE PollTripped
    BY <1>21 DEF PollTripped, Drift, DropStream
  <1>22. CASE RelationDrift
    BY <1>22 DEF RelationDrift, Drift, DropStream
  <1>23. CASE DdlNeedsResync
    BY <1>23 DEF DdlNeedsResync, Drift, DropStream
  <1>24. CASE ResyncReset
    BY <1>24 DEF ResyncReset, ResetReplica, Rollback
  <1>25. CASE ResyncResetFails
    BY <1>25 DEF ResyncResetFails, Fault
  <1>26. CASE DropSlot
    BY <1>26 DEF DropSlot
  <1>27. CASE DropSlotFails
    BY <1>27 DEF DropSlotFails, Fault
  <1>28. CASE UpstreamCommit
    BY SMTT(40), <1>28, LongerLog DEF UpstreamCommit
  <1>29. CASE ReceiveAck
    BY <1>29 DEF ReceiveAck
  <1>30. CASE WalsenderExit
    BY <1>30 DEF WalsenderExit
  <1>31. CASE SkipUnstreamed
    BY <1>31, SkipCovers
  <1>32. CASE PollIntrospect
    BY <1>32 DEF PollIntrospect, CurrentSchema
  <1>33. CASE PollCompare
    BY <1>33 DEF PollCompare
  <1>34. CASE QueryConnDies
    BY <1>34 DEF QueryConnDies, Fault
  <1>35. CASE RequestShutdown
    BY <1>35 DEF RequestShutdown
  <1>36. CASE Crash
    BY <1>36 DEF Crash, DropStream, Fault
  <1>37. CASE Restart
    BY <1>37 DEF Restart
  <1>38. CASE UNCHANGED vars
    BY <1>38 DEF vars
  <1>39. QED
    BY <1>1, <1>2, <1>3, <1>4, <1>5, <1>6, <1>7, <1>8, <1>9, <1>10, <1>11,
       <1>12, <1>13, <1>14, <1>15, <1>16, <1>17, <1>18, <1>19, <1>20,
       <1>21, <1>22, <1>23, <1>24, <1>25, <1>26, <1>27, <1>28, <1>29,
       <1>30, <1>31, <1>32, <1>33, <1>34, <1>35, <1>36, <1>37, <1>38
    DEF Next, RunReplicator, InitialSyncStep, StreamStep, ResyncStep, Upstream,
        Poll, Process

\* Each step keeps every possible resume point covered.
LEMMA ReconnectNext == PositionsOK /\ SlotInv /\ CopiedInv /\ SessionInv /\
    ReconnectInv /\ TxnInv /\ [Next]_vars => ReconnectInv'
  <1> SUFFICES ASSUME PositionsOK, SlotInv, CopiedInv, SessionInv,
     ReconnectInv, TxnInv, [Next]_vars PROVE ReconnectInv'
    OBVIOUS
  <1> USE DEF PositionsOK, ControlOK, Session, SlotInv, RowsSound,
    NothingMissingBelow, PublishedThrough, IsPrefixState, IsLastWriter,
    CopiedInv, SessionInv, ReconnectInv, TxnInv, BeginNeverNested,
    upstreamVars, replicaVars, syncVars, txnVars, sessionVars, specVars,
    pollVars
  <1>1. CASE PrepareInitialSync
    BY <1>1 DEF PrepareInitialSync, ResetReplica
  <1>2. CASE PrepareFails
    BY <1>2 DEF PrepareFails, ResetReplica, Retry, Fault
  <1>3. CASE CreateSlot
    BY <1>3 DEF CreateSlot
  <1>4. CASE CreateSlotFails
    BY <1>4 DEF CreateSlotFails, Retry, Fault
  <1>5. CASE CopySnapshot
    BY <1>5 DEF CopySnapshot
  <1>6. CASE CopyFails
    BY <1>6 DEF CopyFails, Retry, Fault
  <1>7. CASE IntrospectSpecs
    BY <1>7, FreshCopyReconnects
  <1>8. CASE IntrospectFails
    BY <1>8 DEF IntrospectFails, Retry, Fault
  <1>9. CASE LoopExits
    BY <1>9 DEF LoopExits
  <1>10. CASE Connect
    BY <1>10 DEF Connect, LaterOf
  <1>11. CASE ConnectFails
    BY <1>11 DEF ConnectFails, Fault
  <1>12. CASE DeliverBegin
    BY <1>12 DEF DeliverBegin, NextMessage, FirstMessage
  <1>13. CASE DeliverDdl
    BY <1>13 DEF DeliverDdl, NextMessage
  <1>14. CASE DeliverRelation
    BY <1>14 DEF DeliverRelation, NextMessage
  <1>15. CASE DeliverRows
    BY <1>15 DEF DeliverRows, NextMessage
  <1>16. CASE DeliverCommit
    BY <1>16 DEF DeliverCommit, NextMessage, LaterOf
  <1>17. CASE SendAck
    BY <1>17 DEF SendAck, AckLsn
  <1>18. CASE PublishCommit
    BY <1>18 DEF PublishCommit, PublishedUpTo, DropStream, LaterOf
  <1>19. CASE StreamEnds
    BY <1>19, LeavingReconnects DEF StreamEnds
  <1>20. CASE ApplyFails
    BY <1>20, LeavingReconnects DEF ApplyFails, NextMessage
  <1>21. CASE PollTripped
    BY <1>21 DEF PollTripped, Drift, DropStream
  <1>22. CASE RelationDrift
    BY <1>22 DEF RelationDrift, Drift, DropStream
  <1>23. CASE DdlNeedsResync
    BY <1>23 DEF DdlNeedsResync, Drift, DropStream
  <1>24. CASE ResyncReset
    BY <1>24 DEF ResyncReset, ResetReplica, Rollback
  <1>25. CASE ResyncResetFails
    BY <1>25 DEF ResyncResetFails, Fault
  <1>26. CASE DropSlot
    BY <1>26 DEF DropSlot
  <1>27. CASE DropSlotFails
    BY <1>27 DEF DropSlotFails, Fault
  <1>28. CASE UpstreamCommit
    BY <1>28, LongerLog DEF UpstreamCommit
  <1>29. CASE ReceiveAck
    BY <1>29 DEF ReceiveAck
  <1>30. CASE WalsenderExit
    BY <1>30 DEF WalsenderExit
  <1>31. CASE SkipUnstreamed
    BY <1>31 DEF SkipUnstreamed
  <1>32. CASE PollIntrospect
    BY <1>32 DEF PollIntrospect, CurrentSchema
  <1>33. CASE PollCompare
    BY <1>33 DEF PollCompare
  <1>34. CASE QueryConnDies
    BY <1>34 DEF QueryConnDies, Fault
  <1>35. CASE RequestShutdown
    BY <1>35 DEF RequestShutdown
  <1>36. CASE Crash
    BY <1>36 DEF Crash, DropStream, Fault
  <1>37. CASE Restart
    BY <1>37 DEF Restart
  <1>38. CASE UNCHANGED vars
    BY <1>38 DEF vars
  <1>39. QED
    BY <1>1, <1>2, <1>3, <1>4, <1>5, <1>6, <1>7, <1>8, <1>9, <1>10, <1>11,
       <1>12, <1>13, <1>14, <1>15, <1>16, <1>17, <1>18, <1>19, <1>20,
       <1>21, <1>22, <1>23, <1>24, <1>25, <1>26, <1>27, <1>28, <1>29,
       <1>30, <1>31, <1>32, <1>33, <1>34, <1>35, <1>36, <1>37, <1>38
    DEF Next, RunReplicator, InitialSyncStep, StreamStep, ResyncStep, Upstream,
        Poll, Process

\* Each step keeps the open transaction equal to the rows plus one.
LEMMA TxnNext == PositionsOK /\ SlotInv /\ CopiedInv /\ SessionInv /\
    ReconnectInv /\ TxnInv /\ [Next]_vars => TxnInv'
  <1> SUFFICES ASSUME PositionsOK, SlotInv, CopiedInv, SessionInv,
     ReconnectInv, TxnInv, [Next]_vars PROVE TxnInv'
    OBVIOUS
  <1> USE DEF PositionsOK, ControlOK, Session, SlotInv, RowsSound,
    NothingMissingBelow, PublishedThrough, IsPrefixState, IsLastWriter,
    CopiedInv, SessionInv, ReconnectInv, TxnInv, BeginNeverNested,
    upstreamVars, replicaVars, syncVars, txnVars, sessionVars, specVars,
    pollVars
  <1>1. CASE PrepareInitialSync
    BY <1>1 DEF PrepareInitialSync, ResetReplica
  <1>2. CASE PrepareFails
    BY <1>2 DEF PrepareFails, ResetReplica, Retry, Fault
  <1>3. CASE CreateSlot
    BY <1>3 DEF CreateSlot
  <1>4. CASE CreateSlotFails
    BY <1>4 DEF CreateSlotFails, Retry, Fault
  <1>5. CASE CopySnapshot
    BY <1>5 DEF CopySnapshot
  <1>6. CASE CopyFails
    BY <1>6 DEF CopyFails, Retry, Fault
  <1>7. CASE IntrospectSpecs
    BY <1>7 DEF IntrospectSpecs, ClearSchemaChange, CurrentSchema
  <1>8. CASE IntrospectFails
    BY <1>8 DEF IntrospectFails, Retry, Fault
  <1>9. CASE LoopExits
    BY <1>9 DEF LoopExits
  <1>10. CASE Connect
    BY <1>10 DEF Connect, LaterOf
  <1>11. CASE ConnectFails
    BY <1>11 DEF ConnectFails, Fault
  <1>12. CASE DeliverBegin
    BY <1>12 DEF DeliverBegin, NextMessage, FirstMessage
  <1>13. CASE DeliverDdl
    BY <1>13 DEF DeliverDdl, NextMessage
  <1>14. CASE DeliverRelation
    BY <1>14 DEF DeliverRelation, NextMessage
  <1>15. CASE DeliverRows
    BY <1>15 DEF DeliverRows, NextMessage
  <1>16. CASE DeliverCommit
    BY <1>16 DEF DeliverCommit, NextMessage, LaterOf
  <1>17. CASE SendAck
    BY <1>17 DEF SendAck, AckLsn
  <1>18. CASE PublishCommit
    BY <1>18 DEF PublishCommit, PublishedUpTo, DropStream, LaterOf
  <1>19. CASE StreamEnds
    BY <1>19 DEF StreamEnds, LeaveStream, DropStream, Rollback,
      ConfirmedLsn, Fault
  <1>20. CASE ApplyFails
    BY <1>20 DEF ApplyFails, LeaveStream, DropStream, Rollback, ConfirmedLsn
  <1>21. CASE PollTripped
    BY <1>21 DEF PollTripped, Drift, DropStream
  <1>22. CASE RelationDrift
    BY <1>22 DEF RelationDrift, Drift, DropStream
  <1>23. CASE DdlNeedsResync
    BY <1>23 DEF DdlNeedsResync, Drift, DropStream
  <1>24. CASE ResyncReset
    BY <1>24 DEF ResyncReset, ResetReplica, Rollback
  <1>25. CASE ResyncResetFails
    BY <1>25 DEF ResyncResetFails, Fault
  <1>26. CASE DropSlot
    BY <1>26 DEF DropSlot
  <1>27. CASE DropSlotFails
    BY <1>27 DEF DropSlotFails, Fault
  <1>28. CASE UpstreamCommit
    <2>1. /\ Len(wal') = Len(wal) + 1
          /\ \A i \in 1..Len(wal) : wal'[i] = wal[i]
      BY <1>28, CommitAppends
    <2>2. UNCHANGED <<pc, phase, inTxn, txRows, rows, pos>>
      BY <1>28 DEF UpstreamCommit
    <2>3. BeginNeverNested'
      BY <2>2 DEF TxnInv, BeginNeverNested
    <2>4. (pc = "stream" /\ phase # "begin") => pos + 1 \in 1..Len(wal)
      BY DEF TxnInv, PositionsOK
    <2>5. (pc' = "stream" /\ phase' # "begin") => pos' < Len(wal')
      BY <2>1, <2>2, <2>4 DEF PositionsOK
    <2>6. (pc' = "stream" /\ phase' = "commit") => wal'[pos' + 1] = wal[pos + 1]
      BY <2>1, <2>2, <2>4
    <2>7. QED
      BY <2>2, <2>3, <2>5, <2>6 DEF TxnInv
  <1>29. CASE ReceiveAck
    BY <1>29 DEF ReceiveAck
  <1>30. CASE WalsenderExit
    BY <1>30 DEF WalsenderExit
  <1>31. CASE SkipUnstreamed
    BY <1>31 DEF SkipUnstreamed
  <1>32. CASE PollIntrospect
    BY <1>32 DEF PollIntrospect, CurrentSchema
  <1>33. CASE PollCompare
    BY <1>33 DEF PollCompare
  <1>34. CASE QueryConnDies
    BY <1>34 DEF QueryConnDies, Fault
  <1>35. CASE RequestShutdown
    BY <1>35 DEF RequestShutdown
  <1>36. CASE Crash
    BY <1>36 DEF Crash, DropStream, Fault
  <1>37. CASE Restart
    BY <1>37 DEF Restart
  <1>38. CASE UNCHANGED vars
    BY <1>38 DEF vars
  <1>39. QED
    BY <1>1, <1>2, <1>3, <1>4, <1>5, <1>6, <1>7, <1>8, <1>9, <1>10, <1>11,
       <1>12, <1>13, <1>14, <1>15, <1>16, <1>17, <1>18, <1>19, <1>20,
       <1>21, <1>22, <1>23, <1>24, <1>25, <1>26, <1>27, <1>28, <1>29,
       <1>30, <1>31, <1>32, <1>33, <1>34, <1>35, <1>36, <1>37, <1>38
    DEF Next, RunReplicator, InitialSyncStep, StreamStep, ResyncStep, Upstream,
        Poll, Process

\* A started process satisfies the inductive invariant.
LEMMA InvInit == Init => ReplicatorInv
  <1> SUFFICES ASSUME Init PROVE ReplicatorInv
    OBVIOUS
  <1>1. FlagsOK
    BY Zenon DEF Init, FlagsOK
  <1>2. ControlOK
    BY Zenon DEF Init, ControlOK
  <1>3. PositionsOK /\ CountersOK
    BY BoundsAssumption DEF Init, PositionsOK, CountersOK
  <1>4. SlotInv
    <2>1. slotActive => slotExists
      BY Zenon DEF Init
    <2>2. QED
      BY <2>1 DEF Init, SlotInv, Session
  <1>5. CopiedInv /\ SessionInv /\ ReconnectInv
    BY DEF Init, CopiedInv, SessionInv, ReconnectInv, Session
  <1>6. TxnInv
    BY DEF Init, TxnInv, BeginNeverNested
  <1>7. QED
    BY <1>1, <1>2, <1>3, <1>4, <1>5, <1>6 DEF ReplicatorInv, TypeOK

\* ReplicatorInv is inductive: the safety properties rest on it.
THEOREM ReplicatorInvariance == Spec => []ReplicatorInv
  <1>1. ReplicatorInv /\ [Next]_vars => ReplicatorInv'
    BY FlagsNext, ControlNext, PositionsNext, CountersNext, SlotNext,
       CopiedNext, SessionNext, ReconnectNext, TxnNext
       DEF ReplicatorInv, TypeOK
  <1>2. QED
    BY InvInit, <1>1, PTL DEF Spec

\* Every variable keeps its type: positions never leave the upstream log.
THEOREM TypeCorrect == Spec => []TypeOK
  <1>1. ReplicatorInv => TypeOK
    BY DEF ReplicatorInv
  <1>2. QED
    BY <1>1, ReplicatorInvariance, PTL

\* "The slot never moves past data the replica hasn't durably applied", for
\* any number of keys, transactions, faults and restarts.
THEOREM SlotSafety == Spec => []SlotNeverPastDurable
  <1>1. ReplicatorInv => SlotNeverPastDurable
    <2> SUFFICES ASSUME ReplicatorInv, Following,
                        NEW k \in Keys,
                        NEW i \in 1..LaterOf(confirmed, acking),
                        k \in wal[i].keys
                 PROVE  rows[k] >= i
      BY DEF SlotNeverPastDurable
    <2>1. confirmed \in Nat /\ acking \in Nat /\ pos \in Nat
      BY DEF ReplicatorInv, TypeOK, PositionsOK
    <2>2. CASE pc \in Session
      BY <2>1, <2>2 DEF ReplicatorInv, SessionInv, NothingMissingBelow, LaterOf
    <2>3. CASE pc = "connect"
      BY <2>1, <2>3 DEF ReplicatorInv, ReconnectInv, NothingMissingBelow,
                        LaterOf
    <2>4. QED
      BY <2>2, <2>3 DEF Following
  <1>2. QED
    BY <1>1, ReplicatorInvariance, PTL

\* Past the replay, the committed rows are those of an upstream prefix.
THEOREM PrefixSafety == Spec => []CaughtUpIsPrefix
  <1>1. ReplicatorInv => CaughtUpIsPrefix
    <2> SUFFICES ASSUME ReplicatorInv, pc \in Session, pos >= applied,
                        NEW k \in Keys
                 PROVE  IsLastWriter(k, pos, rows[k])
      BY DEF CaughtUpIsPrefix, IsPrefixState
    <2>1. /\ pos \in 0..Len(wal) /\ applied \in Nat /\ Len(wal) \in Nat
          /\ rows[k] \in Nat
      BY DEF ReplicatorInv, TypeOK, PositionsOK
    <2>2. RowsSound /\ NothingMissingBelow(pos)
      BY DEF ReplicatorInv, SessionInv
    <2>3. rows[k] \in 0..pos /\ (rows[k] > 0 => k \in wal[rows[k]].keys)
      BY <2>1, <2>2 DEF RowsSound
    <2>4. \A i \in (rows[k] + 1)..pos : k \notin wal[i].keys
      BY <2>1, <2>2 DEF NothingMissingBelow
    <2>5. QED
      BY <2>3, <2>4 DEF IsLastWriter
  <1>2. QED
    BY <1>1, ReplicatorInvariance, PTL

\* No error path leaves a transaction open under the next Begin.
THEOREM NestingSafety == Spec => []BeginNeverNested
  <1>1. ReplicatorInv => BeginNeverNested
    BY DEF ReplicatorInv, TxnInv
  <1>2. QED
    BY <1>1, ReplicatorInvariance, PTL

\* The slot never passes a streamed commit that was not published.
THEOREM PublishSafety == Spec => []AckedIsPublished
  <1>1. ReplicatorInv => AckedIsPublished
    <2> SUFFICES ASSUME ReplicatorInv, pc \in {"stream", "connect"},
                        NEW n \in (snapshot + 1)..LaterOf(confirmed, acking),
                        Streamed(wal[n])
                 PROVE  n <= published
      BY DEF AckedIsPublished
    <2>1. confirmed \in Nat /\ acking \in Nat /\ pos \in Nat /\ snapshot
       \in Nat
      BY DEF ReplicatorInv, TypeOK, PositionsOK
    <2>2. CASE pc = "stream"
      BY <2>1, <2>2 DEF ReplicatorInv, SessionInv, Session, PublishedThrough,
                        LaterOf
    <2>3. CASE pc = "connect"
      BY <2>1, <2>3 DEF ReplicatorInv, ReconnectInv, PublishedThrough, LaterOf
    <2>4. QED
      BY <2>2, <2>3
  <1>2. QED
    BY <1>1, ReplicatorInvariance, PTL

-----------------------------------------------------------------------------
(* The replica's schema                                                    *)

\* Schema versions only grow along the log, and what pgoutput leaves out of
\* the stream is DDL without an event trigger.
LogGrows ==
    \A i \in 1..Len(wal) :
        /\ Streamed(wal[i]) \/ wal[i].ddl = "silent"
        /\ wal[i].schema >= 1
        /\ \A j \in i..Len(wal) : wal[i].schema <= wal[j].schema

\* Whatever a next session may resume from was applied, and the committed
\* schema is the one that the last transaction applied was written with.
AppliedSchema ==
    pc \in Session \cup {"introspect", "connect"} =>
        /\ replicaSchema = SchemaAt(applied)
        /\ confirmed <= applied /\ acking <= applied
        /\ pc # "introspect" => resume <= applied
        /\ pc \in Session => flushLsn <= applied

\* A transaction that replays cannot change the schema: its DDL is refused.
OpenSchema ==
    (pc = "stream" /\ phase # "begin") =>
        /\ phase = "ddl" => txSchema = replicaSchema
        /\ phase = "data" =>
              \/ txSchema = replicaSchema
              \/ txSchema = replicaSchema + 1 /\ txSchema = wal[pos + 1].schema
        /\ phase = "commit" =>
              /\ txSchema = wal[pos + 1].schema
              /\ txSchema \in {replicaSchema, replicaSchema + 1}

SchemaInv == LogGrows /\ AppliedSchema /\ OpenSchema /\ SchemaFollowsStream

\* A commit upstream adds a version that is not earlier, and leaves the
\* schema at every position so far as it was.
LEMMA LongerLogSchema ==
    ASSUME PositionsOK, CountersOK, TxnInv, SchemaInv, UpstreamCommit
    PROVE  SchemaInv'
  <1>1. PICK ks \in SUBSET Keys, d \in DdlKinds \cup {"none"} :
           /\ ks # {} \/ d # "none"
           /\ wal' = Append(wal, [keys   |-> ks, ddl |-> d,
                                  schema |-> CurrentSchema
                                             + (IF d = "none" THEN 0 ELSE 1)])
    BY DEF UpstreamCommit
  <1>2. /\ Len(wal) \in Nat /\ Len(wal') = Len(wal) + 1
        /\ \A i \in 1..Len(wal) : wal'[i] = wal[i]
    BY CommitAppends DEF PositionsOK
  <1>3. Len(wal) \in 0..Len(wal)
    BY <1>2
  <1>4. CurrentSchema \in Nat
    BY <1>3, SchemaAtType DEF CurrentSchema
  <1>5. /\ wal'[Len(wal) + 1].schema \in Nat
        /\ wal'[Len(wal) + 1].schema >= CurrentSchema
        /\ Streamed(wal'[Len(wal) + 1]) \/ wal'[Len(wal) + 1].ddl = "silent"
    <2>1. wal \in Seq(Txn)
      BY DEF PositionsOK
    <2>2. [keys |-> ks, ddl |-> d,
           schema |-> CurrentSchema + (IF d = "none" THEN 0 ELSE 1)] \in Txn
      BY <1>4 DEF Txn
    <2>3. wal'[Len(wal) + 1]
            = [keys |-> ks, ddl |-> d,
               schema |-> CurrentSchema + (IF d = "none" THEN 0 ELSE 1)]
      BY <1>1, <2>1, <2>2, AppendFacts
    <2>4. Streamed(wal'[Len(wal) + 1]) \/ wal'[Len(wal) + 1].ddl = "silent"
      BY <1>1, <2>3, DdlKindsAssumption DEF Streamed
    <2> QED
      BY <1>4, <2>3, <2>4
  <1>6. \A i \in 1..Len(wal) : /\ wal[i].schema \in Nat
                               /\ wal[i].schema >= 1
                               /\ wal[i].schema <= CurrentSchema
    <2>1. \A i \in 1..Len(wal) : wal[i] \in Txn
      BY DEF PositionsOK
    <2>2. \A i \in 1..Len(wal) : wal[i].schema \in Nat
      BY <2>1 DEF Txn
    <2>3. \A i \in 1..Len(wal) : Len(wal) \in i..Len(wal) /\ Len(wal) # 0
      BY <1>2
    <2> QED
      BY <2>2, <2>3 DEF SchemaInv, LogGrows, CurrentSchema, SchemaAt
  <1>7. CurrentSchema >= 1
    <2>1. CASE Len(wal) = 0
      BY <2>1 DEF CurrentSchema, SchemaAt
    <2>2. CASE Len(wal) # 0
      <3>1. Len(wal) \in 1..Len(wal)
        BY <1>2, <2>2
      <3> QED
        BY <1>4, <1>6, <3>1
    <2> QED
      BY <2>1, <2>2
  <1>8. LogGrows'
    <2> SUFFICES ASSUME NEW i \in 1..(Len(wal) + 1)
                 PROVE  /\ Streamed(wal'[i]) \/ wal'[i].ddl = "silent"
                        /\ wal'[i].schema >= 1
                        /\ \A j \in i..(Len(wal) + 1) :
                              wal'[i].schema <= wal'[j].schema
      BY <1>2 DEF LogGrows
    <2>1. CASE i = Len(wal) + 1
      BY <1>2, <1>4, <1>5, <1>7, <2>1
    <2>2. CASE i # Len(wal) + 1
      <3>1. i \in 1..Len(wal)
        BY <1>2, <2>2
      <3>2. ASSUME NEW j \in i..(Len(wal) + 1), j # Len(wal) + 1
            PROVE  wal'[i].schema <= wal'[j].schema
        <4>1. j \in i..Len(wal) /\ j \in 1..Len(wal)
          BY <1>2, <3>1, <3>2
        <4> QED
          BY <1>2, <3>1, <4>1 DEF SchemaInv, LogGrows
      <3>3. wal'[i].schema <= wal'[Len(wal) + 1].schema
        BY <1>2, <1>4, <1>5, <1>6, <3>1
      <3>4. Streamed(wal'[i]) \/ wal'[i].ddl = "silent"
        BY <1>2, <3>1 DEF SchemaInv, LogGrows, Streamed
      <3> QED
        BY <1>2, <1>6, <3>1, <3>2, <3>3, <3>4
    <2> QED
      BY <2>1, <2>2
  <1>9. /\ UNCHANGED <<confirmed, acking, replicaSchema, applied, pc, txSchema,
                       pos, phase, flushLsn, resume>>
        /\ applied \in 0..Len(wal) /\ pos \in 0..Len(wal)
    BY DEF UpstreamCommit, PositionsOK, replicaVars, txnVars, sessionVars
  <1>10. SchemaAt(applied)' = SchemaAt(applied) /\ SchemaAt(pos)' = SchemaAt(pos)
    BY <1>2, <1>9 DEF SchemaAt
  <1>11. AppliedSchema'
    BY <1>9, <1>10 DEF SchemaInv, AppliedSchema
  <1>12. OpenSchema'
    <2>1. (pc = "stream" /\ phase # "begin") => pos + 1 \in 1..Len(wal)
      BY <1>2, <1>9 DEF TxnInv
    <2> QED
      BY <1>2, <1>9, <2>1 DEF SchemaInv, OpenSchema
  <1>13. SchemaFollowsStream'
    <2>1. \A i \in 1..pos : wal'[i] = wal[i]
      BY <1>2, <1>9
    <2> QED
      BY <1>9, <1>10, <2>1 DEF SchemaInv, SchemaFollowsStream
  <1> QED
    BY <1>8, <1>11, <1>12, <1>13 DEF SchemaInv

\* The schema of the transaction received is the one it commits with; one
\* that was applied before commits with the schema the replica has.
LEMMA CommitSchema ==
    ASSUME PositionsOK, CountersOK, SlotInv, SessionInv, TxnInv, SchemaInv,
           DeliverCommit
    PROVE  SchemaInv'
  <1>1. /\ pc = "stream" /\ phase = "commit" /\ pc' = "ack"
        /\ phase' = "begin" /\ pos' = pos + 1
        /\ pos \in Nat /\ pos + 1 \in 1..Len(wal) /\ Len(wal) \in Nat
        /\ applied \in 0..Len(wal) /\ applied' = LaterOf(applied, pos + 1)
        /\ flushLsn \in Nat /\ flushLsn' = LaterOf(flushLsn, pos + 1)
        /\ confirmed \in Nat /\ acking \in Nat /\ resume \in Nat
        /\ replicaSchema' = txSchema
        /\ UNCHANGED <<wal, confirmed, acking, resume>>
    BY DEF DeliverCommit, NextMessage, PositionsOK, upstreamVars
  <1>2. /\ replicaSchema = SchemaAt(applied)
        /\ confirmed <= applied /\ acking <= applied /\ resume <= applied
        /\ flushLsn <= applied
        /\ txSchema = wal[pos + 1].schema
        /\ txSchema \in {replicaSchema, replicaSchema + 1}
        /\ replicaSchema \in Nat /\ txSchema \in Nat
    BY <1>1 DEF SchemaInv, AppliedSchema, OpenSchema, Session, CountersOK
  <1>3. txSchema = SchemaAt(applied')
    <2>1. CASE applied < pos + 1
      BY <1>1, <1>2, <2>1 DEF SchemaAt, LaterOf
    <2>2. CASE applied >= pos + 1
      <3>1. applied' = applied /\ applied # 0 /\ applied \in (pos + 1)..Len(wal)
        BY <1>1, <2>2 DEF LaterOf
      <3>2. wal[pos + 1].schema <= wal[applied].schema
        BY <1>1, <3>1 DEF SchemaInv, LogGrows
      <3> QED
        BY <1>2, <3>1, <3>2 DEF SchemaAt
    <2> QED
      BY <1>1, <2>1, <2>2
  <1>4. AppliedSchema'
    BY <1>1, <1>2, <1>3 DEF AppliedSchema, SchemaAt, LaterOf, Session
  <1>5. SchemaFollowsStream'
    BY <1>1, <1>2 DEF SchemaFollowsStream, SchemaAt
  <1>6. LogGrows' /\ OpenSchema'
    BY <1>1 DEF SchemaInv, LogGrows, OpenSchema
  <1> QED
    BY <1>4, <1>5, <1>6 DEF SchemaInv

\* A transaction that is not streamed wrote nothing, or changed the schema
\* silently.
LEMMA SkipSchema ==
    ASSUME PositionsOK, CountersOK, SessionInv, SchemaInv,
           SkipUnstreamed
    PROVE  SchemaInv'
  <1>1. /\ pc = "stream" /\ phase = "begin" /\ pos \in Nat /\ pos' = pos + 1
        /\ pos + 1 \in 1..Len(wal) /\ Len(wal) \in Nat
        /\ ~Streamed(wal[pos + 1])
        /\ UNCHANGED <<wal, confirmed, acking, resume, flushLsn, pc, phase,
                       applied, replicaSchema, txSchema>>
    BY DEF SkipUnstreamed, PositionsOK, upstreamVars, replicaVars, txnVars
  <1>2. wal[pos + 1].ddl = "silent"
    BY <1>1 DEF SchemaInv, LogGrows
  <1>3. SchemaFollowsStream'
    BY <1>1, <1>2 DEF SchemaFollowsStream
  <1>4. LogGrows' /\ AppliedSchema' /\ OpenSchema'
    BY <1>1 DEF SchemaInv, LogGrows, AppliedSchema, OpenSchema, SchemaAt
  <1> QED
    BY <1>3, <1>4 DEF SchemaInv

\* A session that ends changes nothing of the replica, and the next one
\* resumes from a position that was applied.
LEMMA LeaveSchema ==
    ASSUME PositionsOK, SchemaInv, pc \in {"stream", "ack"}, LeaveStream
    PROVE  SchemaInv'
  <1>1. /\ pc' \in {"stopped", "connect"}
        /\ acking' \in {0, acking}
        /\ resume' \in {resume, confirmed}
        /\ applied \in Nat
        /\ UNCHANGED <<wal, confirmed, replicaSchema, applied>>
    BY DEF LeaveStream, DropStream, ConfirmedLsn, replicaVars, PositionsOK
  <1>2. /\ replicaSchema = SchemaAt(applied)
        /\ confirmed <= applied /\ acking <= applied /\ resume <= applied
    BY DEF SchemaInv, AppliedSchema, Session
  <1>3. AppliedSchema'
    BY <1>1, <1>2 DEF AppliedSchema, Session, SchemaAt
  <1>4. LogGrows' /\ OpenSchema' /\ SchemaFollowsStream'
    BY <1>1 DEF SchemaInv, LogGrows, OpenSchema, SchemaFollowsStream, Session
  <1> QED
    BY <1>3, <1>4 DEF SchemaInv

\* Each step keeps the schema that of the last transaction applied.
LEMMA SchemaNext == ReplicatorInv /\ SchemaInv /\ [Next]_vars => SchemaInv'
  <1> SUFFICES ASSUME PositionsOK, ControlOK, CountersOK, SlotInv, CopiedInv,
                      SessionInv, ReconnectInv, TxnInv, SchemaInv, [Next]_vars
               PROVE  SchemaInv'
    BY DEF ReplicatorInv, TypeOK
  <1> USE DEF PositionsOK, CountersOK, Session, SlotInv, CopiedInv, SchemaInv, LogGrows,
    AppliedSchema, OpenSchema, SchemaFollowsStream, SchemaAt,
    upstreamVars, replicaVars, syncVars, txnVars, sessionVars, specVars,
    pollVars
  <1>1. CASE PrepareInitialSync
    BY <1>1 DEF PrepareInitialSync, ResetReplica
  <1>2. CASE PrepareFails
    BY <1>2 DEF PrepareFails, ResetReplica, Retry, Fault
  <1>3. CASE CreateSlot
    BY <1>3 DEF CreateSlot
  <1>4. CASE CreateSlotFails
    BY <1>4 DEF CreateSlotFails, Retry, Fault
  <1>5. CASE CopySnapshot
    BY <1>5 DEF CopySnapshot
  <1>6. CASE CopyFails
    BY <1>6 DEF CopyFails, Retry, Fault
  <1>7. CASE IntrospectSpecs
    BY <1>7 DEF IntrospectSpecs
  <1>8. CASE IntrospectFails
    BY <1>8 DEF IntrospectFails, Retry, Fault
  <1>9. CASE LoopExits
    BY <1>9 DEF LoopExits
  <1>10. CASE Connect
    <2>1. /\ applied \in Nat /\ confirmed \in Nat /\ resume \in Nat
          /\ pos' = LaterOf(resume, confirmed)
          /\ replicaSchema = SchemaAt(applied)
          /\ confirmed <= applied /\ resume <= applied
          /\ acking' = 0 /\ flushLsn' = 0 /\ phase' = "begin"
          /\ UNCHANGED <<wal, replicaSchema, applied, confirmed, resume>>
      BY <1>10 DEF Connect
    <2>2. AppliedSchema'
      BY <2>1
    <2>3. SchemaFollowsStream'
      BY <2>1 DEF LaterOf
    <2> QED
      BY <2>1, <2>2, <2>3
  <1>11. CASE ConnectFails
    BY <1>11 DEF ConnectFails, Fault
  <1>12. CASE DeliverBegin
    BY <1>12 DEF DeliverBegin, NextMessage, FirstMessage
  <1>13. CASE DeliverDdl
    BY <1>13 DEF DeliverDdl, NextMessage
  <1>14. CASE DeliverRelation
    BY <1>14 DEF DeliverRelation, NextMessage
  <1>15. CASE DeliverRows
    BY <1>15 DEF DeliverRows, NextMessage
  <1>16. CASE DeliverCommit
    BY <1>16, CommitSchema
  <1>17. CASE SendAck
    BY <1>17 DEF SendAck, AckLsn
  <1>18. CASE PublishCommit
    <2>1. /\ pc \in Session /\ pc' \in {"stopped", "stream"}
          /\ pc' = "stream" => acking' = acking
          /\ UNCHANGED <<wal, confirmed, replicaSchema, applied, txSchema,
                         pos, phase, flushLsn, resume>>
      BY <1>18 DEF PublishCommit
    <2>2. LogGrows' /\ AppliedSchema'
      BY <2>1
    <2>3. phase = "begin"
      BY <1>18 DEF PublishCommit, SessionInv
    <2>4. OpenSchema'
      BY <2>1, <2>3
    <2>5. SchemaFollowsStream'
      BY <2>1
    <2> QED
      BY <2>2, <2>4, <2>5
  <1>19. CASE StreamEnds
    BY <1>19, LeaveSchema DEF StreamEnds
  <1>20. CASE ApplyFails
    <2>1. pc = "stream" /\ LeaveStream
      BY <1>20 DEF ApplyFails, NextMessage
    <2> QED
      BY <2>1, LeaveSchema
  <1>21. CASE PollTripped
    BY <1>21 DEF PollTripped, Drift, DropStream
  <1>22. CASE RelationDrift
    BY <1>22 DEF RelationDrift, Drift, DropStream
  <1>23. CASE DdlNeedsResync
    BY <1>23 DEF DdlNeedsResync, Drift, DropStream
  <1>24. CASE ResyncReset
    BY <1>24 DEF ResyncReset, ResetReplica, Rollback
  <1>25. CASE ResyncResetFails
    BY <1>25 DEF ResyncResetFails, Fault
  <1>26. CASE DropSlot
    BY <1>26 DEF DropSlot
  <1>27. CASE DropSlotFails
    BY <1>27 DEF DropSlotFails, Fault
  <1>28. CASE UpstreamCommit
    BY <1>28, LongerLogSchema
  <1>29. CASE ReceiveAck
    BY <1>29 DEF ReceiveAck
  <1>30. CASE WalsenderExit
    BY <1>30 DEF WalsenderExit
  <1>31. CASE SkipUnstreamed
    BY <1>31, SkipSchema
  <1>32. CASE PollIntrospect
    BY <1>32 DEF PollIntrospect, CurrentSchema
  <1>33. CASE PollCompare
    BY <1>33 DEF PollCompare
  <1>34. CASE QueryConnDies
    BY <1>34 DEF QueryConnDies, Fault
  <1>35. CASE RequestShutdown
    BY <1>35 DEF RequestShutdown
  <1>36. CASE Crash
    BY <1>36 DEF Crash, DropStream, Fault
  <1>37. CASE Restart
    BY <1>37 DEF Restart
  <1>38. CASE UNCHANGED vars
    BY <1>38 DEF vars
  <1>39. QED
    BY <1>1, <1>2, <1>3, <1>4, <1>5, <1>6, <1>7, <1>8, <1>9, <1>10, <1>11,
       <1>12, <1>13, <1>14, <1>15, <1>16, <1>17, <1>18, <1>19, <1>20,
       <1>21, <1>22, <1>23, <1>24, <1>25, <1>26, <1>27, <1>28, <1>29,
       <1>30, <1>31, <1>32, <1>33, <1>34, <1>35, <1>36, <1>37, <1>38
    DEF Next, RunReplicator, InitialSyncStep, StreamStep, ResyncStep, Upstream,
        Poll, Process

\* Inline DDL keeps the replica's schema that of the last transaction it
\* applied, replayed transactions and failed sessions included, until a DDL
\* that no event trigger reports: whatever is replayed after a lost
\* acknowledgement, no schema change is applied twice or out of order.
THEOREM SchemaSafety == Spec => []SchemaFollowsStream
  <1>1. Init => SchemaInv
    BY DEF Init, SchemaInv, LogGrows, AppliedSchema, OpenSchema,
           SchemaFollowsStream, Session
  <1>2. SchemaInv => SchemaFollowsStream
    BY DEF SchemaInv
  <1> QED
    BY <1>1, <1>2, SchemaNext, ReplicatorInvariance, PTL DEF Spec
=============================================================================
